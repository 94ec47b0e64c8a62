------------------------- MODULE ExpirySweepProofs -------------------------
(***************************************************************************)
(* Proofs about ExpirySweep: which rule the scan of the deadline rules     *)
(* returns, whatever their order, and what a sweep does to the cases.      *)
(***************************************************************************)
EXTENDS ExpirySweep, ReferenceData, FunctionTheorems, FiniteSetTheorems,
        WellFoundedInduction, TLAPS

USE TableAssumption, ClockAssumption, RulesAssumption

-----------------------------------------------------------------------------
(***************************************************************************)
(* The scan.  Its loop is a recursive function, which is the CHOOSE of     *)
(* every function that satisfies the recursion: such a function is shown   *)
(* to exist, and what holds of each of its values is shown by looking at   *)
(* the least index at which it would not.                                  *)
(***************************************************************************)

\* A nonempty set of numbers has a least one.
LEMMA LeastElement ==
    ASSUME NEW T, T \subseteq Nat, T # {}
    PROVE  \E m \in T : \A k \in T : m <= k
<1>1. PICK R : R = {p \in Nat \X Nat : p[1] < p[2]}
  OBVIOUS
<1>2. R = OpToRel(<, Nat)
  BY <1>1 DEF OpToRel
<1>3. IsWellFoundedOn(R, Nat)
  BY <1>2, NatLessThanWellFounded
<1>4. PICK m \in T : \A k \in T : <<k, m>> \notin R
  BY <1>3, WFMin
<1>5. \A k, j \in Nat : k < j => <<k, j>> \in R
  BY <1>1
<1>6. m \in Nat /\ \A k \in T : k \in Nat /\ ~(k < m)
  BY <1>4, <1>5
<1> QED
  BY <1>4, <1>6

\* What the loop holds after row, when it held best before.
Better(best, row, m) ==
    IF /\ Candidate(row, m)
       /\ \/ best = NoRule
          \/ Score(row, m) > Score(best, m)
    THEN row ELSE best

\* f holds the best rule after each of the first n rows.
Scans(f, rows, m, n) ==
    f = [i \in 0..n |-> IF i = 0 THEN NoRule ELSE Better(f[i - 1], rows[i], m)]

\* The same, entry by entry.
LEMMA ScansAt ==
    ASSUME NEW f, NEW rows, NEW m, NEW n \in Nat, Scans(f, rows, m, n)
    PROVE  /\ f[0] = NoRule
           /\ \A i \in 1..n : f[i] = Better(f[i - 1], rows[i], m)
<1> DEFINE Entry(i) == IF i = 0 THEN NoRule ELSE Better(f[i - 1], rows[i], m)
<1>1. f = [i \in 0..n |-> Entry(i)]
  BY DEF Scans
<1>2. \A i \in 0..n : f[i] = Entry(i)
  <2> HIDE DEF Entry
  <2> QED BY <1>1
<1>3. 0 \in 0..n /\ \A i \in 1..n : i \in 0..n /\ i # 0
  OBVIOUS
<1> QED
  BY <1>2, <1>3

\* A table of any length can be scanned.
LEMMA ScanExists ==
    ASSUME NEW rows, NEW m, NEW n \in Nat
    PROVE  \E f : Scans(f, rows, m, n)
<1> PICK T : T = {k \in Nat : ~ \E f : Scans(f, rows, m, k)}
  OBVIOUS
<1> SUFFICES ASSUME T # {} PROVE FALSE
  OBVIOUS
<1>1. PICK k \in T : \A j \in T : k <= j
  BY LeastElement
<1>2. k \in Nat /\ ~ \E f : Scans(f, rows, m, k)
  BY <1>1
<1>3. CASE k = 0
  <2>1. PICK g : g = [i \in 0..0 |-> NoRule]
    OBVIOUS
  <2>2. g = [i \in 0..0 |-> IF i = 0 THEN NoRule ELSE Better(g[i - 1], rows[i], m)]
    BY <2>1
  <2> QED
    BY <1>2, <1>3, <2>2 DEF Scans
<1>4. CASE k # 0
  <2>1. k - 1 \in Nat /\ k - 1 \notin T
    BY <1>1, <1>2, <1>4
  <2>2. PICK f : Scans(f, rows, m, k - 1)
    BY <2>1
  <2>3. PICK last : last = Better(f[k - 1], rows[k], m)
    OBVIOUS
  <2>4. PICK g : g = [i \in 0..k |-> IF i = k THEN last ELSE f[i]]
    OBVIOUS
  <2>5. \A i \in 0..k : g[i] = IF i = k THEN last ELSE f[i]
    BY <2>4
  <2>6. \A i \in 0..k : i # k => i \in 0..(k - 1)
    BY <1>2, <1>4
  <2>7. \A i \in 1..k : i - 1 \in 0..k /\ i - 1 # k /\ (i # k => i \in 1..(k - 1))
    BY <1>2, <1>4
  <2>8. f[0] = NoRule /\ \A i \in 1..(k - 1) : f[i] = Better(f[i - 1], rows[i], m)
    BY <2>1, <2>2, ScansAt
  <2>9. g[0] = NoRule
    BY <2>5, <2>8, <1>2, <1>4
  <2>10. \A i \in 1..k : g[i] = Better(g[i - 1], rows[i], m)
    <3> TAKE i \in 1..k
    <3>1. g[i - 1] = f[i - 1]
      BY <2>5, <2>7
    <3>2. CASE i = k
      BY <3>1, <3>2, <2>3, <2>5
    <3>3. CASE i # k
      BY <3>1, <3>3, <2>5, <2>7, <2>8
    <3> QED
      BY <3>2, <3>3
  <2>11. \A i \in 0..k : i # 0 => i \in 1..k
    BY <1>2
  <2>12. g = [i \in 0..k |-> g[i]]
    BY <2>4
  <2>13. \A i \in 0..k : g[i] = IF i = 0 THEN NoRule ELSE Better(g[i - 1], rows[i], m)
    BY <2>9, <2>10, <2>11
  <2>14. g = [i \in 0..k |-> IF i = 0 THEN NoRule ELSE Better(g[i - 1], rows[i], m)]
    <3> DEFINE Entry(i) == IF i = 0 THEN NoRule ELSE Better(g[i - 1], rows[i], m)
    <3>1. \A i \in 0..k : g[i] = Entry(i)
      BY <2>13
    <3> HIDE DEF Entry
    <3>2. g = [i \in 0..k |-> Entry(i)]
      BY <2>12, <3>1
    <3> QED
      BY <3>2 DEF Entry
  <2> QED
    BY <1>2, <2>14 DEF Scans
<1> QED
  BY <1>3, <1>4

\* The rule the code selects is the last entry of the scan.
LEMMA SelectedByScan ==
    ASSUME NEW rows, NEW m, Len(rows) \in Nat
    PROVE  \E f : Scans(f, rows, m, Len(rows)) /\ SelectDeadlineRule(rows, m) = f[Len(rows)]
<1> DEFINE best == CHOOSE f : Scans(f, rows, m, Len(rows))
<1>1. Scans(best, rows, m, Len(rows))
  BY ScanExists
<1>2. SelectDeadlineRule(rows, m) = best[Len(rows)]
  BY Zenon DEF SelectDeadlineRule, Scans, Better
<1> QED
  BY <1>1, <1>2
\* f[i] is the best of the first i rows: none applies to m, or it is one that
\* does and no other that does has a higher score.
BestSoFar(best, rows, m, i) ==
    /\ best = NoRule => \A j \in 1..i : ~Candidate(rows[j], m)
    /\ best # NoRule =>
        /\ Candidate(best, m)
        /\ \E j \in 1..i : best = rows[j]
        /\ \A j \in 1..i : Candidate(rows[j], m) => Score(rows[j], m) <= Score(best, m)

\* Scores are numbers.
LEMMA ScoreIsNat ==
    \A rule, m : Score(rule, m) \in 0..3
BY DEF Score

\* One row more: the best so far stays the best so far.
LEMMA BetterIsBest ==
    ASSUME NEW best, NEW rows, NEW m, NEW i \in Nat \ {0},
           rows[i] # NoRule, BestSoFar(best, rows, m, i - 1)
    PROVE  BestSoFar(Better(best, rows[i], m), rows, m, i)
<1>1. \A j \in 1..i : j = i \/ j \in 1..(i - 1)
  OBVIOUS
<1>2. i \in 1..i /\ \A j \in 1..(i - 1) : j \in 1..i
  OBVIOUS
<1>3. CASE Better(best, rows[i], m) = best /\ ~(Candidate(rows[i], m) /\ best = NoRule)
  <2>1. Candidate(rows[i], m) => ~(Score(rows[i], m) > Score(best, m)) \/ rows[i] = best
    BY <1>3 DEF Better
  <2>2. Candidate(rows[i], m) => Score(rows[i], m) <= Score(best, m)
    BY <2>1, ScoreIsNat
  <2> QED
    BY <1>1, <1>2, <1>3, <2>2 DEF BestSoFar
<1>4. CASE Candidate(rows[i], m) /\ (best = NoRule \/ Score(rows[i], m) > Score(best, m))
  <2>1. Better(best, rows[i], m) = rows[i]
    BY <1>4 DEF Better
  <2>2. ASSUME NEW j \in 1..i, Candidate(rows[j], m)
        PROVE  Score(rows[j], m) <= Score(rows[i], m)
    <3>1. CASE j = i
      BY <3>1, ScoreIsNat
    <3>2. CASE j \in 1..(i - 1)
      <4>1. best # NoRule
        BY <2>2, <3>2 DEF BestSoFar
      <4>2. Score(rows[j], m) <= Score(best, m) /\ Score(best, m) < Score(rows[i], m)
        BY <1>4, <2>2, <3>2, <4>1, ScoreIsNat DEF BestSoFar
      <4> QED
        BY <4>2, ScoreIsNat
    <3> QED
      BY <1>1, <3>1, <3>2
  <2> QED
    BY <1>2, <1>4, <2>1, <2>2 DEF BestSoFar
<1> QED
  BY <1>3, <1>4 DEF Better

\* What the scan has found after any number of rows.
LEMMA ScanFindsBest ==
    ASSUME NEW f, NEW rows, NEW m, NEW n \in Nat, Scans(f, rows, m, n),
           \A j \in 1..n : rows[j] # NoRule
    PROVE  \A i \in 0..n : BestSoFar(f[i], rows, m, i)
<1> PICK T : T = {i \in 0..n : ~BestSoFar(f[i], rows, m, i)}
  OBVIOUS
<1> SUFFICES ASSUME T # {} PROVE FALSE
  OBVIOUS
<1>1. PICK i \in T : \A j \in T : i <= j
  BY LeastElement
<1>2. i \in 0..n /\ ~BestSoFar(f[i], rows, m, i)
  BY <1>1
<1>3. CASE i = 0
  <2>1. f[0] = NoRule /\ 1..0 = {}
    BY ScansAt
  <2> QED
    BY <1>2, <1>3, <2>1 DEF BestSoFar
<1>4. CASE i # 0
  <2>1. i - 1 \in 0..n /\ i - 1 \notin T
    BY <1>1, <1>2, <1>4
  <2>2. BestSoFar(f[i - 1], rows, m, i - 1)
    BY <2>1
  <2>3. i \in 1..n /\ f[i] = Better(f[i - 1], rows[i], m)
    BY <1>2, <1>4, ScansAt
  <2> QED
    BY <1>2, <2>2, <2>3, BetterIsBest
<1> QED
  BY <1>3, <1>4

\* An order of the rows has every row in it.
LEMMA OrderHasAll ==
    ASSUME NEW rows \in RowOrders
    PROVE  /\ Len(rows) = Cardinality(Rules) /\ Len(rows) \in Nat
           /\ \A j \in 1..Len(rows) : rows[j] \in Rules
           /\ \A r \in Rules : \E j \in 1..Len(rows) : rows[j] = r
<1> PICK n : n = Cardinality(Rules)
  OBVIOUS
<1>1. n \in Nat /\ IsFiniteSet(1..n) /\ Cardinality(1..n) = n
  BY FS_CardinalityType, FS_Interval
<1>2. rows \in [1..n -> Rules] /\ \A i, j \in 1..n : i # j => rows[i] # rows[j]
  BY DEF RowOrders
<1>3. rows \in Injection(1..n, Rules)
  BY <1>2 DEF Injection, IsInjective
<1>4. rows \in Surjection(1..n, Rules)
  BY <1>1, <1>3, FS_Injection
<1>5. Len(rows) = n
  BY <1>1, <1>2
<1> QED
  BY <1>1, <1>2, <1>4, <1>5 DEF Surjection

\* The highest score among the rows that apply is a most specific row.
LEMMA HighestIsMostSpecific ==
    ASSUME NEW m, NEW r \in Rules, Candidate(r, m),
           \A s \in Rules : Candidate(s, m) => Score(s, m) <= Score(r, m)
    PROVE  r \in MostSpecific(Rules, m)
<1> SUFFICES ASSUME NEW s \in Rules, Candidate(s, m), MoreSpecific(s, r, m) PROVE FALSE
  BY DEF MostSpecific
<1>1. Score(s, m) <= Score(r, m)
  OBVIOUS
<1>2. CASE s.region # Default /\ r.region = Default
  <2>1. Score(s, m) >= 2 /\ Score(r, m) <= 1
    BY <1>2 DEF Score, Candidate
  <2> QED
    BY <1>1, <2>1, ScoreIsNat
<1>3. CASE s.region = r.region /\ s.processor # AnyProcessor /\ r.processor = AnyProcessor
  <2>1. Score(s, m) = Score(r, m) + 1
    BY <1>3 DEF Score, Candidate
  <2> QED
    BY <1>1, <2>1, ScoreIsNat
<1> QED
  BY <1>2, <1>3 DEF MoreSpecific

\* The scan of deadline_rules returns a most specific rule for the merchant,
\* in whatever order the rows come, and none only if no row applies.
THEOREM ScanIsMostSpecific ==
    ASSUME NEW rows \in RowOrders, NEW m
    PROVE  \/ /\ SelectDeadlineRule(rows, m) = NoRule
              /\ \A r \in Rules : ~Candidate(r, m)
           \/ SelectDeadlineRule(rows, m) \in MostSpecific(Rules, m)
<1> PICK n, rule : n = Len(rows) /\ rule = SelectDeadlineRule(rows, m)
  OBVIOUS
<1>1. /\ n \in Nat
      /\ \A j \in 1..n : rows[j] \in Rules
      /\ \A r \in Rules : \E j \in 1..n : rows[j] = r
  BY OrderHasAll
<1>2. PICK f : Scans(f, rows, m, n) /\ rule = f[n]
  BY <1>1, SelectedByScan
<1>3. BestSoFar(rule, rows, m, n)
  BY <1>1, <1>2, ScanFindsBest
<1>4. CASE rule = NoRule
  BY <1>1, <1>3, <1>4 DEF BestSoFar
<1>5. CASE rule # NoRule
  <2>1. /\ rule \in Rules /\ Candidate(rule, m)
        /\ \A s \in Rules : Candidate(s, m) => Score(s, m) <= Score(rule, m)
    BY <1>1, <1>3, <1>5 DEF BestSoFar
  <2> QED
    BY <2>1, HighestIsMostSpecific
<1> QED
  BY <1>4, <1>5
-----------------------------------------------------------------------------
(***************************************************************************)
(* The sweeps.  What is needed of the tables is what their seed says of    *)
(* the rows into EXPIRED; nothing else is assumed of the lifecycle.        *)
(***************************************************************************)

\* No row leaves a terminal status.
NoWayOut(transitions, terminal) == \A t \in transitions : t.from \notin terminal

\* EXPIRED ends a case, only SYSTEM moves a case there, never from REPRESENTED
\* and never for want of evidence.
ExpiryRows(transitions, terminal) ==
    /\ NoWayOut(transitions, terminal)
    /\ "EXPIRED" \in terminal
    /\ \A t \in transitions :
        t.to = "EXPIRED" =>
            t.triggeredBy = "SYSTEM" /\ t.from # "REPRESENTED" /\ ~t.requiresEvidence

\* The seeded tables are such tables, and satisfy what DisputeCase assumes.
LEMMA SeededRows ==
    /\ ExpiryRows(SeededTransitions, SeededTerminal)
    /\ SeededTerminal \subseteq SeededStatuses
BY DEF ExpiryRows, NoWayOut, SeededTransitions, SeededTerminal, SeededStatuses, FirstRound,
       SecondRound, Moves, Contest

\* The cases a sweep has skipped.
Skips(s) == {r.case : r \in skipped[s]}

\* What a sweep has listed, and what it has done of it.
ListKept(s) ==
    /\ asOf[s] <= now
    /\ \A c \in listed[s] : c \in Opened /\ respondBy[c] <= asOf[s]
    /\ listed[s] = expired[s] \cup Skips(s) \cup todo[s]
    /\ expired[s] \cap Skips(s) = {}
    /\ todo[s] \cap (expired[s] \cup Skips(s)) = {}
    /\ phase[s] = "list" => listed[s] = {} /\ skipped[s] = {}
    /\ phase[s] = "idle" => todo[s] = {}

\* A case the sweep is through with, or never listed, is not waiting to expire
\* since before the sweep began.
LeftBehind(s, c) ==
    /\ Expirable(c) /\ since[c] < asOf[s] /\ respondBy[c] <= asOf[s]
    /\ [case |-> c, reason |-> "DATABASE_ERROR"] \notin skipped[s]

NoneLeftBehind(s) ==
    phase[s] \in {"expire", "idle"} => \A c \in Cases \ todo[s] : ~LeftBehind(s, c)

SweepInv ==
    /\ SweepTypeOK
    /\ \A s \in Sweepers : ListKept(s) /\ NoneLeftBehind(s)
    /\ ExpiredByOne
\* The type invariant, with its quantifier over the three lists unfolded.
LEMMA SweepTypes ==
    SweepTypeOK <=>
        /\ CasesTypeOK
        /\ now \in 0..MaxNow
        /\ merchant \in [Cases -> Merchants \cup {NoMerchant}]
        /\ respondBy \in [Cases -> Nat]
        /\ since \in [Cases -> 0..MaxNow]
        /\ phase \in [Sweepers -> {"idle", "list", "expire", "dead"}]
        /\ asOf \in [Sweepers -> 0..MaxNow]
        /\ listed \in [Sweepers -> SUBSET Cases]
        /\ todo \in [Sweepers -> SUBSET Cases]
        /\ expired \in [Sweepers -> SUBSET Cases]
        /\ skipped \in [Sweepers -> SUBSET Skipped]
BY DEF SweepTypeOK

\* The answers of assertTransition, and what an accepted move needs.
LEMMA Verdicts ==
    ASSUME NEW c, NEW to, NEW by
    PROVE  /\ MoveVerdict(c, to, by) \in {"ok", "INVALID_TRANSITION", "EVIDENCE_REQUIRED"}
           /\ MoveVerdict(c, to, by) = "ok" =>
                \E t \in Transitions :
                    t.from = cases[c].status /\ t.to = to /\ t.triggeredBy = by
BY DEF MoveVerdict, AssertTransition, CanTransition, FindTransition

\* The calls on a case keep the cases well-formed.
LEMMA CallsTyped ==
    ASSUME CasesTypeOK, NEW c \in Cases, NEW to, NEW by,
           Open(c) \/ ChangeStatus(c, to, by) \/ AddEvidence(c)
    PROVE  CasesTypeOK'
<1>1. CASE Open(c)
  BY <1>1 DEF CasesTypeOK, Open
<1>2. CASE ChangeStatus(c, to, by)
  <2>1. to \in Statuses
    BY <1>2, Verdicts DEF ChangeStatus
  <2> QED
    BY <1>2, <2>1 DEF CasesTypeOK, ChangeStatus
<1>3. CASE AddEvidence(c)
  BY <1>3 DEF CasesTypeOK, AddEvidence
<1> QED
  BY <1>1, <1>2, <1>3

\* The window of a rule the scan selects is a number of ticks.
LEMMA RuleHasDays ==
    ASSUME NEW rows \in RowOrders, NEW m, SelectDeadlineRule(rows, m) # NoRule
    PROVE  SelectDeadlineRule(rows, m).days \in Nat
BY ScanIsMostSpecific DEF MostSpecific

\* Every action keeps the types.
LEMMA SweepTypesKept ==
    ASSUME SweepTypeOK, [NextSweep]_allVars
    PROVE  SweepTypeOK'
<1> USE DEF clockVars, sweepVars
<1>1. CASE Tick
  BY <1>1, SweepTypes DEF Tick, CasesTypeOK, SweepTypeOK
<1>2. ASSUME NEW c \in Cases, OpenWithDeadline(c) PROVE SweepTypeOK'
  <2>1. CasesTypeOK'
    BY <1>2, CallsTyped DEF SweepTypeOK, OpenWithDeadline
  <2>2. PICK m \in Merchants, rows \in RowOrders, receivedAt \in 0..now :
            /\ SelectDeadlineRule(rows, m) # NoRule
            /\ merchant' = [merchant EXCEPT ![c] = m]
            /\ respondBy' = [respondBy EXCEPT
                    ![c] = ComputeRespondBy(receivedAt, SelectDeadlineRule(rows, m).days)]
    BY <1>2 DEF OpenWithDeadline
  <2>3. ComputeRespondBy(receivedAt, SelectDeadlineRule(rows, m).days) \in Nat
    BY <2>2, RuleHasDays DEF ComputeRespondBy, SweepTypeOK
  <2>4. merchant' \in [Cases -> Merchants \cup {NoMerchant}] /\ respondBy' \in [Cases -> Nat]
    BY <2>2, <2>3, SweepTypes
  <2>5. since' \in [Cases -> 0..MaxNow] /\ UNCHANGED <<now, sweepVars>>
    BY <1>2, SweepTypes DEF OpenWithDeadline
  <2> QED
    BY <2>1, <2>4, <2>5, SweepTypes DEF SweepTypeOK
<1>3. ASSUME NEW c \in Cases, MoveByOthers(c) PROVE SweepTypeOK'
  <2>1. CasesTypeOK'
    BY <1>3, CallsTyped DEF SweepTypeOK, MoveByOthers
  <2>2. since' \in [Cases -> 0..MaxNow] /\ UNCHANGED <<now, merchant, respondBy, sweepVars>>
    BY <1>3, SweepTypes DEF MoveByOthers
  <2> QED
    BY <2>1, <2>2, SweepTypes DEF SweepTypeOK
<1>4. ASSUME NEW c \in Cases, AttachEvidence(c) PROVE SweepTypeOK'
  <2>1. CasesTypeOK' /\ UNCHANGED <<clockVars, sweepVars>>
    BY <1>4, CallsTyped DEF SweepTypeOK, AttachEvidence
  <2> QED
    BY <2>1, SweepTypes DEF SweepTypeOK
<1>5. ASSUME NEW s \in Sweepers, StartSweep(s) PROVE SweepTypeOK'
  BY <1>5, SweepTypes DEF StartSweep, SweepTypeOK, CasesTypeOK
<1>6. ASSUME NEW s \in Sweepers, ListOverdue(s) PROVE SweepTypeOK'
  <2>1. Overdue(asOf[s]) \in SUBSET Cases
    BY DEF Overdue
  <2> QED
    BY <1>6, <2>1, SweepTypes DEF ListOverdue, SweepTypeOK, CasesTypeOK
<1>7. ASSUME NEW s \in Sweepers, ExpireNext(s) PROVE SweepTypeOK'
  <2>1. PICK c \in Cases :
            /\ Done(s, c)
            /\ \/ Expire(c) /\ (Report(s, c) \/ Skip(s, c, "DATABASE_ERROR"))
               \/ /\ MoveVerdict(c, "EXPIRED", "SYSTEM") # "ok"
                  /\ Skip(s, c, MoveVerdict(c, "EXPIRED", "SYSTEM"))
                  /\ UNCHANGED <<cases, since>>
               \/ Skip(s, c, "DATABASE_ERROR") /\ UNCHANGED <<cases, since>>
    BY <1>7 DEF ExpireNext
  <2>2. CasesTypeOK' /\ since' \in [Cases -> 0..MaxNow]
    <3>1. CASE Expire(c)
      BY <3>1, CallsTyped, SweepTypes DEF Expire
    <3>2. CASE UNCHANGED <<cases, since>>
      BY <3>2, SweepTypes DEF CasesTypeOK
    <3> QED
      BY <2>1, <3>1, <3>2
  <2>3. todo' \in [Sweepers -> SUBSET Cases]
    BY <2>1, SweepTypes DEF Done
  <2>4. expired' \in [Sweepers -> SUBSET Cases]
    BY <2>1, SweepTypes DEF Report, Skip
  <2>5. skipped' \in [Sweepers -> SUBSET Skipped]
    <3>1. CASE Report(s, c)
      BY <3>1, SweepTypes DEF Report
    <3>2. ASSUME NEW reason \in {"INVALID_TRANSITION", "EVIDENCE_REQUIRED", "DATABASE_ERROR"},
                 Skip(s, c, reason)
          PROVE  skipped' \in [Sweepers -> SUBSET Skipped]
      <4>1. PICK row : row = [case |-> c, reason |-> reason]
        OBVIOUS
      <4>2. row \in Skipped
        BY <4>1 DEF Skipped
      <4> QED
        BY <3>2, <4>1, <4>2, SweepTypes DEF Skip
    <3> QED
      BY <2>1, <3>1, <3>2, Verdicts
  <2>6. UNCHANGED <<now, merchant, respondBy, phase, asOf, listed>>
    BY <1>7 DEF ExpireNext
  <2> QED
    BY <2>2, <2>3, <2>4, <2>5, <2>6, SweepTypes DEF SweepTypeOK
<1>8. ASSUME NEW s \in Sweepers, EndSweep(s) \/ SweepDies(s) PROVE SweepTypeOK'
  BY <1>8, SweepTypes DEF EndSweep, SweepDies, SweepTypeOK, CasesTypeOK
<1>9. CASE UNCHANGED allVars
  BY <1>9, SweepTypes DEF allVars, SweepTypeOK, CasesTypeOK
<1> QED
  BY <1>1, <1>2, <1>3, <1>4, <1>5, <1>6, <1>7, <1>8, <1>9 DEF NextSweep, SweepStep

\* Initially nothing is opened and no sweep is on.
LEMMA SweepTypesInitially ==
    InitSweep => SweepTypeOK
<1> SUFFICES ASSUME InitSweep PROVE SweepTypeOK
  OBVIOUS
<1>1. CasesTypeOK
  BY DEF InitSweep, InitCases, CasesTypeOK, NoCase
<1> QED
  BY <1>1, SweepTypes DEF InitSweep

\* The types of the cases, the clock and the sweeps; respond_by is a number
\* because the scan returns a rule of the table whenever it returns one.
THEOREM SweepsTyped ==
    SweepSpec => []SweepTypeOK
BY SweepTypesInitially, SweepTypesKept, PTL DEF SweepSpec
-----------------------------------------------------------------------------
\* From here on the table is one with ExpiryRows.
Seedlike == ExpiryRows(Transitions, Terminal)

\* A case that may expire is open, and an expired one may not.
LEMMA ExpirableIsOpen ==
    ASSUME Seedlike, NEW c \in Cases
    PROVE  /\ Expirable(c) => StillOpen(c) /\ cases[c].status # "REPRESENTED"
           /\ cases[c].status = "EXPIRED" => ~Expirable(c)
BY Verdicts DEF Expirable, StillOpen, Seedlike, ExpiryRows, NoWayOut

\* Evidence does not decide whether a case may expire.
LEMMA EvidenceDecidesNothing ==
    ASSUME Seedlike, NEW c \in Cases
    PROVE  Expirable(c) <=>
                /\ c \in Opened
                /\ \E t \in Transitions :
                    /\ t.from = cases[c].status
                    /\ t.to = "EXPIRED" /\ t.triggeredBy = "SYSTEM"
<1>1. CASE \E t \in Transitions :
                t.from = cases[c].status /\ t.to = "EXPIRED" /\ t.triggeredBy = "SYSTEM"
  <2>1. CanTransition(Transitions, cases[c].status, "EXPIRED", "SYSTEM")
    BY <1>1 DEF CanTransition, FindTransition
  <2>2. \A t \in FindTransition(Transitions, cases[c].status, "EXPIRED", "SYSTEM") :
            ~t.requiresEvidence
    BY DEF FindTransition, Seedlike, ExpiryRows
  <2>3. MoveVerdict(c, "EXPIRED", "SYSTEM") = "ok"
    BY <2>1, <2>2 DEF MoveVerdict, AssertTransition
  <2> QED
    BY <1>1, <2>3 DEF Expirable
<1>2. CASE ~ \E t \in Transitions :
                t.from = cases[c].status /\ t.to = "EXPIRED" /\ t.triggeredBy = "SYSTEM"
  BY <1>2, Verdicts DEF Expirable
<1> QED
  BY <1>1, <1>2

\* What every step does to the cases, as far as the sweeps rely on it: the
\* clock does not go back, a case stays opened with its deadline, an expired
\* one stays expired, and what may expire afterwards could expire before or
\* has just come to its status.
CasesGoOn ==
    /\ now <= now'
    /\ \A c \in Cases :
        /\ c \in Opened => c \in Opened' /\ respondBy'[c] = respondBy[c]
        /\ cases[c].status = "EXPIRED" => cases'[c].status = "EXPIRED"
        /\ Expirable(c)' =>
            \/ since'[c] = now
            \/ Expirable(c) /\ UNCHANGED <<since[c], respondBy[c]>>

\* Nothing of the case changes.
SameCase(c) == UNCHANGED <<cases[c], respondBy[c], since[c]>>

\* Then it goes on as it was.
LEMMA SameGoesOn ==
    ASSUME Seedlike, NEW c \in Cases, SameCase(c)
    PROVE  /\ c \in Opened => c \in Opened' /\ respondBy'[c] = respondBy[c]
           /\ cases[c].status = "EXPIRED" => cases'[c].status = "EXPIRED"
           /\ Expirable(c)' => Expirable(c) /\ UNCHANGED <<since[c], respondBy[c]>>
BY DEF SameCase, Opened, Expirable, MoveVerdict

\* A case that moves was not expired.
LEMMA MoveGoesOn ==
    ASSUME Seedlike, CasesTypeOK, NEW c \in Cases, NEW to, NEW by, ChangeStatus(c, to, by)
    PROVE  /\ cases[c].status \notin Terminal
           /\ cases'[c].status = to
           /\ c \in Opened /\ c \in Opened'
           /\ \A d \in Cases \ {c} : cases'[d] = cases[d]
<1>1. PICK t \in Transitions : t.from = cases[c].status /\ t.to = to /\ t.triggeredBy = by
  BY Verdicts DEF ChangeStatus
<1>2. to \in Statuses /\ cases[c].status \notin Terminal
  BY <1>1 DEF Seedlike, ExpiryRows, NoWayOut
<1>3. cases'[c].status = to /\ \A d \in Cases \ {c} : cases'[d] = cases[d]
  BY DEF ChangeStatus, CasesTypeOK
<1> QED
  BY <1>2, <1>3 DEF ChangeStatus, Opened

\* Every step goes on with the cases.
LEMMA StepGoesOn ==
    ASSUME Seedlike, SweepTypeOK, [NextSweep]_allVars
    PROVE  CasesGoOn
<1> USE DEF clockVars, sweepVars
<1>0. CasesTypeOK /\ now \in Nat /\ respondBy \in [Cases -> Nat] /\ since \in [Cases -> 0..MaxNow]
  BY SweepTypes
<1>1. ASSUME UNCHANGED <<cases, respondBy, since>>, now' = now \/ now' = now + 1
      PROVE  CasesGoOn
  <2>1. \A c \in Cases : SameCase(c)
    BY <1>1 DEF SameCase
  <2> QED
    BY <1>0, <1>1, <2>1, SameGoesOn DEF CasesGoOn
<1>2. ASSUME NEW c \in Cases, OpenWithDeadline(c) PROVE CasesGoOn
  <2>1. now' = now /\ since'[c] = now /\ c \notin Opened
    BY <1>0, <1>2 DEF OpenWithDeadline, Open
  <2>2. \A d \in Cases \ {c} : SameCase(d)
    BY <1>0, <1>2 DEF OpenWithDeadline, Open, SameCase, CasesTypeOK
  <2>3. cases[c].status # "EXPIRED"
    BY <2>1 DEF Opened
  <2> QED
    BY <1>0, <2>1, <2>2, <2>3, SameGoesOn DEF CasesGoOn
<1>3. ASSUME NEW c \in Cases, NEW to, NEW by, ChangeStatus(c, to, by),
             since' = [since EXCEPT ![c] = now], UNCHANGED <<now, respondBy>>
      PROVE  CasesGoOn
  <2>1. since'[c] = now /\ \A d \in Cases \ {c} : SameCase(d)
    BY <1>0, <1>3, MoveGoesOn DEF SameCase
  <2>2. cases[c].status # "EXPIRED" /\ c \in Opened'
    BY <1>0, <1>3, MoveGoesOn DEF Seedlike, ExpiryRows
  <2> QED
    BY <1>0, <1>3, <2>1, <2>2, SameGoesOn DEF CasesGoOn
<1>4. ASSUME NEW c \in Cases, AttachEvidence(c) PROVE CasesGoOn
  <2>1. UNCHANGED <<now, respondBy, since>>
    BY <1>4 DEF AttachEvidence
  <2>2. \A d \in Cases : cases'[d].status = cases[d].status
    BY <1>0, <1>4 DEF AttachEvidence, AddEvidence, CasesTypeOK
  <2>3. \A d \in Cases : d \in Opened' <=> d \in Opened
    BY <2>2 DEF Opened
  <2>4. \A d \in Cases : Expirable(d)' => Expirable(d)
    <3> TAKE d \in Cases
    <3> SUFFICES ASSUME Expirable(d)' PROVE Expirable(d)
      OBVIOUS
    <3>1. /\ d \in Opened'
          /\ \E t \in Transitions :
                t.from = cases'[d].status /\ t.to = "EXPIRED" /\ t.triggeredBy = "SYSTEM"
      BY Verdicts DEF Expirable, MoveVerdict, AssertTransition, CanTransition, FindTransition
    <3> QED
      BY <2>2, <2>3, <3>1, EvidenceDecidesNothing
  <2> QED
    BY <1>0, <2>1, <2>2, <2>3, <2>4 DEF CasesGoOn
<1> QED
  <2>1. CASE Tick
    BY <1>1, <2>1 DEF Tick
  <2>2. ASSUME NEW c \in Cases, MoveByOthers(c) PROVE CasesGoOn
    BY <1>3, <2>2 DEF MoveByOthers
  <2>3. ASSUME NEW s \in Sweepers, ExpireNext(s) PROVE CasesGoOn
    BY <1>0, <1>1, <1>3, <2>3 DEF ExpireNext, Expire
  <2>4. ASSUME NEW s \in Sweepers,
               StartSweep(s) \/ ListOverdue(s) \/ EndSweep(s) \/ SweepDies(s)
        PROVE  CasesGoOn
    BY <1>1, <2>4 DEF StartSweep, ListOverdue, EndSweep, SweepDies
  <2>5. CASE UNCHANGED allVars
    BY <1>1, <2>5 DEF allVars
  <2> QED
    BY <1>2, <1>4, <2>1, <2>2, <2>3, <2>4, <2>5 DEF NextSweep, SweepStep
\* What a sweep has is untouched.
SameSweep(s) ==
    UNCHANGED <<phase[s], asOf[s], listed[s], todo[s], expired[s], skipped[s]>>

\* Whatever becomes of the cases, a sweep that takes no step keeps its list.
LEMMA OtherSweepsKeep ==
    ASSUME SweepTypeOK, SweepTypeOK', CasesGoOn, NEW s \in Sweepers,
           ListKept(s), NoneLeftBehind(s), SameSweep(s)
    PROVE  ListKept(s)' /\ NoneLeftBehind(s)'
<1>0. /\ now \in Nat /\ now' \in Nat /\ asOf[s] \in Nat /\ asOf[s] <= now
      /\ listed[s] \subseteq Cases /\ since' \in [Cases -> Nat]
  BY SweepTypes DEF SweepTypeOK, ListKept
<1>1. Skips(s)' = Skips(s)
  BY DEF SameSweep, Skips
<1>2. asOf'[s] <= now'
  BY <1>0 DEF SameSweep, CasesGoOn
<1>3. \A c \in listed[s] : c \in Opened' /\ respondBy'[c] <= asOf[s]
  BY <1>0 DEF ListKept, CasesGoOn
<1>4. ListKept(s)'
  BY <1>1, <1>2, <1>3 DEF ListKept, SameSweep
<1>5. ASSUME NEW c \in Cases, LeftBehind(s, c)' PROVE LeftBehind(s, c)
  <2>1. since'[c] # now
    BY <1>0, <1>5 DEF LeftBehind, SameSweep
  <2>2. Expirable(c) /\ UNCHANGED <<since[c], respondBy[c]>>
    BY <1>5, <2>1 DEF LeftBehind, CasesGoOn
  <2> QED
    BY <1>5, <2>2 DEF LeftBehind, SameSweep
<1>6. NoneLeftBehind(s)'
  BY <1>5 DEF NoneLeftBehind, SameSweep
<1> QED
  BY <1>4, <1>6

\* The step of a sweep on its next case: the call moves the case, or it does not.
Tried(s, c) ==
    /\ phase[s] = "expire" /\ c \in todo[s]
    /\ Done(s, c)
    /\ \/ Expire(c) /\ Report(s, c)
       \/ /\ Expire(c) \/ UNCHANGED <<cases, since>>
          /\ Skip(s, c, "DATABASE_ERROR")
       \/ /\ UNCHANGED <<cases, since>>
          /\ ~Expirable(c)
          /\ \E reason : Skip(s, c, reason)
    /\ UNCHANGED <<now, merchant, respondBy, phase, asOf, listed>>

\* Every step of ExpireNext is such a step.
LEMMA NextIsTried ==
    ASSUME NEW s \in Sweepers, ExpireNext(s)
    PROVE  \E c \in Cases : Tried(s, c)
BY DEF ExpireNext, Tried, Soonest, Expirable

\* The sweep that took the step keeps its list: the case goes from what is to
\* do to what is expired or skipped.
LEMMA TriedKeepsList ==
    ASSUME SweepTypeOK, CasesGoOn, NEW s \in Sweepers, NEW c \in Cases,
           ListKept(s), Tried(s, c)
    PROVE  ListKept(s)'
<1>0. /\ listed[s] \subseteq Cases
      /\ todo \in [Sweepers -> SUBSET Cases] /\ expired \in [Sweepers -> SUBSET Cases]
      /\ skipped \in [Sweepers -> SUBSET Skipped]
  BY SweepTypes
<1>1. todo'[s] = todo[s] \ {c} /\ listed'[s] = listed[s]
  BY <1>0 DEF Tried, Done
<1>2. \/ expired'[s] = expired[s] \cup {c} /\ Skips(s)' = Skips(s)
      \/ expired'[s] = expired[s] /\ Skips(s)' = Skips(s) \cup {c}
  <2>1. CASE Report(s, c)
    BY <1>0, <2>1 DEF Report, Skips
  <2>2. ASSUME NEW reason, Skip(s, c, reason)
        PROVE  expired'[s] = expired[s] /\ Skips(s)' = Skips(s) \cup {c}
    <3>1. PICK row : row = [case |-> c, reason |-> reason]
      OBVIOUS
    <3>2. skipped'[s] = skipped[s] \cup {row} /\ row.case = c /\ UNCHANGED expired
      BY <1>0, <2>2, <3>1 DEF Skip
    <3> QED
      BY <3>2 DEF Skips
  <2> QED
    BY <2>1, <2>2 DEF Tried
<1>3. /\ listed[s] = expired[s] \cup Skips(s) \cup todo[s]
      /\ expired[s] \cap Skips(s) = {} /\ todo[s] \cap (expired[s] \cup Skips(s)) = {}
  BY DEF ListKept
<1>4. c \in todo[s]
  BY DEF Tried
<1>5. /\ listed'[s] = expired'[s] \cup Skips(s)' \cup todo'[s]
      /\ expired'[s] \cap Skips(s)' = {} /\ todo'[s] \cap (expired'[s] \cup Skips(s)') = {}
  BY <1>1, <1>2, <1>3, <1>4
<1>6. asOf'[s] <= now' /\ phase'[s] = "expire"
  BY DEF Tried, ListKept
<1>7. \A d \in listed'[s] : d \in Opened' /\ respondBy'[d] <= asOf'[s]
  BY <1>0, <1>1 DEF Tried, ListKept, CasesGoOn
<1> QED
  BY <1>5, <1>6, <1>7 DEF ListKept

\* The case it tried has expired, may not expire, or its call has failed.
LEMMA TriedLeavesNone ==
    ASSUME Seedlike, SweepTypeOK, SweepTypeOK', CasesGoOn, NEW s \in Sweepers, NEW c \in Cases,
           ListKept(s), NoneLeftBehind(s), Tried(s, c)
    PROVE  NoneLeftBehind(s)'
<1>0. /\ now \in Nat /\ asOf[s] \in Nat /\ asOf[s] <= now /\ since' \in [Cases -> Nat]
      /\ todo \in [Sweepers -> SUBSET Cases] /\ skipped \in [Sweepers -> SUBSET Skipped]
      /\ CasesTypeOK
  BY SweepTypes DEF SweepTypeOK, ListKept
<1>1. phase[s] = "expire" /\ todo'[s] = todo[s] \ {c} /\ asOf'[s] = asOf[s]
  BY <1>0 DEF Tried, Done
<1>2. skipped[s] \subseteq skipped'[s]
  BY <1>0 DEF Tried, Report, Skip
<1>3. ~LeftBehind(s, c)'
  <2>1. CASE Expire(c)
    <3>1. cases'[c].status = "EXPIRED"
      BY <1>0, <2>1, MoveGoesOn DEF Expire
    <3>2. ~Expirable(c)'
      <4> SUFFICES ASSUME Expirable(c)' PROVE FALSE
        OBVIOUS
      <4>1. \E t \in Transitions : t.from = cases'[c].status
        BY Verdicts DEF Expirable, MoveVerdict, AssertTransition, CanTransition, FindTransition
      <4> QED
        BY <3>1, <4>1 DEF Seedlike, ExpiryRows, NoWayOut
    <3> QED
      BY <3>2 DEF LeftBehind
  <2>2. CASE Skip(s, c, "DATABASE_ERROR")
    <3>1. PICK row : row = [case |-> c, reason |-> "DATABASE_ERROR"]
      OBVIOUS
    <3>2. row \in skipped'[s]
      BY <1>0, <2>2, <3>1 DEF Skip
    <3> QED
      BY <3>1, <3>2 DEF LeftBehind
  <2>3. CASE UNCHANGED cases /\ ~Expirable(c)
    BY <2>3 DEF LeftBehind, Expirable, Opened, MoveVerdict
  <2> QED
    BY <2>1, <2>2, <2>3 DEF Tried
<1>4. ASSUME NEW d \in Cases, d # c, LeftBehind(s, d)' PROVE LeftBehind(s, d)
  <2>1. since'[d] # now
    BY <1>0, <1>1, <1>4 DEF LeftBehind
  <2>2. Expirable(d) /\ UNCHANGED <<since[d], respondBy[d]>>
    BY <1>4, <2>1 DEF LeftBehind, CasesGoOn
  <2> QED
    BY <1>1, <1>2, <1>4, <2>2 DEF LeftBehind
<1> QED
  BY <1>1, <1>3, <1>4 DEF NoneLeftBehind

\* A report of a case as expired is true, and no other sweep has made it.
LEMMA ExpiredOnceKept ==
    ASSUME Seedlike, SweepTypeOK, ExpiredByOne, CasesGoOn, NEW s \in Sweepers, NEW c \in Cases,
           Tried(s, c)
    PROVE  ExpiredByOne'
<1>0. expired \in [Sweepers -> SUBSET Cases] /\ CasesTypeOK
  BY SweepTypes
<1>1. CASE UNCHANGED expired
  BY <1>0, <1>1 DEF ExpiredByOne, CasesGoOn
<1>2. CASE Expire(c) /\ Report(s, c)
  <2>1. cases[c].status # "EXPIRED" /\ cases'[c].status = "EXPIRED"
    BY <1>0, <1>2, MoveGoesOn DEF Expire, Seedlike, ExpiryRows
  <2>2. \A r \in Sweepers : c \notin expired[r]
    BY <2>1 DEF ExpiredByOne
  <2>3. expired' = [expired EXCEPT ![s] = @ \cup {c}]
    BY <1>2 DEF Report
  <2>4. /\ \A r \in Sweepers, d \in Cases :
                d \in expired'[r] <=> d \in expired[r] \/ (r = s /\ d = c)
        /\ \A r \in Sweepers : expired'[r] \subseteq Cases
    BY <1>0, <2>3
  <2> QED
    BY <1>0, <2>1, <2>2, <2>4 DEF ExpiredByOne, CasesGoOn
<1> QED
  BY <1>1, <1>2 DEF Tried, Skip
\* Every step keeps the invariant.
LEMMA SweepInvKept ==
    ASSUME Seedlike, SweepInv, [NextSweep]_allVars
    PROVE  SweepInv'
<1> USE DEF clockVars, sweepVars
<1>0. SweepTypeOK /\ SweepTypeOK' /\ CasesGoOn
  BY SweepTypesKept, StepGoesOn DEF SweepInv
<1>1. ASSUME UNCHANGED expired PROVE ExpiredByOne'
  <2>1. \A s \in Sweepers : expired[s] \subseteq Cases
    BY <1>0, SweepTypes
  <2> QED
    BY <1>0, <1>1, <2>1 DEF SweepInv, ExpiredByOne, CasesGoOn
<1>2. CASE UNCHANGED sweepVars
  <2>1. \A s \in Sweepers : ListKept(s)' /\ NoneLeftBehind(s)'
    BY <1>0, <1>2, OtherSweepsKeep DEF SweepInv, SameSweep
  <2> QED
    BY <1>0, <1>1, <1>2, <2>1 DEF SweepInv
<1>3. ASSUME NEW s \in Sweepers, \A r \in Sweepers \ {s} : SameSweep(r),
             ListKept(s)', NoneLeftBehind(s)', ExpiredByOne'
      PROVE  SweepInv'
  BY <1>0, <1>3, OtherSweepsKeep DEF SweepInv
<1>4. /\ phase \in [Sweepers -> {"idle", "list", "expire", "dead"}]
      /\ asOf \in [Sweepers -> 0..MaxNow]
      /\ listed \in [Sweepers -> SUBSET Cases] /\ todo \in [Sweepers -> SUBSET Cases]
      /\ expired \in [Sweepers -> SUBSET Cases] /\ skipped \in [Sweepers -> SUBSET Skipped]
      /\ now \in Nat /\ respondBy \in [Cases -> Nat]
  BY <1>0, SweepTypes
<1>5. ASSUME NEW s \in Sweepers, StartSweep(s) PROVE SweepInv'
  <2>1. \A r \in Sweepers \ {s} : SameSweep(r)
    BY <1>4, <1>5 DEF StartSweep, SameSweep
  <2>2. /\ phase'[s] = "list" /\ asOf'[s] = now /\ now' = now
        /\ listed'[s] = {} /\ todo'[s] = {} /\ expired'[s] = {} /\ skipped'[s] = {}
    BY <1>4, <1>5 DEF StartSweep
  <2>3. ListKept(s)' /\ NoneLeftBehind(s)'
    BY <1>4, <2>2 DEF ListKept, NoneLeftBehind, Skips
  <2>4. ExpiredByOne'
    <3>1. \A r \in Sweepers : expired'[r] \subseteq expired[r]
      BY <1>4, <1>5 DEF StartSweep
    <3> QED
      BY <1>0, <1>4, <3>1 DEF SweepInv, ExpiredByOne, CasesGoOn
  <2> QED
    BY <1>3, <2>1, <2>3, <2>4
<1>6. ASSUME NEW s \in Sweepers, ListOverdue(s) PROVE SweepInv'
  <2>1. \A r \in Sweepers \ {s} : SameSweep(r)
    BY <1>4, <1>6 DEF ListOverdue, SameSweep
  <2>2. PICK overdue : overdue = Overdue(asOf[s])
    OBVIOUS
  <2>3. /\ phase[s] = "list" /\ phase'[s] = "expire"
        /\ listed'[s] = overdue /\ todo'[s] = overdue
        /\ UNCHANGED <<cases, clockVars, asOf, expired, skipped>>
    BY <1>4, <1>6, <2>2 DEF ListOverdue
  <2>4. expired[s] = {} /\ Skips(s) = {} /\ asOf[s] <= now
    BY <2>3 DEF SweepInv, ListKept, Skips
  <2>5. \A c \in overdue : c \in Opened /\ respondBy[c] <= asOf[s]
    BY <2>2 DEF Overdue, StillOpen
  <2>6. Skips(s)' = Skips(s) /\ Opened' = Opened
    BY <2>3 DEF Skips, Opened
  <2>7. ListKept(s)'
    BY <2>3, <2>4, <2>5, <2>6 DEF ListKept
  <2>8. \A c \in Cases : Expirable(c)' => Expirable(c)
    BY <2>3, <2>6 DEF Expirable, MoveVerdict
  <2>9. \A c \in Cases \ overdue : ~(Expirable(c) /\ respondBy[c] <= asOf[s])
    BY <2>2, ExpirableIsOpen DEF Overdue
  <2>10. NoneLeftBehind(s)'
    BY <2>3, <2>8, <2>9 DEF NoneLeftBehind, LeftBehind
  <2> QED
    BY <1>1, <1>3, <2>1, <2>3, <2>7, <2>10
<1>7. ASSUME NEW s \in Sweepers, ExpireNext(s) PROVE SweepInv'
  <2>1. PICK c \in Cases : Tried(s, c)
    BY <1>7, NextIsTried
  <2>2. \A r \in Sweepers \ {s} : SameSweep(r)
    BY <1>4, <2>1 DEF Tried, Done, Report, Skip, SameSweep
  <2>3. ListKept(s)' /\ NoneLeftBehind(s)' /\ ExpiredByOne'
    BY <1>0, <2>1, TriedKeepsList, TriedLeavesNone, ExpiredOnceKept DEF SweepInv
  <2> QED
    BY <1>3, <2>2, <2>3
<1>8. ASSUME NEW s \in Sweepers, EndSweep(s) \/ SweepDies(s) PROVE SweepInv'
  <2>1. \A r \in Sweepers \ {s} : SameSweep(r)
    BY <1>4, <1>8 DEF EndSweep, SweepDies, SameSweep
  <2>2. /\ \/ phase'[s] = "dead"
           \/ phase[s] = "expire" /\ phase'[s] = "idle" /\ todo[s] = {}
        /\ UNCHANGED <<cases, clockVars, asOf, listed, todo, expired, skipped>>
    BY <1>4, <1>8 DEF EndSweep, SweepDies
  <2>3. Skips(s)' = Skips(s) /\ Opened' = Opened
    BY <2>2 DEF Skips, Opened
  <2>4. ListKept(s)'
    BY <2>2, <2>3 DEF SweepInv, ListKept
  <2>5. \A c \in Cases : LeftBehind(s, c)' => LeftBehind(s, c)
    BY <2>2, <2>3 DEF LeftBehind, Expirable, MoveVerdict
  <2>6. NoneLeftBehind(s)'
    BY <2>2, <2>5 DEF SweepInv, NoneLeftBehind
  <2> QED
    BY <1>1, <1>3, <2>1, <2>2, <2>4, <2>6
<1> QED
  BY <1>2, <1>5, <1>6, <1>7, <1>8
  DEF NextSweep, SweepStep, Tick, OpenWithDeadline, MoveByOthers, AttachEvidence, allVars

\* It holds before anything has happened.
LEMMA SweepInvInitially ==
    InitSweep => SweepInv
<1> SUFFICES ASSUME InitSweep PROVE SweepInv
  OBVIOUS
<1>1. SweepTypeOK
  BY SweepTypesInitially
<1>2. \A s \in Sweepers : /\ phase[s] = "idle" /\ asOf[s] = 0 /\ now = 0
                          /\ listed[s] = {} /\ todo[s] = {}
                          /\ expired[s] = {} /\ skipped[s] = {}
  BY DEF InitSweep
<1>3. \A c \in Cases : since[c] = 0
  BY DEF InitSweep
<1> QED
  BY <1>1, <1>2, <1>3 DEF SweepInv, ListKept, NoneLeftBehind, LeftBehind, ExpiredByOne, Skips

\* Under a table like the seeded one the invariant holds throughout: nothing a
\* sweep has listed is forgotten, reported twice or not yet overdue.
THEOREM SweepsHold ==
    ASSUME Seedlike
    PROVE  SweepSpec => []SweepInv
BY SweepInvInitially, SweepInvKept, PTL DEF SweepSpec

\* Two sweeps at the same time never both report a case as expired, and what
\* either reports is so: the second one finds the case closed and skips it.
THEOREM OneSweepExpires ==
    ASSUME Seedlike
    PROVE  SweepSpec => []ExpiredByOne
<1>1. SweepInv => ExpiredByOne
  BY DEF SweepInv
<1> QED
  BY <1>1, SweepsHold, PTL

\* expireOverdueDisputes reports on every case it listed, exactly once,
\* whatever the calls underneath come to.
THEOREM SweepsAccount ==
    ASSUME Seedlike
    PROVE  SweepSpec => []SweepAccountsForAll
<1>1. SweepInv => SweepAccountsForAll
  BY DEF SweepInv, ListKept, SweepAccountsForAll, Skips
<1> QED
  BY <1>1, SweepsHold, PTL

\* A sweep that ran to its end leaves no case that was overdue when it began
\* and may still expire, other than those whose own call has failed.
THEOREM SweepsFinish ==
    ASSUME Seedlike
    PROVE  SweepSpec => []NothingOverdueSurvives
<1>1. SweepInv => NothingOverdueSurvives
  <2> SUFFICES ASSUME SweepInv, NEW s \in Sweepers, NEW c \in Cases,
                      phase[s] = "idle", Expirable(c), since[c] < asOf[s],
                      [case |-> c, reason |-> "DATABASE_ERROR"] \notin skipped[s]
               PROVE  DeadlineState(asOf[s], respondBy[c], WarnDays) # "EXPIRED"
    BY DEF NothingOverdueSurvives
  <2>1. asOf[s] \in Nat /\ respondBy[c] \in Nat
    BY SweepTypes DEF SweepInv
  <2>2. todo[s] = {}
    BY DEF SweepInv, ListKept
  <2>3. ~(respondBy[c] <= asOf[s])
    BY <2>2 DEF SweepInv, NoneLeftBehind, LeftBehind
  <2> QED
    BY <2>1, <2>3 DEF DeadlineState
<1> QED
  BY <1>1, SweepsHold, PTL

-----------------------------------------------------------------------------
\* A case expires in a step of a sweep that has it on its list.
LEMMA SweepsExpire ==
    ASSUME Seedlike, SweepTypeOK, [NextSweep]_allVars, NEW c \in Cases, Expires(c)
    PROVE  \E s \in Sweepers :
                Tried(s, c) /\ ChangeStatus(c, "EXPIRED", "SYSTEM")
<1> USE DEF clockVars, sweepVars
<1>0. CasesTypeOK /\ cases[c] # cases'[c]
  BY DEF SweepTypeOK, Expires
<1>1. ASSUME NEW d \in Cases, Open(d) PROVE FALSE
  BY <1>0, <1>1 DEF Open, Expires, CasesTypeOK
<1>2. ASSUME NEW d \in Cases, AddEvidence(d) PROVE FALSE
  BY <1>0, <1>2 DEF AddEvidence, Expires, CasesTypeOK
<1>3. ASSUME NEW d \in Cases, MoveByOthers(d) PROVE FALSE
  <2>1. PICK t \in Transitions : t.triggeredBy # "SYSTEM" /\ ChangeStatus(d, t.to, t.triggeredBy)
    BY <1>3 DEF MoveByOthers
  <2>2. t.to # "EXPIRED"
    BY <2>1 DEF Seedlike, ExpiryRows
  <2>3. cases'[d].status = t.to /\ \A e \in Cases \ {d} : cases'[e] = cases[e]
    BY <1>0, <2>1, MoveGoesOn
  <2> QED
    BY <2>2, <2>3 DEF Expires
<1>4. ASSUME NEW s \in Sweepers, ExpireNext(s)
      PROVE  Tried(s, c) /\ ChangeStatus(c, "EXPIRED", "SYSTEM")
  <2>1. PICK d \in Cases : Tried(s, d)
    BY <1>4, NextIsTried
  <2>2. Expire(d)
    BY <1>0, <2>1 DEF Tried
  <2>3. d = c
    BY <1>0, <2>2, MoveGoesOn DEF Expire
  <2> QED
    BY <2>1, <2>2, <2>3 DEF Expire
<1> QED
  BY <1>0, <1>1, <1>2, <1>3, <1>4
  DEF NextSweep, SweepStep, Tick, OpenWithDeadline, AttachEvidence, StartSweep, ListOverdue,
      EndSweep, SweepDies, allVars

\* Nobody loses a case before its time: the list was made for a time that has
\* come, and the deadline of a listed case is fixed.
THEOREM NobodyLosesEarly ==
    ASSUME Seedlike
    PROVE  SweepSpec => ExpiredOnlyWhenOverdue
<1> DEFINE InTime == \A c \in Cases, w \in 0..WarnDays :
                Expires(c) => DeadlineState(now, respondBy[c], w) = "EXPIRED"
<1>1. SweepInv /\ [NextSweep]_allVars => InTime
  <2> SUFFICES ASSUME SweepInv, [NextSweep]_allVars, NEW c \in Cases, NEW w \in 0..WarnDays,
                      Expires(c)
               PROVE  DeadlineState(now, respondBy[c], w) = "EXPIRED"
    OBVIOUS
  <2>1. PICK s \in Sweepers : c \in todo[s]
    BY SweepsExpire DEF SweepInv, Tried
  <2>2. respondBy[c] <= asOf[s] /\ asOf[s] <= now
    BY <2>1 DEF SweepInv, ListKept
  <2>3. respondBy[c] \in Nat /\ asOf[s] \in Nat /\ now \in Nat
    BY SweepTypes DEF SweepInv
  <2> QED
    BY <2>2, <2>3 DEF DeadlineState
<1>2. SweepInv /\ [NextSweep]_allVars => [InTime]_allVars
  BY <1>1
<1> QED
  BY <1>2, SweepsHold, PTL DEF SweepSpec, ExpiredOnlyWhenOverdue

\* A stale list does no harm: a case that was represented or closed since it
\* was listed does not expire.
THEOREM ContestedAreSpared ==
    ASSUME Seedlike
    PROVE  SweepSpec => ContestedIsSpared
<1> DEFINE Spared == \A c \in Cases :
                Expires(c) => cases[c].status \notin Terminal \cup {"none", "REPRESENTED"}
<1>1. SweepInv /\ [NextSweep]_allVars => Spared
  <2> SUFFICES ASSUME SweepInv, [NextSweep]_allVars, NEW c \in Cases, Expires(c)
               PROVE  cases[c].status \notin Terminal \cup {"none", "REPRESENTED"}
    OBVIOUS
  <2>1. ChangeStatus(c, "EXPIRED", "SYSTEM")
    BY SweepsExpire DEF SweepInv
  <2>2. Expirable(c)
    BY <2>1 DEF ChangeStatus, Expirable
  <2> QED
    BY <2>2, ExpirableIsOpen DEF StillOpen, Opened
<1>2. SweepInv /\ [NextSweep]_allVars => [Spared]_allVars
  BY <1>1
<1> QED
  BY <1>2, SweepsHold, PTL DEF SweepSpec, ContestedIsSpared
-----------------------------------------------------------------------------
(***************************************************************************)
(* What holds of the cases whoever calls: every step is a call of the      *)
(* dispute service.                                                        *)
(***************************************************************************)

\* Whatever a step does to the cases is one call on one case.
LEMMA StepsAreCalls ==
    ASSUME [NextSweep]_allVars
    PROVE  [NextCase]_cases
<1>1. ASSUME NEW c \in Cases, ChangeStatus(c, "EXPIRED", "SYSTEM") PROVE NextCase
  <2>1. PICK t \in Transitions : t.to = "EXPIRED" /\ t.triggeredBy = "SYSTEM"
    BY <1>1, Verdicts DEF ChangeStatus
  <2>2. ChangeStatus(c, t.to, t.triggeredBy)
    BY <1>1, <2>1
  <2> QED
    BY <2>2 DEF NextCase
<1>2. ASSUME NEW s \in Sweepers, ExpireNext(s) PROVE [NextCase]_cases
  BY <1>1, <1>2 DEF ExpireNext, Expire
<1>3. ASSUME NEW c \in Cases, OpenWithDeadline(c) \/ MoveByOthers(c) \/ AttachEvidence(c)
      PROVE  NextCase
  BY <1>3 DEF OpenWithDeadline, MoveByOthers, AttachEvidence, NextCase
<1> QED
  BY <1>2, <1>3
  DEF NextSweep, SweepStep, Tick, StartSweep, ListOverdue, EndSweep, SweepDies, allVars

\* No call moves a case out of a status no row leaves.
LEMMA CallsKeepClosed ==
    ASSUME NoWayOut(Transitions, Terminal), CasesTypeOK, [NextCase]_cases,
           NEW c \in Cases, cases[c].status \in Terminal
    PROVE  cases'[c].status = cases[c].status
<1>1. cases[c].status # "none"
  OBVIOUS
<1>2. ASSUME NEW d \in Cases, Open(d) PROVE cases'[c].status = cases[c].status
  <2>1. d # c
    BY <1>1, <1>2 DEF Open, Opened
  <2> QED
    BY <1>2, <2>1 DEF Open, CasesTypeOK
<1>3. ASSUME NEW d \in Cases, NEW t \in Transitions, ChangeStatus(d, t.to, t.triggeredBy)
      PROVE  cases'[c].status = cases[c].status
  <2>1. cases[d].status \notin Terminal
    BY <1>3, Verdicts DEF ChangeStatus, NoWayOut
  <2> QED
    BY <1>3, <2>1 DEF ChangeStatus, CasesTypeOK
<1>4. ASSUME NEW d \in Cases, AddEvidence(d) PROVE cases'[c].status = cases[c].status
  BY <1>4 DEF AddEvidence, CasesTypeOK
<1> QED
  BY <1>2, <1>3, <1>4 DEF NextCase

\* A closed case stays closed, in the status it was closed in: no row of the
\* table leaves a terminal status and no call goes by anything but the table.
THEOREM ClosedStaysClosed ==
    ASSUME NoWayOut(Transitions, Terminal)
    PROVE  SweepSpec => ClosedIsFinal
<1> DEFINE Stays == \A c \in Cases : cases[c].status \in Terminal =>
                                        cases'[c].status = cases[c].status
<1>1. SweepTypeOK /\ [NextSweep]_allVars => [Stays]_cases
  BY StepsAreCalls, CallsKeepClosed DEF SweepTypeOK
<1> QED
  BY <1>1, SweepsTyped, PTL DEF SweepSpec, ClosedIsFinal

\* A case gets the window of a most specific rule for its merchant, in whatever
\* order the rules come back.
THEOREM DeadlinesAreMostSpecific ==
    SweepSpec => DeadlineIsMostSpecific
<1> DEFINE Window == \A c \in Cases :
                cases'[c].status # "none" /\ merchant'[c] # merchant[c] =>
                    \E r \in MostSpecific(Rules, merchant'[c]), receivedAt \in 0..now :
                        respondBy'[c] = receivedAt + r.days
<1>1. SweepTypeOK /\ [NextSweep]_allVars => Window
  <2> SUFFICES ASSUME SweepTypeOK, [NextSweep]_allVars, NEW c \in Cases,
                      merchant'[c] # merchant[c]
               PROVE  \E r \in MostSpecific(Rules, merchant'[c]), receivedAt \in 0..now :
                        respondBy'[c] = receivedAt + r.days
    OBVIOUS
  <2>0. merchant \in [Cases -> Merchants \cup {NoMerchant}] /\ respondBy \in [Cases -> Nat]
    BY SweepTypes
  <2>1. PICK d \in Cases : OpenWithDeadline(d)
    BY DEF NextSweep, SweepStep, Tick, MoveByOthers, AttachEvidence, StartSweep, ListOverdue,
           ExpireNext, EndSweep, SweepDies, allVars, clockVars
  <2>2. PICK m \in Merchants, rows \in RowOrders, receivedAt \in 0..now :
            /\ SelectDeadlineRule(rows, m) # NoRule
            /\ merchant' = [merchant EXCEPT ![d] = m]
            /\ respondBy' = [respondBy EXCEPT
                    ![d] = ComputeRespondBy(receivedAt, SelectDeadlineRule(rows, m).days)]
    BY <2>1 DEF OpenWithDeadline
  <2>3. c = d /\ merchant'[c] = m
    BY <2>0, <2>2
  <2>4. SelectDeadlineRule(rows, m) \in MostSpecific(Rules, m)
    BY <2>2, ScanIsMostSpecific
  <2>5. respondBy'[c] = receivedAt + SelectDeadlineRule(rows, m).days
    BY <2>0, <2>2, <2>3 DEF ComputeRespondBy
  <2> QED
    BY <2>3, <2>4, <2>5
<1>2. SweepTypeOK /\ [NextSweep]_allVars => [Window]_allVars
  BY <1>1
<1> QED
  BY <1>2, SweepsTyped, PTL DEF SweepSpec, DeadlineIsMostSpecific
=============================================================================
