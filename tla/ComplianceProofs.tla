--------------------------- MODULE ComplianceProofs ---------------------------
(***************************************************************************)
(* Proofs that compliance reports hide no breach and invent none, for any  *)
(* months, any volumes and any number of reports.  First what sums over    *)
(* sets are, then months and rounding, then the reports.                   *)
(***************************************************************************)
EXTENDS Compliance, FiniteSetTheorems, WellFoundedInduction, TLAPS

-----------------------------------------------------------------------------
\* Sums

\* A nonempty set of numbers has a least one.
LEMMA LeastNumber ==
    ASSUME NEW T, T \subseteq Nat, T # {}
    PROVE  \E m \in T : \A k \in T : m <= k
<1>1. PICK R : R = {p \in Nat \X Nat : p[1] < p[2]}
  OBVIOUS
<1>2. R = OpToRel(<, Nat)
  BY <1>1 DEF OpToRel
<1>3. IsWellFoundedOn(R, Nat)
  BY <1>2, NatLessThanWellFounded
<1>4. PICK m \in T : \A k \in T : <<k, m>> \notin R
  BY <1>3, WFMin
<1>5. \A k, j \in Nat : k < j => <<k, j>> \in R
  BY <1>1
<1>6. m \in Nat /\ \A k \in T : k \in Nat /\ ~(k < m)
  BY <1>4, <1>5
<1> QED
  BY <1>4, <1>6

\* A nonempty set of finite sets has a smallest member.
LEMMA SmallestSet ==
    ASSUME NEW C, C # {}, \A s \in C : IsFiniteSet(s)
    PROVE  \E s \in C : \A t \in C : ~ (Cardinality(t) < Cardinality(s))
<1>1. PICK T : T = {Cardinality(s) : s \in C}
  OBVIOUS
<1>2. T \subseteq Nat /\ T # {}
  BY <1>1, FS_CardinalityType
<1>3. PICK m \in T : \A k \in T : m <= k
  BY <1>2, LeastNumber
<1>4. PICK s \in C : m = Cardinality(s)
  BY <1>1
<1>5. \A t \in C : Cardinality(t) \in Nat /\ m <= Cardinality(t)
  BY <1>1, <1>2, <1>3
<1>6. \A t \in C : ~ (Cardinality(t) < m)
  BY <1>2, <1>5
<1> QED BY <1>4, <1>6

\* A finite set loses one with its element.
LEMMA OneLess ==
    ASSUME NEW s, IsFiniteSet(s), NEW x \in s
    PROVE  /\ IsFiniteSet(s \ {x})
           /\ Cardinality(s) \in Nat /\ Cardinality(s \ {x}) \in Nat
           /\ Cardinality(s \ {x}) = Cardinality(s) - 1
           /\ Cardinality(s \ {x}) < Cardinality(s)
<1>1. /\ IsFiniteSet(s \ {x}) /\ Cardinality(s \ {x}) = Cardinality(s) - 1
      /\ Cardinality(s) \in Nat
  BY FS_RemoveElement, FS_CardinalityType
<1>2. Cardinality(s \ {x}) \in Nat
  BY <1>1, FS_CardinalityType
<1> QED BY <1>1, <1>2

\* The element the library takes next.
Taken(s) == CHOOSE x \in s : TRUE

\* What a sum is at s, if h holds those of the smaller sets.
SumAt(h, f, s) == IF s = {} THEN 0 ELSE f[Taken(s)] + h[s \ {Taken(s)}]

\* h sums f over the subsets of S.
Sums(h, f, S) == h = [s \in SUBSET S |-> SumAt(h, f, s)]

\* h sums f over the subsets of S that have at most n elements.
SumsUpTo(h, f, S, n) ==
    /\ h = [s \in SUBSET S |-> h[s]]
    /\ \A s \in SUBSET S : Cardinality(s) <= n => h[s] = SumAt(h, f, s)

\* Elements can be taken from every set but the empty one.
LEMMA TakenIsIn == \A s : s # {} => Taken(s) \in s
  BY DEF Taken

\* From sums of small sets to those of sets with one element more.
LEMMA SumsGrow ==
    ASSUME NEW f, NEW S, IsFiniteSet(S), NEW n \in Nat, NEW h, SumsUpTo(h, f, S, n)
    PROVE  \E g : SumsUpTo(g, f, S, n + 1)
<1>1. PICK g : g = [s \in SUBSET S |-> IF Cardinality(s) = n + 1 THEN SumAt(h, f, s) ELSE h[s]]
  OBVIOUS
<1>2. g = [s \in SUBSET S |-> g[s]]
  BY <1>1
<1>3. ASSUME NEW s \in SUBSET S, Cardinality(s) <= n + 1
      PROVE  g[s] = SumAt(g, f, s)
  <2>1. IsFiniteSet(s) /\ Cardinality(s) \in Nat
    BY FS_Subset, FS_CardinalityType
  <2>2. g[s] = SumAt(h, f, s)
    <3>1. Cardinality(s) = n + 1 \/ (Cardinality(s) # n + 1 /\ Cardinality(s) <= n)
      BY <1>3, <2>1
    <3>2. Cardinality(s) <= n => h[s] = SumAt(h, f, s)
      BY DEF SumsUpTo
    <3> QED BY <1>1, <3>1, <3>2
  <2>3. CASE s = {}
    BY <2>2, <2>3 DEF SumAt
  <2>4. CASE s # {}
    <3>1. PICK x \in s : x = Taken(s)
      BY <2>4, TakenIsIn
    <3>2. s \ {x} \in SUBSET S /\ Cardinality(s \ {x}) # n + 1
      BY <1>3, <2>1, OneLess
    <3>3. g[s \ {x}] = h[s \ {x}]
      BY <1>1, <3>2
    <3> QED BY <2>2, <2>4, <3>1, <3>3 DEF SumAt
  <2> QED BY <2>3, <2>4
<1> QED BY <1>2, <1>3 DEF SumsUpTo

\* The recursion of the library has a solution, whatever it sums.
LEMMA SumsExist ==
    ASSUME NEW f, NEW S, IsFiniteSet(S)
    PROVE  \E h : Sums(h, f, S)
<1>1. PICK T : T = {n \in Nat : ~ \E h : SumsUpTo(h, f, S, n)}
  OBVIOUS
<1>2. 0 \notin T
  <2>1. PICK h : h = [s \in SUBSET S |-> 0]
    OBVIOUS
  <2>2. ASSUME NEW s \in SUBSET S, Cardinality(s) <= 0 PROVE h[s] = SumAt(h, f, s)
    <3>1. IsFiniteSet(s) /\ Cardinality(s) \in Nat
      BY FS_Subset, FS_CardinalityType
    <3>2. s = {}
      BY <2>2, <3>1, FS_EmptySet
    <3> QED BY <2>1, <3>2 DEF SumAt
  <2>3. h = [s \in SUBSET S |-> h[s]]
    BY <2>1
  <2> QED BY <1>1, <2>2, <2>3 DEF SumsUpTo
<1>3. T = {}
  <2> SUFFICES ASSUME T # {} PROVE FALSE
    OBVIOUS
  <2>1. T \subseteq Nat
    BY <1>1
  <2>2. PICK k \in T : \A j \in T : k <= j
    BY <2>1, LeastNumber
  <2>3. k - 1 \in Nat /\ k - 1 \notin T /\ (k - 1) + 1 = k
    BY <1>2, <2>1, <2>2
  <2>4. PICK h : SumsUpTo(h, f, S, k - 1)
    BY <1>1, <2>3
  <2>5. \E g : SumsUpTo(g, f, S, k)
    BY <2>3, <2>4, SumsGrow
  <2> QED BY <1>1, <2>2, <2>5
<1>4. Cardinality(S) \in Nat
  BY FS_CardinalityType
<1>5. PICK h : SumsUpTo(h, f, S, Cardinality(S))
  BY <1>1, <1>3, <1>4
<1>6. \A s \in SUBSET S : h[s] = SumAt(h, f, s)
  BY <1>5, FS_Subset DEF SumsUpTo
<1>7. h = [s \in SUBSET S |-> h[s]]
  BY <1>5 DEF SumsUpTo
<1>8. h = [s \in SUBSET S |-> SumAt(h, f, s)]
  BY <1>6, <1>7
<1> QED BY <1>8 DEF Sums

\* SumFunctionOnSet is the value of one of them.
LEMMA SumIsASum ==
    ASSUME NEW f, NEW S, IsFiniteSet(S)
    PROVE  \E h : Sums(h, f, S) /\ SumFunctionOnSet(f, S) = h[S]
<1>1. SumFunctionOnSet(f, S) = (CHOOSE h : Sums(h, f, S))[S]
  BY DEF SumFunctionOnSet, FoldFunctionOnSet, MapThenFoldSet, Sums, SumAt, Taken
<1>2. PICK h : h = CHOOSE g : Sums(g, f, S)
  OBVIOUS
<1>3. Sums(h, f, S)
  BY <1>2, SumsExist
<1> QED BY <1>1, <1>2, <1>3

\* Sums of subsets do not depend on what they are subsets of.
LEMMA SumsAgree ==
    ASSUME NEW f, NEW S, IsFiniteSet(S), NEW T \in SUBSET S,
           NEW h, Sums(h, f, S), NEW g, Sums(g, f, T)
    PROVE  h[T] = g[T]
<1>1. PICK C : C = {s \in SUBSET T : h[s] # g[s]}
  OBVIOUS
<1>2. C = {}
  <2> SUFFICES ASSUME C # {} PROVE FALSE
    OBVIOUS
  <2>1. \A s \in C : IsFiniteSet(s)
    BY <1>1, FS_Subset
  <2>2. PICK s \in C : \A t \in C : ~ (Cardinality(t) < Cardinality(s))
    BY <2>1, SmallestSet
  <2>3. h[s] = SumAt(h, f, s) /\ g[s] = SumAt(g, f, s) /\ h[s] # g[s]
    BY <1>1 DEF Sums
  <2>4. s # {}
    BY <2>3 DEF SumAt
  <2>5. PICK x \in s : x = Taken(s)
    BY <2>4, TakenIsIn
  <2>6. Cardinality(s \ {x}) < Cardinality(s)
    BY <2>1, OneLess
  <2>7. s \ {x} \in SUBSET T /\ s \ {x} \notin C
    BY <1>1, <2>2, <2>6
  <2>8. h[s \ {x}] = g[s \ {x}]
    BY <1>1, <2>7
  <2> QED BY <2>3, <2>4, <2>5, <2>8 DEF SumAt
<1> QED BY <1>1, <1>2

\* A sum is that of one element, the one the library takes, and of the rest.
LEMMA SumOfTaken ==
    ASSUME NEW f, NEW S, IsFiniteSet(S)
    PROVE  /\ S = {} => SumFunctionOnSet(f, S) = 0
           /\ S # {} => /\ Taken(S) \in S
                        /\ SumFunctionOnSet(f, S)
                             = f[Taken(S)] + SumFunctionOnSet(f, S \ {Taken(S)})
<1>1. PICK h : Sums(h, f, S) /\ SumFunctionOnSet(f, S) = h[S]
  BY SumIsASum
<1>2. h[S] = SumAt(h, f, S)
  BY <1>1 DEF Sums
<1>3. ASSUME S # {}
      PROVE  /\ Taken(S) \in S
             /\ SumFunctionOnSet(f, S) = f[Taken(S)] + SumFunctionOnSet(f, S \ {Taken(S)})
  <2>1. PICK x \in S : x = Taken(S)
    BY <1>3, TakenIsIn
  <2>2. PICK T : T = S \ {x}
    OBVIOUS
  <2>3. T \in SUBSET S /\ IsFiniteSet(T)
    BY <2>2, OneLess
  <2>4. PICK g : Sums(g, f, T) /\ SumFunctionOnSet(f, T) = g[T]
    BY <2>3, SumIsASum
  <2>5. h[T] = g[T]
    BY <1>1, <2>3, <2>4, SumsAgree
  <2>6. h[S] = f[x] + h[T]
    BY <1>2, <1>3, <2>1, <2>2 DEF SumAt
  <2> QED BY <1>1, <2>1, <2>2, <2>4, <2>5, <2>6
<1> QED BY <1>1, <1>2, <1>3 DEF SumAt

\* Numbers add up to a number.
LEMMA SumType ==
    ASSUME NEW f, NEW S, IsFiniteSet(S), \A x \in S : f[x] \in Nat
    PROVE  SumFunctionOnSet(f, S) \in Nat
<1>1. PICK C : C = {s \in SUBSET S : SumFunctionOnSet(f, s) \notin Nat}
  OBVIOUS
<1>2. C = {}
  <2> SUFFICES ASSUME C # {} PROVE FALSE
    OBVIOUS
  <2>1. \A s \in C : IsFiniteSet(s)
    BY <1>1, FS_Subset
  <2>2. PICK s \in C : \A t \in C : ~ (Cardinality(t) < Cardinality(s))
    BY <2>1, SmallestSet
  <2>3. s \in SUBSET S /\ IsFiniteSet(s) /\ SumFunctionOnSet(f, s) \notin Nat
    BY <1>1, <2>1
  <2>4. s # {}
    <3>1. s = {} => SumFunctionOnSet(f, s) = 0
      BY <2>3, SumOfTaken
    <3> QED BY <2>3, <3>1
  <2>5. PICK x \in s : SumFunctionOnSet(f, s) = f[x] + SumFunctionOnSet(f, s \ {x})
    BY <2>3, <2>4, SumOfTaken
  <2>6. s \ {x} \in SUBSET S /\ s \ {x} \notin C
    BY <2>2, <2>3, OneLess
  <2>7. SumFunctionOnSet(f, s \ {x}) \in Nat /\ f[x] \in Nat
    BY <1>1, <2>3, <2>6
  <2> QED BY <2>3, <2>5, <2>7
<1> QED BY <1>1, <1>2

\* It does not matter which element is taken.
LEMMA SumOfAny ==
    ASSUME NEW f, NEW S, IsFiniteSet(S), \A x \in S : f[x] \in Nat, NEW a \in S
    PROVE  SumFunctionOnSet(f, S) = f[a] + SumFunctionOnSet(f, S \ {a})
<1>1. PICK C : C = {s \in SUBSET S :
                      \E x \in s : SumFunctionOnSet(f, s)
                                     # f[x] + SumFunctionOnSet(f, s \ {x})}
  OBVIOUS
<1>2. C = {}
  <2> SUFFICES ASSUME C # {} PROVE FALSE
    OBVIOUS
  <2>1. \A s \in C : IsFiniteSet(s)
    BY <1>1, FS_Subset
  <2>2. PICK s \in C : \A t \in C : ~ (Cardinality(t) < Cardinality(s))
    BY <2>1, SmallestSet
  <2>3. s \in SUBSET S /\ IsFiniteSet(s)
    BY <1>1, <2>1
  <2>4. PICK x \in s : SumFunctionOnSet(f, s) # f[x] + SumFunctionOnSet(f, s \ {x})
    BY <1>1
  <2>5. PICK y \in s : SumFunctionOnSet(f, s) = f[y] + SumFunctionOnSet(f, s \ {y})
    BY <2>3, SumOfTaken
  <2>6. x # y
    BY <2>4, <2>5
  <2>7. PICK t, u, v : t = s \ {x} /\ u = s \ {y} /\ v = s \ {x, y}
    OBVIOUS
  <2>8. /\ t \in SUBSET S /\ u \in SUBSET S /\ v \in SUBSET S
        /\ t \notin C /\ u \notin C /\ IsFiniteSet(v)
        /\ y \in t /\ x \in u /\ t \ {y} = v /\ u \ {x} = v
    BY <2>2, <2>3, <2>6, <2>7, OneLess, FS_Subset
  <2>9. /\ SumFunctionOnSet(f, t) = f[y] + SumFunctionOnSet(f, v)
        /\ SumFunctionOnSet(f, u) = f[x] + SumFunctionOnSet(f, v)
    BY <1>1, <2>8
  <2>10. SumFunctionOnSet(f, v) \in Nat /\ f[x] \in Nat /\ f[y] \in Nat
    BY <2>3, <2>8, SumType
  <2> QED BY <2>4, <2>5, <2>7, <2>9, <2>10
<1> QED BY <1>1, <1>2

\* Two terms.
LEMMA SumOfTwo ==
    ASSUME NEW f, NEW a, NEW b, a # b, f[a] \in Nat, f[b] \in Nat
    PROVE  SumFunctionOnSet(f, {a, b}) = f[a] + f[b]
<1>1. IsFiniteSet({a, b}) /\ IsFiniteSet({b}) /\ IsFiniteSet({})
  <2>1. IsFiniteSet({}) /\ IsFiniteSet({a}) /\ IsFiniteSet({b})
    BY FS_EmptySet, FS_Singleton
  <2>2. IsFiniteSet({a} \cup {b})
    BY <2>1, FS_AddElement
  <2>3. {a} \cup {b} = {a, b}
    OBVIOUS
  <2> QED BY <2>1, <2>2, <2>3
<1>2. {a, b} \ {a} = {b} /\ {b} \ {b} = {}
  OBVIOUS
<1>3. SumFunctionOnSet(f, {a, b}) = f[a] + SumFunctionOnSet(f, {b})
  BY <1>1, <1>2, SumOfAny
<1>4. SumFunctionOnSet(f, {b}) = f[b] + SumFunctionOnSet(f, {})
  BY <1>1, <1>2, SumOfAny
<1>5. SumFunctionOnSet(f, {}) = 0
  BY <1>1, SumOfTaken
<1> QED BY <1>3, <1>4, <1>5

-----------------------------------------------------------------------------
\* Months

\* A month lies between the one before it and the one after it, over the turn
\* of a year too.
LEMMA MonthsFollow ==
    ASSUME NEW m \in Months
    PROVE  /\ StartOf(m) \in Nat
           /\ StartOf(NextMonthStart(m)) = StartOf(m) + 2
           /\ StartOf(PreviousMonthStart(m)) = StartOf(m) - 2
<1>1. m.year \in Nat /\ m.month \in 0..11
  BY MonthsAssumption
<1>2. CASE m.month = 11
  BY <1>1, <1>2 DEF StartOf, NextMonthStart, PreviousMonthStart, DateUTC
<1>3. CASE m.month = 0
  BY <1>1, <1>3 DEF StartOf, NextMonthStart, PreviousMonthStart, DateUTC
<1>4. CASE m.month \in 1..10
  BY <1>1, <1>4 DEF StartOf, NextMonthStart, PreviousMonthStart, DateUTC
<1> QED BY <1>1, <1>2, <1>3, <1>4

\* No two months begin together.
LEMMA MonthsDiffer ==
    ASSUME NEW m \in Months, NEW b \in [year : Int, month : 0..11], StartOf(m) = StartOf(b)
    PROVE  m = b
<1>1. /\ m \in [year : Nat, month : 0..11]
      /\ m.year \in Int /\ m.month \in 0..11 /\ b.year \in Int /\ b.month \in 0..11
  BY MonthsAssumption
<1>2. 12 * m.year + m.month = 12 * b.year + b.month
  BY <1>1 DEF StartOf
<1>3. m.year = b.year /\ m.month = b.month
  BY <1>1, <1>2
<1> QED BY <1>1, <1>3

\* The month before, as a record.
LEMMA PreviousIsMonth ==
    ASSUME NEW m \in Months
    PROVE  PreviousMonthStart(m) \in [year : Int, month : 0..11]
<1>1. m.year \in Nat /\ m.month \in 0..11
  BY MonthsAssumption
<1> QED BY <1>1 DEF PreviousMonthStart, DateUTC

\* The statement of countDisputesInMonth selects the instants of the month and
\* no other.
LEMMA InstantsOfMonth ==
    ASSUME NEW m \in Months
    PROVE  /\ StartOf(m) \in Nat
           /\ {t \in Instants : StartOf(m) <= t /\ t < StartOf(NextMonthStart(m))}
                = {StartOf(m), StartOf(m) + 1}
<1>1. \A b \in Months : StartOf(b) \in Nat /\ \E k \in Nat : StartOf(b) = 2 * k
  <2> SUFFICES ASSUME NEW b \in Months
               PROVE  StartOf(b) \in Nat /\ \E k \in Nat : StartOf(b) = 2 * k
    OBVIOUS
  <2>1. b.year \in Nat /\ b.month \in 0..11
    BY MonthsAssumption
  <2>2. 12 * b.year + b.month \in Nat /\ StartOf(b) = 2 * (12 * b.year + b.month)
    BY <2>1 DEF StartOf
  <2> QED BY <2>2
<1>2. StartOf(NextMonthStart(m)) = StartOf(m) + 2
  BY MonthsFollow
<1>3. StartOf(m) \in Instants /\ StartOf(m) + 1 \in Instants
  BY DEF Instants
<1>4. ASSUME NEW t \in Instants, StartOf(m) <= t, t < StartOf(m) + 2
      PROVE  t \in {StartOf(m), StartOf(m) + 1}
  <2>1. PICK b \in Months : t = StartOf(b) \/ t = StartOf(b) + 1
    BY DEF Instants
  <2> QED BY <1>1, <1>4, <2>1
<1> QED BY <1>1, <1>2, <1>3, <1>4

Volume == [transactions : Nat, cardAbsent : Nat, fraudReports : Nat]

\* The counts and rows there are at any time.
DataTypeOK ==
    /\ filed \in [Programmes -> [Instants -> Nat]]
    /\ volumes \in [Programmes -> [Months -> Volume]]
    /\ changes \in Nat

\* What the two statements of a report return is what they are meant to: the
\* disputes of the month, and the row of the month the programme divides by.
LEMMA ReadsAreRight ==
    ASSUME DataTypeOK, NEW p \in Programmes, NEW m \in Months
    PROVE  /\ CountDisputesInMonth(p, m) = FiledIn(p, m)
           /\ FiledIn(p, m) \in Nat
           /\ FindMonthlyVolume(p, DenominatorMonth(p, m)) = RowFor(p, m)
           /\ RowFor(p, m) \in Volume
<1>1. /\ StartOf(m) \in Nat /\ StartOf(m) # StartOf(m) + 1
      /\ StartOf(m) \in Instants /\ StartOf(m) + 1 \in Instants
  BY InstantsOfMonth DEF Instants
<1>2. filed[p][StartOf(m)] \in Nat /\ filed[p][StartOf(m) + 1] \in Nat
  BY <1>1 DEF DataTypeOK
<1>3. CountDisputesInMonth(p, m) = FiledIn(p, m) /\ FiledIn(p, m) \in Nat
  BY <1>1, <1>2, InstantsOfMonth, SumOfTwo DEF CountDisputesInMonth, FiledIn
<1>4. NoVolume \in Volume
  BY DEF NoVolume, Volume
<1>5. ASSUME NEW b \in Months, b = DenominatorMonth(p, m)
      PROVE  /\ FindMonthlyVolume(p, DenominatorMonth(p, m)) = RowFor(p, m)
             /\ RowFor(p, m) \in Volume
  <2>1. StartOf(b) + (IF p = "VAMP" THEN 0 ELSE 2) = StartOf(m)
    BY <1>1, <1>5, MonthsFollow DEF DenominatorMonth
  <2>2. ASSUME NEW c \in Months, StartOf(c) + (IF p = "VAMP" THEN 0 ELSE 2) = StartOf(m)
        PROVE  c = b
    <3>1. StartOf(c) \in Nat /\ StartOf(b) \in Nat
      BY MonthsFollow
    <3>2. StartOf(c) = StartOf(b) /\ b \in [year : Int, month : 0..11]
      BY <2>1, <2>2, <3>1, MonthsAssumption
    <3> QED BY <3>2, MonthsDiffer
  <2>3. PICK found : found = {c \in Months :
                                StartOf(c) + (IF p = "VAMP" THEN 0 ELSE 2) = StartOf(m)}
    OBVIOUS
  <2>4. found = {b}
    BY <2>1, <2>2, <2>3
  <2>5. (CHOOSE c \in found : TRUE) = b
    BY <2>4
  <2>6. RowFor(p, m) = volumes[p][b]
    BY <2>3, <2>4, <2>5 DEF RowFor
  <2> QED BY <1>5, <2>6 DEF FindMonthlyVolume, DataTypeOK
<1>6. ASSUME DenominatorMonth(p, m) \notin Months
      PROVE  /\ FindMonthlyVolume(p, DenominatorMonth(p, m)) = RowFor(p, m)
             /\ RowFor(p, m) \in Volume
  <2>1. ASSUME NEW c \in Months, StartOf(c) + (IF p = "VAMP" THEN 0 ELSE 2) = StartOf(m)
        PROVE  FALSE
    <3>1. p # "VAMP"
      <4>1. CASE p = "VAMP"
        <5>1. StartOf(c) = StartOf(m) /\ m \in [year : Int, month : 0..11]
          BY <2>1, <4>1, MonthsFollow, MonthsAssumption
        <5> QED BY <1>6, <4>1, <5>1, MonthsDiffer DEF DenominatorMonth
      <4> QED BY <4>1
    <3>2. StartOf(c) \in Nat /\ StartOf(PreviousMonthStart(m)) = StartOf(m) - 2
      BY MonthsFollow
    <3>3. StartOf(c) = StartOf(PreviousMonthStart(m))
      BY <1>1, <2>1, <3>1, <3>2
    <3>4. c = PreviousMonthStart(m)
      BY <3>3, PreviousIsMonth, MonthsDiffer
    <3> QED BY <1>6, <3>1, <3>4 DEF DenominatorMonth
  <2>2. PICK found : found = {c \in Months :
                                StartOf(c) + (IF p = "VAMP" THEN 0 ELSE 2) = StartOf(m)}
    OBVIOUS
  <2>3. found = {}
    BY <2>1, <2>2
  <2>4. RowFor(p, m) = NoVolume
    BY <2>2, <2>3 DEF RowFor
  <2> QED BY <1>4, <1>6, <2>4 DEF FindMonthlyVolume
<1> QED BY <1>3, <1>5, <1>6

-----------------------------------------------------------------------------
\* Rounding

\* What rounding to the nearest basis point does to a comparison with b of
\* them: it never loses a ratio that reaches b, and never lifts one to b that
\* is more than half a basis point short of it.
LEMMA RoundingAtALine ==
    ASSUME NEW n \in Nat, NEW d \in Nat, d > 0, NEW b \in Nat
    PROVE  /\ ToBasisPoints(n, d) \in Nat
           /\ Reaches(n, d, 2 * b) => ToBasisPoints(n, d) >= b
           /\ ToBasisPoints(n, d) >= b => Reaches(n, d, 2 * b - 1)
<1>1. PICK q, x, y : /\ q = ToBasisPoints(n, d)
                     /\ x = 2 * 10000 * n + d /\ y = 2 * d
  OBVIOUS
<1>2. x \in Nat /\ y \in Nat /\ y > 0
  BY <1>1
<1>3. q = x \div y
  BY <1>1 DEF ToBasisPoints
<1>4. q \in Int /\ y * q <= x /\ x < y * (q + 1)
  BY <1>2, <1>3
<1>5. q \in Nat
  BY <1>2, <1>4
<1>6. ASSUME Reaches(n, d, 2 * b) PROVE q >= b
  <2>1. y * b <= x
    BY <1>1, <1>6 DEF Reaches
  <2>2. y * b < y * (q + 1)
    BY <1>2, <1>4, <2>1
  <2> QED BY <1>2, <1>5, <2>2
<1>7. ASSUME q >= b PROVE Reaches(n, d, 2 * b - 1)
  <2>1. y * b <= y * q
    BY <1>2, <1>5, <1>7
  <2>2. 2 * d * b <= 2 * 10000 * n + d
    BY <1>1, <1>2, <1>4, <2>1
  <2>3. (2 * b - 1) * d = 2 * d * b - d
    OBVIOUS
  <2> QED BY <2>2, <2>3 DEF Reaches
<1> QED BY <1>1, <1>5, <1>6, <1>7

\* The tier of n disputes over volume v.
TierFor(p, n, v) ==
    IF p = "VAMP" THEN EvaluateVamp(v.fraudReports, n, v.cardAbsent, Region)
    ELSE EvaluateEcp(n, v.transactions)

\* A merchant over a line by the exact ratio is in a tier that counts as a
\* breach, and so is one with more disputes over the same volume.
LEMMA OverALine ==
    ASSUME NEW p \in Programmes, NEW n \in Nat, NEW k \in Nat, n <= k, NEW v \in Volume,
           InBreach(p, n, v, 0)
    PROVE  TierFor(p, k, v) \in Breaches
<1>1. v.transactions \in Nat /\ v.cardAbsent \in Nat /\ v.fraudReports \in Nat
  BY DEF Volume
<1>2. ASSUME NEW a \in Nat, NEW b \in Nat, NEW c \in Nat, NEW d \in Nat, a <= b, Reaches(a, d, c)
      PROVE  d > 0 /\ Reaches(b, d, c)
  <2>1. 2 * 10000 * a <= 2 * 10000 * b
    BY <1>2
  <2>2. d > 0 /\ c * d \in Nat /\ 2 * 10000 * a >= c * d
    BY <1>2 DEF Reaches
  <2> QED BY <2>1, <2>2 DEF Reaches
<1>3. CASE p = "VAMP"
  <2>1. PICK b \in Nat : b = VampMerchantBps(Region)
    BY DEF VampMerchantBps
  <2>2. PICK e, f : e = n + v.fraudReports /\ f = v.fraudReports + k
    OBVIOUS
  <2>3. e \in Nat /\ f \in Nat /\ e <= f /\ e >= VampEventFloor /\ VampEventFloor \in Nat
    BY <1>1, <1>3, <2>2 DEF InBreach, VampEventFloor
  <2>4. Reaches(e, v.cardAbsent, 2 * b)
    BY <1>3, <2>1, <2>2 DEF InBreach
  <2>5. v.cardAbsent > 0 /\ Reaches(f, v.cardAbsent, 2 * b)
    <3>1. 2 * b \in Nat
      OBVIOUS
    <3> QED BY <1>1, <1>2, <2>3, <2>4, <3>1
  <2>6. ToBasisPoints(f, v.cardAbsent) >= b
    BY <1>1, <2>3, <2>5, RoundingAtALine
  <2>7. EvaluateVamp(v.fraudReports, k, v.cardAbsent, Region) = "EXCESSIVE"
    BY <1>1, <2>1, <2>2, <2>3, <2>5, <2>6 DEF EvaluateVamp
  <2> QED BY <1>3, <2>7 DEF TierFor, Breaches
<1>4. CASE p = "ECP"
  <2>1. n >= 100 /\ Reaches(n, v.transactions, 2 * 150)
    BY <1>4 DEF InBreach
  <2>2. v.transactions > 0 /\ Reaches(k, v.transactions, 2 * 150)
    BY <1>1, <1>2, <2>1
  <2>3. ToBasisPoints(k, v.transactions) >= 150
    BY <1>1, <2>2, RoundingAtALine
  <2>4. EvaluateEcp(k, v.transactions) \in {"ECM", "HECM"}
    BY <1>1, <2>1, <2>2, <2>3 DEF EvaluateEcp
  <2> QED BY <1>4, <2>4 DEF TierFor, Breaches
<1> QED BY <1>3, <1>4 DEF Programmes

\* A tier that counts as a breach is at most half a basis point short of the
\* line, and is so with any larger number of disputes.
LEMMA NearALine ==
    ASSUME NEW p \in Programmes, NEW n \in Nat, NEW k \in Nat, n <= k, NEW v \in Volume,
           TierFor(p, n, v) \in Breaches
    PROVE  InBreach(p, k, v, 1)
<1>1. v.transactions \in Nat /\ v.cardAbsent \in Nat /\ v.fraudReports \in Nat
  BY DEF Volume
<1>2. ASSUME NEW a \in Nat, NEW b \in Nat, NEW c \in Int, NEW d \in Nat, a <= b, Reaches(a, d, c)
      PROVE  Reaches(b, d, c)
  <2>1. 2 * 10000 * a <= 2 * 10000 * b
    BY <1>2
  <2>2. d > 0 /\ c * d \in Int /\ 2 * 10000 * a >= c * d
    BY <1>2 DEF Reaches
  <2> QED BY <2>1, <2>2 DEF Reaches
<1>3. CASE p = "VAMP"
  <2>1. PICK b \in Nat : b = VampMerchantBps(Region)
    BY DEF VampMerchantBps
  <2>2. PICK e, f : e = v.fraudReports + n /\ f = k + v.fraudReports
    OBVIOUS
  <2>3. e \in Nat /\ f \in Nat /\ e <= f
    BY <1>1, <2>2
  <2>4. EvaluateVamp(v.fraudReports, n, v.cardAbsent, Region) = "EXCESSIVE"
    BY <1>3 DEF TierFor, Breaches, EvaluateVamp
  <2>5. /\ v.cardAbsent # 0 /\ ~ (e < VampEventFloor)
        /\ ToBasisPoints(e, v.cardAbsent) >= b
    BY <2>1, <2>2, <2>4 DEF EvaluateVamp
  <2>6. Reaches(e, v.cardAbsent, 2 * b - 1)
    BY <1>1, <2>3, <2>5, RoundingAtALine
  <2>7. Reaches(f, v.cardAbsent, 2 * b - 1)
    <3>1. 2 * b - 1 \in Int
      OBVIOUS
    <3> QED BY <1>1, <1>2, <2>3, <2>6, <3>1
  <2>8. f >= VampEventFloor
    BY <2>3, <2>5 DEF VampEventFloor
  <2> QED BY <1>3, <2>1, <2>2, <2>7, <2>8 DEF InBreach
<1>4. CASE p = "ECP"
  <2>1. EvaluateEcp(n, v.transactions) \in {"ECM", "HECM"}
    BY <1>4 DEF TierFor, Breaches, EvaluateEcp
  <2>2. v.transactions # 0 /\ n >= 100
    BY <2>1 DEF EvaluateEcp
  <2>3. ToBasisPoints(n, v.transactions) >= 150
    <3>1. ToBasisPoints(n, v.transactions) \in Nat
      BY <1>1, <2>2, RoundingAtALine
    <3> QED BY <2>1, <3>1 DEF EvaluateEcp
  <2>4. Reaches(n, v.transactions, 2 * 150 - 1)
    <3>1. PICK b \in Nat : b = 150
      OBVIOUS
    <3>2. v.transactions > 0
      BY <1>1, <2>2
    <3>3. Reaches(n, v.transactions, 2 * b - 1)
      BY <1>1, <2>3, <3>1, <3>2, RoundingAtALine
    <3> QED BY <3>1, <3>3
  <2>5. Reaches(k, v.transactions, 2 * 150 - 1)
    BY <1>1, <1>2, <2>4
  <2> QED BY <1>4, <2>2, <2>5 DEF InBreach
<1> QED BY <1>3, <1>4 DEF Programmes

-----------------------------------------------------------------------------
\* Reports

Steps == {"idle", "count", "volume", "done"}

ComplianceTypeOK ==
    /\ DataTypeOK
    /\ month \in [Reports -> Months]
    /\ step \in [Reports -> [Programmes -> Steps]]
    /\ count \in [Reports -> [Programmes -> Nat]]
    /\ volume \in [Reports -> [Programmes -> Volume]]
    /\ asked \in [Reports -> [Programmes -> [count : Nat, volume : Volume, changes : Nat]]]

\* What a half of a report knows, compared with what was so when it was asked
\* for and what is so now: disputes only become more, and a volume read is the
\* one of then or, as long as there was one change at most, the one of now.
HalfInOrder(r, p) ==
    step[r][p] # "idle" =>
        /\ asked[r][p].count <= FiledIn(p, month[r])
        /\ asked[r][p].changes <= changes
        /\ changes = asked[r][p].changes => asked[r][p].volume = RowFor(p, month[r])
        /\ step[r][p] \in {"volume", "done"} =>
              /\ asked[r][p].count <= count[r][p]
              /\ count[r][p] <= FiledIn(p, month[r])
        /\ step[r][p] = "done" /\ changes <= asked[r][p].changes + 1 =>
              volume[r][p] \in {asked[r][p].volume, RowFor(p, month[r])}

ReportsInv == ComplianceTypeOK /\ \A r \in Reports, p \in Programmes : HalfInOrder(r, p)

\* Data that only grows by one dispute, or one row, keeps what a half knows.
LEMMA ChangeKeepsHalves ==
    ASSUME ReportsInv, DataTypeOK', UNCHANGED reportVars, changes' = changes + 1,
           \A p \in Programmes, m \in Months : FiledIn(p, m) <= FiledIn(p, m)'
    PROVE  ReportsInv'
<1>1. ComplianceTypeOK'
  BY DEF ReportsInv, ComplianceTypeOK, reportVars
<1>2. ASSUME NEW r \in Reports, NEW p \in Programmes PROVE HalfInOrder(r, p)'
  <2>1. /\ month[r] \in Months /\ month'[r] = month[r] /\ step'[r][p] = step[r][p]
        /\ count'[r][p] = count[r][p] /\ volume'[r][p] = volume[r][p]
        /\ asked'[r][p] = asked[r][p] /\ count[r][p] \in Nat
        /\ asked[r][p].count \in Nat /\ asked[r][p].changes \in Nat
    BY DEF ReportsInv, ComplianceTypeOK, reportVars
  <2>2. PICK m \in Months : m = month[r] /\ m = month'[r]
    BY <2>1
  <2>3. /\ FiledIn(p, m) \in Nat /\ FiledIn(p, m)' \in Nat /\ FiledIn(p, m) <= FiledIn(p, m)'
        /\ changes \in Nat
    <3>1. DataTypeOK
      BY DEF ReportsInv, ComplianceTypeOK
    <3>2. FiledIn(p, m) \in Nat
      BY <3>1, ReadsAreRight
    <3>3. FiledIn(p, m)' \in Nat
      <4>1. filed' \in [Programmes -> [Instants -> Nat]]
        BY DEF DataTypeOK
      <4>2. StartOf(m) \in Instants /\ StartOf(m) + 1 \in Instants
        BY DEF Instants
      <4> QED BY <4>1, <4>2 DEF FiledIn
    <3> QED BY <3>1, <3>2, <3>3 DEF DataTypeOK
  <2>4. ASSUME step[r][p] # "idle"
        PROVE  /\ asked[r][p].count <= FiledIn(p, m)'
               /\ asked[r][p].changes < changes'
               /\ step[r][p] \in {"volume", "done"} =>
                     asked[r][p].count <= count[r][p] /\ count[r][p] <= FiledIn(p, m)'
               /\ step[r][p] = "done" /\ changes' <= asked[r][p].changes + 1 =>
                     volume[r][p] = asked[r][p].volume
    BY <2>1, <2>2, <2>3, <2>4 DEF ReportsInv, HalfInOrder
  <2> QED BY <2>1, <2>2, <2>3, <2>4 DEF HalfInOrder
<1> QED BY <1>1, <1>2 DEF ReportsInv

\* A dispute more, or a row corrected, keeps the types of the data and takes no
\* dispute away.
LEMMA DataChanges ==
    ASSUME DataTypeOK, NEW p \in Programmes,
           \/ \E t \in Instants : FileDispute(p, t)
           \/ \E m \in Months, row \in VolumeRows : UpsertMonthlyVolume(p, m, row)
    PROVE  /\ DataTypeOK' /\ UNCHANGED reportVars /\ changes' = changes + 1
           /\ \A q \in Programmes, m \in Months : FiledIn(q, m) <= FiledIn(q, m)'
<1>1. ASSUME NEW q \in Programmes, NEW m \in Months
      PROVE  /\ StartOf(m) \in Instants /\ StartOf(m) + 1 \in Instants
             /\ filed[q][StartOf(m)] \in Nat /\ filed[q][StartOf(m) + 1] \in Nat
  <2>1. StartOf(m) \in Instants /\ StartOf(m) + 1 \in Instants
    BY DEF Instants
  <2> QED BY <2>1 DEF DataTypeOK
<1>2. ASSUME NEW t \in Instants, FileDispute(p, t)
      PROVE  /\ DataTypeOK' /\ UNCHANGED reportVars /\ changes' = changes + 1
             /\ \A q \in Programmes, m \in Months : FiledIn(q, m) <= FiledIn(q, m)'
  <2>1. /\ filed' = [filed EXCEPT ![p][t] = @ + 1] /\ volumes' = volumes
        /\ UNCHANGED reportVars /\ changes' = changes + 1
    BY <1>2 DEF FileDispute, Change
  <2>2. DataTypeOK'
    BY <2>1 DEF DataTypeOK
  <2>3. \A q \in Programmes, u \in Instants : filed[q][u] \in Nat /\ filed'[q][u] \in Nat
                                                /\ filed[q][u] <= filed'[q][u]
    BY <2>1 DEF DataTypeOK
  <2>4. ASSUME NEW q \in Programmes, NEW m \in Months PROVE FiledIn(q, m) <= FiledIn(q, m)'
    <3>1. PICK u, v : u = StartOf(m) /\ v = StartOf(m) + 1
      OBVIOUS
    <3>2. u \in Instants /\ v \in Instants
      BY <1>1, <3>1
    <3>3. filed[q][u] + filed[q][v] <= filed'[q][u] + filed'[q][v]
      BY <2>3, <3>2
    <3> QED BY <3>1, <3>3 DEF FiledIn
  <2> QED BY <2>1, <2>2, <2>4
<1>3. ASSUME NEW m \in Months, NEW row \in VolumeRows, UpsertMonthlyVolume(p, m, row)
      PROVE  /\ DataTypeOK' /\ UNCHANGED reportVars /\ changes' = changes + 1
             /\ \A q \in Programmes, b \in Months : FiledIn(q, b) <= FiledIn(q, b)'
  <2>1. /\ volumes' = [volumes EXCEPT ![p][m] = row] /\ filed' = filed
        /\ UNCHANGED reportVars /\ changes' = changes + 1
    BY <1>3 DEF UpsertMonthlyVolume, Change
  <2>2. row \in Volume
    BY DataAssumption DEF Volume
  <2>3. DataTypeOK'
    BY <2>1, <2>2 DEF DataTypeOK
  <2>4. \A q \in Programmes, b \in Months : FiledIn(q, b) \in Nat /\ FiledIn(q, b)' = FiledIn(q, b)
    BY <1>1, <2>1 DEF FiledIn
  <2>5. \A q \in Programmes, b \in Months : FiledIn(q, b) <= FiledIn(q, b)'
    BY <2>4
  <2> QED BY <2>1, <2>3, <2>5
<1> QED BY <1>2, <1>3

\* A statement of a report, and its end, leave the data and the other reports
\* alone.
LEMMA ReportsKeepHalves ==
    ASSUME ReportsInv, NEW r \in Reports, UNCHANGED dataVars, ComplianceTypeOK',
           \A q \in Reports \ {r} :
               /\ month'[q] = month[q] /\ step'[q] = step[q] /\ count'[q] = count[q]
               /\ volume'[q] = volume[q] /\ asked'[q] = asked[q],
           \A p \in Programmes : HalfInOrder(r, p)'
    PROVE  ReportsInv'
<1>1. ASSUME NEW q \in Reports \ {r}, NEW p \in Programmes PROVE HalfInOrder(q, p)'
  <2>1. HalfInOrder(q, p)
    BY DEF ReportsInv
  <2>2. PICK m : m = month[q] /\ m = month'[q]
    OBVIOUS
  <2>3. FiledIn(p, m)' = FiledIn(p, m) /\ RowFor(p, m)' = RowFor(p, m) /\ changes' = changes
    BY DEF dataVars, FiledIn, RowFor
  <2> QED BY <2>1, <2>2, <2>3 DEF HalfInOrder
<1> QED BY <1>1 DEF ReportsInv

\* Every statement and every end of a report keeps the invariant.
LEMMA ReportStep ==
    ASSUME ReportsInv, NEW r \in Reports,
           \/ \E m \in Months : Evaluate(r, m)
           \/ \E p \in Programmes : Count(r, p) \/ Divide(r, p)
           \/ Reply(r) \/ StatementFails(r)
    PROVE  ReportsInv'
<1>1. /\ ComplianceTypeOK /\ DataTypeOK /\ changes \in Nat
      /\ \A p \in Programmes : HalfInOrder(r, p)
  BY DEF ReportsInv, ComplianceTypeOK, DataTypeOK
<1>2. ASSUME NEW m \in Months, Evaluate(r, m) PROVE ReportsInv'
  <2>1. \A p \in Programmes : FiledIn(p, m) \in Nat /\ RowFor(p, m) \in Volume
    BY <1>1, ReadsAreRight
  <2>2. PICK a : a = [p \in Programmes |-> [count |-> FiledIn(p, m), volume |-> RowFor(p, m),
                                            changes |-> changes]]
    OBVIOUS
  <2>3. /\ a \in [Programmes -> [count : Nat, volume : Volume, changes : Nat]]
        /\ \A p \in Programmes : /\ a[p].count = FiledIn(p, m) /\ a[p].volume = RowFor(p, m)
                                 /\ a[p].changes = changes
    BY <1>1, <2>1, <2>2
  <2>4. /\ month' = [month EXCEPT ![r] = m] /\ asked' = [asked EXCEPT ![r] = a]
        /\ step' = [step EXCEPT ![r] = [p \in Programmes |-> "count"]]
        /\ UNCHANGED <<dataVars, count, volume>>
    BY <1>2, <2>2 DEF Evaluate
  <2>5. ComplianceTypeOK'
    BY <1>1, <2>3, <2>4 DEF ComplianceTypeOK, DataTypeOK, dataVars, Steps
  <2>6. ASSUME NEW p \in Programmes PROVE HalfInOrder(r, p)'
    <3>1. /\ month'[r] = m /\ asked'[r] = a /\ step'[r][p] = "count" /\ changes' = changes
          /\ FiledIn(p, m)' = FiledIn(p, m) /\ RowFor(p, m)' = RowFor(p, m)
      BY <1>1, <2>4 DEF ComplianceTypeOK, dataVars, FiledIn, RowFor
    <3> QED BY <1>1, <2>1, <2>3, <3>1 DEF HalfInOrder
  <2> QED BY <1>1, <2>4, <2>5, <2>6, ReportsKeepHalves DEF ComplianceTypeOK
<1>3. ASSUME NEW p \in Programmes, Count(r, p) PROVE ReportsInv'
  <2>1. PICK m \in Months : m = month[r]
    BY <1>1 DEF ComplianceTypeOK
  <2>2. CountDisputesInMonth(p, m) = FiledIn(p, m) /\ FiledIn(p, m) \in Nat
    BY <1>1, ReadsAreRight
  <2>3. /\ step[r][p] = "count" /\ step' = [step EXCEPT ![r][p] = "volume"]
        /\ count' = [count EXCEPT ![r][p] = FiledIn(p, m)]
        /\ UNCHANGED <<dataVars, month, volume, asked>>
    BY <1>3, <2>1, <2>2 DEF Count
  <2>4. ComplianceTypeOK'
    BY <1>1, <2>2, <2>3 DEF ComplianceTypeOK, DataTypeOK, dataVars, Steps
  <2>5. ASSUME NEW q \in Programmes PROVE HalfInOrder(r, q)'
    <3>1. /\ month'[r] = m /\ asked' = asked /\ changes' = changes /\ volume' = volume
          /\ FiledIn(q, m)' = FiledIn(q, m) /\ RowFor(q, m)' = RowFor(q, m)
      BY <2>1, <2>3 DEF dataVars, FiledIn, RowFor
    <3>2. CASE q = p
      <4>1. step'[r][q] = "volume" /\ count'[r][q] = FiledIn(q, m)
        BY <1>1, <2>3, <3>2 DEF ComplianceTypeOK
      <4> QED BY <1>1, <2>1, <2>2, <2>3, <3>1, <3>2, <4>1 DEF HalfInOrder
    <3>3. CASE q # p
      <4>1. step'[r][q] = step[r][q] /\ count'[r][q] = count[r][q]
        BY <1>1, <2>3, <3>3 DEF ComplianceTypeOK
      <4> QED BY <1>1, <2>1, <3>1, <4>1 DEF HalfInOrder
    <3> QED BY <3>2, <3>3
  <2> QED BY <1>1, <2>3, <2>4, <2>5, ReportsKeepHalves DEF ComplianceTypeOK
<1>4. ASSUME NEW p \in Programmes, Divide(r, p) PROVE ReportsInv'
  <2>1. PICK m \in Months : m = month[r]
    BY <1>1 DEF ComplianceTypeOK
  <2>2. /\ FindMonthlyVolume(p, DenominatorMonth(p, m)) = RowFor(p, m)
        /\ RowFor(p, m) \in Volume
    BY <1>1, ReadsAreRight
  <2>3. /\ step[r][p] = "volume" /\ step' = [step EXCEPT ![r][p] = "done"]
        /\ volume' = [volume EXCEPT ![r][p] = RowFor(p, m)]
        /\ UNCHANGED <<dataVars, month, count, asked>>
    BY <1>4, <2>1, <2>2 DEF Divide
  <2>4. ComplianceTypeOK'
    BY <1>1, <2>2, <2>3 DEF ComplianceTypeOK, DataTypeOK, dataVars, Steps
  <2>5. ASSUME NEW q \in Programmes PROVE HalfInOrder(r, q)'
    <3>1. /\ month'[r] = m /\ asked' = asked /\ changes' = changes /\ count' = count
          /\ FiledIn(q, m)' = FiledIn(q, m) /\ RowFor(q, m)' = RowFor(q, m)
      BY <2>1, <2>3 DEF dataVars, FiledIn, RowFor
    <3>2. CASE q = p
      <4>1. step'[r][q] = "done" /\ volume'[r][q] = RowFor(q, m)
        BY <1>1, <2>3, <3>2 DEF ComplianceTypeOK
      <4> QED BY <1>1, <2>1, <2>3, <3>1, <3>2, <4>1 DEF HalfInOrder
    <3>3. CASE q # p
      <4>1. step'[r][q] = step[r][q] /\ volume'[r][q] = volume[r][q]
        BY <1>1, <2>3, <3>3 DEF ComplianceTypeOK
      <4> QED BY <1>1, <2>1, <3>1, <4>1 DEF HalfInOrder
    <3> QED BY <3>2, <3>3
  <2> QED BY <1>1, <2>3, <2>4, <2>5, ReportsKeepHalves DEF ComplianceTypeOK
<1>5. ASSUME Reset(r) PROVE ReportsInv'
  <2>1. NoVolume \in Volume
    BY DEF NoVolume, Volume
  <2>2. /\ step' = [step EXCEPT ![r] = [p \in Programmes |-> "idle"]]
        /\ count' = [count EXCEPT ![r] = [p \in Programmes |-> 0]]
        /\ volume' = [volume EXCEPT ![r] = [p \in Programmes |-> NoVolume]]
        /\ UNCHANGED <<dataVars, month, asked>>
    BY <1>5 DEF Reset
  <2>3. ComplianceTypeOK'
    BY <1>1, <2>1, <2>2 DEF ComplianceTypeOK, DataTypeOK, dataVars, Steps
  <2>4. \A p \in Programmes : HalfInOrder(r, p)'
    BY <1>1, <2>2 DEF HalfInOrder, ComplianceTypeOK
  <2> QED BY <1>1, <2>2, <2>3, <2>4, ReportsKeepHalves DEF ComplianceTypeOK
<1> QED BY <1>2, <1>3, <1>4, <1>5 DEF Reply, StatementFails

\* What a report knows is in order with what was and what is so, for any number
\* of reports, disputes and corrections.
THEOREM ReportsHold == Spec => []ReportsInv
<1>1. ASSUME Init PROVE ReportsInv
  <2>1. NoVolume \in Volume /\ VolumeRows \subseteq Volume
    BY DataAssumption DEF NoVolume, Volume
  <2>2. ComplianceTypeOK
    <3>1. filed \in [Programmes -> [Instants -> Nat]]
      BY <1>1, DataAssumption DEF Init
    <3>2. volumes \in [Programmes -> [Months -> VolumeRows \cup {NoVolume}]]
      BY <1>1, DataAssumption DEF Init
    <3>3. volumes \in [Programmes -> [Months -> Volume]]
      BY <2>1, <3>2
    <3>4. changes \in Nat /\ month \in [Reports -> Months]
      BY <1>1 DEF Init
    <3>5. step \in [Reports -> [Programmes -> Steps]]
      BY <1>1 DEF Init, Steps
    <3>6. /\ count \in [Reports -> [Programmes -> Nat]]
          /\ volume \in [Reports -> [Programmes -> Volume]]
      BY <1>1, <2>1 DEF Init
    <3>7. asked \in [Reports -> [Programmes -> [count : Nat, volume : Volume, changes : Nat]]]
      BY <1>1, <2>1 DEF Init
    <3> QED BY <3>1, <3>3, <3>4, <3>5, <3>6, <3>7 DEF ComplianceTypeOK, DataTypeOK
  <2>3. \A r \in Reports, p \in Programmes : step[r][p] = "idle"
    BY <1>1 DEF Init
  <2> QED BY <2>2, <2>3 DEF ReportsInv, HalfInOrder
<1>2. ASSUME ReportsInv, [Next]_vars PROVE ReportsInv'
  <2>1. CASE UNCHANGED vars
    <3>1. ComplianceTypeOK'
      BY <1>2, <2>1 DEF ReportsInv, ComplianceTypeOK, DataTypeOK, vars, dataVars, reportVars
    <3>2. ASSUME NEW r \in Reports, NEW p \in Programmes PROVE HalfInOrder(r, p)'
      <4>1. HalfInOrder(r, p)
        BY <1>2 DEF ReportsInv
      <4> QED BY <2>1, <4>1 DEF HalfInOrder, FiledIn, RowFor, vars, dataVars, reportVars
    <3> QED BY <3>1, <3>2 DEF ReportsInv
  <2>2. CASE \E p \in Programmes : \/ \E t \in Instants : FileDispute(p, t)
                                   \/ \E m \in Months, row \in VolumeRows :
                                          UpsertMonthlyVolume(p, m, row)
    <3>1. DataTypeOK
      BY <1>2 DEF ReportsInv, ComplianceTypeOK
    <3> QED BY <1>2, <2>2, <3>1, DataChanges, ChangeKeepsHalves
  <2>3. CASE \E r \in Reports : \/ \E m \in Months : Evaluate(r, m)
                                \/ \E p \in Programmes : Count(r, p) \/ Divide(r, p)
                                \/ Reply(r) \/ StatementFails(r)
    BY <1>2, <2>3, ReportStep
  <2> QED BY <1>2, <2>1, <2>2, <2>3 DEF Next
<1> QED BY <1>1, <1>2, PTL DEF Spec

\* A complete report gives each half the tier of what it counted and read.
LEMMA TierOfHalf == \A r, p : Tier(r, p) = TierFor(p, count[r][p], volume[r][p])
  BY DEF Tier, TierFor

\* Rounding and reading at different moments hide no breach.
THEOREM NoBreachIsMissed == Spec => []NoBreachMissed
<1>1. ReportsInv => NoBreachMissed
  <2> SUFFICES ASSUME ReportsInv, NEW r \in Reports, NEW p \in Programmes, Complete(r),
                      volume[r][p] = asked[r][p].volume,
                      InBreach(p, asked[r][p].count, asked[r][p].volume, 0)
               PROVE  Tier(r, p) \in Breaches /\ AnyBreach(r)
    BY DEF NoBreachMissed
  <2>1. /\ asked[r][p].count \in Nat /\ count[r][p] \in Nat /\ volume[r][p] \in Volume
    BY DEF ReportsInv, ComplianceTypeOK
  <2>2. asked[r][p].count <= count[r][p]
    BY DEF ReportsInv, HalfInOrder, Complete
  <2>3. TierFor(p, count[r][p], volume[r][p]) \in Breaches
    BY <2>1, <2>2, OverALine
  <2> QED BY <2>3, TierOfHalf DEF AnyBreach
<1> QED BY <1>1, ReportsHold, PTL

\* And they make none up: who is reported is in the programme, by the disputes
\* of the month over the volume of then or now, but for half a basis point.
THEOREM EveryBreachIsReal == Spec => []BreachIsReal
<1>1. ReportsInv => BreachIsReal
  <2> SUFFICES ASSUME ReportsInv, NEW r \in Reports, NEW p \in Programmes, Complete(r),
                      Tier(r, p) \in Breaches, changes <= asked[r][p].changes + 1
               PROVE  \E row \in {asked[r][p].volume, RowFor(p, month[r])} :
                          InBreach(p, FiledIn(p, month[r]), row, 1)
    BY DEF BreachIsReal
  <2>1. month[r] \in Months /\ DataTypeOK /\ count[r][p] \in Nat /\ volume[r][p] \in Volume
    BY DEF ReportsInv, ComplianceTypeOK
  <2>2. FiledIn(p, month[r]) \in Nat
    BY <2>1, ReadsAreRight
  <2>3. /\ count[r][p] <= FiledIn(p, month[r])
        /\ volume[r][p] \in {asked[r][p].volume, RowFor(p, month[r])}
    BY DEF ReportsInv, HalfInOrder, Complete
  <2>4. TierFor(p, count[r][p], volume[r][p]) \in Breaches
    BY TierOfHalf
  <2>5. InBreach(p, FiledIn(p, month[r]), volume[r][p], 1)
    BY <2>1, <2>2, <2>3, <2>4, NearALine
  <2> QED BY <2>3, <2>5
<1> QED BY <1>1, ReportsHold, PTL

-----------------------------------------------------------------------------
\* The instants of the months M.
InstantsOf(M) == UNION {{StartOf(m), StartOf(m) + 1} : m \in M}

\* Taking a month away takes its two instants away and no other.
LEMMA InstantsWithout ==
    ASSUME NEW M \in SUBSET Months, NEW m \in M
    PROVE  /\ StartOf(m) # StartOf(m) + 1
           /\ StartOf(m) \in InstantsOf(M) /\ StartOf(m) + 1 \in InstantsOf(M)
           /\ InstantsOf(M \ {m}) = (InstantsOf(M) \ {StartOf(m)}) \ {StartOf(m) + 1}
<1>1. \A b \in M : /\ StartOf(b) \in Nat
                   /\ b \in [year : Int, month : 0..11]
                   /\ \E k \in Nat : StartOf(b) = 2 * k
  <2> SUFFICES ASSUME NEW b \in M
               PROVE  /\ StartOf(b) \in Nat /\ b \in [year : Int, month : 0..11]
                      /\ \E k \in Nat : StartOf(b) = 2 * k
    OBVIOUS
  <2>1. b \in [year : Nat, month : 0..11] /\ b.year \in Nat /\ b.month \in 0..11
    BY MonthsAssumption
  <2>2. 12 * b.year + b.month \in Nat /\ StartOf(b) = 2 * (12 * b.year + b.month)
    BY <2>1 DEF StartOf
  <2> QED BY <2>1, <2>2
<1>2. ASSUME NEW b \in M, b # m
      PROVE  {StartOf(b), StartOf(b) + 1} \cap {StartOf(m), StartOf(m) + 1} = {}
  <2>1. StartOf(b) # StartOf(m)
    BY <1>1, <1>2, MonthsDiffer
  <2> QED BY <1>1, <2>1
<1>3. StartOf(m) \in InstantsOf(M) /\ StartOf(m) + 1 \in InstantsOf(M)
  BY DEF InstantsOf
<1>4. ASSUME NEW t
      PROVE  t \in InstantsOf(M \ {m})
                <=> t \in InstantsOf(M) /\ t # StartOf(m) /\ t # StartOf(m) + 1
  <2>1. ASSUME t \in InstantsOf(M \ {m})
        PROVE  t \in InstantsOf(M) /\ t # StartOf(m) /\ t # StartOf(m) + 1
    <3>1. PICK b \in M \ {m} : t \in {StartOf(b), StartOf(b) + 1}
      BY <2>1 DEF InstantsOf
    <3>2. t \in InstantsOf(M)
      BY <3>1 DEF InstantsOf
    <3>3. {StartOf(b), StartOf(b) + 1} \cap {StartOf(m), StartOf(m) + 1} = {}
      BY <1>2, <3>1
    <3> QED BY <3>1, <3>2, <3>3
  <2>2. ASSUME t \in InstantsOf(M), t # StartOf(m), t # StartOf(m) + 1
        PROVE  t \in InstantsOf(M \ {m})
    <3>1. PICK b \in M : t \in {StartOf(b), StartOf(b) + 1}
      BY <2>2 DEF InstantsOf
    <3>2. b # m
      BY <2>2, <3>1
    <3> QED BY <3>1, <3>2 DEF InstantsOf
  <2> QED BY <2>1, <2>2
<1>5. InstantsOf(M \ {m}) = (InstantsOf(M) \ {StartOf(m)}) \ {StartOf(m) + 1}
  <2>1. PICK A, B, a, b : /\ A = InstantsOf(M \ {m}) /\ B = InstantsOf(M)
                          /\ a = StartOf(m) /\ b = StartOf(m) + 1
    OBVIOUS
  <2>2. \A t : t \in A <=> t \in B /\ t # a /\ t # b
    BY <1>4, <2>1
  <2>3. A = (B \ {a}) \ {b}
    BY <2>2
  <2> QED BY <2>1, <2>3
<1>6. StartOf(m) # StartOf(m) + 1
  BY <1>1
<1> QED BY <1>3, <1>5, <1>6

\* Counting month by month counts every instant once.
LEMMA MonthsAddUp ==
    ASSUME DataTypeOK, NEW p \in Programmes, NEW g,
           \A m \in Months : g[m] = FiledIn(p, m), NEW M \in SUBSET Months
    PROVE  /\ IsFiniteSet(InstantsOf(M))
           /\ SumFunctionOnSet(g, M) = SumFunctionOnSet(filed[p], InstantsOf(M))
<1>1. PICK f : f = filed[p]
  OBVIOUS
<1>2. /\ \A t \in Instants : f[t] \in Nat
      /\ \A m \in Months : g[m] = f[StartOf(m)] + f[StartOf(m) + 1] /\ g[m] \in Nat
  BY <1>1, ReadsAreRight DEF FiledIn, DataTypeOK
<1>3. \A N \in SUBSET Months : IsFiniteSet(N) /\ InstantsOf(N) \subseteq Instants
  BY MonthsAssumption, FS_Subset DEF InstantsOf, Instants
<1>4. PICK C : C = {N \in SUBSET Months :
                      ~ /\ IsFiniteSet(InstantsOf(N))
                        /\ SumFunctionOnSet(g, N) = SumFunctionOnSet(f, InstantsOf(N))}
  OBVIOUS
<1>5. C = {}
  <2> SUFFICES ASSUME C # {} PROVE FALSE
    OBVIOUS
  <2>1. PICK N \in C : \A K \in C : ~ (Cardinality(K) < Cardinality(N))
    BY <1>3, <1>4, SmallestSet
  <2>2. N \in SUBSET Months /\ IsFiniteSet(N)
    BY <1>3, <1>4
  <2>3. CASE N = {}
    <3>1. InstantsOf({}) = {} /\ IsFiniteSet({})
      BY FS_EmptySet DEF InstantsOf
    <3>2. SumFunctionOnSet(g, {}) = 0 /\ SumFunctionOnSet(f, {}) = 0
      BY <3>1, SumOfTaken
    <3> QED BY <1>4, <2>3, <3>1, <3>2
  <2>4. CASE N # {}
    <3>1. PICK m \in N : TRUE
      BY <2>4
    <3>2. PICK a, b, T, S, K : /\ a = StartOf(m) /\ b = StartOf(m) + 1
                               /\ T = InstantsOf(N) /\ S = T \ {a} /\ K = N \ {m}
      OBVIOUS
    <3>3. a \in T /\ b \in S /\ InstantsOf(K) = S \ {b}
      BY <2>2, <3>1, <3>2, InstantsWithout
    <3>4. K \in SUBSET Months /\ K \notin C
      BY <2>1, <2>2, <3>1, <3>2, OneLess
    <3>5. IsFiniteSet(S \ {b}) /\ SumFunctionOnSet(g, K) = SumFunctionOnSet(f, S \ {b})
      BY <1>4, <3>3, <3>4
    <3>6. IsFiniteSet(S) /\ IsFiniteSet(T)
      <4>1. IsFiniteSet((S \ {b}) \cup {b}) /\ (S \ {b}) \cup {b} = S
        BY <3>3, <3>5, FS_AddElement
      <4>2. IsFiniteSet(S \cup {a}) /\ S \cup {a} = T
        BY <3>2, <3>3, <4>1, FS_AddElement
      <4> QED BY <4>1, <4>2
    <3>7. \A t \in T : f[t] \in Nat
      BY <1>2, <1>3, <2>2, <3>2
    <3>8. /\ SumFunctionOnSet(f, T) = f[a] + SumFunctionOnSet(f, S)
          /\ SumFunctionOnSet(f, S) = f[b] + SumFunctionOnSet(f, S \ {b})
          /\ SumFunctionOnSet(f, S \ {b}) \in Nat
      <4>1. SumFunctionOnSet(f, T) = f[a] + SumFunctionOnSet(f, T \ {a})
        BY <3>3, <3>6, <3>7, SumOfAny
      <4>2. \A t \in S : f[t] \in Nat
        BY <3>2, <3>7
      <4>3. SumFunctionOnSet(f, S) = f[b] + SumFunctionOnSet(f, S \ {b})
        BY <3>3, <3>6, <4>2, SumOfAny
      <4>4. SumFunctionOnSet(f, S \ {b}) \in Nat
        BY <3>5, <4>2, SumType
      <4> QED BY <3>2, <4>1, <4>3, <4>4
    <3>9. SumFunctionOnSet(g, N) = g[m] + SumFunctionOnSet(g, K)
      BY <1>2, <2>2, <3>1, <3>2, SumOfAny
    <3>10. g[m] = f[a] + f[b] /\ f[a] \in Nat /\ f[b] \in Nat
      BY <1>2, <2>2, <3>1, <3>2, <3>3, <3>7
    <3>11. SumFunctionOnSet(g, N) = SumFunctionOnSet(f, T)
      BY <3>5, <3>8, <3>9, <3>10
    <3> QED BY <1>4, <2>1, <3>2, <3>6, <3>11
  <2> QED BY <2>3, <2>4
<1> QED BY <1>1, <1>4, <1>5

\* Every dispute counts in one month and in no other.
THEOREM EachDisputeCountsOnce == Spec => []EachCountedOnce
<1>1. ReportsInv => EachCountedOnce
  <2> SUFFICES ASSUME ReportsInv, NEW p \in Programmes
               PROVE  SumFunction([m \in Months |-> CountDisputesInMonth(p, m)])
                        = SumFunction(filed[p])
    BY DEF EachCountedOnce
  <2>1. DataTypeOK
    BY DEF ReportsInv, ComplianceTypeOK
  <2>2. PICK g : g = [m \in Months |-> CountDisputesInMonth(p, m)]
    OBVIOUS
  <2>3. DOMAIN g = Months /\ \A m \in Months : g[m] = FiledIn(p, m)
    BY <2>1, <2>2, ReadsAreRight
  <2>4. DOMAIN filed[p] = Instants /\ InstantsOf(Months) = Instants
    BY <2>1 DEF DataTypeOK, InstantsOf, Instants
  <2>5. SumFunctionOnSet(g, Months) = SumFunctionOnSet(filed[p], InstantsOf(Months))
    BY <2>1, <2>3, MonthsAddUp
  <2> QED BY <2>2, <2>3, <2>4, <2>5 DEF SumFunction
<1> QED BY <1>1, ReportsHold, PTL
=============================================================================
