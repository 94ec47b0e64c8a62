# chargeback-iq: verification development

TLA+ models of the dispute back end in this repository, checked with TLC on
small instances, and theorems about them checked with the TLA+ proof system.
Paths are relative to the repository.

## The system

chargeback-iq is an Express application on PostgreSQL. It has no state of its
own between requests: everything lives in the database, and what makes it hard
is that requests, processor webhooks and the expiry sweep work on the same rows
at the same time, in transactions that may fail anywhere.

| Component | State | Operations | Works with |
|---|---|---|---|
| Lifecycle rules (`src/domain/lifecycle.js`, `migrations/002`, `003`) | `dispute_statuses`, `status_transitions` (seeded, never changed) | `findTransition`, `canTransition`, `nextStatuses`, `isTerminal`, `assertTransition` | read by the service on every move |
| Dispute service (`src/services/disputeService.js`, `src/repositories/disputeRepository.js`) | `disputes`, `evidence_items`, `dispute_events` | `openDispute`, `changeStatus`, `addEvidence` | one transaction per call |
| Transactions (`src/db/tx.js`) | connections of the pool | `withTransaction` | around every call |
| Webhooks (`src/services/webhookService.js`, `src/routes/webhooks.js`, `src/repositories/webhookRepository.js`, `migrations/008`) | `webhook_deliveries` | `processDelivery`: record, act, mark, answer | calls the dispute service; the processor retries |
| Deadlines and sweep (`src/domain/deadlines.js`, `expireOverdueDisputes`) | `respond_by`, `closed_at`, the clock | `selectDeadlineRule`, `computeRespondBy`, `deadlineState`, the sweep | the sweep calls `changeStatus` as SYSTEM |
| Compliance (`src/domain/ratios.js`, `complianceService.js`, `volumeRepository.js`) | `monthly_volumes` | `evaluateEcp`, `evaluateVamp`, reports | reads disputes and volumes, by one statement each |
| Migration runner (`src/db/migrate.js`) | `schema_migrations` | `run` | before the server starts |
| Pool and shutdown (`src/db/pool.js`, `src/server.js`) | lent connections, the server | `connect`, `shutdown` | all requests |
| Reading routes (`src/routes/disputes.js`) | none | `GET /:id`, `GET /:id/evidence-requirements` | several statements per answer, no transaction |
| Other routes, validation, errors, signatures, logging, seeding | none | one call per request | |

The hard behaviours are: transactions interleaved statement by statement, with
row locks, foreign-key locks and a unique index in between; statements, commits
and connections that fail; webhook deliveries repeated, reordered, unsigned, and
crashes between their transactions; a sweep that works through a stale list; the
boundary where a deadline passes; answers and reports put together from reads of
different moments; requests that share too few connections, and a shutdown in
the middle of them; and migration runs that overlap. `PROJECT.json` lists each of them as a
hazard at its line, with the properties that watch it.

What makes each component correct: the table never lets a case be contested
without evidence or leave a terminal status; status, event log and evidence of
a case always tell the same story; a case number has one dispute; an event of
the processor changes a case at most once and is never forgotten; the sweep
expires exactly what is overdue and still the merchant's turn; no breach of a
card programme goes unreported; requests and shutdown end and cut no transaction
off; and every migration takes effect once, in order.

## Modules

- **`ReferenceData`** - the seeded rows of `dispute_statuses` and
  `status_transitions`. The tables are data in the program, so every other
  module takes them as constants with assumptions, and the runs plug these in.
- **`Lifecycle`** - the functions of `lifecycle.js` over a set of rows.
- **`DisputeCase`** - the abstract specification: a case has a status and
  evidence or none, and `Open`, `ChangeStatus` and `AddEvidence` are
  indivisible. `DisputeService` is proved to implement it, and the webhook and
  sweep modules are written on top of it, so they compose with the service
  without carrying its transactions.
- **`DisputeService`** - the three calls statement by statement. `pc[w]` is the
  next statement of connection `w`, `tx[w]` what its transaction wrote and has
  not committed, `lock[w]` its lock on the row of its target, `seen[w]` what
  `changeStatus` read, `err[w]` what it throws. `disputes`, `evidence` and
  `events` hold what is committed; every SELECT reads them (READ COMMITTED) and
  `Commit` publishes `tx[w]` in one step. The lookups of `openDispute` in tables
  that nobody changes are part of the call (`lookup`). The actions and the code:
  `Begin` / `Commit` / `Rollback` are `withTransaction`; `PrepareOpen` and
  `InsertDispute` are `openDispute`; `LockDisputeForUpdate`, `ValidateMove`,
  `UpdateDisputeStatus` are `changeStatus`; `FindDispute` and `InsertEvidence`
  are `addEvidence`; `AppendEvent` ends all three. `DatabaseError`,
  `ConnectionLost` and `CommitAnswerLost` are the failures.
- **`DisputeServiceInv`** - the two inductive invariants of the service in named
  parts, which TLC checks too. **`DisputeServiceProofs`** - the theorems about
  rows and locks. **`DisputeTrailProofs`** - those about the trail, about changes
  and their events, and the refinement of `DisputeCase`.
- **`CaseReader`** - the reading routes next to `DisputeService`: it extends that
  module, so the readers run against all its transactions. `get[r]` is what a
  request has read and has still to read, `known[r]` the newest event a client
  was told of. The first statement reads the dispute; the others follow in any
  order (`Promise.all` on three connections). `AvailableActions` are the moves the
  answer offers, for the status that was read first.
- **`WebhookDelivery`** - `processDelivery` as the sequence of transactions it
  is. `step[h]` is where a request stands, `deliveries` the table, `acked` and
  `applied` record which events were answered with 200 and which changed a case.
  Each transaction is one step, followed by its answer, the loss of its answer,
  or a failure; `Crash` forgets all requests; `OthersCall` is everybody else.
- **`Deadlines`** - `selectDeadlineRule`, `computeRespondBy` and `deadlineState`
  as functions, with the reference ("the most specific matching row wins") as a
  definition of its own.
- **`ExpirySweep`** - the clock, deadlines taken from `Deadlines` for a merchant
  and a table of rules read in any order, the other callers, and
  `expireOverdueDisputes`: list once, then one `ChangeStatus` per case, each of
  which may be refused or fail, before its commit or after it. `listed`, `todo`,
  `expired` and `skipped` are the sweep's lists.
- **`Ratios`**, **`Compliance`** - the thresholds, the rounding to basis points
  and the months as functions; and the report, whose two halves each count and
  then divide, by statements of their own, while disputes arrive and volumes are
  corrected. `asked` records what was true when the report was asked for; the
  code has no such thing, the properties need it.
- **`Server`** - the pool and the shutdown. A request is a sequence of stages,
  each asking for some connections at once (`PlanOf`); `held` and `waiting` are
  the pool, `server` goes from `up` over `closing` (`server.close`) and `ending`
  (`pool.end`) to an exit. What the statements do is left to the other modules.
- **`MigrationRunner`** - runs of `migrate.js` that
  overlap, fail, die and are started again, over a directory where files are
  edited and added. `applied[r]` is what run `r` read of `schema_migrations`,
  once; `effects` counts how often the SQL of a file was committed.
- **`CaseReaderProofs`**, **`WebhookDeliveryProofs`**, **`ExpirySweepProofs`**,
  **`ComplianceProofs`**, **`ServerProofs`**, **`MigrationRunnerProofs`** - the
  inductive invariant of each module and its theorems.
- **`MC...`** - instances for TLC. Where the comment says so, an operator is a
  mutant: a plausible bug in the code, used to see that a property notices it.

## Runs

| Run | Question | Size |
|---|---|---|
| `case_in_contention` | Do row, evidence and log of a case agree under all interleavings and failures, is a case number unique, is the invariant of the proofs true, and do the transactions implement `DisputeCase`? | 2 connections, 2 ids for one number, 14 calls, 6 event numbers |
| `reads_and_calls` | Does an answer read at several moments make sense, do repeated reads go forward, do the offered moves work, and does every call end? | 2 connections, 1 reader, 5 calls, 4 event numbers, fair |
| `evidence_after_closing` | Is a closed case free of new evidence? **No** | 2 connections, 9 calls |
| `delivery_faults` | Is an event handled by one request, never twice, and are the rows truthful under retries, badly signed copies, failures and crashes? | 2 requests, 3 events, one sent twice |
| `delivery_settles` | Without failures, is every request answered and every delivery settled, and does PROCESSED mean that the case changed? | 2 requests, 3 events, one sent twice, fair |
| `delivery_once` | Is every acknowledged event handled? **No** | 2 requests, 2 events sent twice |
| `sweep_races` | Is a deadline the one of the most specific rule, and do stale lists, two sweeps and failures ever expire a case wrongly? | 1 case, 2 sweeps, 3 nested rules, 3 merchants, 4 moments |
| `sweep_complete` | Does a sweep end, report on everything and leave nothing overdue behind? | 2 cases, 1 sweep, 3 moments, fair |
| `prearbitration_window` | Does pre-arbitration have a window of its own? **No** | 1 case, 1 sweep |
| `compliance` | Do rounding or reads at different moments hide a breach or invent one, and does every dispute count in one month? | 1 report, 2 months at the turn of a year, rows on and beside every line, 2 changes |
| `server` | Does every request end, does a shutdown end, and does a clean one cut nothing off? | a write, a webhook and `GET /:id` on a pool of 2, fair |
| `migrations` | Does each file take effect once and in order, and does success mean that nothing is missing? | 2 runs, 3 files, 2 contents |

Why the bounds are enough. The rules of a row concern the transactions on that
row, and any two of them conflict pairwise: two connections show every conflict
of two calls, two ids for one number every race for a number. The calls cover a
case from opening to each end and every kind of refusal; six event numbers
allow an opening, evidence, a review, a representment and a decision, with one
number lost to a failure; four allow an opening, evidence and two moves, which is
what a reader has to meet between two of its statements. Two copies of an event
are the least that can race, and two other events show that they are told apart.
Two cases are the least of which a refused one could block the other; three or
four moments put a deadline before, at and after the sweep; three nested rules
make each step of the specificity count. For reports, the counts lie one short
of each floor and the rows on each line, just below it by less than rounding and
just below by more, so that two changes cross any line. A pool of two is smaller
than the three connections `GET /:id` asks for, so it waits for itself and for
the others. Two runs of migrations with three files can meet at, before and
behind each other. `MaxSeq`, `MaxAttempts`, `MaxNow` and `MaxChanges` are the only
bounds in guards; `NumbersLast` keeps calls from starting when they could not
finish, so the bound never cuts a call in two.

Deadlock is checked in every run. `Quiescent` and `Quiet` let the system rest
only when no call is in progress, an exited server stays exited, and sweeps,
reports and migrations may always be started again.

Every property of a passing run has a mutant of the code in the module it is
about, an operator whose comment says so, that makes the property fail.
`UpdateUnlocks` needs a word: PostgreSQL keeps the lock of an UPDATE to the end of
its transaction, so the mutant stands for code that writes the row outside of that
transaction, on another connection or in a transaction of its own.

### Fairness

A statement that can run is run: Node's event loop and the database go on. A
statement that waits for somebody else's row lock or for an uncommitted case
number is assumed to be granted if its wait is over again and again, which is
PostgreSQL's lock queue; so each connection of `DisputeService` has strong
fairness of its next statement. `reads_and_calls` has two connections. With
three, a status change can wait behind evidence inserts that share the row in
turns; there the strong fairness is what makes it end, and `EveryCallEnds` says
nothing about a database without a fair queue.

In `Server`, statements end, the pool lends what it has to whoever waits, the
callbacks of `server.close` and `pool.end` run and the ten-second timer fires
(weak fairness, each stays enabled until it happens). A wait that times out, a
client that leaves and a signal are possible and never assumed: `EveryRequestEnds`
holds without the five-second limit, because no handler holds a connection while
it asks for another.

Nothing is assumed about callers, the processor, the clock, failures or starting
a sweep: the repository's README says that no scheduler runs it.

### What the code does that its text does not say

- Evidence can be stored on a case that is closed while the call runs
  (`evidence_after_closing`).
- An unsigned first copy of an event, or one lost to a crash, uses up the event:
  the signed copy is acknowledged and not handled (`delivery_once`). The row of
  the lost one stays RECEIVED; only a caught error makes it FAILED.
- Pre-arbitration has no window of its own (`prearbitration_window`).

More is visible in the models without a run of its own: a failure that would pass is
acknowledged with 200 like a lasting one; a status change whose COMMIT answer is
lost leaves its delivery FAILED although the case was changed; a request whose
client hung up can be cut off by a shutdown that reports success; a case past its deadline can be
represented until a sweep comes by; `dispute.withdrawn` is always refused, because
no case the service opens is ever in a status that can be withdrawn. Some limits
follow from the source alone and are not about any of the models: the queue warns
three days ahead for every case (`src/routes/disputes.js:35`) although each
rule carries its own `warn_days_before` (`migrations/002_reference_schema.sql:52`);
a file added to the migrations under a name before one that is applied is applied
late (`MigrationRunner` adds new names at the end only).

The promises that do hold are kept by mechanisms worth knowing: the row lock
keeps the status events of a case in the order of their numbers, so a reader
never sees one inserted before one it has read (evidence events, which share the
lock, have no such order); the foreign key of an evidence item waits for a
status change in progress; the 409 CONCURRENT_MODIFICATION is unreachable. A
reader's answer is mixed from several moments, and explained all the same only
because the dispute is read first. Nothing keeps two migration runs apart but the
primary key of `schema_migrations`: both may run the SQL of one file, and one of
them loses it with its transaction. A second SIGTERM that finds the pool ending
ends the process with an error (`pool.end` twice).

## Proofs

Every safety property and every action property of a passing run is proved for
all values of the constants; the runs show the same on small instances, and TLC
checked each inductive invariant before it was proved. Each proof is of the form
`Init => Inv`, `Inv /\ [Next]_vars => Inv'`, `Inv => Property`, with one lemma per
statement or group of statements of the code. What is assumed of the constants
stands in the `ASSUME`s of the modules, which TLC evaluates in every run, and in
the hypotheses named below. `StatusesAssumption`, `TerminalAssumption` and
`FoughtAssumption` say of the tables what the seeded ones satisfy;
`TableAssumption` of `DisputeCase` and `KeyAssumption` of `DisputeService` are the
foreign keys and the primary key of `status_transitions`; `RulesAssumption` says that the rules are
finitely many and no two equally specific for a merchant; `DataAssumption` is the
CHECK constraints of `monthly_volumes`.

### The dispute service

`DisputeServiceProofs` and `DisputeTrailProofs` prove, for any number of
connections, ids, case numbers and operators, any set of calls, and any status
and transition tables that satisfy `StatusesAssumption`, `TerminalAssumption` and
`FoughtAssumption` (the seeded ones do; TLC evaluates them in every run):

- `CoreHolds`: `Spec => []CoreInv`
- `TypeCorrect`, `NumbersUnique`, `ClosedTellsTerminal`: `TypeOK`,
  `CaseNumberUnique` and `ClosedIffTerminal` always hold
- `NoConcurrentModification`: `changeStatus` never answers
  CONCURRENT_MODIFICATION
- `TrailHolds`: `Spec => []TrailInv`
- `EvidenceComesFirst`, `StatusIsExplained`: `FoughtAfterEvidence` and
  `TrailExplainsStatus` always hold
- `TrailGrows`: `TrailGrowsAtItsEnd`, a property of steps

None of them is inductive. That a commit keeps case numbers apart needs to know
that no other transaction holds the number uncommitted (`OpensDiffer`); that
`closed_at` follows the status needs to know what an update is about to commit
(`WritesPending`) and that the row it was computed from has not changed
(`ReadsStand`), which in turn needs the locks (`LocksHeld`, `LocksExclude`).
`CoreInv` is the conjunction of these parts, and the argument is one idea: what a
transaction reads under its lock stays true until it commits, because whatever
could change it waits for the lock. The proof has one lemma per statement of the
code. For a statement that commits nothing, `LocalStep` reduces the goal to the
order of its own transaction; `CommitKeepsCore` shows that a commit leaves what
the others read or wrote as it was.

The audit trail needs a second invariant on top of it. The number of an event is
drawn before its commit, so numbers alone do not order what is committed.
`EventPending` says of every transaction about to commit that its event comes
after all status events its dispute has, and `NumbersDiffer`, `EventsRooted` and
`EvidenceOnRecord` relate the committed events to the numbers and rows. What keeps
`EventPending` true while somebody else commits is `StatusWritersDiffer`: two
transactions about to report a status hold FOR UPDATE locks on different rows, or
one of them is opening a case that is not there yet. `CommitKeepsTrail` then adds
the event at the end of the trail of its dispute and leaves every other trail as
it was.

`ChangesComeWithTheirEvents` (`NeitherAlone`) and `RefinesDisputeCase`
(`ImplementsDisputeCase`) follow from what a single commit shows (`OneCommit`): it
changes one dispute, adds one event of it, and both agree; every other step shows
nothing. Seen by case number this is one call of `DisputeCase`. For a status
change the abstract call asks for a legal move at the moment of the commit,
although the code validated it some statements earlier. `MoveAccepted` closes the
gap: the status is locked since it was read, and evidence only grows
(`MoreEvidence`), so a move once accepted would be accepted still. For an opening
it is `CaseNumberUnique` that makes the number's view go from none to the new
case.

### The readers

`CaseReaderProofs` works under `CoreInv` and `TrailInv` and proves, for any number
of readers next to any number of writers,

- `ReadersHold`: `ReaderSpec => [](CoreInv /\ TrailInv /\ ReaderInv)`
- `AnswersAreExplained`, `PollsNeverGoBack`: `AnswerIsExplained`, `PollsGoForward`
- `ButtonsWork`: `OfferedIsAccepted`

`ReaderInv` says that the events still to be read contain one that led to the
status that was read, not older than what the client was told before (`Covers`).
It holds when the dispute is read, because the trail explains the status then, and
stays true because nothing is ever removed from the record (`RecordGrows`). That
is all the routes rely on: they read the dispute first. `PollsGoForward` also needs
that later events have higher numbers, which is `TrailGrowsAtItsEnd`.

`OfferedIsAccepted` compares an answer with the case as others have left it by
then. An offered move with its evidence can be refused for one reason only, that
the case has moved, and the trail then has a newer status event (`MovedOn`). If it
has none, the last event of the trail has the number of one in the answer, so it is
that one (`NumbersDiffer`) and the status shown is the status that stands
(`StandsAsShown`). The evidence shown is still there, since items are never removed;
that is the last part of `ReaderInv`. What remains is that the filter of the route
and `assertTransition` read the table the same way, for which the primary key
allows one row per move (`FilterAndVerdictAgree`).

### The webhook

`WebhookDeliveryProofs` proves, for any number of requests and events, with
failures and crashes at any point,

- `DeliveriesHold`: `DeliverySpec => []DeliveryInv`
- `DeliveriesTyped`, `OneWorker`, `OnlySignedApplied`, `ProcessedIsTrue`:
  `DeliveryTypeOK`, `OneHandlerPerEvent`, `SignedBeforeApplied`,
  `ProcessedIsApplied`
- `SettledStaysSettled`: `NeverTakenUpAgain`
- `SettledIsTrue`: `Faults = FALSE /\ DeliverySpec => []SettledTruthfully`

`OneHandlerPerEvent` is part of its own induction: a request gets past recording
only as the one whose INSERT went in, and from there on the row is there, so no
other one gets past. `SettledTruthfully` is false with failures (the change is
committed and the mark is lost), so its theorem has the hypothesis, and a second
invariant on top: an applied event is PROCESSED or in the hands of a request about
to mark it (`FaultFreeInv`).

### Deadlines and the sweep

`ExpirySweepProofs` first proves `ScanIsMostSpecific`: the loop of
`selectDeadlineRule` returns the most specific matching rule, whatever the order of
the rows and however many there are. The loop is a recursive function. That it has
a solution, and what it holds after each row, is shown by taking a least
counterexample (`LeastElement`, from the well-foundedness of `<`), because the
induction theorems of the library cannot be instantiated here. Then, for any
cases, sweeps, merchants and rules,

- `SweepsTyped`, `DeadlinesAreMostSpecific`: `SweepTypeOK`,
  `DeadlineIsMostSpecific`
- `ClosedStaysClosed`: `ClosedIsFinal`, for a table without a row out of a terminal
  status
- `SweepsHold`, `OneSweepExpires`, `SweepsAccount`, `SweepsFinish`,
  `NobodyLosesEarly`, `ContestedAreSpared`: `SweepInv`, `ExpiredByOne`,
  `SweepAccountsForAll`, `NothingOverdueSurvives`, `ExpiredOnlyWhenOverdue`,
  `ContestedIsSpared`, for tables that are `Seedlike`

`Seedlike` says that no row leaves a terminal status, that EXPIRED is one, and that
only SYSTEM expires a case, never one that was represented, without asking for
evidence. It is a hypothesis of these theorems and no assumption of the module, so
that TLC can be given a table that breaks it; `SeededRows` proves it of the seed.
`SweepInv` ties the three lists of a sweep to the cases: what was listed was
overdue at the time and is expired, skipped or still to do (`ListKept`), and an
overdue case that could expire when the list was made, and has not moved since, is
on the list unless its own call failed (`NoneLeftBehind`). It holds under
everybody else's steps because a case that may expire now either came there just
now or could expire before (`CasesGoOn`).

### Compliance

`ComplianceProofs` proves, for any months, volumes, reports and changes,

- `ReportsHold`: `Spec => []ReportsInv`
- `NoBreachIsMissed`, `EveryBreachIsReal`, `EachDisputeCountsOnce`:
  `NoBreachMissed`, `BreachIsReal`, `EachCountedOnce`

Three things come together. `RoundingAtALine`: rounding to the nearest basis point
never takes a ratio below a line it reaches, and lifts none over it that is more
than half a basis point short. `ReadsAreRight`: the range of
`countDisputesInMonth` selects the instants of the month and no other, and the
month before January is December (`MonthsFollow`, `MonthsDiffer`). And
`HalfInOrder`: the count of a report lies between that of the request and that of
now, since disputes are never removed, and the volume it read is the one of then or
of now as long as it was corrected once. `EachCountedOnce` compares two sums
over sets. What the sum of the library does is proved from its recursive definition
with smallest counterexamples (`SumsExist`, `SumOfTaken`); that it does not matter
in which order it goes is `SumOfAny`.

### The server

`ServerProofs` proves `ShutdownCutsNothing` (`CleanExitCutsNothing`) for any
requests, plans and size of the pool. The callback of `server.close` waits for
every client, and new ones are accepted only while the server is up, so nobody is
connected while the pool ends (`ClientsGone`). The number of connections lent is
not looked into: it is none when the process exits, and nothing changes afterwards
(`ExitIsFinal`).

### The migration runner

`MigrationRunnerProofs` proves, for any number of runs, files and contents:

- `RunnersInvHolds`: `Spec => []RunnersInv`
- `FilesAppliedOnce`, `FilesAppliedInOrder`, `SuccessfulRunIsUpToDate`:
  `AppliedOnce`, `AppliedInOrder` and `SuccessIsUpToDate` always hold

The only assumptions are that file names are ordered and that a missing file has
no content. The runs read `schema_migrations` once and then act on what they
remember, so the invariant relates memory to table: rows a run read stay
(`BehindIsRecorded`), what a run left behind is recorded as it read it, no file
before the one in hand is passed over (`NonePassedOver`), and two runs about to
commit have different files (`CommitsDiffer`), which is what the primary key
gives.

### What stays with TLC

Liveness under fairness, which the prover does not do: `EveryCallEnds`,
`EveryRequestAnswered`, `RecordedIsSettled`, `SweepEnds`, `EveryRequestEnds`,
`ShutdownEnds`. The three disagreements are counterexamples and need no proof.

## Not modelled

- The parsing, validation, wording and status codes of requests and answers
  other than the webhook's, the rate limit, logging, and the keyed hash of the
  signature (its verdict is an input).
- Amounts, currencies, reason codes, notes and payloads: no control depends on
  them beyond the lookups of `openDispute`.
- `setRootCause`, which nothing calls, and `daysRemaining` and
  `byDeadlineAscending`, which only show and sort.
- The trigger that refuses UPDATE and DELETE on `dispute_events`, and the purge
  flag that lifts it: no code of the server changes an event.
- `GET /api/compliance`, `/api/reference` and the queue as users of the pool:
  their plans look like the ones `Server` has.
- Halves of a basis point that a double cannot represent: `ToBasisPoints` rounds
  the exact quotient, as `Math.round` does up to the last bit of the division.
- Time zones west of UTC: `period_month` is a DATE, and a JavaScript date sent in
  local time is the day before there, so that no volume is found. `Compliance`
  assumes a process at UTC or east of it. Months 00 and 13 in a request, which
  `Date.UTC` carries over into a neighbouring year.
- Two rules of equal specificity (two rows with a NULL processor, which the UNIQUE
  constraint lets through): `RulesAssumption` excludes them, as the seed does.
- The seeding script and single reads of reference tables.

## Plan

1. The append-only trigger with the purge flag, per session and transaction.
2. Theorems that carry the two halves together: the properties of the sweep and of
   the webhook, proved over `DisputeCase`, for the transactions that implement it.
