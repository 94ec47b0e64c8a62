--------------------------- MODULE DisputeService ---------------------------
(***************************************************************************)
(* openDispute, changeStatus and addEvidence (src/services/disputeService) *)
(* statement by statement.  Each call runs in a transaction of its own on  *)
(* a connection of the pool (a worker).  What a transaction wrote stays    *)
(* private to its worker until COMMIT; every SELECT sees what is committed *)
(* when it runs (READ COMMITTED); row locks are held to the end.  Any      *)
(* statement may fail and any connection may be lost.                      *)
(***************************************************************************)
EXTENDS Lifecycle, FiniteSets

CONSTANTS
    Workers,        \* connections of the pool
    DisputeIds,     \* ids a row of disputes may get
    NoDispute,
    CaseNumbers,
    NoCaseNumber,
    Operators,      \* rows of operators
    Actors,         \* ids a caller may give for an operator
    NoOne,          \* no actor given: null
    Requests,       \* the calls callers make
    MaxSeq,         \* bound: calls are made while event numbers last
    Statuses, Terminal, Transitions, Fought

\* The values the CHECKs on triggered_by and on actor_type admit.
Triggers == {"OPERATOR", "PROCESSOR_EVENT", "SYSTEM"}

\* openDispute: lookup is what the tables it reads, none of which changes
\* during a run, hold for the transaction, reason code and deadline rule.
OpenRequest ==
    [op : {"open"}, caseNumber : CaseNumbers,
     lookup : {"ok", "noTransaction", "badReasonCode", "noDeadlineRule"}]

StatusRequest ==
    [op : {"status"}, dispute : DisputeIds, to : Statuses, by : Triggers,
     actor : Actors \cup {NoOne}]

EvidenceRequest ==
    [op : {"evidence"}, dispute : DisputeIds, collectedBy : Actors \cup {NoOne}]

ASSUME NullsAssumption ==
    /\ NoDispute \notin DisputeIds
    /\ NoCaseNumber \notin CaseNumbers
    /\ NoOne \notin Actors

ASSUME ActorsAssumption == Operators \subseteq Actors

ASSUME RequestsAssumption ==
    Requests \subseteq OpenRequest \cup StatusRequest \cup EvidenceRequest

ASSUME MaxSeqAssumption == MaxSeq \in Nat

\* The seeded tables satisfy these.
ASSUME StatusesAssumption ==
    /\ "none" \notin Statuses
    /\ Terminal \subseteq Statuses /\ Fought \subseteq Statuses
    /\ "CHARGEBACK_RECEIVED" \in Statuses \ (Terminal \cup Fought)
    /\ Transitions \subseteq [from : Statuses, to : Statuses, triggeredBy : Triggers,
                              requiresEvidence : BOOLEAN]
    /\ \A t \in Transitions : t.from # t.to

\* PRIMARY KEY (from_status, to_status, triggered_by).
ASSUME KeyAssumption ==
    \A t, u \in Transitions :
        t.from = u.from /\ t.to = u.to /\ t.triggeredBy = u.triggeredBy => t = u

\* "Terminal states end the case; no transition may leave them."
ASSUME TerminalAssumption == \A t \in Transitions : t.from \notin Terminal

\* Every way into a fought status is a contest or comes from a fought one.
ASSUME FoughtAssumption ==
    \A t \in Transitions : t.to \in Fought => t.requiresEvidence \/ t.from \in Fought

NoRow == [caseNumber |-> NoCaseNumber, status |-> "none", closed |-> FALSE]
Row == [caseNumber : CaseNumbers, status : Statuses, closed : BOOLEAN]

Event ==
    [seq : Nat, dispute : DisputeIds,
     type : {"DISPUTE_OPENED", "STATUS_CHANGED", "EVIDENCE_ADDED"},
     from : Statuses \cup {"none"}, to : Statuses \cup {"none"},
     actorType : Triggers, actor : Operators \cup {NoOne}]

NoRequest == [op |-> "none"]

\* What a transaction has written and not committed: the row of its dispute,
\* the evidence items and the events it inserted.
NoWrites == [row |-> NoRow, items |-> 0, log |-> {}]

VARIABLES
    disputes,       \* committed rows, NoRow for an id not in the table
    evidence,       \* number of committed evidence_items of a dispute
    events,         \* committed rows of dispute_events
    nextSeq,        \* the sequence behind dispute_events.seq
    pc,             \* next statement of a worker
    req,            \* the call it executes
    target,         \* the dispute the call is about
    seen,           \* current.status_code in changeStatus
    lock,           \* the worker's lock on the row of its target
    tx,             \* uncommitted writes
    err             \* the error being thrown

committed == <<disputes, evidence, events>>
vars == <<disputes, evidence, events, nextSeq, pc, req, target, seen, lock, tx, err>>

Init ==
    /\ disputes = [d \in DisputeIds |-> NoRow]
    /\ evidence = [d \in DisputeIds |-> 0]
    /\ events = {}
    /\ nextSeq = 1
    /\ pc = [w \in Workers |-> "idle"]
    /\ req = [w \in Workers |-> NoRequest]
    /\ target = [w \in Workers |-> NoDispute]
    /\ seen = [w \in Workers |-> "none"]
    /\ lock = [w \in Workers |-> "none"]
    /\ tx = [w \in Workers |-> NoWrites]
    /\ err = [w \in Workers |-> "none"]

-----------------------------------------------------------------------------
\* The transaction around every call (withTransaction).

Active(w) == pc[w] # "idle"

\* Every call in progress may take one more event number.
NumbersLast == nextSeq + Cardinality({w \in Workers : Active(w)}) <= MaxSeq

FirstStatement(r) ==
    CASE r.op = "open" -> "prepare"
      [] r.op = "status" -> "lock"
      [] OTHER -> "find"

\* A caller's request gets a connection and BEGINs.
Begin(w, r) ==
    /\ ~Active(w)
    /\ NumbersLast
    /\ pc' = [pc EXCEPT ![w] = FirstStatement(r)]
    /\ req' = [req EXCEPT ![w] = r]
    /\ target' = [target EXCEPT ![w] = IF r.op = "open" THEN NoDispute ELSE r.dispute]
    /\ UNCHANGED <<committed, nextSeq, seen, lock, tx, err>>

Goto(w, label) == pc' = [pc EXCEPT ![w] = label]

\* A statement fails or the code throws: the catch block will ROLLBACK.
Throw(w, e) ==
    /\ Goto(w, "rollback")
    /\ err' = [err EXCEPT ![w] = e]

\* The connection is back in the pool with no transaction on it.
Release(w) ==
    /\ Goto(w, "idle")
    /\ req' = [req EXCEPT ![w] = NoRequest]
    /\ target' = [target EXCEPT ![w] = NoDispute]
    /\ seen' = [seen EXCEPT ![w] = "none"]
    /\ lock' = [lock EXCEPT ![w] = "none"]
    /\ tx' = [tx EXCEPT ![w] = NoWrites]
    /\ err' = [err EXCEPT ![w] = "none"]

\* What COMMIT makes visible.
Publish(w) ==
    LET d == target[w] IN
    /\ disputes' = IF tx[w].row = NoRow THEN disputes
                                        ELSE [disputes EXCEPT ![d] = tx[w].row]
    /\ evidence' = [evidence EXCEPT ![d] = @ + tx[w].items]
    /\ events' = events \cup tx[w].log

Commit(w) ==
    /\ pc[w] = "commit"
    /\ Publish(w)
    /\ Release(w)
    /\ UNCHANGED nextSeq

\* COMMIT took effect and its answer was lost: the caller sees an error.
CommitAnswerLost(w) ==
    /\ pc[w] = "commit"
    /\ Publish(w)
    /\ Throw(w, "DATABASE_ERROR")
    /\ lock' = [lock EXCEPT ![w] = "none"]
    /\ tx' = [tx EXCEPT ![w] = NoWrites]
    /\ UNCHANGED <<nextSeq, req, target, seen>>

\* A mutant of Rollback: the row survives the error that should undo it.
RollbackKeepsRow(w) ==
    /\ pc[w] = "rollback"
    /\ disputes' = IF tx[w].row = NoRow THEN disputes
                   ELSE [disputes EXCEPT ![target[w]] = tx[w].row]
    /\ Release(w)
    /\ UNCHANGED <<evidence, events, nextSeq>>

\* A mutant of Rollback: the connection is not released ("forget that and the
\* pool slowly runs dry").
RollbackLeaks(w) ==
    /\ pc[w] = "rollback"
    /\ lock' = [lock EXCEPT ![w] = "none"]
    /\ tx' = [tx EXCEPT ![w] = NoWrites]
    /\ UNCHANGED <<committed, nextSeq, pc, req, target, seen, err>>

\* ROLLBACK discards the writes; an event number once drawn is gone.
Rollback(w) ==
    /\ pc[w] = "rollback"
    /\ Release(w)
    /\ UNCHANGED <<committed, nextSeq>>

\* Any statement of an open transaction may fail.
DatabaseError(w) ==
    /\ pc[w] \notin {"idle", "rollback"}
    /\ Throw(w, "DATABASE_ERROR")
    /\ UNCHANGED <<committed, nextSeq, req, target, seen, lock, tx>>

\* The connection, or the process, dies: the server rolls back by itself.
ConnectionLost(w) ==
    /\ Active(w)
    /\ Release(w)
    /\ UNCHANGED <<committed, nextSeq>>

-----------------------------------------------------------------------------
\* openDispute

Exists(d) == disputes[d] # NoRow

CaseTaken(c) == \E d \in DisputeIds : Exists(d) /\ disputes[d].caseNumber = c

\* What the checks before the INSERT answer, in their order.
OpenVerdict(r) ==
    IF r.lookup = "noTransaction" THEN "NOT_FOUND"
    ELSE IF r.lookup = "badReasonCode" \/ CaseTaken(r.caseNumber) THEN "VALIDATION_ERROR"
    ELSE IF r.lookup = "noDeadlineRule" THEN "MISSING_DEADLINE_RULE"
    ELSE "ok"

PrepareOpen(w) ==
    /\ pc[w] = "prepare"
    /\ IF OpenVerdict(req[w]) = "ok"
       THEN Goto(w, "insertDispute") /\ UNCHANGED err
       ELSE Throw(w, OpenVerdict(req[w]))
    /\ UNCHANGED <<committed, nextSeq, req, target, seen, lock, tx>>

\* An id no row has, committed or not.
Unused(d) == ~Exists(d) /\ \A v \in Workers : target[v] = d => tx[v].row = NoRow

\* A mutant of InsertDispute: case_number without its UNIQUE constraint.
InsertDisputeNotUnique(w) ==
    /\ pc[w] = "insertDispute"
    /\ Goto(w, "append")
    /\ \E d \in DisputeIds :
            /\ Unused(d)
            /\ target' = [target EXCEPT ![w] = d]
    /\ tx' = [tx EXCEPT ![w].row =
                 [caseNumber |-> req[w].caseNumber, status |-> "CHARGEBACK_RECEIVED",
                  closed |-> FALSE]]
    /\ UNCHANGED <<committed, nextSeq, req, seen, lock, err>>

\* INSERT INTO disputes.  The unique index on case_number makes it wait for a
\* transaction that holds an uncommitted row with the number, and refuse it
\* once such a row is committed.
InsertDispute(w) ==
    /\ pc[w] = "insertDispute"
    /\ \A v \in Workers \ {w} : tx[v].row.caseNumber # req[w].caseNumber
    /\ \/ /\ CaseTaken(req[w].caseNumber)
          /\ Throw(w, "UNIQUE_VIOLATION")
          /\ UNCHANGED <<target, tx>>
       \/ /\ ~CaseTaken(req[w].caseNumber)
          /\ \E d \in DisputeIds :
                /\ Unused(d)
                /\ target' = [target EXCEPT ![w] = d]
          /\ tx' = [tx EXCEPT ![w].row =
                       [caseNumber |-> req[w].caseNumber,
                        status |-> "CHARGEBACK_RECEIVED", closed |-> FALSE]]
          /\ Goto(w, "append")
          /\ UNCHANGED err
    /\ UNCHANGED <<committed, nextSeq, req, seen, lock>>

-----------------------------------------------------------------------------
\* changeStatus

OthersLock(w, modes) ==
    \E v \in Workers \ {w} : target[v] = target[w] /\ lock[v] \in modes

\* A mutant of LockDisputeForUpdate: SELECT without FOR UPDATE.
SelectWithoutLock(w) ==
    /\ pc[w] = "lock"
    /\ IF Exists(target[w])
       THEN /\ seen' = [seen EXCEPT ![w] = disputes[target[w]].status]
            /\ Goto(w, "validate")
            /\ UNCHANGED err
       ELSE Throw(w, "NOT_FOUND") /\ UNCHANGED seen
    /\ UNCHANGED <<committed, nextSeq, req, target, lock, tx>>

\* SELECT ... FOR UPDATE waits for every other lock on the row, then reads it.
LockDisputeForUpdate(w) ==
    /\ pc[w] = "lock"
    /\ ~OthersLock(w, {"share", "update"})
    /\ IF Exists(target[w])
       THEN /\ lock' = [lock EXCEPT ![w] = "update"]
            /\ seen' = [seen EXCEPT ![w] = disputes[target[w]].status]
            /\ Goto(w, "validate")
            /\ UNCHANGED err
       ELSE Throw(w, "NOT_FOUND") /\ UNCHANGED <<lock, seen>>
    /\ UNCHANGED <<committed, nextSeq, req, target, tx>>

\* What assertTransition answers, given the status read under the lock and
\* the evidence committed now.
MoveVerdict(w) ==
    AssertTransition(Transitions, seen[w], req[w].to, req[w].by, evidence[target[w]])

\* A mutant of ValidateMove: the evidence is not counted.
ValidateWithoutEvidence(w) ==
    /\ pc[w] = "validate"
    /\ IF CanTransition(Transitions, seen[w], req[w].to, req[w].by)
       THEN Goto(w, "update") /\ UNCHANGED err
       ELSE Throw(w, "INVALID_TRANSITION")
    /\ UNCHANGED <<committed, nextSeq, req, target, seen, lock, tx>>

ValidateMove(w) ==
    /\ pc[w] = "validate"
    /\ IF MoveVerdict(w) = "ok"
       THEN Goto(w, "update") /\ UNCHANGED err
       ELSE Throw(w, MoveVerdict(w))
    /\ UNCHANGED <<committed, nextSeq, req, target, seen, lock, tx>>

\* The row an update to a status leaves: closed_at = COALESCE(closedAt, closed_at).
Moved(row, to) ==
    [row EXCEPT !.status = to, !.closed = IF to \in Terminal THEN TRUE ELSE @]

\* A mutant of UpdateDisputeStatus: closed_at is never stamped.
UpdateNeverCloses(w) ==
    /\ pc[w] = "update"
    /\ tx' = [tx EXCEPT ![w].row = [disputes[target[w]] EXCEPT !.status = req[w].to]]
    /\ Goto(w, "append")
    /\ UNCHANGED <<committed, nextSeq, req, target, seen, lock, err>>

\* A mutant of UpdateDisputeStatus: the row is written outside of the lock, as if
\* through another connection or in a transaction of its own that ends here.
UpdateUnlocks(w) ==
    /\ pc[w] = "update"
    /\ tx' = [tx EXCEPT ![w].row =
                 Moved(disputes[target[w]], req[w].to)]
    /\ lock' = [lock EXCEPT ![w] = "none"]
    /\ Goto(w, "append")
    /\ UNCHANGED <<committed, nextSeq, req, target, seen, err>>

\* UPDATE disputes ... WHERE status_code = expectedStatus.  The update takes
\* the row lock itself: here the transaction holds it already.
UpdateDisputeStatus(w) ==
    /\ pc[w] = "update"
    /\ ~OthersLock(w, {"update"})
    /\ IF disputes[target[w]].status = seen[w]
       THEN /\ tx' = [tx EXCEPT ![w].row =
                         Moved(disputes[target[w]], req[w].to)]
            /\ lock' = [lock EXCEPT ![w] = "update"]
            /\ Goto(w, "append")
            /\ UNCHANGED err
       ELSE Throw(w, "CONCURRENT_MODIFICATION") /\ UNCHANGED <<tx, lock>>
    /\ UNCHANGED <<committed, nextSeq, req, target, seen>>

-----------------------------------------------------------------------------
\* addEvidence

\* A plain SELECT: it takes no lock and waits for none.
FindDispute(w) ==
    /\ pc[w] = "find"
    /\ IF ~Exists(target[w]) THEN Throw(w, "NOT_FOUND")
       ELSE IF disputes[target[w]].status \in Terminal THEN Throw(w, "VALIDATION_ERROR")
       ELSE Goto(w, "insertEvidence") /\ UNCHANGED err
    /\ UNCHANGED <<committed, nextSeq, req, target, seen, lock, tx>>

\* A mutant of InsertEvidence: no foreign key to disputes, so no lock.
InsertEvidenceUnlocked(w) ==
    /\ pc[w] = "insertEvidence"
    /\ tx' = [tx EXCEPT ![w].items = 1]
    /\ Goto(w, "append")
    /\ UNCHANGED <<committed, nextSeq, req, target, seen, lock, err>>

\* The foreign key of the item takes a share lock on the row of the dispute,
\* which waits for a FOR UPDATE; the one to operators must name an operator.
InsertEvidence(w) ==
    /\ pc[w] = "insertEvidence"
    /\ ~OthersLock(w, {"update"})
    /\ IF req[w].collectedBy \in Operators \cup {NoOne}
       THEN /\ lock' = [lock EXCEPT ![w] = "share"]
            /\ tx' = [tx EXCEPT ![w].items = 1]
            /\ Goto(w, "append")
            /\ UNCHANGED err
       ELSE Throw(w, "DATABASE_ERROR") /\ UNCHANGED <<lock, tx>>
    /\ UNCHANGED <<committed, nextSeq, req, target, seen>>

-----------------------------------------------------------------------------
\* appendEvent, the last statement of all three calls

NewEvent(w) ==
    LET r == req[w]
        Entry(type, from, to, actorType, actor) ==
            [seq |-> nextSeq, dispute |-> target[w], type |-> type,
             from |-> from, to |-> to, actorType |-> actorType, actor |-> actor]
    IN CASE r.op = "open" ->
                Entry("DISPUTE_OPENED", "none", "CHARGEBACK_RECEIVED",
                      "PROCESSOR_EVENT", NoOne)
         [] r.op = "status" ->
                Entry("STATUS_CHANGED", seen[w], r.to, r.by, r.actor)
         [] OTHER ->
                Entry("EVIDENCE_ADDED", "none", "none",
                      IF r.collectedBy = NoOne THEN "SYSTEM" ELSE "OPERATOR",
                      r.collectedBy)

\* The foreign key on actor_id, and the CHECK that an operator's event names
\* the operator.
Attributed(e) ==
    /\ e.actor \in Operators \cup {NoOne}
    /\ e.actorType = "OPERATOR" => e.actor # NoOne

\* A mutant of AppendEvent: dispute_events without its constraints.
AppendUnattributed(w) ==
    /\ pc[w] = "append"
    /\ nextSeq' = nextSeq + 1
    /\ tx' = [tx EXCEPT ![w].log = {NewEvent(w)}]
    /\ Goto(w, "commit")
    /\ UNCHANGED <<committed, req, target, seen, lock, err>>

\* A mutant of AppendEvent: the event is inserted through the pool, outside
\* the transaction.
AppendThroughPool(w) ==
    /\ pc[w] = "append"
    /\ nextSeq' = nextSeq + 1
    /\ IF Attributed(NewEvent(w)) THEN events' = events \cup {NewEvent(w)}
                                  ELSE UNCHANGED events
    /\ Goto(w, "commit")
    /\ UNCHANGED <<disputes, evidence, req, target, seen, lock, tx, err>>

\* INSERT INTO dispute_events: draws the number whether or not it succeeds.
AppendEvent(w) ==
    /\ pc[w] = "append"
    /\ nextSeq' = nextSeq + 1
    /\ IF Attributed(NewEvent(w))
       THEN /\ tx' = [tx EXCEPT ![w].log = {NewEvent(w)}]
            /\ Goto(w, "commit")
            /\ UNCHANGED err
       ELSE Throw(w, "DATABASE_ERROR") /\ UNCHANGED tx
    /\ UNCHANGED <<committed, req, target, seen, lock>>

-----------------------------------------------------------------------------
\* The service

\* The calls made so far have ended; whether more come is up to the callers.
Quiescent == (\A w \in Workers : ~Active(w)) /\ UNCHANGED vars

Statement(w) ==
    \/ PrepareOpen(w) \/ InsertDispute(w)
    \/ LockDisputeForUpdate(w) \/ ValidateMove(w) \/ UpdateDisputeStatus(w)
    \/ FindDispute(w) \/ InsertEvidence(w)
    \/ AppendEvent(w)

Next ==
    \/ \E w \in Workers :
          \/ \E r \in Requests : Begin(w, r)
          \/ Statement(w)
          \/ Commit(w) \/ CommitAnswerLost(w)
          \/ Rollback(w) \/ DatabaseError(w) \/ ConnectionLost(w)
    \/ Quiescent

Spec == Init /\ [][Next]_vars

\* A call goes on.  Where its next statement waits for another transaction, it
\* is served if the wait is over again and again: PostgreSQL queues the waiters.
\* Nothing makes a caller call, a statement fail or a connection break.
Fairness ==
    \A w \in Workers :
        SF_vars(Statement(w) \/ Commit(w) \/ CommitAnswerLost(w) \/ Rollback(w))

FairSpec == Spec /\ Fairness

-----------------------------------------------------------------------------
\* What the service must keep

TypeOK ==
    /\ disputes \in [DisputeIds -> Row \cup {NoRow}]
    /\ evidence \in [DisputeIds -> Nat]
    /\ events \subseteq Event
    /\ nextSeq \in Nat
    /\ pc \in [Workers -> {"idle", "prepare", "insertDispute", "lock", "validate", "update",
                           "find", "insertEvidence", "append", "commit", "rollback"}]
    /\ req \in [Workers -> Requests \cup {NoRequest}]
    /\ target \in [Workers -> DisputeIds \cup {NoDispute}]
    /\ seen \in [Workers -> Statuses \cup {"none"}]
    /\ lock \in [Workers -> {"none", "share", "update"}]
    /\ tx \in [Workers -> [row : Row \cup {NoRow}, items : {0, 1}, log : SUBSET Event]]
    /\ err \in [Workers -> {"none", "NOT_FOUND", "VALIDATION_ERROR", "MISSING_DEADLINE_RULE",
                            "INVALID_TRANSITION", "EVIDENCE_REQUIRED",
                            "CONCURRENT_MODIFICATION", "UNIQUE_VIOLATION", "DATABASE_ERROR"}]

\* The events of a dispute that report a status.
StatusTrail(d) == {e \in events : e.dispute = d /\ e.to # "none"}

\* One case number never has two disputes, however many calls open it at once:
\* openDispute's own check runs before the insert and cannot see an insert
\* that another transaction has not committed.
CaseNumberUnique ==
    \A c, d \in DisputeIds :
        Exists(c) /\ Exists(d) /\ disputes[c].caseNumber = disputes[d].caseNumber => c = d

\* closed_at is set exactly on the disputes in a terminal status, so the queue
\* and the sweep, which look at closed_at, see the cases that are open.
ClosedIffTerminal ==
    \A d \in DisputeIds :
        Exists(d) => (disputes[d].closed <=> disputes[d].status \in Terminal)

\* In the audit trail, evidence comes before the case is contested: an event
\* into a fought status has an EVIDENCE_ADDED event of its dispute before it,
\* by seq, although evidence and moves are written by different transactions.
FoughtAfterEvidence ==
    \A e \in events :
        e.to \in Fought =>
            \E f \in events :
                f.dispute = e.dispute /\ f.type = "EVIDENCE_ADDED" /\ f.seq < e.seq

\* e continues the trail: the status event before it, by seq, left the dispute
\* where e takes it from.
Follows(e) ==
    \E p \in StatusTrail(e.dispute) :
        /\ p.to = e.from
        /\ p.seq < e.seq
        /\ \A f \in StatusTrail(e.dispute) : f.seq <= p.seq \/ f.seq >= e.seq

\* Replaying the events of a dispute in the order of listEvents gives its
\* status: the trail starts with DISPUTE_OPENED, each STATUS_CHANGED starts
\* where the one before it ended and is a move of the table for who made it,
\* the last one ends at the status of the row, and an id with no row has none.
TrailExplainsStatus ==
    \A d \in DisputeIds :
        /\ ~Exists(d) => StatusTrail(d) = {}
        /\ Exists(d) => \E e \in StatusTrail(d) :
                            /\ e.to = disputes[d].status
                            /\ \A f \in StatusTrail(d) : f.seq <= e.seq
        /\ \A e \in StatusTrail(d) :
            \/ /\ e.type = "DISPUTE_OPENED"
               /\ \A f \in StatusTrail(d) : f # e => e.seq < f.seq
            \/ /\ e.type = "STATUS_CHANGED"
               /\ CanTransition(Transitions, e.from, e.to, e.actorType)
               /\ Follows(e)

\* The lock makes the check in the UPDATE redundant: changeStatus never
\* answers CONCURRENT_MODIFICATION, however the calls interleave.
NeverConcurrentlyModified == \A w \in Workers : err[w] # "CONCURRENT_MODIFICATION"

\* "A status change with no event, or an event with no status change [...]
\* neither is allowed to happen alone": one step changes a status and adds the
\* event that says so, and one step adds an item and its EVIDENCE_ADDED event;
\* neither changes without its event and no event comes without its change.
NeitherAlone ==
    [][\A d \in DisputeIds :
        LET new == {e \in events' \ events : e.dispute = d}
            moved == disputes'[d].status # disputes[d].status
            added == evidence'[d] - evidence[d]
        IN /\ moved <=> \E e \in new : /\ e.from = disputes[d].status
                                       /\ e.to = disputes'[d].status
           /\ added = Cardinality({e \in new : e.type = "EVIDENCE_ADDED"})
           /\ Cardinality(new) = (IF moved THEN 1 ELSE 0) + added]_vars

\* A reader of the trail never finds a status event inserted before one it has
\* read already: status events of a dispute are committed in the order of
\* their numbers, although numbers are drawn before the commit.
TrailGrowsAtItsEnd ==
    [][\A e \in events' \ events, f \in events :
        e.dispute = f.dispute /\ e.to # "none" /\ f.to # "none" => f.seq < e.seq]_vars

\* Every call ends, with an answer or an error, and gives its connection back,
\* whichever calls wait for each other's rows and whatever fails.
EveryCallEnds == \A w \in Workers : Active(w) ~> ~Active(w)

\* What addEvidence says of itself: "Cannot attach evidence to a closed
\* dispute."
NoEvidenceAfterClosing ==
    [][\A d \in DisputeIds :
        Exists(d) /\ disputes[d].status \in Terminal => evidence'[d] = evidence[d]]_vars

-----------------------------------------------------------------------------
\* Seen from the callers, each commit is one call of DisputeCase.

HasNumber(d, c) == Exists(d) /\ disputes[d].caseNumber = c

caseView ==
    [c \in CaseNumbers |->
        IF \E d \in DisputeIds : HasNumber(d, c)
        THEN LET d == CHOOSE d \in DisputeIds : HasNumber(d, c)
             IN [status |-> disputes[d].status, evidence |-> evidence[d] > 0]
        ELSE [status |-> "none", evidence |-> FALSE]]

Calls == INSTANCE DisputeCase WITH Cases <- CaseNumbers, cases <- caseView

\* The transactions implement the calls as indivisible steps.
ImplementsDisputeCase == Calls!CaseSpec
=============================================================================
