------------------------ MODULE DisputeServiceProofs ------------------------
(***************************************************************************)
(* Proofs that DisputeService keeps CoreInv, and what follows from it.     *)
(***************************************************************************)
EXTENDS DisputeServiceInv, TLAPS

USE NullsAssumption, ActorsAssumption, RequestsAssumption, StatusesAssumption

\* Worker v does not move.
Untouched(v) ==
    /\ pc'[v] = pc[v] /\ req'[v] = req[v] /\ target'[v] = target[v]
    /\ seen'[v] = seen[v] /\ lock'[v] = lock[v] /\ tx'[v] = tx[v]

\* What CoreInv says of one worker.
InOrder(w) ==
    /\ OwnStatements(w) /\ LocksHeld(w) /\ ReadsStand(w)
    /\ MoveChecked(w) /\ WritesPending(w)

\* A transaction that no variable of changes stays in order while nothing commits.
LEMMA OthersKeepOrder ==
    ASSUME NEW v \in Workers, Untouched(v), UNCHANGED committed, InOrder(v)
    PROVE  InOrder(v)'
  BY DEF InOrder, Untouched, committed, OwnStatements, LocksHeld, ReadsStand, MoveChecked,
         WritesPending, Wrote, Exists, CaseTaken, Reading

\* What a transaction is about to commit is the same after a step of another one
\* that leaves the row it moves, and the id and number it opens, as they were.
LEMMA PendingStands ==
    ASSUME NEW v \in Workers, Untouched(v), InOrder(v),
           Wrote(v, "status") => disputes'[target[v]] = disputes[target[v]],
           Wrote(v, "open") => ~Exists(target[v])' /\ ~CaseTaken(req[v].caseNumber)'
    PROVE  WritesPending(v)'
<1>1. /\ pc'[v] = pc[v] /\ tx'[v] = tx[v] /\ target'[v] = target[v] /\ req'[v] = req[v]
      /\ \A op : Wrote(v, op)' <=> Wrote(v, op)
  BY DEF Untouched, Wrote
<1>2. WritesPending(v)
  BY DEF InOrder
<1>3. Wrote(v, "status") => tx'[v].row = Moved(disputes[target[v]], req[v].to)'
  BY <1>1, <1>2 DEF WritesPending
<1>4. Wrote(v, "open") => ~Exists(target[v])' /\ ~CaseTaken(req[v].caseNumber)'
  OBVIOUS
<1> QED BY <1>1, <1>2, <1>3, <1>4 DEF WritesPending, Exists, CaseTaken

\* A step of one transaction that commits nothing has to keep only its own order
\* and its relation to the others.
LEMMA LocalStep ==
    ASSUME CoreInv, NEW w \in Workers, UNCHANGED committed,
           \A v \in Workers \ {w} : Untouched(v),
           TypeOK', InOrder(w)', LocksExclude', OpensDiffer'
    PROVE  CoreInv'
<1>1. CallsInOrder'
  BY OthersKeepOrder DEF CallsInOrder, InOrder, CoreInv
<1>2. CaseNumberUnique' /\ ClosedIffTerminal' /\ FoughtHasEvidence'
  BY DEF CoreInv, committed, CaseNumberUnique, ClosedIffTerminal, FoughtHasEvidence, Exists
<1> QED BY <1>1, <1>2 DEF CoreInv

\* Writing the row is the first write of a transaction.
LEMMA RowWritten ==
    ASSUME NEW t, NEW row, t = NoWrites
    PROVE  [t EXCEPT !.row = row] = [row |-> row, items |-> 0, log |-> {}]
<1>1. t = [row |-> NoRow, items |-> 0, log |-> {}]
  BY DEF NoWrites
<1> QED BY <1>1

\* Writing the event keeps the row and the items.
LEMMA EventWritten ==
    ASSUME NEW t \in [row : Row \cup {NoRow}, items : {0, 1}, log : SUBSET Event], NEW log
    PROVE  [t EXCEPT !.log = log] = [row |-> t.row, items |-> t.items, log |-> log]
  OBVIOUS

\* An update changes the status of a row, and closes it if that ends the case.
LEMMA MovedRow ==
    ASSUME NEW row \in Row, NEW to \in Statuses
    PROVE  /\ Moved(row, to) \in Row
           /\ Moved(row, to).caseNumber = row.caseNumber
           /\ Moved(row, to).status = to
           /\ Moved(row, to).closed <=> to \in Terminal \/ row.closed
<1>1. CASE to \in Terminal
  BY <1>1 DEF Moved, Row
<1>2. CASE to \notin Terminal
  BY <1>2 DEF Moved, Row
<1> QED BY <1>1, <1>2

\* A row of the table is not the value that stands for a missing one.
LEMMA RowsAreNotNull == \A row \in Row : row # NoRow
  BY DEF Row, NoRow

\* A caller's request starts a transaction.
LEMMA BeginKeepsCore ==
    ASSUME CoreInv, NEW w \in Workers, NEW r \in Requests, Begin(w, r)
    PROVE  CoreInv'
<1> USE DEF CoreInv
<1>1. /\ pc[w] = "idle" /\ req' = [req EXCEPT ![w] = r]
      /\ pc' = [pc EXCEPT ![w] = FirstStatement(r)]
      /\ target' = [target EXCEPT ![w] = IF r.op = "open" THEN NoDispute ELSE r.dispute]
      /\ UNCHANGED <<committed, nextSeq, seen, lock, tx, err>>
  BY DEF Begin, Active
<1>2. /\ r \in OpenRequest => /\ FirstStatement(r) = "prepare" /\ r.op = "open"
      /\ r \in StatusRequest => /\ FirstStatement(r) = "lock"
                               /\ r.op = "status" /\ r.dispute \in DisputeIds
      /\ r \in EvidenceRequest => /\ FirstStatement(r) = "find"
                                 /\ r.op = "evidence" /\ r.dispute \in DisputeIds
  BY DEF FirstStatement, OpenRequest, StatusRequest, EvidenceRequest
<1>3. r \in OpenRequest \/ r \in StatusRequest \/ r \in EvidenceRequest
  OBVIOUS
<1>4. \A v \in Workers \ {w} : Untouched(v)
  BY <1>1 DEF Untouched, TypeOK
<1>5. TypeOK'
  <2>1. FirstStatement(r) \in {"prepare", "lock", "find"}
    BY <1>2, <1>3
  <2>2. (IF r.op = "open" THEN NoDispute ELSE r.dispute) \in DisputeIds \cup {NoDispute}
    BY <1>2, <1>3
  <2> QED BY <1>1, <2>1, <2>2 DEF TypeOK, committed
<1>6. InOrder(w)'
  <2>1. /\ pc'[w] = FirstStatement(r) /\ req'[w] = r
        /\ target'[w] = IF r.op = "open" THEN NoDispute ELSE r.dispute
        /\ lock'[w] = lock[w] /\ tx'[w] = tx[w]
    BY <1>1 DEF TypeOK
  <2>2. lock[w] = "none" /\ tx[w] = NoWrites
    BY <1>1 DEF CallsInOrder, LocksHeld, WritesPending, Wrote, Reading
  <2>3. pc'[w] \in {"prepare", "lock", "find"}
    BY <1>2, <1>3, <2>1
  <2>4. OwnStatements(w)'
    BY <1>2, <1>3, <2>1 DEF OwnStatements
  <2>5. LocksHeld(w)' /\ ReadsStand(w)' /\ MoveChecked(w)'
    BY <2>1, <2>2, <2>3 DEF LocksHeld, ReadsStand, MoveChecked, Wrote
  <2>6. WritesPending(w)'
    BY <2>1, <2>2, <2>3 DEF WritesPending, Wrote, Reading
  <2> QED BY <2>4, <2>5, <2>6 DEF InOrder
<1>7. LocksExclude'
  <2>1. lock[w] = "none" /\ lock'[w] = "none"
    BY <1>1 DEF CallsInOrder, LocksHeld, Wrote
  <2> QED BY <1>4, <2>1 DEF LocksExclude, Untouched
<1>8. OpensDiffer'
  <2>1. pc'[w] \in {"prepare", "lock", "find"}
    BY <1>1, <1>2, <1>3 DEF TypeOK
  <2> QED BY <1>4, <2>1 DEF OpensDiffer, Wrote, Untouched
<1> QED BY <1>1, <1>4, <1>5, <1>6, <1>7, <1>8, LocalStep

\* A transaction that ends without a commit leaves nothing behind.
LEMMA ReleaseKeepsCore ==
    ASSUME CoreInv, NEW w \in Workers, Release(w), UNCHANGED <<committed, nextSeq>>
    PROVE  CoreInv'
<1> USE DEF CoreInv, TypeOK, Release, Goto
<1>1. \A v \in Workers \ {w} : Untouched(v)
  BY DEF Untouched
<1>2. TypeOK'
  BY DEF committed, NoWrites
<1>3. InOrder(w)'
  BY DEF InOrder, OwnStatements, LocksHeld, ReadsStand, MoveChecked, WritesPending, Wrote
<1>4. LocksExclude' /\ OpensDiffer'
  BY <1>1 DEF LocksExclude, OpensDiffer, Wrote, Untouched
<1> QED BY <1>1, <1>2, <1>3, <1>4, LocalStep

\* Throwing only sends the transaction to its ROLLBACK.
LEMMA ThrowKeepsCore ==
    ASSUME CoreInv, NEW w \in Workers,
           NEW e \in {"NOT_FOUND", "VALIDATION_ERROR", "MISSING_DEADLINE_RULE",
                      "INVALID_TRANSITION", "EVIDENCE_REQUIRED", "CONCURRENT_MODIFICATION",
                      "UNIQUE_VIOLATION", "DATABASE_ERROR"},
           Throw(w, e), nextSeq' \in Nat,
           UNCHANGED <<committed, req, target, seen, lock, tx>>
    PROVE  CoreInv'
<1> USE DEF CoreInv, TypeOK, Throw, Goto
<1>1. \A v \in Workers \ {w} : Untouched(v)
  BY DEF Untouched
<1>2. TypeOK'
  BY DEF committed
<1>3. InOrder(w)'
  BY DEF InOrder, OwnStatements, LocksHeld, ReadsStand, MoveChecked, WritesPending, Wrote,
         Reading, CallsInOrder, Exists, committed
<1>4. LocksExclude' /\ OpensDiffer'
  BY <1>1 DEF LocksExclude, OpensDiffer, Wrote, Untouched
<1> QED BY <1>1, <1>2, <1>3, <1>4, LocalStep

\* A statement that only reads moves the transaction on.
LEMMA PrepareOpenKeepsCore ==
    ASSUME CoreInv, NEW w \in Workers, PrepareOpen(w)
    PROVE  CoreInv'
<1>1. CASE OpenVerdict(req[w]) = "ok"
  <2> USE <1>1 DEF CoreInv, TypeOK, PrepareOpen, Goto
  <2>1. \A v \in Workers \ {w} : Untouched(v)
    BY DEF Untouched
  <2>2. TypeOK'
    BY DEF committed
  <2>3. InOrder(w)'
    <3>1. /\ pc[w] = "prepare" /\ pc'[w] = "insertDispute" /\ req'[w] = req[w]
          /\ lock'[w] = lock[w] /\ tx'[w] = tx[w]
      OBVIOUS
    <3>2. req[w] \in OpenRequest /\ lock[w] = "none" /\ tx[w] = NoWrites
      BY <3>1 DEF CallsInOrder, OwnStatements, LocksHeld, WritesPending, Wrote, Reading
    <3>3. OwnStatements(w)' /\ LocksHeld(w)' /\ ReadsStand(w)' /\ MoveChecked(w)'
      BY <3>1, <3>2 DEF OwnStatements, LocksHeld, ReadsStand, MoveChecked, Wrote
    <3>4. WritesPending(w)'
      BY <3>1, <3>2 DEF WritesPending, Wrote, Reading
    <3> QED BY <3>3, <3>4 DEF InOrder
  <2>4. LocksExclude' /\ OpensDiffer'
    BY <2>1 DEF LocksExclude, OpensDiffer, Wrote, Untouched
  <2> QED BY <2>1, <2>2, <2>3, <2>4, LocalStep
<1>2. CASE OpenVerdict(req[w]) # "ok"
  BY <1>2, ThrowKeepsCore DEF PrepareOpen, OpenVerdict, CoreInv, TypeOK
<1> QED BY <1>1, <1>2

\* The row of a new case gets an id and a number that no other has.
LEMMA InsertDisputeKeepsCore ==
    ASSUME CoreInv, NEW w \in Workers, InsertDispute(w)
    PROVE  CoreInv'
<1>1. CASE CaseTaken(req[w].caseNumber)
  BY <1>1, ThrowKeepsCore DEF InsertDispute, CoreInv, TypeOK
<1>2. CASE ~CaseTaken(req[w].caseNumber)
  <2> USE <1>2 DEF CoreInv, TypeOK
  <2> DEFINE new == [caseNumber |-> req[w].caseNumber, status |-> "CHARGEBACK_RECEIVED",
                     closed |-> FALSE]
  <2>1. PICK d \in DisputeIds : Unused(d) /\ target' = [target EXCEPT ![w] = d]
    BY DEF InsertDispute, Throw
  <2>2. /\ pc[w] = "insertDispute" /\ pc' = [pc EXCEPT ![w] = "append"]
        /\ tx' = [tx EXCEPT ![w].row = new]
        /\ UNCHANGED <<committed, nextSeq, req, seen, lock, err>>
    BY DEF InsertDispute, Goto
  <2>3. req[w] \in OpenRequest /\ tx[w] = NoWrites /\ lock[w] = "none"
    BY <2>2 DEF CallsInOrder, OwnStatements, WritesPending, LocksHeld, Reading, Wrote
  <2>4. tx' = [tx EXCEPT ![w] = [row |-> new, items |-> 0, log |-> {}]]
    BY <2>2, <2>3, RowWritten
  <2>5. \A v \in Workers \ {w} : Untouched(v)
    BY <2>1, <2>2 DEF Untouched
  <2>6. new \in Row
    BY <2>3 DEF Row, OpenRequest
  <2>7. TypeOK'
    <3>1. tx' \in [Workers -> [row : Row \cup {NoRow}, items : {0, 1}, log : SUBSET Event]]
      BY <2>4, <2>6
    <3>2. target' \in [Workers -> DisputeIds \cup {NoDispute}]
      BY <2>1
    <3> QED BY <2>2, <3>1, <3>2 DEF committed
  <2>8. ~Exists(d)
    BY <2>1 DEF Unused
  <2>9. InOrder(w)'
    BY <2>1, <2>2, <2>3, <2>4, <2>6, <2>8
       DEF InOrder, OwnStatements, LocksHeld, ReadsStand, MoveChecked,
           WritesPending, Wrote, Reading, OpenRequest, Exists, CaseTaken, committed
  <2>10. LocksExclude'
    BY <2>1, <2>2, <2>3, <2>5, <2>8 DEF LocksExclude, Untouched, CallsInOrder, LocksHeld
  <2>11. \A v \in Workers \ {w} :
            Wrote(v, "open") => target[v] # d /\ req[v].caseNumber # req[w].caseNumber
    <3> SUFFICES ASSUME NEW v \in Workers \ {w}, Wrote(v, "open")
                 PROVE  target[v] # d /\ req[v].caseNumber # req[w].caseNumber
      OBVIOUS
    <3>1. tx[v].row = [caseNumber |-> req[v].caseNumber, status |-> "CHARGEBACK_RECEIVED",
                       closed |-> FALSE]
      BY DEF CallsInOrder, WritesPending
    <3>2. tx[v].row # NoRow
      BY <3>1 DEF NoRow
    <3> QED BY <2>1, <1>2, <3>1, <3>2 DEF InsertDispute, Unused
  <2>12. OpensDiffer'
    BY <2>1, <2>2, <2>5, <2>11 DEF OpensDiffer, Wrote, Untouched
  <2> QED BY <2>2, <2>5, <2>7, <2>9, <2>10, <2>12, LocalStep
<1> QED BY <1>1, <1>2

\* FOR UPDATE is granted when nobody else holds a lock on the row.
LEMMA LockKeepsCore ==
    ASSUME CoreInv, NEW w \in Workers, LockDisputeForUpdate(w)
    PROVE  CoreInv'
<1>1. CASE ~Exists(target[w])
  BY <1>1, ThrowKeepsCore DEF LockDisputeForUpdate, CoreInv, TypeOK
<1>2. CASE Exists(target[w])
  <2> USE <1>2 DEF CoreInv, TypeOK, LockDisputeForUpdate, Goto
  <2>1. \A v \in Workers \ {w} : Untouched(v)
    BY DEF Untouched
  <2>2. TypeOK'
    <3>1. target[w] \in DisputeIds /\ disputes[target[w]] \in Row
      BY DEF CallsInOrder, OwnStatements, Exists
    <3>2. disputes[target[w]].status \in Statuses
      BY <3>1 DEF Row
    <3>3. seen' \in [Workers -> Statuses \cup {"none"}]
      BY <3>2
    <3> QED BY <3>3 DEF committed
  <2>3. InOrder(w)'
    <3>1. /\ pc[w] = "lock" /\ pc'[w] = "validate" /\ req'[w] = req[w]
          /\ target'[w] = target[w] /\ tx'[w] = tx[w] /\ lock'[w] = "update"
          /\ seen'[w] = disputes[target[w]].status
      OBVIOUS
    <3>2. /\ req[w] \in StatusRequest /\ target[w] \in DisputeIds /\ tx[w] = NoWrites
      BY <3>1 DEF CallsInOrder, OwnStatements, WritesPending, Reading
    <3>3. disputes' = disputes
      BY DEF committed
    <3>4. OwnStatements(w)' /\ MoveChecked(w)'
      BY <3>1, <3>2 DEF OwnStatements, MoveChecked, Wrote
    <3>5. LocksHeld(w)' /\ ReadsStand(w)'
      BY <3>1, <3>2, <3>3 DEF LocksHeld, ReadsStand, Wrote, Exists
    <3>6. WritesPending(w)'
      BY <3>1, <3>2 DEF WritesPending, Wrote, Reading
    <3> QED BY <3>4, <3>5, <3>6 DEF InOrder
  <2>4. LocksExclude'
    <3>1. \A v \in Workers \ {w} : target[v] = target[w] => lock[v] = "none"
      BY DEF OthersLock
    <3>2. target' = target /\ \A v \in Workers \ {w} : lock'[v] = lock[v]
      OBVIOUS
    <3> QED BY <3>1, <3>2 DEF LocksExclude
  <2>5. OpensDiffer'
    BY <2>1 DEF OpensDiffer, Wrote, Untouched
  <2> QED BY <2>1, <2>2, <2>3, <2>4, <2>5, LocalStep
<1> QED BY <1>1, <1>2

\* The checks of assertTransition hold of the row the transaction has locked.
LEMMA ValidateKeepsCore ==
    ASSUME CoreInv, NEW w \in Workers, ValidateMove(w)
    PROVE  CoreInv'
<1>1. CASE MoveVerdict(w) = "ok"
  <2> USE <1>1 DEF CoreInv, TypeOK, ValidateMove, Goto
  <2>1. \A v \in Workers \ {w} : Untouched(v)
    BY DEF Untouched
  <2>2. TypeOK'
    BY DEF committed
  <2>3. MoveChecked(w)'
    <3>1. /\ req[w] \in StatusRequest /\ target[w] \in DisputeIds /\ Exists(target[w])
          /\ seen[w] = disputes[target[w]].status
      BY DEF CallsInOrder, OwnStatements, ReadsStand
    <3>2. PICK t \in Transitions :
              /\ t.from = seen[w] /\ t.to = req[w].to
              /\ t.requiresEvidence => evidence[target[w]] >= 1
      BY <3>1 DEF MoveVerdict, AssertTransition, CanTransition, FindTransition
    <3>3. CanTransition(Transitions, seen[w], req[w].to, req[w].by)
      BY DEF MoveVerdict, AssertTransition
    <3>4. req[w].to \in Fought => evidence[target[w]] > 0
      BY <3>1, <3>2, FoughtAssumption DEF FoughtHasEvidence
    <3> QED BY <3>3, <3>4 DEF MoveChecked, committed
  <2>4. InOrder(w)'
    <3>1. /\ pc[w] = "validate" /\ pc'[w] = "update" /\ req'[w] = req[w]
          /\ target'[w] = target[w] /\ tx'[w] = tx[w] /\ lock'[w] = lock[w]
          /\ seen'[w] = seen[w] /\ disputes' = disputes
      BY DEF committed
    <3>2. /\ req[w] \in StatusRequest /\ target[w] \in DisputeIds /\ tx[w] = NoWrites
          /\ lock[w] = "update" /\ Exists(target[w])
          /\ seen[w] = disputes[target[w]].status
      BY <3>1 DEF CallsInOrder, OwnStatements, LocksHeld, ReadsStand, WritesPending, Reading
    <3>3. OwnStatements(w)'
      BY <3>1, <3>2 DEF OwnStatements
    <3>4. LocksHeld(w)' /\ ReadsStand(w)'
      BY <3>1, <3>2 DEF LocksHeld, ReadsStand, Wrote, Exists
    <3>5. WritesPending(w)'
      BY <3>1, <3>2 DEF WritesPending, Wrote, Reading
    <3> QED BY <2>3, <3>3, <3>4, <3>5 DEF InOrder
  <2>5. LocksExclude' /\ OpensDiffer'
    BY <2>1 DEF LocksExclude, OpensDiffer, Wrote, Untouched
  <2> QED BY <2>1, <2>2, <2>4, <2>5, LocalStep
<1>2. CASE MoveVerdict(w) # "ok"
  BY <1>2, ThrowKeepsCore DEF ValidateMove, MoveVerdict, AssertTransition, CoreInv, TypeOK
<1> QED BY <1>1, <1>2

\* The row under the lock has the status the move was checked from, so the
\* UPDATE always finds it.
LEMMA UpdateKeepsCore ==
    ASSUME CoreInv, NEW w \in Workers, UpdateDisputeStatus(w)
    PROVE  CoreInv' /\ disputes[target[w]].status = seen[w]
<1> USE DEF CoreInv, TypeOK
<1> DEFINE new == Moved(disputes[target[w]], req[w].to)
<1>1. /\ pc[w] = "update" /\ req[w] \in StatusRequest /\ target[w] \in DisputeIds
      /\ Exists(target[w]) /\ seen[w] = disputes[target[w]].status
      /\ lock[w] = "update" /\ tx[w] = NoWrites
  BY DEF UpdateDisputeStatus, CallsInOrder, OwnStatements, ReadsStand, LocksHeld,
         WritesPending, Reading
<1>2. /\ pc' = [pc EXCEPT ![w] = "append"]
      /\ tx' = [tx EXCEPT ![w].row = new]
      /\ lock' = [lock EXCEPT ![w] = "update"]
      /\ UNCHANGED <<committed, nextSeq, req, target, seen, err>>
  BY <1>1 DEF UpdateDisputeStatus, Goto
<1>3. tx' = [tx EXCEPT ![w] = [row |-> new, items |-> 0, log |-> {}]]
  BY <1>1, <1>2, RowWritten
<1>4. lock' = lock
  BY <1>1, <1>2
<1>5. \A v \in Workers \ {w} : Untouched(v)
  BY <1>2 DEF Untouched
<1>6. new \in Row
  BY <1>1, MovedRow DEF Exists, StatusRequest
<1>7. TypeOK'
  <2>1. tx' \in [Workers -> [row : Row \cup {NoRow}, items : {0, 1}, log : SUBSET Event]]
    BY <1>3, <1>6
  <2> QED BY <1>2, <1>4, <2>1 DEF committed
<1>8. InOrder(w)'
  <2>1. tx'[w] = [row |-> new, items |-> 0, log |-> {}] /\ pc'[w] = "append"
    BY <1>2, <1>3
  <2>2. new = Moved(disputes[target[w]], req[w].to)'
    BY <1>2 DEF committed
  <2>3. WritesPending(w)'
    <3>1. pc'[w] \notin Reading \cup {"idle"} /\ req'[w].op = "status"
      BY <1>1, <1>2, <2>1 DEF Reading, StatusRequest
    <3>2. Wrote(w, "status")' /\ ~Wrote(w, "open")' /\ ~Wrote(w, "evidence")'
      BY <2>1, <3>1 DEF Wrote
    <3> HIDE DEF new
    <3> QED BY <2>1, <2>2, <3>1, <3>2 DEF WritesPending
  <2>4. MoveChecked(w) /\ MoveChecked(w)'
    BY <1>1, <1>2 DEF CallsInOrder, MoveChecked, Wrote, committed
  <2>5. OwnStatements(w)' /\ LocksHeld(w)' /\ ReadsStand(w)'
    BY <1>1, <1>2, <1>4 DEF OwnStatements, LocksHeld, ReadsStand, Wrote, StatusRequest,
                            Exists, committed
  <2> QED BY <2>3, <2>4, <2>5 DEF InOrder
<1>9. LocksExclude' /\ OpensDiffer'
  BY <1>1, <1>2, <1>4, <1>5 DEF LocksExclude, OpensDiffer, Wrote, Untouched, StatusRequest
<1> QED BY <1>1, <1>2, <1>5, <1>7, <1>8, <1>9, LocalStep

\* addEvidence finds the row it is about; rows are never deleted.
LEMMA FindKeepsCore ==
    ASSUME CoreInv, NEW w \in Workers, FindDispute(w)
    PROVE  CoreInv'
<1>1. CASE ~Exists(target[w]) \/ disputes[target[w]].status \in Terminal
  BY <1>1, ThrowKeepsCore DEF FindDispute, CoreInv, TypeOK
<1>2. CASE Exists(target[w]) /\ disputes[target[w]].status \notin Terminal
  <2> USE <1>2 DEF CoreInv, TypeOK, FindDispute, Goto
  <2>1. \A v \in Workers \ {w} : Untouched(v)
    BY DEF Untouched
  <2>2. TypeOK'
    BY DEF committed
  <2>3. InOrder(w)'
    <3>1. /\ pc[w] = "find" /\ pc'[w] = "insertEvidence" /\ req'[w] = req[w]
          /\ target'[w] = target[w] /\ tx'[w] = tx[w] /\ lock'[w] = lock[w]
      OBVIOUS
    <3>2. /\ req[w] \in EvidenceRequest /\ target[w] \in DisputeIds
          /\ tx[w] = NoWrites /\ lock[w] = "none"
      BY <3>1 DEF CallsInOrder, OwnStatements, LocksHeld, WritesPending, Wrote, Reading
    <3>3. disputes' = disputes
      BY DEF committed
    <3>4. OwnStatements(w)' /\ MoveChecked(w)'
      BY <3>1, <3>2 DEF OwnStatements, MoveChecked, Wrote
    <3>5. LocksHeld(w)' /\ ReadsStand(w)'
      BY <3>1, <3>2, <3>3 DEF LocksHeld, ReadsStand, Wrote, Exists
    <3>6. WritesPending(w)'
      BY <3>1, <3>2 DEF WritesPending, Wrote, Reading
    <3> QED BY <3>4, <3>5, <3>6 DEF InOrder
  <2>4. LocksExclude' /\ OpensDiffer'
    BY <2>1 DEF LocksExclude, OpensDiffer, Wrote, Untouched
  <2> QED BY <2>1, <2>2, <2>3, <2>4, LocalStep
<1> QED BY <1>1, <1>2

\* The share lock is granted when nobody holds the row FOR UPDATE.
LEMMA InsertEvidenceKeepsCore ==
    ASSUME CoreInv, NEW w \in Workers, InsertEvidence(w)
    PROVE  CoreInv'
<1>1. CASE req[w].collectedBy \notin Operators \cup {NoOne}
  BY <1>1, ThrowKeepsCore DEF InsertEvidence, CoreInv, TypeOK
<1>2. CASE req[w].collectedBy \in Operators \cup {NoOne}
  <2> USE <1>2 DEF CoreInv, TypeOK
  <2>1. /\ pc[w] = "insertEvidence" /\ req[w] \in EvidenceRequest /\ target[w] \in DisputeIds
        /\ Exists(target[w]) /\ lock[w] = "none" /\ tx[w] = NoWrites
    BY DEF InsertEvidence, CallsInOrder, OwnStatements, ReadsStand, LocksHeld, WritesPending,
           Reading
  <2>2. /\ pc' = [pc EXCEPT ![w] = "append"]
        /\ tx' = [tx EXCEPT ![w].items = 1]
        /\ lock' = [lock EXCEPT ![w] = "share"]
        /\ UNCHANGED <<committed, nextSeq, req, target, seen, err>>
    BY DEF InsertEvidence, Goto
  <2>3. /\ tx'[w].row = NoRow /\ tx'[w].items = 1 /\ tx'[w].log = {}
        /\ tx' \in [Workers -> [row : Row \cup {NoRow}, items : {0, 1}, log : SUBSET Event]]
    BY <2>1, <2>2 DEF NoWrites
  <2>4. \A v \in Workers \ {w} : Untouched(v)
    BY <2>2 DEF Untouched
  <2>5. TypeOK'
    BY <2>2, <2>3 DEF committed
  <2>6. InOrder(w)'
    BY <2>1, <2>2, <2>3
       DEF InOrder, OwnStatements, LocksHeld, ReadsStand, MoveChecked, WritesPending, Wrote,
           Reading, EvidenceRequest, Exists, committed
  <2>7. LocksExclude'
    <3>1. \A v \in Workers \ {w} : target[v] = target[w] => lock[v] # "update"
      BY DEF InsertEvidence, OthersLock
    <3> QED BY <3>1, <2>2 DEF LocksExclude
  <2>8. OpensDiffer'
    BY <2>1, <2>2, <2>4 DEF OpensDiffer, Wrote, Untouched, EvidenceRequest
  <2> QED BY <2>2, <2>4, <2>5, <2>6, <2>7, <2>8, LocalStep
<1> QED BY <1>1, <1>2

\* The event of a call is a row dispute_events admits.
LEMMA NewEventTyped ==
    ASSUME CoreInv, NEW w \in Workers, pc[w] = "append", Attributed(NewEvent(w))
    PROVE  NewEvent(w) \in Event
<1>1. /\ req[w] \in OpenRequest \cup StatusRequest \cup EvidenceRequest
      /\ target[w] \in DisputeIds /\ nextSeq \in Nat /\ seen[w] \in Statuses \cup {"none"}
  BY DEF CoreInv, CallsInOrder, OwnStatements, TypeOK
<1>2. CASE req[w].op = "open"
  BY <1>1, <1>2 DEF NewEvent, Event, Triggers
<1>3. CASE req[w].op = "status"
  <2>1. req[w] \in StatusRequest
    BY <1>1, <1>3 DEF OpenRequest, EvidenceRequest
  <2> QED BY <1>1, <1>3, <2>1 DEF NewEvent, Event, Attributed, StatusRequest
<1>4. CASE req[w].op = "evidence"
  BY <1>1, <1>4 DEF NewEvent, Event, Attributed, Triggers
<1> QED BY <1>1, <1>2, <1>3, <1>4 DEF OpenRequest, StatusRequest, EvidenceRequest

\* The event is the last write; row, items and lock stay as they are.
LEMMA AppendKeepsCore ==
    ASSUME CoreInv, NEW w \in Workers, AppendEvent(w)
    PROVE  CoreInv'
<1>1. CASE ~Attributed(NewEvent(w))
  BY <1>1, ThrowKeepsCore DEF AppendEvent, CoreInv, TypeOK
<1>2. CASE Attributed(NewEvent(w))
  <2> USE DEF CoreInv, TypeOK
  <2>1. /\ pc[w] = "append"
        /\ pc' = [pc EXCEPT ![w] = "commit"]
        /\ tx' = [tx EXCEPT ![w].log = {NewEvent(w)}]
        /\ nextSeq' \in Nat
        /\ UNCHANGED <<committed, req, target, seen, lock, err>>
    BY <1>2 DEF AppendEvent, Goto
  <2>2. NewEvent(w) \in Event
    BY <1>2, <2>1, NewEventTyped
  <2>3. /\ tx'[w].row = tx[w].row /\ tx'[w].items = tx[w].items
        /\ tx' \in [Workers -> [row : Row \cup {NoRow}, items : {0, 1}, log : SUBSET Event]]
    <3>1. tx[w] \in [row : Row \cup {NoRow}, items : {0, 1}, log : SUBSET Event]
      OBVIOUS
    <3>2. [tx[w] EXCEPT !.log = {NewEvent(w)}] =
            [row |-> tx[w].row, items |-> tx[w].items, log |-> {NewEvent(w)}]
      BY <3>1, EventWritten
    <3> QED BY <2>1, <2>2, <3>1, <3>2
  <2>4. \A v \in Workers \ {w} : Untouched(v)
    BY <2>1 DEF Untouched
  <2>5. TypeOK'
    BY <2>1, <2>3 DEF committed
  <2>6. InOrder(w)'
    <3>1. InOrder(w)
      BY DEF CallsInOrder, InOrder
    <3> QED BY <2>1, <2>3, <3>1
               DEF InOrder, OwnStatements, LocksHeld, ReadsStand, MoveChecked, WritesPending,
                   Wrote, Reading, Exists, CaseTaken, committed
  <2>7. LocksExclude' /\ OpensDiffer'
    BY <2>1, <2>4 DEF LocksExclude, OpensDiffer, Wrote, Untouched
  <2> QED BY <2>1, <2>4, <2>5, <2>6, <2>7, LocalStep
<1> QED BY <1>1, <1>2

\* A commit leaves what the other transactions read or wrote as it was.
LEMMA CommitKeepsCore ==
    ASSUME CoreInv, NEW w \in Workers, Commit(w) \/ CommitAnswerLost(w)
    PROVE  CoreInv'
<1> USE DEF CoreInv, TypeOK
<1> DEFINE d == target[w]
<1>1. /\ pc[w] = "commit" /\ Publish(w)
      /\ pc' \in [Workers -> {"idle", "prepare", "insertDispute", "lock", "validate", "update",
                              "find", "insertEvidence", "append", "commit", "rollback"}]
      /\ pc'[w] \in {"idle", "rollback"} /\ lock'[w] = "none" /\ tx'[w] = NoWrites
      /\ nextSeq' = nextSeq
  BY DEF Commit, CommitAnswerLost, Release, Throw, Goto
<1>2. \A v \in Workers \ {w} : Untouched(v)
  BY DEF Commit, CommitAnswerLost, Release, Throw, Goto, Untouched
<1>3. /\ d \in DisputeIds /\ tx[w].items \in {0, 1} /\ tx[w].row \in Row \cup {NoRow}
      /\ req[w] \in OpenRequest \cup StatusRequest \cup EvidenceRequest
      /\ OwnStatements(w) /\ LocksHeld(w) /\ ReadsStand(w) /\ MoveChecked(w)
      /\ WritesPending(w)
  BY <1>1 DEF CallsInOrder, OwnStatements
<1>4. TypeOK'
  <2>1. /\ disputes' \in [DisputeIds -> Row \cup {NoRow}] /\ evidence' \in [DisputeIds -> Nat]
        /\ events' \subseteq Event
    BY <1>1, <1>3 DEF Publish
  <2>2. /\ req' \in [Workers -> Requests \cup {NoRequest}]
        /\ target' \in [Workers -> DisputeIds \cup {NoDispute}]
        /\ seen' \in [Workers -> Statuses \cup {"none"}]
        /\ lock' \in [Workers -> {"none", "share", "update"}]
    BY DEF Commit, CommitAnswerLost, Release, Throw
  <2>3. tx' \in [Workers -> [row : Row \cup {NoRow}, items : {0, 1}, log : SUBSET Event]]
    BY DEF Commit, CommitAnswerLost, Release, NoWrites
  <2>4. err' \in [Workers -> {"none", "NOT_FOUND", "VALIDATION_ERROR", "MISSING_DEADLINE_RULE",
                              "INVALID_TRANSITION", "EVIDENCE_REQUIRED",
                              "CONCURRENT_MODIFICATION", "UNIQUE_VIOLATION",
                              "DATABASE_ERROR"}]
    BY DEF Commit, CommitAnswerLost, Release, Throw
  <2> QED BY <1>1, <2>1, <2>2, <2>3, <2>4
<1>5. LocksExclude' /\ OpensDiffer'
  <2>1. LocksExclude'
    <3> SUFFICES ASSUME NEW u \in Workers, NEW v \in Workers, u # v,
                        target'[u] = target'[v], lock'[u] = "update"
                 PROVE  lock'[v] = "none"
      BY DEF LocksExclude
    <3>1. CASE v = w
      BY <1>1, <3>1
    <3>2. CASE u # w /\ v # w
      BY <1>2, <3>2 DEF LocksExclude, Untouched
    <3> QED BY <1>1, <3>1, <3>2
  <2>2. ~Wrote(w, "open")'
    BY <1>1 DEF Wrote
  <2>3. OpensDiffer'
    BY <1>2, <2>2 DEF OpensDiffer, Wrote, Untouched
  <2> QED BY <2>1, <2>3
<1>6. InOrder(w)'
  BY <1>1 DEF InOrder, OwnStatements, LocksHeld, ReadsStand, MoveChecked, WritesPending, Wrote
<1>7. /\ \A c \in DisputeIds \ {d} : disputes'[c] = disputes[c]
      /\ tx[w].row = NoRow => disputes' = disputes
      /\ tx[w].row # NoRow => disputes'[d] = tx[w].row
      /\ \A c \in DisputeIds : evidence'[c] \in Nat /\ evidence'[c] >= evidence[c]
  BY <1>1, <1>3 DEF Publish
<1>8. ASSUME NEW v \in Workers \ {w}
      PROVE  OwnStatements(v)'
  BY <1>2, <1>8 DEF OwnStatements, Untouched, CallsInOrder
<1>9. CASE req[w].op = "evidence"
  <2>1. disputes' = disputes
    BY <1>1, <1>3, <1>7, <1>9 DEF WritesPending, Wrote
  <2>2. ASSUME NEW v \in Workers \ {w} PROVE InOrder(v)'
    <3>1. LocksHeld(v)' /\ ReadsStand(v)'
      BY <1>2, <2>1, <2>2 DEF LocksHeld, ReadsStand, Wrote, Untouched, CallsInOrder, Exists
    <3>2. WritesPending(v)'
      <4>1. WritesPending(v)
        BY <2>2 DEF CallsInOrder
      <4> QED BY <1>2, <2>1, <2>2, <4>1
                 DEF WritesPending, Wrote, Reading, Untouched, Exists, CaseTaken
    <3>3. MoveChecked(v)'
      BY <1>2, <1>7, <2>2 DEF MoveChecked, OwnStatements, Wrote, Untouched, CallsInOrder
    <3> QED BY <1>8, <3>1, <3>2, <3>3 DEF InOrder
  <2>3. CaseNumberUnique' /\ ClosedIffTerminal'
    BY <2>1 DEF CaseNumberUnique, ClosedIffTerminal, Exists
  <2>4. FoughtHasEvidence'
    BY <2>1, <1>7 DEF FoughtHasEvidence, Exists
  <2> QED BY <1>4, <1>5, <1>6, <2>2, <2>3, <2>4 DEF CallsInOrder, InOrder
<1>10. CASE req[w].op = "status"
  <2>1. /\ disputes[d] \in Row /\ req[w].to \in Statuses /\ lock[w] = "update"
        /\ tx[w].row = Moved(disputes[d], req[w].to)
        /\ CanTransition(Transitions, disputes[d].status, req[w].to, req[w].by)
        /\ req[w].to \in Fought => evidence[d] > 0
    BY <1>1, <1>3, <1>10 DEF LocksHeld, ReadsStand, MoveChecked, WritesPending, Wrote, Exists,
                             OpenRequest, StatusRequest, EvidenceRequest
  <2>2. /\ disputes'[d] \in Row /\ disputes'[d].caseNumber = disputes[d].caseNumber
        /\ disputes'[d].status = req[w].to
        /\ disputes'[d].closed <=> req[w].to \in Terminal \/ disputes[d].closed
    BY <1>7, <2>1, MovedRow, RowsAreNotNull
  <2>3. \A c \in DisputeIds : /\ Exists(c)' <=> Exists(c)
                              /\ disputes'[c].caseNumber = disputes[c].caseNumber
    BY <1>3, <1>7, <2>1, <2>2, RowsAreNotNull DEF Exists
  <2>4. ASSUME NEW v \in Workers \ {w} PROVE InOrder(v)'
    <3>1. target[v] = d => lock[v] = "none"
      BY <2>1, <2>4 DEF LocksExclude
    <3>2. InOrder(v)
      BY <2>4 DEF InOrder, CallsInOrder
    <3>3. LocksHeld(v)'
      BY <1>2, <2>3, <2>4, <3>2 DEF InOrder, LocksHeld, Wrote, Untouched
    <3>4. ReadsStand(v)'
      BY <1>2, <1>7, <2>3, <2>4, <3>1, <3>2
         DEF InOrder, OwnStatements, LocksHeld, ReadsStand, Wrote, Untouched
    <3>5. MoveChecked(v)'
      BY <1>2, <1>7, <2>4, <3>2 DEF InOrder, OwnStatements, MoveChecked, Wrote, Untouched
    <3>6. WritesPending(v)'
      <4>1. Wrote(v, "status") => disputes'[target[v]] = disputes[target[v]]
        BY <1>7, <3>1, <3>2 DEF InOrder, OwnStatements, LocksHeld, Wrote
      <4>2. Wrote(v, "open") => ~Exists(target[v])' /\ ~CaseTaken(req[v].caseNumber)'
        BY <1>2, <2>3, <2>4, <3>2
           DEF InOrder, OwnStatements, WritesPending, Wrote, CaseTaken, Untouched
      <4> QED BY <1>2, <2>4, <3>2, <4>1, <4>2, PendingStands
    <3> QED BY <1>8, <3>3, <3>4, <3>5, <3>6 DEF InOrder
  <2>5. CaseNumberUnique'
    BY <2>3 DEF CaseNumberUnique
  <2>6. ClosedIffTerminal'
    <3>1. disputes[d].status \notin Terminal
      BY <2>1, TerminalAssumption DEF CanTransition, FindTransition
    <3>2. disputes'[d].closed <=> disputes'[d].status \in Terminal
      BY <1>3, <2>1, <2>2, <3>1, RowsAreNotNull DEF ClosedIffTerminal, Exists
    <3> QED BY <1>7, <3>2 DEF ClosedIffTerminal, Exists
  <2>7. FoughtHasEvidence'
    BY <1>7, <2>1, <2>2 DEF FoughtHasEvidence, Exists
  <2> QED BY <1>4, <1>5, <1>6, <2>4, <2>5, <2>6, <2>7 DEF CallsInOrder, InOrder
<1>11. CASE req[w].op = "open"
  <2>1. /\ ~Exists(d) /\ ~CaseTaken(req[w].caseNumber) /\ req[w].caseNumber \in CaseNumbers
        /\ tx[w].row = [caseNumber |-> req[w].caseNumber, status |-> "CHARGEBACK_RECEIVED",
                        closed |-> FALSE]
    BY <1>1, <1>3, <1>11 DEF WritesPending, Wrote, OpenRequest, StatusRequest, EvidenceRequest
  <2>2. disputes'[d] = [caseNumber |-> req[w].caseNumber, status |-> "CHARGEBACK_RECEIVED",
                        closed |-> FALSE] /\ disputes'[d] # NoRow
    <3>1. tx[w].row \in Row
      BY <2>1 DEF Row
    <3> QED BY <1>7, <2>1, <3>1, RowsAreNotNull
  <2>3. ASSUME NEW v \in Workers \ {w} PROVE InOrder(v)'
    <3>1. InOrder(v)
      BY <2>3 DEF InOrder, CallsInOrder
    <3>2. LocksHeld(v)'
      BY <1>2, <1>7, <2>2, <2>3, <3>1 DEF InOrder, LocksHeld, Wrote, Untouched, Exists
    <3>3. ReadsStand(v)'
      BY <1>2, <1>7, <2>1, <2>2, <2>3, <3>1
         DEF InOrder, OwnStatements, ReadsStand, Wrote, Untouched, Exists
    <3>4. MoveChecked(v)'
      BY <1>2, <1>7, <2>3, <3>1 DEF InOrder, OwnStatements, MoveChecked, Wrote, Untouched
    <3>5. WritesPending(v)'
      <4>1. Wrote(v, "status") => disputes'[target[v]] = disputes[target[v]]
        BY <1>7, <2>1, <3>1 DEF InOrder, OwnStatements, ReadsStand, Wrote
      <4>2. Wrote(v, "open") => target[v] # d /\ req[v].caseNumber # req[w].caseNumber
        BY <1>1, <1>11, <2>3 DEF OpensDiffer, Wrote
      <4>3. Wrote(v, "open") => ~Exists(target[v])' /\ ~CaseTaken(req[v].caseNumber)'
        BY <1>2, <1>7, <2>2, <2>3, <3>1, <4>2
           DEF InOrder, OwnStatements, WritesPending, Wrote, CaseTaken, Exists, Untouched
      <4> QED BY <1>2, <2>3, <3>1, <4>1, <4>3, PendingStands
    <3> QED BY <1>8, <3>2, <3>3, <3>4, <3>5 DEF InOrder
  <2>4. CaseNumberUnique'
    BY <1>7, <2>1, <2>2 DEF CaseNumberUnique, Exists, CaseTaken
  <2>5. ClosedIffTerminal' /\ FoughtHasEvidence'
    BY <1>7, <2>2 DEF ClosedIffTerminal, FoughtHasEvidence, Exists
  <2> QED BY <1>4, <1>5, <1>6, <2>3, <2>4, <2>5 DEF CallsInOrder, InOrder
<1> QED BY <1>3, <1>9, <1>10, <1>11 DEF OpenRequest, StatusRequest, EvidenceRequest
-----------------------------------------------------------------------------

\* Nothing is stored, locked or pending at first.
LEMMA InitCore == Init => CoreInv
  BY DEF Init, CoreInv, TypeOK, CallsInOrder, OwnStatements, LocksHeld, ReadsStand, MoveChecked,
         WritesPending, Wrote, Reading, LocksExclude, OpensDiffer, CaseNumberUnique,
         FoughtHasEvidence, ClosedIffTerminal, Exists, NoWrites

\* CoreInv is inductive: every statement of every call keeps it.
LEMMA NextCore == CoreInv /\ [Next]_vars => CoreInv'
<1> SUFFICES ASSUME CoreInv, [Next]_vars PROVE CoreInv'
  OBVIOUS
<1>1. ASSUME NEW w \in Workers, NEW r \in Requests, Begin(w, r) PROVE CoreInv'
  BY <1>1, BeginKeepsCore
<1>2. ASSUME NEW w \in Workers, Statement(w) PROVE CoreInv'
  BY <1>2, PrepareOpenKeepsCore, InsertDisputeKeepsCore, LockKeepsCore, ValidateKeepsCore,
     UpdateKeepsCore, FindKeepsCore, InsertEvidenceKeepsCore, AppendKeepsCore DEF Statement
<1>3. ASSUME NEW w \in Workers, Commit(w) \/ CommitAnswerLost(w) PROVE CoreInv'
  BY <1>3, CommitKeepsCore
<1>4. ASSUME NEW w \in Workers, Rollback(w) \/ ConnectionLost(w) PROVE CoreInv'
  BY <1>4, ReleaseKeepsCore DEF Rollback, ConnectionLost
<1>5. ASSUME NEW w \in Workers, DatabaseError(w) PROVE CoreInv'
  BY <1>5, ThrowKeepsCore DEF DatabaseError, CoreInv, TypeOK
<1>6. CASE UNCHANGED vars
  BY <1>6 DEF vars, committed, CoreInv, TypeOK, CallsInOrder, OwnStatements, LocksHeld,
         ReadsStand, MoveChecked, WritesPending, Wrote, LocksExclude, OpensDiffer,
         CaseNumberUnique, FoughtHasEvidence, ClosedIffTerminal, Exists, CaseTaken
<1> QED BY <1>1, <1>2, <1>3, <1>4, <1>5, <1>6 DEF Next, Quiescent

\* What the transactions of all connections keep between them, whatever the
\* callers ask and wherever statements, commits and connections fail.
THEOREM CoreHolds == Spec => []CoreInv
<1>1. Init => CoreInv BY InitCore
<1>2. CoreInv /\ [Next]_vars => CoreInv' BY NextCore
<1> QED BY <1>1, <1>2, PTL DEF Spec

\* The state is always well typed: in particular every committed event names
\* a known operator or none.
THEOREM TypeCorrect == Spec => []TypeOK
  BY CoreHolds, PTL DEF CoreInv

\* A case number never gets two disputes.
THEOREM NumbersUnique == Spec => []CaseNumberUnique
  BY CoreHolds, PTL DEF CoreInv

\* closed_at tells exactly the disputes in a terminal status.
THEOREM ClosedTellsTerminal == Spec => []ClosedIffTerminal
  BY CoreHolds, PTL DEF CoreInv

\* The 409 that guards the UPDATE is never needed.
THEOREM NoConcurrentModification == Spec => []NeverConcurrentlyModified
<1>1. Init => NeverConcurrentlyModified
  BY DEF Init, NeverConcurrentlyModified
<1>2. CoreInv /\ NeverConcurrentlyModified /\ [Next]_vars => NeverConcurrentlyModified'
  <2> SUFFICES ASSUME CoreInv, NeverConcurrentlyModified, [Next]_vars
               PROVE  NeverConcurrentlyModified'
    OBVIOUS
  <2>1. CASE UNCHANGED vars
    BY <2>1 DEF vars, NeverConcurrentlyModified
  <2>2. ASSUME NEW w \in Workers, UpdateDisputeStatus(w) PROVE NeverConcurrentlyModified'
    BY <2>2, UpdateKeepsCore DEF UpdateDisputeStatus, NeverConcurrentlyModified
  <2>3. ASSUME NEW w \in Workers,
               \/ \E r \in Requests : Begin(w, r)
               \/ PrepareOpen(w) \/ InsertDispute(w) \/ LockDisputeForUpdate(w)
               \/ ValidateMove(w) \/ FindDispute(w) \/ InsertEvidence(w) \/ AppendEvent(w)
               \/ Commit(w) \/ CommitAnswerLost(w)
               \/ Rollback(w) \/ DatabaseError(w) \/ ConnectionLost(w)
        PROVE  NeverConcurrentlyModified'
    <3>1. err \in [Workers -> {"none", "NOT_FOUND", "VALIDATION_ERROR",
                               "MISSING_DEADLINE_RULE", "INVALID_TRANSITION",
                               "EVIDENCE_REQUIRED", "CONCURRENT_MODIFICATION",
                               "UNIQUE_VIOLATION", "DATABASE_ERROR"}]
      BY DEF CoreInv, TypeOK
    <3>2. \E e : e # "CONCURRENT_MODIFICATION" /\ (err' = err \/ err' = [err EXCEPT ![w] = e])
      BY <2>3 DEF Begin, PrepareOpen, OpenVerdict, InsertDispute, LockDisputeForUpdate,
                  ValidateMove, MoveVerdict, AssertTransition, FindDispute, InsertEvidence,
                  AppendEvent, Commit, CommitAnswerLost, Rollback, DatabaseError,
                  ConnectionLost, Throw, Release
    <3> QED BY <3>1, <3>2 DEF NeverConcurrentlyModified
  <2> QED BY <2>1, <2>2, <2>3 DEF Next, Statement, Quiescent
<1> QED BY <1>1, <1>2, CoreHolds, PTL DEF Spec
=============================================================================
