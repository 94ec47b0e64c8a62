------------------------- MODULE DisputeServiceInv -------------------------
(***************************************************************************)
(* Why DisputeService keeps its promises: an inductive invariant, in named *)
(* parts.  What a transaction read under its lock stays true until it      *)
(* commits, because whatever could change it waits for the lock.           *)
(***************************************************************************)
EXTENDS DisputeService

\* The statements up to the first one that writes.
Reading == {"prepare", "insertDispute", "lock", "validate", "update", "find", "insertEvidence"}

\* Call op has written its row or item.
Wrote(w, op) == pc[w] \in {"append", "commit"} /\ req[w].op = op

\* Every call runs the statements of its own operation.
OwnStatements(w) ==
    /\ pc[w] \in {"prepare", "insertDispute"} => req[w] \in OpenRequest
    /\ pc[w] \in {"lock", "validate", "update"} =>
            req[w] \in StatusRequest /\ target[w] \in DisputeIds
    /\ pc[w] \in {"find", "insertEvidence"} =>
            req[w] \in EvidenceRequest /\ target[w] \in DisputeIds
    /\ pc[w] \in {"append", "commit"} =>
            /\ req[w] \in OpenRequest \cup StatusRequest \cup EvidenceRequest
            /\ target[w] \in DisputeIds

\* The lock a transaction holds: FOR UPDATE while it changes a status, a share
\* while it adds evidence, on a row that is there.
LocksHeld(w) ==
    /\ pc[w] \in {"validate", "update"} \/ Wrote(w, "status") => lock[w] = "update"
    /\ Wrote(w, "evidence") => lock[w] = "share"
    /\ pc[w] \notin {"validate", "update", "append", "commit", "rollback"} \/ Wrote(w, "open") =>
            lock[w] = "none"
    /\ lock[w] # "none" => target[w] \in DisputeIds /\ Exists(target[w])

\* Two transactions lock one row only if both locks are shared.
LocksExclude ==
    \A v, w \in Workers :
        v # w /\ target[v] = target[w] /\ lock[v] = "update" => lock[w] = "none"

\* What changeStatus and addEvidence read of the row still holds.
ReadsStand(w) ==
    /\ pc[w] \in {"validate", "update"} \/ Wrote(w, "status") =>
            /\ Exists(target[w])
            /\ seen[w] = disputes[target[w]].status
    /\ pc[w] = "insertEvidence" \/ Wrote(w, "evidence") => Exists(target[w])

\* The move a transaction checked is still legal when it commits.
MoveChecked(w) ==
    pc[w] = "update" \/ Wrote(w, "status") =>
        /\ CanTransition(Transitions, seen[w], req[w].to, req[w].by)
        /\ req[w].to \in Fought => evidence[target[w]] > 0

\* What a transaction is about to commit.
WritesPending(w) ==
    /\ pc[w] \in Reading \cup {"idle"} => tx[w] = NoWrites
    /\ pc[w] = "append" => tx[w].log = {}
    /\ Wrote(w, "open") =>
            /\ tx[w].row = [caseNumber |-> req[w].caseNumber,
                            status |-> "CHARGEBACK_RECEIVED", closed |-> FALSE]
            /\ tx[w].items = 0
            /\ ~Exists(target[w])
            /\ ~CaseTaken(req[w].caseNumber)
    /\ Wrote(w, "status") =>
            /\ tx[w].row = Moved(disputes[target[w]], req[w].to)
            /\ tx[w].items = 0
    /\ Wrote(w, "evidence") => tx[w].row = NoRow /\ tx[w].items = 1

\* The event a transaction is about to commit tells what it did.
EventPending(w) ==
    pc[w] = "commit" =>
        \E e \in tx[w].log :
            /\ tx[w].log = {e}
            /\ e = [NewEvent(w) EXCEPT !.seq = e.seq]
            /\ e.seq < nextSeq
            /\ \A f \in events : f.seq # e.seq
            /\ e.to # "none" => \A f \in StatusTrail(target[w]) : f.seq < e.seq
            /\ e.to \in Fought =>
                    \E f \in events : /\ f.dispute = target[w]
                                      /\ f.type = "EVIDENCE_ADDED"
                                      /\ f.seq < e.seq

\* Calls that opened a case and have not committed it differ in id and number.
OpensDiffer ==
    \A v, w \in Workers :
        v # w /\ Wrote(v, "open") /\ Wrote(w, "open") =>
            target[v] # target[w] /\ req[v].caseNumber # req[w].caseNumber

\* No two events, committed or about to be, have the same number.
NumbersDiffer ==
    /\ \A e, f \in events : e.seq = f.seq => e = f
    /\ \A v, w \in Workers :
            v # w /\ pc[v] = "commit" /\ pc[w] = "commit" =>
                \A e \in tx[v].log, f \in tx[w].log : e.seq # f.seq

\* Every committed event has a number already drawn and a row it is about.
EventsRooted == \A e \in events : e.seq < nextSeq /\ Exists(e.dispute)

\* A fought case has evidence.
FoughtHasEvidence ==
    \A d \in DisputeIds : Exists(d) /\ disputes[d].status \in Fought => evidence[d] > 0

\* A counted item has its event.
EvidenceOnRecord ==
    \A d \in DisputeIds :
        evidence[d] > 0 => \E f \in events : f.dispute = d /\ f.type = "EVIDENCE_ADDED"

CallsInOrder ==
    \A w \in Workers :
        /\ OwnStatements(w) /\ LocksHeld(w) /\ ReadsStand(w)
        /\ MoveChecked(w) /\ WritesPending(w)

CoreInv ==
    /\ TypeOK
    /\ CallsInOrder
    /\ LocksExclude
    /\ OpensDiffer
    /\ CaseNumberUnique
    /\ FoughtHasEvidence
    /\ ClosedIffTerminal

TrailInv ==
    /\ \A w \in Workers : EventPending(w)
    /\ NumbersDiffer
    /\ EventsRooted
    /\ EvidenceOnRecord
    /\ FoughtAfterEvidence
    /\ TrailExplainsStatus
=============================================================================
