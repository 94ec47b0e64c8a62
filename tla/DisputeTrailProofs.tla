-------------------------- MODULE DisputeTrailProofs --------------------------
(***************************************************************************)
(* Proofs that the audit trail tells what happened: TrailInv, on top of    *)
(* CoreInv.  A number is drawn before the commit, so what orders the trail *)
(* is that two transactions about to report a status have different rows.  *)
(* Then that the transactions implement the calls of DisputeCase.          *)
(***************************************************************************)
EXTENDS DisputeServiceProofs, FiniteSetTheorems

USE NullsAssumption, ActorsAssumption, RequestsAssumption, StatusesAssumption

\* The event transaction w is about to commit, under the number n.
Numbered(w, n) == [NewEvent(w) EXCEPT !.seq = n]

\* What the event of each call says, by AppendEvent.
LEMMA NumberedEvent ==
    ASSUME NEW w \in Workers, NEW n
    PROVE  /\ Numbered(w, n).seq = n
           /\ Numbered(w, n).dispute = target[w]
           /\ req[w].op = "open" =>
                /\ Numbered(w, n).type = "DISPUTE_OPENED"
                /\ Numbered(w, n).to = "CHARGEBACK_RECEIVED"
           /\ req[w].op = "status" =>
                /\ Numbered(w, n).type = "STATUS_CHANGED"
                /\ Numbered(w, n).from = seen[w]
                /\ Numbered(w, n).to = req[w].to
                /\ Numbered(w, n).actorType = req[w].by
           /\ req[w].op \notin {"open", "status"} =>
                /\ Numbered(w, n).type = "EVIDENCE_ADDED"
                /\ Numbered(w, n).to = "none"
<1>1. CASE req[w].op = "open"
  BY <1>1 DEF Numbered, NewEvent
<1>2. CASE req[w].op = "status"
  BY <1>2 DEF Numbered, NewEvent
<1>3. CASE req[w].op \notin {"open", "status"}
  BY <1>3 DEF Numbered, NewEvent
<1> QED BY <1>1, <1>2, <1>3

\* It depends on nothing but the call.
LEMMA NumberedStands ==
    ASSUME NEW w \in Workers, NEW n,
           req'[w] = req[w], target'[w] = target[w], seen'[w] = seen[w]
    PROVE  Numbered(w, n)' = Numbered(w, n)
<1>1. CASE req[w].op = "open"
  BY <1>1 DEF Numbered, NewEvent
<1>2. CASE req[w].op = "status"
  BY <1>2 DEF Numbered, NewEvent
<1>3. CASE req[w].op \notin {"open", "status"}
  BY <1>3 DEF Numbered, NewEvent
<1> QED BY <1>1, <1>2, <1>3

\* EventPending in terms of the number drawn.
LEMMA PendingEvent ==
    ASSUME NEW w \in Workers, pc[w] = "commit", EventPending(w)
    PROVE  \E n : LET e == Numbered(w, n) IN
                  /\ tx[w].log = {e}
                  /\ n < nextSeq
                  /\ \A f \in events : f.seq # n
                  /\ e.to # "none" => \A f \in StatusTrail(target[w]) : f.seq < n
                  /\ e.to \in Fought =>
                        \E f \in events : /\ f.dispute = target[w]
                                          /\ f.type = "EVIDENCE_ADDED"
                                          /\ f.seq < n
<1>1. PICK e \in tx[w].log :
            /\ tx[w].log = {e}
            /\ e = [NewEvent(w) EXCEPT !.seq = e.seq]
            /\ e.seq < nextSeq
            /\ \A f \in events : f.seq # e.seq
            /\ e.to # "none" => \A f \in StatusTrail(target[w]) : f.seq < e.seq
            /\ e.to \in Fought =>
                    \E f \in events : /\ f.dispute = target[w]
                                      /\ f.type = "EVIDENCE_ADDED"
                                      /\ f.seq < e.seq
  BY DEF EventPending
<1>2. e = Numbered(w, e.seq)
  BY <1>1 DEF Numbered
<1> QED BY <1>1, <1>2

\* A number below the next one stays below it.
LEMMA BelowNext ==
    ASSUME CoreInv, nextSeq' \in Nat, nextSeq' >= nextSeq
    PROVE  /\ \A e \in events : e.seq < nextSeq => e.seq < nextSeq'
           /\ \A v \in Workers : \A e \in tx[v].log : e.seq < nextSeq => e.seq < nextSeq'
<1>1. /\ nextSeq \in Nat /\ \A e \in events : e \in Event
      /\ \A v \in Workers : \A e \in tx[v].log : e \in Event
  BY DEF CoreInv, TypeOK
<1>2. \A e \in Event : e.seq \in Nat
  BY DEF Event
<1> QED BY <1>1, <1>2

\* A transaction that does not move has the same event pending after a step that
\* commits nothing, whether or not it draws a number.
LEMMA PendingFrame ==
    ASSUME CoreInv, UNCHANGED committed, nextSeq' \in Nat, nextSeq' >= nextSeq,
           NEW v \in Workers, Untouched(v), EventPending(v)
    PROVE  EventPending(v)'
<1>1. UNCHANGED <<disputes, evidence, events>>
  BY DEF committed
<1>2. \A n : Numbered(v, n)' = Numbered(v, n)
  BY NumberedStands DEF Untouched
<1>3. StatusTrail(target[v])' = StatusTrail(target[v])
  BY <1>1 DEF StatusTrail, Untouched
<1>4. \A e \in tx[v].log : e.seq < nextSeq => e.seq < nextSeq'
  BY BelowNext
<1> QED BY <1>1, <1>2, <1>3, <1>4 DEF EventPending, Untouched, Numbered

\* What is committed stays in order while nothing is committed.
LEMMA CommittedFrame ==
    ASSUME CoreInv, TrailInv, UNCHANGED committed, nextSeq' \in Nat, nextSeq' >= nextSeq
    PROVE  EventsRooted' /\ EvidenceOnRecord' /\ FoughtAfterEvidence' /\ TrailExplainsStatus'
<1>1. UNCHANGED <<disputes, evidence, events>>
  BY DEF committed
<1>2. EventsRooted'
  BY <1>1, BelowNext DEF TrailInv, EventsRooted, Exists
<1> QED BY <1>1, <1>2 DEF TrailInv, EvidenceOnRecord, FoughtAfterEvidence,
                          TrailExplainsStatus, StatusTrail, Follows, Exists

\* A step that commits nothing and after which no new event is pending.
LEMMA TrailFrame ==
    ASSUME CoreInv, TrailInv, UNCHANGED committed, nextSeq' \in Nat, nextSeq' >= nextSeq,
           \A v \in Workers : pc'[v] = "commit" => pc[v] = "commit" /\ Untouched(v)
    PROVE  TrailInv'
<1>1. \A v \in Workers : EventPending(v)'
  BY PendingFrame DEF EventPending, TrailInv
<1>2. NumbersDiffer'
  BY DEF TrailInv, NumbersDiffer, Untouched, committed
<1> QED BY <1>1, <1>2, CommittedFrame DEF TrailInv

\* The event drawn last has the highest number, and comes after the evidence of
\* the case.
LEMMA AppendKeepsTrail ==
    ASSUME CoreInv, TrailInv, NEW w \in Workers, AppendEvent(w)
    PROVE  TrailInv'
<1>1. /\ nextSeq \in Nat /\ nextSeq' = nextSeq + 1 /\ UNCHANGED committed /\ pc[w] = "append"
      /\ UNCHANGED <<req, target, seen>>
  BY DEF AppendEvent, CoreInv, TypeOK
<1>2. nextSeq' \in Nat /\ nextSeq' >= nextSeq /\ nextSeq < nextSeq'
  BY <1>1
<1>3. CASE ~Attributed(NewEvent(w))
  <2>1. \A v \in Workers : pc'[v] = "commit" => pc[v] = "commit" /\ Untouched(v)
    BY <1>3 DEF AppendEvent, Throw, Goto, CoreInv, TypeOK, Untouched
  <2> QED BY <1>1, <1>2, <2>1, TrailFrame
<1>4. CASE Attributed(NewEvent(w))
  <2>0. PICK e : e = NewEvent(w)
    OBVIOUS
  <2>1. e \in Event /\ e.seq = nextSeq /\ e = Numbered(w, e.seq)
    <3>1. e \in Event
      BY <1>1, <1>4, <2>0, NewEventTyped
    <3>2. e.seq = nextSeq
      BY <2>0 DEF NewEvent
    <3> QED BY <2>0, <3>1, <3>2 DEF Event, Numbered
  <2>2. /\ \A v \in Workers \ {w} : Untouched(v)
        /\ pc'[w] = "commit" /\ tx'[w].log = {e}
    BY <1>4, <2>0 DEF AppendEvent, Goto, CoreInv, TypeOK, Untouched
  <2>3. \A f \in events : f.seq < nextSeq /\ f.seq # nextSeq
    <3>1. \A f \in events : f.seq < nextSeq /\ f.seq \in Nat
      BY DEF TrailInv, EventsRooted, CoreInv, TypeOK, Event
    <3> QED BY <1>1, <3>1
  <2>4. e.to \in Fought =>
            \E f \in events : f.dispute = target[w] /\ f.type = "EVIDENCE_ADDED"
    <3>1. /\ req[w] \in OpenRequest \cup StatusRequest \cup EvidenceRequest
          /\ target[w] \in DisputeIds /\ MoveChecked(w)
      BY <1>1 DEF CoreInv, CallsInOrder, OwnStatements
    <3>2. e.to \in Fought => req[w].op = "status" /\ e.to = req[w].to
      BY <2>1, <3>1, NumberedEvent DEF OpenRequest, StatusRequest, EvidenceRequest
    <3>3. e.to \in Fought => evidence[target[w]] > 0
      BY <1>1, <3>1, <3>2 DEF MoveChecked, Wrote
    <3> QED BY <3>1, <3>3 DEF TrailInv, EvidenceOnRecord
  <2>5. EventPending(w)'
    <3>1. Numbered(w, e.seq)' = Numbered(w, e.seq)
      BY <1>1, NumberedStands
    <3>2. StatusTrail(target[w])' \subseteq events /\ events' = events
      BY <1>1 DEF StatusTrail, committed
    <3>3. e \in tx'[w].log /\ e = [NewEvent(w) EXCEPT !.seq = e.seq]'
      BY <2>1, <2>2, <3>1 DEF Numbered
    <3>4. e.to \in Fought =>
            \E f \in events' : /\ f.dispute = target'[w]
                               /\ f.type = "EVIDENCE_ADDED"
                               /\ f.seq < e.seq
      BY <1>1, <2>1, <2>3, <2>4, <3>2
    <3> QED BY <1>2, <2>1, <2>2, <2>3, <3>2, <3>3, <3>4 DEF EventPending
  <2>6. \A v \in Workers : EventPending(v)'
    BY <1>1, <1>2, <2>2, <2>5, PendingFrame DEF TrailInv
  <2>7. NumbersDiffer'
    <3>1. \A v \in Workers \ {w}, f \in Event :
            pc'[v] = "commit" /\ f \in tx'[v].log => f.seq # nextSeq
      <4>1. \A v \in Workers \ {w} : pc'[v] = "commit" => EventPending(v) /\ tx'[v] = tx[v]
                                                          /\ pc[v] = "commit"
        BY <2>2 DEF Untouched, TrailInv
      <4>2. \A v \in Workers \ {w}, f \in Event :
              pc'[v] = "commit" /\ f \in tx'[v].log => f.seq < nextSeq
        BY <4>1 DEF EventPending
      <4> QED BY <1>1, <4>2 DEF Event
    <3>2. \A v \in Workers : tx'[v].log \subseteq Event
      BY <1>1, <2>1, <2>2 DEF Untouched, CoreInv, TypeOK
    <3>4. \A v, x \in Workers :
            v # x /\ v # w /\ x # w /\ pc'[v] = "commit" /\ pc'[x] = "commit" =>
                \A f \in tx'[v].log, g \in tx'[x].log : f.seq # g.seq
      BY <2>2 DEF Untouched, TrailInv, NumbersDiffer
    <3>5. \A v, x \in Workers :
            v # x /\ pc'[v] = "commit" /\ pc'[x] = "commit" =>
                \A f \in tx'[v].log, g \in tx'[x].log : f.seq # g.seq
      BY <2>1, <2>2, <3>1, <3>2, <3>4
    <3> QED BY <1>1, <3>5 DEF NumbersDiffer, TrailInv, committed
  <2> QED BY <1>1, <1>2, <2>6, <2>7, CommittedFrame DEF TrailInv
<1> QED BY <1>3, <1>4

\* What one commit does to its dispute, by call.
LEMMA Committed ==
    ASSUME CoreInv, NEW w \in Workers, Commit(w) \/ CommitAnswerLost(w)
    PROVE  /\ pc[w] = "commit" /\ pc'[w] # "commit" /\ nextSeq' = nextSeq
           /\ target[w] \in DisputeIds
           /\ events' = events \cup tx[w].log
           /\ \A v \in Workers \ {w} : Untouched(v)
           /\ \A c \in DisputeIds \ {target[w]} :
                disputes'[c] = disputes[c] /\ evidence'[c] = evidence[c]
           /\ disputes'[target[w]] # NoRow
           /\ req[w].op \in {"open", "status", "evidence"}
           /\ req[w].op = "open" =>
                /\ ~Exists(target[w])
                /\ disputes'[target[w]].status = "CHARGEBACK_RECEIVED"
                /\ evidence'[target[w]] = evidence[target[w]]
           /\ req[w].op = "status" =>
                /\ Exists(target[w]) /\ lock[w] = "update"
                /\ seen[w] = disputes[target[w]].status
                /\ CanTransition(Transitions, seen[w], req[w].to, req[w].by)
                /\ disputes'[target[w]].status = req[w].to
                /\ evidence'[target[w]] = evidence[target[w]]
           /\ req[w].op = "evidence" => Exists(target[w]) /\ disputes' = disputes
<1> DEFINE d == target[w]
<1>1. /\ pc[w] = "commit" /\ Publish(w) /\ pc'[w] # "commit" /\ nextSeq' = nextSeq
      /\ \A v \in Workers \ {w} : Untouched(v)
  BY DEF Commit, CommitAnswerLost, Release, Throw, Goto, Untouched, CoreInv, TypeOK
<1>2. /\ d \in DisputeIds /\ tx[w].row \in Row \cup {NoRow} /\ evidence[d] \in Nat
      /\ req[w] \in OpenRequest \cup StatusRequest \cup EvidenceRequest
      /\ LocksHeld(w) /\ ReadsStand(w) /\ MoveChecked(w) /\ WritesPending(w)
  BY <1>1 DEF CoreInv, TypeOK, CallsInOrder, OwnStatements
<1>3. /\ req[w].op \in {"open", "status", "evidence"}
      /\ req[w].op = "open" => req[w].caseNumber \in CaseNumbers
      /\ req[w].op = "status" => req[w].to \in Statuses
  BY <1>2 DEF OpenRequest, StatusRequest, EvidenceRequest
<1>4. /\ \A c \in DisputeIds \ {d} : disputes'[c] = disputes[c] /\ evidence'[c] = evidence[c]
      /\ tx[w].row = NoRow => disputes' = disputes
      /\ tx[w].row # NoRow => disputes'[d] = tx[w].row
      /\ tx[w].items = 0 => evidence'[d] = evidence[d]
      /\ events' = events \cup tx[w].log
  BY <1>1, <1>2 DEF Publish, CoreInv, TypeOK
<1>5. ASSUME req[w].op = "open"
      PROVE  /\ ~Exists(d) /\ tx[w].items = 0 /\ tx[w].row # NoRow
             /\ tx[w].row.status = "CHARGEBACK_RECEIVED"
  <2>1. /\ ~Exists(d) /\ tx[w].items = 0
        /\ tx[w].row = [caseNumber |-> req[w].caseNumber, status |-> "CHARGEBACK_RECEIVED",
                        closed |-> FALSE]
    BY <1>1, <1>2, <1>5 DEF WritesPending, Wrote
  <2>2. tx[w].row \in Row
    BY <1>3, <1>5, <2>1 DEF Row
  <2>3. tx[w].row # NoRow
    BY <2>2, RowsAreNotNull
  <2>4. tx[w].row.status = "CHARGEBACK_RECEIVED"
    BY <2>1
  <2> QED BY <2>1, <2>3, <2>4
<1>6. ASSUME req[w].op = "status"
      PROVE  /\ Exists(d) /\ seen[w] = disputes[d].status /\ tx[w].items = 0 /\ lock[w] = "update"
             /\ CanTransition(Transitions, seen[w], req[w].to, req[w].by)
             /\ tx[w].row # NoRow /\ tx[w].row.status = req[w].to
  <2>1. /\ Exists(d) /\ seen[w] = disputes[d].status /\ tx[w].items = 0 /\ lock[w] = "update"
        /\ CanTransition(Transitions, seen[w], req[w].to, req[w].by)
        /\ tx[w].row = Moved(disputes[d], req[w].to)
    BY <1>1, <1>2, <1>6 DEF ReadsStand, MoveChecked, WritesPending, LocksHeld, Wrote
  <2>2. tx[w].row \in Row /\ tx[w].row.status = req[w].to
    BY <1>2, <1>3, <1>6, <2>1, MovedRow DEF CoreInv, TypeOK, Exists
  <2> QED BY <2>1, <2>2, RowsAreNotNull
<1>7. ASSUME req[w].op = "evidence"
      PROVE  Exists(d) /\ tx[w].row = NoRow
  BY <1>1, <1>2, <1>7 DEF ReadsStand, WritesPending, Wrote
<1>8. disputes'[d] # NoRow
  <2>1. CASE tx[w].row = NoRow
    BY <1>3, <1>4, <1>5, <1>6, <1>7, <2>1 DEF Exists
  <2>2. CASE tx[w].row # NoRow
    BY <1>4, <2>2
  <2> QED BY <2>1, <2>2
<1>9. req[w].op = "open" =>
        /\ ~Exists(d)
        /\ disputes'[d].status = "CHARGEBACK_RECEIVED"
        /\ evidence'[d] = evidence[d]
  BY <1>4, <1>5
<1>10. req[w].op = "status" =>
         /\ Exists(d) /\ lock[w] = "update"
         /\ seen[w] = disputes[d].status
         /\ CanTransition(Transitions, seen[w], req[w].to, req[w].by)
         /\ disputes'[d].status = req[w].to
         /\ evidence'[d] = evidence[d]
  BY <1>4, <1>6
<1>11. req[w].op = "evidence" => Exists(d) /\ disputes' = disputes
  BY <1>4, <1>7
<1> QED BY <1>1, <1>2, <1>3, <1>4, <1>8, <1>9, <1>10, <1>11

\* Two transactions that are both about to report a status report it of
\* different disputes.
LEMMA StatusWritersDiffer ==
    ASSUME CoreInv, NEW v \in Workers, NEW w \in Workers, v # w,
           pc[v] = "commit", pc[w] = "commit",
           req[v].op \in {"open", "status"}, req[w].op \in {"open", "status"}
    PROVE  target[v] # target[w]
<1>1. \A x \in {v, w} : /\ Wrote(x, "open") => ~Exists(target[x])
                        /\ Wrote(x, "status") => lock[x] = "update" /\ Exists(target[x])
  BY DEF CoreInv, CallsInOrder, WritesPending, LocksHeld, ReadsStand
<1>2. CASE req[v].op = req[w].op
  BY <1>1, <1>2 DEF CoreInv, OpensDiffer, LocksExclude, Wrote
<1>3. CASE req[v].op # req[w].op
  BY <1>1, <1>3 DEF Wrote
<1> QED BY <1>2, <1>3

\* TrailExplainsStatus for one dispute.
Explained(d) ==
    /\ ~Exists(d) => StatusTrail(d) = {}
    /\ Exists(d) => \E e \in StatusTrail(d) :
                        /\ e.to = disputes[d].status
                        /\ \A f \in StatusTrail(d) : f.seq <= e.seq
    /\ \A e \in StatusTrail(d) :
        \/ /\ e.type = "DISPUTE_OPENED"
           /\ \A f \in StatusTrail(d) : f # e => e.seq < f.seq
        \/ /\ e.type = "STATUS_CHANGED"
           /\ CanTransition(Transitions, e.from, e.to, e.actorType)
           /\ Follows(e)

\* TrailExplainsStatus, dispute by dispute.
LEMMA TrailByDispute ==
    /\ TrailExplainsStatus <=> \A d \in DisputeIds : Explained(d)
    /\ TrailExplainsStatus' <=> \A d \in DisputeIds : Explained(d)'
  BY DEF TrailExplainsStatus, Explained

\* The event of a commit comes after every event its dispute has of a status.
LEMMA CommitKeepsTrail ==
    ASSUME CoreInv, TrailInv, NEW w \in Workers, Commit(w) \/ CommitAnswerLost(w)
    PROVE  TrailInv'
<1>0. PICK d \in DisputeIds : d = target[w]
  BY Committed
<1>1. /\ pc[w] = "commit" /\ pc'[w] # "commit" /\ nextSeq' = nextSeq
      /\ \A v \in Workers \ {w} : Untouched(v)
      /\ \A c \in DisputeIds \ {d} : disputes'[c] = disputes[c] /\ evidence'[c] = evidence[c]
      /\ disputes'[d] # NoRow
      /\ req[w].op \in {"open", "status", "evidence"}
  BY <1>0, Committed
<1>2. PICK e : /\ tx[w].log = {e} /\ e = Numbered(w, e.seq)
               /\ e.seq < nextSeq
               /\ \A f \in events : f.seq # e.seq
               /\ e.to # "none" => \A f \in StatusTrail(d) : f.seq < e.seq
               /\ e.to \in Fought =>
                    \E f \in events : /\ f.dispute = d /\ f.type = "EVIDENCE_ADDED"
                                      /\ f.seq < e.seq
  <2>1. PICK n : LET g == Numbered(w, n) IN
                 /\ tx[w].log = {g}
                 /\ n < nextSeq
                 /\ \A f \in events : f.seq # n
                 /\ g.to # "none" => \A f \in StatusTrail(target[w]) : f.seq < n
                 /\ g.to \in Fought =>
                        \E f \in events : /\ f.dispute = target[w]
                                          /\ f.type = "EVIDENCE_ADDED"
                                          /\ f.seq < n
    BY <1>1, PendingEvent DEF TrailInv
  <2>2. Numbered(w, n).seq = n
    BY NumberedEvent
  <2> QED BY <1>0, <2>1, <2>2
<1>3. events' = events \cup {e} /\ e \in Event /\ events \subseteq Event
  BY <1>2, Committed DEF CoreInv, TypeOK
<1>4. e.dispute = d
  BY <1>0, <1>2, NumberedEvent
<1>5. req[w].op = "open" =>
        /\ e.type = "DISPUTE_OPENED" /\ e.to = "CHARGEBACK_RECEIVED"
        /\ ~Exists(d) /\ disputes'[d].status = e.to /\ evidence'[d] = evidence[d]
  BY <1>0, <1>2, NumberedEvent, Committed
<1>6. req[w].op = "status" =>
        /\ e.type = "STATUS_CHANGED" /\ Exists(d)
        /\ e.from = disputes[d].status /\ e.to = disputes'[d].status
        /\ CanTransition(Transitions, e.from, e.to, e.actorType)
        /\ evidence'[d] = evidence[d]
  BY <1>0, <1>2, NumberedEvent, Committed
<1>7. req[w].op = "evidence" =>
        /\ e.type = "EVIDENCE_ADDED" /\ e.to = "none" /\ Exists(d) /\ disputes' = disputes
  BY <1>0, <1>2, NumberedEvent, Committed
<1>8. \A c \in DisputeIds : Exists(c) => Exists(c)'
  BY <1>1 DEF Exists
<1>9. NumbersDiffer'
  <2>1. \A f, g \in events' : f.seq = g.seq => f = g
    BY <1>2, <1>3 DEF TrailInv, NumbersDiffer
  <2>2. \A v \in Workers : pc'[v] = "commit" => v # w /\ pc[v] = "commit" /\ tx'[v] = tx[v]
    BY <1>1 DEF Untouched
  <2> QED BY <2>1, <2>2 DEF TrailInv, NumbersDiffer
<1>10. EventsRooted'
  BY <1>1, <1>2, <1>3, <1>4, <1>8 DEF TrailInv, EventsRooted, Event, Exists
<1>11. EvidenceOnRecord'
  BY <1>1, <1>3, <1>4, <1>5, <1>6, <1>7 DEF TrailInv, EvidenceOnRecord
<1>12. FoughtAfterEvidence'
  <2> SUFFICES ASSUME NEW g \in events', g.to \in Fought
               PROVE  \E f \in events' : /\ f.dispute = g.dispute /\ f.type = "EVIDENCE_ADDED"
                                         /\ f.seq < g.seq
    BY DEF FoughtAfterEvidence
  <2>1. CASE g \in events
    BY <1>3, <2>1 DEF TrailInv, FoughtAfterEvidence
  <2>2. CASE g = e
    BY <1>2, <1>3, <1>4, <2>2
  <2> QED BY <1>3, <2>1, <2>2
<1>13. ASSUME NEW c \in DisputeIds
       PROVE  StatusTrail(c)' = IF c = d /\ e.to # "none" THEN StatusTrail(c) \cup {e}
                                                          ELSE StatusTrail(c)
  BY <1>3, <1>4 DEF StatusTrail
<1>14. ASSUME NEW v \in Workers, pc'[v] = "commit"
       PROVE  EventPending(v)'
  <2>1. v # w /\ Untouched(v) /\ pc[v] = "commit"
    BY <1>1, <1>14 DEF Untouched
  <2>2. PICK g \in tx[v].log :
            /\ tx[v].log = {g}
            /\ g = [NewEvent(v) EXCEPT !.seq = g.seq]
            /\ g.seq < nextSeq
            /\ \A f \in events : f.seq # g.seq
            /\ g.to # "none" => \A f \in StatusTrail(target[v]) : f.seq < g.seq
            /\ g.to \in Fought =>
                    \E f \in events : /\ f.dispute = target[v]
                                      /\ f.type = "EVIDENCE_ADDED"
                                      /\ f.seq < g.seq
    BY <2>1 DEF TrailInv, EventPending
  <2>3. g = Numbered(v, g.seq)
    BY <2>2 DEF Numbered
  <2>4. g = Numbered(v, g.seq)'
    BY <2>1, <2>3, NumberedStands DEF Untouched
  <2>5. \A f \in events' : f.seq # g.seq
    <3>1. g.seq # e.seq
      BY <1>1, <1>2, <2>1, <2>2 DEF TrailInv, NumbersDiffer
    <3> QED BY <1>3, <2>2, <3>1
  <2>6. target[v] \in DisputeIds /\ req[v].op \in {"open", "status", "evidence"}
    BY <2>1 DEF CoreInv, CallsInOrder, OwnStatements, OpenRequest, StatusRequest, EvidenceRequest
  <2>7. g.to # "none" => StatusTrail(target[v])' = StatusTrail(target[v])
    <3> SUFFICES ASSUME g.to # "none", e.to # "none", target[v] = d PROVE FALSE
      BY <1>13, <2>1, <2>6 DEF Untouched, StatusTrail
    <3>1. req[v].op \in {"open", "status"}
      BY <2>3, <2>6, NumberedEvent
    <3>2. req[w].op \in {"open", "status"}
      BY <1>1, <1>7
    <3> QED BY <1>0, <1>1, <2>1, <3>1, <3>2, StatusWritersDiffer
  <2>8. g.to \in Fought =>
            \E f \in events' : /\ f.dispute = target'[v]
                               /\ f.type = "EVIDENCE_ADDED"
                               /\ f.seq < g.seq
    BY <1>3, <2>1, <2>2 DEF Untouched
  <2>9. g \in tx'[v].log /\ tx'[v].log = {g} /\ g.seq < nextSeq'
    BY <1>1, <2>1, <2>2 DEF Untouched
  <2>10. g.to # "none" => \A f \in StatusTrail(target[v])' : f.seq < g.seq
    BY <2>2, <2>7
  <2> QED BY <2>4, <2>5, <2>8, <2>9, <2>10 DEF EventPending, Numbered
<1>15. ASSUME NEW c \in DisputeIds, c # d \/ e.to = "none"
       PROVE  Explained(c)'
  <2>1. StatusTrail(c)' = StatusTrail(c)
    BY <1>13, <1>15
  <2>2. disputes'[c] = disputes[c]
    <3>1. CASE c # d
      BY <1>1, <3>1
    <3>2. CASE c = d
      <4>1. disputes'[d].status # "none"
        BY <1>1, CommitKeepsCore DEF CoreInv, TypeOK, Row
      <4>2. req[w].op = "evidence"
        BY <1>1, <1>5, <1>6, <1>15, <3>2, <4>1
      <4> QED BY <1>7, <4>2
    <3> QED BY <3>1, <3>2
  <2>3. \A g \in StatusTrail(c) : Follows(g) => Follows(g)'
    BY <2>1 DEF Follows, StatusTrail
  <2> QED BY <2>1, <2>2, <2>3, TrailByDispute DEF TrailInv, Explained, Exists
<1>16. ASSUME e.to # "none"
       PROVE  Explained(d)'
  <2>1. StatusTrail(d)' = StatusTrail(d) \cup {e} /\ \A f \in StatusTrail(d) : f.seq < e.seq
    BY <1>2, <1>13, <1>16
  <2>2. Explained(d)
    BY TrailByDispute DEF TrailInv
  <2>3. /\ req[w].op \in {"open", "status"} /\ e.to = disputes'[d].status
        /\ e \in Event /\ \A f \in StatusTrail(d) : f \in Event /\ f.dispute = d
    BY <1>1, <1>3, <1>5, <1>6, <1>7, <1>16 DEF StatusTrail
  <2>4. \A f \in StatusTrail(d)' : f.seq <= e.seq
    BY <2>1, <2>3 DEF Event
  <2>5. ASSUME NEW g \in StatusTrail(d), Follows(g)
        PROVE  Follows(g)'
    <3>1. PICK p \in StatusTrail(d) :
            /\ p.to = g.from /\ p.seq < g.seq
            /\ \A f \in StatusTrail(d) : f.seq <= p.seq \/ f.seq >= g.seq
      BY <2>3, <2>5 DEF Follows
    <3>2. e.seq >= g.seq
      BY <2>1, <2>3 DEF Event
    <3>3. p \in StatusTrail(d)' /\ \A f \in StatusTrail(d)' : f.seq <= p.seq \/ f.seq >= g.seq
      BY <2>1, <3>1, <3>2
    <3> QED BY <2>3, <3>1, <3>3 DEF Follows
  <2>6. req[w].op = "status" => Follows(e)'
    <3> SUFFICES ASSUME req[w].op = "status" PROVE Follows(e)'
      OBVIOUS
    <3>1. PICK p \in StatusTrail(d) :
            p.to = disputes[d].status /\ \A f \in StatusTrail(d) : f.seq <= p.seq
      BY <1>6, <2>2 DEF Explained
    <3>2. p.seq < e.seq /\ e.seq >= e.seq
      BY <2>1, <2>3 DEF Event
    <3>3. p \in StatusTrail(d)' /\ \A f \in StatusTrail(d)' : f.seq <= p.seq \/ f.seq >= e.seq
      BY <2>1, <3>1, <3>2
    <3> QED BY <1>4, <1>6, <3>1, <3>2, <3>3 DEF Follows
  <2>7. ASSUME NEW g \in StatusTrail(d)
        PROVE  \/ /\ g.type = "DISPUTE_OPENED"
                  /\ \A f \in StatusTrail(d)' : f # g => g.seq < f.seq
               \/ /\ g.type = "STATUS_CHANGED"
                  /\ CanTransition(Transitions, g.from, g.to, g.actorType)
                  /\ Follows(g)'
    BY <2>1, <2>2, <2>5, <2>7 DEF Explained
  <2>8. \/ /\ e.type = "DISPUTE_OPENED"
           /\ \A f \in StatusTrail(d)' : f # e => e.seq < f.seq
        \/ /\ e.type = "STATUS_CHANGED"
           /\ CanTransition(Transitions, e.from, e.to, e.actorType)
           /\ Follows(e)'
    <3>1. CASE req[w].op = "open"
      BY <1>5, <2>1, <2>2, <3>1 DEF Explained
    <3>2. CASE req[w].op = "status"
      BY <1>6, <2>6, <3>2
    <3> QED BY <2>3, <3>1, <3>2
  <2>9. Exists(d)'
    BY <1>1 DEF Exists
  <2> QED BY <2>1, <2>3, <2>4, <2>7, <2>8, <2>9 DEF Explained
<1>17. TrailExplainsStatus'
  BY <1>15, <1>16, TrailByDispute
<1> QED BY <1>9, <1>10, <1>11, <1>12, <1>14, <1>17 DEF TrailInv, EventPending

-----------------------------------------------------------------------------

\* Nothing is recorded at first.
LEMMA InitTrail == Init => TrailInv
  BY DEF Init, TrailInv, EventPending, NumbersDiffer, EventsRooted, EvidenceOnRecord,
         FoughtAfterEvidence, TrailExplainsStatus, StatusTrail, Exists

\* TrailInv is inductive in the states CoreInv allows.
LEMMA NextTrail == CoreInv /\ TrailInv /\ [Next]_vars => TrailInv'
<1> SUFFICES ASSUME CoreInv, TrailInv, [Next]_vars PROVE TrailInv'
  OBVIOUS
<1>0. nextSeq \in Nat /\ nextSeq >= nextSeq
  BY DEF CoreInv, TypeOK
<1>1. ASSUME NEW w \in Workers, Commit(w) \/ CommitAnswerLost(w) PROVE TrailInv'
  BY <1>1, CommitKeepsTrail
<1>2. ASSUME NEW w \in Workers, AppendEvent(w) PROVE TrailInv'
  BY <1>2, AppendKeepsTrail
<1>3. ASSUME NEW w \in Workers,
             \/ \E r \in Requests : Begin(w, r)
             \/ PrepareOpen(w) \/ InsertDispute(w) \/ LockDisputeForUpdate(w)
             \/ ValidateMove(w) \/ UpdateDisputeStatus(w) \/ FindDispute(w)
             \/ InsertEvidence(w)
             \/ Rollback(w) \/ DatabaseError(w) \/ ConnectionLost(w)
      PROVE  TrailInv'
  <2>1. UNCHANGED <<committed, nextSeq>>
    BY <1>3 DEF Begin, PrepareOpen, InsertDispute, LockDisputeForUpdate, ValidateMove,
                UpdateDisputeStatus, FindDispute, InsertEvidence, Rollback, DatabaseError,
                ConnectionLost
  <2>2. \A v \in Workers \ {w} : Untouched(v)
    BY <1>3 DEF Begin, PrepareOpen, InsertDispute, LockDisputeForUpdate, ValidateMove,
                UpdateDisputeStatus, FindDispute, InsertEvidence, Rollback, DatabaseError,
                ConnectionLost, Throw, Goto, Release, Untouched, CoreInv, TypeOK
  <2>3. pc'[w] # "commit"
    BY <1>3 DEF Begin, FirstStatement, PrepareOpen, InsertDispute, LockDisputeForUpdate,
                ValidateMove, UpdateDisputeStatus, FindDispute, InsertEvidence, Rollback,
                DatabaseError, ConnectionLost, Throw, Goto, Release, CoreInv, TypeOK
  <2>4. UNCHANGED committed /\ nextSeq' \in Nat /\ nextSeq' >= nextSeq
    BY <1>0, <2>1
  <2> QED BY <2>2, <2>3, <2>4, TrailFrame DEF Untouched
<1>4. CASE UNCHANGED vars
  <2>1. UNCHANGED committed /\ nextSeq' \in Nat /\ nextSeq' >= nextSeq
    BY <1>0, <1>4 DEF vars, committed
  <2>2. \A v \in Workers : Untouched(v)
    BY <1>4 DEF vars, Untouched
  <2> QED BY <2>1, <2>2, TrailFrame DEF Untouched
<1> QED BY <1>1, <1>2, <1>3, <1>4 DEF Next, Statement, Quiescent

\* The trail is in order whatever the callers ask and whatever fails.
THEOREM TrailHolds == Spec => []TrailInv
<1>1. Init => TrailInv BY InitTrail
<1>2. CoreInv /\ TrailInv /\ [Next]_vars => TrailInv' BY NextTrail
<1> QED BY <1>1, <1>2, CoreHolds, PTL DEF Spec

\* No case is contested in the audit trail before evidence is.
THEOREM EvidenceComesFirst == Spec => []FoughtAfterEvidence
  BY TrailHolds, PTL DEF TrailInv

\* The events of a dispute, replayed by number, explain its status.
THEOREM StatusIsExplained == Spec => []TrailExplainsStatus
  BY TrailHolds, PTL DEF TrailInv

\* A status event is committed after every status event of its dispute with a
\* lower number, so a reader of the trail misses none that is inserted later.
THEOREM TrailGrows == Spec => TrailGrowsAtItsEnd
<1> DEFINE AtItsEnd == \A e \in events' \ events, f \in events :
        e.dispute = f.dispute /\ e.to # "none" /\ f.to # "none" => f.seq < e.seq
<1>1. CoreInv /\ TrailInv /\ [Next]_vars => AtItsEnd
  <2> SUFFICES ASSUME CoreInv, TrailInv, [Next]_vars PROVE AtItsEnd
    OBVIOUS
  <2>1. ASSUME NEW w \in Workers, Commit(w) \/ CommitAnswerLost(w) PROVE AtItsEnd
    <3>1. events' = events \cup tx[w].log /\ pc[w] = "commit"
      BY <2>1, Committed
    <3>2. PICK n : /\ tx[w].log = {Numbered(w, n)}
                   /\ Numbered(w, n).to # "none" => \A f \in StatusTrail(target[w]) : f.seq < n
      BY <3>1, PendingEvent DEF TrailInv
    <3>3. Numbered(w, n).seq = n /\ Numbered(w, n).dispute = target[w]
      BY NumberedEvent
    <3> QED BY <3>1, <3>2, <3>3 DEF StatusTrail
  <2>2. ASSUME ~ \E w \in Workers : Commit(w) \/ CommitAnswerLost(w) PROVE UNCHANGED events
    BY <2>2 DEF Next, Quiescent, vars, committed, Statement, Begin, PrepareOpen, InsertDispute,
                LockDisputeForUpdate, ValidateMove, UpdateDisputeStatus, FindDispute,
                InsertEvidence, AppendEvent, Rollback, DatabaseError, ConnectionLost
  <2> QED BY <2>1, <2>2
<1> QED BY <1>1, CoreHolds, TrailHolds, PTL DEF Spec, TrailGrowsAtItsEnd

-----------------------------------------------------------------------------
(***************************************************************************)
(* What one commit shows to everybody else: a change and its event         *)
(* together, and seen from the callers one call of DisputeCase.            *)
(***************************************************************************)

\* A move that was accepted would be accepted again until it is committed: the
\* status is locked, and evidence only grows.
MoveAccepted == \A w \in Workers : pc[w] = "update" \/ Wrote(w, "status") => MoveVerdict(w) = "ok"

\* More evidence never turns an accepted move into a refused one.
LEMMA MoreEvidence ==
    ASSUME NEW from, NEW to, NEW by, NEW m \in Nat, NEW n \in Nat, m > 0 => n > 0,
           AssertTransition(Transitions, from, to, by, m) = "ok"
    PROVE  AssertTransition(Transitions, from, to, by, n) = "ok"
  BY DEF AssertTransition

\* Evidence is never taken back.
LEMMA EvidenceGrows ==
    ASSUME CoreInv, [Next]_vars, NEW d \in DisputeIds
    PROVE  evidence[d] \in Nat /\ evidence'[d] \in Nat /\ evidence'[d] >= evidence[d]
<1>1. evidence[d] \in Nat
  BY DEF CoreInv, TypeOK
<1>2. ASSUME NEW w \in Workers, Publish(w) PROVE evidence'[d] \in {evidence[d], evidence[d] + 1}
  <2>1. tx[w].items \in {0, 1}
    BY DEF CoreInv, TypeOK
  <2> QED BY <1>1, <1>2, <2>1 DEF Publish, CoreInv, TypeOK
<1>3. ASSUME ~ \E w \in Workers : Publish(w) PROVE UNCHANGED evidence
  BY <1>3 DEF Next, Quiescent, vars, committed, Statement, Begin, PrepareOpen, InsertDispute,
              LockDisputeForUpdate, ValidateMove, UpdateDisputeStatus, FindDispute,
              InsertEvidence, AppendEvent, Rollback, DatabaseError, ConnectionLost,
              Commit, CommitAnswerLost
<1> QED BY <1>1, <1>2, <1>3

\* Where an accepted move is at stake the transaction has just validated it, or
\* goes on from a statement at which it was.
LEMMA MoveKept ==
    ASSUME CoreInv, [Next]_vars, NEW v \in Workers, (pc[v] = "update" \/ Wrote(v, "status"))'
    PROVE  /\ seen'[v] = seen[v] /\ req'[v] = req[v] /\ target'[v] = target[v]
           /\ \/ pc[v] = "update" \/ Wrote(v, "status")
              \/ pc[v] = "validate" /\ MoveVerdict(v) = "ok"
<1>1. CASE Untouched(v)
  BY <1>1 DEF Untouched, Wrote
<1>2. ASSUME NEW w \in Workers, NEW r \in Requests, Begin(w, r), ~Untouched(v) PROVE FALSE
  <2>1. v = w /\ pc'[v] \in {"prepare", "lock", "find"}
    BY <1>2 DEF Begin, Untouched, FirstStatement, CoreInv, TypeOK
  <2> QED BY <2>1 DEF Wrote
<1>3. ASSUME NEW w \in Workers,
             \/ PrepareOpen(w) \/ InsertDispute(w) \/ LockDisputeForUpdate(w) \/ FindDispute(w)
             \/ InsertEvidence(w) \/ Commit(w) \/ CommitAnswerLost(w)
             \/ Rollback(w) \/ DatabaseError(w) \/ ConnectionLost(w),
             ~Untouched(v)
      PROVE  FALSE
  <2>1. v = w
    BY <1>3 DEF PrepareOpen, InsertDispute, LockDisputeForUpdate, FindDispute, InsertEvidence,
                Commit, CommitAnswerLost, Rollback, DatabaseError, ConnectionLost, Throw, Goto,
                Release, Untouched, CoreInv, TypeOK
  <2>2. pc'[w] \in {"insertDispute", "validate", "insertEvidence", "rollback", "idle"}
        \/ (pc[w] \in {"insertDispute", "insertEvidence"} /\ req' = req)
    BY <1>3 DEF PrepareOpen, InsertDispute, LockDisputeForUpdate, FindDispute, InsertEvidence,
                Commit, CommitAnswerLost, Rollback, DatabaseError, ConnectionLost, Throw, Goto,
                Release, CoreInv, TypeOK
  <2>3. pc[w] \in {"insertDispute", "insertEvidence"} =>
            req[w].op # "status" /\ pc'[w] # "update"
    BY <1>3 DEF CoreInv, CallsInOrder, OwnStatements, OpenRequest, EvidenceRequest, TypeOK,
                PrepareOpen, InsertDispute, LockDisputeForUpdate, FindDispute, InsertEvidence,
                Commit, CommitAnswerLost, Rollback, DatabaseError, ConnectionLost, Throw, Goto,
                Release
  <2> QED BY <2>1, <2>2, <2>3 DEF Wrote
<1>4. ASSUME NEW w \in Workers, ValidateMove(w) \/ UpdateDisputeStatus(w) \/ AppendEvent(w),
             ~Untouched(v)
      PROVE  /\ seen'[v] = seen[v] /\ req'[v] = req[v] /\ target'[v] = target[v]
             /\ \/ pc[v] = "update" \/ Wrote(v, "status")
                \/ pc[v] = "validate" /\ MoveVerdict(v) = "ok"
  <2>1. v = w /\ UNCHANGED <<seen, req, target>>
    BY <1>4 DEF ValidateMove, UpdateDisputeStatus, AppendEvent, Throw, Goto, Untouched,
                CoreInv, TypeOK
  <2>2. CASE ValidateMove(w)
    <3>1. MoveVerdict(w) = "ok"
      BY <2>1, <2>2 DEF ValidateMove, Throw, Goto, Wrote, CoreInv, TypeOK
    <3> QED BY <2>1, <2>2, <3>1 DEF ValidateMove
  <2>3. CASE UpdateDisputeStatus(w)
    BY <2>1, <2>3 DEF UpdateDisputeStatus
  <2>4. CASE AppendEvent(w)
    BY <2>1, <2>4 DEF AppendEvent, Throw, Goto, Wrote, CoreInv, TypeOK
  <2> QED BY <1>4, <2>1, <2>2, <2>3, <2>4
<1>5. CASE UNCHANGED vars
  BY <1>1, <1>5 DEF vars, Untouched
<1> QED BY <1>1, <1>2, <1>3, <1>4, <1>5 DEF Next, Statement, Quiescent

\* A move is accepted until it is committed.
LEMMA AcceptedHolds == Spec => []MoveAccepted
<1>1. Init => MoveAccepted
  BY DEF Init, MoveAccepted, Wrote
<1>2. CoreInv /\ MoveAccepted /\ [Next]_vars => MoveAccepted'
  <2> SUFFICES ASSUME CoreInv, MoveAccepted, [Next]_vars,
                      NEW v \in Workers, (pc[v] = "update" \/ Wrote(v, "status"))'
               PROVE  MoveVerdict(v)' = "ok"
    BY DEF MoveAccepted
  <2>1. seen'[v] = seen[v] /\ req'[v] = req[v] /\ target'[v] = target[v]
    BY MoveKept
  <2>2. /\ pc[v] \in {"update", "validate"} \/ Wrote(v, "status")
        /\ AssertTransition(Transitions, seen[v], req[v].to, req[v].by, evidence[target[v]]) = "ok"
    BY MoveKept DEF MoveAccepted, MoveVerdict
  <2>3. target[v] \in DisputeIds
    BY <2>2 DEF CoreInv, CallsInOrder, OwnStatements, Wrote
  <2>4. /\ evidence[target[v]] \in Nat /\ evidence'[target[v]] \in Nat
        /\ evidence[target[v]] > 0 => evidence'[target[v]] > 0
    BY <2>3, EvidenceGrows
  <2>5. AssertTransition(Transitions, seen[v], req[v].to, req[v].by, evidence'[target[v]]) = "ok"
    BY <2>2, <2>4, MoreEvidence
  <2> QED BY <2>1, <2>5 DEF MoveVerdict, AssertTransition, CanTransition, FindTransition
<1> QED BY <1>1, <1>2, CoreHolds, PTL DEF Spec

-----------------------------------------------------------------------------
\* The commit of w shows a change of dispute d and adds event e of it.
Shows(w, d, e) ==
    /\ d = target[w] /\ e.dispute = d /\ e \notin events /\ events' = events \cup {e}
    /\ \A c \in DisputeIds \ {d} : disputes'[c] = disputes[c] /\ evidence'[c] = evidence[c]
    /\ \/ /\ req[w].op = "open"
          /\ e.type = "DISPUTE_OPENED" /\ e.from = "none" /\ e.to = "CHARGEBACK_RECEIVED"
          /\ ~Exists(d) /\ req[w].caseNumber \in CaseNumbers /\ ~CaseTaken(req[w].caseNumber)
          /\ disputes'[d] = [caseNumber |-> req[w].caseNumber,
                             status |-> "CHARGEBACK_RECEIVED", closed |-> FALSE]
          /\ evidence'[d] = evidence[d]
       \/ /\ req[w].op = "status" /\ Wrote(w, "status")
          /\ e.type = "STATUS_CHANGED" /\ e.from = disputes[d].status /\ e.to = req[w].to
          /\ Exists(d) /\ seen[w] = disputes[d].status
          /\ CanTransition(Transitions, e.from, e.to, req[w].by)
          /\ disputes'[d] = Moved(disputes[d], req[w].to)
          /\ evidence'[d] = evidence[d]
       \/ /\ req[w].op = "evidence"
          /\ e.type = "EVIDENCE_ADDED" /\ e.from = "none" /\ e.to = "none"
          /\ Exists(d) /\ disputes' = disputes /\ evidence'[d] = evidence[d] + 1

\* A commit adds one event, and changes what the event is about and nothing else.
LEMMA OneCommit ==
    ASSUME CoreInv, TrailInv, NEW w \in Workers, Commit(w) \/ CommitAnswerLost(w)
    PROVE  \E d \in DisputeIds, e \in Event : Shows(w, d, e)
<1>1. PICK d \in DisputeIds : d = target[w]
  BY Committed
<1>2. /\ pc[w] = "commit" /\ events' = events \cup tx[w].log /\ Publish(w)
      /\ \A c \in DisputeIds \ {d} : disputes'[c] = disputes[c] /\ evidence'[c] = evidence[c]
      /\ req[w].op \in {"open", "status", "evidence"}
  BY <1>1, Committed DEF Commit, CommitAnswerLost
<1>3. PICK n : tx[w].log = {Numbered(w, n)} /\ \A f \in events : f.seq # n
  BY <1>2, PendingEvent DEF TrailInv
<1>4. PICK e : e = Numbered(w, n)
  OBVIOUS
<1>5. e \in Event /\ e.dispute = d /\ e \notin events /\ events' = events \cup {e}
  <2>1. e.seq = n /\ e.dispute = d
    BY <1>1, <1>4, NumberedEvent
  <2>2. e \in Event
    BY <1>3, <1>4 DEF CoreInv, TypeOK
  <2> QED BY <1>2, <1>3, <1>4, <2>1, <2>2
<1>6. /\ tx[w].row \in Row \cup {NoRow} /\ evidence[d] \in Nat
      /\ req[w] \in OpenRequest \cup StatusRequest \cup EvidenceRequest
      /\ ReadsStand(w) /\ WritesPending(w)
      /\ req[w].op = "open" => req[w].caseNumber \in CaseNumbers
      /\ req[w].op = "status" => req[w].to \in Statuses
  BY <1>1, <1>2 DEF CoreInv, TypeOK, CallsInOrder, OwnStatements, OpenRequest, StatusRequest,
                    EvidenceRequest
<1>7. /\ tx[w].row = NoRow => disputes' = disputes
      /\ tx[w].row # NoRow => disputes'[d] = tx[w].row
      /\ evidence'[d] = evidence[d] + tx[w].items
  BY <1>1, <1>2 DEF Publish, CoreInv, TypeOK
<1>8. CASE req[w].op = "open"
  <2>1. /\ ~Exists(d) /\ ~CaseTaken(req[w].caseNumber) /\ tx[w].items = 0
        /\ tx[w].row = [caseNumber |-> req[w].caseNumber, status |-> "CHARGEBACK_RECEIVED",
                        closed |-> FALSE]
    BY <1>1, <1>2, <1>6, <1>8 DEF WritesPending, Wrote
  <2>2. tx[w].row # NoRow
    <3>1. tx[w].row \in Row
      BY <1>6, <1>8, <2>1 DEF Row
    <3> QED BY <3>1, RowsAreNotNull
  <2>3. e.type = "DISPUTE_OPENED" /\ e.to = "CHARGEBACK_RECEIVED" /\ e.from = "none"
    BY <1>4, <1>8 DEF Numbered, NewEvent
  <2>4. evidence'[d] = evidence[d]
    BY <1>6, <1>7, <2>1
  <2> QED BY <1>1, <1>2, <1>5, <1>6, <1>7, <1>8, <2>1, <2>2, <2>3, <2>4 DEF Shows
<1>9. CASE req[w].op = "status"
  <2>1. /\ Exists(d) /\ seen[w] = disputes[d].status /\ tx[w].items = 0
        /\ CanTransition(Transitions, seen[w], req[w].to, req[w].by)
        /\ tx[w].row = Moved(disputes[d], req[w].to)
    BY <1>1, <1>2, <1>6, <1>9, Committed DEF WritesPending, Wrote
  <2>2. tx[w].row # NoRow
    <3>1. disputes[d] \in Row
      BY <1>1, <2>1 DEF CoreInv, TypeOK, Exists
    <3> QED BY <1>6, <1>9, <2>1, <3>1, MovedRow, RowsAreNotNull
  <2>3. e.type = "STATUS_CHANGED" /\ e.to = req[w].to /\ e.from = seen[w]
    BY <1>4, <1>9, NumberedEvent
  <2>4. evidence'[d] = evidence[d]
    BY <1>6, <1>7, <2>1
  <2> QED BY <1>1, <1>2, <1>5, <1>7, <1>9, <2>1, <2>2, <2>3, <2>4 DEF Shows, Wrote
<1>10. CASE req[w].op = "evidence"
  <2>1. Exists(d) /\ tx[w].row = NoRow /\ tx[w].items = 1
    BY <1>1, <1>2, <1>6, <1>10 DEF ReadsStand, WritesPending, Wrote
  <2>2. e.type = "EVIDENCE_ADDED" /\ e.to = "none" /\ e.from = "none"
    BY <1>4, <1>10 DEF Numbered, NewEvent
  <2> QED BY <1>1, <1>2, <1>5, <1>7, <1>10, <2>1, <2>2 DEF Shows
<1> QED BY <1>2, <1>8, <1>9, <1>10

\* Every other step shows nothing.
LEMMA NothingCommitted ==
    ASSUME [Next]_vars, ~ \E w \in Workers : Commit(w) \/ CommitAnswerLost(w)
    PROVE  UNCHANGED <<disputes, evidence, events>>
  BY DEF Next, Quiescent, vars, committed, Statement, Begin, PrepareOpen, InsertDispute,
         LockDisputeForUpdate, ValidateMove, UpdateDisputeStatus, FindDispute,
         InsertEvidence, AppendEvent, Rollback, DatabaseError, ConnectionLost

\* What NeitherAlone says of one dispute: new are the events it got, added the
\* items.
Accounted(new, from, to, added) ==
    /\ to # from <=> \E e \in new : e.from = from /\ e.to = to
    /\ added = Cardinality({e \in new : e.type = "EVIDENCE_ADDED"})
    /\ Cardinality(new) = (IF to # from THEN 1 ELSE 0) + added

ChangeWithEvent(c) ==
    Accounted({e \in events' \ events : e.dispute = c}, disputes[c].status,
              disputes'[c].status, evidence'[c] - evidence[c])

\* No event, no change: nothing is left to account for.
LEMMA NothingToAccount == \A s : Accounted({}, s, s, 0)
<1>1. {e \in {} : e.type = "EVIDENCE_ADDED"} = {}
  OBVIOUS
<1> QED BY <1>1, FS_EmptySet DEF Accounted

\* One event of a move accounts for that move.
LEMMA MoveAccounted ==
    ASSUME NEW e, e.type # "EVIDENCE_ADDED", e.from # e.to
    PROVE  Accounted({e}, e.from, e.to, 0)
<1>1. {f \in {e} : f.type = "EVIDENCE_ADDED"} = {}
  OBVIOUS
<1>2. Cardinality({e}) = 1 /\ Cardinality({}) = 0
  BY FS_EmptySet, FS_Singleton
<1> QED BY <1>1, <1>2 DEF Accounted

\* One event of an item accounts for that item, and is no move.
LEMMA ItemAccounted ==
    ASSUME NEW e, NEW s, e.type = "EVIDENCE_ADDED", e.from # s
    PROVE  Accounted({e}, s, s, 1)
<1>1. {f \in {e} : f.type = "EVIDENCE_ADDED"} = {e}
  OBVIOUS
<1>2. Cardinality({e}) = 1
  BY FS_Singleton
<1>3. ~ \E f \in {e} : f.from = s /\ f.to = s
  OBVIOUS
<1>4. 1 = Cardinality({f \in {e} : f.type = "EVIDENCE_ADDED"})
  BY <1>1, <1>2
<1>5. Cardinality({e}) = 0 + 1
  BY <1>2
<1> QED BY <1>3, <1>4, <1>5 DEF Accounted

\* Every step accounts for every dispute.
LEMMA StepWithEvent ==
    ASSUME CoreInv, TrailInv, [Next]_vars, NEW c \in DisputeIds
    PROVE  ChangeWithEvent(c)
<1>1. evidence[c] \in Nat /\ evidence[c] - evidence[c] = 0
  BY DEF CoreInv, TypeOK
<1>2. ASSUME disputes'[c] = disputes[c], evidence'[c] = evidence[c],
             {e \in events' \ events : e.dispute = c} = {}
      PROVE  ChangeWithEvent(c)
  BY <1>1, <1>2, NothingToAccount DEF ChangeWithEvent
<1>3. CASE ~ \E w \in Workers : Commit(w) \/ CommitAnswerLost(w)
  BY <1>2, <1>3, NothingCommitted
<1>4. ASSUME NEW w \in Workers, Commit(w) \/ CommitAnswerLost(w)
      PROVE  ChangeWithEvent(c)
  <2>1. PICK d \in DisputeIds, e \in Event : Shows(w, d, e)
    BY <1>4, OneCommit
  <2>2. CASE c # d
    BY <1>2, <2>1, <2>2 DEF Shows
  <2>3. ASSUME c = d, e.type # "EVIDENCE_ADDED", evidence'[d] = evidence[d],
               e.from = disputes[d].status, e.to = disputes'[d].status,
               disputes'[d].status # disputes[d].status
        PROVE  ChangeWithEvent(c)
    <3>1. {f \in events' \ events : f.dispute = c} = {e}
      BY <2>1, <2>3 DEF Shows
    <3>2. evidence'[c] - evidence[c] = 0
      BY <1>1, <2>3
    <3> QED BY <2>3, <3>1, <3>2, MoveAccounted DEF ChangeWithEvent
  <2>4. CASE c = d /\ req[w].op = "open"
    <3>1. disputes[d].status = "none" /\ disputes'[d].status = "CHARGEBACK_RECEIVED"
      BY <2>1, <2>4 DEF Shows, Exists, NoRow
    <3> QED BY <2>1, <2>3, <2>4, <3>1 DEF Shows
  <2>5. CASE c = d /\ req[w].op = "status"
    <3>1. disputes[d] \in Row /\ req[w].to \in Statuses
      <4>1. req[w].to \in Statuses
        BY <2>1, <2>5 DEF Shows, Wrote, CoreInv, CallsInOrder, OwnStatements, OpenRequest,
                          StatusRequest, EvidenceRequest
      <4> QED BY <2>1, <2>5, <4>1 DEF Shows, Exists, CoreInv, TypeOK
    <3>2. disputes'[d].status = e.to
      BY <2>1, <2>5, <3>1, MovedRow DEF Shows
    <3>3. e.to # e.from
      BY <2>1, <2>5 DEF Shows, CanTransition, FindTransition
    <3> QED BY <2>1, <2>3, <2>5, <3>2, <3>3 DEF Shows
  <2>6. CASE c = d /\ req[w].op = "evidence"
    <3>1. {f \in events' \ events : f.dispute = c} = {e}
      BY <2>1, <2>6 DEF Shows
    <3>2. disputes[d].status # "none" /\ disputes' = disputes
      BY <2>1, <2>6 DEF Shows, Exists, CoreInv, TypeOK, Row
    <3>3. evidence'[c] - evidence[c] = 1
      BY <1>1, <2>1, <2>6 DEF Shows
    <3> QED BY <2>1, <2>6, <3>1, <3>2, <3>3, ItemAccounted DEF Shows, ChangeWithEvent
  <2> QED BY <2>1, <2>2, <2>4, <2>5, <2>6 DEF Shows
<1> QED BY <1>3, <1>4

\* A status change and its event, an item and its event: neither comes alone.
THEOREM ChangesComeWithTheirEvents == Spec => NeitherAlone
<1> DEFINE Together ==
        \A d \in DisputeIds :
            LET new == {e \in events' \ events : e.dispute = d}
                moved == disputes'[d].status # disputes[d].status
                added == evidence'[d] - evidence[d]
            IN /\ moved <=> \E e \in new : /\ e.from = disputes[d].status
                                           /\ e.to = disputes'[d].status
               /\ added = Cardinality({e \in new : e.type = "EVIDENCE_ADDED"})
               /\ Cardinality(new) = (IF moved THEN 1 ELSE 0) + added
<1>1. CoreInv /\ TrailInv /\ [Next]_vars => Together
  BY StepWithEvent DEF ChangeWithEvent, Accounted
<1> QED BY <1>1, CoreHolds, TrailHolds, PTL DEF Spec, NeitherAlone
-----------------------------------------------------------------------------
\* What caseView makes of the rows D and the items E.
ViewOf(D, E) ==
    [c \in CaseNumbers |->
        IF \E d \in DisputeIds : D[d] # NoRow /\ D[d].caseNumber = c
        THEN LET d == CHOOSE d \in DisputeIds : D[d] # NoRow /\ D[d].caseNumber = c
             IN [status |-> D[d].status, evidence |-> E[d] > 0]
        ELSE [status |-> "none", evidence |-> FALSE]]

\* caseView now and after the step, as a function of rows and items.
LEMMA ViewIs ==
    caseView = ViewOf(disputes, evidence) /\ caseView' = ViewOf(disputes', evidence')
  BY DEF caseView, ViewOf, HasNumber, Exists

\* The view of a number is that of its dispute, if there is one.
LEMMA ViewAt ==
    ASSUME NEW D, NEW E, NEW d \in DisputeIds, NEW c \in CaseNumbers,
           D[d] # NoRow, D[d].caseNumber = c,
           \A b \in DisputeIds : D[b] # NoRow /\ D[b].caseNumber = c => b = d
    PROVE  ViewOf(D, E)[c] = [status |-> D[d].status, evidence |-> E[d] > 0]
<1>1. (CHOOSE b \in DisputeIds : D[b] # NoRow /\ D[b].caseNumber = c) = d
  OBVIOUS
<1> QED BY <1>1 DEF ViewOf

\* A number without a dispute looks like a case that was never opened.
LEMMA ViewNone ==
    ASSUME NEW D, NEW E, NEW c \in CaseNumbers,
           ~ \E b \in DisputeIds : D[b] # NoRow /\ D[b].caseNumber = c
    PROVE  ViewOf(D, E)[c] = [status |-> "none", evidence |-> FALSE]
  BY DEF ViewOf

\* A commit shows in the view of one number.
LEMMA OthersLookTheSame ==
    ASSUME CaseNumberUnique, CaseNumberUnique', NEW d \in DisputeIds, NEW c \in CaseNumbers,
           \A b \in DisputeIds \ {d} : disputes'[b] = disputes[b] /\ evidence'[b] = evidence[b],
           disputes'[d].caseNumber = c, Exists(d) => disputes[d].caseNumber = c,
           NEW n \in CaseNumbers, n # c
    PROVE  caseView'[n] = caseView[n]
<1>1. CASE \E b \in DisputeIds : HasNumber(b, n)
  <2>1. PICK b \in DisputeIds : HasNumber(b, n)
    BY <1>1
  <2>2. b # d /\ disputes'[b] = disputes[b] /\ evidence'[b] = evidence[b]
    BY <2>1 DEF HasNumber
  <2>3. /\ \A a \in DisputeIds : disputes[a] # NoRow /\ disputes[a].caseNumber = n => a = b
        /\ \A a \in DisputeIds : disputes'[a] # NoRow /\ disputes'[a].caseNumber = n => a = b
    BY <2>1, <2>2 DEF HasNumber, CaseNumberUnique, Exists
  <2>4. /\ caseView[n] = [status |-> disputes[b].status, evidence |-> evidence[b] > 0]
        /\ caseView'[n] = [status |-> disputes'[b].status, evidence |-> evidence'[b] > 0]
    BY <2>1, <2>2, <2>3, ViewIs, ViewAt DEF HasNumber, Exists
  <2> QED BY <2>2, <2>4
<1>2. CASE ~ \E b \in DisputeIds : HasNumber(b, n)
  <2>1. /\ ~ \E b \in DisputeIds : disputes[b] # NoRow /\ disputes[b].caseNumber = n
        /\ ~ \E b \in DisputeIds : disputes'[b] # NoRow /\ disputes'[b].caseNumber = n
    BY <1>2 DEF HasNumber, Exists
  <2> QED BY <2>1, ViewIs, ViewNone
<1> QED BY <1>1, <1>2

\* The view of a dispute's number, before and after a step.
LEMMA ViewOfDispute ==
    ASSUME CaseNumberUnique, CaseNumberUnique', NEW d \in DisputeIds, NEW c \in CaseNumbers
    PROVE  /\ HasNumber(d, c) =>
                caseView[c] = [status |-> disputes[d].status, evidence |-> evidence[d] > 0]
           /\ HasNumber(d, c)' =>
                caseView'[c] = [status |-> disputes'[d].status, evidence |-> evidence'[d] > 0]
           /\ ~CaseTaken(c) => caseView[c] = [status |-> "none", evidence |-> FALSE]
<1>1. /\ HasNumber(d, c) =>
            \A b \in DisputeIds : disputes[b] # NoRow /\ disputes[b].caseNumber = c => b = d
      /\ HasNumber(d, c)' =>
            \A b \in DisputeIds : disputes'[b] # NoRow /\ disputes'[b].caseNumber = c => b = d
  BY DEF CaseNumberUnique, HasNumber, Exists
<1>2. HasNumber(d, c) =>
            caseView[c] = [status |-> disputes[d].status, evidence |-> evidence[d] > 0]
  BY <1>1, ViewIs, ViewAt DEF HasNumber, Exists
<1>3. HasNumber(d, c)' =>
            caseView'[c] = [status |-> disputes'[d].status, evidence |-> evidence'[d] > 0]
  BY <1>1, ViewIs, ViewAt DEF HasNumber, Exists
<1>4. ~CaseTaken(c) => caseView[c] = [status |-> "none", evidence |-> FALSE]
  BY ViewIs, ViewNone DEF CaseTaken, Exists
<1> QED BY <1>2, <1>3, <1>4

\* One commit is one call of DisputeCase.
LEMMA CommitIsACall ==
    ASSUME CoreInv, TrailInv, MoveAccepted, CoreInv', NEW w \in Workers,
           Commit(w) \/ CommitAnswerLost(w)
    PROVE  Calls!NextCase
<1>1. PICK d \in DisputeIds, e \in Event : Shows(w, d, e)
  BY OneCommit
<1>2. /\ CaseNumberUnique /\ CaseNumberUnique' /\ evidence[d] \in Nat
      /\ Exists(d) => disputes[d] \in Row
      /\ ~Exists(d) => evidence[d] = 0
  <2>1. CaseNumberUnique /\ CaseNumberUnique'
    BY DEF CoreInv
  <2>2. evidence[d] \in Nat /\ (Exists(d) => disputes[d] \in Row)
    BY DEF CoreInv, TypeOK, Exists
  <2>3. evidence[d] > 0 => Exists(d)
    BY DEF TrailInv, EvidenceOnRecord, EventsRooted
  <2> QED BY <2>1, <2>2, <2>3
<1>4. /\ caseView = [n \in CaseNumbers |-> caseView[n]]
      /\ caseView' = [n \in CaseNumbers |-> caseView'[n]]
  BY DEF caseView
<1>5. CASE req[w].op = "open"
  <2>1. PICK c \in CaseNumbers : c = req[w].caseNumber
    BY <1>1, <1>5 DEF Shows
  <2>2. /\ ~CaseTaken(c) /\ ~Exists(d) /\ disputes'[d].caseNumber = c
        /\ disputes'[d].status = "CHARGEBACK_RECEIVED" /\ evidence'[d] = evidence[d]
        /\ disputes'[d] # NoRow
    BY <1>1, <1>2, <1>5, <2>1, Committed DEF Shows
  <2>3. /\ caseView[c] = [status |-> "none", evidence |-> evidence[d] > 0]
        /\ caseView'[c] = [status |-> "CHARGEBACK_RECEIVED", evidence |-> evidence[d] > 0]
    <3>1. caseView'[c] = [status |-> disputes'[d].status, evidence |-> evidence'[d] > 0]
      BY <1>2, <2>2, ViewOfDispute DEF HasNumber, Exists
    <3>2. caseView[c] = [status |-> "none", evidence |-> FALSE]
      BY <1>2, <2>2, ViewOfDispute
    <3>3. (evidence[d] > 0) = FALSE
      BY <1>2, <2>2
    <3> QED BY <2>2, <3>1, <3>2, <3>3
  <2>4. \A n \in CaseNumbers \ {c} : caseView'[n] = caseView[n]
    BY <1>1, <1>2, <2>2, OthersLookTheSame DEF Shows
  <2>5. caseView' = [caseView EXCEPT ![c].status = "CHARGEBACK_RECEIVED"]
    BY <1>4, <2>3, <2>4
  <2>6. Calls!Open(c)
    BY <2>3, <2>5 DEF Calls!Open, Calls!Opened
  <2> QED BY <2>6 DEF Calls!NextCase
<1>6. CASE req[w].op = "status"
  <2>1. PICK c \in CaseNumbers : c = disputes[d].caseNumber
    BY <1>1, <1>2, <1>6 DEF Shows, Row
  <2>2. /\ Exists(d) /\ Wrote(w, "status") /\ seen[w] = disputes[d].status /\ d = target[w]
        /\ CanTransition(Transitions, disputes[d].status, req[w].to, req[w].by)
        /\ disputes'[d] = Moved(disputes[d], req[w].to) /\ evidence'[d] = evidence[d]
        /\ disputes'[d] # NoRow /\ disputes[d] \in Row
    BY <1>1, <1>2, <1>6, Committed DEF Shows
  <2>3. req[w].to \in Statuses
    BY <1>6, <2>2 DEF Wrote, CoreInv, CallsInOrder, OwnStatements, OpenRequest, StatusRequest,
                      EvidenceRequest
  <2>4. disputes'[d].caseNumber = c /\ disputes'[d].status = req[w].to
    BY <2>1, <2>2, <2>3, MovedRow
  <2>5. /\ caseView[c] = [status |-> disputes[d].status, evidence |-> evidence[d] > 0]
        /\ caseView'[c] = [status |-> req[w].to, evidence |-> evidence[d] > 0]
    BY <1>2, <2>1, <2>2, <2>4, ViewOfDispute DEF HasNumber, Exists
  <2>6. \A n \in CaseNumbers \ {c} : caseView'[n] = caseView[n]
    BY <1>1, <1>2, <2>1, <2>2, <2>4, OthersLookTheSame DEF Shows
  <2>7. caseView' = [caseView EXCEPT ![c].status = req[w].to]
    BY <1>4, <2>5, <2>6
  <2>8. Calls!MoveVerdict(c, req[w].to, req[w].by) = "ok"
    <3>1. AssertTransition(Transitions, disputes[d].status, req[w].to, req[w].by,
                           evidence[d]) = "ok"
      BY <2>2 DEF MoveAccepted, MoveVerdict
    <3>2. AssertTransition(Transitions, disputes[d].status, req[w].to, req[w].by,
                           IF evidence[d] > 0 THEN 1 ELSE 0) = "ok"
      BY <1>2, <3>1, MoreEvidence
    <3> QED BY <2>5, <3>2 DEF Calls!MoveVerdict, Calls!AssertTransition, Calls!CanTransition,
                              Calls!FindTransition, AssertTransition, CanTransition, FindTransition
  <2>9. c \in Calls!Opened
    BY <2>2, <2>5 DEF Calls!Opened, Row
  <2>10. PICK t \in Transitions : t.to = req[w].to /\ t.triggeredBy = req[w].by
    BY <2>2 DEF CanTransition, FindTransition
  <2>11. Calls!ChangeStatus(c, t.to, t.triggeredBy)
    BY <2>7, <2>8, <2>9, <2>10 DEF Calls!ChangeStatus
  <2> QED BY <2>11 DEF Calls!NextCase
<1>7. CASE req[w].op = "evidence"
  <2>1. /\ Exists(d) /\ disputes' = disputes /\ evidence'[d] > 0 /\ disputes[d] \in Row
    BY <1>1, <1>2, <1>7 DEF Shows
  <2>2. PICK c \in CaseNumbers : c = disputes[d].caseNumber
    BY <2>1 DEF Row
  <2>3. /\ caseView[c] = [status |-> disputes[d].status, evidence |-> evidence[d] > 0]
        /\ caseView'[c] = [status |-> disputes[d].status, evidence |-> TRUE]
    BY <1>2, <2>1, <2>2, ViewOfDispute DEF HasNumber, Exists
  <2>4. \A n \in CaseNumbers \ {c} : caseView'[n] = caseView[n]
    BY <1>1, <1>2, <2>1, <2>2, OthersLookTheSame DEF Shows
  <2>5. caseView' = [caseView EXCEPT ![c].evidence = TRUE]
    BY <1>4, <2>3, <2>4
  <2>6. c \in Calls!Opened
    BY <2>1, <2>3 DEF Calls!Opened, Row
  <2>7. Calls!AddEvidence(c)
    BY <2>5, <2>6 DEF Calls!AddEvidence
  <2> QED BY <2>7 DEF Calls!NextCase
<1> QED BY <1>1, <1>5, <1>6, <1>7 DEF Shows

\* The transactions, however their statements interleave and fail, are to the
\* callers what DisputeCase says: indivisible calls, refused or done.
THEOREM RefinesDisputeCase == Spec => ImplementsDisputeCase
<1>1. Init => Calls!InitCases
  BY ViewIs, ViewNone DEF Init, Calls!InitCases, Calls!NoCase, caseView, HasNumber, Exists
<1>2. CoreInv /\ TrailInv /\ MoveAccepted /\ CoreInv' /\ [Next]_vars => [Calls!NextCase]_caseView
  <2> SUFFICES ASSUME CoreInv, TrailInv, MoveAccepted, CoreInv', [Next]_vars
               PROVE  Calls!NextCase \/ UNCHANGED caseView
    OBVIOUS
  <2>1. CASE \E w \in Workers : Commit(w) \/ CommitAnswerLost(w)
    BY <2>1, CommitIsACall
  <2>2. CASE ~ \E w \in Workers : Commit(w) \/ CommitAnswerLost(w)
    BY <2>2, NothingCommitted, ViewIs
  <2> QED BY <2>1, <2>2
<1> QED BY <1>1, <1>2, CoreHolds, TrailHolds, AcceptedHolds, PTL
        DEF Spec, ImplementsDisputeCase, Calls!CaseSpec
=============================================================================
