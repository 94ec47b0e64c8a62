-------------------------- MODULE CaseReaderProofs --------------------------
(***************************************************************************)
(* Proofs about the answers of CaseReader.  They rest on the audit trail   *)
(* (TrailInv): what a request read stays in the trail, and the trail ends  *)
(* at the status of the case whenever a request reads that.                *)
(***************************************************************************)
EXTENDS CaseReader, DisputeTrailProofs

USE NullsAssumption, ActorsAssumption, RequestsAssumption, StatusesAssumption

\* A request on its way, with what it may have read.
GetRequest ==
    [route : {"case", "evidence-requirements"}, dispute : DisputeIds, todo : SUBSET CaseReads,
     status : Statuses \cup {"none"}, trail : SUBSET Event, items : Nat]

ReaderTypeOK ==
    /\ get \in [Readers -> GetRequest \cup {NoGet}]
    /\ known \in [Readers -> [DisputeIds -> Nat]]

\* What a client was told last is still in the trail.
KnownOnRecord(r) ==
    \A d \in DisputeIds :
        known[r][d] = 0 \/ \E f \in StatusTrail(d) : f.seq = known[r][d]

\* A set of events with one that led to the status the request of r has read,
\* not older than what its client was told before.
Covers(r, trail) ==
    \E e \in trail : e.to = get[r].status /\ known[r][get[r].dispute] <= e.seq

\* The request has begun to read.
HasRead(r, table) == get[r] # NoGet /\ table \notin get[r].todo

\* What the request of r has read so far fits together, and fits what is
\* committed by now.
ReadsFit(r) ==
    LET g == get[r] IN
    /\ HasRead(r, "dispute") =>
        /\ Exists(g.dispute)
        /\ Covers(r, StatusTrail(g.dispute))
        /\ g.status \in Fought => evidence[g.dispute] > 0
    /\ HasRead(r, "events") /\ g.route = "case" =>
        /\ HasRead(r, "dispute")
        /\ g.trail \subseteq StatusTrail(g.dispute)
        /\ Covers(r, g.trail)
        /\ \E e \in g.trail : \A f \in g.trail : f.seq <= e.seq
    /\ g.route # "case" \/ "events" \in g.todo => g.trail = {}
    /\ g.route # "case" => "events" \notin g.todo
    /\ HasRead(r, "evidence") =>
        /\ HasRead(r, "dispute")
        /\ g.status \in Fought => g.items > 0
        /\ g.items > 0 => evidence[g.dispute] > 0

ReaderInv ==
    /\ ReaderTypeOK
    /\ \A r \in Readers : KnownOnRecord(r) /\ ReadsFit(r)
-----------------------------------------------------------------------------
\* What is on record stays: events, disputes and evidence are never removed.
RecordGrows ==
    /\ events \subseteq events'
    /\ \A d \in DisputeIds :
        /\ Exists(d) => Exists(d)'
        /\ evidence[d] > 0 => evidence'[d] > 0

\* No step of the service removes anything.
LEMMA ServiceGrows ==
    ASSUME CoreInv, [Next]_vars
    PROVE  RecordGrows
<1>1. \A d \in DisputeIds : evidence[d] > 0 => evidence'[d] > 0
  <2> SUFFICES ASSUME NEW d \in DisputeIds PROVE evidence[d] > 0 => evidence'[d] > 0
    OBVIOUS
  <2> QED BY EvidenceGrows
<1>2. ASSUME NEW w \in Workers, Publish(w)
      PROVE  events \subseteq events' /\ \A d \in DisputeIds : Exists(d) => Exists(d)'
  BY <1>2 DEF Publish, CoreInv, TypeOK, Exists
<1>3. ASSUME ~ \E w \in Workers : Publish(w) PROVE UNCHANGED <<events, disputes>>
  BY <1>3 DEF Next, Quiescent, vars, committed, Statement, Begin, PrepareOpen, InsertDispute,
              LockDisputeForUpdate, ValidateMove, UpdateDisputeStatus, FindDispute,
              InsertEvidence, AppendEvent, Rollback, DatabaseError, ConnectionLost,
              Commit, CommitAnswerLost
<1> QED BY <1>1, <1>2, <1>3 DEF RecordGrows, Exists

\* Neither does a request that reads.
LEMMA ReadersGrow ==
    UNCHANGED vars => RecordGrows
BY DEF RecordGrows, vars, committed, Exists

\* The trail of a case only gets longer.
LEMMA RecordOfCase ==
    ASSUME RecordGrows
    PROVE  \A d \in DisputeIds : StatusTrail(d) \subseteq StatusTrail(d)'
BY DEF RecordGrows, StatusTrail

\* A request that makes no step keeps what it has.
LEMMA OthersFit ==
    ASSUME ReaderInv, RecordGrows, NEW r \in Readers,
           get'[r] = get[r], known'[r] = known[r]
    PROVE  KnownOnRecord(r)' /\ ReadsFit(r)'
<1> PICK g, d : g = get[r] /\ d = get[r].dispute
  OBVIOUS
<1>0. get'[r] = g /\ g.dispute = d /\ ReadsFit(r)
  BY DEF ReaderInv
<1>1. KnownOnRecord(r)'
  BY RecordOfCase DEF ReaderInv, KnownOnRecord
<1>2. \A table : HasRead(r, table)' <=> HasRead(r, table)
  BY DEF HasRead
<1>3. \A trail : Covers(r, trail)' <=> Covers(r, trail)
  BY DEF Covers
<1>4. ASSUME HasRead(r, "dispute")
      PROVE  /\ StatusTrail(d) \subseteq StatusTrail(d)'
             /\ Exists(d)'
             /\ g.status \in Fought => evidence'[d] > 0
             /\ evidence[d] > 0 => evidence'[d] > 0
             /\ Covers(r, StatusTrail(d))'
  <2>1. d \in DisputeIds /\ g # NoGet
    BY <1>4 DEF ReaderInv, ReaderTypeOK, GetRequest, HasRead
  <2>2. Exists(d) /\ Covers(r, StatusTrail(d)) /\ (g.status \in Fought => evidence[d] > 0)
    BY <1>0, <1>4 DEF ReadsFit
  <2>3. StatusTrail(d) \subseteq StatusTrail(d)'
    BY <2>1, RecordOfCase
  <2>4. Covers(r, StatusTrail(d)')
    BY <2>2, <2>3 DEF Covers
  <2>5. Covers(r, StatusTrail(d))'
    BY <2>4 DEF Covers
  <2> QED BY <2>1, <2>2, <2>3, <2>5 DEF RecordGrows
<1>5. HasRead(r, "events") /\ g.route = "case" =>
        /\ HasRead(r, "dispute")
        /\ g.trail \subseteq StatusTrail(d)
        /\ Covers(r, g.trail)
        /\ \E e \in g.trail : \A f \in g.trail : f.seq <= e.seq
  BY <1>0 DEF ReadsFit
<1>6. /\ g.route # "case" \/ "events" \in g.todo => g.trail = {}
      /\ g.route # "case" => "events" \notin g.todo
      /\ HasRead(r, "evidence") =>
            /\ HasRead(r, "dispute")
            /\ g.status \in Fought => g.items > 0
            /\ g.items > 0 => evidence[d] > 0
  BY <1>0 DEF ReadsFit
<1>7. HasRead(r, "events") /\ g.route = "case" =>
        /\ HasRead(r, "dispute")'
        /\ g.trail \subseteq StatusTrail(d)'
        /\ Covers(r, g.trail)'
        /\ \E e \in g.trail : \A f \in g.trail : f.seq <= e.seq
  BY <1>2, <1>3, <1>4, <1>5
<1>8. ReadsFit(r)'
  BY <1>0, <1>2, <1>4, <1>6, <1>7 DEF ReadsFit
<1> QED BY <1>1, <1>8

\* A step of the service, seen from the readers.
LEMMA ServiceKeepsReaders ==
    ASSUME ReaderInv, RecordGrows, UNCHANGED readVars
    PROVE  ReaderInv'
<1>1. ReaderTypeOK'
  BY DEF ReaderInv, ReaderTypeOK, readVars
<1>2. \A r \in Readers : get'[r] = get[r] /\ known'[r] = known[r]
  BY DEF readVars
<1> QED BY <1>1, <1>2, OthersFit DEF ReaderInv

\* A step of one request, seen from the others: it remains to look at its own.
LEMMA ReaderStep ==
    ASSUME ReaderInv, UNCHANGED vars, NEW r \in Readers,
           ReaderTypeOK', KnownOnRecord(r)', ReadsFit(r)',
           \A q \in Readers \ {r} : get'[q] = get[q] /\ known'[q] = known[q]
    PROVE  ReaderInv'
<1>1. RecordGrows
  BY ReadersGrow
<1> QED BY <1>1, OthersFit DEF ReaderInv

\* Reading changes nothing in what is on record.
LEMMA RecordSame ==
    ASSUME UNCHANGED vars
    PROVE  /\ \A d : StatusTrail(d)' = StatusTrail(d) /\ (Exists(d)' <=> Exists(d))
           /\ UNCHANGED <<evidence, events, disputes>>
BY DEF vars, committed, StatusTrail, Exists

\* A request that is given up or answered is no request any more.
LEMMA RequestEnds ==
    ASSUME ReaderInv, UNCHANGED vars, NEW r \in Readers,
           get' = [get EXCEPT ![r] = NoGet], known' \in [Readers -> [DisputeIds -> Nat]],
           KnownOnRecord(r)', \A q \in Readers \ {r} : known'[q] = known[q]
    PROVE  ReaderInv'
<1>1. ReaderTypeOK' /\ get'[r] = NoGet /\ \A q \in Readers \ {r} : get'[q] = get[q]
  BY DEF ReaderInv, ReaderTypeOK
<1>2. ReadsFit(r)'
  BY <1>1 DEF ReadsFit, HasRead, NoGet
<1> QED BY <1>1, <1>2, ReaderStep

\* Whoever was told nothing new knows what is on record.
LEMMA SameKnown ==
    ASSUME ReaderInv, UNCHANGED <<vars, known>>, NEW r \in Readers
    PROVE  KnownOnRecord(r)' /\ known' \in [Readers -> [DisputeIds -> Nat]]
BY RecordSame DEF ReaderInv, ReaderTypeOK, KnownOnRecord

\* A new request has read nothing.
LEMMA AskKeepsReaders ==
    ASSUME ReaderInv, NEW r \in Readers, NEW d \in DisputeIds,
           NEW route \in {"case", "evidence-requirements"}, Ask(r, d, route)
    PROVE  ReaderInv'
<1> PICK g : g = [NoGet EXCEPT !.route = route, !.dispute = d,
                  !.todo = IF route = "case" THEN CaseReads ELSE EvidenceRequirementsReads]
  OBVIOUS
<1>1. get' = [get EXCEPT ![r] = g]
  BY DEF Ask
<1>2. /\ g.route = route /\ g.dispute = d /\ g.status = "none" /\ g.trail = {} /\ g.items = 0
      /\ g.todo = IF route = "case" THEN CaseReads ELSE EvidenceRequirementsReads
      /\ g \in GetRequest
  BY DEF NoGet, GetRequest, CaseReads, EvidenceRequirementsReads
<1>3. ReaderTypeOK' /\ get'[r] = g /\ \A q \in Readers \ {r} : get'[q] = get[q]
  BY <1>1, <1>2 DEF ReaderInv, ReaderTypeOK, Ask
<1>4. UNCHANGED <<vars, known>>
  BY DEF Ask
<1>5. "dispute" \in g.todo /\ "evidence" \in g.todo
      /\ (route = "case" <=> "events" \in g.todo)
  BY <1>2 DEF CaseReads, EvidenceRequirementsReads
<1>6. ReadsFit(r)'
  BY <1>2, <1>3, <1>5 DEF ReadsFit, HasRead
<1> QED BY <1>3, <1>4, <1>6, SameKnown, ReaderStep

\* The trail ends at the status that is read, and the client knows nothing
\* beyond its end.
LEMMA FindKeepsReaders ==
    ASSUME CoreInv, TrailInv, ReaderInv, NEW r \in Readers, FindDisputeById(r)
    PROVE  ReaderInv'
<1> PICK d : d = get[r].dispute
  OBVIOUS
<1>0. get[r] \in GetRequest /\ d \in DisputeIds /\ UNCHANGED <<vars, known>>
  BY DEF FindDisputeById, ReaderInv, ReaderTypeOK, NoGet, GetRequest
<1>1. CASE ~Exists(d)
  <2>1. get' = [get EXCEPT ![r] = NoGet]
    BY <1>1 DEF FindDisputeById
  <2> QED BY <1>0, <2>1, SameKnown, RequestEnds
<1>2. CASE Exists(d)
  <2> PICK g : g = [get[r] EXCEPT !.todo = @ \ {"dispute"}, !.status = disputes[d].status]
    OBVIOUS
  <2>1. get' = [get EXCEPT ![r] = g]
    BY <1>2 DEF FindDisputeById
  <2>2. disputes[d].status \in Statuses
    BY <1>0, <1>2 DEF CoreInv, TypeOK, Exists, Row
  <2>3. /\ g.route = get[r].route /\ g.dispute = d /\ g.status = disputes[d].status
        /\ g.todo = get[r].todo \ {"dispute"} /\ g.trail = get[r].trail /\ g.items = get[r].items
        /\ g \in GetRequest
    BY <1>0, <2>2 DEF GetRequest
  <2>4. ReaderTypeOK' /\ get'[r] = g /\ \A q \in Readers \ {r} : get'[q] = get[q]
    BY <1>0, <2>1, <2>3 DEF ReaderInv, ReaderTypeOK
  <2>5. "dispute" \in get[r].todo /\ get[r] # NoGet
    BY DEF FindDisputeById, NoGet
  <2>6. /\ "evidence" \in get[r].todo
        /\ get[r].route = "case" <=> "events" \in get[r].todo
        /\ get[r].trail = {}
    BY <2>5 DEF ReaderInv, ReadsFit, HasRead
  <2>7. PICK e \in StatusTrail(d) :
            e.to = disputes[d].status /\ \A f \in StatusTrail(d) : f.seq <= e.seq
    BY <1>0, <1>2 DEF TrailInv, TrailExplainsStatus
  <2>8. known[r][d] <= e.seq
    <3>1. e.seq \in Nat /\ known[r][d] \in Nat
      BY <1>0 DEF StatusTrail, Event, CoreInv, TypeOK, ReaderInv, ReaderTypeOK
    <3> QED BY <1>0, <2>7, <3>1 DEF ReaderInv, KnownOnRecord
  <2>9. disputes[d].status \in Fought => evidence[d] > 0
    BY <1>0, <1>2 DEF CoreInv, FoughtHasEvidence
  <2>10. Covers(r, StatusTrail(g.dispute))'
    BY <1>0, <2>3, <2>4, <2>7, <2>8, RecordSame DEF Covers
  <2>11. "evidence" \in g.todo /\ (g.route = "case" <=> "events" \in g.todo)
    BY <2>3, <2>6
  <2>12. ReadsFit(r)'
    BY <1>0, <1>2, <2>3, <2>4, <2>6, <2>9, <2>10, <2>11, RecordSame DEF ReadsFit, HasRead
  <2> QED BY <1>0, <2>4, <2>12, SameKnown, ReaderStep
<1> QED BY <1>1, <1>2

\* The trail is longer by now, or the same.
LEMMA EventsKeepReaders ==
    ASSUME CoreInv, TrailInv, ReaderInv, NEW r \in Readers, ListEvents(r)
    PROVE  ReaderInv'
<1> PICK d, trail : d = get[r].dispute /\ trail = StatusTrail(d)
  OBVIOUS
<1> PICK g : g = [get[r] EXCEPT !.todo = @ \ {"events"}, !.trail = trail]
  OBVIOUS
<1>0. get[r] \in GetRequest /\ d \in DisputeIds /\ get[r] # NoGet /\ UNCHANGED <<vars, known>>
  BY DEF ListEvents, ReadyTo, ReaderInv, ReaderTypeOK, NoGet, GetRequest
<1>1. get' = [get EXCEPT ![r] = g]
  BY DEF ListEvents
<1>2. trail \subseteq Event
  BY DEF StatusTrail, CoreInv, TypeOK
<1>3. /\ g.route = get[r].route /\ g.dispute = d /\ g.status = get[r].status
      /\ g.todo = get[r].todo \ {"events"} /\ g.trail = trail /\ g.items = get[r].items
      /\ g \in GetRequest
  BY <1>0, <1>2 DEF GetRequest
<1>4. ReaderTypeOK' /\ get'[r] = g /\ \A q \in Readers \ {r} : get'[q] = get[q]
  BY <1>0, <1>1, <1>3 DEF ReaderInv, ReaderTypeOK
<1>5. "events" \in get[r].todo /\ HasRead(r, "dispute") /\ get[r].route = "case"
  BY <1>0 DEF ListEvents, ReadyTo, HasRead, ReaderInv, ReadsFit
<1>6. Exists(d) /\ Covers(r, trail)
  BY <1>5 DEF ReaderInv, ReadsFit
<1>7. \E e \in trail : \A f \in trail : f.seq <= e.seq
  BY <1>0, <1>6 DEF TrailInv, TrailExplainsStatus
<1>8. Covers(r, trail)'
  BY <1>0, <1>3, <1>4, <1>6 DEF Covers
<1>9. g # NoGet /\ "events" \notin g.todo /\ "dispute" \notin g.todo
  <2>1. g.dispute # NoGet.dispute
    BY <1>0, <1>3 DEF NoGet
  <2>2. "dispute" \notin get[r].todo
    BY <1>5 DEF HasRead
  <2> QED BY <1>3, <2>1, <2>2
<1>10. "evidence" \notin g.todo => HasRead(r, "evidence")
  BY <1>0, <1>3 DEF HasRead
<1>11. ReadsFit(r)
  BY DEF ReaderInv
<1>12. /\ StatusTrail(g.dispute)' = trail /\ Exists(g.dispute)'
       /\ g.status \in Fought => evidence'[g.dispute] > 0
       /\ HasRead(r, "evidence") =>
            /\ g.status \in Fought => g.items > 0
            /\ g.items > 0 => evidence'[g.dispute] > 0
  BY <1>0, <1>3, <1>5, <1>6, <1>11, RecordSame DEF ReadsFit
<1>13. "evidence" \notin g.todo =>
            /\ g.status \in Fought => g.items > 0
            /\ g.items > 0 => evidence'[g.dispute] > 0
  BY <1>10, <1>12
<1>14. ReadsFit(r)'
  BY <1>3, <1>4, <1>5, <1>7, <1>8, <1>9, <1>12, <1>13 DEF ReadsFit, HasRead
<1> QED BY <1>0, <1>4, <1>14, SameKnown, ReaderStep

\* The items are counted after the status was read, and never get fewer.
LEMMA EvidenceKeepsReaders ==
    ASSUME CoreInv, TrailInv, ReaderInv, NEW r \in Readers, ListEvidence(r)
    PROVE  ReaderInv'
<1> PICK d, items, trail :
        d = get[r].dispute /\ items = evidence[d] /\ trail = StatusTrail(d)
  OBVIOUS
<1> PICK g : g = [get[r] EXCEPT !.todo = @ \ {"evidence"}, !.items = items]
  OBVIOUS
<1>0. get[r] \in GetRequest /\ d \in DisputeIds /\ get[r] # NoGet /\ UNCHANGED <<vars, known>>
  BY DEF ListEvidence, ReadyTo, ReaderInv, ReaderTypeOK, NoGet, GetRequest
<1>1. get' = [get EXCEPT ![r] = g]
  BY DEF ListEvidence
<1>2. items \in Nat
  BY <1>0 DEF CoreInv, TypeOK
<1>3. /\ g.route = get[r].route /\ g.dispute = d /\ g.status = get[r].status
      /\ g.todo = get[r].todo \ {"evidence"} /\ g.trail = get[r].trail /\ g.items = items
      /\ g \in GetRequest
  BY <1>0, <1>2 DEF GetRequest
<1>4. ReaderTypeOK' /\ get'[r] = g /\ \A q \in Readers \ {r} : get'[q] = get[q]
  BY <1>0, <1>1, <1>3 DEF ReaderInv, ReaderTypeOK
<1>5. HasRead(r, "dispute") /\ ReadsFit(r)
  BY <1>0 DEF ListEvidence, ReadyTo, HasRead, ReaderInv
<1>6. /\ Exists(d) /\ Covers(r, trail)
      /\ g.status \in Fought => items > 0
  BY <1>3, <1>5 DEF ReadsFit
<1>7. \A tr : Covers(r, tr)' <=> Covers(r, tr)
  BY <1>0, <1>3, <1>4 DEF Covers
<1>8. /\ g # NoGet /\ "dispute" \notin g.todo
      /\ "events" \in g.todo <=> "events" \in get[r].todo
  <2>1. g.dispute # NoGet.dispute
    BY <1>0, <1>3 DEF NoGet
  <2>2. "dispute" \notin get[r].todo
    BY <1>5 DEF HasRead
  <2> QED BY <1>3, <2>1, <2>2
<1>9. StatusTrail(g.dispute)' = trail /\ Exists(g.dispute)' /\ evidence' = evidence
  BY <1>0, <1>3, <1>6, RecordSame
<1>10. /\ HasRead(r, "events") /\ g.route = "case" =>
            /\ g.trail \subseteq trail
            /\ Covers(r, g.trail)
            /\ \E e \in g.trail : \A f \in g.trail : f.seq <= e.seq
       /\ g.route # "case" \/ "events" \in g.todo => g.trail = {}
       /\ g.route # "case" => "events" \notin g.todo
  BY <1>3, <1>5, <1>8 DEF ReadsFit
<1>11. Covers(r, trail)'
  BY <1>6, <1>7
<1>12. HasRead(r, "events")' <=> HasRead(r, "events")
  BY <1>0, <1>4, <1>8 DEF HasRead
<1>13. ReadsFit(r)'
  BY <1>2, <1>4, <1>6, <1>7, <1>8, <1>9, <1>10, <1>11, <1>12 DEF ReadsFit, HasRead
<1> QED BY <1>0, <1>4, <1>13, SameKnown, ReaderStep

\* The newest event of an answer is one of its events.
LEMMA NewestIsRead ==
    ASSUME NEW trail \in SUBSET Event, NEW e \in trail, \A f \in trail : f.seq <= e.seq
    PROVE  Newest(trail) \in {f.seq : f \in trail} /\ Newest(trail) \in Nat
<1>1. e.seq \in {f.seq : f \in trail} /\ \A f \in trail : f.seq <= e.seq
  OBVIOUS
<1>2. Newest(trail) \in {f.seq : f \in trail}
  BY <1>1 DEF Newest
<1> QED BY <1>2 DEF Event

\* The client knows the newest event of its answer, which is on record.
LEMMA ReplyKeepsReaders ==
    ASSUME ReaderInv, NEW r \in Readers, Reply(r)
    PROVE  ReaderInv'
<1> PICK d, trail : d = get[r].dispute /\ trail = get[r].trail
  OBVIOUS
<1>0. UNCHANGED vars /\ get' = [get EXCEPT ![r] = NoGet] /\ Complete(r)
  BY DEF Reply
<1>1. get[r] \in GetRequest /\ d \in DisputeIds /\ trail \in SUBSET Event
  BY <1>0 DEF Complete, ReaderInv, ReaderTypeOK, GetRequest
<1>2. CASE get[r].route # "case"
  <2>1. known' = known
    BY <1>2 DEF Reply
  <2> QED BY <1>0, <2>1, SameKnown, RequestEnds
<1>3. CASE get[r].route = "case"
  <2>1. /\ trail \subseteq StatusTrail(d)
        /\ \E e \in trail : \A f \in trail : f.seq <= e.seq
    BY <1>0, <1>3 DEF Complete, ReaderInv, ReadsFit, HasRead
  <2>2. PICK n : n = Newest(trail)
    OBVIOUS
  <2>3. n \in Nat /\ \E f \in StatusTrail(d) : f.seq = n
    BY <1>1, <2>1, <2>2, NewestIsRead
  <2>4. known' = [known EXCEPT ![r][d] = n]
    BY <1>3, <2>2 DEF Reply
  <2>5. /\ known' \in [Readers -> [DisputeIds -> Nat]]
        /\ known'[r][d] = n /\ \A c \in DisputeIds \ {d} : known'[r][c] = known[r][c]
        /\ \A q \in Readers \ {r} : known'[q] = known[q]
    BY <1>1, <2>3, <2>4 DEF ReaderInv, ReaderTypeOK
  <2>6. KnownOnRecord(r)'
    <3>1. KnownOnRecord(r) /\ \A c : StatusTrail(c)' = StatusTrail(c)
      BY <1>0, RecordSame DEF ReaderInv
    <3>2. ASSUME NEW c \in DisputeIds
          PROVE  known'[r][c] = 0 \/ \E f \in StatusTrail(c) : f.seq = known'[r][c]
      BY <2>3, <2>5, <3>1 DEF KnownOnRecord
    <3> QED BY <3>1, <3>2 DEF KnownOnRecord
  <2> QED BY <1>0, <2>5, <2>6, RequestEnds
<1> QED BY <1>2, <1>3

\* Every step keeps what the answers rest on.
LEMMA NextReaderInv ==
    ASSUME CoreInv, TrailInv, ReaderInv, [NextReader]_allVars
    PROVE  ReaderInv'
<1>1. CASE Next /\ UNCHANGED readVars
  BY <1>1, ServiceGrows, ServiceKeepsReaders
<1>2. ASSUME NEW r \in Readers, ReadFails(r) PROVE ReaderInv'
  BY <1>2, SameKnown, RequestEnds DEF ReadFails
<1>3. CASE UNCHANGED allVars
  BY <1>3, ReadersGrow, ServiceKeepsReaders DEF allVars
<1> QED BY <1>1, <1>2, <1>3, AskKeepsReaders, FindKeepsReaders, EventsKeepReaders,
           EvidenceKeepsReaders, ReplyKeepsReaders DEF NextReader

\* To the service a reader's step is none.
LEMMA ReadersOnlyRead ==
    [NextReader]_allVars => [Next]_vars
BY DEF NextReader, allVars, Ask, FindDisputeById, ListEvents, ListEvidence, Reply, ReadFails

\* Nobody has asked for anything.
LEMMA InitReaderInv ==
    InitReader => ReaderInv
<1> SUFFICES ASSUME InitReader PROVE ReaderInv
  OBVIOUS
<1>1. \A r \in Readers : /\ get[r] = NoGet
                         /\ \A d \in DisputeIds : known[r][d] = 0
  BY DEF InitReader
<1>2. ReaderTypeOK
  BY DEF InitReader, ReaderTypeOK
<1>3. /\ \A table : table \notin NoGet.todo
      /\ NoGet.route = "none" /\ NoGet.trail = {}
  BY DEF NoGet
<1> QED BY <1>1, <1>2, <1>3 DEF ReaderInv, KnownOnRecord, ReadsFit, HasRead

\* What a request has read is never contradicted by what is committed later.
THEOREM ReadersHold ==
    ReaderSpec => [](CoreInv /\ TrailInv /\ ReaderInv)
<1>1. InitReader => CoreInv /\ TrailInv /\ ReaderInv
  BY InitCore, InitTrail, InitReaderInv DEF InitReader
<1>2. CoreInv /\ TrailInv /\ ReaderInv /\ [NextReader]_allVars
        => (CoreInv /\ TrailInv /\ ReaderInv)'
  BY ReadersOnlyRead, NextCore, NextTrail, NextReaderInv
<1> QED BY <1>1, <1>2, PTL DEF ReaderSpec

\* GET /:id puts several moments together, and the answer makes sense: its
\* history leads to its status, and a contested case comes with its evidence.
THEOREM AnswersAreExplained ==
    ReaderSpec => []AnswerIsExplained
<1>1. ReaderInv => AnswerIsExplained
  <2> SUFFICES ASSUME ReaderInv, NEW r \in Readers, Complete(r)
               PROVE  /\ get[r].route = "case" => \E e \in get[r].trail : Explains(r, e)
                      /\ get[r].status \in Fought => get[r].items > 0
    BY DEF AnswerIsExplained
  <2>1. HasRead(r, "dispute") /\ HasRead(r, "events") /\ HasRead(r, "evidence")
    BY DEF Complete, HasRead
  <2> QED BY <2>1 DEF ReaderInv, ReadsFit, Covers, Explains
<1> QED BY <1>1, ReadersHold, PTL

\* A client that polls never sees a case go back to an older status.
THEOREM PollsNeverGoBack ==
    ReaderSpec => []PollsGoForward
<1>1. ReaderInv => PollsGoForward
  <2> SUFFICES ASSUME ReaderInv, NEW r \in Readers, Complete(r),
                      NEW e \in get[r].trail, Explains(r, e),
                      \A f \in get[r].trail : Explains(r, f) => f.seq <= e.seq
               PROVE  known[r][get[r].dispute] <= e.seq
    BY DEF PollsGoForward
  <2>1. HasRead(r, "events")
    BY DEF Complete, HasRead
  <2>2. get[r].route = "case"
    BY DEF ReaderInv, ReadsFit
  <2>3. PICK f \in get[r].trail :
            f.to = get[r].status /\ known[r][get[r].dispute] <= f.seq
    BY <2>1, <2>2 DEF ReaderInv, ReadsFit, Covers
  <2>4. f.seq <= e.seq
    BY <2>3 DEF Explains
  <2>5. /\ known[r][get[r].dispute] \in Nat
        /\ e.seq \in Nat /\ f.seq \in Nat
    BY <2>3 DEF Complete, ReaderInv, ReaderTypeOK, GetRequest, Event
  <2> QED BY <2>3, <2>4, <2>5
<1> QED BY <1>1, ReadersHold, PTL

\* Until the trail has something newer, the case stands where the answer shows
\* it: the last event of the trail is the one the answer's status came from.
LEMMA StandsAsShown ==
    ASSUME CoreInv, TrailInv, ReaderInv, NEW r \in Readers, Complete(r),
           get[r].route = "case", ~MovedOn(r)
    PROVE  disputes[get[r].dispute].status = get[r].status
<1> PICK d : d = get[r].dispute
  OBVIOUS
<1>1. HasRead(r, "dispute") /\ HasRead(r, "events") /\ d \in DisputeIds
  BY DEF Complete, HasRead, ReaderInv, ReaderTypeOK, GetRequest
<1>2. Exists(d) /\ get[r].trail \subseteq StatusTrail(d)
  BY <1>1 DEF ReaderInv, ReadsFit
<1>3. PICK f \in StatusTrail(d) :
          f.to = disputes[d].status /\ \A e \in StatusTrail(d) : e.seq <= f.seq
  BY <1>1, <1>2 DEF TrailInv, TrailExplainsStatus
<1>4. PICK e \in get[r].trail : Explains(r, e) /\ ~(e.seq < f.seq)
  BY <1>3 DEF MovedOn
<1>5. e \in events /\ f \in events /\ e.seq \in Nat /\ f.seq \in Nat
  BY <1>2 DEF StatusTrail, CoreInv, TypeOK, Event
<1>6. e.seq = f.seq
  BY <1>2, <1>3, <1>4, <1>5
<1>7. e = f
  BY <1>5, <1>6 DEF TrailInv, NumbersDiffer
<1> QED BY <1>3, <1>4, <1>7 DEF Explains

\* The filter of GET /:id and assertTransition read one table: from the status
\* shown, with evidence there if the answer shows any, they agree on every move.
LEMMA FilterAndVerdictAgree ==
    ASSUME NEW r \in Readers, NEW d, NEW to \in Statuses,
           disputes[d].status = get[r].status, get[r].items \in Nat, evidence[d] \in Nat,
           get[r].items > 0 => evidence[d] > 0
    PROVE  LET offers == {a \in AvailableActions(r) : a.to = to} IN
           /\ (\E a \in offers : a.requiresEvidence => get[r].items > 0)
                    => OperatorVerdict(d, to) = "ok"
           /\ OperatorVerdict(d, to) = "ok" => offers # {}
<1> DEFINE Rows == FindTransition(Transitions, get[r].status, to, "OPERATOR")
<1>1. Rows = {a \in AvailableActions(r) : a.to = to}
  BY DEF FindTransition, AvailableActions
<1>2. \A a, b \in Rows : a = b
  BY KeyAssumption DEF FindTransition
<1>3. OperatorVerdict(d, to) = "ok" <=>
          Rows # {} /\ ~(evidence[d] < 1 /\ \E a \in Rows : a.requiresEvidence)
  BY DEF OperatorVerdict, AssertTransition, CanTransition
<1>4. ASSUME NEW a \in Rows, a.requiresEvidence => get[r].items > 0
      PROVE  ~(evidence[d] < 1 /\ \E b \in Rows : b.requiresEvidence)
  BY <1>2, <1>4
<1> QED BY <1>1, <1>3, <1>4

\* The buttons of GET /:id work: for any number of calls between and after the
\* reads of an answer, a move it offers with the evidence it shows is refused only
\* once the trail has a newer event, because nothing else takes the case from the
\* status shown and no evidence is ever lost.
THEOREM ButtonsWork ==
    ReaderSpec => []OfferedIsAccepted
<1>1. CoreInv /\ TrailInv /\ ReaderInv => OfferedIsAccepted
  <2> SUFFICES ASSUME CoreInv, TrailInv, ReaderInv, NEW r \in Readers, Complete(r),
                      get[r].route = "case", ~MovedOn(r), NEW to \in Statuses
               PROVE  LET offers == {a \in AvailableActions(r) : a.to = to}
                          verdict == OperatorVerdict(get[r].dispute, to)
                      IN
                      /\ (\E a \in offers : a.requiresEvidence => get[r].items > 0)
                            => verdict = "ok"
                      /\ verdict = "ok" => offers # {}
    BY DEF OfferedIsAccepted
  <2>1. disputes[get[r].dispute].status = get[r].status
    BY StandsAsShown
  <2>2. get[r].dispute \in DisputeIds /\ get[r].items \in Nat
    BY DEF Complete, ReaderInv, ReaderTypeOK, GetRequest
  <2>3. evidence[get[r].dispute] \in Nat
    BY <2>2 DEF CoreInv, TypeOK
  <2>4. get[r].items > 0 => evidence[get[r].dispute] > 0
    BY DEF Complete, HasRead, ReaderInv, ReadsFit
  <2> QED BY <2>1, <2>2, <2>3, <2>4, FilterAndVerdictAgree
<1> QED BY <1>1, ReadersHold, PTL
=============================================================================
