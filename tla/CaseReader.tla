----------------------------- MODULE CaseReader -----------------------------
(***************************************************************************)
(* The GET requests about one case (src/routes/disputes.js), next to the   *)
(* transactions that change it.  A request reads the dispute first; then   *)
(* its events and evidence, each by a statement of its own on a connection *)
(* of its own, so the answer puts several moments together.                *)
(***************************************************************************)
EXTENDS DisputeService

CONSTANT Readers    \* clients that look at cases

VARIABLES
    get,            \* what a client's request has read, and has still to read
    known           \* number of the newest event a client was told of a case

readVars == <<get, known>>
allVars == <<vars, readVars>>

NoGet ==
    [route |-> "none", dispute |-> NoDispute, todo |-> {}, status |-> "none", trail |-> {},
     items |-> 0]

InitReader ==
    /\ Init
    /\ get = [r \in Readers |-> NoGet]
    /\ known = [r \in Readers |-> [d \in DisputeIds |-> 0]]

\* What the two routes read; the transitions of the one and the requirements of
\* the other do not change.
CaseReads == {"dispute", "events", "evidence"}
EvidenceRequirementsReads == {"dispute", "evidence"}

\* GET /:id, or GET /:id/evidence-requirements.
Ask(r, d, route) ==
    /\ get[r] = NoGet
    /\ get' = [get EXCEPT ![r].route = route, ![r].dispute = d,
           ![r].todo = IF route = "case" THEN CaseReads ELSE EvidenceRequirementsReads]
    /\ UNCHANGED <<vars, known>>

FindDisputeById(r) ==
    /\ "dispute" \in get[r].todo
    /\ LET d == get[r].dispute IN
       get' = IF Exists(d)
              THEN [get EXCEPT ![r].todo = @ \ {"dispute"}, ![r].status = disputes[d].status]
              ELSE [get EXCEPT ![r] = NoGet]
    /\ UNCHANGED <<vars, known>>

\* A mutant of ReadyTo: the dispute is read in parallel with the rest.
ReadyToAtOnce(r, table) == table \in get[r].todo

\* Once the dispute is read, the other reads run in any order.
ReadyTo(r, table) == table \in get[r].todo /\ "dispute" \notin get[r].todo

ListEvents(r) ==
    /\ ReadyTo(r, "events")
    /\ get' = [get EXCEPT ![r].todo = @ \ {"events"}, ![r].trail = StatusTrail(get[r].dispute)]
    /\ UNCHANGED <<vars, known>>

ListEvidence(r) ==
    /\ ReadyTo(r, "evidence")
    /\ get' = [get EXCEPT ![r].todo = @ \ {"evidence"}, ![r].items = evidence[get[r].dispute]]
    /\ UNCHANGED <<vars, known>>

\* A mutant of AvailableActions: whoever may trigger it.
ActionsOfAnyone(r) == {t \in Transitions : t.from = get[r].status}

\* What GET /:id offers: a filter of its own over the table, for the status that
\* was read first.
AvailableActions(r) ==
    {t \in Transitions : t.from = get[r].status /\ t.triggeredBy = "OPERATOR"}

\* Everything is read.
Complete(r) == get[r] # NoGet /\ get[r].todo = {}

Newest(trail) == CHOOSE n \in {e.seq : e \in trail} : \A e \in trail : e.seq <= n

Reply(r) ==
    /\ Complete(r)
    /\ known' = IF get[r].route = "case"
                THEN [known EXCEPT ![r][get[r].dispute] = Newest(get[r].trail)]
                ELSE known
    /\ get' = [get EXCEPT ![r] = NoGet]
    /\ UNCHANGED vars

\* One read fails, and with it the request.
ReadFails(r) ==
    /\ get[r].todo # {}
    /\ get' = [get EXCEPT ![r] = NoGet]
    /\ UNCHANGED <<vars, known>>

NextReader ==
    \/ Next /\ UNCHANGED readVars
    \/ \E r \in Readers :
        \/ \E d \in DisputeIds, route \in {"case", "evidence-requirements"} : Ask(r, d, route)
        \/ FindDisputeById(r) \/ ListEvents(r) \/ ListEvidence(r)
        \/ Reply(r) \/ ReadFails(r)

ReaderSpec == InitReader /\ [][NextReader]_allVars

\* The readers take no lock, so they change nothing in what the calls wait for.
FairReaderSpec == ReaderSpec /\ Fairness

-----------------------------------------------------------------------------
\* What a client may rely on

\* A status event of an answer that leads to the answer's status.
Explains(r, e) == e \in get[r].trail /\ e.to = get[r].status

\* An answer put together from several moments makes sense all the same: the
\* history it shows contains an event that led to the status it shows, and a
\* case it shows as contested comes with the evidence it was contested with.
AnswerIsExplained ==
    \A r \in Readers : Complete(r) =>
        /\ get[r].route = "case" => \E e \in get[r].trail : Explains(r, e)
        /\ get[r].status \in Fought => get[r].items > 0

\* A client that asks again never sees a case go back: the last event that led
\* to the status it is told is not older than any it was told before.
PollsGoForward ==
    \A r \in Readers : Complete(r) =>
        \A e \in get[r].trail :
            Explains(r, e) /\ (\A f \in get[r].trail : Explains(r, f) => f.seq <= e.seq)
                => known[r][get[r].dispute] <= e.seq

\* The record has a status event newer than any the answer's status came from.
MovedOn(r) ==
    \E f \in StatusTrail(get[r].dispute) :
        \A e \in get[r].trail : Explains(r, e) => e.seq < f.seq

\* What changeStatus would answer an operator now.
OperatorVerdict(d, to) ==
    AssertTransition(Transitions, disputes[d].status, to, "OPERATOR", evidence[d])

\* The buttons of GET /:id, "exactly the buttons that will work": although its
\* status and its evidence were read at different moments and others act on the
\* case since, an offered move whose evidence the answer shows is refused only if
\* the trail has a newer event to tell why, and until then none is accepted that
\* was not offered.
OfferedIsAccepted ==
    \A r \in Readers : Complete(r) /\ get[r].route = "case" /\ ~MovedOn(r) =>
        \A to \in Statuses :
            LET offers == {a \in AvailableActions(r) : a.to = to}
                verdict == OperatorVerdict(get[r].dispute, to)
            IN
            /\ (\E a \in offers : a.requiresEvidence => get[r].items > 0) => verdict = "ok"
            /\ verdict = "ok" => offers # {}
=============================================================================
