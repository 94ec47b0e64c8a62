-------------------------- MODULE WebhookDelivery --------------------------
(***************************************************************************)
(* Deliveries of processor events (src/services/webhookService.js and      *)
(* src/routes/webhooks.js).  Each request runs processDelivery, a sequence *)
(* of separate transactions: record the delivery, act on the case it names *)
(* (a call of DisputeCase), mark what came of it, answer.  Anything may    *)
(* fail or crash between two of them, and the processor sends an event     *)
(* again as it likes.                                                      *)
(***************************************************************************)
EXTENDS DisputeCase, Integers, FiniteSets

CONSTANTS
    Handlers,       \* requests the server works on at a time
    EventIds,       \* external_event_id of the events the processor sends
    EventOf,        \* what each event says
    NoEvent,
    MaxAttempts,    \* bound: times each event is sent
    Faults          \* whether statements fail and the process crashes

EventTypes ==
    {"dispute.created", "dispute.won", "dispute.lost", "dispute.withdrawn",
     "dispute.pre_arbitration", "unhandled"}

\* opens: what the tables hold for a dispute.created event.
EventContent ==
    [type : EventTypes, case : Cases, opens : {"ok", "unknownTransaction", "refused"}]

ASSUME EventsAssumption ==
    EventOf \in [EventIds -> EventContent] /\ NoEvent \notin EventIds
ASSUME AttemptsAssumption == MaxAttempts \in [EventIds -> Nat]
ASSUME FaultsAssumption == Faults \in BOOLEAN

\* EVENT_TO_STATUS: the status an event reports, "none" where there is none.
EventToStatus(type) ==
    CASE type = "dispute.won" -> "WON"
      [] type = "dispute.lost" -> "LOST"
      [] type = "dispute.withdrawn" -> "WITHDRAWN"
      [] type = "dispute.pre_arbitration" -> "PRE_ARBITRATION"
      [] OTHER -> "none"

NoDelivery == [status |-> "none", signed |-> FALSE, linked |-> FALSE]

VARIABLES
    deliveries,     \* rows of webhook_deliveries: status, signature_valid,
                    \* and whether dispute_id is set
    step,           \* what a handler does next
    event,          \* the event its request carries
    signed,         \* whether the request's signature and timestamp hold
    attempts,       \* times an event was sent
    acked,          \* events of which a signed request was answered with 200
    applied         \* events whose change of the case is committed

handlerVars == <<step, event, signed>>
allVars == <<cases, deliveries, handlerVars, attempts, acked, applied>>

InitDelivery ==
    /\ InitCases
    /\ deliveries = [e \in EventIds |-> NoDelivery]
    /\ step = [h \in Handlers |-> "idle"]
    /\ event = [h \in Handlers |-> NoEvent]
    /\ signed = [h \in Handlers |-> FALSE]
    /\ attempts = [e \in EventIds |-> 0]
    /\ acked = {}
    /\ applied = {}

Recorded(e) == deliveries[e].status # "none"

\* The steps inside the try block of processDelivery.
TryBlock ==
    {"findTransaction", "openDispute", "ignore", "findDispute", "changeStatus",
     "markProcessed"}

\* A handler that has recorded the event and has not settled it.
Working(h) == step[h] \in TryBlock \cup {"reject", "markFailed"}

Then(h, next) == step' = [step EXCEPT ![h] = next]

Stay == UNCHANGED <<event, signed, attempts, acked>>

\* The try block throws: the catch block marks the delivery FAILED.
Caught(h) == Then(h, "markFailed")

\* A statement throws: caught inside the try block, a 500 outside it.
Thrown(h) ==
    IF step[h] \in TryBlock THEN Caught(h) ELSE Then(h, "answer500")

\* After a transaction committed: its answer arrives, or is lost and it throws.
Committed(h, next) == Then(h, next) \/ (Faults /\ Thrown(h))

-----------------------------------------------------------------------------
\* The processor sends an event, for the first time or again.

\* How a copy may look: whether it has the headers, a number for a timestamp,
\* and the signature of our secret over that timestamp and the body; and the
\* seconds from its timestamp to its arrival.
Copies == [headers : BOOLEAN, numeric : BOOLEAN, ours : BOOLEAN, age : {-301, 300}]

\* verifySignature: clocks may differ by 300 seconds either way.
VerifySignature(copy) ==
    IF ~copy.headers THEN "MISSING_SIGNATURE_HEADERS"
    ELSE IF ~copy.numeric THEN "MALFORMED_TIMESTAMP"
    ELSE IF copy.age \notin -300..300 THEN "TIMESTAMP_OUTSIDE_TOLERANCE"
    ELSE IF ~copy.ours THEN "SIGNATURE_MISMATCH"
    ELSE "valid"

Receive(h, e, copy) ==
    /\ step[h] = "idle"
    /\ attempts[e] < MaxAttempts[e]
    /\ attempts' = [attempts EXCEPT ![e] = @ + 1]
    /\ event' = [event EXCEPT ![h] = e]
    /\ signed' = [signed EXCEPT ![h] = VerifySignature(copy) = "valid"]
    /\ Then(h, "record")
    /\ UNCHANGED <<cases, deliveries, acked, applied>>

\* A mutant of Dispatch: the signature is not looked at.
DispatchUnsigned(h) ==
    LET type == EventOf[event[h]].type IN
    IF type = "dispute.created" THEN "findTransaction"
    ELSE IF EventToStatus(type) = "none" THEN "ignore"
    ELSE "findDispute"

\* Where processDelivery goes once the delivery is its own.
Dispatch(h) ==
    LET type == EventOf[event[h]].type IN
    IF ~signed[h] THEN "reject"
    ELSE IF type = "dispute.created" THEN "findTransaction"
    ELSE IF EventToStatus(type) = "none" THEN "ignore"
    ELSE "findDispute"

\* A mutant of RecordDelivery: a delivery that was seen is taken up again.
RecordUpsert(h) ==
    /\ step[h] = "record"
    /\ deliveries' = [deliveries EXCEPT ![event[h]] =
                         [status |-> "RECEIVED", signed |-> signed[h], linked |-> FALSE]]
    /\ Committed(h, Dispatch(h))
    /\ Stay
    /\ UNCHANGED <<cases, applied>>

\* INSERT ... ON CONFLICT DO NOTHING: one request gets the row.
RecordDelivery(h) ==
    /\ step[h] = "record"
    /\ \/ /\ ~Recorded(event[h])
          /\ deliveries' = [deliveries EXCEPT ![event[h]] =
                               [status |-> "RECEIVED", signed |-> signed[h], linked |-> FALSE]]
          /\ Committed(h, Dispatch(h))
       \/ /\ Recorded(event[h])
          /\ Committed(h, "duplicate")
          /\ UNCHANGED deliveries
    /\ Stay
    /\ UNCHANGED <<cases, applied>>

\* A mutant of FindDelivery: a duplicate is not answered.
FindDeliveryHangs(h) ==
    /\ step[h] = "duplicate"
    /\ UNCHANGED allVars

\* A delivery that was seen is looked up and answered.
FindDelivery(h) ==
    /\ step[h] = "duplicate"
    /\ Then(h, "answer200")
    /\ Stay
    /\ UNCHANGED <<cases, deliveries, applied>>

\* markDelivery, whatever the row holds.
Mark(e, status, linked) ==
    deliveries' = [deliveries EXCEPT ![e].status = status, ![e].linked = linked]

\* A mutant of RejectUnsigned: the outcome is written for a status.
RejectAsOutcome(h) ==
    /\ step[h] = "reject"
    /\ Mark(event[h], "REJECTED", FALSE)
    /\ Committed(h, "answer401")
    /\ Stay
    /\ UNCHANGED <<cases, applied>>

RejectUnsigned(h) ==
    /\ step[h] = "reject"
    /\ Mark(event[h], "FAILED", FALSE)
    /\ Committed(h, "answer401")
    /\ Stay
    /\ UNCHANGED <<cases, applied>>

FindTransaction(h) ==
    /\ step[h] = "findTransaction"
    /\ IF EventOf[event[h]].opens = "unknownTransaction"
       THEN Caught(h)
       ELSE Then(h, "openDispute")
    /\ Stay
    /\ UNCHANGED <<cases, deliveries, applied>>

\* service.openDispute: a call that opens the case, or refuses.
OpenDispute(h) ==
    LET e == event[h] IN
    /\ step[h] = "openDispute"
    /\ \/ /\ EventOf[e].opens = "ok"
          /\ Open(EventOf[e].case)
          /\ applied' = applied \cup {e}
          /\ Committed(h, "markProcessed")
       \/ /\ EventOf[e].opens # "ok" \/ EventOf[e].case \in Opened
          /\ Caught(h)
          /\ UNCHANGED <<cases, applied>>
    /\ Stay
    /\ UNCHANGED deliveries

IgnoreUnknown(h) ==
    /\ step[h] = "ignore"
    /\ Mark(event[h], "IGNORED", FALSE)
    /\ Committed(h, "answer200")
    /\ Stay
    /\ UNCHANGED <<cases, applied>>

\* A mutant of FindDispute: the delivery is marked before the case is changed.
FindAndMark(h) ==
    /\ step[h] = "findDispute"
    /\ IF EventOf[event[h]].case \in Opened
       THEN /\ Then(h, "changeStatus")
            /\ Mark(event[h], "PROCESSED", TRUE)
       ELSE Caught(h) /\ UNCHANGED deliveries
    /\ Stay
    /\ UNCHANGED <<cases, applied>>

FindDispute(h) ==
    /\ step[h] = "findDispute"
    /\ IF EventOf[event[h]].case \in Opened
       THEN Then(h, "changeStatus")
       ELSE Caught(h)
    /\ Stay
    /\ UNCHANGED <<cases, deliveries, applied>>

\* A mutant of ChangeReported: a refused move counts as done.
ChangeUnchecked(h) ==
    LET e == event[h]
        to == EventToStatus(EventOf[e].type)
    IN /\ step[h] = "changeStatus"
       /\ \/ /\ ChangeStatus(EventOf[e].case, to, "PROCESSOR_EVENT")
             /\ applied' = applied \cup {e}
          \/ /\ MoveVerdict(EventOf[e].case, to, "PROCESSOR_EVENT") # "ok"
             /\ UNCHANGED <<cases, applied>>
       /\ Then(h, "markProcessed")
       /\ Stay
       /\ UNCHANGED deliveries

\* service.changeStatus, as the processor: a call that moves the case from
\* where it stands now, or refuses.
ChangeReported(h) ==
    LET e == event[h]
        to == EventToStatus(EventOf[e].type)
    IN /\ step[h] = "changeStatus"
       /\ \/ /\ ChangeStatus(EventOf[e].case, to, "PROCESSOR_EVENT")
             /\ applied' = applied \cup {e}
             /\ Committed(h, "markProcessed")
          \/ /\ MoveVerdict(EventOf[e].case, to, "PROCESSOR_EVENT") # "ok"
             /\ Caught(h)
             /\ UNCHANGED <<cases, applied>>
       /\ Stay
       /\ UNCHANGED deliveries

MarkProcessed(h) ==
    /\ step[h] = "markProcessed"
    /\ Mark(event[h], "PROCESSED", TRUE)
    /\ Committed(h, "answer200")
    /\ Stay
    /\ UNCHANGED <<cases, applied>>

\* A mutant of MarkFailed: the error is swallowed.
SwallowError(h) ==
    /\ step[h] = "markFailed"
    /\ Then(h, "answer200")
    /\ Stay
    /\ UNCHANGED <<cases, deliveries, applied>>

MarkFailed(h) ==
    /\ step[h] = "markFailed"
    /\ Mark(event[h], "FAILED", FALSE)
    /\ Committed(h, "answer200")
    /\ Stay
    /\ UNCHANGED <<cases, applied>>

\* The response reaches the processor: 401 for a rejected delivery, 500 for an
\* error outside the try block, 200 for everything else.
Answer(h) ==
    /\ step[h] \in {"answer200", "answer401", "answer500"}
    /\ acked' = IF step[h] = "answer200" /\ signed[h] THEN acked \cup {event[h]} ELSE acked
    /\ Then(h, "idle")
    /\ event' = [event EXCEPT ![h] = NoEvent]
    /\ signed' = [signed EXCEPT ![h] = FALSE]
    /\ UNCHANGED <<cases, deliveries, attempts, applied>>

\* A statement fails before it had any effect.
Fail(h) ==
    /\ Faults
    /\ step[h] \in TryBlock \cup {"record", "duplicate", "reject", "markFailed"}
    /\ Thrown(h)
    /\ Stay
    /\ UNCHANGED <<cases, deliveries, applied>>

\* The process dies and is started again; the requests in progress are gone.
Crash ==
    /\ Faults
    /\ \E h \in Handlers : step[h] # "idle"
    /\ step' = [h \in Handlers |-> "idle"]
    /\ event' = [h \in Handlers |-> NoEvent]
    /\ signed' = [h \in Handlers |-> FALSE]
    /\ UNCHANGED <<cases, deliveries, attempts, acked, applied>>

-----------------------------------------------------------------------------
\* Meanwhile operators and the sweep use the same cases through the other calls.

OthersCall ==
    /\ \E c \in Cases :
        \/ Open(c)
        \/ AddEvidence(c) /\ ~cases[c].evidence
        \/ \E t \in Transitions :
            t.triggeredBy # "PROCESSOR_EVENT" /\ ChangeStatus(c, t.to, t.triggeredBy)
    /\ UNCHANGED <<deliveries, handlerVars, attempts, acked, applied>>

HandlerStep(h) ==
    \/ RecordDelivery(h) \/ FindDelivery(h) \/ RejectUnsigned(h)
    \/ FindTransaction(h) \/ OpenDispute(h)
    \/ IgnoreUnknown(h)
    \/ FindDispute(h) \/ ChangeReported(h)
    \/ MarkProcessed(h) \/ MarkFailed(h)
    \/ Answer(h)

\* Every event was sent as often as it will be and every request is answered.
Quiet == (\A h \in Handlers : step[h] = "idle") /\ UNCHANGED allVars

NextDelivery ==
    \/ \E h \in Handlers :
        \/ \E e \in EventIds, copy \in Copies : Receive(h, e, copy)
        \/ HandlerStep(h)
        \/ Fail(h)
    \/ Crash
    \/ OthersCall
    \/ Quiet

DeliverySpec == InitDelivery /\ [][NextDelivery]_allVars

\* A request that is being worked on goes on.
FairDeliverySpec == DeliverySpec /\ \A h \in Handlers : WF_allVars(HandlerStep(h))

-----------------------------------------------------------------------------
\* What deliveries must keep

DeliveryTypeOK ==
    /\ CasesTypeOK
    /\ deliveries \in [EventIds ->
            [status : {"none", "RECEIVED", "PROCESSED", "IGNORED", "FAILED"},
             signed : BOOLEAN, linked : BOOLEAN]]
    /\ step \in [Handlers -> TryBlock \cup
            {"idle", "record", "duplicate", "reject", "markFailed",
             "answer200", "answer401", "answer500"}]
    /\ event \in [Handlers -> EventIds \cup {NoEvent}]
    /\ signed \in [Handlers -> BOOLEAN]
    /\ attempts \in [EventIds -> Nat]
    /\ acked \subseteq EventIds
    /\ applied \subseteq EventIds

\* Nobody is working on the event.
AtRest(e) == \A h \in Handlers : event[h] = e => ~Working(h)

\* Copies of one event are never worked on by two requests at once: the unique
\* index gives the row to one of them, and the others answer as duplicates.
OneHandlerPerEvent ==
    \A g, h \in Handlers : g # h /\ Working(g) /\ Working(h) => event[g] # event[h]

\* A delivery nobody is working on is never touched again, however often the
\* event is sent after that: a retry neither reprocesses nor re-marks it.
NeverTakenUpAgain ==
    [][\A e \in EventIds :
        Recorded(e) /\ AtRest(e) =>
            /\ deliveries'[e] = deliveries[e]
            /\ e \in applied' => e \in applied]_allVars

\* A case changes on behalf of an event only if the recorded delivery of it
\* carried a valid signature: a signed copy that comes after an unsigned one,
\* or the other way round, does not lend it its signature.
SignedBeforeApplied == \A e \in applied : deliveries[e].signed

\* PROCESSED is truthful across crashes and lost answers: the change of the
\* case is committed, the case is there, and the delivery is linked to it; an
\* IGNORED delivery changed nothing.
ProcessedIsApplied ==
    \A e \in EventIds :
        /\ deliveries[e].status = "PROCESSED" =>
                e \in applied /\ EventOf[e].case \in Opened /\ deliveries[e].linked
        /\ deliveries[e].status = "IGNORED" => e \notin applied

\* Without failures the row tells what happened to the case: once nobody works
\* on a recorded event, it is PROCESSED exactly if it changed its case.
SettledTruthfully ==
    \A e \in EventIds :
        Recorded(e) /\ AtRest(e) => (deliveries[e].status = "PROCESSED" <=> e \in applied)

\* Every request is answered, whatever the operators do to the case meanwhile.
EveryRequestAnswered == \A h \in Handlers : step[h] # "idle" ~> step[h] = "idle"

\* Without failures every recorded delivery is settled.
RecordedIsSettled ==
    \A e \in EventIds : deliveries[e].status = "RECEIVED"
                            ~> deliveries[e].status \in {"PROCESSED", "IGNORED", "FAILED"}

\* What migrations/008 says: the database "guarantees each delivery is handled
\* once", so an event whose signed delivery was answered with 200 was handled
\* by a request that accepted its signature.
AckedIsHandled ==
    \A e \in acked :
        deliveries[e].signed /\ (AtRest(e) => deliveries[e].status # "RECEIVED")
=============================================================================
