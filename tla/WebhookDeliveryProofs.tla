------------------------ MODULE WebhookDeliveryProofs ------------------------
(***************************************************************************)
(* Proofs that a delivery is worked on by one request, for a signed event, *)
(* once, and that its row tells what came of it.                           *)
(***************************************************************************)
EXTENDS WebhookDelivery, TLAPS

USE TableAssumption, EventsAssumption, AttemptsAssumption, FaultsAssumption

\* What a handler that works on a delivery may rely on: the row is its own, it
\* is as it left it, and tells whether the request was signed.
InOrder(h) ==
    /\ step[h] # "idle" => event[h] \in EventIds
    /\ Working(h) => Recorded(event[h]) /\ deliveries[event[h]].signed = signed[h]
    /\ step[h] \in TryBlock => signed[h] /\ deliveries[event[h]].status = "RECEIVED"
    /\ step[h] \in TryBlock \ {"markProcessed"} => event[h] \notin applied
    /\ step[h] = "markProcessed" => event[h] \in applied /\ EventOf[event[h]].case \in Opened

\* Only recorded, signed deliveries have changed a case.
AppliedRecorded == \A e \in applied : Recorded(e) /\ deliveries[e].signed

DeliveryInv ==
    /\ DeliveryTypeOK
    /\ \A h \in Handlers : InOrder(h)
    /\ OneHandlerPerEvent
    /\ AppliedRecorded
    /\ ProcessedIsApplied

\* Without failures an applied change is on its way to PROCESSED, and a request
\* that failed changed nothing.
FaultFreeInv ==
    /\ \A h \in Handlers : step[h] \in {"reject", "markFailed"} => event[h] \notin applied
    /\ \A e \in applied :
        \/ deliveries[e].status = "PROCESSED"
        \/ \E h \in Handlers : event[h] = e /\ step[h] = "markProcessed"

-----------------------------------------------------------------------------
\* What the calls of DisputeCase do to the cases: each keeps their type, and
\* none makes a case disappear.
Changes ==
    \/ \E c \in Cases : Open(c) \/ AddEvidence(c)
    \/ \E c \in Cases : \E to, by : ChangeStatus(c, to, by)

\* A step of the cases keeps their type and every open case.
LEMMA OpenedStays ==
    ASSUME CasesTypeOK, Changes \/ UNCHANGED cases
    PROVE  CasesTypeOK' /\ Opened \subseteq Opened'
<1>1. ASSUME NEW c \in Cases, Open(c) PROVE CasesTypeOK' /\ Opened \subseteq Opened'
  BY <1>1 DEF Open, CasesTypeOK, Opened
<1>2. ASSUME NEW c \in Cases, AddEvidence(c) PROVE CasesTypeOK' /\ Opened \subseteq Opened'
  BY <1>2 DEF AddEvidence, CasesTypeOK, Opened
<1>3. ASSUME NEW c \in Cases, NEW to, NEW by, ChangeStatus(c, to, by)
      PROVE  CasesTypeOK' /\ Opened \subseteq Opened'
  <2>1. to \in Statuses
    BY <1>3 DEF ChangeStatus, MoveVerdict, AssertTransition, CanTransition, FindTransition
  <2> QED BY <1>3, <2>1 DEF ChangeStatus, CasesTypeOK, Opened
<1>4. CASE UNCHANGED cases
  BY <1>4 DEF CasesTypeOK, Opened
<1> QED BY <1>1, <1>2, <1>3, <1>4 DEF Changes

\* An opened case is there.
LEMMA OpenedNow == \A c \in Cases : CasesTypeOK /\ Open(c) => c \in Opened'
  BY DEF CasesTypeOK, Open, Opened

\* Where a handler may stand.
Steps == TryBlock \cup {"idle", "record", "duplicate", "reject", "markFailed",
                        "answer200", "answer401", "answer500"}

\* Handler h moves, and nobody else does.
StepOf(h) ==
    /\ step' \in [Handlers -> Steps]
    /\ \A g \in Handlers \ {h} : step'[g] = step[g]

\* A step whose answer may get lost.
LEMMA CommittedMoves ==
    ASSUME DeliveryTypeOK, NEW h \in Handlers, NEW next \in Steps, Committed(h, next)
    PROVE  /\ StepOf(h)
           /\ \/ step'[h] = next
              \/ Faults /\ step'[h] = IF step[h] \in TryBlock THEN "markFailed" ELSE "answer500"
<1>1. CASE Then(h, next)
  BY <1>1 DEF Then, DeliveryTypeOK, StepOf, Steps
<1>2. CASE Faults /\ Thrown(h)
  BY <1>2 DEF Thrown, Caught, Then, DeliveryTypeOK, StepOf, Steps
<1> QED BY <1>1, <1>2 DEF Committed

\* The delivery of handler h is marked.
LEMMA MarkedRow ==
    ASSUME DeliveryTypeOK, NEW e \in EventIds,
           NEW status \in {"PROCESSED", "IGNORED", "FAILED"}, NEW linked \in BOOLEAN,
           Mark(e, status, linked)
    PROVE  /\ deliveries' \in [EventIds ->
                    [status : {"none", "RECEIVED", "PROCESSED", "IGNORED", "FAILED"},
                     signed : BOOLEAN, linked : BOOLEAN]]
           /\ \A f \in EventIds \ {e} : deliveries'[f] = deliveries[f]
           /\ deliveries'[e].status = status /\ deliveries'[e].linked = linked
           /\ deliveries'[e].signed = deliveries[e].signed
<1>1. PICK row : row = deliveries[e]
  OBVIOUS
<1>2. row = [status |-> row.status, signed |-> row.signed, linked |-> row.linked]
      /\ row.signed \in BOOLEAN
  BY <1>1 DEF DeliveryTypeOK
<1>3. PICK mid : mid = [row EXCEPT !.status = status]
  OBVIOUS
<1>4. [mid EXCEPT !.linked = linked] =
            [status |-> status, signed |-> row.signed, linked |-> linked]
  <2>1. mid = [status |-> status, signed |-> row.signed, linked |-> row.linked]
    BY <1>2, <1>3
  <2> QED BY <2>1
<1>5. deliveries' = [deliveries EXCEPT ![e] =
                        [status |-> status, signed |-> row.signed, linked |-> linked]]
  BY <1>1, <1>3, <1>4 DEF Mark, DeliveryTypeOK
<1> QED BY <1>1, <1>2, <1>5 DEF DeliveryTypeOK

\* What the row of an event tells is true.
RowTruth(e) ==
    /\ e \in applied => Recorded(e) /\ deliveries[e].signed
    /\ deliveries[e].status = "PROCESSED" =>
            e \in applied /\ EventOf[e].case \in Opened /\ deliveries[e].linked
    /\ deliveries[e].status = "IGNORED" => e \notin applied

\* DeliveryInv speaks of the rows one by one.
LEMMA TruthByRow ==
    /\ DeliveryTypeOK => (AppliedRecorded /\ ProcessedIsApplied <=>
                            \A e \in EventIds : RowTruth(e))
    /\ DeliveryTypeOK' => (AppliedRecorded' /\ ProcessedIsApplied' <=>
                            \A e \in EventIds : RowTruth(e)')
  BY DEF DeliveryTypeOK, AppliedRecorded, ProcessedIsApplied, RowTruth

\* Nobody else works on event e.
Owns(h, e) == \A g \in Handlers \ {h} : Working(g) => event[g] # e

\* A step of handler h that touches nothing but its own event, which is its own.
LEMMA OwnEventStep ==
    ASSUME DeliveryInv, DeliveryTypeOK', NEW h \in Handlers, NEW e \in EventIds,
           StepOf(h), UNCHANGED <<event, signed>>, Opened \subseteq Opened',
           event[h] = e, Owns(h, e),
           \A f \in EventIds \ {e} : deliveries'[f] = deliveries[f],
           applied \subseteq applied', applied' \subseteq applied \cup {e},
           InOrder(h)', RowTruth(e)'
    PROVE  DeliveryInv'
<1>1. \A g \in Handlers \ {h} : step'[g] = step[g] /\ (Working(g)' <=> Working(g))
                                /\ event'[g] = event[g] /\ signed'[g] = signed[g]
  BY DEF StepOf, Working
<1>2. \A g \in Handlers : InOrder(g)'
  <2> SUFFICES ASSUME NEW g \in Handlers \ {h} PROVE InOrder(g)'
    OBVIOUS
  <2>1. InOrder(g) /\ (step[g] # "idle" => event[g] \in EventIds)
    BY DEF DeliveryInv, InOrder
  <2>2. CASE Working(g)
    <3>1. event[g] # e /\ event[g] \in EventIds
      BY <2>1, <2>2 DEF Owns, Working, TryBlock
    <3>2. deliveries'[event[g]] = deliveries[event[g]]
          /\ (event[g] \in applied' <=> event[g] \in applied)
      BY <3>1
    <3> QED BY <1>1, <2>1, <3>1, <3>2 DEF InOrder, Recorded
  <2>3. CASE ~Working(g)
    BY <1>1, <2>1, <2>3 DEF InOrder, Working
  <2> QED BY <2>2, <2>3
<1>3. OneHandlerPerEvent'
  <2>1. event' = event
    OBVIOUS
  <2>2. \A g \in Handlers \ {h} : Working(g)' => event[g] # event[h]
    BY <1>1 DEF Owns
  <2>3. \A f, g \in Handlers \ {h} : f # g /\ Working(f)' /\ Working(g)' => event[f] # event[g]
    BY <1>1 DEF DeliveryInv, OneHandlerPerEvent
  <2> QED BY <2>1, <2>2, <2>3 DEF OneHandlerPerEvent
<1>4. \A f \in EventIds \ {e} : RowTruth(f)'
  <2>1. \A f \in EventIds : RowTruth(f)
    BY TruthByRow DEF DeliveryInv
  <2> QED BY <2>1 DEF RowTruth, Recorded
<1> QED BY <1>2, <1>3, <1>4, TruthByRow DEF DeliveryInv

\* A step that takes no row leaves them all as they are.
LEMMA NoRowTaken ==
    ASSUME DeliveryInv, DeliveryTypeOK', UNCHANGED <<deliveries, applied>>,
           Opened \subseteq Opened',
           \A g \in Handlers :
              \/ step'[g] = step[g] /\ event'[g] = event[g] /\ signed'[g] = signed[g]
              \/ ~Working(g)' /\ (step'[g] # "idle" => event'[g] \in EventIds)
    PROVE  DeliveryInv'
<1>1. \A g \in Handlers : InOrder(g)'
  <2> SUFFICES ASSUME NEW g \in Handlers PROVE InOrder(g)'
    OBVIOUS
  <2>1. InOrder(g)
    BY DEF DeliveryInv
  <2>2. CASE step'[g] = step[g] /\ event'[g] = event[g] /\ signed'[g] = signed[g]
    BY <2>1, <2>2 DEF InOrder, Working, Recorded
  <2>3. CASE ~Working(g)' /\ (step'[g] # "idle" => event'[g] \in EventIds)
    BY <2>3 DEF InOrder, Working, TryBlock
  <2> QED BY <2>2, <2>3
<1>2. OneHandlerPerEvent'
  BY DEF DeliveryInv, OneHandlerPerEvent, Working
<1>3. \A e \in EventIds : RowTruth(e) => RowTruth(e)'
  BY DEF RowTruth, Recorded
<1> QED BY <1>1, <1>2, <1>3, TruthByRow DEF DeliveryInv

-----------------------------------------------------------------------------
\* The delivery a handler works on is its own.
LEMMA WorkerOwns ==
    ASSUME DeliveryInv, NEW h \in Handlers, Working(h) \/ ~Recorded(event[h])
    PROVE  Owns(h, event[h])
<1> SUFFICES ASSUME NEW g \in Handlers \ {h}, Working(g) PROVE event[g] # event[h]
  BY DEF Owns
<1>1. CASE Working(h)
  BY <1>1 DEF DeliveryInv, OneHandlerPerEvent
<1>2. CASE ~Recorded(event[h])
  BY <1>2 DEF DeliveryInv, InOrder
<1> QED BY <1>1, <1>2

\* The type of the state after a handler's step.
LEMMA StepTyped ==
    ASSUME DeliveryInv, NEW h \in Handlers, StepOf(h), CasesTypeOK', Stay,
           deliveries' \in [EventIds ->
                [status : {"none", "RECEIVED", "PROCESSED", "IGNORED", "FAILED"},
                 signed : BOOLEAN, linked : BOOLEAN]],
           applied' \subseteq EventIds
    PROVE  DeliveryTypeOK'
  BY DEF DeliveryInv, DeliveryTypeOK, Stay, StepOf, Steps

\* A handler that marks its delivery.
LEMMA MarkKeeps ==
    ASSUME DeliveryInv, NEW h \in Handlers, Working(h),
           NEW status \in {"PROCESSED", "IGNORED", "FAILED"}, NEW linked \in BOOLEAN,
           Mark(event[h], status, linked), StepOf(h), Stay, UNCHANGED <<cases, applied>>,
           step'[h] \in {"markFailed", "answer200", "answer401", "answer500"},
           status = "PROCESSED" => step[h] = "markProcessed" /\ linked,
           status = "IGNORED" => step[h] = "ignore"
    PROVE  DeliveryInv'
<1>1. PICK e \in EventIds : e = event[h]
  BY DEF DeliveryInv, InOrder, Working, TryBlock
<1>2. /\ deliveries' \in [EventIds ->
                    [status : {"none", "RECEIVED", "PROCESSED", "IGNORED", "FAILED"},
                     signed : BOOLEAN, linked : BOOLEAN]]
      /\ \A f \in EventIds \ {e} : deliveries'[f] = deliveries[f]
      /\ deliveries'[e].status = status /\ deliveries'[e].linked = linked
      /\ deliveries'[e].signed = deliveries[e].signed
  BY <1>1, MarkedRow DEF DeliveryInv
<1>3. InOrder(h) /\ RowTruth(e) /\ Owns(h, e) /\ CasesTypeOK' /\ Opened' = Opened
      /\ applied \subseteq EventIds
  BY <1>1, WorkerOwns, TruthByRow DEF DeliveryInv, DeliveryTypeOK, CasesTypeOK, Opened
<1>4. DeliveryTypeOK'
  BY <1>2, <1>3, StepTyped
<1>5. InOrder(h)'
  BY <1>1, <1>2, <1>3 DEF InOrder, Stay, Recorded, Working, TryBlock
<1>6. RowTruth(e)'
  BY <1>1, <1>2, <1>3 DEF RowTruth, Recorded, InOrder, TryBlock
<1> QED BY <1>1, <1>2, <1>3, <1>4, <1>5, <1>6, OwnEventStep DEF Stay

\* A handler that goes on within its own delivery, or ends it, with nothing done.
LEMMA GoOnKeeps ==
    ASSUME DeliveryInv, NEW h \in Handlers, StepOf(h), Stay,
           UNCHANGED <<cases, deliveries, applied>>, step[h] # "idle",
           \/ step'[h] \in {"duplicate", "answer200", "answer401", "answer500"}
           \/ Working(h) /\ step'[h] = "markFailed"
           \/ /\ step[h] \in TryBlock \ {"markProcessed"}
              /\ step'[h] \in TryBlock \ {"markProcessed"}
    PROVE  DeliveryInv'
<1>1. PICK e \in EventIds : e = event[h]
  BY DEF DeliveryInv, InOrder
<1>2. CasesTypeOK' /\ Opened' = Opened /\ InOrder(h) /\ RowTruth(e)
      /\ applied \subseteq EventIds
  BY TruthByRow DEF DeliveryInv, DeliveryTypeOK, CasesTypeOK, Opened
<1>3. DeliveryTypeOK'
  BY <1>2, StepTyped DEF DeliveryInv, DeliveryTypeOK
<1>4. CASE step'[h] \in {"duplicate", "answer200", "answer401", "answer500"}
  <2>1. ~Working(h)' /\ event'[h] \in EventIds
    BY <1>1, <1>4 DEF Working, TryBlock, Stay
  <2> QED BY <1>2, <1>3, <2>1, NoRowTaken DEF StepOf, Stay
<1>5. CASE step'[h] \notin {"duplicate", "answer200", "answer401", "answer500"}
  <2>1. Working(h)
    BY <1>5 DEF Working
  <2>2. InOrder(h)'
    BY <1>1, <1>2, <1>5, <2>1 DEF InOrder, Stay, Recorded, Working, TryBlock
  <2>3. RowTruth(e)'
    BY <1>2 DEF RowTruth, Recorded
  <2> QED BY <1>1, <1>2, <1>3, <2>1, <2>2, <2>3, WorkerOwns, OwnEventStep DEF Stay
<1> QED BY <1>4, <1>5

\* A handler that has changed its case.
LEMMA ApplyKeeps ==
    ASSUME DeliveryInv, NEW h \in Handlers, step[h] \in TryBlock \ {"markProcessed"},
           StepOf(h), Stay, step'[h] \in {"markProcessed", "markFailed"}, UNCHANGED deliveries,
           Changes, applied' = applied \cup {event[h]}, EventOf[event[h]].case \in Opened'
    PROVE  DeliveryInv'
<1>1. PICK e \in EventIds : e = event[h]
  BY DEF DeliveryInv, InOrder, TryBlock
<1>2. /\ CasesTypeOK' /\ Opened \subseteq Opened' /\ InOrder(h) /\ RowTruth(e)
      /\ applied \subseteq EventIds /\ Working(h)
  BY OpenedStays, TruthByRow DEF DeliveryInv, DeliveryTypeOK, Working
<1>3. DeliveryTypeOK'
  BY <1>1, <1>2, StepTyped DEF DeliveryInv, DeliveryTypeOK
<1>4. InOrder(h)'
  BY <1>1, <1>2 DEF InOrder, Stay, Recorded, Working, TryBlock
<1>5. RowTruth(e)'
  BY <1>1, <1>2 DEF RowTruth, Recorded, InOrder
<1> QED BY <1>1, <1>2, <1>3, <1>4, <1>5, WorkerOwns, OwnEventStep DEF Stay

-----------------------------------------------------------------------------
\* A step without failures.
LEMMA MovesOn ==
    ASSUME DeliveryTypeOK, NEW h \in Handlers, NEW next \in Steps, Then(h, next)
    PROVE  StepOf(h) /\ step'[h] = next
  BY DEF Then, DeliveryTypeOK, StepOf, Steps

\* A signed delivery, and no other, is acted on.
LEMMA DispatchSteps ==
    ASSUME NEW h \in Handlers
    PROVE  /\ Dispatch(h) \in {"reject", "findTransaction", "ignore", "findDispute"}
           /\ Dispatch(h) # "reject" <=> signed[h]
  BY DEF Dispatch

\* A request comes in: the handler has no delivery yet.
LEMMA ReceiveKeeps ==
    ASSUME DeliveryInv, NEW h \in Handlers, NEW e \in EventIds, NEW copy \in Copies,
           Receive(h, e, copy)
    PROVE  DeliveryInv'
<1>1. DeliveryTypeOK /\ attempts[e] \in Nat
  BY DEF DeliveryInv, DeliveryTypeOK
<1>2. StepOf(h) /\ step'[h] = "record"
  BY <1>1, MovesOn DEF Receive, Steps
<1>3. /\ event' = [event EXCEPT ![h] = e] /\ attempts' = [attempts EXCEPT ![e] = @ + 1]
      /\ \E b \in BOOLEAN : signed' = [signed EXCEPT ![h] = b]
      /\ UNCHANGED <<cases, deliveries, acked, applied>>
  BY DEF Receive
<1>4. CasesTypeOK' /\ Opened' = Opened
  BY <1>1, <1>3 DEF DeliveryTypeOK, CasesTypeOK, Opened
<1>5. DeliveryTypeOK'
  BY <1>1, <1>2, <1>3, <1>4 DEF DeliveryTypeOK, StepOf, Steps
<1>6. /\ \A g \in Handlers \ {h} : step'[g] = step[g] /\ event'[g] = event[g]
                                   /\ signed'[g] = signed[g]
      /\ event'[h] \in EventIds /\ ~Working(h)'
  BY <1>1, <1>2, <1>3 DEF DeliveryTypeOK, StepOf, Working, TryBlock
<1> QED BY <1>3, <1>4, <1>5, <1>6, NoRowTaken

\* The insert: the row is the handler's, or there is one already.
LEMMA RecordKeeps ==
    ASSUME DeliveryInv, NEW h \in Handlers, RecordDelivery(h)
    PROVE  DeliveryInv'
<1>1. /\ DeliveryTypeOK /\ step[h] = "record" /\ InOrder(h) /\ Stay
      /\ UNCHANGED <<cases, applied>>
  BY DEF DeliveryInv, RecordDelivery
<1>2. PICK e \in EventIds : e = event[h]
  BY <1>1 DEF InOrder
<1>3. CASE Recorded(event[h])
  <2>1. StepOf(h) /\ step'[h] \in {"duplicate", "answer500"}
    BY <1>1, <1>3, CommittedMoves DEF RecordDelivery, Steps, TryBlock
  <2> QED BY <1>1, <1>3, <2>1, GoOnKeeps DEF RecordDelivery
<1>4. CASE ~Recorded(event[h])
  <2>1. /\ StepOf(h)
        /\ step'[h] \in {"reject", "findTransaction", "ignore", "findDispute", "answer500"}
        /\ step'[h] = "reject" => ~signed[h]
        /\ step'[h] \in {"findTransaction", "ignore", "findDispute"} => signed[h]
    <3>1. Dispatch(h) \in Steps /\ Committed(h, Dispatch(h))
      BY <1>4, DispatchSteps DEF RecordDelivery, Steps, TryBlock
    <3>2. /\ StepOf(h)
          /\ step'[h] = Dispatch(h) \/ step'[h] = "answer500"
      BY <1>1, <3>1, CommittedMoves DEF TryBlock
    <3> QED BY <3>2, DispatchSteps
  <2>2. /\ deliveries' = [deliveries EXCEPT ![e] =
                             [status |-> "RECEIVED", signed |-> signed[h], linked |-> FALSE]]
        /\ signed[h] \in BOOLEAN
    BY <1>1, <1>2, <1>4 DEF RecordDelivery, DeliveryTypeOK
  <2>3. /\ deliveries' \in [EventIds ->
                [status : {"none", "RECEIVED", "PROCESSED", "IGNORED", "FAILED"},
                 signed : BOOLEAN, linked : BOOLEAN]]
        /\ \A f \in EventIds \ {e} : deliveries'[f] = deliveries[f]
        /\ deliveries'[e].status = "RECEIVED" /\ deliveries'[e].signed = signed[h]
    BY <1>1, <2>2 DEF DeliveryTypeOK
  <2>4. /\ CasesTypeOK' /\ Opened' = Opened /\ RowTruth(e) /\ e \notin applied
        /\ applied \subseteq EventIds
    BY <1>1, <1>2, <1>4, TruthByRow DEF DeliveryInv, DeliveryTypeOK, CasesTypeOK, Opened, RowTruth
  <2>5. DeliveryTypeOK'
    BY <1>1, <2>1, <2>3, <2>4, StepTyped
  <2>6. InOrder(h)'
    BY <1>1, <1>2, <2>1, <2>3, <2>4 DEF InOrder, Stay, Recorded, Working, TryBlock
  <2>7. RowTruth(e)'
    BY <1>1, <2>3, <2>4 DEF RowTruth
  <2> QED BY <1>1, <1>2, <1>4, <2>1, <2>3, <2>4, <2>5, <2>6, <2>7, WorkerOwns, OwnEventStep
          DEF Stay
<1> QED BY <1>3, <1>4

\* The marks.
LEMMA MarksKeep ==
    ASSUME DeliveryInv, NEW h \in Handlers,
           RejectUnsigned(h) \/ IgnoreUnknown(h) \/ MarkProcessed(h) \/ MarkFailed(h)
    PROVE  DeliveryInv'
<1>1. /\ DeliveryTypeOK /\ Stay /\ UNCHANGED <<cases, applied>>
      /\ "answer200" \in Steps /\ "answer401" \in Steps
  BY DEF DeliveryInv, RejectUnsigned, IgnoreUnknown, MarkProcessed, MarkFailed, Steps
<1>2. Working(h)
  BY DEF RejectUnsigned, IgnoreUnknown, MarkProcessed, MarkFailed, Working, TryBlock
<1>3. /\ StepOf(h)
      /\ step'[h] \in {"answer200", "answer401", "answer500", "markFailed"}
  <2>1. Committed(h, "answer200") \/ Committed(h, "answer401")
    BY DEF RejectUnsigned, IgnoreUnknown, MarkProcessed, MarkFailed
  <2> QED BY <1>1, <2>1, CommittedMoves
<1>4. \E status \in {"PROCESSED", "IGNORED", "FAILED"}, linked \in BOOLEAN :
        /\ Mark(event[h], status, linked)
        /\ status = "PROCESSED" => step[h] = "markProcessed" /\ linked
        /\ status = "IGNORED" => step[h] = "ignore"
  BY DEF RejectUnsigned, IgnoreUnknown, MarkProcessed, MarkFailed
<1> QED BY <1>1, <1>2, <1>3, <1>4, MarkKeeps

\* The lookups, the answers, and a statement that fails.
LEMMA LookupsKeep ==
    ASSUME DeliveryInv, NEW h \in Handlers,
           FindDelivery(h) \/ FindTransaction(h) \/ FindDispute(h) \/ Fail(h)
    PROVE  DeliveryInv'
<1>1. DeliveryTypeOK /\ Stay /\ UNCHANGED <<cases, deliveries, applied>>
  BY DEF DeliveryInv, FindDelivery, FindTransaction, FindDispute, Fail
<1>2. CASE FindDelivery(h)
  <2>1. StepOf(h) /\ step'[h] = "answer200" /\ step[h] = "duplicate"
    BY <1>1, <1>2, MovesOn DEF FindDelivery, Steps
  <2> QED BY <1>1, <2>1, GoOnKeeps
<1>3. CASE FindTransaction(h) \/ FindDispute(h)
  <2>1. step[h] \in {"findTransaction", "findDispute"}
    BY <1>3 DEF FindTransaction, FindDispute
  <2>2. \E next \in {"markFailed", "openDispute", "changeStatus"} : Then(h, next)
    BY <1>3 DEF FindTransaction, FindDispute, Caught
  <2>3. StepOf(h) /\ step'[h] \in {"markFailed", "openDispute", "changeStatus"}
    BY <1>1, <2>2, MovesOn DEF Steps, TryBlock
  <2>4. Working(h)
    BY <2>1 DEF Working, TryBlock
  <2> QED BY <1>1, <2>1, <2>3, <2>4, GoOnKeeps DEF TryBlock
<1>4. CASE Fail(h)
  <2>1. /\ step[h] \in TryBlock \cup {"record", "duplicate", "reject", "markFailed"}
        /\ Then(h, IF step[h] \in TryBlock THEN "markFailed" ELSE "answer500")
    BY <1>4 DEF Fail, Thrown, Caught
  <2>2. /\ StepOf(h)
        /\ step'[h] = IF step[h] \in TryBlock THEN "markFailed" ELSE "answer500"
    BY <1>1, <2>1, MovesOn DEF Steps
  <2> QED BY <1>1, <2>1, <2>2, GoOnKeeps DEF Working, TryBlock
<1> QED BY <1>2, <1>3, <1>4

\* The calls that change the case.
LEMMA CallsKeep ==
    ASSUME DeliveryInv, NEW h \in Handlers, OpenDispute(h) \/ ChangeReported(h)
    PROVE  DeliveryInv'
<1>1. /\ DeliveryTypeOK /\ CasesTypeOK /\ Stay /\ UNCHANGED deliveries /\ InOrder(h)
      /\ step[h] \in TryBlock \ {"markProcessed"} /\ Working(h)
  BY DEF DeliveryInv, DeliveryTypeOK, OpenDispute, ChangeReported, TryBlock, Working
<1>2. PICK c \in Cases : c = EventOf[event[h]].case
  BY <1>1 DEF InOrder, TryBlock, EventContent
<1>3. CASE UNCHANGED <<cases, applied>> /\ Caught(h)
  <2>1. StepOf(h) /\ step'[h] = "markFailed"
    BY <1>1, <1>3, MovesOn DEF Caught, Steps
  <2> QED BY <1>1, <1>3, <2>1, GoOnKeeps DEF TryBlock
<1>4. CASE Committed(h, "markProcessed") /\ applied' = applied \cup {event[h]}
           /\ (Open(c) \/ \E to, by : ChangeStatus(c, to, by))
  <2>1. StepOf(h) /\ step'[h] \in {"markProcessed", "markFailed"}
    BY <1>1, <1>4, CommittedMoves DEF Steps, TryBlock
  <2>2. Changes
    BY <1>4 DEF Changes
  <2>3. c \in Opened'
    BY <1>1, <1>4, <2>2, OpenedNow, OpenedStays DEF ChangeStatus
  <2> QED BY <1>1, <1>2, <1>4, <2>1, <2>2, <2>3, ApplyKeeps
<1> QED BY <1>2, <1>3, <1>4 DEF OpenDispute, ChangeReported

\* A handler that has answered, or lost its process, works on nothing.
LEMMA EndsKeep ==
    ASSUME DeliveryInv, Crash \/ \E h \in Handlers : Answer(h)
    PROVE  DeliveryInv'
<1>1. DeliveryTypeOK /\ UNCHANGED <<cases, deliveries, attempts, applied>>
  BY DEF DeliveryInv, Crash, Answer
<1>2. CasesTypeOK' /\ Opened' = Opened
  BY <1>1 DEF DeliveryTypeOK, CasesTypeOK, Opened
<1>3. CASE Crash
  <2>1. DeliveryTypeOK'
    BY <1>1, <1>2, <1>3 DEF Crash, DeliveryTypeOK
  <2>2. \A g \in Handlers : ~Working(g)' /\ step'[g] = "idle"
    BY <1>3 DEF Crash, Working, TryBlock
  <2> QED BY <1>1, <1>2, <2>1, <2>2, NoRowTaken
<1>4. ASSUME NEW h \in Handlers, Answer(h) PROVE DeliveryInv'
  <2>1. StepOf(h) /\ step'[h] = "idle"
    BY <1>1, <1>4, MovesOn DEF Answer, Steps
  <2>2. event[h] \in EventIds
    BY <1>4 DEF DeliveryInv, InOrder, Answer
  <2>3. DeliveryTypeOK'
    BY <1>1, <1>2, <1>4, <2>1, <2>2 DEF Answer, DeliveryTypeOK, StepOf, Steps
  <2>4. /\ \A g \in Handlers \ {h} : step'[g] = step[g] /\ event'[g] = event[g]
                                     /\ signed'[g] = signed[g]
        /\ ~Working(h)'
    BY <1>1, <1>4, <2>1 DEF Answer, StepOf, Working, TryBlock, DeliveryTypeOK
  <2> QED BY <1>1, <1>2, <2>1, <2>3, <2>4, NoRowTaken
<1> QED BY <1>3, <1>4

\* Other callers change cases, and no delivery.
LEMMA OthersKeep ==
    ASSUME DeliveryInv, OthersCall \/ UNCHANGED allVars
    PROVE  DeliveryInv'
<1>1. UNCHANGED <<deliveries, step, event, signed, attempts, acked, applied>>
  BY DEF OthersCall, allVars, handlerVars
<1>2. Changes \/ UNCHANGED cases
  BY DEF OthersCall, Changes, allVars
<1>3. CasesTypeOK' /\ Opened \subseteq Opened'
  BY <1>2, OpenedStays DEF DeliveryInv, DeliveryTypeOK
<1>4. DeliveryTypeOK'
  BY <1>1, <1>3 DEF DeliveryInv, DeliveryTypeOK
<1> QED BY <1>1, <1>3, <1>4, NoRowTaken

\* Nothing is recorded at first.
LEMMA InitDeliveries == InitDelivery => DeliveryInv
  BY DEF InitDelivery, InitCases, NoCase, NoDelivery, DeliveryInv, DeliveryTypeOK, CasesTypeOK,
         InOrder, Working, TryBlock, OneHandlerPerEvent, AppliedRecorded, ProcessedIsApplied

\* DeliveryInv is inductive.
LEMMA NextDeliveries == DeliveryInv /\ [NextDelivery]_allVars => DeliveryInv'
<1> SUFFICES ASSUME DeliveryInv, [NextDelivery]_allVars PROVE DeliveryInv'
  OBVIOUS
<1>1. ASSUME NEW h \in Handlers, HandlerStep(h) PROVE DeliveryInv'
  BY <1>1, RecordKeeps, LookupsKeep, MarksKeep, CallsKeep, EndsKeep DEF HandlerStep
<1> QED BY <1>1, ReceiveKeeps, LookupsKeep, EndsKeep, OthersKeep DEF NextDelivery, Quiet

\* Whatever is sent, fails or dies, DeliveryInv holds.
THEOREM DeliveriesHold == DeliverySpec => []DeliveryInv
<1>1. InitDelivery => DeliveryInv BY InitDeliveries
<1>2. DeliveryInv /\ [NextDelivery]_allVars => DeliveryInv' BY NextDeliveries
<1> QED BY <1>1, <1>2, PTL DEF DeliverySpec

\* The rows, and what handlers hold, are always well typed.
THEOREM DeliveriesTyped == DeliverySpec => []DeliveryTypeOK
  BY DeliveriesHold, PTL DEF DeliveryInv

\* However many copies of an event come in, one request works on it.
THEOREM OneWorker == DeliverySpec => []OneHandlerPerEvent
  BY DeliveriesHold, PTL DEF DeliveryInv

\* No case changes on behalf of a delivery that was not signed.
THEOREM OnlySignedApplied == DeliverySpec => []SignedBeforeApplied
<1>1. DeliveryInv => SignedBeforeApplied
  BY DEF DeliveryInv, AppliedRecorded, SignedBeforeApplied
<1> QED BY <1>1, DeliveriesHold, PTL

\* PROCESSED and IGNORED tell what happened to the case, whatever failed.
THEOREM ProcessedIsTrue == DeliverySpec => []ProcessedIsApplied
  BY DeliveriesHold, PTL DEF DeliveryInv

\* A step changes the row of an event, or applies it, only for a handler that
\* works on it or that records it.
LEMMA RowsAtRest ==
    ASSUME DeliveryInv, [NextDelivery]_allVars, NEW e \in EventIds, Recorded(e), AtRest(e)
    PROVE  deliveries'[e] = deliveries[e] /\ (e \in applied' => e \in applied)
<1>1. ASSUME UNCHANGED <<deliveries, applied>> PROVE deliveries'[e] = deliveries[e]
                                                     /\ (e \in applied' => e \in applied)
  BY <1>1
<1>2. ASSUME NEW h \in Handlers,
             \/ RejectUnsigned(h) \/ IgnoreUnknown(h) \/ MarkProcessed(h) \/ MarkFailed(h)
             \/ OpenDispute(h) \/ ChangeReported(h)
      PROVE  deliveries'[e] = deliveries[e] /\ (e \in applied' => e \in applied)
  <2>1. Working(h)
    BY <1>2 DEF Working, TryBlock, RejectUnsigned, IgnoreUnknown, MarkProcessed, MarkFailed,
                OpenDispute, ChangeReported
  <2>2. event[h] # e /\ event[h] \in EventIds
    BY <2>1 DEF AtRest, DeliveryInv, InOrder, Working, TryBlock
  <2>3. deliveries'[e] = deliveries[e]
    BY <1>2, <2>2 DEF Mark, RejectUnsigned, IgnoreUnknown, MarkProcessed, MarkFailed,
                      OpenDispute, ChangeReported, DeliveryInv, DeliveryTypeOK
  <2>4. applied' \subseteq applied \cup {event[h]}
    BY <1>2 DEF RejectUnsigned, IgnoreUnknown, MarkProcessed, MarkFailed, OpenDispute,
                ChangeReported
  <2> QED BY <2>2, <2>3, <2>4
<1>3. ASSUME NEW h \in Handlers, RecordDelivery(h)
      PROVE  deliveries'[e] = deliveries[e] /\ (e \in applied' => e \in applied)
  BY <1>3 DEF RecordDelivery, Recorded, DeliveryInv, DeliveryTypeOK
<1> QED BY <1>1, <1>2, <1>3 DEF NextDelivery, HandlerStep, Receive, FindDelivery, FindTransaction,
        FindDispute, Answer, Fail, Crash, OthersCall, Quiet, allVars

\* A retry of what is settled, or was abandoned in a crash, changes nothing.
THEOREM SettledStaysSettled == DeliverySpec => NeverTakenUpAgain
<1> DEFINE Untouched ==
        \A e \in EventIds :
            Recorded(e) /\ AtRest(e) =>
                /\ deliveries'[e] = deliveries[e]
                /\ e \in applied' => e \in applied
<1>1. DeliveryInv /\ [NextDelivery]_allVars => Untouched
  BY RowsAtRest
<1> QED BY <1>1, DeliveriesHold, PTL DEF DeliverySpec, NeverTakenUpAgain

-----------------------------------------------------------------------------
\* Without failures nothing is thrown between a change and its mark.

\* FaultFreeInv is inductive where nothing fails.
LEMMA FaultFreeStep ==
    ASSUME DeliveryInv, Faults = FALSE, FaultFreeInv, [NextDelivery]_allVars
    PROVE  FaultFreeInv'
<1>0. /\ DeliveryTypeOK /\ ~Faults
      /\ \A h \in Handlers : \A next : Committed(h, next) <=> Then(h, next)
  BY DEF DeliveryInv, Committed
<1>1. ASSUME UNCHANGED <<deliveries, applied, step, event>> PROVE FaultFreeInv'
  BY <1>1 DEF FaultFreeInv
<1>2. ASSUME NEW h \in Handlers, UNCHANGED <<deliveries, applied>>, StepOf(h),
             \A g \in Handlers \ {h} : event'[g] = event[g], step[h] # "markProcessed",
             step'[h] \in {"reject", "markFailed"} => event'[h] \notin applied
      PROVE  FaultFreeInv'
  BY <1>2 DEF FaultFreeInv, StepOf
<1>3. ASSUME NEW h \in Handlers, UNCHANGED <<deliveries, applied>>, Stay,
             \E next \in Steps : Then(h, next), step[h] # "markProcessed",
             step'[h] \in {"reject", "markFailed"} => event[h] \notin applied
      PROVE  FaultFreeInv'
  BY <1>0, <1>2, <1>3, MovesOn DEF Stay
<1>4. ASSUME NEW h \in Handlers, NEW e \in EventIds, NEW copy \in Copies, Receive(h, e, copy)
      PROVE  FaultFreeInv'
  <2>1. /\ StepOf(h) /\ step'[h] = "record" /\ step[h] = "idle"
        /\ \A g \in Handlers \ {h} : event'[g] = event[g]
    BY <1>0, <1>4, MovesOn DEF Receive, Steps, DeliveryTypeOK
  <2> QED BY <1>2, <1>4, <2>1 DEF Receive
<1>5. ASSUME NEW h \in Handlers, FindDelivery(h) \/ FindTransaction(h) \/ FindDispute(h)
      PROVE  FaultFreeInv'
  <2>1. /\ UNCHANGED <<deliveries, applied>> /\ Stay /\ step[h] # "markProcessed"
        /\ step[h] = "duplicate" => Then(h, "answer200")
        /\ step[h] # "duplicate" => event[h] \notin applied
        /\ \E next \in {"answer200", "openDispute", "changeStatus", "markFailed"} : Then(h, next)
    BY <1>5 DEF FindDelivery, FindTransaction, FindDispute, Caught, DeliveryInv, InOrder, TryBlock
  <2>2. step'[h] \in {"reject", "markFailed"} => event[h] \notin applied
    BY <1>0, <2>1, MovesOn DEF Steps
  <2> QED BY <1>3, <2>1, <2>2 DEF Steps, TryBlock
<1>6. ASSUME NEW h \in Handlers, Answer(h) PROVE FaultFreeInv'
  <2>1. /\ StepOf(h) /\ step'[h] = "idle" /\ step[h] # "markProcessed"
        /\ \A g \in Handlers \ {h} : event'[g] = event[g]
    BY <1>0, <1>6, MovesOn DEF Answer, Steps, DeliveryTypeOK
  <2> QED BY <1>2, <1>6, <2>1 DEF Answer
<1>7. ASSUME NEW h \in Handlers, RecordDelivery(h) PROVE FaultFreeInv'
  <2>1. /\ step[h] = "record" /\ Stay /\ UNCHANGED applied /\ event[h] \in EventIds
        /\ Recorded(event[h]) => UNCHANGED deliveries /\ Then(h, "duplicate")
        /\ ~Recorded(event[h]) => event[h] \notin applied /\ Then(h, Dispatch(h))
    BY <1>0, <1>7 DEF RecordDelivery, DeliveryInv, InOrder, AppliedRecorded
  <2>2. CASE Recorded(event[h])
    <3>1. step'[h] = "duplicate"
      BY <1>0, <2>1, <2>2, MovesOn DEF Steps
    <3> QED BY <1>3, <2>1, <2>2, <3>1 DEF Steps
  <2>3. CASE ~Recorded(event[h])
    <3>1. StepOf(h)
      BY <1>0, <2>1, <2>3, MovesOn, DispatchSteps DEF Steps, TryBlock
    <3>2. \A f \in EventIds : f # event[h] => deliveries'[f] = deliveries[f]
      BY <1>7, <2>3 DEF RecordDelivery, DeliveryInv, DeliveryTypeOK
    <3> QED BY <1>0, <2>1, <2>3, <3>1, <3>2 DEF FaultFreeInv, StepOf, Stay, DeliveryTypeOK
  <2> QED BY <2>2, <2>3
<1>8. ASSUME NEW h \in Handlers,
             RejectUnsigned(h) \/ IgnoreUnknown(h) \/ MarkFailed(h) \/ MarkProcessed(h)
      PROVE  FaultFreeInv'
  <2>1. /\ Stay /\ UNCHANGED applied /\ event[h] \in EventIds /\ applied \subseteq EventIds
        /\ step[h] = "markProcessed" \/ event[h] \notin applied
    BY <1>8 DEF RejectUnsigned, IgnoreUnknown, MarkFailed, MarkProcessed, DeliveryInv, InOrder,
                DeliveryTypeOK, TryBlock, FaultFreeInv
  <2>2. StepOf(h) /\ step'[h] \in {"answer200", "answer401"}
    BY <1>0, <1>8, MovesOn DEF RejectUnsigned, IgnoreUnknown, MarkFailed, MarkProcessed, Steps
  <2>3. \A f \in EventIds : f # event[h] => deliveries'[f] = deliveries[f]
    BY <1>8 DEF Mark, RejectUnsigned, IgnoreUnknown, MarkFailed, MarkProcessed, DeliveryInv,
                DeliveryTypeOK
  <2>4. step[h] = "markProcessed" => deliveries'[event[h]].status = "PROCESSED"
    BY <1>8, <2>1, MarkedRow DEF RejectUnsigned, IgnoreUnknown, MarkFailed, MarkProcessed,
                                 DeliveryInv
  <2> QED BY <2>1, <2>2, <2>3, <2>4 DEF FaultFreeInv, StepOf, Stay
<1>9. ASSUME NEW h \in Handlers, OpenDispute(h) \/ ChangeReported(h)
      PROVE  FaultFreeInv'
  <2>1. /\ Stay /\ UNCHANGED deliveries /\ step[h] # "markProcessed" /\ Working(h)
        /\ event[h] \notin applied
        /\ \/ UNCHANGED applied /\ Then(h, "markFailed")
           \/ applied' = applied \cup {event[h]} /\ Then(h, "markProcessed")
    BY <1>0, <1>9 DEF OpenDispute, ChangeReported, Caught, DeliveryInv, InOrder, Working, TryBlock
  <2>2. CASE UNCHANGED applied /\ Then(h, "markFailed")
    BY <1>3, <2>1, <2>2 DEF Steps
  <2>3. CASE applied' = applied \cup {event[h]} /\ Then(h, "markProcessed")
    <3>1. StepOf(h) /\ step'[h] = "markProcessed"
      BY <1>0, <2>3, MovesOn DEF Steps, TryBlock
    <3>2. \A g \in Handlers \ {h} : step[g] \in {"reject", "markFailed"} => event[g] # event[h]
      BY <2>1 DEF DeliveryInv, OneHandlerPerEvent, Working
    <3> QED BY <2>1, <2>3, <3>1, <3>2 DEF FaultFreeInv, StepOf, Stay
  <2> QED BY <2>1, <2>2, <2>3
<1>10. UNCHANGED allVars \/ OthersCall => FaultFreeInv'
  BY <1>1 DEF allVars, handlerVars, OthersCall
<1> QED BY <1>0, <1>4, <1>5, <1>6, <1>7, <1>8, <1>9, <1>10
        DEF NextDelivery, HandlerStep, Fail, Crash, Quiet

\* Without failures, once nobody works on a recorded event its row says
\* PROCESSED exactly if the event changed its case.
THEOREM SettledIsTrue == Faults = FALSE /\ DeliverySpec => []SettledTruthfully
<1> SUFFICES ASSUME Faults = FALSE PROVE DeliverySpec => []SettledTruthfully
  OBVIOUS
<1>1. InitDelivery => FaultFreeInv
  BY DEF InitDelivery, FaultFreeInv
<1>2. DeliveryInv /\ FaultFreeInv /\ [NextDelivery]_allVars => FaultFreeInv'
  BY FaultFreeStep
<1>3. DeliveryInv /\ FaultFreeInv => SettledTruthfully
  BY DEF DeliveryInv, FaultFreeInv, SettledTruthfully, AtRest, Working, TryBlock,
         ProcessedIsApplied
<1> QED BY <1>1, <1>2, <1>3, DeliveriesHold, PTL DEF DeliverySpec
=============================================================================
