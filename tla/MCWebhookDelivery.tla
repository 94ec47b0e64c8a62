------------------------- MODULE MCWebhookDelivery -------------------------
\* Instances of WebhookDelivery for TLC.
EXTENDS WebhookDelivery, ReferenceData, TLC

CONSTANTS h1, h2, e1, e2, e3, case1

TwoHandlers == {h1, h2}
OneCase == {case1}
TwoEvents == {e1, e2}
ThreeEvents == {e1, e2, e3}

Says(type, opens) == [type |-> type, case |-> case1, opens |-> opens]

\* A case is opened and escalated.
OpenAndEscalate ==
    e1 :> Says("dispute.created", "ok") @@ e2 :> Says("dispute.pre_arbitration", "ok")

\* Also an event of a payment nobody knows, or one of a type nobody handles.
WithUnknownPayment == OpenAndEscalate @@ e3 :> Says("dispute.created", "unknownTransaction")
WithUnknownType == OpenAndEscalate @@ e3 :> Says("unhandled", "ok")

Twice == [e \in EventIds |-> 2]
FirstTwice == [e \in EventIds |-> IF e = e1 THEN 2 ELSE 1]

HandlerSymmetry == Permutations(Handlers)
=============================================================================
