------------------------------ MODULE MCServer ------------------------------
\* Instances of Server for TLC.
EXTENDS Server, TLC

CONSTANTS q1, q2, q3

ThreeRequests == {q1, q2, q3}

\* A write, a webhook and a reader of a case that asks for more than there is.
MixedPlans == q1 :> Write @@ q2 :> Webhook @@ q3 :> GetDispute
=============================================================================
