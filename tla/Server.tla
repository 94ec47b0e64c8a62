------------------------------- MODULE Server -------------------------------
(***************************************************************************)
(* The process: requests share a pool of connections (src/db/pool.js) that *)
(* lends them in the order they were asked for, and SIGTERM or SIGINT      *)
(* shuts the server down (src/server.js).  A request is a sequence of      *)
(* stages, each using one or several connections at once; what its         *)
(* statements do is left to the other modules.                             *)
(***************************************************************************)
EXTENDS Naturals, Sequences

LOCAL INSTANCE Functions
LOCAL INSTANCE SequencesExt

CONSTANTS
    Requests,
    PlanOf,         \* the stages of each request
    PoolSize

\* A stage: the connections it asks for at once, and whether it is inside a try
\* block whose catch block uses one connection more.
Stage(uses) == [uses |-> uses, caught |-> FALSE]
CaughtStage == [uses |-> 1, caught |-> TRUE]

\* The handlers of the routes, each on its longest way.
Write == <<Stage(1)>>
GetDispute == <<Stage(1), Stage(3)>>
GetEvidenceRequirements == <<Stage(1), Stage(1), Stage(1)>>
Ready == <<Stage(1)>>
Webhook == <<Stage(1), CaughtStage, CaughtStage, CaughtStage>>

ASSUME PlansAssumption ==
    \A q \in Requests :
        PlanOf[q] \in {Write, GetDispute, GetEvidenceRequirements, Ready, Webhook}
ASSUME PoolAssumption == PoolSize \in Nat \ {0}

VARIABLES
    phase,          \* of a request
    plan,           \* its stages from the current one on
    left,           \* uses of the current stage that are not over
    held,           \* connections lent to it
    waiting,        \* who is to get the next connections
    client,         \* whether its client is still there, or left unanswered
    server,
    signals         \* signals received, counted up to two

vars == <<phase, plan, left, held, waiting, client, server, signals>>
jobVars == <<phase, plan, left, held, waiting>>

Init ==
    /\ phase = [q \in Requests |-> "none"]
    /\ plan = PlanOf
    /\ left = [q \in Requests |-> 0]
    /\ held = [q \in Requests |-> 0]
    /\ waiting = <<>>
    /\ client = [q \in Requests |-> "none"]
    /\ server = "up"
    /\ signals = 0

Exited == server \in {"exit0", "exit1"}

Lent == SumFunction(held)

-----------------------------------------------------------------------------
\* Requests

\* The request asks for the connections of its next stage, or is answered.  A
\* pool that is ending refuses, and the handler throws.
Enter(q, stages, queue) ==
    IF stages = <<>> \/ server = "ending"
    THEN /\ phase' = [phase EXCEPT ![q] = IF stages = <<>> THEN "answered" ELSE "failed"]
         /\ plan' = [plan EXCEPT ![q] = <<>>]
         /\ left' = [left EXCEPT ![q] = 0]
         /\ waiting' = queue
    ELSE /\ phase' = [phase EXCEPT ![q] = "running"]
         /\ plan' = [plan EXCEPT ![q] = stages]
         /\ left' = [left EXCEPT ![q] = Head(stages).uses]
         /\ waiting' = queue \o [i \in 1..Head(stages).uses |-> q]

Arrive(q) ==
    /\ server = "up"
    /\ phase[q] = "none"
    /\ client' = [client EXCEPT ![q] = "there"]
    /\ Enter(q, plan[q], waiting)
    /\ UNCHANGED <<held, server, signals>>

\* The pool lends a connection to whoever waits longest, unless it is ending.
Lend ==
    /\ server \in {"up", "closing"}
    /\ waiting # <<>>
    /\ Lent < PoolSize
    /\ held' = [held EXCEPT ![Head(waiting)] = @ + 1]
    /\ waiting' = Tail(waiting)
    /\ UNCHANGED <<phase, plan, left, client, server, signals>>

\* One use of a running request is over; the last one of a stage ends it.
UseOver(q, queue) ==
    IF left[q] = 1
    THEN Enter(q, Tail(plan[q]), queue)
    ELSE /\ left' = [left EXCEPT ![q] = @ - 1]
         /\ waiting' = queue
         /\ UNCHANGED <<phase, plan>>

\* One use fails.  The request fails at once, although its other uses go on; a
\* caught error is recorded by a last stage.
UseFailed(q, queue) ==
    IF Head(plan[q]).caught
    THEN Enter(q, <<Stage(1)>>, queue)
    ELSE /\ phase' = [phase EXCEPT ![q] = "failed"]
         /\ plan' = [plan EXCEPT ![q] = <<>>]
         /\ left' = [left EXCEPT ![q] = 0]
         /\ waiting' = queue

\* A use nobody waits for any more.
UseIgnored(queue) == waiting' = queue /\ UNCHANGED <<phase, plan, left>>

\* A mutant of GiveBack: the connections of a stage are kept until it is over.
GiveBackLater(q) == held' = [held EXCEPT ![q] = IF left[q] = 1 THEN 0 ELSE @]

GiveBack(q) == held' = [held EXCEPT ![q] = @ - 1]

\* A statement or transaction ends, well or with an error, and releases its
\* connection.
EndUse(q) ==
    /\ ~Exited
    /\ held[q] > 0
    /\ GiveBack(q)
    /\ IF phase[q] = "running"
       THEN UseOver(q, waiting) \/ UseFailed(q, waiting)
       ELSE UseIgnored(waiting)
    /\ UNCHANGED <<client, server, signals>>

\* connectionTimeoutMillis: a wait is given up.
WaitTimesOut(q) ==
    /\ ~Exited
    /\ Contains(waiting, q)
    /\ LET queue == RemoveFirst(waiting, q) IN
       IF phase[q] = "running" THEN UseFailed(q, queue) ELSE UseIgnored(queue)
    /\ UNCHANGED <<held, client, server, signals>>

\* The client closes its connection, or it is closed for it; the handler of a
\* request that is not answered does not notice.
HangUp(q) ==
    /\ ~Exited
    /\ client[q] = "there"
    /\ client' = [client EXCEPT ![q] = IF phase[q] = "running" THEN "left" ELSE "gone"]
    /\ UNCHANGED <<jobVars, server, signals>>

-----------------------------------------------------------------------------
\* Shutdown

\* A mutant of Signal: the pool is ended without waiting for the server.
SignalEndsPool ==
    /\ server = "up"
    /\ signals' = 1
    /\ server' = "ending"
    /\ UNCHANGED <<jobVars, client>>

\* server.close and the timer.  A second signal that finds the pool ending ends
\* it again: pool.end rejects, and nobody handles it.
Signal ==
    /\ ~Exited
    /\ signals' = IF signals = 0 THEN 1 ELSE 2
    /\ server' = IF server = "ending" THEN "exit1" ELSE "closing"
    /\ UNCHANGED <<jobVars, client>>

\* The callbacks of server.close, one for each signal: every client connection
\* has ended.  With connections lent, pool.end waits, and a second one rejects.
ServerClosed ==
    /\ server = "closing"
    /\ \A q \in Requests : client[q] # "there"
    /\ server' = IF Lent = 0 THEN "exit0" ELSE IF signals > 1 THEN "exit1" ELSE "ending"
    /\ UNCHANGED <<jobVars, client, signals>>

\* pool.end resolves.
PoolEnded ==
    /\ server = "ending"
    /\ Lent = 0
    /\ server' = "exit0"
    /\ UNCHANGED <<jobVars, client, signals>>

\* A mutant of ForcedShutdown: no timer.
NoTimer == FALSE /\ UNCHANGED vars

\* The timer of ten seconds.
ForcedShutdown ==
    /\ signals > 0 /\ ~Exited
    /\ server' = "exit1"
    /\ UNCHANGED <<jobVars, client, signals>>

Next ==
    \/ \E q \in Requests : Arrive(q) \/ EndUse(q) \/ WaitTimesOut(q) \/ HangUp(q)
    \/ Lend
    \/ Signal \/ ServerClosed \/ PoolEnded \/ ForcedShutdown
    \/ Exited /\ UNCHANGED vars

Spec == Init /\ [][Next]_vars

\* Statements end, the pool lends what it has and a timer fires.  Nothing makes
\* a client leave, a signal come or a wait time out.
Fairness ==
    /\ \A q \in Requests : WF_vars(EndUse(q))
    /\ WF_vars(Lend)
    /\ WF_vars(ServerClosed \/ PoolEnded)
    /\ WF_vars(ForcedShutdown)

FairSpec == Spec /\ Fairness

-----------------------------------------------------------------------------
\* What the process must keep

\* Requests never wait for each other's connections for ever: each one ends, or
\* the process does, although none of the waits times out.  No handler holds a
\* connection while it waits for another.
EveryRequestEnds == \A q \in Requests : phase[q] = "running" ~> phase[q] # "running" \/ Exited

\* A shutdown that reports success cut nothing off: no connection was lent, so
\* no transaction was in progress, and a request that was not answered is one
\* whose client had left before.
CleanExitCutsNothing ==
    server = "exit0" =>
        /\ Lent = 0
        /\ \A q \in Requests : phase[q] = "running" => client[q] = "left"

\* A signal ends the process, whatever clients and statements do.
ShutdownEnds == signals > 0 ~> Exited
=============================================================================
