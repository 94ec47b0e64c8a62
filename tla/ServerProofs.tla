---------------------------- MODULE ServerProofs ----------------------------
(***************************************************************************)
(* Proof that a shutdown which reports success has cut nothing off.  Lent, *)
(* a sum over the requests, is not looked into: it is enough that it does  *)
(* not change once the process has ended.                                  *)
(***************************************************************************)
EXTENDS Server, TLAPS

USE PlansAssumption, PoolAssumption

\* While the pool ends no client is connected any more: clients are accepted
\* only while the server is up, and the callback of server.close has waited for
\* those that were.
ClientsGone ==
    server \in {"ending", "exit0"} => \A q \in Requests : client[q] # "there"

\* A request that runs was sent by a client, who is there or has left.
RunsForClient ==
    \A q \in Requests : phase[q] = "running" => client[q] \in {"there", "left"}

ServerInv ==
    /\ phase \in [Requests -> {"none", "running", "answered", "failed"}]
    /\ client \in [Requests -> {"none", "there", "left", "gone"}]
    /\ server \in {"up", "closing", "ending", "exit0", "exit1"}
    /\ ClientsGone
    /\ RunsForClient
    /\ server = "exit0" => Lent = 0

\* A process that has ended changes no more.
LEMMA ExitIsFinal ==
    ASSUME Exited, [Next]_vars
    PROVE  UNCHANGED vars
BY DEF Exited, Next, vars, Arrive, EndUse, WaitTimesOut, HangUp, Lend, Signal, ServerClosed,
       PoolEnded, ForcedShutdown

\* The next stage leaves a request running, answered or failed.
LEMMA EnterPhase ==
    ASSUME NEW q \in Requests, NEW stages, NEW queue, Enter(q, stages, queue)
    PROVE  \E p \in {"running", "answered", "failed"} : phase' = [phase EXCEPT ![q] = p]
<1>1. CASE stages = <<>>
  BY <1>1 DEF Enter
<1>2. CASE stages # <<>> /\ server = "ending"
  BY <1>2 DEF Enter
<1>3. CASE stages # <<>> /\ server # "ending"
  BY <1>3 DEF Enter
<1> QED
  BY <1>1, <1>2, <1>3

\* Whatever ends a use, only the request it belongs to changes, and only one
\* that runs.
LEMMA JobsRun ==
    ASSUME ServerInv, NEW q \in Requests, EndUse(q) \/ WaitTimesOut(q)
    PROVE  \/ UNCHANGED phase
           \/ /\ phase[q] = "running"
              /\ \E p \in {"running", "answered", "failed"} : phase' = [phase EXCEPT ![q] = p]
<1>1. ASSUME NEW queue, UseOver(q, queue) \/ UseFailed(q, queue)
      PROVE  \/ UNCHANGED phase
             \/ \E p \in {"running", "answered", "failed"} : phase' = [phase EXCEPT ![q] = p]
  BY <1>1, EnterPhase DEF UseOver, UseFailed
<1> QED
  BY <1>1 DEF EndUse, WaitTimesOut, UseIgnored

\* Every step of a process that has not ended keeps the invariant.
LEMMA StepKeepsServer ==
    ASSUME ServerInv, Next, ~Exited
    PROVE  ServerInv'
<1>1. ASSUME NEW q \in Requests, Arrive(q) PROVE ServerInv'
  <2>1. /\ server = "up" /\ server' = "up"
        /\ client' = [client EXCEPT ![q] = "there"]
        /\ \E p \in {"running", "answered", "failed"} : phase' = [phase EXCEPT ![q] = p]
    BY <1>1, EnterPhase DEF Arrive
  <2> QED
    BY <2>1 DEF ServerInv, ClientsGone, RunsForClient
<1>2. ASSUME NEW q \in Requests, EndUse(q) \/ WaitTimesOut(q) PROVE ServerInv'
  <2>1. UNCHANGED <<client, server>> /\ server # "exit0"
    BY <1>2 DEF EndUse, WaitTimesOut, Exited
  <2> QED
    BY <1>2, <2>1, JobsRun DEF ServerInv, ClientsGone, RunsForClient
<1>3. ASSUME NEW q \in Requests, HangUp(q) PROVE ServerInv'
  BY <1>3 DEF HangUp, jobVars, ServerInv, ClientsGone, RunsForClient, Exited
<1>4. CASE Lend
  BY <1>4 DEF Lend, ServerInv, ClientsGone, RunsForClient
<1>5. CASE Signal \/ ForcedShutdown
  BY <1>5 DEF Signal, ForcedShutdown, jobVars, ServerInv, ClientsGone, RunsForClient
<1>6. CASE ServerClosed \/ PoolEnded
  <2>1. UNCHANGED <<phase, client, held>> /\ (server' = "exit0" => Lent = 0)
        /\ server' \in {"exit0", "exit1", "ending"}
        /\ \A q \in Requests : client[q] # "there"
    BY <1>6 DEF ServerClosed, PoolEnded, jobVars, ServerInv, ClientsGone
  <2>2. Lent' = Lent
    BY <2>1 DEF Lent
  <2> QED
    BY <2>1, <2>2 DEF ServerInv, ClientsGone, RunsForClient
<1> QED
  BY <1>1, <1>2, <1>3, <1>4, <1>5, <1>6 DEF Next

\* The invariant is inductive.
LEMMA ServerInvKept ==
    ASSUME ServerInv, [Next]_vars
    PROVE  ServerInv'
<1>1. CASE UNCHANGED vars
  <2>1. Lent' = Lent
    BY <1>1 DEF Lent, vars
  <2> QED
    BY <1>1, <2>1 DEF vars, ServerInv, ClientsGone, RunsForClient
<1>2. CASE Next /\ ~Exited
  BY <1>2, StepKeepsServer
<1> QED
  BY <1>1, <1>2, ExitIsFinal

\* At exit 0 no connection is lent, so no transaction was in progress, and a
\* request without an answer is one whose client had left: connections are
\* ended only after every client is gone, and exit 0 waits for the pool.
THEOREM ShutdownCutsNothing ==
    Spec => []CleanExitCutsNothing
<1>1. Init => ServerInv
  BY DEF Init, ServerInv, ClientsGone, RunsForClient
<1>2. ServerInv /\ [Next]_vars => ServerInv'
  BY ServerInvKept
<1>3. ServerInv => CleanExitCutsNothing
  BY DEF ServerInv, ClientsGone, RunsForClient, CleanExitCutsNothing
<1> QED
  BY <1>1, <1>2, <1>3, PTL DEF Spec
=============================================================================
