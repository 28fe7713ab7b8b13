------------------------------ MODULE MCMaint -------------------------------
(***************************************************************************)
(* The maintenance agent's two models in one run: a behaviour picks the    *)
(* operation on Docker or the operation manager, and leaves the variables  *)
(* of the other at an initial value, so that the state spaces add up.      *)
(***************************************************************************)
EXTENDS MaintUpgrade, MaintOps, TLC

VARIABLE side
agentVars == <<side, maintVars, opsVars>>

\* A crash with a failing command, with an outage, with a failing journal write
\* and a lost record, with an expired deadline; two failing commands.
MCMaintScenarios ==
  {[crashes |-> 1, faults |-> 1, disk |-> 0, losses |-> 0, late |-> 0, outages |-> 0],
   [crashes |-> 1, faults |-> 0, disk |-> 0, losses |-> 0, late |-> 0, outages |-> 1],
   [crashes |-> 1, faults |-> 0, disk |-> 1, losses |-> 1, late |-> 0, outages |-> 0],
   [crashes |-> 1, faults |-> 0, disk |-> 0, losses |-> 0, late |-> 1, outages |-> 0],
   [crashes |-> 0, faults |-> 2, disk |-> 0, losses |-> 0, late |-> 0, outages |-> 0]}

\* One expired deadline, no other fault.
MCMaintLate ==
  {[crashes |-> 0, faults |-> 0, disk |-> 0, losses |-> 0, late |-> 1, outages |-> 0]}

\* Time passes, past the life of a key; or the process ends and starts again,
\* and its journal may fail.
MCOpsScenarios ==
  {[clock |-> 2, restarts |-> 0, ops |-> 3, disk |-> FALSE],
   [clock |-> 1, restarts |-> 1, ops |-> 2, disk |-> TRUE]}

\* Nothing tells the images apart but the installed one, nor the handlers.
MCMaintSymmetry == Permutations(Image \ {Seed}) \cup Permutations(Handler)

One(S) == CHOOSE x \in S : TRUE

AgentInit ==
  /\ side \in {"docker", "manager"} /\ MaintInit /\ OpsInit
  /\ side = "docker" => bound = One(OpsScenarios)
  /\ side = "manager" => luck = One(MaintScenarios) /\ docker.names[Seed] = {}

AgentNext ==
  \/ side = "docker" /\ MaintNext /\ UNCHANGED <<side, opsVars>>
  \/ side = "manager" /\ OpsNext /\ UNCHANGED <<side, maintVars>>

AgentSpec == AgentInit /\ [][AgentNext]_agentVars

\* An upgrade of a stack whose image is known by one reference, so that there is
\* something to roll back to.
LateInit == AgentInit /\ side = "docker" /\ Cardinality(docker.names[Seed]) = 1
LateSpec == LateInit /\ [][AgentNext]_agentVars

\* The variables of both models have their types.
AgentTypeOK == MaintTypeOK /\ OpsTypeOK
=============================================================================
