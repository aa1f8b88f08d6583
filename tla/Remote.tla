------------------------------- MODULE Remote -------------------------------
(***************************************************************************)
(* What vitro does over ssh for as long as it takes: it waits for a guest  *)
(* (Readiness) or follows a job in one (GuestJobs).                        *)
(***************************************************************************)
EXTENDS Readiness, GuestJobs

ASSUME JobsAssumption

VARIABLE does   \* "wait" or "follow"

RemoteInit == does \in {"wait", "follow"} /\ Init /\ JobsInit

RemoteNext ==
  \/ does = "wait" /\ Next /\ UNCHANGED <<does, jobVars>>
  \/ does = "follow" /\ JobsNext /\ UNCHANGED <<does, vars>>

\* Neither part asks for a step of the other's: nothing of it has begun
RemoteSpec ==
  /\ RemoteInit /\ [][RemoteNext]_<<does, vars, jobVars>>
  /\ WF_vars(Vitro) /\ Fairness
=============================================================================
