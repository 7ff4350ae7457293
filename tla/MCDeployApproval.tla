--------------------------- MODULE MCDeployApproval ---------------------------
(* Small instance of DeployApproval for TLC: one deployment, up to three puts on
   their way and two deaths of the gateway (MCDeployApproval_restarts.cfg). *)
EXTENDS DeployApproval
=============================================================================
