--------------------------- MODULE MCSesameStatus ---------------------------
(* The states of a deployment: being started, partly and fully available,  *)
(* and one whose condition is not known.                                   *)
EXTENDS SesameStatus

MCDeploymentStates ==
    {[replicas |-> 0, available |-> "unset"],
     [replicas |-> 1, available |-> "False"],
     [replicas |-> 2, available |-> "True"],
     [replicas |-> 2, available |-> "Unknown"]}

=============================================================================
