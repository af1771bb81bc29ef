SPECIFICATION Spec
CONSTANTS
    Nil = Nil
    DeploymentStates <- MCDeploymentStates
    DaemonSetStates = {0, 1}
    Times = {1, 2}
    MaxEdits = 2
    MaxChanges = 3
    MaxFaults = 1
INVARIANTS TypeOK StatusCurrent CallsAreAnswers
PROPERTIES  Settles
CHECK_DEADLOCK FALSE
