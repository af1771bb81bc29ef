---------------------------- MODULE SesameStatus ----------------------------
(***************************************************************************)
(* How a Sesame's status follows the Sesame deployment and the Envoy       *)
(* daemonset. At the end of every reconcile the worker reads the Sesame    *)
(* from the API server and the two workloads from informer caches, one     *)
(* after the other, and updates the status if it differs from what they    *)
(* say. Users edit the Sesame in between, and an update of a modified      *)
(* object starts all over. Every status update is an event that makes the  *)
(* worker reconcile the Sesame again.                                      *)
(***************************************************************************)
EXTENDS Integers

CONSTANTS
    DeploymentStates,  \* [replicas: available ones, available: its condition]
    DaemonSetStates,   \* numbers of available Envoys
    Times,             \* what the clock may show
    Nil,               \* an object that does not exist; a condition not set
    MaxEdits,          \* bound on what users do to the Sesame
    MaxChanges,        \* bound on changes of the workloads
    MaxFaults          \* bound on calls that fail for another reason

\* As created: the controllers of the workloads have not been there yet.
NewDeployment == [replicas |-> 0, available |-> "unset"]
NewDaemonSet == 0

ASSUME StatesAssumption ==
    /\ DeploymentStates \subseteq
          [replicas : Nat, available : {"True", "False", "Unknown", "unset"}]
    /\ DaemonSetStates \subseteq Nat
    /\ NewDeployment \in DeploymentStates /\ NewDaemonSet \in DaemonSetStates
    /\ Nil \notin DeploymentStates /\ Nil \notin DaemonSetStates

ASSUME BoundsAssumption ==
    MaxEdits \in Nat /\ MaxChanges \in Nat /\ MaxFaults \in Nat

VARIABLES
    sesame,      \* the status of the Sesame in the API server, Nil if deleted
    modified,    \* the Sesame is no longer the one that the worker read
    deployment, daemonset,     \* the workloads in the API server
    cache,       \* the workloads as the informers show them
    queued,      \* the Sesame is in the queue
    pc,          \* where the worker is
    latest, deploy, ds,        \* what SyncSesame has read
    calls,       \* SyncSesame calls itself: how many calls are on the stack
    failed,      \* there are errors to return
    edits, changes, faults     \* what is left of the bounds

world == <<sesame, modified, deployment, daemonset, cache>>
read == <<latest, deploy, ds>>
bounds == <<edits, changes, faults>>
vars == <<world, queued, pc, read, calls, failed, bounds>>

Messages == {"no deployment", "no daemonset", "available", "daemonset unavailable",
             "deployment unavailable", "both unavailable", "status unknown",
             "condition unknown"}
Conditions == [status : {"True", "False", "Unknown"}, message : Messages, time : Times]
Statuses == [sesames : Nat, envoys : Nat, condition : Conditions \cup {Nil}]
ASSUME NilAssumption == Nil \notin Conditions

NewStatus == [sesames |-> 0, envoys |-> 0, condition |-> Nil]

-----------------------------------------------------------------------------
(* The status of a Sesame, from what is known of its workloads.            *)

Condition(s, m) == [status |-> s, message |-> m]

\* A read that failed counts as an object that does not exist.
computeSesameAvailableCondition(d, n) ==
    IF d = Nil THEN Condition("False", "no deployment")
    ELSE IF n = Nil THEN Condition("False", "no daemonset")
    ELSE CASE d.available = "unset" -> Condition("Unknown", "status unknown")
           [] d.available = "Unknown" -> Condition("Unknown", "condition unknown")
           [] d.available = "True" ->
                 IF n > 0 THEN Condition("True", "available")
                 ELSE Condition("False", "daemonset unavailable")
           [] d.available = "False" ->
                 IF n > 0 THEN Condition("False", "deployment unavailable")
                 ELSE Condition("False", "both unavailable")

\* Deviation: a condition that is set again gets a new time.
mergeNewConditions(old, new, now) ==
    [status |-> new.status, message |-> new.message, time |-> now]

\* The time is that of the last change of the condition's status.
mergeConditions(old, new, now) ==
    [status |-> new.status, message |-> new.message,
     time |-> IF old # Nil /\ old.status = new.status THEN old.time ELSE now]

\* Deviation: takes what it has, read or not.
UpdatedUnread(status, d, n, now) ==
    [sesames |-> IF d = Nil THEN Nil ELSE d.replicas,
     envoys |-> n,
     condition |-> mergeConditions(status.condition,
                                   computeSesameAvailableCondition(d, n), now)]

\* A count that could not be read stays what it was.
Updated(status, d, n, now) ==
    [sesames |-> IF d = Nil THEN status.sesames ELSE d.replicas,
     envoys |-> IF n = Nil THEN status.envoys ELSE n,
     condition |-> mergeConditions(status.condition,
                                   computeSesameAvailableCondition(d, n), now)]

\* Deviation: forgets the Envoys.
SesamesChanged(current, expected) ==
    current.sesames # expected.sesames \/ current.condition # expected.condition

SesameStatusChanged(current, expected) == current # expected

\* The CRD refuses a reason with a blank, and "SesameUnknown: <message>" has one.
Acceptable(status) == status.condition.message # "condition unknown"

-----------------------------------------------------------------------------
(* The worker.                                                             *)

\* Every SyncSesame returns, and so does Reconcile; an error puts the Sesame back.
Done(errors) ==
    /\ pc' = "idle"
    /\ failed' = FALSE
    /\ latest' = Nil /\ deploy' = Nil /\ ds' = Nil
    /\ calls' = 0
    /\ queued' = (queued \/ errors)

Fault == faults > 0 /\ faults' = faults - 1

\* A workload that is missing from the cache and from the API server is created.
Ensured(shown, actual, new) == IF shown = Nil /\ actual = Nil THEN new ELSE actual

\* A reconcile up to the status: creating what the cache does not show fails if
\* it exists, and any call may fail; the status is updated all the same.
EnsureSesame ==
    /\ pc = "idle" /\ queued
    /\ IF sesame = Nil
       THEN /\ queued' = FALSE
            /\ UNCHANGED <<pc, calls, failed, deployment, daemonset, faults>>
       ELSE /\ queued' = FALSE
            /\ pc' = "get"
            /\ calls' = 1
            /\ LET newDeployment == Ensured(cache.deployment, deployment, NewDeployment)
                   newDaemonSet == Ensured(cache.daemonset, daemonset, NewDaemonSet)
               IN  \/ /\ deployment' = newDeployment
                      /\ daemonset' = newDaemonSet
                      /\ failed' = \/ cache.deployment = Nil /\ deployment # Nil
                                   \/ cache.daemonset = Nil /\ daemonset # Nil
                      /\ UNCHANGED faults
                   \/ /\ Fault
                      /\ deployment' \in {deployment, newDeployment}
                      /\ daemonset' \in {daemonset, newDaemonSet}
                      /\ failed' = TRUE
    /\ UNCHANGED <<sesame, modified, cache, read, edits, changes>>

\* SyncSesame reads the Sesame; it may have been deleted meanwhile.
GetLatest ==
    /\ pc = "get"
    /\ \/ /\ sesame = Nil
          /\ Done(failed)
          /\ UNCHANGED <<modified, faults>>
       \/ /\ Fault
          /\ Done(TRUE)
          /\ UNCHANGED modified
       \/ /\ sesame # Nil
          /\ latest' = sesame
          /\ modified' = FALSE
          /\ pc' = "deployment"
          /\ UNCHANGED <<queued, deploy, ds, calls, failed, faults>>
    /\ UNCHANGED <<sesame, deployment, daemonset, cache, edits, changes>>

CurrentDeployment ==
    /\ pc = "deployment"
    /\ deploy' = cache.deployment
    /\ failed' = (failed \/ cache.deployment = Nil)
    /\ pc' = "daemonset"
    /\ UNCHANGED <<world, queued, latest, ds, calls, bounds>>

CurrentDaemonSet ==
    /\ pc = "daemonset"
    /\ ds' = cache.daemonset
    /\ failed' = (failed \/ cache.daemonset = Nil)
    /\ pc' = "update"
    /\ UNCHANGED <<world, queued, latest, deploy, calls, bounds>>

\* Deviation: reads the Sesame again whatever the server has against the update.
UpdateAnyway(status) ==
    \/ /\ sesame = Nil
       /\ Done(failed)
       /\ UNCHANGED <<sesame, faults>>
    \/ /\ sesame # Nil /\ (modified \/ ~ Acceptable(status))
       /\ pc' = "get"
       /\ calls' = calls + 1
       /\ UNCHANGED <<sesame, queued, read, failed, faults>>
    \/ /\ sesame # Nil /\ ~ modified /\ Acceptable(status)
       /\ sesame' = status
       /\ Done(TRUE)
       /\ UNCHANGED faults

\* A modified Sesame is read again, and the errors so far are kept. A status
\* update that succeeds is an event of the Sesame.
UpdateStatus(status) ==
    \/ /\ sesame = Nil
       /\ Done(failed)
       /\ UNCHANGED <<sesame, faults>>
    \/ /\ sesame # Nil /\ modified
       /\ pc' = "get"
       /\ calls' = calls + 1
       /\ UNCHANGED <<sesame, queued, read, failed, faults>>
    \/ /\ sesame # Nil /\ ~ modified
       /\ ~ Acceptable(status)
       /\ Done(TRUE)
       /\ UNCHANGED <<sesame, faults>>
    \/ /\ Fault
       /\ Done(TRUE)
       /\ UNCHANGED sesame
    \/ /\ sesame # Nil /\ ~ modified
       /\ Acceptable(status)
       /\ sesame' = status
       /\ Done(TRUE)
       /\ UNCHANGED faults

SyncSesame ==
    /\ pc = "update"
    /\ \E now \in Times :
          LET status == Updated(latest, deploy, ds, now)
          IN  \/ /\ ~ SesameStatusChanged(latest, status)
                 /\ Done(failed)
                 /\ UNCHANGED <<sesame, faults>>
              \/ /\ SesameStatusChanged(latest, status)
                 /\ UpdateStatus(status)
    /\ UNCHANGED <<modified, deployment, daemonset, cache, edits, changes>>

Work == EnsureSesame \/ GetLatest \/ CurrentDeployment \/ CurrentDaemonSet \/ SyncSesame

-----------------------------------------------------------------------------
(* Users, the controllers of the workloads and the informers.              *)

EditSesame ==
    /\ edits > 0
    /\ edits' = edits - 1
    /\ sesame # Nil
    /\ sesame' \in {sesame, Nil}
    /\ modified' = TRUE
    /\ queued' = TRUE
    /\ UNCHANGED <<deployment, daemonset, cache, pc, read, calls, failed, changes, faults>>

ChangeWorkload ==
    /\ changes > 0
    /\ changes' = changes - 1
    /\ \/ /\ deployment # Nil
          /\ deployment' \in (DeploymentStates \cup {Nil}) \ {deployment}
          /\ UNCHANGED daemonset
       \/ /\ daemonset # Nil
          /\ daemonset' \in (DaemonSetStates \cup {Nil}) \ {daemonset}
          /\ UNCHANGED deployment
    /\ UNCHANGED <<sesame, modified, cache, queued, pc, read, calls, failed, edits, faults>>

\* The event of a workload names the Sesame that owns it.
SyncCache ==
    /\ \/ /\ cache.deployment # deployment
          /\ cache' = [cache EXCEPT !.deployment = deployment]
       \/ /\ cache.daemonset # daemonset
          /\ cache' = [cache EXCEPT !.daemonset = daemonset]
    /\ queued' = TRUE
    /\ UNCHANGED <<sesame, modified, deployment, daemonset, pc, read, calls, failed, bounds>>

-----------------------------------------------------------------------------

Init ==
    /\ sesame = NewStatus
    /\ modified = FALSE
    /\ deployment = Nil /\ daemonset = Nil
    /\ cache = [deployment |-> Nil, daemonset |-> Nil]
    /\ queued = TRUE
    /\ pc = "idle"
    /\ latest = Nil /\ deploy = Nil /\ ds = Nil
    /\ calls = 0
    /\ failed = FALSE
    /\ edits = MaxEdits /\ changes = MaxChanges /\ faults = MaxFaults

Next == Work \/ EditSesame \/ ChangeWorkload \/ SyncCache

\* The worker goes on while the Sesame is queued, the informers deliver.
Spec == Init /\ [][Next]_vars /\ WF_vars(Work) /\ WF_vars(SyncCache)

-----------------------------------------------------------------------------
(* Properties.                                                             *)

Deployments == DeploymentStates \cup {Nil}
DaemonSets == DaemonSetStates \cup {Nil}

\* The type invariant; what SyncSesame reads first, it has while it goes on.
TypeOK ==
    /\ sesame \in Statuses \cup {Nil}
    /\ latest \in Statuses \cup {Nil}
    /\ deployment \in Deployments /\ deploy \in Deployments
    /\ daemonset \in DaemonSets /\ ds \in DaemonSets
    /\ cache \in [deployment : Deployments, daemonset : DaemonSets]
    /\ pc \in {"idle", "get", "deployment", "daemonset", "update"}
    /\ pc \in {"deployment", "daemonset", "update"} => latest # Nil
    /\ modified \in BOOLEAN /\ queued \in BOOLEAN /\ failed \in BOOLEAN
    /\ calls \in Nat
    /\ edits \in 0..MaxEdits /\ changes \in 0..MaxChanges /\ faults \in 0..MaxFaults

Quiet ==
    /\ pc = "idle" /\ ~ queued
    /\ cache = [deployment |-> deployment, daemonset |-> daemonset]

\* When nothing is left to do, the status of a Sesame is that of its workloads,
\* as of now: no change of them was lost between the reads, to a conflict, or
\* to a call that failed (SyncSesame, status.go:34-89, and the watches of
\* controller.go:83-88).
StatusCurrent ==
    Quiet /\ sesame # Nil =>
        /\ deployment # Nil /\ daemonset # Nil
        /\ sesame.sesames = deployment.replicas
        /\ sesame.envoys = daemonset
        /\ LET condition == computeSesameAvailableCondition(deployment, daemonset)
           IN  /\ sesame.condition.status = condition.status
               /\ sesame.condition.message = condition.message

\* Each call of SyncSesame from itself is the answer to a write of somebody else
\* since the one before read the Sesame: its stack does not grow by what the
\* worker, or a server that refuses the update, does (status.go:74-80).
CallsAreAnswers == calls <= 1 + (MaxEdits - edits)

\* "updates the transition time if details of a condition have changed"
\* (conditions.go:108-110), which the code does for its status only: the time
\* tells since when the Sesame has been available, or has not.
TransitionTimeKept ==
    [][sesame # Nil /\ sesame' # Nil /\ sesame.condition # Nil =>
          /\ sesame'.condition # Nil
          /\ sesame'.condition.status = sesame.condition.status =>
                sesame'.condition.time = sesame.condition.time]_vars

\* The worker's own updates of the status, each of which queues the Sesame
\* again, come to an end (equality.go:289-303).
Settles == <>[][sesame' = sesame]_vars

=============================================================================
