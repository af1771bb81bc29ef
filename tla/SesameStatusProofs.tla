------------------------- MODULE SesameStatusProofs -------------------------
(***************************************************************************)
(* Theorems about SesameStatus, for any states of the workloads and any    *)
(* number of edits, changes and faults.                                    *)
(***************************************************************************)
EXTENDS SesameStatus, TLAPS

Reading == {"deployment", "daemonset", "update"}

\* A status that says what the informers show of both workloads.
Shows(status) ==
    /\ cache.deployment # Nil /\ cache.daemonset # Nil
    /\ status.sesames = cache.deployment.replicas
    /\ status.envoys = cache.daemonset
    /\ LET condition == computeSesameAvailableCondition(cache.deployment, cache.daemonset)
       IN  /\ status.condition.status = condition.status
           /\ status.condition.message = condition.message

\* What the worker has read is what is there, or it will come again.
ReadsCurrent ==
    /\ pc \in Reading /\ sesame # Nil => latest = sesame \/ modified
    /\ pc \in Reading /\ modified => queued
    /\ pc \in {"daemonset", "update"} =>
          /\ deploy = cache.deployment \/ queued
          /\ deploy = Nil => failed
    /\ pc = "update" =>
          /\ ds = cache.daemonset \/ queued
          /\ ds = Nil => failed

\* A worker that is done, and will not come again, has left the right status.
DoneCurrent == pc = "idle" /\ ~ queued /\ sesame # Nil => Shows(sesame)

\* A conflict, had or to come, takes an edit.
CallsCovered ==
    /\ calls <= 1 + (MaxEdits - edits)
    /\ pc \in Reading /\ modified => calls <= MaxEdits - edits

IInv == TypeOK /\ ReadsCurrent /\ DoneCurrent /\ CallsCovered

-----------------------------------------------------------------------------

\* The computed condition has a status and a message.
LEMMA ConditionTyped ==
  ASSUME NEW d \in Deployments,
         NEW n \in DaemonSets
  PROVE  computeSesameAvailableCondition(d, n) \in
            [status : {"True", "False", "Unknown"}, message : Messages]
<1>1. d # Nil => d.available \in {"True", "False", "Unknown", "unset"}
  BY StatesAssumption DEF Deployments
<1> QED
  BY <1>1 DEF computeSesameAvailableCondition, Condition, Messages

\* So does an updated status, whose condition is set in any case.
LEMMA UpdatedTyped ==
  ASSUME NEW status \in Statuses, NEW now \in Times,
         NEW d \in Deployments,
         NEW n \in DaemonSets
  PROVE  /\ Updated(status, d, n, now) \in Statuses
         /\ Updated(status, d, n, now).condition \in Conditions
<1>1. Updated(status, d, n, now).condition \in Conditions
  <2>1. status.condition \in Conditions \cup {Nil}
    BY DEF Statuses
  <2> QED
    BY <2>1, ConditionTyped DEF Updated, mergeConditions, Conditions
<1>2. d # Nil => d.replicas \in Nat
  BY StatesAssumption DEF Deployments
<1>3. n # Nil => n \in Nat
  BY StatesAssumption DEF DaemonSets
<1> QED
  BY <1>1, <1>2, <1>3 DEF Updated, Statuses

\* A worker that is done has forgotten what it read.
LEMMA DoneTyped ==
  ASSUME NEW errors, Done(errors)
  PROVE  /\ pc' = "idle"
         /\ latest' = Nil /\ deploy' = Nil /\ ds' = Nil /\ calls' = 0
         /\ failed' \in BOOLEAN /\ queued' \in BOOLEAN
<1>1. queued' \in BOOLEAN
  <2>1. queued' = (queued \/ errors)
    BY DEF Done
  <2>2. (queued \/ errors) \in BOOLEAN
    BY Zenon
  <2> QED
    BY <2>1, <2>2
<1> QED
  BY <1>1 DEF Done

\* A call that fails is one of the bounded ones.
LEMMA FaultTyped ==
  ASSUME faults \in 0..MaxFaults, Fault \/ UNCHANGED faults
  PROVE  faults' \in 0..MaxFaults
BY BoundsAssumption DEF Fault

\* What a step of the worker, or of others, does to the types.
LEMMA TypesKept == TypeOK /\ [Next]_vars => TypeOK'
<1> SUFFICES ASSUME TypeOK, [Next]_vars PROVE TypeOK'
  OBVIOUS
<1> USE BoundsAssumption, StatesAssumption DEF TypeOK, Deployments, DaemonSets
<1>1. CASE EnsureSesame
  <2>1. failed' \in BOOLEAN
    <3>1. (\/ cache.deployment = Nil /\ deployment # Nil
           \/ cache.daemonset = Nil /\ daemonset # Nil) \in BOOLEAN
      BY Zenon
    <3> QED
      BY <1>1, <3>1 DEF EnsureSesame
  <2>2. deployment' \in Deployments /\ daemonset' \in DaemonSets
    BY <1>1 DEF EnsureSesame, Ensured
  <2>3. pc' \in {"idle", "get"} /\ queued' = FALSE /\ (Fault \/ UNCHANGED faults)
    BY <1>1 DEF EnsureSesame
  <2>4. calls' \in Nat
    <3>1. calls' = calls \/ calls' = 1
      BY <1>1 DEF EnsureSesame
    <3> QED
      BY <3>1
  <2>5. faults' \in 0..MaxFaults
    BY <2>3, FaultTyped
  <2>6. UNCHANGED <<sesame, modified, cache, latest, deploy, ds, edits, changes>>
    BY <1>1 DEF EnsureSesame, read
  <2> QED
    BY <2>1, <2>2, <2>3, <2>4, <2>5, <2>6
<1>2. CASE GetLatest
  <2>1. CASE Done(failed) /\ UNCHANGED <<modified, faults>>
    BY <1>2, <2>1, DoneTyped DEF GetLatest
  <2>2. CASE Fault /\ Done(TRUE) /\ UNCHANGED modified
    <3>1. faults' \in 0..MaxFaults
      BY <2>2, FaultTyped
    <3>2. UNCHANGED <<sesame, modified, deployment, daemonset, cache, edits, changes>>
      BY <1>2, <2>2 DEF GetLatest
    <3>3. /\ pc' = "idle" /\ latest' = Nil /\ deploy' = Nil /\ ds' = Nil /\ calls' = 0
          /\ failed' \in BOOLEAN /\ queued' \in BOOLEAN
      BY <2>2, DoneTyped
    <3> QED
      BY <3>1, <3>2, <3>3
  <2>3. CASE sesame # Nil /\ latest' = sesame /\ modified' = FALSE /\ pc' = "deployment"
             /\ UNCHANGED <<queued, deploy, ds, calls, failed, faults>>
    BY <1>2, <2>3 DEF GetLatest
  <2> QED
    BY <1>2, <2>1, <2>2, <2>3 DEF GetLatest
<1>3. CASE CurrentDeployment
  <2>1. (failed \/ cache.deployment = Nil) \in BOOLEAN
    BY Zenon
  <2> QED
    BY <1>3, <2>1 DEF CurrentDeployment, world, bounds
<1>4. CASE CurrentDaemonSet
  <2>1. (failed \/ cache.daemonset = Nil) \in BOOLEAN
    BY Zenon
  <2> QED
    BY <1>4, <2>1 DEF CurrentDaemonSet, world, bounds
<1>5. CASE SyncSesame
  <2>1. PICK now \in Times :
          LET status == Updated(latest, deploy, ds, now)
          IN  \/ /\ ~ SesameStatusChanged(latest, status)
                 /\ Done(failed)
                 /\ UNCHANGED <<sesame, faults>>
              \/ /\ SesameStatusChanged(latest, status)
                 /\ UpdateStatus(status)
    BY <1>5 DEF SyncSesame
  <2>2. latest \in Statuses
    BY <1>5 DEF SyncSesame
  <2>3. Updated(latest, deploy, ds, now) \in Statuses
    BY <2>2, UpdatedTyped
  <2>4. sesame' \in {sesame, Updated(latest, deploy, ds, now)}
    BY <2>1 DEF UpdateStatus
  <2>5. faults' \in 0..MaxFaults
    <3>1. Fault \/ UNCHANGED faults
      BY <2>1 DEF UpdateStatus
    <3> QED
      BY <3>1, FaultTyped
  <2>6. \/ \E errors : Done(errors)
        \/ pc' = "get" /\ calls' = calls + 1 /\ UNCHANGED <<queued, read, failed>>
    BY <2>1 DEF UpdateStatus
  <2>7. UNCHANGED <<modified, deployment, daemonset, cache, edits, changes>>
    BY <1>5 DEF SyncSesame
  <2>8. CASE \E errors : Done(errors)
    BY <2>3, <2>4, <2>5, <2>7, <2>8, DoneTyped
  <2>9. CASE pc' = "get" /\ calls' = calls + 1 /\ UNCHANGED <<queued, read, failed>>
    BY <2>3, <2>4, <2>5, <2>7, <2>9 DEF read
  <2> QED
    BY <2>6, <2>8, <2>9
<1>6. CASE EditSesame
  BY <1>6 DEF EditSesame, read
<1>7. CASE ChangeWorkload
  BY <1>7 DEF ChangeWorkload, read
<1>8. CASE SyncCache
  BY <1>8 DEF SyncCache, read, bounds
<1>9. CASE UNCHANGED vars
  BY <1>9 DEF vars, world, read, bounds
<1> QED
  BY <1>1, <1>2, <1>3, <1>4, <1>5, <1>6, <1>7, <1>8, <1>9 DEF Next, Work

-----------------------------------------------------------------------------

\* The condition of a status written is merged from the one read: its time only
\* changes with its status.
LEMMA TimeMerged ==
  ASSUME NEW status, NEW d, NEW n, NEW now, status.condition # Nil
  PROVE  Updated(status, d, n, now).condition.status = status.condition.status =>
           Updated(status, d, n, now).condition.time = status.condition.time
BY DEF Updated, mergeConditions

\* A status updated from what the informers show says so.
LEMMA UpdatedShows ==
  ASSUME NEW status, NEW now, cache.deployment # Nil, cache.daemonset # Nil
  PROVE  Shows(Updated(status, cache.deployment, cache.daemonset, now))
BY DEF Shows, Updated, mergeConditions

\* What the reads have seen stays true, or the Sesame is queued again.
LEMMA ReadsKept == TypeOK /\ ReadsCurrent /\ [Next]_vars => ReadsCurrent'
<1> SUFFICES ASSUME TypeOK, ReadsCurrent, [Next]_vars PROVE ReadsCurrent'
  OBVIOUS
<1> USE DEF ReadsCurrent, Reading
<1>1. CASE EnsureSesame
  BY <1>1 DEF EnsureSesame
<1>2. CASE GetLatest
  BY <1>2 DEF GetLatest, Done
<1>3. CASE CurrentDeployment
  BY <1>3 DEF CurrentDeployment, world, bounds
<1>4. CASE CurrentDaemonSet
  BY <1>4 DEF CurrentDaemonSet, world, bounds
<1>5. CASE SyncSesame
  BY <1>5 DEF SyncSesame, UpdateStatus, Done
<1>6. CASE EditSesame
  BY <1>6 DEF EditSesame, read
<1>7. CASE ChangeWorkload
  BY <1>7 DEF ChangeWorkload, read
<1>8. CASE SyncCache
  BY <1>8 DEF SyncCache, read
<1>9. CASE UNCHANGED vars
  BY <1>9 DEF vars, world, read
<1> QED
  BY <1>1, <1>2, <1>3, <1>4, <1>5, <1>6, <1>7, <1>8, <1>9 DEF Next, Work

\* Only an edit makes room for another call, and each conflict uses one up.
LEMMA CallsKept == TypeOK /\ CallsCovered /\ [Next]_vars => CallsCovered'
<1> SUFFICES ASSUME TypeOK, CallsCovered, [Next]_vars PROVE CallsCovered'
  OBVIOUS
<1> USE BoundsAssumption DEF CallsCovered, Reading
<1>typed. edits \in 0..MaxEdits /\ calls \in Nat
  BY DEF TypeOK
<1>1. CASE EnsureSesame
  <2>1. calls' \in {calls, 1} /\ edits' = edits /\ pc' \in {"idle", "get"}
    BY <1>1 DEF EnsureSesame
  <2> QED
    BY <1>typed, <2>1
<1>2. CASE GetLatest
  BY <1>2, <1>typed DEF GetLatest, Done
<1>3. CASE CurrentDeployment
  BY <1>3 DEF CurrentDeployment, world, bounds
<1>4. CASE CurrentDaemonSet
  BY <1>4 DEF CurrentDaemonSet, world, bounds
<1>5. CASE SyncSesame
  <2>1. UNCHANGED <<modified, edits>> /\ pc = "update"
    BY <1>5 DEF SyncSesame
  <2>2. \/ pc' = "idle" /\ calls' = 0
        \/ modified /\ pc' = "get" /\ calls' = calls + 1
    BY <1>5 DEF SyncSesame, UpdateStatus, Done
  <2> QED
    BY <1>typed, <2>1, <2>2
<1>6. CASE EditSesame
  BY <1>6, <1>typed DEF EditSesame
<1>7. CASE ChangeWorkload \/ SyncCache
  BY <1>7 DEF ChangeWorkload, SyncCache, bounds
<1>8. CASE UNCHANGED vars
  BY <1>8 DEF vars, world, bounds
<1> QED
  BY <1>1, <1>2, <1>3, <1>4, <1>5, <1>6, <1>7, <1>8 DEF Next, Work

\* A worker that ends without a need to come again leaves the right status.
LEMMA DoneKept == IInv /\ [Next]_vars => DoneCurrent'
<1> SUFFICES ASSUME IInv, [Next]_vars, (pc = "idle" /\ ~ queued /\ sesame # Nil)'
             PROVE  Shows(sesame)'
  BY DEF DoneCurrent
<1> USE DEF IInv
<1>1. CASE EnsureSesame
  BY <1>1 DEF EnsureSesame
<1>2. CASE GetLatest
  BY <1>2 DEF GetLatest, Done
<1>3. CASE CurrentDeployment \/ CurrentDaemonSet
  BY <1>3 DEF CurrentDeployment, CurrentDaemonSet
<1>4. CASE SyncSesame
  <2>1. PICK now \in Times :
          LET status == Updated(latest, deploy, ds, now)
          IN  \/ /\ ~ SesameStatusChanged(latest, status)
                 /\ Done(failed)
                 /\ UNCHANGED <<sesame, faults>>
              \/ /\ SesameStatusChanged(latest, status)
                 /\ UpdateStatus(status)
    BY <1>4 DEF SyncSesame
  <2>2. /\ ~ SesameStatusChanged(latest, Updated(latest, deploy, ds, now))
        /\ ~ failed /\ ~ queued /\ sesame' = sesame /\ cache' = cache
    BY <1>4, <2>1 DEF SyncSesame, UpdateStatus, Done
  <2>3. latest = sesame /\ deploy = cache.deployment /\ ds = cache.daemonset
        /\ deploy # Nil /\ ds # Nil
    BY <1>4, <2>2 DEF SyncSesame, ReadsCurrent, Reading
  <2>4. Shows(Updated(latest, cache.deployment, cache.daemonset, now))
    BY <2>3, UpdatedShows
  <2>5. Shows(sesame)
    BY <2>2, <2>3, <2>4 DEF SesameStatusChanged
  <2> QED
    BY <2>2, <2>5 DEF Shows
<1>5. CASE EditSesame \/ SyncCache
  BY <1>5 DEF EditSesame, SyncCache
<1>6. CASE ChangeWorkload
  BY <1>6 DEF ChangeWorkload, DoneCurrent, Shows
<1>7. CASE UNCHANGED vars
  BY <1>7 DEF vars, world, DoneCurrent, Shows
<1> QED
  BY <1>1, <1>2, <1>3, <1>4, <1>5, <1>6, <1>7 DEF Next, Work

\* The invariant is inductive.
LEMMA IInvInductive == (Init => IInv) /\ (IInv /\ [Next]_vars => IInv')
<1>1. Init => IInv
  <2> SUFFICES ASSUME Init PROVE IInv
    OBVIOUS
  <2>1. NewStatus \in Statuses
    BY DEF NewStatus, Statuses
  <2>2. cache \in [deployment : Deployments, daemonset : DaemonSets]
    BY DEF Init, Deployments, DaemonSets
  <2>3. edits \in 0..MaxEdits /\ changes \in 0..MaxChanges /\ faults \in 0..MaxFaults
    BY BoundsAssumption DEF Init
  <2>4. TypeOK
    BY <2>1, <2>2, <2>3 DEF Init, TypeOK, Deployments, DaemonSets
  <2> QED
    BY <2>3, <2>4, BoundsAssumption
       DEF Init, IInv, ReadsCurrent, Reading, DoneCurrent, CallsCovered
<1>2. IInv /\ [Next]_vars => IInv'
  BY TypesKept, ReadsKept, DoneKept, CallsKept DEF IInv
<1> QED
  BY <1>1, <1>2

\* SyncSesame keeps its types, for any workloads and any interleaving.
THEOREM TypeCorrect == Spec => []TypeOK
<1>1. IInv => TypeOK
  BY DEF IInv
<1> QED
  BY <1>1, IInvInductive, PTL DEF Spec

\* Once there is nothing left to do the status is that of the workloads as they
\* are, however their changes, the reads of them and the edits of the Sesame
\* were interleaved, and whatever failed on the way (status.go:34-89).
THEOREM StatusFollows == Spec => []StatusCurrent
<1>1. IInv => StatusCurrent
  BY DEF IInv, DoneCurrent, Quiet, Shows, StatusCurrent
<1> QED
  BY <1>1, IInvInductive, PTL DEF Spec

\* SyncSesame calls itself only in answer to edits, one for each call, however
\* often the workloads change and whatever the API server answers
\* (status.go:74-80).
THEOREM RecursionBounded == Spec => []CallsAreAnswers
<1>1. IInv => CallsAreAnswers
  BY DEF IInv, CallsCovered, CallsAreAnswers
<1> QED
  BY <1>1, IInvInductive, PTL DEF Spec

\* No update moves the time of a condition whose status it does not change
\* (mergeConditions, conditions.go:111-137).
THEOREM TimeOnlyWithStatus == Spec => TransitionTimeKept
<1> DEFINE Kept ==
      sesame # Nil /\ sesame' # Nil /\ sesame.condition # Nil =>
          /\ sesame'.condition # Nil
          /\ sesame'.condition.status = sesame.condition.status =>
                sesame'.condition.time = sesame.condition.time
<1>1. IInv /\ [Next]_vars => [Kept]_vars
  <2> SUFFICES ASSUME IInv, [Next]_vars, sesame # Nil, sesame' # Nil, sesame' # sesame,
                      sesame.condition # Nil
               PROVE  Kept
    OBVIOUS
  <2>1. SyncSesame
    BY DEF Next, Work, EnsureSesame, GetLatest, CurrentDeployment, CurrentDaemonSet,
           EditSesame, ChangeWorkload, SyncCache, vars, world
  <2>2. PICK now \in Times :
          LET status == Updated(latest, deploy, ds, now)
          IN  \/ /\ ~ SesameStatusChanged(latest, status)
                 /\ Done(failed)
                 /\ UNCHANGED <<sesame, faults>>
              \/ /\ SesameStatusChanged(latest, status)
                 /\ UpdateStatus(status)
    BY <2>1 DEF SyncSesame
  <2>3. sesame' = Updated(latest, deploy, ds, now) /\ ~ modified
    BY <2>2 DEF UpdateStatus
  <2>4. latest = sesame
    BY <2>1, <2>3 DEF SyncSesame, IInv, ReadsCurrent, Reading
  <2>5. sesame'.condition \in Conditions
    BY <2>2, <2>3, <2>4, UpdatedTyped DEF IInv, TypeOK
  <2>6. sesame'.condition # Nil
    BY <2>5, NilAssumption
  <2> QED
    BY <2>3, <2>4, <2>6, TimeMerged
<1> QED
  BY <1>1, IInvInductive, PTL DEF Spec, TransitionTimeKept

=============================================================================
