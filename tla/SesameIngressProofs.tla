------------------------ MODULE SesameIngressProofs ------------------------
(***************************************************************************)
(* Theorems about SesameIngress, for any specs, releases and budgets.      *)
(***************************************************************************)
EXTENDS SesameIngress, EnvoyPublishingProofs

-----------------------------------------------------------------------------
(* The inductive invariant, on top of that of EnvoyPublishing.             *)

\* The fields of a daemonset in the API server, which has filled in what the
\* generated one leaves out.
DaemonSetStored ==
    LET d == obj["daemonset"]
    IN  d # Nil =>
          d = [selector |-> d.selector, containers |-> d.containers,
               xds |-> d.xds, surge |-> MaxSurge, placement |-> d.placement]

\* An edit queues the Sesame, and so does the worker's own write: with an empty
\* queue the worker knows the spec, and beyond validation it is a valid one.
Informed ==
    /\ ~ queued => snap = spec /\ want = spec.envoy
    /\ pc \notin {"idle", "validate"} => Valid(want)

\* The kinds that a reconcile has been through when it comes to a call.
Past == [idle |-> Kinds, validate |-> {}, finalize |-> {}, configmap |-> {},
         job |-> {"configmap"}, deployment |-> {"configmap"},
         daemonset |-> {"configmap", "deployment"},
         service |-> {"configmap", "deployment", "daemonset"},
         envoy |-> Kinds]

PastJob == {"idle", "deployment", "daemonset", "service", "envoy"}

\* What it has been through is as it should be, unless it has collected an error
\* or somebody's change has queued the Sesame or gone unseen.
InLine ==
    ~ queued /\ ~ touched /\ ~ failed =>
        /\ \A k \in Past[pc] : obj[k] = Stored(k, snap)
        /\ pc \in PastJob => jobs[release.tag] \in {Nil, release.sesame}
        /\ pc = "idle" => outcome \in {"written", "insync"}

AInv == IngressTypeOK /\ DaemonSetStored /\ Informed /\ InLine

-----------------------------------------------------------------------------
(* To the Envoy Service nothing happens that EnvoyPublishing does not allow. *)

\* Each step is one of EnvoyPublishing's, or one it does not see.
LEMMA StepsPublish ==
  ASSUME [IngressNext]_ingress
  PROVE  [Next]_vars
<1> USE DEF publishing, vars
<1>1. CASE GetSesame
  BY <1>1 DEF GetSesame, Next
<1>2. CASE Validate
  BY <1>2 DEF Validate, Next
<1>3. CASE EnsureEnvoyService
  BY <1>3 DEF EnsureEnvoyService, Next
<1>4. CASE MeddleService
  BY <1>4 DEF MeddleService, Next
<1> QED
  BY <1>1, <1>2, <1>3, <1>4
     DEF IngressNext, Work, Others, EnsureFinalizer, EnsureKind, EnsureJob,
         DeploymentPanics, EditSpec, Crash, Upgrade, MeddleObject, FinishJob,
         ingress

\* In the midst of the other objects, faults, restarts and releases, the Envoy
\* Service is what EnvoyPublishing makes of it, and so all that is proved there
\* holds here.
THEOREM IngressPublishes ==
  ASSUME Range # {}
  PROVE  IngressSpec => Spec /\ []TypeOK /\ []Published /\ []Quiescent
<1>1. IngressInit => Init
  BY DEF IngressInit
<1>2. [IngressNext]_ingress => [Next]_vars
  BY StepsPublish
<1>3. IngressSpec => Spec
  BY <1>1, <1>2, PTL DEF IngressSpec, Spec
<1> QED
  BY <1>3, ServiceTyped, PublishedAsAsked, SettledIsQuiet, PTL

-----------------------------------------------------------------------------
(* The types.                                                              *)

\* A Sesame that has been written back once is written back unchanged.
LEMMA WrittenBackOnce ==
  ASSUME NEW s \in Specs \cup {WrittenBack(t) : t \in Specs}
  PROVE  WrittenBack(s) \in Specs \cup {WrittenBack(t) : t \in Specs}
<1>1. CASE s \in Specs
  BY <1>1
<1>2. ASSUME NEW t \in Specs, s = WrittenBack(t) PROVE WrittenBack(s) = s
  BY <1>2, SpecsAssumption DEF WrittenBack
<1> QED
  BY <1>1, <1>2

\* IngressTypeOK is inductive by itself.
LEMMA IngressTypeInductive ==
  /\ IngressInit => IngressTypeOK
  /\ IngressTypeOK /\ [IngressNext]_ingress => IngressTypeOK'
<1> USE DEF publishing, sesame, objects, worker, budgets, Kinds, Stop, Restart, Goto,
        Put, Fault, Change
<1>1. IngressInit => IngressTypeOK
  BY BudgetsAssumption DEF IngressInit, IngressTypeOK
<1>2. ASSUME IngressTypeOK, [IngressNext]_ingress PROVE IngressTypeOK'
  <2> USE <1>2
  <2> DEFINE ever == Specs \cup {WrittenBack(s) : s \in Specs}
  <2>specs. spec \in ever /\ snap \in ever
    BY DEF IngressTypeOK
  <2>ever. ASSUME spec' \in ever, snap' \in ever, release' \in Releases,
                  DOMAIN obj' = Kinds, DOMAIN jobs' = DOMAIN jobs,
                  pc' \in {"idle", "validate", "finalize", "job", "envoy"} \cup Kinds,
                  finalized' \in BOOLEAN, queued' \in BOOLEAN, fresh' \in BOOLEAN,
                  failed' \in BOOLEAN, touched' \in BOOLEAN,
                  changes' \in Nat, faults' \in Nat,
                  pc' \in {"idle", "validate", "finalize", "configmap"} => ~ failed'
           PROVE  IngressTypeOK'
    BY <2>ever DEF IngressTypeOK
  <2>written. WrittenBack(spec) \in ever
    BY <2>specs, WrittenBackOnce
  <2>edited. Specs \subseteq ever
    OBVIOUS
  <2>old. /\ release \in Releases /\ DOMAIN obj = Kinds
          /\ pc \in {"idle", "validate", "finalize", "job", "envoy"} \cup Kinds
          /\ finalized \in BOOLEAN /\ queued \in BOOLEAN /\ fresh \in BOOLEAN
          /\ failed \in BOOLEAN /\ touched \in BOOLEAN
          /\ changes \in Nat /\ faults \in Nat
          /\ pc \in {"idle", "validate", "finalize", "configmap"} => ~ failed
    BY DEF IngressTypeOK
  <2>spent. /\ changes > 0 => changes - 1 \in Nat
            /\ faults > 0 => faults - 1 \in Nat
    BY <2>old
  <2> HIDE DEF ever
  <2> USE <2>specs, <2>ever, <2>written, <2>edited, <2>old, <2>spent
  <2>1. CASE GetSesame
    BY <2>1 DEF GetSesame
  <2>2. CASE Validate
    BY <2>2 DEF Validate
  <2>3. CASE EnsureFinalizer
    BY <2>3, WrittenBackOnce DEF EnsureFinalizer
  <2>4. ASSUME NEW k \in Kinds, EnsureKind(k) PROVE IngressTypeOK'
    <3>1. failed' \in BOOLEAN
      BY <2>4 DEF EnsureKind, Ensure, Update, Result
    <3>2. DOMAIN obj' = Kinds /\ queued' \in BOOLEAN
      BY <2>4 DEF EnsureKind
    <3>3. pc' \in {"job", "daemonset", "service", "envoy"}
      BY <2>4 DEF EnsureKind, After
    <3> QED
      BY <2>4, <3>1, <3>2, <3>3 DEF EnsureKind
  <2>5. CASE EnsureJob
    BY <2>5 DEF EnsureJob, After
  <2>6. CASE DeploymentPanics \/ Crash \/ Upgrade
    BY <2>6 DEF DeploymentPanics, Crash, Upgrade
  <2>7. CASE EnsureEnvoyService
    BY <2>7 DEF EnsureEnvoyService
  <2>8. CASE EditSpec \/ MeddleService
    BY <2>8 DEF EditSpec, MeddleService
  <2>9. ASSUME NEW k \in Kinds, MeddleObject(k) PROVE IngressTypeOK'
    BY <2>9 DEF MeddleObject
  <2>10. ASSUME NEW tag \in DOMAIN jobs, FinishJob(tag) PROVE IngressTypeOK'
    BY <2>10 DEF FinishJob
  <2>11. CASE UNCHANGED ingress
    BY <2>11 DEF ingress
  <2> QED
    BY <2>1, <2>2, <2>3, <2>4, <2>5, <2>6, <2>7, <2>8, <2>9, <2>10, <2>11
       DEF IngressNext, Work, Others
<1> QED
  BY <1>1, <1>2

\* Everything around the Envoy Service has its type, and no reconcile begins
\* with the errors of another one.
THEOREM IngressTyped == IngressSpec => []IngressTypeOK
  BY IngressTypeInductive, PTL DEF IngressSpec

-----------------------------------------------------------------------------
(* AInv is inductive.                                                      *)

\* A call that does not fail and changes nothing found what it asks for, which
\* takes a daemonset whose generated fields are those the server keeps.
LEMMA EnsureResults ==
  ASSUME NEW k \in Kinds
  PROVE  /\ Ensure(k).object \in {obj[k], Stored(k, snap), Nil}
         /\ k \notin Watched /\ ~ Ensure(k).err => Ensure(k).object = Stored(k, snap)
         /\ DaemonSetStored /\ Ensure(k).object = obj[k] /\ ~ Ensure(k).err =>
               obj[k] = Stored(k, snap)
<1>1. DaemonSetStored /\ obj[k] # Nil /\ obj[k] = Generated(k, snap) =>
        obj[k] = Stored(k, snap)
  <2>1. CASE k = "daemonset"
    BY <2>1 DEF DaemonSetStored, Generated, Stored, DesiredDaemonSet
  <2>2. CASE k # "daemonset"
    BY <2>2 DEF Stored
  <2> QED
    BY <2>1, <2>2
<1>2. k \notin Watched => Stored(k, snap) = Generated(k, snap) /\ ~ SelectorsDiffer(k)
  BY DEF Watched, Stored, SelectorsDiffer
<1> QED
  BY <1>1, <1>2 DEF Ensure, Update, Result

\* The API server adds what it adds whoever writes.
LEMMA DaemonSetStoredInductive ==
  /\ IngressInit => DaemonSetStored
  /\ IngressTypeOK /\ DaemonSetStored /\ [IngressNext]_ingress => DaemonSetStored'
<1> DEFINE D(d) == d # Nil => d = [selector |-> d.selector, containers |-> d.containers,
                                   xds |-> d.xds, surge |-> MaxSurge,
                                   placement |-> d.placement]
<1>0. /\ DaemonSetStored <=> D(obj["daemonset"])
      /\ DaemonSetStored' <=> D(obj'["daemonset"])
  BY DEF DaemonSetStored
<1>1. ASSUME NEW s
      PROVE  D(Stored("daemonset", s)) /\ D(Earlier("daemonset", s))
  <2>1. Stored("daemonset", s) =
          [selector |-> "envoy", containers |-> EnvoyContainers(s), xds |-> 8001,
           surge |-> MaxSurge, placement |-> Placement(s, "envoy")]
    BY DEF Stored, DesiredDaemonSet
  <2>2. Earlier("daemonset", s) =
          [selector |-> "old", containers |-> EnvoyContainers(s), xds |-> 8001,
           surge |-> MaxSurge, placement |-> Placement(s, "envoy")]
    BY <2>1 DEF Earlier
  <2> QED
    BY <2>1, <2>2
<1>2. D(obj["daemonset"]) /\ obj["daemonset"] # Nil => D(Tampered("daemonset"))
  BY DEF Tampered
<1>3. D(Nil)
  OBVIOUS
<1>4. IngressInit => D(obj["daemonset"])
  BY <1>1, <1>3, Zenon DEF IngressInit, Kinds, Watched
<1> HIDE DEF D
<1>5. ASSUME IngressTypeOK, D(obj["daemonset"]), [IngressNext]_ingress
      PROVE  D(obj'["daemonset"])
  <2>1. ASSUME NEW k \in Kinds, NEW o, obj' = [obj EXCEPT ![k] = o],
               k = "daemonset" => D(o)
        PROVE  D(obj'["daemonset"])
    BY <1>5, <2>1 DEF IngressTypeOK
  <2>2. ASSUME NEW k \in Kinds, EnsureKind(k) PROVE D(obj'["daemonset"])
    <3>1. PICK o \in {obj[k], Stored(k, snap), Nil} : obj' = [obj EXCEPT ![k] = o]
      BY <2>2, EnsureResults DEF EnsureKind, Put
    <3> QED
      BY <1>1, <1>3, <1>5, <2>1, <3>1
  <2>3. ASSUME NEW k \in Kinds, MeddleObject(k) PROVE D(obj'["daemonset"])
    <3>1. PICK o \in {Nil, Tampered(k)} : obj' = [obj EXCEPT ![k] = o]
      BY <2>3 DEF MeddleObject, Put
    <3>2. obj[k] # Nil
      BY <2>3 DEF MeddleObject
    <3> QED
      BY <1>2, <1>3, <1>5, <2>1, <3>1, <3>2
  <2>4. CASE UNCHANGED obj
    BY <1>5, <2>4
  <2> QED
    BY <1>5, <2>2, <2>3, <2>4
       DEF IngressNext, Work, Others, GetSesame, Validate, EnsureFinalizer, EnsureJob,
           DeploymentPanics, EnsureEnvoyService, EditSpec, MeddleService, Crash,
           Upgrade, FinishJob, ingress, objects
<1> QED
  BY <1>0, <1>4, <1>5

\* An edit, and a write by the worker, puts the Sesame into the queue.
LEMMA InformedInductive ==
  /\ IngressInit => Informed
  /\ IngressTypeOK /\ Informed /\ [IngressNext]_ingress => Informed'
<1> USE DEF publishing, sesame, objects, worker, budgets, Stop, Restart, Goto, Put
<1>1. IngressInit => Informed
  BY DEF IngressInit, Informed
<1>2. ASSUME IngressTypeOK, Informed, [IngressNext]_ingress PROVE Informed'
  <2> USE <1>2 DEF Informed
  <2>1. CASE GetSesame
    BY <2>1 DEF GetSesame
  <2>2. CASE Validate
    BY <2>2 DEF Validate
  <2>3. CASE EnsureFinalizer
    BY <2>3 DEF EnsureFinalizer
  <2>4. ASSUME NEW k \in Kinds, EnsureKind(k) PROVE Informed'
    BY <2>4 DEF EnsureKind, Kinds
  <2>5. CASE EnsureJob
    BY <2>5 DEF EnsureJob
  <2>6. CASE DeploymentPanics \/ Crash \/ Upgrade
    BY <2>6 DEF DeploymentPanics, Crash, Upgrade
  <2>7. CASE EnsureEnvoyService
    BY <2>7 DEF EnsureEnvoyService, Reconcile
  <2>8. CASE EditSpec
    BY <2>8 DEF EditSpec
  <2>9. CASE MeddleService
    BY <2>9 DEF MeddleService, Meddle
  <2>10. ASSUME NEW k \in Kinds, MeddleObject(k) PROVE Informed'
    BY <2>10 DEF MeddleObject
  <2>11. ASSUME NEW tag \in DOMAIN jobs, FinishJob(tag) PROVE Informed'
    BY <2>11 DEF FinishJob
  <2>12. CASE UNCHANGED ingress
    BY <2>12 DEF ingress
  <2> QED
    BY <2>1, <2>2, <2>3, <2>4, <2>5, <2>6, <2>7, <2>8, <2>9, <2>10, <2>11, <2>12
       DEF IngressNext, Work, Others
<1> QED
  BY <1>1, <1>2

\* What a reconcile asks for does not change while nobody changes the spec or the
\* release.
LEMMA StoredUnchanged ==
  ASSUME UNCHANGED <<snap, release>>, NEW k
  PROVE  Stored(k, snap)' = Stored(k, snap)
  BY DEF Stored, Generated, DesiredConfigMap, DesiredDeployment, DesiredDaemonSet,
     DesiredSesameService, SesameContainer, EnvoyContainers, PortArguments, Placement

\* One call after the other, what has been gone through is in line, and a step
\* that undoes this is an error, an event or somebody else's.
LEMMA InLineInductive ==
  ASSUME IngressTypeOK, DaemonSetStored, Informed, InLine, [IngressNext]_ingress
  PROVE  InLine'
<1> SUFFICES ASSUME ~ queued', ~ touched', ~ failed'
             PROVE  /\ \A k \in Past[pc'] : obj'[k] = Stored(k, snap)'
                    /\ pc' \in PastJob => jobs'[release'.tag] \in {Nil, release'.sesame}
                    /\ pc' = "idle" => outcome' \in {"written", "insync"}
  BY DEF InLine
<1> USE DEF publishing, sesame, objects, worker, budgets, Stop, Restart, Goto, Put
<1>past. Past[pc] \subseteq Kinds
  BY DEF Past, Kinds, IngressTypeOK
<1>1. CASE GetSesame
  BY <1>1 DEF GetSesame, Past, PastJob
<1>2. CASE Validate
  <2>1. pc' \in {"configmap", "finalize"}
    BY <1>2 DEF Validate
  <2> QED
    BY <2>1 DEF Past, PastJob
<1>3. CASE EnsureFinalizer \/ DeploymentPanics \/ Crash \/ Upgrade \/ EditSpec \/ MeddleService
  BY <1>3 DEF EnsureFinalizer, DeploymentPanics, Crash, Upgrade, EditSpec, MeddleService
<1>4. ASSUME NEW k \in Kinds, EnsureKind(k)
      PROVE  /\ \A j \in Past[pc'] : obj'[j] = Stored(j, snap)'
             /\ pc' \in PastJob => jobs'[release'.tag] \in {Nil, release'.sesame}
             /\ pc' = "idle" => outcome' \in {"written", "insync"}
  <2>1. /\ pc = k /\ pc' = After[k] /\ ~ queued /\ ~ touched /\ ~ failed
        /\ ~ Ensure(k).err
        /\ obj' = [obj EXCEPT ![k] = Ensure(k).object]
        /\ k \in Watched => Ensure(k).object = obj[k]
        /\ UNCHANGED <<snap, release, jobs>>
    BY <1>4 DEF EnsureKind
  <2>2. obj'[k] = Stored(k, snap)
    BY <2>1, EnsureResults DEF IngressTypeOK
  <2>3. \A j \in Past[k] : obj'[j] = Stored(j, snap)
    <3>1. k \notin Past[k]
      BY DEF Past, Kinds
    <3>2. \A j \in Past[k] : obj[j] = Stored(j, snap) /\ j \in Kinds
      BY <2>1, <1>past DEF InLine
    <3> QED
      BY <2>1, <3>1, <3>2 DEF IngressTypeOK
  <2>4. Past[pc'] \subseteq Past[k] \cup {k} /\ pc' # "idle"
    BY <2>1 DEF Past, After, Kinds
  <2>5. pc' \in PastJob => pc \in PastJob
    BY <2>1 DEF PastJob, After, Kinds
  <2> QED
    BY <2>1, <2>2, <2>3, <2>4, <2>5, StoredUnchanged DEF InLine
<1>5. CASE EnsureJob
  <2>1. /\ pc = "job" /\ pc' = "deployment" /\ ~ queued /\ ~ touched /\ ~ failed
        /\ UNCHANGED <<snap, release, obj>>
        /\ jobs' = [jobs EXCEPT ![release.tag] = release.sesame]
    BY <1>5 DEF EnsureJob, After
  <2>2. release.tag \in DOMAIN jobs
    BY DEF IngressTypeOK
  <2> QED
    BY <2>1, <2>2, StoredUnchanged DEF InLine, Past, PastJob
<1>6. CASE EnsureEnvoyService
  <2>1. /\ pc = "envoy" /\ pc' = "idle" /\ ~ queued /\ ~ touched /\ ~ failed
        /\ Reconcile /\ outcome' \notin {"refused", "panic"}
        /\ UNCHANGED <<snap, release, obj, jobs>>
    BY <1>6 DEF EnsureEnvoyService
  <2>2. outcome' \in {"written", "insync"}
    BY <2>1 DEF Informed, Reconcile, Write
  <2> QED
    BY <2>1, <2>2, StoredUnchanged DEF InLine, Past, PastJob
<1>7. ASSUME NEW k \in Kinds, MeddleObject(k)
      PROVE  UNCHANGED <<pc, snap, release, jobs, outcome, failed>>
             /\ ~ queued /\ ~ touched /\ \A j \in Kinds : obj'[j] = obj[j]
  BY <1>7 DEF MeddleObject, IngressTypeOK
<1>8. ASSUME NEW tag \in DOMAIN jobs, FinishJob(tag)
      PROVE  UNCHANGED <<pc, snap, release, obj, outcome, queued, touched, failed>>
             /\ jobs'[release.tag] \in {Nil, jobs[release.tag]}
  BY <1>8 DEF FinishJob, IngressTypeOK
<1>9. CASE /\ UNCHANGED <<pc, snap, release, outcome, failed>>
           /\ ~ queued /\ ~ touched
           /\ jobs'[release.tag] \in {Nil, jobs[release.tag]}
           /\ \A j \in Kinds : obj'[j] = obj[j]
  <2>1. Past[pc] \subseteq Kinds
    BY <1>past
  <2> QED
    BY <1>9, <2>1, StoredUnchanged DEF InLine
<1>10. CASE UNCHANGED ingress
  BY <1>10, <1>9 DEF ingress
<1> QED
  BY <1>1, <1>2, <1>3, <1>4, <1>5, <1>6, <1>7, <1>8, <1>9, <1>10
     DEF IngressNext, Work, Others

\* AInv holds in every state.
LEMMA AInvInvariant == IngressSpec => []AInv
<1>1. IngressInit => InLine
  BY DEF IngressInit, InLine
<1>2. AInv /\ [IngressNext]_ingress => AInv'
  BY IngressTypeInductive, DaemonSetStoredInductive, InformedInductive, InLineInductive
     DEF AInv
<1> QED
  BY <1>1, <1>2, IngressTypeInductive, DaemonSetStoredInductive, InformedInductive,
     PTL DEF IngressSpec, AInv

\* When the worker rests and nobody has touched what it does not watch, every
\* object is what the last spec and the running release ask for: no edit between
\* two calls is lost, and no error, restart or upgrade forgotten.
THEOREM AppliedAtRest ==
  ASSUME Range # {}
  PROVE  IngressSpec => []Applied
<1>1. AInv /\ Published => Applied
  <2> SUFFICES ASSUME AInv, Published, Quiet PROVE Applied
    BY DEF Applied
  <2>1. pc = "idle" /\ ~ queued /\ ~ touched /\ ~ failed
    BY DEF Quiet, AInv, IngressTypeOK
  <2>2. snap = spec /\ want = spec.envoy
    BY <2>1 DEF AInv, Informed
  <2>3. /\ \A k \in Kinds : obj[k] = Stored(k, spec)
        /\ jobs[release.tag] \in {Nil, release.sesame}
        /\ outcome \in {"written", "insync"}
    BY <2>1, <2>2 DEF AInv, InLine, Past, PastJob
  <2> QED
    BY <2>2, <2>3 DEF Published, Applied
<1> QED
  BY <1>1, AInvInvariant, IngressPublishes, PTL

-----------------------------------------------------------------------------
(* The ports that three objects share.                                     *)

\* A Service that has been published is that of a valid spec.
Sound == outcome \in {"written", "insync"} => Valid(want)

LEMMA SoundInductive ==
  /\ Init => Sound
  /\ Sound /\ [Next]_vars => Sound'
<1>1. Init => Sound
  BY DEF Init, Sound
<1>2. ASSUME Sound, [Next]_vars PROVE Sound'
  <2>1. CASE Reconcile
    BY <2>1 DEF Reconcile, Sound
  <2>2. CASE EditPublishing \/ Meddle
    BY <2>2 DEF EditPublishing, Meddle, Sound
  <2>3. CASE UNCHANGED vars
    BY <1>2, <2>3 DEF vars, Sound
  <2> QED
    BY <1>2, <2>1, <2>2, <2>3 DEF Next
<1> QED
  BY <1>1, <1>2

LEMMA ElementsOfBoth ==
  ASSUME NEW S, NEW a \in Seq(S), NEW b \in Seq(S)
  PROVE  Elements(a \o b) = Elements(a) \cup Elements(b)
<1>1. /\ DOMAIN a = 1..Len(a) /\ Len(a) \in Nat
      /\ DOMAIN b = 1..Len(b) /\ Len(b) \in Nat
      /\ DOMAIN (a \o b) = 1..(Len(a) + Len(b))
  OBVIOUS
<1>2. \A i \in 1..Len(a) : (a \o b)[i] = a[i]
  OBVIOUS
<1>3. \A i \in 1..Len(b) : (a \o b)[Len(a) + i] = b[i]
  OBVIOUS
<1>4. ASSUME NEW x \in Elements(a \o b) PROVE x \in Elements(a) \cup Elements(b)
  <2>1. PICK i \in 1..(Len(a) + Len(b)) : x = (a \o b)[i]
    BY <1>1 DEF Elements
  <2>2. CASE i \in 1..Len(a)
    BY <1>1, <1>2, <2>1, <2>2 DEF Elements
  <2>3. CASE i \notin 1..Len(a)
    <3>1. i - Len(a) \in 1..Len(b) /\ i = Len(a) + (i - Len(a))
      BY <1>1, <2>3
    <3>2. x = b[i - Len(a)]
      BY <1>3, <2>1, <3>1
    <3> QED
      BY <1>1, <3>1, <3>2 DEF Elements
  <2> QED
    BY <2>2, <2>3
<1>5. ASSUME NEW x \in Elements(a) PROVE x \in Elements(a \o b)
  <2>1. PICK i \in 1..Len(a) : x = a[i]
    BY <1>1 DEF Elements
  <2>2. i \in DOMAIN (a \o b) /\ x = (a \o b)[i]
    BY <1>1, <1>2, <2>1
  <2> QED
    BY <2>2 DEF Elements
<1>6. ASSUME NEW x \in Elements(b) PROVE x \in Elements(a \o b)
  <2>1. PICK i \in 1..Len(b) : x = b[i]
    BY <1>1 DEF Elements
  <2>2. Len(a) + i \in DOMAIN (a \o b)
    BY <1>1
  <2>3. x = (a \o b)[Len(a) + i]
    BY <1>3, <2>1
  <2> QED
    BY <2>2, <2>3 DEF Elements
<1> QED
  BY <1>4, <1>5, <1>6

\* Of a port that is not named in its arguments Sesame takes the default, and
\* that is the number of the port then.
LEMMA ListensOnItsPorts ==
  ASSUME NEW s, s.envoy \in Publishings, Valid(s.envoy), NEW i \in 1..2,
         obj["deployment"].container.ports = PortArguments(s)
  PROVE  LET port == s.envoy.containerPorts[i]
         IN  port.number \in ListeningOn(port.name)
<1> DEFINE ports == s.envoy.containerPorts
           told(port) == \/ port.name = "http" /\ port.number # DefaultPort.http
                         \/ port.name = "https" /\ port.number # DefaultPort.https
           argument(port) == IF told(port) THEN <<port>> ELSE <<>>
           arguments == PortArguments(s)
           named == {port \in Elements(arguments) : port.name = ports[i].name}
<1>1. \A j \in 1..2 : ports[j].name \in {"http", "https"}
  BY ContainerPortsTyped
<1>2. arguments = argument(ports[1]) \o argument(ports[2])
  BY DEF PortArguments
<1>3. ports[1].name # ports[2].name
  BY DEF Valid, ContainerPorts
<1>4. Elements(arguments) = {port \in {ports[1], ports[2]} : told(port)}
  <2> HIDE DEF told, arguments, ports
  <2>1. ASSUME NEW S, NEW port \in S
        PROVE  /\ argument(port) \in Seq(S)
               /\ Elements(argument(port)) = IF told(port) THEN {port} ELSE {}
    <3>1. <<port>> \in Seq(S) /\ <<>> \in Seq(S)
      OBVIOUS
    <3>2. Elements(<<port>>) = {port} /\ Elements(<<>>) = {}
      BY DEF Elements
    <3> QED
      BY <3>1, <3>2
  <2> HIDE DEF argument
  <2>2. Elements(arguments) = Elements(argument(ports[1])) \cup Elements(argument(ports[2]))
    <3> DEFINE both == {ports[1], ports[2]}
    <3>1. argument(ports[1]) \in Seq(both) /\ argument(ports[2]) \in Seq(both)
      BY <2>1
    <3> QED
      BY <1>2, <3>1, ElementsOfBoth
  <2> QED
    BY <2>1, <2>2
<1>5. named = IF told(ports[i]) THEN {ports[i]} ELSE {}
  <2> HIDE DEF told, arguments, ports
  <2> QED
    BY <1>3, <1>4
<1>6. ListeningOn(ports[i].name) =
        IF named = {} THEN {DefaultPort[ports[i].name]} ELSE {port.number : port \in named}
  BY DEF ListeningOn
<1>7. ~ told(ports[i]) => ports[i].number = DefaultPort[ports[i].name]
  BY <1>1 DEF DefaultPort
<1> HIDE DEF named, told, ports
<1>8. ports[i].number \in ListeningOn(ports[i].name)
  BY <1>5, <1>6, <1>7
<1> QED
  BY <1>8 DEF ports

\* The objects that are in line with a valid spec are in line with each other.
LEMMA AppliedAgree ==
  ASSUME NEW s, s.envoy \in Publishings, Valid(s.envoy), Matches(svc, s.envoy),
         \A k \in Kinds : obj[k] = Stored(k, s)
  PROVE  /\ svc.selector = obj["daemonset"].selector
         /\ \A i \in DOMAIN svc.ports :
              LET port == svc.ports[i]
              IN  /\ [name |-> port.name, number |-> port.target] \in
                        Elements(obj["daemonset"].containers.ports)
                  /\ port.target \in ListeningOn(port.name)
         /\ obj["service"].selector = obj["deployment"].selector
         /\ obj["service"].port = obj["daemonset"].xds
         /\ obj["service"].target = obj["deployment"].container.xds
<1>1. /\ obj["deployment"] = DesiredDeployment(s)
      /\ obj["service"] = DesiredSesameService
      /\ obj["daemonset"] =
            [selector |-> "envoy", containers |-> EnvoyContainers(s), xds |-> 8001,
             surge |-> MaxSurge, placement |-> Placement(s, "envoy")]
  BY DEF Kinds, Stored, Generated, DesiredDaemonSet
<1>2. svc.selector = "envoy" /\ DOMAIN svc.ports = 1..2
  BY DEF Matches, Desired
<1>3. ASSUME NEW i \in 1..2
      PROVE  /\ svc.ports[i].name = s.envoy.containerPorts[i].name
             /\ svc.ports[i].target = s.envoy.containerPorts[i].number
  BY DEF Matches, Desired, ServicePort
<1>4. ASSUME NEW i \in 1..2
      PROVE  /\ [name |-> svc.ports[i].name, number |-> svc.ports[i].target] =
                   s.envoy.containerPorts[i]
             /\ i \in DOMAIN s.envoy.containerPorts
  BY <1>3, PublishingsAssumption DEF PortLists
<1>5. obj["daemonset"].containers.ports = s.envoy.containerPorts
  BY <1>1 DEF EnvoyContainers
<1>6. obj["deployment"].container.ports = PortArguments(s)
  BY <1>1 DEF DesiredDeployment, SesameContainer
<1>7. ASSUME NEW i \in 1..2
      PROVE  svc.ports[i].target \in ListeningOn(svc.ports[i].name)
  BY <1>3, <1>6, ListensOnItsPorts
<1> QED
  BY <1>1, <1>2, <1>4, <1>5, <1>7
     DEF Elements, DesiredDeployment, SesameContainer, DesiredSesameService

\* When the worker rests, requests get through: the ports in the Service, in the
\* daemonset and in the deployment's arguments are the same, for any ports that
\* pass validation and whatever happened on the way.
THEOREM TrafficReachesAtRest ==
  ASSUME Range # {}
  PROVE  IngressSpec => []TrafficReaches
<1>1. AInv /\ TypeOK /\ Published /\ Sound => TrafficReaches
  <2> SUFFICES ASSUME AInv, TypeOK, Published, Sound, Quiet PROVE TrafficReaches
    BY DEF TrafficReaches
  <2>1. snap = spec /\ want = spec.envoy
    BY DEF Quiet, AInv, Informed
  <2>2. ~ failed
    BY DEF Quiet, AInv, IngressTypeOK
  <2>3. /\ \A k \in Kinds : obj[k] = Stored(k, spec)
        /\ outcome \in {"written", "insync"}
    BY <2>1, <2>2 DEF Quiet, AInv, InLine, Past
  <2>4. Valid(spec.envoy) /\ Matches(svc, spec.envoy)
    BY <2>1, <2>3 DEF Sound, Published
  <2>5. spec.envoy \in Publishings
    BY <2>1 DEF TypeOK
  <2> QED
    BY <2>3, <2>4, <2>5, AppliedAgree DEF TrafficReaches
<1>2. IngressSpec => []AInv
  BY AInvInvariant
<1>3. IngressSpec => []Sound
  <2>1. Spec => []Sound
    BY SoundInductive, PTL DEF Spec
  <2> QED
    BY <2>1, IngressPublishes, PTL
<1> QED
  BY <1>1, <1>2, <1>3, IngressPublishes, PTL

-----------------------------------------------------------------------------
(* No write loop.                                                          *)

\* What is stored has the selector that is generated.
LEMMA AppliedEnsured ==
  ASSUME NEW k \in Kinds, obj[k] = Stored(k, snap)
  PROVE  Ensure(k).object = obj[k]
<1>1. ~ SelectorsDiffer(k)
  <2>1. CASE k = "daemonset"
    BY <2>1 DEF SelectorsDiffer, Stored, Generated, DesiredDaemonSet
  <2>2. CASE k # "daemonset"
    BY <2>2 DEF SelectorsDiffer, Stored
  <2> QED
    BY <2>1, <2>2
<1> QED
  BY <1>1 DEF Ensure, Update, Result

\* The calls leave an object that is as it would be made, whatever defaults the
\* API server has put into it and whether it takes the update or not, and the
\* Sesame is not queued again for it (equality.go:26-53, 97-125).
THEOREM AppliedIsStable == IngressSpec => AppliedIsLeftAlone
<1>1. IngressTypeOK =>
        [\A k \in Kinds : EnsureKind(k) /\ obj[k] = Stored(k, snap) =>
            obj'[k] = obj[k] /\ queued' = queued]_ingress
  <2> SUFFICES ASSUME IngressTypeOK, NEW k \in Kinds, EnsureKind(k),
                      obj[k] = Stored(k, snap)
               PROVE  obj'[k] = obj[k] /\ queued' = queued
    OBVIOUS
  <2>1. Ensure(k).object = obj[k]
    BY AppliedEnsured
  <2>2. Put(k, obj[k])
    BY <2>1 DEF EnsureKind
  <2>3. k \in DOMAIN obj /\ queued \in BOOLEAN
    BY DEF IngressTypeOK
  <2>4. obj' = [obj EXCEPT ![k] = obj[k]] /\ queued' = (queued \/ FALSE)
    BY <2>2 DEF Put
  <2> QED
    BY <2>3, <2>4
<1> QED
  BY <1>1, IngressTypeInductive, PTL DEF IngressSpec, AppliedIsLeftAlone

=============================================================================
