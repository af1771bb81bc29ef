--------------------------- MODULE SesameIngress ---------------------------
(***************************************************************************)
(* What one Sesame consists of, in detail: the configuration map, the      *)
(* certificate job, the deployment, the daemonset and the Sesame Service,  *)
(* together with the Envoy Service of EnvoyPublishing. Traffic only        *)
(* reaches Envoy if three of them agree on its ports, and they are brought *)
(* in line with the spec one by one, by a worker whose calls fail one by   *)
(* one, whose process is killed or replaced by another release in between, *)
(* while users edit the spec and others edit the objects.                  *)
(*                                                                         *)
(* The variable want of EnvoyPublishing is the network publishing of the   *)
(* spec that the worker has read. Caches are current here; that they lag   *)
(* is the subject of SesameOperator.                                       *)
(***************************************************************************)
EXTENDS EnvoyPublishing, Sequences

CONSTANTS
    Specs,      \* specs users choose from
    Releases,   \* releases of the operator: tag of the default image, images
    Budgets,    \* pairs of bounds: what users and others do, what fails
    MaxSurge,   \* default that the API server adds to a daemonset, or Nil
    TakesUnversioned  \* it takes a Service without resourceVersion and address

ASSUME SpecsAssumption ==
    \A s \in Specs :
        /\ s.envoy \in Publishings
        /\ "replicas" \in DOMAIN s /\ s.replicas \in Nat
        /\ s.placement # Nil => {"sesame", "envoy"} \subseteq DOMAIN s.placement

ASSUME BudgetsAssumption == Budgets \subseteq Nat \X Nat

ASSUME TakesUnversionedAssumption == TakesUnversioned \in BOOLEAN

VARIABLES
    spec,       \* the Sesame's spec in the API server
    finalized,  \* it has the finalizer
    release,    \* the release of the operator that runs
    obj,        \* the objects, by kind, Nil if there is none
    jobs,       \* the image of the certificate job of each release's name
    queued,     \* the Sesame is in the queue
    pc,         \* where the worker is
    snap,       \* the spec as it has been read
    fresh,      \* the Sesame is still the one that was read
    failed,     \* an error has been collected
    touched,    \* an unwatched object has changed since the last Get
    changes, faults  \* what is left of the bounds

publishing == <<want, svc, outcome, edits, meddles>>
sesame == <<spec, finalized, fresh>>
objects == <<obj, jobs>>
worker == <<pc, snap, failed>>
budgets == <<changes, faults>>
ingress == <<publishing, sesame, release, objects, queued, worker, touched, budgets>>

Kinds == {"configmap", "deployment", "daemonset", "service"}
Watched == {"deployment", "daemonset"}

\* The order of ensureSesame.
After == [configmap |-> "job", job |-> "deployment", deployment |-> "daemonset",
          daemonset |-> "service", service |-> "envoy"]

-----------------------------------------------------------------------------
(* The objects that a spec asks for.                                       *)

\* The Sesame's server is told of the ports that are not its defaults.
DefaultPort == [http |-> 8080, https |-> 8443]

\* Deviation: takes the default of either port for that of both.
PortArgumentsOfEither(s) ==
    LET argument(port) == IF port.number \in {8080, 8443} THEN <<>> ELSE <<port>>
    IN  argument(s.envoy.containerPorts[1]) \o argument(s.envoy.containerPorts[2])

PortArguments(s) ==
    LET told(port) == \/ port.name = "http" /\ port.number # DefaultPort.http
                      \/ port.name = "https" /\ port.number # DefaultPort.https
        argument(port) == IF told(port) THEN <<port>> ELSE <<>>
    IN  argument(s.envoy.containerPorts[1]) \o argument(s.envoy.containerPorts[2])

Placement(s, part) == IF s.placement = Nil THEN Nil ELSE s.placement[part]

SesameContainer(s) ==
    [image |-> release.sesame, ports |-> PortArguments(s), class |-> s.class, xds |-> 8001]

DesiredDeployment(s) ==
    [selector |-> "sesame", replicas |-> s.replicas, container |-> SesameContainer(s),
     placement |-> Placement(s, "sesame")]

\* The shutdown manager and Envoy. An init container of Sesame's image tells
\* Envoy where to find Sesame.
EnvoyContainers(s) ==
    [images |-> <<release.sesame, release.envoy>>, ports |-> s.envoy.containerPorts]

DesiredDaemonSet(s) ==
    [selector |-> "envoy", containers |-> EnvoyContainers(s), xds |-> 8001,
     surge |-> Nil, placement |-> Placement(s, "envoy")]

\* An empty name counts as none.
DesiredConfigMap(s) ==
    [gateway |-> IF s.gateway = "" THEN Nil ELSE s.gateway,
     external |-> s.external # Nil /\ s.external]

DesiredSesameService == [selector |-> "sesame", port |-> 8001, target |-> 8001]

Generated(k, s) ==
    CASE k = "configmap" -> DesiredConfigMap(s)
      [] k = "deployment" -> DesiredDeployment(s)
      [] k = "daemonset" -> DesiredDaemonSet(s)
      [] k = "service" -> DesiredSesameService

\* The API server fills in what a generated daemonset leaves out.
Stored(k, s) ==
    IF k = "daemonset" THEN [DesiredDaemonSet(s) EXCEPT !.surge = MaxSurge]
    ELSE Generated(k, s)

-----------------------------------------------------------------------------
(* The Ensure functions: the object of kind k afterwards and whether the   *)
(* caller gets an error.                                                   *)

Result(object, err) == [object |-> object, err |-> err]

SelectorsDiffer(k) ==
    k \in Watched /\ obj[k].selector # Generated(k, snap).selector

\* The API server refuses to change a selector. The Sesame Service is updated
\* with the generated one, not with a copy of the current one.
Refused(k) == SelectorsDiffer(k) \/ (k = "service" /\ ~ TakesUnversioned)

Update(k) ==
    IF Refused(k) THEN Result(obj[k], TRUE) ELSE Result(Stored(k, snap), FALSE)

\* Deviation: updates whatever the selector is.
EnsureInPlace(k) ==
    IF obj[k] = Nil THEN Result(Stored(k, snap), FALSE)
    ELSE IF obj[k] # Generated(k, snap) THEN Update(k)
    ELSE Result(obj[k], FALSE)

\* Deviation: deletes one that differs in anything.
EnsureAnew(k) ==
    IF obj[k] = Nil THEN Result(Stored(k, snap), FALSE)
    ELSE IF obj[k] # Generated(k, snap) THEN Result(Nil, FALSE)
    ELSE Result(obj[k], FALSE)

\* One whose selector differs is deleted, for another reconcile to create.
Ensure(k) ==
    IF obj[k] = Nil THEN Result(Stored(k, snap), FALSE)
    ELSE IF SelectorsDiffer(k) THEN Result(Nil, FALSE)
    ELSE IF obj[k] # Generated(k, snap) THEN Update(k)
    ELSE Result(obj[k], FALSE)

Fault == faults > 0 /\ faults' = faults - 1

\* Events of watched kinds queue the Sesame, one in which nothing changes is none.
Put(k, o) ==
    /\ obj' = [obj EXCEPT ![k] = o]
    /\ queued' = (queued \/ (k \in Watched /\ o # obj[k]))

Goto(label) == pc' = label /\ UNCHANGED snap

\* Deviation: takes the errors of this reconcile to the next.
StopKeepingErrors(requeue) ==
    /\ pc' = "idle"
    /\ queued' = (queued \/ requeue)
    /\ UNCHANGED <<snap, failed>>

Stop(requeue) ==
    /\ pc' = "idle"
    /\ failed' = FALSE
    /\ queued' = (queued \/ requeue)
    /\ UNCHANGED snap

\* A call that fails does so before or after it has taken effect. (For the Get
\* of the deployment, see DeploymentPanics.)
EnsureKind(k) ==
    /\ pc = k
    /\ LET r == Ensure(k)
       IN  \/ /\ Put(k, r.object)
              /\ failed' = (failed \/ r.err)
              /\ UNCHANGED faults
           \/ /\ Fault
              /\ k = "deployment" => r.object # obj[k]
              /\ \E o \in {obj[k], r.object} : Put(k, o)
              /\ failed' = TRUE
    /\ Goto(After[k])
    /\ UNCHANGED <<publishing, sesame, release, jobs, touched, changes>>

\* The job's name contains the tag of the release's default image. A job with
\* another image is deleted and created anew, which may fail half way.
EnsureJob ==
    /\ pc = "job"
    /\ \/ /\ jobs' = [jobs EXCEPT ![release.tag] = release.sesame]
          /\ UNCHANGED <<failed, faults>>
       \/ /\ Fault
          /\ \E left \in IF jobs[release.tag] = release.sesame THEN {release.sesame}
                        ELSE {jobs[release.tag], Nil, release.sesame} :
                jobs' = [jobs EXCEPT ![release.tag] = left]
          /\ failed' = TRUE
    /\ Goto(After["job"])
    /\ UNCHANGED <<publishing, sesame, release, obj, queued, touched, changes>>

\* The process ends and another one starts, which lists all Sesames.
Restart ==
    /\ Stop(TRUE)
    /\ fresh' = FALSE

\* EnsureDeployment goes on with no deployment if it cannot be read, and the
\* process ends with a nil dereference.
DeploymentPanics ==
    /\ pc = "deployment"
    /\ Fault
    /\ Restart
    /\ UNCHANGED <<publishing, spec, finalized, release, objects, touched, changes>>

\* Deviation: an error of the last call is forgotten.
EnsureEnvoyServiceQuietly ==
    /\ pc = "envoy"
    /\ \/ Reconcile /\ UNCHANGED faults
       \/ Fault /\ (Reconcile \/ UNCHANGED publishing)
    /\ Stop(failed)
    /\ UNCHANGED <<sesame, release, objects, touched, changes>>

\* The last call, and the end of the reconcile.
EnsureEnvoyService ==
    /\ pc = "envoy"
    /\ \/ /\ Reconcile
          /\ Stop(failed \/ outcome' \in {"refused", "panic"})
          /\ UNCHANGED faults
       \/ /\ Fault
          /\ (Reconcile \/ UNCHANGED publishing)
          /\ Stop(TRUE)
    /\ UNCHANGED <<sesame, release, objects, touched, changes>>

-----------------------------------------------------------------------------
(* Reconcile up to ensureSesame.                                           *)

\* For EnvoyPublishing, what the users have done since the last Get is one edit.
GetSesame ==
    /\ pc = "idle" /\ queued
    /\ pc' = "validate" /\ queued' = FALSE
    /\ snap' = spec
    /\ fresh' = TRUE
    /\ touched' = FALSE
    /\ \/ want = spec.envoy /\ UNCHANGED publishing
       \/ want # spec.envoy /\ EditPublishing /\ want' = spec.envoy
    /\ UNCHANGED <<spec, finalized, release, objects, failed, budgets>>

Validate ==
    /\ pc = "validate"
    /\ IF Valid(want)
       THEN /\ Goto(IF finalized THEN "configmap" ELSE "finalize")
            /\ UNCHANGED <<publishing, queued, failed>>
       ELSE Reconcile /\ Stop(TRUE)
    /\ UNCHANGED <<sesame, release, objects, touched, budgets>>

\* The Update sends the whole Sesame. Its JSON has no replicas if they are 0
\* ("omitempty"), and the schema has a default for what is missing.
WrittenBack(s) == IF s.replicas = 0 THEN [s EXCEPT !.replicas = 2] ELSE s

EnsureFinalizer ==
    /\ pc = "finalize"
    /\ \/ /\ fresh
          /\ spec' = WrittenBack(spec)
          /\ finalized' = TRUE
          /\ UNCHANGED faults
       \/ /\ ~ fresh
          /\ UNCHANGED <<spec, finalized, faults>>
       \/ /\ Fault
          /\ UNCHANGED <<spec, finalized>>
    /\ Stop(TRUE)
    /\ UNCHANGED <<publishing, fresh, release, objects, touched, changes>>

Work ==
    \/ GetSesame \/ Validate \/ EnsureFinalizer
    \/ \E k \in Kinds : EnsureKind(k)
    \/ EnsureJob \/ DeploymentPanics \/ EnsureEnvoyService

-----------------------------------------------------------------------------
(* Users, others, and whoever runs the operator.                           *)

Change == changes > 0 /\ changes' = changes - 1

EditSpec ==
    /\ Change
    /\ spec' \in Specs \ {spec}
    /\ fresh' = FALSE
    /\ queued' = TRUE
    /\ UNCHANGED <<publishing, finalized, release, objects, worker, touched, faults>>

\* Somebody deletes an object of the Sesame, or makes a change that does not
\* touch its labels; jobs delete themselves when they are done.
Tampered(k) ==
    CASE k = "configmap" -> [obj[k] EXCEPT !.gateway = "other"]
      [] k = "service" -> [obj[k] EXCEPT !.target = 9001]
      [] k = "deployment" -> [obj[k] EXCEPT !.replicas = @ + 1]
      [] k = "daemonset" -> [obj[k] EXCEPT !.placement = "other"]

MeddleObject(k) ==
    /\ Change
    /\ obj[k] # Nil
    /\ \E o \in {Nil, Tampered(k)} : Put(k, o)
    /\ touched' = (touched \/ k \notin Watched)
    /\ UNCHANGED <<publishing, sesame, release, jobs, worker, faults>>

FinishJob(tag) ==
    /\ jobs[tag] # Nil
    /\ jobs' = [jobs EXCEPT ![tag] = Nil]
    /\ UNCHANGED <<publishing, sesame, release, obj, queued, worker, touched, budgets>>

MeddleService ==
    /\ Change
    /\ Meddle
    /\ touched' = TRUE
    /\ UNCHANGED <<sesame, release, objects, queued, worker, faults>>

Crash ==
    /\ Fault
    /\ Restart
    /\ UNCHANGED <<publishing, spec, finalized, release, objects, touched, changes>>

Upgrade ==
    /\ Change
    /\ release' \in Releases \ {release}
    /\ Restart
    /\ UNCHANGED <<publishing, spec, finalized, objects, touched, faults>>

Others ==
    \/ EditSpec \/ MeddleService \/ Crash \/ Upgrade
    \/ \E k \in Kinds : MeddleObject(k)
    \/ \E tag \in DOMAIN jobs : FinishJob(tag)

-----------------------------------------------------------------------------

\* An earlier release than those that are modelled had other selectors.
Earlier(k, s) == [Stored(k, s) EXCEPT !.selector = "old"]

IngressInit ==
    /\ Init
    /\ spec \in {s \in Specs : s.envoy = want}
    /\ snap = spec
    /\ release \in Releases
    /\ jobs = [tag \in {r.tag : r \in Releases} |-> Nil]
    /\ \/ /\ obj = [k \in Kinds |-> Nil]
          /\ finalized = FALSE
       \/ /\ obj = [k \in Kinds |-> IF k \in Watched THEN Earlier(k, spec) ELSE Nil]
          /\ finalized = TRUE
    /\ queued = TRUE
    /\ pc = "idle"
    /\ fresh = FALSE
    /\ failed = FALSE
    /\ touched = FALSE
    /\ \E budget \in Budgets : changes = budget[1] /\ faults = budget[2]

IngressNext == Work \/ Others

\* The worker runs on, and what it takes off the queue is this Sesame.
IngressSpec == IngressInit /\ [][IngressNext]_ingress /\ WF_ingress(Work)

-----------------------------------------------------------------------------
(* Properties.                                                             *)

\* The type invariant of what is added to EnvoyPublishing; no reconcile begins
\* with errors of another one.
IngressTypeOK ==
    /\ {spec, snap} \subseteq Specs \cup {WrittenBack(s) : s \in Specs}
    /\ release \in Releases
    /\ DOMAIN obj = Kinds
    /\ DOMAIN jobs = {r.tag : r \in Releases}
    /\ pc \in {"idle", "validate", "finalize", "job", "envoy"} \cup Kinds
    /\ {finalized, queued, fresh, failed, touched} \subseteq BOOLEAN
    /\ changes \in Nat /\ faults \in Nat
    /\ pc \in {"idle", "validate", "finalize", "configmap"} => ~ failed

\* Nothing is left to do, and nobody has touched what is not watched.
Quiet == pc = "idle" /\ ~ queued /\ ~ touched

\* When the worker rests, every object is the one that the last spec and the
\* running release ask for: no edit that came between two calls of a reconcile
\* is lost, no error of one call hidden by the success of another
\* (controller.go:177-215), no object of an earlier release left as it was.
Applied ==
    Quiet =>
        /\ \A k \in Kinds : obj[k] = Stored(k, spec)
        /\ jobs[release.tag] \in {Nil, release.sesame}
        /\ Matches(svc, spec.envoy)

\* When the worker rests, requests get through: for each port name, the port
\* that the Service sends them to is one that the Envoy pods it selects expose
\* and the one that Sesame tells Envoy to listen on, and Envoy finds Sesame
\* where Sesame serves. Three objects hold the number, each put there by
\* a call of its own and by a rule of its own.
Elements(seq) == {seq[i] : i \in DOMAIN seq}

ListeningOn(name) ==
    LET told == {port \in Elements(obj["deployment"].container.ports) : port.name = name}
    IN  IF told = {} THEN {DefaultPort[name]} ELSE {port.number : port \in told}

TrafficReaches ==
    Quiet =>
        /\ svc.selector = obj["daemonset"].selector
        /\ \A i \in DOMAIN svc.ports :
             LET port == svc.ports[i]
             IN  /\ [name |-> port.name, number |-> port.target] \in
                       Elements(obj["daemonset"].containers.ports)
                 /\ port.target \in ListeningOn(port.name)
        /\ obj["service"].selector = obj["deployment"].selector
        /\ obj["service"].port = obj["daemonset"].xds
        /\ obj["service"].target = obj["deployment"].container.xds

\* A call that finds its object as it would be made leaves it and wakes nobody,
\* although the comparison is not with what the API server has made of it:
\* maxSurge is compared with a field that is never generated, and each reconcile
\* of a watched object would be the reason for the next (equality.go:26-53, 97-125).
AppliedIsLeftAlone ==
    [][\A k \in Kinds : EnsureKind(k) /\ obj[k] = Stored(k, snap) =>
          obj'[k] = obj[k] /\ queued' = queued]_ingress

\* In the end the worker comes to rest, after any edits, failures and upgrades,
\* although every change that it makes to a watched object wakes it up again:
\* no object is written for ever, and no call fails for ever, but for a spec
\* that is invalid and a Service that the API server refuses or that makes the
\* comparison panic (see PortPanic).
Hopeless == outcome \in {"invalid", "refused", "panic"}

ComesToRest == <>[](pc = "idle" /\ ~ queued) \/ []<>Hopeless

=============================================================================
