# The Sesame operator in TLA+

The Sesame operator is a Kubernetes controller. A user creates a `Sesame`
resource, and the operator builds what an ingress controller needs: a
namespace, service accounts and roles, a configuration map, a job that makes
certificates, the Sesame deployment, the Envoy daemonset and a Service for each
of the two. It keeps them as the resource says, reports their availability in
the resource's status and takes everything down again when the resource is
deleted. This directory models its decisions in TLA+, checks the models with
TLC on small instances and proves the main results with TLAPS for all instances.

## 1. The system

### Parts

| Part | Source | State | Operations |
|---|---|---|---|
| Reconciler | `internal/controller/controller.go` | none that survives a reconcile; the work queue of controller-runtime | `Reconcile`, `ensureSesame`, `ensureSesameDeleted`, watches |
| Sesame lookup, finalizer | `internal/objects/sesame` | the Sesames in the API server | `OtherSesamesExist`, `OtherSesamesExistInSpecNs`, `EnsureFinalizer`, `EnsureFinalizerRemoved` |
| Namespace | `internal/objects/namespace` | one namespace per Sesame | `EnsureNamespace`, `EnsureNamespaceDeleted` |
| RBAC | `internal/objects/rbac.go` and the packages for each kind | service accounts, role, cluster role, their bindings | `EnsureRBAC`, `EnsureRBACDeleted` |
| Workloads, configuration | `configmap`, `job`, `deployment`, `daemonset` in `internal/objects` | one object each | `Ensure…`, `Ensure…Deleted` |
| Services | `internal/objects/service` | Sesame Service, Envoy Service | `EnsureEnvoyService`, `DesiredEnvoyService`, … |
| Comparisons | `internal/equality` | none | `…Changed`, `…SelectorsDiffer` |
| Validation | `pkg/validation` | none | `Sesame` and the checks it makes |
| Status | `internal/status` | the status of a Sesame | `SyncSesame`, `computeSesameAvailableCondition`, `mergeConditions` |
| Retryable errors | `internal/retryableerror` | none | `NewMaybeRetryableAggregate` |
| Set-up | `cmd`, `internal/operator`, `internal/config` | none | which reads are cached, leader election, restart |

`PROJECT.json` lists them with their files, and also the parts that are left out.

### How they interact

There is no shared memory to speak of: one worker goroutine runs `Reconcile`,
and everything goes through the API server.

* The worker takes the key of a Sesame off a queue that holds each key once,
  gets the Sesame, and makes up to twenty calls. It decides on what it read
  at the start (the spec, the finalizers) all the way.
* Sesames are read from the API server directly
  (`operator.go:78`, `ClientDisableCacheFor`). All child kinds are read from
  informer caches that lag behind, each kind on its own.
* Writes go to the API server. Some updates carry the `resourceVersion` that was
  read, and conflict if the object has changed; some send the generated
  object and overwrite. Deletes go by name.
* Events of Sesames, deployments and daemonsets put the owning Sesame back into
  the queue, by the labels of the object. Other kinds are not watched; a resync
  comes every ten hours.
* Others act at any time: users create, edit and delete Sesames, somebody
  deletes or edits a child, the namespace controller empties a namespace
  that terminates, the deployment controller changes its status.
* An error puts the key back with a delay. A crash or restart forgets
  everything and lists everything.

### What is hard

Decisions on stale reads; a Sesame that is edited or deleted in the middle of a
reconcile; two Sesames that claim one namespace; a deletion of which some
calls fail, after which the finalizer must stay; objects left behind that carry
the labels of a Sesame that is gone; a Delete by name of an object that was
replaced; a write loop, as each write is an event; Services that change their
type in place. `PROJECT.json`, under `hazards`, has each at its line, with the
properties that cover it.

## 2. The modules

| Module | What it is |
|---|---|
| `SesameOperator` | the reconciler with everything it calls, one action per call to the API server |
| `MCSesameOperator` | its instances for TLC |
| `SesameOperatorProofs` | its theorems: types, finalizers, clean removal |
| `SesameOwnershipProofs` | its theorems about objects that are not the Sesame's |
| `SesameProgressProofs` | its theorems about what the worker has done when it lets go of a Sesame |
| `SesameTenancy` | what it promises to those who share a cluster, as an abstract specification |
| `SesameTenancyProofs` | one tenant per namespace, and that `SesameOperator` implements `SesameTenancy` |
| `EnvoyPublishing` | validation, generation and update of the Envoy Service in detail |
| `MCEnvoyPublishing` | specs that reach every branch |
| `EnvoyPublishingProofs` | its theorems |
| `SesameIngress` | all objects of one Sesame in detail, with the Envoy Service of `EnvoyPublishing` |
| `MCSesameIngress`, `SesameIngressProofs` | its specs and releases for TLC, and its theorems |
| `SesameStatus` | `SyncSesame`, read by read |
| `MCSesameStatus`, `SesameStatusProofs` | its instance and its theorems |

### SesameOperator

| Variable | In the program |
|---|---|
| `phase`, `spec` | the Sesames in the API server; `phase` says if there is one, with or without the finalizer, and if it has a deletion timestamp |
| `obj[k][n]`, `cache[k][n]` | the object of kind `k` for namespace `n`, in the API server and in the informer's cache. Names are fixed, so there is only one that matters |
| `terminating` | namespaces with a deletion timestamp |
| `queue` | the work queue; a Sesame that comes back after a delay is simply in it |
| `pc`, `cur`, `snap`, `finalized`, `todo`, `failed`, `shared` | where `Reconcile` is, its Sesame, and its local variables |
| `fresh` | whether `cur`'s `resourceVersion` is still the one that was read |

An object is an owner (from its two labels) and a configuration: that of a spec,
`"fixed"` for kinds that do not depend on the spec, or `"alien"` for anything
this operator does not generate. That is all that the decisions depend on.
The three service accounts count as one object: they are built and removed one
after the other in the same way. An Update either sends the generated object,
whatever has happened to the one that was read (`UpdateGenerated`), or a changed
copy of the latter, which then must still be current (`UpdateCopy`).

Every call is one action that reads the cache, decides and writes, because the
informers and the others cannot be told to wait: between any two calls they may
move. A cached read and the write that follows are one step, except where the
code makes another read in between (`CheckNamespace` and `DeleteNamespace`,
`ListInNs`, `ListAll` and `DeleteRBAC`). What may happen between a cached read
and a write is the same as a cache that lags a little more, which `StaleReads`
allows. `Call` lets a call fail before it took effect, or after it (a lost
answer), and the recreation of a job also in the middle.

Definitions marked "Deviation" are not used by the specification. Each is the
mutated form of one definition, a mistake that the properties must reveal.

### SesameTenancy

A Sesame is absent, asks for a namespace, holds it, or is leaving; a namespace has
tenants, the Sesames with child objects in it. There is no queue, call,
cache or object. The operator is shown to implement it (`ImplementsTenancy`,
checked in `SafetyFresh` and proved) by this mapping: `stage` is the phase of the
Sesame, that is, its finalizer and its deletion timestamp; `place` is
`spec.namespace.name`; `tenants` is read off the owner labels of the children.
`Admit` is the update that adds the finalizer, `Depart` the one that removes it,
`Enter` the call that creates a Sesame's first child and `Vacate` the one that
deletes its last; everything else is a stutter. What makes `Admit` hard is that
its guard, no other holder of the namespace, is evaluated by `validation.Sesame`
a good while before the update, and what makes `Depart` hard is that it depends on
eight calls that may each fail. It holds with current caches and
without edits of `spec.namespace.name`; `StaleLeak` and `MoveLeak` show what happens
otherwise. The abstract specification has safety only: that who leaves departs in
the end is `DeletionCompletes`.

### EnvoyPublishing

`want` is `spec.networkPublishing.envoy`, `svc` the Service in the API
server, `outcome` how the last `EnsureEnvoyService` ended. `Valid` is
`validation.Sesame` without its list of other Sesames, `Desired` is
`DesiredEnvoyService`, and the three `…Changed` operators give what the
comparison makes of the current Service; nothing has changed if that is the same
Service. The API server assigns node ports (`Assignments`): it takes requested
ones, keeps those of a port with the same name, and chooses free ones for the
rest; it refuses a Service with one node port twice. Annotations are pairs of
a name and a value, addresses and subnets are arbitrary names, `ValidIPs` those
that `net.ParseIP` accepts. The two pointers that `NodePorts` compares are never
equal when a spec comes from the API, so the model has no such check.

### SesameIngress

`SesameOperator` knows of an object only whose it is and for which spec it was
made. `SesameIngress` has one Sesame, and its objects with their content: what
a user can set, what the release decides, and what has to agree between two of
them. It extends `EnvoyPublishing`, whose `want` becomes the copy of
`spec.networkPublishing.envoy` that the worker has read and whose `Reconcile` is
the last call of `ensureSesame`.

| Variable | In the program |
|---|---|
| `spec`, `finalized` | the Sesame in the API server; `fresh` says if it is still the one that was read |
| `release` | the images that the process was started with, and the tag of its default image |
| `obj[k]` | configuration map, deployment, daemonset and Sesame Service, `Nil` if there is none |
| `jobs[tag]` | the image of the certificate job of that name (`job.go:47` puts the tag of the default image into it) |
| `queued`, `pc`, `snap`, `failed` | the queue, and the local state of `Reconcile` |
| `touched` | somebody changed an object that is not watched since the worker last read the Sesame |

`EnsureKind`, `EnsureJob` and `EnsureEnvoyService` are the calls of `ensureSesame`
in its order; `Generated` is what the `Desired…` functions give, `Stored` what the
API server makes of it. Besides failing calls there are:

* `DeploymentPanics`: `EnsureDeployment` returns no error if its Get fails with
  anything but NotFound, and goes on with a nil deployment, whose selector
  `equality.go:124` reads. The process ends and is started again.
* `Upgrade`: the process is replaced by one with other images. An earlier
  release may also have left workloads with other selectors, which cannot be
  changed, so that they are deleted and created anew (`IngressInit`).
* `WrittenBack`: the operator's own update that adds the finalizer sends no
  `replicas` if they are 0 (`omitempty`), and the CRD's default of 2 is put in their
  place. So a Sesame that is created with no replicas gets two;
  `sesame_types.go:64-65` promises the default only for a value that is unset.
* `Validate`: a spec that has become invalid. The objects stay as they were,
  and the Sesame comes back.

Two constants stand for the API server. `MaxSurge` is the default it gives to the
daemonset's `maxSurge`, a field that the code does not generate: if there is one,
each reconcile finds a difference and writes, but nothing changes by that, so the
writing wakes nobody. `TakesUnversioned` says that a Service may be updated with a
generated object that has neither a `resourceVersion` nor a cluster IP, as
`updateSesameServiceIfNeeded` does (`service.go:383`; the Envoy Service gets a
changed copy). Kubernetes takes it. `SesameIngress` does not have lagging caches,
other Sesames, nor a deletion: these are in `SesameOperator`.

### SesameStatus

The worker creates missing workloads (all that matters here of `ensureSesame`),
and then `GetLatest`, `CurrentDeployment`, `CurrentDaemonSet` and `SyncSesame`
are the reads and the update of `status.go`, with the recursion on a conflict
as a jump back to `GetLatest` that keeps the errors so far. `calls` is the number
of calls of `SyncSesame` on the stack. `modified` says that
the Sesame is no longer the one that was read. A successful status update is an
event, so the Sesame is queued again. The status of a Sesame that is invalid or
being deleted is not synced, and such Sesames are left out.

## 3. Properties and runs

Runs end without a deadlock check where the worker rests when there is nothing
to do and the others have used up their bounds (`SesameOperator`, `SesameIngress`
and `SesameStatus`); in `EnvoyPublishing` a reconcile is always possible.

| Run | Properties | Bounds |
|---|---|---|
| `SafetyFresh` | `TypeOK`, `OneTenantPerNamespace`, `FinalizerGuards`, `NothingLeftBehind`, `StrangersObjectsKept`, `NamespaceRemovalIsSafe`, `ImplementsTenancy`, `NothingRewritten` | two Sesames of one name, one namespace, two RBAC and two child kinds, 4 edits, 1 meddling, 1 fault, caches current |
| `SafetyStale` | `NeverForgotten`, `OneHolderPerNamespace`, `FinalizerGuards`, `AnothersObjectsUntouched` | the same with lagging caches and one kind of each |
| `Moving` | `NothingLeftBehind`, `AnothersObjectsUntouched` | two namespaces, one of them a core namespace; `spec.namespace.name` may be edited |
| `LivenessOne` | `DeletionCompletes`, `Converges`, `Settles` | one Sesame with two configurations, deployment and job, lagging caches, 2 edits, 1 meddling, 1 fault, with the resync |
| `LivenessTwo` | `RestIsBuilt`, `DeletionCompletes`, `Converges` | two Sesames with two configurations in one namespace, 4 edits, 1 fault, no resync |
| `Publishing` | `TypeOK`, `Published`, `Quiescent`, `IngressTypeOK`, `Applied`, `TrafficReaches`, `AppliedIsLeftAlone`, `ComesToRest` | `SesameIngress` with nine specs, two node ports, two releases that share a tag; two changes by others, or one change and one fault (`Budgets`) |
| `Status` | `TypeOK`, `StatusCurrent`, `CallsAreAnswers`, `TransitionTimeKept`, `Settles` | 4 states of the deployment, 2 of the daemonset, 3 changes, 2 edits, 1 fault |

What they say, in words:

* `FinalizerGuards`: a child comes to belong to a Sesame only while the Sesame
  is there with its finalizer, although it was read long before.
* `NothingLeftBehind`: when the finalizer goes, no child is left in the
  namespace of the last spec. It needs current caches (see `StaleLeak`).
* `OneTenantPerNamespace`: two Sesames never own children in one namespace.
* `OneHolderPerNamespace`: two Sesames never both have the finalizer in one
  namespace. Unlike the one before it holds with lagging caches, since Sesames
  are not cached; it needs a `spec.namespace.name` that is not edited.
* `NeverForgotten`: a Sesame that waits for its finalizer, or is to be torn down, is
  in the queue or in the worker's hands.
* `RestIsBuilt`: a Sesame with a finalizer that is neither is built as its spec
  is now, as long as nobody else has touched an object: drift of what is not
  watched is only repaired at the next event.
* `NothingRewritten`: a reconcile of a Sesame that is built writes nothing. The last
  three are the safety half of the next three: what is not done is not dropped, and
  what is done is not done again.
* `AnothersObjectsUntouched`, `StrangersObjectsKept`: the worker leaves alone
  what another Sesame, or somebody else, owns. The second needs current caches,
  as Delete goes by name.
* `NamespaceRemovalIsSafe`: a namespace is deleted only when no other Sesame has
  anything in it.
* `DeletionCompletes`, `Converges`, `Settles`: a deleted Sesame goes; one that has
  its namespace to itself is built as its last spec asks; the writing ends.
* `Published`: after a reconcile that ends well, the Service is as the spec asks,
  whatever type it had and whoever had changed it. Annotations and policy are
  left out for ClusterIP, and the load balancer's address for all but load
  balancers: the code does not compare them there, and a Service that
  changes its type keeps them.
* `Quiescent`: the next reconcile then writes nothing, unless a node port of a
  NodePort Service is left open. In that case it writes on every
  reconcile, since `NodePortServiceChanged` compares the assigned number with
  none; the server keeps the number, so nothing changes.
* `ImplementsTenancy`: see `SesameTenancy` above.
* `Applied`: when the worker rests and nobody has touched what is not watched,
  every object is the one that the last spec and the running release ask for.
  Edits come between any two calls, an error of one call is followed by the
  success of others, and the release changes in between.
* `TrafficReaches`: then, for each port of the Envoy Service, the port it sends to
  is one that the Envoy pods expose and the one that Sesame tells Envoy to listen
  on, and Envoy finds Sesame. The number is in three objects; the deployment's
  arguments name it only if it is not the default.
* `AppliedIsLeftAlone`: a call that finds its object as it would be made leaves it
  and does not queue the Sesame, also the daemonset, which compares a field that the
  API server fills in.
* `ComesToRest`: the worker does come to rest, after any edits, faults and
  upgrades. Exempt are a spec that is invalid, a Service that the API server
  refuses and the panic of `PortPanic`, which come back for ever.
* `StatusCurrent`: when nothing is left to do, the status is that of the
  workloads. `TransitionTimeKept`: a condition's time changes only with its
  status. `CallsAreAnswers`: each call of `SyncSesame` from itself is the answer to an
  edit. The comment at `conditions.go:108-110` speaks of any detail; the code
  follows the Kubernetes convention.

### Runs that find a violation

| Run | What the code does |
|---|---|
| `ClusterRoleLeak` | a cluster role outlives its Sesame if another Sesame exists anywhere (`rbac.go:133`) |
| `StaleLeak` | a child that the cache does not show yet is skipped by the deletion |
| `MoveLeak` | children in a former `spec.namespace.name` are never deleted |
| `SameNodePort` | one node port twice passes validation: pointers are compared (`validation.go:107`) |
| `PortPanic` | a third port on a NodePort Service makes the comparison panic (`equality.go:249`), again after each restart |

### Why the bounds are enough

Two Sesames are the smallest number that compete, and every pair in a larger
set behaves the same, as the code compares a Sesame with "some other". They have
one name in two namespaces, the case that `OtherSesamesExist` treats
specially. Four edits let a Sesame be created, deleted and created again while
the other is created, or both be created, edited and deleted. One meddling and
one fault at any point put the worker before every unexpected answer once; what
they leave behind is an ordinary state from which the rest goes on. Kinds are
chosen so that each variety occurs in some run: an unconditional update
(`deployment`, `service`), a conditional one (`configmap`, `envoy`), a deletion
on a changed selector, a recreated `job`, a watched and an unwatched kind, each
RBAC kind. In `Publishing` two edits go through every triple of specs, so a
Service has had two former types. The nine specs have each type of Service and each
pair of types, valid and not, ports in another order, ports that are the
default of the other one, and one spec with every other field set. Two releases that
share a tag and differ in the image are the harder case for the job; the four
settings that a fault can meet (first build, workloads of an earlier release, an
edit, an upgrade) occur with a change before or after it. Each of these properties is also violated
by a mutant of a mapped definition under the same bounds, so the bounds do reach
the cases.

### Fairness

* `WF_vars(Work)`: the goroutine of the worker runs on.
* `SF_vars(GetSesame(s))`: the queue is first in, first out, so a Sesame that
  is queued again and again is taken some time, also if others are in the queue;
  the action is disabled each time the worker is busy, hence strong fairness.
* `WF_vars(SyncCache(k))`: informers' watches deliver in the end.
* `WF_vars(DrainNamespace(k, n))`: the namespace controller does its work.
* `WF_vars(Resync)`, in `LivenessOne` only: the SyncPeriod of the manager is ten
  hours by default. It is needed with lagging caches: an unwatched kind that was
  read stale is only looked at again at the next event or resync.
* `WF_ingress(Work)` in `SesameIngress`: there is one Sesame, so the queue has
  nothing else to serve.
* In `SesameStatus` the worker and the informers are weakly fair.

Users, crashes and failures are not fair, and bounded: the liveness properties
say what happens once they stop for long enough.

## 4. What is proved

`SesameOperatorProofs`, for any number of Sesames, namespaces, kinds and faults:

* `TypeCorrect`, that `TypeOK` is invariant.
* `ChildrenAreGuarded`, the action property `FinalizerGuards`.
* `RemovalIsClean`, that is `NothingLeftBehind`, if caches are current
  (`StaleReads = FALSE`); `StaleLeak` shows that it is false otherwise.

The inductive invariant is `TypeOK` with two more parts. `SnapshotCurrent`: as
long as `fresh` holds, the spec and the finalizer that the worker read are those
in the API server. `FinalizerHeld`: while the worker is at a call that creates,
`cur` has its finalizer, because only the worker removes it. From the second
follows the first theorem: an object only comes to belong to `cur`, at such a
call. The other theorem needs a second invariant on top of it, `Cleaned`: while a
Sesame is torn down without an error, none of the kinds already dealt with is
left in `snap.ns`. It holds because nobody but the worker gives an object to a
Sesame. The finalizer goes only if the Update does not conflict, so the
namespace that was cleaned is still that of the spec.

`SesameOwnershipProofs`, for any number of Sesames, namespaces, kinds and faults:

* `OthersAreLeftAlone`, that is `AnothersObjectsUntouched`, for all constants: also
  with lagging caches and moving Sesames.
* `StrangersAreLeftAlone`, that is `StrangersObjectsKept`, if caches are current.

The labels are checked on a cached copy. `CachedOwners` says why this is
enough for objects of Sesames: if both the cached copy and the object belong to
Sesames, it is the same one, since an object is only created under a name that the
cache shows to be free. `Collected` carries this over to the list that
`EnsureRBACDeleted` makes before it deletes. For a stranger's object
there is no such invariant: it can take the place of a deleted one before the
cache notices.

`SesameTenancyProofs`, under `StaleReads = FALSE` and `NsMutable = FALSE`:

* `NamespacesAreNotShared`, that `OneTenantPerNamespace` is invariant.
* `NamespacesAreRemovedEmpty`, that is `NamespaceRemovalIsSafe`.
* `OperatorImplementsTenancy`, that is `ImplementsTenancy`.
* `HoldersAreAlone`, that `OneHolderPerNamespace` is invariant, under
  `NsMutable = FALSE` alone.

The invariant has five parts on top of those above. `Exclusive`: two Sesames with
finalizers never ask for one namespace. `Validated`: at the update that adds the
finalizer, if it does not conflict, what validation found out still holds, because
only this one worker adds finalizers. `NotYetHeld`: a Sesame read without finalizer
and not written since has none. `PlaceKept`: a held Sesame is built and torn down in
the namespace of its spec. `Housed`: a Sesame has children only where and while it
is held; when it departs, `Cleaned` says that there are none. The refinement is
then one step per action (`TenantSteps`: a call changes the tenants of at most one
namespace by at most one Sesame). `Validated` is where a second worker would break
the argument.

`SesameProgressProofs`, for any number of Sesames, namespaces, kinds and faults:

* `NoneIsForgotten`, that `NeverForgotten` is invariant, for all constants. The
  inductive form (`Pending`) says where the worker is while a Sesame is out of the
  queue: before the finalizer of a new one, on the way of the deletion of a marked
  one. Every way out of these places queues it, and so does every write to a Sesame
  (`WritesQueue`).
* `BuiltIsLeftAlone`, that is `NothingRewritten`, for all constants. A call for an
  object that is as it should be results in that object, and only calls that
  create or update are made for a live Sesame.
* `RestedIsBuilt`, that `RestIsBuilt` is invariant, if caches are current and
  `spec.namespace.name` is not edited.

The last is proved by `BInv` on top of the invariants above. `WorkBuilt` follows one
reconcile: without an error, the kinds dealt with so far (`Done`) fit the spec that was
read, as long as the namespace is open to objects. `RestBuilt` keeps that for
the Sesames that the worker has let go of. `SnapKept`: the spec that was read is
the present one unless the Sesame is queued. The rest is about who could undo what is
done. `ChildrenOpen`: the namespace of a live Sesame with children exists and
does not terminate, since the worker only deletes that of a marked Sesame and two
do not share one (`StaysOpen`); that is where `Exclusive` and `Housed` are needed.
`Homemade`: objects but namespaces belong to Sesames and have a configuration this
release makes. `WorkBuilt` is conditional on the namespace because between
`EnsureNamespace` and the first child the namespace of a former Sesame may end
and take the roles with it; that a child could be created shows that it has not
(`Done \cap ChildKinds # {} => Opened(snap.ns)`).

`EnvoyPublishingProofs`, for any set of specs that the CRD admits, any range of
node ports that is not empty and any number of edits:

* `ServiceTyped`, that `TypeOK` is invariant.
* `PublishedAsAsked`, that `Published` is.
* `SettledIsQuiet`, that `Quiescent` is.

The argument: a valid spec generates a Service of the right shape
(`DesiredTyped`), the comparison for its type turns any Service into one that
matches the spec (`UpdatedMatches`), and what the API server then changes are
only node ports that were not asked for (`AdmittedKeeps`), so it still matches
(`AdmittedMatches`). `Published` is inductive together with the shape of the
Service, since edits make the outcome `"pending"`. `SettledIsQuiet` adds the
converse of `UpdatedMatches`: the comparison leaves a Service that matches as it
is (`MatchingUnchanged`), in particular one just written (`WrittenUnchanged`).

`SesameIngressProofs`, for any specs, releases and budgets, and any range of node
ports that is not empty:

* `IngressPublishes`: `SesameIngress` implements `EnvoyPublishing`, so that
  `TypeOK`, `Published` and `Quiescent` hold in it for that reason.
* `IngressTyped`, that `IngressTypeOK` is invariant: also, no reconcile begins with
  the errors of another.
* `AppliedAtRest`, that `Applied` is.

The invariant is `IngressTypeOK` with three more parts. `Informed`: with an empty
queue, the worker's copy is the spec, as every write to the Sesame queues it.
`InLine`: as long as the Sesame is not queued again, no error has been collected and
nobody has touched what is not watched, the objects the reconcile has been through
are right. `DaemonSetStored`: the daemonset in the API server has the default
filled in, so that an update is to `Stored`. `Applied` is `InLine` at the end
of a reconcile.

* `TrafficReachesAtRest`, that `TrafficReaches` is invariant. It adds that a Service
  that was published is that of a valid spec (`Sound`), and is otherwise about one
  spec: objects that are in line with it agree with each other (`AppliedAgree`), as
  an argument is left out just when the number is Sesame's default
  (`ListensOnItsPorts`).

* `AppliedIsStable`, that is `AppliedIsLeftAlone`.

`SesameStatusProofs`, for any states of the workloads and any interleaving:

* `TypeCorrect`, that `TypeOK` is invariant.
* `StatusFollows`, that `StatusCurrent` is. The invariant behind it has
  `ReadsCurrent`: what has been read is still what the cache shows, or the
  Sesame is queued; a missing workload has been noted as an error; and a Sesame
  that has not been modified has the status that was read. With it, a worker
  that ends without queueing the Sesame leaves the right status (`DoneCurrent`).
* `TimeOnlyWithStatus`, that is `TransitionTimeKept`, from the same invariant.
* `RecursionBounded`, that `CallsAreAnswers` is invariant. `CallsCovered`
  strengthens it: a copy that is known to be outdated has its edit in reserve.

The assumptions are the named `ASSUME`s of the modules: kinds are those of the
code, the special values differ from proper ones, bounds are numbers. TLC
evaluates them in each run.

Only model-checked: all liveness properties, since the prover has no rules for
`ENABLED` and fairness, and what needs them: `DeletionCompletes`, `Converges`,
both `Settles`, `ComesToRest`. Of the first three the safety half is proved
(`SesameProgressProofs`); what is left to TLC is that the worker, once a Sesame is in
the queue, gets to it and through.

## 5. What is not modelled

* The parts of pods, roles and of the configuration file that are the same for every
  spec; wording of messages and logs. No decision depends on them. One remark
  on them: the deployment's volume is called `Sesamecert` (`deployment.go:56`), which
  an API server would refuse, as names of volumes are in lower case; the tests of
  the repository have no server that validates. The models take the
  generated objects to be acceptable but for what they say they refuse.
* Parsing of flags, schemes, metrics, leader election. The model has one worker.
  Leader election is off by default (`config.go:20`) and on in the manifests
  (`config/manager/manager.yaml:22`); two operators would overlap in a rollout only
  without it.
* Delays and back-off. A Sesame that is to be retried is in the queue; the
  retryable type of `internal/retryableerror` is lost when errors are wrapped,
  so the delays are never used.
* Reads of child kinds that fail with anything but NotFound, except that of the
  deployment in `SesameIngress`: the others return the error.
* A job of another tag, which a release with another default image leaves behind
  under its own name; it deletes itself when it is done (a TTL of 0).
* A status update of a Sesame that was deleted and created again in between.
* Generated deep copies, test helpers, end-to-end tests and manifests.

## 6. Plan

Done, in the order of importance: the reconciler and what it calls
(`SesameOperator`), with its safety and liveness, and the proofs of the finalizer
protocol; the publishing of Envoy, with its proofs; the status, with its proofs; the
abstract `SesameTenancy` and the refinement, checked and proved; the proofs of
ownership and of one tenant per namespace; the composition of all objects of one
Sesame (`SesameIngress`), with its proofs; the proofs of what is done at rest
(`SesameProgressProofs`).

Next:

1. Two workers in `SesameOperator`, for a rollout without leader election: which
   of the proved properties survive, and which need `Validated`.
2. A composition of `SesameStatus` with `SesameOperator`'s worker, so that the
   status of a Sesame whose namespace moves is covered.
3. The comparisons of roles, service accounts and the namespace in the detail of
   `SesameIngress`.
4. `RestIsBuilt` with moving Sesames: it should hold for those that have been
   alone in their namespace since they moved, which needs a history.
5. The minimum and the filter of `NewMaybeRetryableAggregate` against a
   reference definition.
