--------------------------- MODULE SesameOperator ---------------------------
(***************************************************************************)
(* The controller of the Sesame operator: one worker that takes Sesame     *)
(* custom resources off a work queue and either builds everything a Sesame *)
(* needs or tears it down, against an API server whose objects it reads    *)
(* through informer caches that lag behind.                                *)
(*                                                                         *)
(* Every object of one kind a Sesame needs has a fixed name in the         *)
(* Sesame's spec.namespace.name (the ClusterRole's name contains it), so   *)
(* obj[k][n] is the only object of kind k that matters for namespace n.    *)
(***************************************************************************)
EXTENDS Naturals, FiniteSets

CONSTANTS
    Sesames,          \* namespace/name keys of Sesame resources
    NameOf,           \* metadata.name of each key: keys may share a name
    Namespaces,       \* values of spec.namespace.name
    CoreNamespaces,   \* namespaceCoreList
    Configs,          \* the parts of a spec that end up in child objects
    RbacKinds,        \* kinds handled by EnsureRBAC
    ChildKinds,       \* kinds handled one by one by ensureSesame
    Stranger,         \* owner of an object without this operator's labels
    Nil,              \* no Sesame, no spec, no object
    StaleReads,       \* may the worker read a cache that is behind?
    NsMutable,        \* may users edit spec.namespace.name?
    MaxEdits,         \* bound on what users do to Sesame resources
    MaxMeddles,       \* bound on what others do to child objects
    MaxFaults         \* bound on failed calls and crashes of the operator

\* The order in which ensureSesame and EnsureRBAC go through the kinds;
\* ensureSesameDeleted goes through the child kinds the other way round.
Rank == [serviceaccount |-> 1, clusterrole |-> 2, clusterrolebinding |-> 3,
         role |-> 4, rolebinding |-> 5,
         configmap |-> 6, job |-> 7, deployment |-> 8, daemonset |-> 9,
         service |-> 10, envoy |-> 11]

\* Kinds whose object depends on fields of the spec other than the namespace.
SpecDriven == {"configmap", "deployment", "daemonset", "envoy"}

\* Kinds whose changed object is updated to the generated one, without the
\* resourceVersion that was read; the others update a copy of what was read.
Unconditional == {"namespace", "serviceaccount", "deployment", "service"}

\* Kinds deleted, to be created anew later, when their selector differs.
Selecting == {"deployment", "daemonset"}

\* Kinds whose events put the owning Sesame into the queue.
Watched == {"deployment", "daemonset"}

Kinds == {"namespace"} \cup RbacKinds \cup ChildKinds

\* Kinds whose objects are in no namespace.
ClusterRbac == {"clusterrole", "clusterrolebinding"}
Clustered == {"namespace"} \cup ClusterRbac

Specs == [ns : Namespaces, remove : BOOLEAN, config : Configs]
Phases == {"none", "new", "live", "deleting"}

ASSUME KindsAssumption ==
    /\ ChildKinds # {}
    /\ RbacKinds \subseteq {"serviceaccount", "role", "rolebinding"} \cup ClusterRbac
    /\ ChildKinds \subseteq {"configmap", "job", "deployment", "daemonset",
                             "service", "envoy"}

ASSUME NamesAssumption ==
    /\ Nil \notin Sesames
    /\ Stranger \notin Sesames
    /\ Nil # Stranger
    /\ Nil \notin Specs
    /\ "alien" \notin Configs

ASSUME BoundsAssumption ==
    /\ StaleReads \in BOOLEAN
    /\ NsMutable \in BOOLEAN
    /\ MaxEdits \in Nat
    /\ MaxMeddles \in Nat
    /\ MaxFaults \in Nat

\* A configuration is a spec's, "fixed" for kinds that do not depend on the
\* spec, or "alien" for one this release never generates.
Objects == [owner : Sesames \cup {Nil, Stranger},
            config : Configs \cup {"fixed", "alien"}]
NoObject == [owner |-> Nil, config |-> "alien"]
StrangersObject == [owner |-> Stranger, config |-> "alien"]

Altered(o) == [owner |-> o.owner, config |-> "alien"]

VARIABLES
    phase,        \* of each Sesame: none, new (no finalizer), live, deleting
    spec,         \* its spec
    obj,          \* child objects in the API server, by kind and namespace
    terminating,  \* namespaces being deleted with everything in them
    cache,        \* the informers' copy of obj
    queue,        \* the work queue
    pc,           \* where the worker is
    cur,          \* the Sesame it reconciles
    snap,         \* the spec of cur, as read at the start
    finalized,    \* whether cur had the finalizer then
    fresh,        \* cur's resourceVersion is still the one read
    todo,         \* kinds the current phase of the reconcile still has to do
    failed,       \* has an error been collected?
    shared,       \* did the List find another Sesame in snap.ns?
    edits, meddles, faults  \* what is left of the bounds

cluster == <<phase, spec>>
worker == <<pc, cur, snap, finalized, fresh, todo, failed, shared>>
bounds == <<edits, meddles, faults>>
vars == <<phase, spec, obj, terminating, cache, queue, worker, bounds>>

Pcs == {"idle", "validate", "finalize", "namespace", "rbac", "children",
        "status", "delete", "listAll", "deleteRbac", "checkNs",
        "deleteNs", "unfinalize"}

-----------------------------------------------------------------------------
(* Sesame resources, as the API server lists them.                         *)

Present == {s \in Sesames : phase[s] # "none"}

\* OtherSesamesExist: a single item with the same name passes for s itself,
\* whatever its namespace is.
OtherSesamesExist(s) ==
    ~ \/ Present = {}
      \/ \E t \in Present : Present = {t} /\ NameOf[t] = NameOf[s]

\* Deviation: tells Sesames apart by their name alone.
OtherNamesExistInSpecNs(s, n) ==
    \E t \in Present : NameOf[t] # NameOf[s] /\ spec[t].ns = n

OtherSesamesExistInSpecNs(s, n) ==
    /\ OtherSesamesExist(s)
    /\ \E t \in Present \ {s} : spec[t].ns = n

\* A write to s makes the worker's copy of it outdated.
Touch(s) == fresh' = (fresh /\ s # cur)

-----------------------------------------------------------------------------
(* Calls to the API server on the object of kind k in snap.ns. A result is *)
(* the object afterwards and whether the caller gets an error.             *)

Live(k) == obj[k][snap.ns]
Seen(k) == cache[k][snap.ns]
Config(k) == IF k \in SpecDriven THEN snap.config ELSE "fixed"
Desired(k) == [owner |-> cur, config |-> Config(k)]

\* Nothing can be created in a namespace that is missing or going away.
Open(k) ==
    \/ k \in Clustered
    \/ obj["namespace"][snap.ns] # NoObject /\ snap.ns \notin terminating

\* Deviation: the server fills in a field that the generated object lacks, so
\* that it never compares equal.
StoredDefaulted(k) ==
    [object |-> [owner |-> cur, config |-> "alien"], err |-> FALSE]

Unchanged(k) == [object |-> Live(k), err |-> FALSE]
Refused(k) == [object |-> Live(k), err |-> TRUE]
Stored(k) == [object |-> Desired(k), err |-> FALSE]
Deleted == [object |-> NoObject, err |-> FALSE]

Create(k) == IF Live(k) = NoObject /\ Open(k) THEN Stored(k) ELSE Refused(k)

\* The generated object replaces what is there.
UpdateGenerated(k) == IF Live(k) # NoObject THEN Stored(k) ELSE Refused(k)

\* A copy of the cached object with what differs set as generated: refused if
\* the object is no longer the one that was read.
UpdateCopy(k) ==
    IF Live(k) # NoObject /\ Live(k) = Seen(k) THEN Stored(k) ELSE Refused(k)

Update(k) == IF k \in Unconditional THEN UpdateGenerated(k) ELSE UpdateCopy(k)

\* recreateJobIfNeeded: a Delete and then a Create that is retried.
Recreate(k) ==
    IF Open(k) THEN Stored(k) ELSE [object |-> NoObject, err |-> TRUE]

\* Deviations: takes over what others own; never updates; insists on owning.
EnsureAdopting(k) ==
    IF Seen(k) = NoObject THEN Create(k)
    ELSE IF Seen(k) = Desired(k) THEN Unchanged(k) ELSE Update(k)

EnsureOnce(k) == IF Seen(k) = NoObject THEN Create(k) ELSE Unchanged(k)

EnsureOwned(k) ==
    IF Seen(k) = NoObject THEN Create(k)
    ELSE IF Seen(k).owner # cur THEN Refused(k) ELSE Unchanged(k)

\* The Ensure<Kind> functions: decide on what the cache shows.
Ensure(k) ==
    IF Seen(k) = NoObject THEN Create(k)
    ELSE IF Seen(k).owner # cur \/ Seen(k).config = Config(k)
    THEN Unchanged(k)
    ELSE IF k \in Selecting /\ Seen(k).config = "alien" THEN Deleted
    ELSE IF k = "job" THEN Recreate(k)
    ELSE Update(k)

\* Deviations: deletes without looking at the labels; an object that is already
\* gone is an error.
EnsureDeletedByName(k) == IF Seen(k) # NoObject THEN Deleted ELSE Unchanged(k)

EnsureDeletedStrictly(k) ==
    IF Seen(k) = NoObject THEN Refused(k)
    ELSE IF Seen(k).owner = cur THEN Deleted ELSE Unchanged(k)

\* The Ensure<Kind>Deleted functions. Delete goes by name: it removes what is
\* there, not what was seen.
EnsureDeleted(k) == IF Seen(k).owner = cur THEN Deleted ELSE Unchanged(k)

\* What a failed call may leave: it fails before or, its answer lost, after
\* taking effect, and the recreation of a job also between its two halves.
Leftovers(k, r) ==
    {Live(k), r.object} \cup
        {o \in {NoObject} : k = "job" /\ r.object # Live(k)}

Call(k, r, err) ==
    \/ /\ obj' = [obj EXCEPT ![k][snap.ns] = r.object]
       /\ err = r.err
       /\ UNCHANGED faults
    \/ /\ faults > 0
       /\ faults' = faults - 1
       /\ err
       /\ \E o \in Leftovers(k, r) : obj' = [obj EXCEPT ![k][snap.ns] = o]

\* A call that reads only, or writes a Sesame, and fails.
Fault == faults > 0 /\ faults' = faults - 1

\* With StaleReads the informers may lag behind for as long as they like.
CacheReady == StaleReads \/ cache = obj

-----------------------------------------------------------------------------
(* Reconcile. Goto keeps the worker on cur; Finish ends the reconcile, and *)
(* an error puts cur back into the queue.                                  *)

Goto(label) ==
    /\ pc' = label
    /\ UNCHANGED <<cur, snap, finalized>>

Reset ==
    /\ pc' = "idle"
    /\ cur' = Nil
    /\ snap' = Nil
    /\ finalized' = FALSE
    /\ fresh' = FALSE
    /\ todo' = {}
    /\ failed' = FALSE
    /\ shared' = FALSE

Finish(requeue) ==
    /\ Reset
    /\ queue' = IF requeue THEN queue \cup {cur} ELSE queue

\* Deviation: a Sesame that is not found is reconciled like one that is.
GetSesameUnchecked(s) ==
    /\ pc = "idle"
    /\ s \in queue
    /\ queue' = queue \ {s}
    /\ cur' = s
    /\ snap' = spec[s]
    /\ finalized' = (phase[s] # "new")
    /\ fresh' = TRUE
    /\ failed' = FALSE
    /\ shared' = FALSE
    /\ IF phase[s] = "deleting"
       THEN pc' = "delete" /\ todo' = ChildKinds
       ELSE pc' = "validate" /\ todo' = {}
    /\ UNCHANGED <<cluster, obj, terminating, cache, bounds>>

\* Deviation: a Sesame is validated even when it is being deleted.
GetSesameValidating(s) ==
    \/ /\ pc = "idle" /\ s \in queue /\ phase[s] = "none"
       /\ queue' = queue \ {s}
       /\ UNCHANGED <<cluster, obj, terminating, worker, cache, bounds>>
    \/ /\ phase[s] # "none"
       /\ phase[s] = "deleting" => ~ OtherSesamesExistInSpecNs(s, spec[s].ns)
       /\ GetSesameUnchecked(s)

\* Get of the Sesame; one that is gone is dropped from the queue.
GetSesame(s) ==
    /\ pc = "idle"
    /\ s \in queue
    /\ CacheReady
    /\ \/ /\ Fault
          /\ UNCHANGED <<queue, worker>>
       \/ /\ phase[s] = "none"
          /\ queue' = queue \ {s}
          /\ UNCHANGED <<worker, faults>>
       \/ /\ phase[s] # "none"
          /\ queue' = queue \ {s}
          /\ cur' = s
          /\ snap' = spec[s]
          /\ finalized' = (phase[s] # "new")
          /\ fresh' = TRUE
          /\ failed' = FALSE
          /\ shared' = FALSE
          /\ IF phase[s] = "deleting"
             THEN pc' = "delete" /\ todo' = ChildKinds
             ELSE pc' = "validate" /\ todo' = {}
          /\ UNCHANGED faults
    /\ UNCHANGED <<cluster, obj, terminating, cache, edits, meddles>>

\* Deviations: goes on without a finalizer; does not report an invalid Sesame.
ValidateOnly ==
    /\ pc = "validate"
    /\ IF OtherSesamesExistInSpecNs(cur, snap.ns)
       THEN Finish(TRUE)
       ELSE /\ Goto("namespace")
            /\ UNCHANGED <<queue, fresh, todo, failed, shared>>
    /\ UNCHANGED <<cluster, obj, terminating, cache, bounds>>

ValidateQuietly ==
    /\ pc = "validate"
    /\ IF OtherSesamesExistInSpecNs(cur, snap.ns)
       THEN Finish(FALSE)
       ELSE /\ Goto(IF finalized THEN "namespace" ELSE "finalize")
            /\ UNCHANGED <<queue, fresh, todo, failed, shared>>
    /\ UNCHANGED <<cluster, obj, terminating, cache, bounds>>

\* validation.Sesame, for specs whose ports and addresses are valid.
Validate ==
    /\ pc = "validate"
    /\ \/ Fault /\ Finish(TRUE)
       \/ /\ OtherSesamesExistInSpecNs(cur, snap.ns)
          /\ Finish(TRUE)
          /\ UNCHANGED faults
       \/ /\ ~ OtherSesamesExistInSpecNs(cur, snap.ns)
          /\ Goto(IF finalized THEN "namespace" ELSE "finalize")
          /\ UNCHANGED <<queue, fresh, todo, failed, shared, faults>>
    /\ UNCHANGED <<cluster, obj, terminating, cache, edits, meddles>>

\* Deviation: builds the Sesame although the finalizer could not be added.
EnsureFinalizerUnchecked ==
    /\ pc = "finalize"
    /\ phase' = IF fresh THEN [phase EXCEPT ![cur] = "live"] ELSE phase
    /\ Goto("namespace")
    /\ UNCHANGED <<spec, obj, terminating, cache, queue, fresh, todo, failed,
                   shared, bounds>>

\* EnsureFinalizer: an Update, refused if the Sesame changed since the Get.
\* The Update's own event starts the reconcile that builds the Sesame.
EnsureFinalizer ==
    /\ pc = "finalize"
    /\ \/ /\ fresh
          /\ phase' = [phase EXCEPT ![cur] = "live"]
          /\ Finish(TRUE)
          /\ UNCHANGED faults
       \/ /\ ~ fresh
          /\ Finish(TRUE)
          /\ UNCHANGED <<phase, faults>>
       \/ /\ Fault
          /\ Finish(TRUE)
          /\ UNCHANGED phase
    /\ UNCHANGED <<spec, obj, terminating, cache, edits, meddles>>

EnsureNamespace ==
    /\ pc = "namespace"
    /\ CacheReady
    /\ \E err \in BOOLEAN :
          /\ Call("namespace", Ensure("namespace"), err)
          /\ failed' = err
    /\ Goto("rbac")
    /\ todo' = RbacKinds
    /\ UNCHANGED <<cluster, terminating, cache, queue, fresh, shared, edits,
                   meddles>>

\* EnsureRBAC returns at the first error.
EnsureRBAC ==
    /\ pc = "rbac"
    /\ todo # {}
    /\ CacheReady
    /\ \E k \in todo, err \in BOOLEAN :
          /\ \A j \in todo : Rank[k] <= Rank[j]
          /\ Call(k, Ensure(k), err)
          /\ failed' = (failed \/ err)
          /\ todo' = IF err THEN {} ELSE todo \ {k}
    /\ UNCHANGED <<cluster, terminating, cache, queue, pc, cur, snap,
                   finalized, fresh, shared, edits, meddles>>

\* Without a namespace and RBAC, only the status is synced.
RBACDone ==
    /\ pc = "rbac"
    /\ todo = {}
    /\ Goto(IF failed THEN "status" ELSE "children")
    /\ todo' = IF failed THEN {} ELSE ChildKinds
    /\ UNCHANGED <<cluster, obj, terminating, cache, queue, fresh, failed,
                   shared, bounds>>

\* One of the six calls ensureSesame makes whether or not one has failed.
EnsureChild ==
    /\ pc = "children"
    /\ todo # {}
    /\ CacheReady
    /\ \E k \in todo, err \in BOOLEAN :
          /\ \A j \in todo : Rank[k] <= Rank[j]
          /\ Call(k, Ensure(k), err)
          /\ failed' = (failed \/ err)
          /\ todo' = todo \ {k}
          /\ Goto(IF todo = {k} THEN "status" ELSE "children")
    /\ UNCHANGED <<cluster, terminating, cache, queue, fresh, shared, edits,
                   meddles>>

\* SyncSesame reads the Sesame again and looks its workloads up where its
\* spec is now. Its own write, if any, is an event that requeues the Sesame.
WorkloadMissing(s) ==
    \E k \in Watched \cap Kinds : cache[k][spec[s].ns] = NoObject

SyncStatus ==
    /\ pc = "status"
    /\ CacheReady
    /\ \/ /\ Fault
          /\ Finish(TRUE)
       \/ /\ \E written \in BOOLEAN :
                Finish(\/ failed
                       \/ phase[cur] # "none" /\ (written \/ WorkloadMissing(cur)))
          /\ UNCHANGED faults
    /\ UNCHANGED <<cluster, obj, terminating, cache, edits, meddles>>

\* Deviation: errors are logged and forgotten.
DeleteChildQuietly ==
    /\ pc = "delete"
    /\ todo # {}
    /\ CacheReady
    /\ \E k \in todo, err \in BOOLEAN :
          /\ \A j \in todo : Rank[k] >= Rank[j]
          /\ Call(k, EnsureDeleted(k), err)
          /\ todo' = todo \ {k}
    /\ UNCHANGED <<cluster, terminating, cache, queue, pc, cur, snap,
                   finalized, fresh, failed, shared, edits, meddles>>

\* One of the six calls ensureSesameDeleted starts with.
DeleteChild ==
    /\ pc = "delete"
    /\ todo # {}
    /\ CacheReady
    /\ \E k \in todo, err \in BOOLEAN :
          /\ \A j \in todo : Rank[k] >= Rank[j]
          /\ Call(k, EnsureDeleted(k), err)
          /\ failed' = (failed \/ err)
          /\ todo' = todo \ {k}
    /\ UNCHANGED <<cluster, terminating, cache, queue, pc, cur, snap,
                   finalized, fresh, shared, edits, meddles>>

\* EnsureRBACDeleted, first half: is another Sesame in this namespace?
ListInNs ==
    /\ pc = "delete"
    /\ todo = {}
    /\ \/ /\ shared' = OtherSesamesExistInSpecNs(cur, snap.ns)
          /\ Goto("listAll")
          /\ UNCHANGED <<failed, faults>>
       \/ /\ Fault
          /\ failed' = TRUE
          /\ Goto("checkNs")
          /\ UNCHANGED shared
    /\ UNCHANGED <<cluster, obj, terminating, cache, queue, fresh, todo,
                   edits, meddles>>

\* Second half: is there another Sesame at all? Then collect the objects that
\* carry the owner labels.
Removable(k) ==
    /\ Seen(k).owner = cur
    /\ IF k \in ClusterRbac THEN ~ OtherSesamesExist(cur) ELSE ~ shared

ListAll ==
    /\ pc = "listAll"
    /\ CacheReady
    /\ \/ /\ todo' = {k \in RbacKinds : Removable(k)}
          /\ Goto("deleteRbac")
          /\ UNCHANGED <<failed, faults>>
       \/ /\ Fault
          /\ failed' = TRUE
          /\ Goto("checkNs")
          /\ UNCHANGED todo
    /\ UNCHANGED <<cluster, obj, terminating, cache, queue, fresh, shared,
                   edits, meddles>>

\* The order of objectsToDelete; the first error ends the loop.
DeleteRank == [rolebinding |-> 1, role |-> 2, serviceaccount |-> 3,
               clusterrolebinding |-> 4, clusterrole |-> 5]

DeleteRBAC ==
    /\ pc = "deleteRbac"
    /\ todo # {}
    /\ \E k \in todo, err \in BOOLEAN :
          /\ \A j \in todo : DeleteRank[k] <= DeleteRank[j]
          /\ Call(k, Deleted, err)
          /\ failed' = (failed \/ err)
          /\ todo' = IF err THEN {} ELSE todo \ {k}
    /\ UNCHANGED <<cluster, terminating, cache, queue, pc, cur, snap,
                   finalized, fresh, shared, edits, meddles>>

RBACDeleted ==
    /\ pc = "deleteRbac"
    /\ todo = {}
    /\ Goto("checkNs")
    /\ UNCHANGED <<cluster, obj, terminating, cache, queue, fresh, todo,
                   failed, shared, bounds>>

\* EnsureNamespaceDeleted up to its List, and then its Delete.
NamespaceRemovable ==
    /\ snap.remove
    /\ snap.ns \notin CoreNamespaces
    /\ Seen("namespace").owner = cur
    /\ ~ OtherSesamesExistInSpecNs(cur, snap.ns)

CheckNamespace ==
    /\ pc = "checkNs"
    /\ CacheReady
    /\ \/ /\ Goto(IF NamespaceRemovable THEN "deleteNs" ELSE "unfinalize")
          /\ UNCHANGED <<failed, faults>>
       \/ /\ Fault
          /\ snap.remove
          /\ snap.ns \notin CoreNamespaces
          /\ failed' = TRUE
          /\ Goto("unfinalize")
    /\ UNCHANGED <<cluster, obj, terminating, cache, queue, fresh, todo,
                   shared, edits, meddles>>

DeleteNamespace ==
    /\ pc = "deleteNs"
    /\ LET gone == IF Live("namespace") = NoObject THEN terminating
                   ELSE terminating \cup {snap.ns}
       IN  \/ /\ terminating' = gone
              /\ UNCHANGED <<failed, faults>>
           \/ /\ Fault
              /\ failed' = TRUE
              /\ terminating' \in {terminating, gone}
    /\ Goto("unfinalize")
    /\ UNCHANGED <<cluster, obj, cache, queue, fresh, todo, shared, edits,
                   meddles>>

\* Deviation: a patch instead of an Update, which cannot conflict.
PatchFinalizerRemoved ==
    /\ pc = "unfinalize"
    /\ IF failed THEN UNCHANGED cluster
       ELSE /\ phase' = [phase EXCEPT ![cur] = "none"]
            /\ spec' = [spec EXCEPT ![cur] = Nil]
    /\ Finish(TRUE)
    /\ UNCHANGED <<obj, terminating, cache, bounds>>

\* EnsureFinalizerRemoved, only if nothing failed: the last finalizer gone,
\* the API server removes the Sesame.
EnsureFinalizerRemoved ==
    /\ pc = "unfinalize"
    /\ \/ /\ failed \/ ~ fresh
          /\ Finish(TRUE)
          /\ UNCHANGED <<cluster, faults>>
       \/ /\ Fault
          /\ Finish(TRUE)
          /\ UNCHANGED cluster
       \/ /\ ~ failed
          /\ fresh
          /\ phase' = [phase EXCEPT ![cur] = "none"]
          /\ spec' = [spec EXCEPT ![cur] = Nil]
          /\ Finish(TRUE)
          /\ UNCHANGED faults
    /\ UNCHANGED <<obj, terminating, cache, edits, meddles>>

-----------------------------------------------------------------------------
(* Informers, restarts and the periodic resync of the controller.          *)

\* The informer of kind k catches up; the events of a watched kind requeue
\* the Sesames named by the labels of what changed.
OwnersOf(k) ==
    {s \in Sesames : \E n \in Namespaces :
        /\ cache[k][n] # obj[k][n]
        /\ s \in {cache[k][n].owner, obj[k][n].owner}}

SyncCache(k) ==
    /\ cache[k] # obj[k]
    /\ cache' = [cache EXCEPT ![k] = obj[k]]
    /\ queue' = IF k \in Watched THEN queue \cup OwnersOf(k) ELSE queue
    /\ UNCHANGED <<cluster, obj, terminating, worker, bounds>>

Resync ==
    /\ queue' = queue \cup Present
    /\ UNCHANGED <<cluster, obj, terminating, cache, worker, bounds>>

\* The operator restarts: it lists everything before it starts to work.
Crash ==
    /\ Fault
    /\ Reset
    /\ cache' = obj
    /\ queue' = Present
    /\ UNCHANGED <<cluster, obj, terminating, edits, meddles>>

-----------------------------------------------------------------------------
(* The environment: users of Sesames, users of the cluster, and the        *)
(* namespace controller.                                                   *)

Edit(s) ==
    /\ edits > 0
    /\ edits' = edits - 1
    /\ Touch(s)
    /\ queue' = queue \cup {s}
    /\ UNCHANGED <<obj, terminating, cache, pc, cur, snap, finalized, todo,
                   failed, shared, meddles, faults>>

CreateSesame(s) ==
    /\ phase[s] = "none"
    /\ Edit(s)
    /\ phase' = [phase EXCEPT ![s] = "new"]
    /\ \E sp \in Specs : spec' = [spec EXCEPT ![s] = sp]

EditSpec(s) ==
    /\ phase[s] # "none"
    /\ Edit(s)
    /\ \E sp \in Specs \ {spec[s]} :
          /\ NsMutable \/ sp.ns = spec[s].ns
          /\ spec' = [spec EXCEPT ![s] = sp]
    /\ UNCHANGED phase

\* Without a finalizer the resource goes at once, with it it is marked.
DeleteSesame(s) ==
    /\ Edit(s)
    /\ \/ /\ phase[s] = "new"
          /\ phase' = [phase EXCEPT ![s] = "none"]
          /\ spec' = [spec EXCEPT ![s] = Nil]
       \/ /\ phase[s] = "live"
          /\ phase' = [phase EXCEPT ![s] = "deleting"]
          /\ UNCHANGED spec

\* Somebody deletes an object, changes it but for its labels, or, where
\* there is none, creates one of that name.
Meddle(k, n) ==
    /\ meddles > 0
    /\ meddles' = meddles - 1
    /\ k # "namespace"
    /\ LET o == obj[k][n]
       IN \E o2 \in {NoObject, Altered(o), StrangersObject} :
            /\ o2 # o
            /\ o2.owner = Stranger =>
                 /\ o = NoObject
                 /\ k \in Clustered \/ obj["namespace"][n] # NoObject
                 /\ n \notin terminating
            /\ obj' = [obj EXCEPT ![k][n] = o2]
    /\ UNCHANGED <<cluster, terminating, cache, queue, worker, edits, faults>>

MeddleNamespace(n) ==
    /\ meddles > 0
    /\ meddles' = meddles - 1
    /\ \/ /\ obj["namespace"][n] # NoObject
          /\ terminating' = terminating \cup {n}
          /\ UNCHANGED obj
       \/ /\ obj["namespace"][n] = NoObject
          /\ obj' = [obj EXCEPT !["namespace"][n] = StrangersObject]
          /\ UNCHANGED terminating
       \/ /\ obj["namespace"][n].config = "fixed"
          /\ obj' = [obj EXCEPT !["namespace"][n] = Altered(obj["namespace"][n])]
          /\ UNCHANGED terminating
    /\ UNCHANGED <<cluster, cache, queue, worker, edits, faults>>

\* The namespace controller empties a terminating namespace and removes it.
DrainNamespace(k, n) ==
    /\ n \in terminating
    /\ obj[k][n] # NoObject
    /\ \/ k \in Kinds \ Clustered /\ UNCHANGED terminating
       \/ /\ k = "namespace"
          /\ \A j \in Kinds \ Clustered : obj[j][n] = NoObject
          /\ terminating' = terminating \ {n}
    /\ obj' = [obj EXCEPT ![k][n] = NoObject]
    /\ UNCHANGED <<cluster, cache, queue, worker, bounds>>

-----------------------------------------------------------------------------

Init ==
    /\ phase = [s \in Sesames |-> "none"]
    /\ spec = [s \in Sesames |-> Nil]
    /\ \E pre \in SUBSET Namespaces :
          obj = [k \in Kinds |-> [n \in Namespaces |->
                    IF k = "namespace" /\ n \in pre THEN StrangersObject
                    ELSE NoObject]]
    /\ terminating = {}
    /\ cache = obj
    /\ queue = {}
    /\ pc = "idle"
    /\ cur = Nil
    /\ snap = Nil
    /\ finalized = FALSE
    /\ fresh = FALSE
    /\ todo = {}
    /\ failed = FALSE
    /\ shared = FALSE
    /\ edits = MaxEdits
    /\ meddles = MaxMeddles
    /\ faults = MaxFaults

\* The steps of a reconcile after its Get.
Work ==
    \/ Validate \/ EnsureFinalizer
    \/ EnsureNamespace \/ EnsureRBAC \/ RBACDone \/ EnsureChild \/ SyncStatus
    \/ DeleteChild \/ ListInNs \/ ListAll \/ DeleteRBAC \/ RBACDeleted
    \/ CheckNamespace \/ DeleteNamespace \/ EnsureFinalizerRemoved

Reconcile == Work \/ \E s \in Sesames : GetSesame(s)

Users ==
    \/ \E s \in Sesames : CreateSesame(s) \/ EditSpec(s) \/ DeleteSesame(s)
    \/ \E k \in Kinds, n \in Namespaces : Meddle(k, n)
    \/ \E n \in Namespaces : MeddleNamespace(n)

Next ==
    \/ Reconcile
    \/ \E k \in Kinds : SyncCache(k)
    \/ Resync
    \/ Crash
    \/ Users
    \/ \E k \in Kinds, n \in Namespaces : DrainNamespace(k, n)

Spec == Init /\ [][Next]_vars

-----------------------------------------------------------------------------
(* Fairness: the worker never stops half way, the queue is first in, first *)
(* out (so no request waits for ever while others are served), informers   *)
(* catch up, and the namespace controller works. The resync period, of ten *)
(* hours, is kept apart: what needs it is slow.                            *)

Fairness ==
    /\ WF_vars(Work)
    /\ \A s \in Sesames : SF_vars(GetSesame(s))
    /\ \A k \in Kinds : WF_vars(SyncCache(k))
    /\ \A k \in Kinds, n \in Namespaces : WF_vars(DrainNamespace(k, n))

FairSpec == Spec /\ Fairness
ResyncSpec == FairSpec /\ WF_vars(Resync)

-----------------------------------------------------------------------------
(* Properties.                                                             *)

\* The type invariant; a busy worker has a Sesame and a spec.
TypeOK ==
    /\ phase \in [Sesames -> Phases]
    /\ spec \in [Sesames -> Specs \cup {Nil}]
    /\ \A s \in Sesames : phase[s] = "none" <=> spec[s] = Nil
    /\ obj \in [Kinds -> [Namespaces -> Objects]]
    /\ cache \in [Kinds -> [Namespaces -> Objects]]
    /\ terminating \subseteq Namespaces
    /\ queue \subseteq Sesames
    /\ pc \in Pcs
    /\ IF pc = "idle" THEN cur = Nil /\ snap = Nil
       ELSE cur \in Sesames /\ snap \in Specs
    /\ todo \subseteq Kinds
    /\ {finalized, fresh, failed, shared} \subseteq BOOLEAN
    /\ edits \in 0..MaxEdits
    /\ meddles \in 0..MaxMeddles
    /\ faults \in 0..MaxFaults

\* A child object comes to belong to a Sesame only while that Sesame is in the
\* API server with its finalizer on it, so that its deletion waits for the
\* operator, even though the finalizer was read at the start of a reconcile
\* (controller.go:137-146) that users edit and delete Sesames during.
Acquires(s) ==
    \E k \in Kinds, n \in Namespaces :
        obj'[k][n].owner = s /\ obj[k][n].owner # s

FinalizerGuards ==
    [][\A s \in Sesames : Acquires(s) => phase[s] \in {"live", "deleting"}]_vars

\* When the finalizer goes, and with it the last chance to clean up, no child
\* object of the Sesame is left in the namespace of its spec, whatever failed,
\* crashed or was edited on the way (controller.go:218-257).
NothingLeftBehind ==
    [][\A s \in Sesames : phase[s] = "deleting" /\ phase'[s] = "none" =>
          \A k \in ChildKinds : obj[k][spec[s].ns].owner # s]_vars

\* "ensures sesame and all child resources have been deleted"
\* (controller.go:218), wherever the Sesame had them built.
AllChildrenDeleted ==
    [][\A s \in Sesames : phase[s] = "deleting" /\ phase'[s] = "none" =>
          \A k \in ChildKinds, n \in Namespaces : obj[k][n].owner # s]_vars

\* Nor are its cluster role and binding, whose documentation says that they
\* are deleted if they carry its labels (rbac.go:81-82).
ClusterRoleRemoved ==
    [][\A s \in Sesames : phase[s] = "deleting" /\ phase'[s] = "none" =>
          obj["clusterrole"][spec[s].ns].owner # s]_vars

\* Two Sesames never both own child objects in one namespace: validation reads
\* the list once (validation.go:30), long before the objects are created, and
\* the next tenant must find the namespace cleaned up.
Tenants(n) == {s \in Sesames : \E k \in ChildKinds : obj[k][n].owner = s}

OneTenantPerNamespace == \A n \in Namespaces : Cardinality(Tenants(n)) <= 1

\* Two Sesames never both have the finalizer in one namespace, however far the
\* caches lag: validation lists the Sesames (validation.go:30-35), which are not
\* cached (operator.go:78), and the finalizer comes two calls later, after edits.
OneHolderPerNamespace ==
    \A s, t \in Sesames :
        /\ s # t
        /\ {phase[s], phase[t]} \subseteq {"live", "deleting"}
        => spec[s].ns # spec[t].ns

\* A Sesame without its finalizer yet, or one to be torn down, is queued or in
\* the worker's hands, whatever errors, conflicts and restarts there were: no
\* return of Reconcile (controller.go:114-155) drops one that is not done.
NeverForgotten ==
    \A s \in Sesames : phase[s] \in {"new", "deleting"} => s \in queue \cup {cur}

\* The worker never overwrites or deletes an object that belongs to another
\* Sesame, although it decides on a cached copy of it and Delete goes by name.
AnothersObjectsUntouched ==
    [][Reconcile => \A k \in Kinds, n \in Namespaces :
          obj[k][n].owner \in Sesames /\ obj'[k][n] # obj[k][n] =>
              obj[k][n].owner = cur]_vars

\* The worker deletes a namespace only if no child object of another Sesame is
\* in it, although other Sesames come and change between the List and the
\* Delete (namespace.go:78-83).
NamespaceRemovalIsSafe ==
    [][Reconcile => \A n \in terminating' \ terminating :
          Tenants(n) \subseteq {cur}]_vars

\* What somebody else created under a child's name is neither overwritten nor
\* deleted (the ownership checks of the Ensure functions), also if it took the
\* place of the Sesame's own object in the middle of a reconcile.
StrangersObjectsKept ==
    [][Reconcile => \A k \in ChildKinds, n \in Namespaces :
          obj[k][n].owner = Stranger => obj'[k][n] = obj[k][n]]_vars

\* Seen from outside, namespaces are held and given up: whatever its calls do
\* in between, two Sesames with finalizers never have one namespace
\* (validation.go:30-35, which reads the list long before EnsureFinalizer), only
\* they have children, there, and a finalizer goes after the last child.
StageOf == [none |-> "absent", new |-> "asking", live |-> "holding",
            deleting |-> "leaving"]

Stage == [s \in Sesames |-> StageOf[phase[s]]]
Place == [s \in Sesames |-> IF phase[s] = "none" THEN Nil ELSE spec[s].ns]
Occupants == [n \in Namespaces |-> Tenants(n)]

Tenancy == INSTANCE SesameTenancy WITH
    stage <- Stage, place <- Place, tenants <- Occupants

ImplementsTenancy == Tenancy!Spec

\* Once a Sesame with a finalizer is deleted it does go, through conflicts,
\* failed calls and restarts.
DeletionCompletes ==
    \A s \in Sesames : phase[s] = "deleting" ~> phase[s] = "none"

\* In the end a Sesame that has its namespace to itself has every object of
\* the kinds that do not delete themselves, and those it owns are the ones its
\* last spec asks for.
Alone(s) ==
    /\ phase[s] \in {"new", "live"}
    /\ \A t \in Present \ {s} : spec[t].ns # spec[s].ns

Built(s) ==
    \A k \in Kinds :
        LET o == obj[k][spec[s].ns]
        IN  /\ o # NoObject
            /\ o.owner = s =>
                  o.config = IF k \in SpecDriven THEN spec[s].config ELSE "fixed"

Converges == <>[](\A s \in Sesames : Alone(s) => Built(s))

\* As long as nobody else has touched its objects, a Sesame that the worker is
\* done with, and will not come back to, is built as its spec asks now: neither
\* a call that failed, nor a namespace still being deleted under it, nor an edit
\* after the Get is lost (ensureSesame, controller.go:158-216).
RestIsBuilt ==
    meddles = MaxMeddles =>
        \A s \in Sesames : phase[s] = "live" /\ s \notin queue \cup {cur} => Built(s)

\* A reconcile writes nothing for a Sesame that is built: the comparisons of
\* equality.go and the ownership checks find no difference in what the operator
\* made itself, or in what it left to others.
NothingRewritten ==
    [][/\ Reconcile
       /\ cur # Nil /\ phase[cur] = "live" /\ spec[cur] = snap
       /\ Built(cur) /\ cache = obj
       => UNCHANGED obj]_vars

\* In the end the worker stops writing child objects, however often it still
\* reconciles.
Settles == <>[][UNCHANGED obj]_obj

=============================================================================
