------------------------ MODULE SesameProgressProofs ------------------------
(***************************************************************************)
(* What the worker has done when it lets go of a Sesame: theorems about    *)
(* SesameOperator. They are the safety half of its liveness: a Sesame that *)
(* is not finished is queued, one that is finished is built, and what is   *)
(* built is not written again.                                             *)
(***************************************************************************)
EXTENDS SesameTenancyProofs, SesameOwnershipProofs

-----------------------------------------------------------------------------
(* No Sesame is forgotten.                                                 *)

\* A Sesame that waits for its finalizer, or is to be torn down, is queued, or
\* the worker is still on the way that ends with queueing it.
Pending ==
    \A s \in Sesames \ queue :
        /\ phase[s] \in {"new", "deleting"} => s = cur
        /\ phase[s] = "new" => pc \in {"validate", "finalize"}
        /\ phase[s] = "deleting" => pc \in DeletePcs

\* A write to a Sesame is an event that queues it: the worker's own by the
\* requeue of its reconcile, those of users by the watch.
LEMMA WritesQueue ==
  ASSUME TypeOK, [Next]_vars, NEW s \in Sesames, phase'[s] # phase[s] \/ spec'[s] # spec[s]
  PROVE  s \in queue'
<1> USE DEF cluster, worker, bounds
<1>1. CASE EnsureFinalizer
  BY <1>1 DEF EnsureFinalizer, Finish, TypeOK
<1>2. CASE EnsureFinalizerRemoved
  BY <1>2 DEF EnsureFinalizerRemoved, Finish, TypeOK
<1>3. ASSUME NEW t \in Sesames, CreateSesame(t) \/ EditSpec(t) \/ DeleteSesame(t)
      PROVE  s = t /\ t \in queue'
  BY <1>3 DEF CreateSesame, EditSpec, DeleteSesame, Edit, TypeOK
<1> QED
  BY <1>1, <1>2, <1>3
     DEF Next, Reconcile, Work, Users, GetSesame, Validate, EnsureNamespace,
         EnsureRBAC, RBACDone, EnsureChild, SyncStatus, DeleteChild, ListInNs,
         ListAll, DeleteRBAC, RBACDeleted, CheckNamespace, DeleteNamespace,
         SyncCache, Resync, Crash, Meddle, MeddleNamespace, DrainNamespace, vars

\* Only a Get takes a Sesame off the queue.
LEMMA QueueSteps ==
  ASSUME [Next]_vars, NEW s \in queue, s \in Sesames, s \notin queue'
  PROVE  GetSesame(s) \/ Crash
<1> USE DEF cluster, worker, bounds
<1> QED
  BY DEF Next, Reconcile, Work, Users, GetSesame, Validate, EnsureFinalizer,
     EnsureNamespace, EnsureRBAC, RBACDone, EnsureChild, SyncStatus, DeleteChild,
     ListInNs, ListAll, DeleteRBAC, RBACDeleted, CheckNamespace, DeleteNamespace,
     EnsureFinalizerRemoved, Finish, SyncCache, Resync, CreateSesame, EditSpec,
     DeleteSesame, Edit, Meddle, MeddleNamespace, DrainNamespace, vars

\* A reconcile ends with its Sesame in the queue, but for one that went well up
\* to the status. After a restart every Sesame there is queued.
LEMMA FinishingSteps ==
  ASSUME [Next]_vars, pc # "idle", pc' = "idle"
  PROVE  \/ cur \in queue'
         \/ SyncStatus /\ pc = "status" /\ ~ failed
         \/ queue' = Present
<1> USE DEF cluster, worker, bounds
<1>1. CASE SyncStatus
  BY <1>1 DEF SyncStatus, Finish
<1> QED
  BY <1>1 DEF Next, Reconcile, Work, Users, GetSesame, Validate, EnsureFinalizer,
     EnsureNamespace, EnsureRBAC, RBACDone, EnsureChild, DeleteChild,
     ListInNs, ListAll, DeleteRBAC, RBACDeleted, CheckNamespace, DeleteNamespace,
     EnsureFinalizerRemoved, Finish, Goto, SyncCache, Resync, Crash, CreateSesame,
     EditSpec, DeleteSesame, Edit, Meddle, MeddleNamespace, DrainNamespace, vars

\* A step that leaves a Sesame out of the queue leaves it as it was, and it was
\* not in the queue before or has just been read.
LEMMA PendingInductive == IInv /\ Pending /\ [Next]_vars => Pending'
<1> SUFFICES ASSUME IInv, Pending, [Next]_vars, NEW s \in Sesames, s \notin queue',
                    phase'[s] \in {"new", "deleting"}
             PROVE  /\ s = cur'
                    /\ phase'[s] = "new" => pc' \in {"validate", "finalize"}
                    /\ phase'[s] = "deleting" => pc' \in DeletePcs
  BY DEF Pending
<1>typed. TypeOK
  BY DEF IInv
<1>1. phase'[s] = phase[s]
  BY <1>typed, WritesQueue
<1>2. s \notin queue' /\ s \in Present
  BY <1>1 DEF Present
<1>3. CASE s \in queue
  <2>1. GetSesame(s)
    BY <1>2, <1>3, QueueSteps DEF Crash
  <2> QED
    BY <1>1, <1>2, <2>1 DEF GetSesame, DeletePcs
<1>4. CASE s \notin queue
  <2>1. /\ s = cur
        /\ phase[s] = "new" => pc \in {"validate", "finalize"}
        /\ phase[s] = "deleting" => pc \in DeletePcs
    BY <1>1, <1>4 DEF Pending
  <2>2. pc # "idle" /\ pc # "status"
    BY <1>1, <2>1 DEF DeletePcs
  <2>3. pc' # "idle"
    BY <1>2, <2>1, <2>2, FinishingSteps
  <2>4. CASE UNCHANGED <<pc, cur>>
    BY <1>1, <2>1, <2>4
  <2>5. CASE pc = "validate" /\ pc' = (IF finalized THEN "namespace" ELSE "finalize")
             /\ UNCHANGED cur
    <3>1. phase[s] # "deleting"
      BY <2>1, <2>5 DEF DeletePcs
    <3>2. ~ finalized
      BY <1>1, <2>1, <2>5, <3>1 DEF IInv, FinalizerHeld
    <3> QED
      BY <1>1, <2>1, <2>5, <3>1, <3>2
  <2>6. CASE /\ {pc, pc'} \subseteq EnsurePcs \/ {pc, pc'} \subseteq DeletePcs
             /\ UNCHANGED cur
    <3>1. pc \notin EnsurePcs
      BY <1>1, <2>1 DEF EnsurePcs, DeletePcs
    <3>2. pc \in DeletePcs /\ pc' \in DeletePcs
      BY <2>6, <3>1
    <3>3. phase[s] # "new"
      BY <2>1, <3>2 DEF DeletePcs
    <3> QED
      BY <1>1, <2>1, <2>6, <3>2, <3>3
  <2> QED
    BY <2>2, <2>3, <2>4, <2>5, <2>6, WorkerSteps DEF WorkerStep
<1> QED
  BY <1>3, <1>4

\* No error, conflict, restart or edit, and no cache that lags behind, makes the
\* operator drop a Sesame that still has something to wait for.
THEOREM NoneIsForgotten == Spec => []NeverForgotten
<1>1. Init => Pending
  BY DEF Init, Pending
<1>2. Pending => NeverForgotten
  BY DEF Pending, NeverForgotten
<1> QED
  BY <1>1, <1>2, PendingInductive, InitInductive, NextInductive, PTL DEF Spec

-----------------------------------------------------------------------------
(* Nothing is written twice.                                               *)

\* An Ensure function that finds an object as it should be, or somebody else's,
\* leaves it alone, whatever becomes of the call.
LEMMA BuiltUnchanged ==
  ASSUME TypeOK, pc # "idle", cache = obj, spec[cur] = snap, Built(cur),
         NEW k \in Kinds, NEW err, Call(k, Ensure(k), err)
  PROVE  obj' = obj
<1>1. snap.ns \in Namespaces
  BY DEF TypeOK, Specs
<1>2. Live(k) # NoObject /\ (Live(k).owner = cur => Live(k).config = Config(k))
  BY DEF Built, Live, Config
<1>3. Ensure(k) = Unchanged(k)
  BY <1>2 DEF Ensure, Seen, Live
<1>4. Leftovers(k, Ensure(k)) = {Live(k)}
  BY <1>3 DEF Leftovers, Unchanged
<1> QED
  BY <1>1, <1>4, CallReplaces DEF Live, TypeOK

\* With caches that are current, and in whatever state others have left things, a
\* reconcile of a Sesame that is built changes no object.
THEOREM BuiltIsLeftAlone == Spec => NothingRewritten
<1>1. IInv /\ [Next]_vars =>
        (/\ Reconcile
         /\ cur # Nil /\ phase[cur] = "live" /\ spec[cur] = snap
         /\ Built(cur) /\ cache = obj
         => UNCHANGED obj)
  <2> SUFFICES ASSUME IInv, Reconcile, cur # Nil, phase[cur] = "live",
                      spec[cur] = snap, Built(cur), cache = obj
               PROVE  obj' = obj
    OBVIOUS
  <2>1. TypeOK /\ pc # "idle" /\ pc \notin DeletePcs /\ "namespace" \in Kinds
    BY DEF IInv, TypeOK, FinalizerHeld, Kinds
  <2>2. CASE EnsureNamespace
    BY <2>1, <2>2, BuiltUnchanged DEF EnsureNamespace
  <2>3. CASE EnsureRBAC
    BY <2>1, <2>3, BuiltUnchanged DEF EnsureRBAC, TypeOK
  <2>4. CASE EnsureChild
    BY <2>1, <2>4, BuiltUnchanged DEF EnsureChild, TypeOK
  <2> QED
    BY <2>1, <2>2, <2>3, <2>4
       DEF Reconcile, Work, GetSesame, Validate, EnsureFinalizer, RBACDone,
           SyncStatus, DeleteChild, ListInNs, ListAll, DeleteRBAC, RBACDeleted,
           CheckNamespace, DeleteNamespace, EnsureFinalizerRemoved, DeletePcs
<1> QED
  BY <1>1, InitInductive, NextInductive, PTL DEF Spec, NothingRewritten

-----------------------------------------------------------------------------
(* At rest a Sesame is built. The invariant.                               *)

\* Nobody but the operator has touched an object yet.
Undisturbed == meddles = MaxMeddles

\* Objects can be created in the namespace.
Opened(n) == obj["namespace"][n] # NoObject /\ n \notin terminating

\* A phase of the reconcile has to do with its own kinds.
Scoped ==
    /\ pc \in {"rbac", "deleteRbac"} => todo \subseteq RbacKinds
    /\ pc \in {"children", "delete"} => todo \subseteq ChildKinds

\* All objects but namespaces are the operator's, and as this release has them.
Homemade ==
    Undisturbed =>
        \A k \in Kinds, n \in Namespaces :
            /\ k # "namespace" => obj[k][n] = NoObject \/ obj[k][n].owner \in Sesames
            /\ obj[k][n].owner \in Sesames => obj[k][n].config # "alien"

\* The namespace of a live Sesame is not taken away from under its children.
ChildrenOpen ==
    Undisturbed =>
        \A k \in ChildKinds, n \in Namespaces, s \in Sesames :
            obj[k][n].owner = s /\ phase[s] = "live" => Opened(n)

\* An edit of the Sesame being reconciled queues it.
SnapKept == \A s \in Sesames \ queue : s = cur => spec[s] = snap

\* What Built asks of the object of one kind, for a Sesame with this config.
Fits(k, o, s, config) ==
    /\ o # NoObject
    /\ o.owner = s => o.config = IF k \in SpecDriven THEN config ELSE "fixed"

\* A Sesame the worker is done with is built.
RestBuilt ==
    Undisturbed =>
        \A s \in Sesames \ queue : phase[s] = "live" /\ s # cur => Built(s)

\* The kinds a reconcile has dealt with, in a namespace that is still there, are
\* as they should be; and no child is, in one that is not.
Done ==
    { k \in Kinds :
        \/ k = "namespace" /\ pc \in {"rbac", "children", "status"}
        \/ k \in RbacKinds /\ \/ pc = "rbac" /\ k \notin todo
                              \/ pc \in {"children", "status"}
        \/ k \in ChildKinds /\ \/ pc = "children" /\ k \notin todo
                               \/ pc = "status" }

WorkBuilt ==
    Undisturbed /\ pc \in EnsurePcs /\ ~ failed /\ phase[cur] = "live" /\ cur \notin queue =>
        /\ Opened(snap.ns) => \A k \in Done : Fits(k, obj[k][snap.ns], cur, snap.config)
        /\ Done \cap ChildKinds # {} => Opened(snap.ns)

BInv == Scoped /\ Homemade /\ ChildrenOpen /\ SnapKept /\ RestBuilt /\ WorkBuilt

\* The three sorts of kinds differ.
LEMMA KindsDiffer ==
  /\ "namespace" \in Kinds /\ RbacKinds \subseteq Kinds /\ ChildKinds \subseteq Kinds
  /\ RbacKinds \cap ChildKinds = {}
  /\ "namespace" \notin RbacKinds \cup ChildKinds
  /\ Clustered \cap ChildKinds = {}
  BY KindsAssumption DEF Kinds, ClusterRbac, Clustered

-----------------------------------------------------------------------------
(* What a step does to the objects of undisturbed Sesames.                 *)

\* Once disturbed, always disturbed.
LEMMA DisturbingSteps ==
  ASSUME TypeOK, [Next]_vars, Undisturbed'
  PROVE  /\ Undisturbed
         /\ \A k \in Kinds, n \in Namespaces : ~ Meddle(k, n)
         /\ \A n \in Namespaces : ~ MeddleNamespace(n)
<1> USE DEF cluster, worker, bounds
<1>1. meddles \in 0..MaxMeddles /\ MaxMeddles \in Nat
  BY BoundsAssumption DEF TypeOK
<1>2. meddles' = MaxMeddles
  BY DEF Undisturbed
<1>3. ASSUME NEW k \in Kinds, NEW n \in Namespaces, Meddle(k, n) PROVE FALSE
  BY <1>1, <1>2, <1>3 DEF Meddle
<1>4. ASSUME NEW n \in Namespaces, MeddleNamespace(n) PROVE FALSE
  BY <1>1, <1>2, <1>4 DEF MeddleNamespace
<1>5. meddles' = meddles
  BY <1>3, <1>4
     DEF Next, Reconcile, Work, Users, GetSesame, Validate, EnsureFinalizer,
         EnsureNamespace, EnsureRBAC, RBACDone, EnsureChild, SyncStatus,
         DeleteChild, ListInNs, ListAll, DeleteRBAC, RBACDeleted, CheckNamespace,
         DeleteNamespace, EnsureFinalizerRemoved, SyncCache, Resync, Crash,
         CreateSesame, EditSpec, DeleteSesame, Edit, DrainNamespace, vars
<1> QED
  BY <1>2, <1>3, <1>4, <1>5 DEF Undisturbed

\* What the worker writes, where and when.
LEMMA WrittenObjects ==
  ASSUME IInv, Scoped, Reconcile, NEW k \in Kinds, NEW n \in Namespaces,
         obj'[k][n] # obj[k][n]
  PROVE  /\ n = snap.ns /\ pc # "idle"
         /\ \/ /\ pc \in {"delete", "deleteRbac"} /\ k \in todo
               /\ obj'[k][n] = NoObject
            \/ /\ \/ pc = "namespace" /\ k = "namespace"
                  \/ pc \in {"rbac", "children"} /\ k \in todo
               /\ CacheReady
               /\ obj'[k][n] \in Leftovers(k, Ensure(k))
<1>typed. TypeOK /\ "namespace" \in Kinds
  BY DEF IInv, Kinds
<1>1. ASSUME pc # "idle", NEW j \in Kinds, NEW r, NEW err, Call(j, r, err)
      PROVE  j = k /\ n = snap.ns /\ obj'[k][n] \in Leftovers(j, r)
  <2>1. PICK o \in Leftovers(j, r) : obj' = [obj EXCEPT ![j][snap.ns] = o]
    BY <1>1, CallReplaces
  <2>2. snap.ns \in Namespaces
    BY <1>1, <1>typed DEF TypeOK, Specs
  <2> QED
    BY <1>typed, <2>1, <2>2 DEF TypeOK
<1>2. CASE EnsureNamespace
  BY <1>2, <1>1, <1>typed DEF EnsureNamespace
<1>3. CASE EnsureRBAC
  BY <1>3, <1>1, <1>typed DEF EnsureRBAC, TypeOK
<1>4. CASE EnsureChild
  BY <1>4, <1>1, <1>typed DEF EnsureChild, TypeOK
<1>5. CASE DeleteChild
  <2>1. PICK j \in todo, err \in BOOLEAN : Call(j, EnsureDeleted(j), err)
    BY <1>5 DEF DeleteChild
  <2>2. pc = "delete" /\ j \in Kinds
    BY <1>5, <1>typed DEF DeleteChild, TypeOK
  <2>3. j = k /\ n = snap.ns /\ obj'[k][n] \in Leftovers(j, EnsureDeleted(j))
    BY <1>1, <2>1, <2>2
  <2>4. obj'[k][n] = NoObject
    BY <2>3 DEF Leftovers, EnsureDeleted, Deleted, Unchanged, Live
  <2> QED
    BY <2>1, <2>2, <2>3, <2>4
<1>6. CASE DeleteRBAC
  <2>1. PICK j \in todo, err \in BOOLEAN : Call(j, Deleted, err)
    BY <1>6 DEF DeleteRBAC
  <2>2. pc = "deleteRbac" /\ j \in Kinds
    BY <1>6, <1>typed DEF DeleteRBAC, TypeOK
  <2>3. j = k /\ n = snap.ns /\ obj'[k][n] \in Leftovers(j, Deleted)
    BY <1>1, <2>1, <2>2
  <2>4. obj'[k][n] = NoObject
    BY <2>3 DEF Leftovers, Deleted, Live
  <2> QED
    BY <2>1, <2>2, <2>3, <2>4
<1>7. obj' # obj
  OBVIOUS
<1> QED
  BY <1>2, <1>3, <1>4, <1>5, <1>6, <1>7
     DEF Reconcile, Work, GetSesame, Validate, EnsureFinalizer, RBACDone,
         SyncStatus, ListInNs, ListAll, RBACDeleted, CheckNamespace,
         DeleteNamespace, EnsureFinalizerRemoved

\* Without meddling, what the worker does not write only the end of a namespace
\* changes.
LEMMA OtherWrites ==
  ASSUME IInv, [Next]_vars, Undisturbed', ~ Reconcile,
         NEW k \in Kinds, NEW n \in Namespaces, obj'[k][n] # obj[k][n]
  PROVE  n \in terminating /\ obj'[k][n] = NoObject
<1> USE DEF cluster, worker, bounds
<1>1. TypeOK /\ obj' # obj
  BY DEF IInv
<1>2. PICK j \in Kinds, m \in Namespaces : DrainNamespace(j, m)
  BY <1>1, DisturbingSteps
     DEF Next, Users, SyncCache, Resync, Crash, CreateSesame, EditSpec,
         DeleteSesame, Edit, vars
<1> QED
  BY <1>1, <1>2 DEF DrainNamespace, TypeOK

\* An Ensure function, failed or not, leaves cur's object, or takes it away to
\* create it anew, and creates one only in a namespace that takes it.
LEMMA EnsureLeaves ==
  ASSUME TypeOK, pc # "idle", cache = obj, NEW k \in Kinds,
         NEW o \in Leftovers(k, Ensure(k)), o # Live(k)
  PROVE  /\ o \in {NoObject, Desired(k)}
         /\ o = NoObject => k = "job" \/ k \in Selecting
         /\ Live(k).owner # cur => Live(k) = NoObject /\ Open(k)
<1>1. Live(k) = Seen(k)
  BY DEF Live, Seen
<1>2. Ensure(k).object # Live(k)
  BY DEF Leftovers
<1>3. Ensure(k).object = NoObject => k = "job" \/ k \in Selecting
  <2>1. Desired(k) # NoObject
    BY NamesAssumption DEF TypeOK, Desired, NoObject
  <2> QED
    BY <1>2, <2>1 DEF Ensure, Create, Update, UpdateGenerated, UpdateCopy, Recreate,
       Stored, Refused, Unchanged, Deleted
<1>4. Live(k).owner # cur => Live(k) = NoObject /\ Open(k)
  BY <1>1, <1>2 DEF Ensure, Create, Unchanged, Refused
<1> QED
  BY <1>2, <1>3, <1>4, EnsureAcquires DEF Leftovers

\* One that does not fail leaves an object there, as the spec that was read asks
\* if it is cur's.
LEMMA EnsureSucceeds ==
  ASSUME IInv, Homemade, Undisturbed, pc # "idle", cache = obj, NEW k \in Kinds,
         Call(k, Ensure(k), FALSE)
  PROVE  /\ obj' = [obj EXCEPT ![k][snap.ns] = Ensure(k).object]
         /\ Ensure(k).object # NoObject
         /\ Ensure(k).object.owner = cur => Ensure(k).object.config = Config(k)
         /\ Live(k) = NoObject => Open(k)
<1>1. /\ obj' = [obj EXCEPT ![k][snap.ns] = Ensure(k).object]
      /\ Ensure(k).err = FALSE
  BY DEF Call
<1>2. Live(k) = Seen(k) /\ cur \in Sesames /\ snap.ns \in Namespaces
  BY DEF Live, Seen, IInv, TypeOK, Specs
<1>3. Seen(k).owner = cur => Seen(k).config # "alien"
  BY <1>2 DEF Homemade, Live
<1>4. Desired(k) # NoObject /\ Desired(k).config = Config(k)
  BY <1>2, NamesAssumption DEF Desired, NoObject
<1>5. CASE Seen(k) = NoObject
  BY <1>1, <1>2, <1>4, <1>5 DEF Ensure, Create, Stored, Refused
<1>6. CASE Seen(k) # NoObject
  BY <1>1, <1>2, <1>3, <1>4, <1>6 DEF Ensure, Unchanged, Update, UpdateGenerated,
     UpdateCopy, Recreate, Stored, Refused
<1> QED
  BY <1>1, <1>5, <1>6

-----------------------------------------------------------------------------
(* BInv is inductive.                                                      *)

LEMMA InitBuilt == Init => BInv
<1> SUFFICES ASSUME Init PROVE BInv
  OBVIOUS
<1>1. \A k \in Kinds, n \in Namespaces :
        /\ obj[k][n] \in {NoObject, StrangersObject}
        /\ k # "namespace" => obj[k][n] = NoObject
  BY DEF Init
<1>2. NoObject.owner \notin Sesames /\ StrangersObject.owner \notin Sesames
  BY NamesAssumption DEF NoObject, StrangersObject
<1>3. Homemade /\ ChildrenOpen
  BY <1>1, <1>2, KindsDiffer DEF Homemade, ChildrenOpen
<1> QED
  BY <1>3, NamesAssumption
     DEF Init, BInv, Scoped, SnapKept, RestBuilt, WorkBuilt, EnsurePcs

\* Each phase starts with its own kinds and only takes from them.
LEMMA ScopedInductive == TypeOK /\ Scoped /\ [Next]_vars => Scoped'
<1> SUFFICES ASSUME TypeOK, Scoped, [Next]_vars PROVE Scoped'
  OBVIOUS
<1> USE DEF cluster, worker, bounds
<1>1. ASSUME NEW s \in Sesames, GetSesame(s) PROVE Scoped'
  BY <1>1 DEF GetSesame, Scoped
<1>2. CASE Validate \/ EnsureFinalizer \/ SyncStatus \/ EnsureFinalizerRemoved \/ Crash
  BY <1>2 DEF Validate, EnsureFinalizer, SyncStatus, EnsureFinalizerRemoved,
     Crash, Finish, Reset, Goto, Scoped
<1>3. CASE EnsureNamespace \/ RBACDone
  BY <1>3 DEF EnsureNamespace, RBACDone, Goto, Scoped
<1>4. CASE EnsureRBAC \/ EnsureChild \/ DeleteChild \/ DeleteRBAC
  <2>1. todo' \subseteq todo
    BY <1>4 DEF EnsureRBAC, EnsureChild, DeleteChild, DeleteRBAC
  <2>2. pc' = pc \/ pc' = "status"
    BY <1>4 DEF EnsureRBAC, EnsureChild, DeleteChild, DeleteRBAC, Goto
  <2> QED
    BY <2>1, <2>2 DEF Scoped
<1>5. CASE ListAll
  BY <1>5 DEF ListAll, Goto, Scoped
<1>6. CASE ListInNs \/ RBACDeleted \/ CheckNamespace \/ DeleteNamespace
  BY <1>6 DEF ListInNs, RBACDeleted, CheckNamespace, DeleteNamespace, Goto, Scoped
<1>7. CASE UNCHANGED <<pc, todo>>
  BY <1>7 DEF Scoped
<1> QED
  BY <1>1, <1>2, <1>3, <1>4, <1>5, <1>6, <1>7
     DEF Next, Reconcile, Work, Users, SyncCache, Resync, CreateSesame, EditSpec,
         DeleteSesame, Edit, Meddle, MeddleNamespace, DrainNamespace, vars

\* The worker writes what this release generates, under the Sesame's name.
LEMMA HomemadeInductive ==
  ASSUME IInv, Scoped, Homemade, [Next]_vars, StaleReads = FALSE
  PROVE  Homemade'
<1> SUFFICES ASSUME Undisturbed', NEW k \in Kinds, NEW n \in Namespaces
             PROVE  /\ k # "namespace" => obj'[k][n] = NoObject \/ obj'[k][n].owner \in Sesames
                    /\ obj'[k][n].owner \in Sesames => obj'[k][n].config # "alien"
  BY DEF Homemade
<1>1. Undisturbed
  BY DisturbingSteps DEF IInv
<1>2. CASE obj'[k][n] = obj[k][n]
  BY <1>1, <1>2 DEF Homemade
<1>3. CASE obj'[k][n] = NoObject
  BY <1>3, NamesAssumption DEF NoObject
<1>4. CASE obj'[k][n] # obj[k][n] /\ obj'[k][n] # NoObject
  <2>1. Reconcile
    BY <1>4, OtherWrites
  <2>2. n = snap.ns /\ pc # "idle" /\ cache = obj /\ obj'[k][n] \in Leftovers(k, Ensure(k))
    BY <1>4, <2>1, WrittenObjects DEF CacheReady
  <2>3. obj'[k][n] = Desired(k)
    BY <1>4, <2>2, EnsureLeaves DEF IInv, Live
  <2>4. cur \in Sesames /\ Config(k) # "alien"
    BY <2>2, NamesAssumption DEF IInv, TypeOK, Specs, Config
  <2> QED
    BY <2>3, <2>4 DEF Desired
<1> QED
  BY <1>2, <1>3, <1>4

\* A namespace stays as long as a live Sesame is in it: the worker deletes only
\* that of a marked one, and they do not share.
LEMMA StaysOpen ==
  ASSUME IInv, TInv, Scoped, [Next]_vars, StaleReads = FALSE, Undisturbed',
         NEW s \in Sesames, phase[s] = "live", NEW n \in Namespaces, spec[s].ns = n,
         Opened(n)
  PROVE  Opened(n)'
<1>typed. TypeOK
  BY DEF IInv
<1>1. pc \in DeletePcs => n # snap.ns
  <2> SUFFICES ASSUME pc \in DeletePcs, n = snap.ns PROVE FALSE
    OBVIOUS
  <2>1. phase[cur] = "deleting" /\ spec[cur].ns = n /\ cur \in Sesames
    BY <1>typed DEF IInv, TypeOK, FinalizerHeld, TInv, PlaceKept, DeletePcs
  <2> QED
    BY <2>1 DEF TInv, Exclusive, Held
<1>2. n \notin terminating'
  <2> SUFFICES ASSUME n \in terminating', n \notin terminating PROVE FALSE
    BY DEF Opened
  <2>1. DeleteNamespace
    <3> USE DEF cluster, worker, bounds
    <3>1. terminating' # terminating
      OBVIOUS
    <3>2. ~ (\E m \in Namespaces : MeddleNamespace(m))
      BY <1>typed, DisturbingSteps
    <3>3. ASSUME NEW j \in Kinds, NEW m \in Namespaces, DrainNamespace(j, m) PROVE FALSE
      BY <3>3 DEF DrainNamespace
    <3> QED
      BY <3>1, <3>2, <3>3
         DEF Next, Reconcile, Work, Users, GetSesame, Validate, EnsureFinalizer,
             EnsureNamespace, EnsureRBAC, RBACDone, EnsureChild, SyncStatus,
             DeleteChild, ListInNs, ListAll, DeleteRBAC, RBACDeleted,
             CheckNamespace, EnsureFinalizerRemoved, SyncCache, Resync, Crash,
             CreateSesame, EditSpec, DeleteSesame, Edit, Meddle, vars
  <2> QED
    BY <1>1, <2>1 DEF DeleteNamespace, DeletePcs
<1>3. obj'["namespace"][n] # NoObject
  <2> SUFFICES ASSUME obj'["namespace"][n] = NoObject PROVE FALSE
    OBVIOUS
  <2>1. obj'["namespace"][n] # obj["namespace"][n] /\ "namespace" \in Kinds
    BY KindsDiffer DEF Opened
  <2>2. Reconcile
    BY <2>1, OtherWrites DEF Opened
  <2>3. /\ n = snap.ns /\ pc # "idle"
        /\ \/ pc \in {"delete", "deleteRbac"}
           \/ CacheReady /\ obj'["namespace"][n] \in Leftovers("namespace", Ensure("namespace"))
    BY <2>1, <2>2, WrittenObjects
  <2>4. cache = obj /\ NoObject \in Leftovers("namespace", Ensure("namespace"))
    BY <1>1, <2>3 DEF CacheReady, DeletePcs
  <2> QED
    BY <1>typed, <2>1, <2>3, <2>4, EnsureLeaves DEF Live, Selecting
<1> QED
  BY <1>2, <1>3 DEF Opened

\* Only the worker makes a Sesame live, and one that has been held by then, or
\* has children, it does not.
LEMMA LiveBefore ==
  ASSUME IInv, TInv, [Next]_vars, NsMutable = FALSE,
         NEW s \in Sesames, phase[s] \in Held, phase'[s] = "live"
  PROVE  phase[s] = "live" /\ spec'[s].ns = spec[s].ns
<1>1. CASE UNCHANGED cluster
  BY <1>1 DEF cluster
<1>2. ASSUME NEW t \in Sesames, ClusterStep(t) PROVE phase[s] = "live" /\ spec'[s].ns = spec[s].ns
  BY <1>2 DEF ClusterStep, TInv, NotYetHeld, Held
<1> QED
  BY <1>1, <1>2, ClusterSteps

\* Children are created in a namespace that takes them.
LEMMA ChildrenOpenInductive ==
  ASSUME IInv, TInv, TInv', Scoped, ChildrenOpen, [Next]_vars,
         StaleReads = FALSE, NsMutable = FALSE
  PROVE  ChildrenOpen'
<1> SUFFICES ASSUME Undisturbed', NEW k \in ChildKinds, NEW n \in Namespaces,
                    NEW s \in Sesames, obj'[k][n].owner = s, phase'[s] = "live"
             PROVE  Opened(n)'
  BY DEF ChildrenOpen
<1>typed. TypeOK /\ k \in Kinds /\ k \notin Clustered
  BY KindsDiffer DEF IInv
<1>1. phase[s] \in Held
  <2>1. CASE obj[k][n].owner = s
    BY <2>1 DEF TInv, Housed
  <2>2. CASE obj[k][n].owner # s
    BY <1>typed, <2>2, AcquiringSteps DEF IInv, FinalizerHeld, Held
  <2> QED
    BY <2>1, <2>2
<1>2. phase[s] = "live" /\ spec[s].ns = n
  <2>1. spec'[s].ns = n
    BY DEF TInv, Housed
  <2> QED
    BY <1>1, <2>1, LiveBefore
<1>3. Opened(n)
  <2>1. CASE obj[k][n].owner = s
    BY <1>2, <2>1, DisturbingSteps, <1>typed DEF ChildrenOpen
  <2>2. CASE obj[k][n].owner # s
    <3>1. s = cur /\ n = snap.ns /\ pc \in EnsurePcs
      BY <1>typed, <2>2, AcquiringSteps
    <3>2. obj'[k][n] # obj[k][n] /\ obj'[k][n] # NoObject
      BY <2>2, NamesAssumption DEF NoObject
    <3>3. Reconcile
      BY <1>typed, <3>2, OtherWrites
    <3>4. cache = obj /\ pc # "idle" /\ obj'[k][n] \in Leftovers(k, Ensure(k))
      BY <1>typed, <3>1, <3>2, <3>3, WrittenObjects DEF CacheReady
    <3>5. Open(k)
      BY <1>typed, <2>2, <3>1, <3>2, <3>4, EnsureLeaves DEF Live
    <3> QED
      BY <1>typed, <3>1, <3>5 DEF Open, Opened
  <2> QED
    BY <2>1, <2>2
<1> QED
  BY <1>2, <1>3, StaysOpen

\* A Sesame out of the queue is the one that was read.
LEMMA SnapKeptInductive ==
  ASSUME IInv, IInv', SnapKept, [Next]_vars
  PROVE  SnapKept'
<1> SUFFICES ASSUME NEW s \in Sesames, s \notin queue', s = cur' PROVE spec'[s] = snap'
  BY DEF SnapKept
<1>typed. TypeOK /\ TypeOK'
  BY DEF IInv
<1>1. spec'[s] = spec[s] /\ phase'[s] = phase[s]
  BY <1>typed, WritesQueue
<1>2. pc' # "idle"
  BY <1>typed, NamesAssumption DEF TypeOK
<1>3. CASE UNCHANGED <<cur, snap>>
  <2>1. CASE s \in queue
    <3>1. GetSesame(s)
      BY <1>2, <2>1, QueueSteps DEF Crash, Reset
    <3> QED
      BY <1>1, <1>2, <3>1 DEF GetSesame, worker
  <2> QED
    BY <1>1, <1>3, <2>1 DEF SnapKept
<1>4. CASE \E t \in Sesames : cur' = t /\ snap' = spec[t]
  BY <1>1, <1>4
<1> QED
  BY <1>2, <1>3, <1>4, WorkerSteps DEF WorkerStep

\* A live Sesame whose children are there has its namespace: without strangers
\* they are its own, for it has the namespace to itself.
LEMMA BuiltOpen ==
  ASSUME IInv, TInv, Homemade, ChildrenOpen, Undisturbed,
         NEW s \in Sesames, phase[s] = "live", NEW k \in ChildKinds,
         obj[k][spec[s].ns] # NoObject
  PROVE  Opened(spec[s].ns)
<1> DEFINE n == spec[s].ns
<1>1. n \in Namespaces
  BY DEF IInv, TypeOK, Specs
<1>2. obj[k][n].owner \in Sesames
  BY <1>1, KindsDiffer DEF Homemade
<1>3. obj[k][n].owner = s
  BY <1>1, <1>2 DEF TInv, Housed, Exclusive, Held
<1> QED
  BY <1>1, <1>3 DEF ChildrenOpen

\* A Sesame that stays out of the queue was there before, or has just been read.
LEMMA StaysOut ==
  ASSUME TypeOK, [Next]_vars, NEW s \in Sesames, s \notin queue', phase'[s] # "none",
         ~ (s = cur' /\ GetSesame(s))
  PROVE  s \notin queue
<1> SUFFICES ASSUME s \in queue PROVE FALSE
  OBVIOUS
<1>1. phase'[s] = phase[s]
  BY WritesQueue
<1>2. ~ Crash
  BY <1>1 DEF Crash, Present, cluster
<1>3. GetSesame(s)
  BY <1>2, QueueSteps
<1> QED
  BY <1>1, <1>3 DEF GetSesame

\* The worker lets go of a live Sesame without queueing it when it has dealt with
\* all kinds and nothing failed. After that it only writes to other namespaces.
LEMMA RestBuiltInductive ==
  ASSUME IInv, IInv', TInv, BInv, [Next]_vars
  PROVE  RestBuilt'
<1> SUFFICES ASSUME Undisturbed', NEW s \in Sesames, s \notin queue',
                    phase'[s] = "live", s # cur'
             PROVE  Built(s)'
  BY DEF RestBuilt
<1>typed. TypeOK /\ TypeOK' /\ Undisturbed
  BY DisturbingSteps DEF IInv
<1>1. phase[s] = "live" /\ spec'[s] = spec[s] /\ spec[s].ns \in Namespaces
  BY <1>typed, WritesQueue DEF TypeOK, Specs
<1>2. s \notin queue
  BY <1>typed, StaysOut
<1>3. CASE s # cur
  <2>1. Built(s)
    BY <1>typed, <1>1, <1>2, <1>3 DEF BInv, RestBuilt
  <2>2. Opened(spec[s].ns)
    <3>1. PICK k \in ChildKinds : TRUE
      BY KindsAssumption
    <3> QED
      BY <1>typed, <1>1, <2>1, <3>1, KindsDiffer, BuiltOpen DEF Built, BInv
  <2>3. ASSUME NEW k \in Kinds, obj'[k][spec[s].ns] # obj[k][spec[s].ns] PROVE FALSE
    <3>1. CASE Reconcile
      <4>1. spec[s].ns = snap.ns /\ pc # "idle" /\ pc \in EnsurePcs \cup DeletePcs
        BY <1>1, <2>3, <3>1, WrittenObjects DEF BInv, EnsurePcs, DeletePcs
      <4>2. cur \in Sesames /\ phase[cur] \in Held /\ spec[cur].ns = spec[s].ns
        BY <1>typed, <4>1 DEF TypeOK, IInv, FinalizerHeld, TInv, PlaceKept, Held
      <4> QED
        BY <1>1, <1>3, <4>2 DEF TInv, Exclusive, Held
    <3>2. CASE ~ Reconcile
      BY <1>1, <2>2, <2>3, <3>2, OtherWrites DEF Opened
    <3> QED
      BY <3>1, <3>2
  <2> QED
    BY <1>1, <2>1, <2>3 DEF Built
<1>4. CASE s = cur
  <2>1. pc # "idle" /\ cur' # cur
    BY <1>typed, <1>4, NamesAssumption DEF TypeOK
  <2>2. pc' = "idle"
    BY <2>1, WorkerSteps DEF WorkerStep
  <2>3. SyncStatus /\ pc = "status" /\ ~ failed
    BY <1>1, <1>4, <2>1, <2>2, FinishingSteps DEF Present
  <2>4. Done = Kinds /\ Done \cap ChildKinds # {}
    BY <2>3, KindsAssumption, KindsDiffer DEF Done, Kinds
  <2>5. snap = spec[s] /\ \A k \in Kinds : Fits(k, obj[k][snap.ns], s, snap.config)
    BY <1>typed, <1>1, <1>2, <1>4, <2>3, <2>4 DEF BInv, SnapKept, WorkBuilt, EnsurePcs
  <2>6. obj' = obj
    BY <2>3 DEF SyncStatus
  <2> QED
    BY <1>1, <2>5, <2>6 DEF Built, Fits
<1> QED
  BY <1>3, <1>4

\* How the worker gets to a point, on the way of building, where nothing failed.
LEMMA EnsureSteps ==
  ASSUME [Next]_vars, pc' \in EnsurePcs, ~ failed'
  PROVE  \/ pc' = "namespace"
         \/ EnsureNamespace \/ EnsureRBAC \/ RBACDone \/ EnsureChild
         \/ UNCHANGED <<pc, cur, snap, todo, failed>> /\ ~ Reconcile
<1> USE DEF cluster, worker, bounds
<1>1. CASE Reconcile
  <2>1. ASSUME NEW s \in Sesames, GetSesame(s) PROVE FALSE
    BY <2>1 DEF GetSesame, EnsurePcs
  <2>2. CASE Validate
    BY <2>2 DEF Validate, Finish, Reset, Goto, EnsurePcs
  <2>3. CASE EnsureFinalizer \/ SyncStatus \/ EnsureFinalizerRemoved
    BY <2>3 DEF EnsureFinalizer, SyncStatus, EnsureFinalizerRemoved, Finish, Reset,
       EnsurePcs
  <2>4. CASE DeleteChild \/ ListInNs \/ ListAll \/ DeleteRBAC \/ RBACDeleted
             \/ CheckNamespace \/ DeleteNamespace
    BY <2>4 DEF DeleteChild, ListInNs, ListAll, DeleteRBAC, RBACDeleted,
       CheckNamespace, DeleteNamespace, Goto, EnsurePcs
  <2> QED
    BY <1>1, <2>1, <2>2, <2>3, <2>4 DEF Reconcile, Work
<1>2. CASE ~ Reconcile
  BY <1>2 DEF Next, Users, SyncCache, Resync, Crash, Reset, CreateSesame, EditSpec,
     DeleteSesame, Edit, Meddle, MeddleNamespace, DrainNamespace, vars, EnsurePcs
<1> QED
  BY <1>1, <1>2

\* A call that does not fail makes its kind fit and leaves the others alone.
LEMMA CallFits ==
  ASSUME IInv, Homemade, Undisturbed, pc # "idle", cache = obj, NEW k \in Kinds,
         Call(k, Ensure(k), FALSE)
  PROVE  /\ Fits(k, obj'[k][snap.ns], cur, snap.config)
         /\ \A j \in Kinds \ {k} : obj'[j] = obj[j]
<1>1. snap.ns \in Namespaces /\ obj \in [Kinds -> [Namespaces -> Objects]]
  BY DEF IInv, TypeOK, Specs
<1>2. /\ obj' = [obj EXCEPT ![k][snap.ns] = Ensure(k).object]
      /\ Ensure(k).object # NoObject
      /\ Ensure(k).object.owner = cur => Ensure(k).object.config = Config(k)
  BY EnsureSucceeds
<1>3. obj'[k][snap.ns] = Ensure(k).object /\ \A j \in Kinds \ {k} : obj'[j] = obj[j]
  BY <1>1, <1>2
<1> QED
  BY <1>2, <1>3 DEF Fits, Config

\* Each step of a reconcile adds a kind, and nobody takes one away as long as the
\* namespace is there.
LEMMA WorkBuiltInductive ==
  ASSUME IInv, IInv', TInv, BInv, [Next]_vars, StaleReads = FALSE
  PROVE  WorkBuilt'
<1> SUFFICES ASSUME Undisturbed', pc' \in EnsurePcs, ~ failed', phase'[cur'] = "live",
                    cur' \notin queue'
             PROVE  /\ Opened(snap.ns)' =>
                          \A k \in Done' : Fits(k, obj'[k][snap'.ns], cur', snap'.config)
                    /\ Done' \cap ChildKinds # {} => Opened(snap.ns)'
  BY DEF WorkBuilt
<1>typed. TypeOK /\ TypeOK' /\ Undisturbed /\ Scoped /\ Homemade /\ ChildrenOpen
  BY DisturbingSteps DEF IInv, BInv
<1>1. CASE pc' = "namespace"
  BY <1>1, KindsDiffer DEF Done
<1>2. ASSUME cur' = cur, snap' = snap, pc \in EnsurePcs, ~ failed,
             ~ (\E t \in Sesames : GetSesame(t))
      PROVE  /\ cur \in Sesames /\ phase[cur] = "live" /\ snap.ns \in Namespaces
             /\ spec[cur] = snap
             /\ Opened(snap.ns) => \A k \in Done : Fits(k, obj[k][snap.ns], cur, snap.config)
             /\ Done \cap ChildKinds # {} => Opened(snap.ns)
  <2>1. cur \in Sesames /\ snap.ns \in Namespaces
    BY <1>typed, <1>2 DEF TypeOK, Specs, EnsurePcs
  <2>2. phase[cur] = "live" /\ spec'[cur] = spec[cur]
    BY <1>typed, <1>2, <2>1, WritesQueue
  <2>3. cur \notin queue
    BY <1>typed, <1>2, <2>1, StaysOut
  <2> QED
    BY <1>typed, <1>2, <2>1, <2>2, <2>3 DEF BInv, SnapKept, WorkBuilt
<1>3. CASE EnsureNamespace
  <2>0. PICK err \in BOOLEAN : Call("namespace", Ensure("namespace"), err) /\ failed' = err
    BY <1>3 DEF EnsureNamespace
  <2>1. /\ Call("namespace", Ensure("namespace"), FALSE) /\ CacheReady
        /\ pc = "namespace" /\ pc' = "rbac" /\ todo' = RbacKinds
        /\ cur' = cur /\ snap' = snap
    <3>1. err = FALSE
      BY <2>0
    <3> QED
      BY <1>3, <2>0, <3>1 DEF EnsureNamespace, Goto
  <2>2. Done' = {"namespace"}
    BY <2>1, KindsDiffer DEF Done
  <2>3. Fits("namespace", obj'["namespace"][snap.ns], cur, snap.config)
    BY <1>typed, <2>1, KindsDiffer, CallFits DEF CacheReady
  <2> QED
    BY <2>1, <2>2, <2>3, KindsDiffer
<1>4. CASE EnsureRBAC
  <2>1. PICK k \in todo : Call(k, Ensure(k), FALSE) /\ todo' = todo \ {k}
    BY <1>4 DEF EnsureRBAC
  <2>2. /\ pc = "rbac" /\ pc' = "rbac" /\ CacheReady /\ ~ failed
        /\ cur' = cur /\ snap' = snap /\ terminating' = terminating
        /\ k \in Kinds /\ k # "namespace"
    BY <1>4, <1>typed, <2>1, KindsDiffer DEF EnsureRBAC, Scoped
  <2>3. Opened(snap.ns) => \A j \in Done : Fits(j, obj[j][snap.ns], cur, snap.config)
    BY <1>2, <2>2 DEF GetSesame, EnsurePcs
  <2>4. Done' \subseteq Done \cup {k} /\ Done \subseteq Kinds /\ Done' \cap ChildKinds = {}
    BY <2>1, <2>2, KindsDiffer DEF Done
  <2>5. /\ Fits(k, obj'[k][snap.ns], cur, snap.config)
        /\ \A j \in Kinds \ {k} : obj'[j] = obj[j]
    BY <1>typed, <2>1, <2>2, CallFits DEF CacheReady
  <2>6. Opened(snap.ns)' => Opened(snap.ns)
    BY <2>2, <2>5, KindsDiffer DEF Opened
  <2> QED
    BY <2>2, <2>3, <2>4, <2>5, <2>6
<1>5. CASE RBACDone
  <2>1. /\ pc = "rbac" /\ pc' = "children" /\ todo = {} /\ todo' = ChildKinds /\ ~ failed
        /\ UNCHANGED <<cur, snap, obj, terminating>>
    BY <1>5 DEF RBACDone, Goto, cluster
  <2>2. Opened(snap.ns) => \A j \in Done : Fits(j, obj[j][snap.ns], cur, snap.config)
    BY <1>2, <2>1 DEF GetSesame, EnsurePcs
  <2>3. Done' = Done /\ Done' \cap ChildKinds = {}
    BY <2>1, KindsDiffer DEF Done
  <2> QED
    BY <2>1, <2>2, <2>3 DEF Opened
<1>6. CASE EnsureChild
  <2>1. PICK k \in todo : /\ Call(k, Ensure(k), FALSE) /\ todo' = todo \ {k}
                          /\ pc' = IF todo = {k} THEN "status" ELSE "children"
    BY <1>6 DEF EnsureChild, Goto
  <2>2. /\ pc = "children" /\ CacheReady /\ ~ failed
        /\ cur' = cur /\ snap' = snap /\ terminating' = terminating
        /\ k \in ChildKinds /\ k \in Kinds /\ k # "namespace" /\ k \notin Clustered
    BY <1>6, <1>typed, <2>1, KindsDiffer DEF EnsureChild, Goto, Scoped
  <2>3. /\ spec[cur] = snap /\ cur \in Sesames /\ phase[cur] = "live"
        /\ Opened(snap.ns) => \A j \in Done : Fits(j, obj[j][snap.ns], cur, snap.config)
    BY <1>2, <2>2 DEF GetSesame, EnsurePcs
  <2>4. Done' \subseteq Done \cup {k} /\ Done \subseteq Kinds
    BY <2>1, <2>2, KindsDiffer DEF Done, Kinds
  <2>5. /\ Fits(k, obj'[k][snap.ns], cur, snap.config)
        /\ \A j \in Kinds \ {k} : obj'[j] = obj[j]
    BY <1>typed, <2>1, <2>2, CallFits DEF CacheReady
  <2>6. Opened(snap.ns)
    <3>1. CASE Live(k) = NoObject
      <4>1. Open(k)
        BY <1>typed, <2>1, <2>2, <3>1, EnsureSucceeds DEF CacheReady
      <4> QED
        BY <2>2, <4>1 DEF Open, Opened
    <3>2. CASE Live(k) # NoObject
      BY <1>typed, <2>2, <2>3, <3>2, BuiltOpen DEF Live
    <3> QED
      BY <3>1, <3>2
  <2>7. Opened(snap.ns)'
    BY <2>2, <2>5, <2>6, KindsDiffer DEF Opened
  <2>8. \A j \in Done' : Fits(j, obj'[j][snap.ns], cur, snap.config)
    BY <2>3, <2>4, <2>5, <2>6
  <2> QED
    BY <2>2, <2>7, <2>8
<1>7. CASE UNCHANGED <<pc, cur, snap, todo, failed>> /\ ~ Reconcile
  <2>1. ~ (\E t \in Sesames : GetSesame(t))
    BY <1>7 DEF Reconcile
  <2>2. /\ cur \in Sesames /\ phase[cur] = "live" /\ snap.ns \in Namespaces
        /\ spec[cur] = snap
        /\ Opened(snap.ns) => \A k \in Done : Fits(k, obj[k][snap.ns], cur, snap.config)
        /\ Done \cap ChildKinds # {} => Opened(snap.ns)
    BY <1>2, <1>7, <2>1
  <2> SUFFICES ASSUME NEW n \in Namespaces, n = snap.ns
               PROVE  /\ Opened(n)' =>
                           \A k \in Done : Fits(k, obj'[k][n], cur, snap.config)
                      /\ Done \cap ChildKinds # {} => Opened(n)'
    BY <1>7, <2>2 DEF Done, Opened
  <2>3. Opened(n)' => Opened(n)
    <3> SUFFICES ASSUME Opened(n)' PROVE Opened(n)
      OBVIOUS
    <3>1. obj'["namespace"][n] # NoObject /\ n \notin terminating'
      BY DEF Opened
    <3>2. obj'["namespace"][n] = obj["namespace"][n]
      BY <1>7, <3>1, KindsDiffer, OtherWrites
    <3>3. n \notin terminating
      <4> SUFFICES ASSUME n \in terminating PROVE FALSE
        OBVIOUS
      <4>1. PICK k \in Kinds, m \in Namespaces : DrainNamespace(k, m)
        BY <1>7, <1>typed, <3>1, DisturbingSteps
           DEF Next, Users, SyncCache, Resync, Crash, CreateSesame, EditSpec,
               DeleteSesame, Edit, vars, cluster, worker, bounds
      <4> QED
        BY <1>typed, <3>1, <4>1, KindsDiffer DEF DrainNamespace, TypeOK
    <3> QED
      BY <3>1, <3>2, <3>3 DEF Opened
  <2>4. ASSUME NEW k \in Done, Opened(n)' PROVE Fits(k, obj'[k][n], cur, snap.config)
    <3>1. k \in Kinds /\ Opened(n) /\ Fits(k, obj[k][n], cur, snap.config)
      BY <2>2, <2>3, <2>4 DEF Done
    <3>2. obj'[k][n] = obj[k][n]
      BY <1>7, <3>1, OtherWrites DEF Opened
    <3> QED
      BY <3>1, <3>2
  <2>5. Opened(n) => Opened(n)'
    BY <1>typed, <1>7, <2>2, StaysOpen
  <2> QED
    BY <2>2, <2>4, <2>5
<1> QED
  BY <1>1, <1>3, <1>4, <1>5, <1>6, <1>7, EnsureSteps

-----------------------------------------------------------------------------
(* At rest a Sesame is built.                                              *)

\* With current caches, namespaces that users do not edit, and objects nobody else
\* touches, every finalized Sesame that is neither queued nor being reconciled is
\* built as its spec is now, whatever failed, crashed or was edited before.
THEOREM RestedIsBuilt ==
  ASSUME StaleReads = FALSE, NsMutable = FALSE
  PROVE  Spec => []RestIsBuilt
<1>1. /\ IInv /\ Cleaned /\ TInv
      /\ IInv' /\ TInv'
      /\ BInv /\ [Next]_vars
      => BInv'
  BY ScopedInductive, HomemadeInductive, ChildrenOpenInductive, SnapKeptInductive,
     RestBuiltInductive, WorkBuiltInductive DEF BInv, IInv
<1>2. BInv => RestIsBuilt
  BY DEF BInv, RestBuilt, RestIsBuilt, Undisturbed
<1> QED
  BY <1>1, <1>2, InitBuilt, TenancyInvariant, PTL DEF Spec

=============================================================================
