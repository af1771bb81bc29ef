------------------------ MODULE SesameTenancyProofs ------------------------
(***************************************************************************)
(* With current caches, and with namespaces that users do not edit, two    *)
(* Sesames never share a namespace, and SesameOperator implements          *)
(* SesameTenancy: theorems for any number of Sesames, namespaces and kinds *)
(* and any bounds.                                                         *)
(***************************************************************************)
EXTENDS SesameOperatorProofs, FiniteSetTheorems

-----------------------------------------------------------------------------
(* The inductive invariant, on top of IInv and Cleaned.                    *)

Held == {"live", "deleting"}

\* Finalizers are given to one Sesame per namespace.
Exclusive ==
    \A s, t \in Sesames :
        s # t /\ phase[s] \in Held /\ phase[t] \in Held =>
            spec[s].ns # spec[t].ns

\* A Sesame that was read without finalizer, and not written since, has none.
NotYetHeld ==
    fresh /\ (pc = "finalize" \/ (pc = "validate" /\ ~ finalized)) =>
        phase[cur] = "new"

\* What validation found out is still true when the finalizer is added: only
\* the worker adds finalizers, and it is one.
Validated ==
    pc = "finalize" /\ fresh =>
        \A t \in Sesames \ {cur} : phase[t] \in Held => spec[t].ns # snap.ns

\* The namespace a held Sesame is built or torn down in is the one of its spec,
\* whatever else was edited.
PlaceKept ==
    pc \in EnsurePcs \cup DeletePcs \/ (pc = "validate" /\ finalized) =>
        spec[cur].ns = snap.ns

\* A Sesame has children only where and while it is held.
Housed ==
    \A k \in ChildKinds, n \in Namespaces, s \in Sesames :
        obj[k][n].owner = s => phase[s] \in Held /\ spec[s].ns = n

TInv == Exclusive /\ NotYetHeld /\ Validated /\ PlaceKept /\ Housed

-----------------------------------------------------------------------------
(* What a step can do to the Sesames and to the worker.                    *)

\* A write to one Sesame, by a user or by the worker. None leaves the worker's
\* copy of that Sesame current.
ClusterStep(s) ==
    /\ UNCHANGED obj
    /\ \A t \in Sesames \ {s} : phase'[t] = phase[t] /\ spec'[t] = spec[t]
    /\ s = cur => ~ fresh'
    /\ \/ phase[s] = "none" /\ phase'[s] = "new"
       \/ phase[s] # "none" /\ phase'[s] = phase[s] /\ spec'[s].ns = spec[s].ns
       \/ phase[s] = "new" /\ phase'[s] = "none"
       \/ phase[s] = "live" /\ phase'[s] = "deleting" /\ spec'[s] = spec[s]
       \/ /\ s = cur /\ pc = "finalize" /\ fresh /\ pc' = "idle"
          /\ phase'[s] = "live" /\ spec'[s] = spec[s]
       \/ phase[s] = "deleting" /\ phase'[s] = "none" /\ pc' = "idle"

\* Sesames are written one at a time, and with nothing else.
LEMMA ClusterSteps ==
  ASSUME IInv, [Next]_vars, NsMutable = FALSE
  PROVE  UNCHANGED cluster \/ \E s \in Sesames : ClusterStep(s)
<1> USE DEF cluster, worker, bounds
<1>typed. TypeOK
  BY DEF IInv
<1>1. CASE EnsureFinalizer
  <2>1. CASE fresh /\ phase' = [phase EXCEPT ![cur] = "live"] /\ Finish(TRUE)
    <3>1. cur \in Sesames
      BY <1>1, <1>typed DEF EnsureFinalizer, TypeOK
    <3>2. ClusterStep(cur)
      BY <1>1, <1>typed, <2>1, <3>1
         DEF EnsureFinalizer, Finish, Reset, ClusterStep, TypeOK
    <3> QED
      BY <3>1, <3>2
  <2> QED
    BY <1>1, <2>1 DEF EnsureFinalizer
<1>2. CASE EnsureFinalizerRemoved
  <2>1. CASE /\ fresh /\ phase' = [phase EXCEPT ![cur] = "none"]
             /\ spec' = [spec EXCEPT ![cur] = Nil] /\ Finish(TRUE)
    <3>1. cur \in Sesames /\ phase[cur] = "deleting"
      BY <1>2, <1>typed DEF EnsureFinalizerRemoved, TypeOK, IInv, FinalizerHeld,
         DeletePcs
    <3>2. ClusterStep(cur)
      BY <1>2, <1>typed, <2>1, <3>1
         DEF EnsureFinalizerRemoved, Finish, Reset, ClusterStep, TypeOK
    <3> QED
      BY <3>1, <3>2
  <2> QED
    BY <1>2, <2>1 DEF EnsureFinalizerRemoved
<1>3. ASSUME NEW s \in Sesames, CreateSesame(s) PROVE ClusterStep(s)
  BY <1>3, <1>typed DEF CreateSesame, Edit, Touch, ClusterStep, TypeOK
<1>4. ASSUME NEW s \in Sesames, EditSpec(s) PROVE ClusterStep(s)
  BY <1>4, <1>typed DEF EditSpec, Edit, Touch, ClusterStep, TypeOK
<1>5. ASSUME NEW s \in Sesames, DeleteSesame(s) PROVE ClusterStep(s)
  BY <1>5, <1>typed DEF DeleteSesame, Edit, Touch, ClusterStep, TypeOK
<1> QED
  BY <1>1, <1>2, <1>3, <1>4, <1>5
     DEF Next, Reconcile, Work, Users, GetSesame, Validate, EnsureNamespace,
         EnsureRBAC, RBACDone, EnsureChild, SyncStatus, DeleteChild, ListInNs,
         ListAll, DeleteRBAC, RBACDeleted, CheckNamespace, DeleteNamespace,
         SyncCache, Resync, Crash, Meddle, MeddleNamespace, DrainNamespace, vars

\* How the worker gets from one of its places to the next.
WorkerStep ==
    \/ /\ UNCHANGED <<pc, cur, snap, finalized>>
       /\ fresh' => fresh
    \/ pc' = "idle"
    \/ \E s \in Sesames :
          /\ pc = "idle"
          /\ cur' = s /\ snap' = spec[s] /\ finalized' = (phase[s] # "new")
          /\ pc' = IF phase[s] = "deleting" THEN "delete" ELSE "validate"
          /\ UNCHANGED cluster
    \/ /\ pc = "validate" /\ ~ OtherSesamesExistInSpecNs(cur, snap.ns)
       /\ pc' = IF finalized THEN "namespace" ELSE "finalize"
       /\ UNCHANGED <<cluster, cur, snap, finalized, fresh>>
    \/ /\ {pc, pc'} \subseteq EnsurePcs \/ {pc, pc'} \subseteq DeletePcs
       /\ UNCHANGED <<cluster, cur, snap, finalized, fresh>>

LEMMA WorkerSteps == [Next]_vars => WorkerStep
<1> SUFFICES ASSUME [Next]_vars PROVE WorkerStep
  OBVIOUS
<1> USE DEF cluster, worker, bounds
<1>1. ASSUME NEW s \in Sesames, GetSesame(s) PROVE WorkerStep
  BY <1>1 DEF GetSesame, WorkerStep
<1>2. CASE Validate
  BY <1>2 DEF Validate, Finish, Reset, Goto, WorkerStep
<1>3. CASE EnsureFinalizer \/ SyncStatus \/ EnsureFinalizerRemoved \/ Crash
  BY <1>3 DEF EnsureFinalizer, SyncStatus, EnsureFinalizerRemoved, Crash,
     Finish, Reset, WorkerStep
<1>4. CASE EnsureNamespace \/ EnsureRBAC \/ RBACDone \/ EnsureChild
  BY <1>4 DEF EnsureNamespace, EnsureRBAC, RBACDone, EnsureChild, Goto,
     WorkerStep, EnsurePcs
<1>5. CASE DeleteChild \/ ListInNs \/ ListAll \/ DeleteRBAC \/ RBACDeleted
           \/ CheckNamespace \/ DeleteNamespace
  BY <1>5 DEF DeleteChild, ListInNs, ListAll, DeleteRBAC, RBACDeleted,
     CheckNamespace, DeleteNamespace, Goto, WorkerStep, DeletePcs
<1>6. ASSUME NEW s \in Sesames, CreateSesame(s) \/ EditSpec(s) \/ DeleteSesame(s)
      PROVE  WorkerStep
  BY <1>6 DEF CreateSesame, EditSpec, DeleteSesame, Edit, Touch, WorkerStep
<1>7. CASE UNCHANGED worker
  BY <1>7 DEF WorkerStep
<1> QED
  BY <1>1, <1>2, <1>3, <1>4, <1>5, <1>6, <1>7
     DEF Next, Reconcile, Work, Users, SyncCache, Resync, Meddle,
         MeddleNamespace, DrainNamespace, vars

-----------------------------------------------------------------------------
(* TInv is inductive.                                                      *)

\* No Sesame, no object that belongs to one.
LEMMA InitTenancy == Init => TInv
<1> SUFFICES ASSUME Init PROVE TInv
  OBVIOUS
<1>1. \A k \in ChildKinds, n \in Namespaces : obj[k][n].owner \notin Sesames
  <2>1. \A k \in Kinds, n \in Namespaces : obj[k][n] \in {NoObject, StrangersObject}
    BY DEF Init
  <2>2. NoObject.owner \notin Sesames /\ StrangersObject.owner \notin Sesames
    BY NamesAssumption DEF NoObject, StrangersObject
  <2> QED
    BY <2>1, <2>2 DEF Kinds
<1> QED
  BY <1>1 DEF Init, TInv, Exclusive, NotYetHeld, Validated, PlaceKept, Housed,
     Held, EnsurePcs, DeletePcs

\* The Sesame being reconciled stays where it was read to be.
LEMMA PlaceKeptInductive ==
  ASSUME IInv, PlaceKept, [Next]_vars, NsMutable = FALSE
  PROVE  PlaceKept'
<1> SUFFICES ASSUME pc' \in EnsurePcs \cup DeletePcs \/ (pc' = "validate" /\ finalized')
             PROVE  spec'[cur'].ns = snap'.ns
  BY DEF PlaceKept
<1> USE DEF cluster
<1>1. pc' # "idle" /\ pc' # "finalize"
  BY DEF EnsurePcs, DeletePcs
<1>2. CASE UNCHANGED <<pc, cur, snap, finalized>>
  <2>1. spec[cur].ns = snap.ns /\ phase[cur] \in Held /\ cur \in Sesames
    BY <1>2 DEF PlaceKept, IInv, TypeOK, FinalizerHeld, Held, EnsurePcs, DeletePcs
  <2>2. ASSUME NEW s \in Sesames, ClusterStep(s) PROVE spec'[cur].ns = spec[cur].ns
    BY <1>1, <2>1, <2>2 DEF ClusterStep, Held
  <2> QED
    BY <1>2, <2>1, <2>2, ClusterSteps
<1>3. CASE \E s \in Sesames :
              cur' = s /\ snap' = spec[s] /\ UNCHANGED cluster
  BY <1>3
<1>4. CASE /\ pc = "validate" /\ UNCHANGED <<cluster, cur, snap, finalized>>
           /\ pc' = IF finalized THEN "namespace" ELSE "finalize"
  BY <1>1, <1>4 DEF PlaceKept
<1>5. CASE /\ pc \in EnsurePcs \cup DeletePcs
           /\ UNCHANGED <<cluster, cur, snap, finalized>>
  BY <1>5 DEF PlaceKept
<1> QED
  BY <1>1, <1>2, <1>3, <1>4, <1>5, WorkerSteps DEF WorkerStep

\* A user's write makes the copy outdated, and no other step matters.
LEMMA NotYetHeldInductive ==
  ASSUME IInv, NotYetHeld, [Next]_vars, NsMutable = FALSE
  PROVE  NotYetHeld'
<1> SUFFICES ASSUME fresh',
                    pc' = "finalize" \/ (pc' = "validate" /\ ~ finalized')
             PROVE  phase'[cur'] = "new"
  BY DEF NotYetHeld
<1> USE DEF cluster
<1>1. CASE UNCHANGED <<pc, cur, snap, finalized>> /\ (fresh' => fresh)
  <2>1. phase[cur] = "new" /\ cur \in Sesames
    BY <1>1 DEF NotYetHeld, IInv, TypeOK
  <2>2. ASSUME NEW s \in Sesames, ClusterStep(s) PROVE phase'[cur] = phase[cur]
    BY <1>1, <2>1, <2>2 DEF ClusterStep
  <2> QED
    BY <1>1, <2>1, <2>2, ClusterSteps
<1>2. CASE \E s \in Sesames :
              /\ cur' = s /\ snap' = spec[s] /\ finalized' = (phase[s] # "new")
              /\ pc' = IF phase[s] = "deleting" THEN "delete" ELSE "validate"
              /\ UNCHANGED cluster
  BY <1>2
<1>3. CASE /\ pc = "validate" /\ UNCHANGED <<cluster, cur, snap, finalized, fresh>>
           /\ pc' = IF finalized THEN "namespace" ELSE "finalize"
  BY <1>3 DEF NotYetHeld
<1> QED
  BY <1>1, <1>2, <1>3, WorkerSteps DEF WorkerStep, EnsurePcs, DeletePcs

\* Validation sees every held Sesame, since the one it validates is listed too.
LEMMA ValidatedInductive ==
  ASSUME IInv, Validated, [Next]_vars, NsMutable = FALSE
  PROVE  Validated'
<1> SUFFICES ASSUME pc' = "finalize", fresh', NEW t \in Sesames \ {cur'},
                    phase'[t] \in Held
             PROVE  spec'[t].ns # snap'.ns
  BY DEF Validated
<1> USE DEF cluster
<1>1. CASE UNCHANGED <<pc, cur, snap, finalized>> /\ (fresh' => fresh)
  <2>1. phase[t] \in Held => spec[t].ns # snap.ns
    BY <1>1 DEF Validated
  <2>2. ASSUME NEW s \in Sesames, ClusterStep(s)
        PROVE  phase[t] \in Held /\ spec'[t].ns = spec[t].ns
    BY <1>1, <2>2 DEF ClusterStep, Held
  <2> QED
    BY <1>1, <2>1, <2>2, ClusterSteps
<1>2. CASE /\ pc = "validate" /\ ~ OtherSesamesExistInSpecNs(cur, snap.ns)
           /\ UNCHANGED <<cluster, cur, snap, finalized, fresh>>
  <2>1. cur \in Present /\ t \in Present /\ t # cur
    BY <1>2 DEF IInv, SnapshotCurrent, TypeOK, Present, Held
  <2>2. OtherSesamesExist(cur)
    BY <2>1 DEF OtherSesamesExist
  <2> QED
    BY <1>2, <2>1, <2>2 DEF OtherSesamesExistInSpecNs
<1> QED
  BY <1>1, <1>2, WorkerSteps DEF WorkerStep, EnsurePcs, DeletePcs

\* Finalizers come one at a time, after a validation that still holds.
LEMMA ExclusiveInductive ==
  ASSUME IInv, Exclusive, Validated, [Next]_vars, NsMutable = FALSE
  PROVE  Exclusive'
<1> SUFFICES ASSUME NEW s \in Sesames, ClusterStep(s) PROVE Exclusive'
  BY ClusterSteps DEF Exclusive, cluster
<1>1. CASE /\ s = cur /\ pc = "finalize" /\ fresh
           /\ phase'[s] = "live" /\ spec'[s] = spec[s]
  <2>1. spec[s] = snap
    BY <1>1 DEF IInv, SnapshotCurrent
  <2>2. \A t \in Sesames \ {s} : phase'[t] \in Held => spec'[t].ns # spec'[s].ns
    BY <1>1, <2>1 DEF Validated, ClusterStep
  <2> QED
    BY <2>2 DEF Exclusive, ClusterStep
<1>2. CASE phase'[s] \in Held => phase[s] \in Held /\ spec'[s].ns = spec[s].ns
  BY <1>2 DEF Exclusive, ClusterStep
<1> QED
  BY <1>1, <1>2 DEF ClusterStep, Held

\* Objects come to held Sesames only, and stay no longer than their finalizer.
LEMMA HousedInductive ==
  ASSUME IInv, Cleaned, PlaceKept, Housed, [Next]_vars, NsMutable = FALSE
  PROVE  Housed'
<1> SUFFICES ASSUME NEW k \in ChildKinds, NEW n \in Namespaces, NEW s \in Sesames,
                    obj'[k][n].owner = s
             PROVE  phase'[s] \in Held /\ spec'[s].ns = n
  BY DEF Housed
<1> USE DEF cluster
<1>typed. TypeOK /\ k \in Kinds
  BY DEF IInv, Kinds
<1>1. CASE obj[k][n].owner # s
  <2>1. s = cur /\ n = snap.ns /\ pc \in EnsurePcs
    BY <1>1, <1>typed, AcquiringSteps
  <2>2. phase[s] \in Held /\ spec[s].ns = n
    BY <2>1 DEF IInv, FinalizerHeld, PlaceKept, Held
  <2>3. obj' # obj
    BY <1>1
  <2> QED
    BY <2>2, <2>3, ClusterSteps DEF ClusterStep
<1>2. CASE obj[k][n].owner = s
  <2>1. phase[s] \in Held /\ spec[s].ns = n
    BY <1>2 DEF Housed
  <2>2. ~ (phase[s] = "deleting" /\ phase'[s] = "none")
    BY <1>2, <2>1, RemovingSteps DEF Cleaned, DeletePcs
  <2>3. ASSUME NEW t \in Sesames, ClusterStep(t)
        PROVE  phase'[s] \in Held /\ spec'[s].ns = n
    BY <2>1, <2>2, <2>3 DEF ClusterStep, Held
  <2> QED
    BY <2>1, <2>3, ClusterSteps
<1> QED
  BY <1>1, <1>2

\* All of it together.
LEMMA TenancyInductive ==
  ASSUME StaleReads = FALSE, NsMutable = FALSE
  PROVE  IInv /\ Cleaned /\ TInv /\ [Next]_vars => Cleaned' /\ TInv'
  BY CleanedInductive, ExclusiveInductive, NotYetHeldInductive, ValidatedInductive,
     PlaceKeptInductive, HousedInductive DEF TInv

\* So every reachable state satisfies it.
LEMMA TenancyInvariant ==
  ASSUME StaleReads = FALSE, NsMutable = FALSE
  PROVE  Spec => [](IInv /\ Cleaned /\ TInv)
<1>1. Init => Cleaned
  BY DEF Init, Cleaned, DeletePcs
<1>2. IInv /\ Cleaned /\ TInv /\ [Next]_vars => Cleaned' /\ TInv'
  BY TenancyInductive
<1> QED
  BY <1>1, <1>2, InitInductive, NextInductive, InitTenancy, PTL DEF Spec

-----------------------------------------------------------------------------
(* One holder per namespace.                                               *)

\* Whatever the caches of the child kinds show, one Sesame per namespace gets the
\* finalizer: the Sesames themselves are not cached, an edit after validation is
\* a conflict of EnsureFinalizer, and nobody else adds finalizers.
THEOREM HoldersAreAlone ==
  ASSUME NsMutable = FALSE
  PROVE  Spec => []OneHolderPerNamespace
<1>1. Init => Exclusive /\ Validated
  BY DEF Init, Exclusive, Validated, Held
<1>2. IInv /\ Exclusive /\ Validated /\ [Next]_vars => Exclusive' /\ Validated'
  BY ExclusiveInductive, ValidatedInductive
<1>3. Exclusive => OneHolderPerNamespace
  BY DEF Exclusive, OneHolderPerNamespace, Held
<1> QED
  BY <1>1, <1>2, <1>3, InitInductive, NextInductive, PTL DEF Spec

-----------------------------------------------------------------------------
(* One tenant per namespace.                                               *)

\* Tenants of one namespace are held, and there is one such Sesame.
LEMMA TenantsAlone ==
  ASSUME TInv, NEW n \in Namespaces, NEW s \in Tenants(n)
  PROVE  /\ phase[s] \in Held /\ spec[s].ns = n
         /\ Tenants(n) = {s}
<1>1. \A t \in Tenants(n) : phase[t] \in Held /\ spec[t].ns = n
  BY DEF TInv, Housed, Tenants
<1>2. \A t \in Tenants(n) : t = s
  BY <1>1 DEF TInv, Exclusive, Tenants
<1> QED
  BY <1>1, <1>2

\* With current caches, and namespaces nobody edits, two Sesames never have
\* children in one namespace, although validation reads the list of Sesames long
\* before the children are created, and the former tenant's go one by one.
THEOREM NamespacesAreNotShared ==
  ASSUME StaleReads = FALSE, NsMutable = FALSE
  PROVE  Spec => []OneTenantPerNamespace
<1>1. TInv => OneTenantPerNamespace
  <2> SUFFICES ASSUME TInv, NEW n \in Namespaces
               PROVE  Cardinality(Tenants(n)) <= 1
    BY DEF OneTenantPerNamespace
  <2>1. CASE Tenants(n) = {}
    <3>1. Cardinality(Tenants(n)) = 0
      BY <2>1, FS_EmptySet
    <3> QED
      BY <3>1
  <2>2. ASSUME NEW s \in Tenants(n) PROVE Cardinality(Tenants(n)) <= 1
    <3>1. Tenants(n) = {s}
      BY TenantsAlone
    <3>2. Cardinality({s}) = 1
      BY FS_Singleton, Zenon
    <3> QED
      BY <3>1, <3>2
  <2> QED
    BY <2>1, <2>2
<1> QED
  BY <1>1, TenancyInvariant, PTL

\* The worker deletes a namespace on a List that may be out of date when it
\* does, but what another Sesame could have there by then is not in yet.
THEOREM NamespacesAreRemovedEmpty ==
  ASSUME StaleReads = FALSE, NsMutable = FALSE
  PROVE  Spec => NamespaceRemovalIsSafe
<1>1. IInv /\ TInv /\ [Next]_vars =>
        (Reconcile => \A n \in terminating' \ terminating : Tenants(n) \subseteq {cur})
  <2> SUFFICES ASSUME IInv, TInv, Reconcile, NEW n \in terminating' \ terminating,
                      NEW s \in Tenants(n)
               PROVE  s = cur
    OBVIOUS
  <2>1. DeleteNamespace /\ n = snap.ns
    <3>1. terminating' # terminating
      OBVIOUS
    <3>2. DeleteNamespace
      BY <3>1 DEF Reconcile, Work, GetSesame, Validate, EnsureFinalizer,
         EnsureNamespace, EnsureRBAC, RBACDone, EnsureChild, SyncStatus,
         DeleteChild, ListInNs, ListAll, DeleteRBAC, RBACDeleted, CheckNamespace,
         EnsureFinalizerRemoved
    <3> QED
      BY <3>2 DEF DeleteNamespace
  <2>2. phase[cur] \in Held /\ spec[cur].ns = n /\ cur \in Sesames /\ n \in Namespaces
    BY <2>1 DEF DeleteNamespace, IInv, TypeOK, FinalizerHeld, TInv, PlaceKept,
       Held, DeletePcs, Specs
  <2>3. phase[s] \in Held /\ spec[s].ns = n /\ s \in Sesames
    BY <2>2, TenantsAlone DEF Tenants
  <2> QED
    BY <2>2, <2>3 DEF TInv, Exclusive
<1> QED
  BY <1>1, TenancyInvariant, PTL DEF Spec, NamespaceRemovalIsSafe

-----------------------------------------------------------------------------
(* SesameOperator implements SesameTenancy.                                *)

\* Objects are written one at a time.
LEMMA ObjectSteps ==
  ASSUME IInv, [Next]_vars, obj' # obj
  PROVE  \E k \in Kinds, n \in Namespaces : \E o :
            obj' = [obj EXCEPT ![k][n] = o]
<1> USE DEF cluster, worker, bounds
<1>typed. TypeOK /\ "namespace" \in Kinds
  BY DEF IInv, Kinds
<1>1. ASSUME NEW k \in Kinds, NEW r, NEW err, Call(k, r, err), pc # "idle"
      PROVE  \E n \in Namespaces : \E o : obj' = [obj EXCEPT ![k][n] = o]
  <2>1. snap.ns \in Namespaces
    BY <1>1, <1>typed DEF TypeOK, Specs
  <2> QED
    BY <1>1, <2>1, CallReplaces
<1>2. CASE EnsureNamespace
  BY <1>2, <1>1, <1>typed DEF EnsureNamespace
<1>3. CASE EnsureRBAC
  BY <1>3, <1>1, <1>typed DEF EnsureRBAC, TypeOK
<1>4. CASE EnsureChild
  BY <1>4, <1>1, <1>typed DEF EnsureChild, TypeOK
<1>5. CASE DeleteChild
  BY <1>5, <1>1, <1>typed DEF DeleteChild, TypeOK
<1>6. CASE DeleteRBAC
  BY <1>6, <1>1, <1>typed DEF DeleteRBAC, TypeOK
<1>7. ASSUME NEW k \in Kinds, NEW n \in Namespaces, Meddle(k, n) \/ DrainNamespace(k, n)
      PROVE  \E o : obj' = [obj EXCEPT ![k][n] = o]
  BY <1>7 DEF Meddle, DrainNamespace
<1>8. ASSUME NEW n \in Namespaces, MeddleNamespace(n)
      PROVE  \E o : obj' = [obj EXCEPT !["namespace"][n] = o]
  BY <1>8 DEF MeddleNamespace
<1> QED
  BY <1>2, <1>3, <1>4, <1>5, <1>6, <1>7, <1>8, <1>typed
     DEF Next, Reconcile, Work, Users, GetSesame, Validate, EnsureFinalizer,
         RBACDone, SyncStatus, ListInNs, ListAll, RBACDeleted, CheckNamespace,
         DeleteNamespace, EnsureFinalizerRemoved, SyncCache, Resync, Crash,
         CreateSesame, EditSpec, DeleteSesame, Edit, vars

\* Seen from outside, a write to a child object changes the tenants of one
\* namespace, by one Sesame, or changes nothing.
LEMMA TenantSteps ==
  ASSUME IInv, TInv, TInv', [Next]_vars, obj' # obj
  PROVE  \/ \A n \in Namespaces : Tenants(n)' = Tenants(n)
         \/ \E n \in Namespaces, s \in Sesames :
               /\ \A m \in Namespaces \ {n} : Tenants(m)' = Tenants(m)
               /\ \/ Tenants(n)' = Tenants(n) \ {s}
                  \/ /\ Tenants(n)' = Tenants(n) \cup {s}
                     /\ phase[s] \in Held /\ spec[s].ns = n
<1>typed. TypeOK /\ ChildKinds \subseteq Kinds
  BY DEF IInv, Kinds
<1>1. PICK k \in Kinds, n \in Namespaces : \E o : obj' = [obj EXCEPT ![k][n] = o]
  BY ObjectSteps
<1>2. \A j \in Kinds, m \in Namespaces :
        j # k \/ m # n => obj'[j][m] = obj[j][m]
  BY <1>1, <1>typed DEF TypeOK
<1>3. \A m \in Namespaces \ {n} : Tenants(m)' = Tenants(m)
  BY <1>2, <1>typed DEF Tenants
<1>4. CASE \E s \in Tenants(n)' : s \notin Tenants(n)
  <2>1. PICK s \in Tenants(n)' : s \notin Tenants(n)
    BY <1>4
  <2>2. PICK j \in ChildKinds : obj'[j][n].owner = s /\ obj[j][n].owner # s
    BY <2>1 DEF Tenants
  <2>3. s = cur /\ n = snap.ns /\ pc \in EnsurePcs /\ s \in Sesames
    BY <2>1, <2>2, <1>typed, AcquiringSteps DEF Tenants
  <2>4. phase[s] \in Held /\ spec[s].ns = n
    BY <2>3 DEF IInv, FinalizerHeld, TInv, PlaceKept, Held
  <2>5. Tenants(n) = {}
    <3> SUFFICES ASSUME NEW t \in Tenants(n) PROVE FALSE
      OBVIOUS
    <3>1. phase[t] \in Held /\ spec[t].ns = n /\ t \in Sesames
      BY TenantsAlone DEF Tenants
    <3> QED
      BY <2>1, <2>3, <2>4, <3>1 DEF TInv, Exclusive
  <2>6. Tenants(n)' = {s}
    <3>1. \A t \in Tenants(n)' : t = s
      <4>1. \A t \in Tenants(n)' : t \in Sesames /\ (phase[t] \in Held /\ spec[t].ns = n)'
        BY DEF TInv, Housed, Tenants
      <4> QED
        BY <2>1, <4>1 DEF TInv, Exclusive
    <3> QED
      BY <2>1, <3>1
  <2> QED
    BY <1>3, <2>3, <2>4, <2>5, <2>6
<1>5. CASE \E s \in Tenants(n) : s \notin Tenants(n)'
  <2>1. PICK s \in Tenants(n) : s \notin Tenants(n)'
    BY <1>5
  <2>2. Tenants(n) = {s} /\ s \in Sesames
    BY TenantsAlone DEF Tenants
  <2>3. CASE Tenants(n)' \subseteq Tenants(n)
    <3>1. Tenants(n)' = Tenants(n) \ {s}
      BY <2>1, <2>2, <2>3
    <3> QED
      BY <1>3, <2>2, <3>1
  <2> QED
    BY <2>3, <1>4
<1>6. CASE Tenants(n)' = Tenants(n)
  BY <1>3, <1>6
<1> QED
  BY <1>4, <1>5, <1>6

\* The stages, one by one.
LEMMA Stages ==
  /\ StageOf["none"] = "absent" /\ StageOf["new"] = "asking"
  /\ StageOf["live"] = "holding" /\ StageOf["deleting"] = "leaving"
  BY DEF StageOf

\* Nobody is there at first.
LEMMA InitRefines == Init => Tenancy!Init
<1> SUFFICES ASSUME Init PROVE Tenancy!Init
  OBVIOUS
<1>1. \A n \in Namespaces : Tenants(n) = {}
  BY InitTenancy DEF TInv, Housed, Tenants, Init, Held
<1> QED
  BY <1>1, Stages DEF Init, Tenancy!Init, Stage, Place, Occupants

\* The writes to objects are Enter, Vacate or nothing.
LEMMA ObjectStepRefines ==
  ASSUME IInv, TInv, TInv', [Next]_vars, obj' # obj, NsMutable = FALSE
  PROVE  Tenancy!Next \/ UNCHANGED Tenancy!tenancy
<1>1. UNCHANGED cluster
  BY ClusterSteps DEF ClusterStep
<1>2. Stage' = Stage /\ Place' = Place
  BY <1>1 DEF cluster, Stage, Place
<1>3. CASE \A n \in Namespaces : Tenants(n)' = Tenants(n)
  <2>1. Occupants' = Occupants
    BY <1>3 DEF Occupants
  <2> QED
    BY <1>2, <2>1 DEF Tenancy!tenancy
<1>4. ASSUME NEW n \in Namespaces, NEW s \in Sesames,
             \A m \in Namespaces \ {n} : Tenants(m)' = Tenants(m)
      PROVE  /\ Tenants(n)' = Tenants(n) \ {s} =>
                    Occupants' = [Occupants EXCEPT ![n] = @ \ {s}]
             /\ Tenants(n)' = Tenants(n) \cup {s} =>
                    Occupants' = [Occupants EXCEPT ![n] = @ \cup {s}]
  BY <1>4 DEF Occupants
<1>5. ASSUME NEW n \in Namespaces, NEW s \in Sesames,
             \A m \in Namespaces \ {n} : Tenants(m)' = Tenants(m),
             Tenants(n)' = Tenants(n) \ {s}
      PROVE  Tenancy!Vacate(s, n)
  BY <1>2, <1>4, <1>5 DEF Tenancy!Vacate
<1>6. ASSUME NEW n \in Namespaces, NEW s \in Sesames,
             \A m \in Namespaces \ {n} : Tenants(m)' = Tenants(m),
             Tenants(n)' = Tenants(n) \cup {s},
             phase[s] \in Held, spec[s].ns = n
      PROVE  Tenancy!Enter(s)
  <2>1. Place[s] = n /\ s \in Tenancy!Holders
    BY <1>6, Stages DEF Held, Place, Stage, Tenancy!Holders
  <2> QED
    BY <1>2, <1>4, <1>6, <2>1 DEF Tenancy!Enter
<1> QED
  BY <1>3, <1>5, <1>6, TenantSteps DEF Tenancy!Next

\* The writes to Sesames are the other actions of SesameTenancy; what users do
\* to the rest of a spec is not seen.
LEMMA ClusterStepRefines ==
  ASSUME IInv, IInv', Cleaned, TInv, [Next]_vars, NEW s \in Sesames, ClusterStep(s)
  PROVE  Tenancy!Next \/ UNCHANGED Tenancy!tenancy
<1> DEFINE put == IF phase'[s] = "none" THEN Nil ELSE spec'[s].ns
<1>1. Occupants' = Occupants
  BY DEF ClusterStep, Occupants, Tenants
<1>2. /\ Stage' = [Stage EXCEPT ![s] = StageOf[phase'[s]]]
      /\ Stage[s] = StageOf[phase[s]]
  BY DEF ClusterStep, Stage
<1>3. Place' = [Place EXCEPT ![s] = put]
  BY DEF ClusterStep, Place
<1>4. /\ Stage = [Stage EXCEPT ![s] = StageOf[phase[s]]]
      /\ Place = [Place EXCEPT ![s] = IF phase[s] = "none" THEN Nil ELSE spec[s].ns]
  BY DEF Stage, Place
<1> HIDE DEF put
<1>5. CASE phase[s] = "none" /\ phase'[s] = "new"
  <2>1. put \in Namespaces
    BY <1>5 DEF put, IInv, TypeOK, Specs
  <2>2. Tenancy!Ask(s, put)
    BY <1>1, <1>2, <1>3, <1>5, Stages DEF Tenancy!Ask, Tenancy!Moves
  <2> QED
    BY <2>1, <2>2 DEF Tenancy!Next
<1>6. CASE phase[s] # "none" /\ phase'[s] = phase[s] /\ spec'[s].ns = spec[s].ns
  <2>1. Stage' = Stage /\ Place' = Place
    BY <1>2, <1>3, <1>4, <1>6 DEF put
  <2> QED
    BY <1>1, <2>1 DEF Tenancy!tenancy
<1>7. CASE phase[s] = "new" /\ phase'[s] = "none"
  <2>1. Tenancy!Withdraw(s)
    BY <1>1, <1>2, <1>3, <1>7, Stages DEF put, Tenancy!Withdraw, Tenancy!Moves
  <2> QED
    BY <2>1 DEF Tenancy!Next
<1>8. CASE phase[s] = "live" /\ phase'[s] = "deleting" /\ spec'[s] = spec[s]
  <2>1. Place' = Place
    BY <1>3, <1>4, <1>8 DEF put
  <2>2. Tenancy!AskToLeave(s)
    BY <1>1, <1>2, <1>8, <2>1, Stages DEF Tenancy!AskToLeave, Tenancy!Moves
  <2> QED
    BY <2>2 DEF Tenancy!Next
<1>9. CASE /\ s = cur /\ pc = "finalize" /\ fresh
           /\ phase'[s] = "live" /\ spec'[s] = spec[s]
  <2>1. phase[s] = "new" /\ spec[s] = snap
    BY <1>9 DEF IInv, SnapshotCurrent, TInv, NotYetHeld
  <2>2. Place' = Place
    BY <1>3, <1>4, <1>9, <2>1 DEF put
  <2>3. ASSUME NEW t \in Tenancy!Holders PROVE Place[t] # Place[s]
    <3>1. t \in Sesames /\ phase[t] \in Held
      BY Stages DEF Tenancy!Holders, Stage, Held, IInv, TypeOK, Phases
    <3>2. t # s /\ spec[t].ns # spec[s].ns
      BY <1>9, <2>1, <3>1 DEF TInv, Validated, Held
    <3> QED
      BY <2>1, <3>1, <3>2 DEF Place, Held
  <2>4. Tenancy!Admit(s)
    BY <1>1, <1>2, <1>9, <2>1, <2>2, <2>3, Stages DEF Tenancy!Admit, Tenancy!Moves
  <2> QED
    BY <2>4 DEF Tenancy!Next
<1>10. CASE phase[s] = "deleting" /\ phase'[s] = "none"
  <2>1. /\ s = cur /\ spec[s] = snap /\ pc = "unfinalize" /\ ~ failed
        /\ spec[s].ns \in Namespaces
    BY <1>10, RemovingSteps DEF IInv, TypeOK, Specs
  <2>2. Place[s] = spec[s].ns /\ s \notin Occupants[Place[s]]
    BY <1>10, <2>1 DEF Cleaned, DeletePcs, Occupants, Tenants, Place
  <2>3. Tenancy!Depart(s)
    BY <1>1, <1>2, <1>3, <1>10, <2>2, Stages DEF put, Tenancy!Depart, Tenancy!Moves
  <2> QED
    BY <2>3 DEF Tenancy!Next
<1> QED
  BY <1>5, <1>6, <1>7, <1>8, <1>9, <1>10 DEF ClusterStep

\* Whatever the calls, the caches' events, the faults and the users do in
\* between, seen from outside Sesames hold namespaces and give them up, one at a
\* time and with nothing of theirs left there.
THEOREM OperatorImplementsTenancy ==
  ASSUME StaleReads = FALSE, NsMutable = FALSE
  PROVE  Spec => ImplementsTenancy
<1>1. /\ IInv /\ Cleaned /\ TInv
      /\ IInv' /\ TInv'
      /\ [Next]_vars
      => [Tenancy!Next]_(Tenancy!tenancy)
  <2> SUFFICES ASSUME IInv, Cleaned, TInv, IInv', TInv', [Next]_vars
               PROVE  Tenancy!Next \/ UNCHANGED Tenancy!tenancy
    OBVIOUS
  <2>1. CASE obj' = obj /\ UNCHANGED cluster
    BY <2>1 DEF cluster, Tenancy!tenancy, Stage, Place, Occupants, Tenants
  <2> QED
    BY <2>1, ObjectStepRefines, ClusterStepRefines, ClusterSteps
<1> QED
  BY <1>1, InitRefines, TenancyInvariant, PTL
     DEF Spec, ImplementsTenancy, Tenancy!Spec

=============================================================================
