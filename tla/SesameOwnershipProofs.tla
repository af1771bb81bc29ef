----------------------- MODULE SesameOwnershipProofs -----------------------
(***************************************************************************)
(* The worker and what is not its Sesame's: theorems about SesameOperator. *)
(* Ownership labels are checked on a cached copy and the call then goes by *)
(* name, so what makes this work is what a cached label says of the object *)
(* in the API server.                                                      *)
(***************************************************************************)
EXTENDS SesameOperatorProofs

-----------------------------------------------------------------------------
(* The inductive invariant, on top of IInv.                                *)

\* An object that once belonged to one Sesame never belongs to another before
\* the cache has seen that it was gone: it is only created under a name that
\* the cache shows to be free.
CachedOwners ==
    \A k \in Kinds, n \in Namespaces :
        cache[k][n].owner \in Sesames /\ obj[k][n].owner \in Sesames =>
            cache[k][n].owner = obj[k][n].owner

\* What EnsureRBACDeleted collects is RBAC, and no other Sesame's.
Collected ==
    pc = "deleteRbac" =>
        /\ todo \subseteq RbacKinds
        /\ \A k \in todo :
              obj[k][snap.ns].owner \in Sesames => obj[k][snap.ns].owner = cur

OInv == CachedOwners /\ Collected

-----------------------------------------------------------------------------
(* What a call does to an object.                                          *)

\* Whether or not it fails, a call of an Ensure function that changes something
\* changes nothing of another Sesame, and what it leaves is cur's or nothing.
LEMMA CallsRespectOwners ==
  ASSUME TypeOK, CachedOwners, pc # "idle", NEW k \in Kinds,
         NEW r \in {Ensure(k), EnsureDeleted(k)}, NEW o \in Leftovers(k, r),
         o # Live(k)
  PROVE  /\ Live(k).owner \in Sesames => Live(k).owner = cur
         /\ \/ o = NoObject
            \/ o = Desired(k) /\ Seen(k).owner \in {Nil, cur}
         /\ Seen(k) = NoObject \/ Seen(k).owner = cur
<1>1. snap.ns \in Namespaces /\ cur \in Sesames
  BY DEF TypeOK, Specs
<1>2. NoObject.owner \notin Sesames /\ NoObject.owner = Nil
  BY NamesAssumption DEF NoObject
<1>3. r.object # Live(k)
  BY DEF Leftovers
<1>4. r.object \in {NoObject, Desired(k)} /\ o \in {NoObject, r.object}
  BY <1>3, EnsureAcquires DEF Leftovers
<1>5. CASE Seen(k) = NoObject
  <2>1. Live(k) = NoObject /\ r = Create(k)
    BY <1>1, <1>2, <1>3, <1>5 DEF Ensure, EnsureDeleted, Create, Unchanged, Refused
  <2> QED
    BY <1>2, <1>4, <1>5, <2>1
<1>6. CASE Seen(k) # NoObject
  <2>1. Seen(k).owner = cur
    BY <1>3, <1>6 DEF Ensure, EnsureDeleted, Unchanged
  <2>2. Live(k).owner \in Sesames => Live(k).owner = cur
    BY <1>1, <2>1 DEF CachedOwners, Live, Seen
  <2> QED
    BY <1>4, <2>1, <2>2
<1> QED
  BY <1>5, <1>6

\* Which object a step of the worker changes, and what it was and becomes.
LEMMA WritingSteps ==
  ASSUME IInv, OInv, Reconcile, NEW j \in Kinds, NEW n \in Namespaces,
         obj'[j][n] # obj[j][n]
  PROVE  /\ n = snap.ns
         /\ obj[j][n].owner \in Sesames => obj[j][n].owner = cur
         /\ obj'[j][n] = NoObject \/ cache[j][n].owner \in {Nil, obj'[j][n].owner}
         /\ \/ pc = "deleteRbac" /\ j \in RbacKinds
            \/ pc = "namespace" /\ j = "namespace"
            \/ CacheReady /\ (cache[j][n] = NoObject \/ cache[j][n].owner = cur)
<1> USE DEF cluster, worker, bounds
<1>typed. TypeOK /\ "namespace" \in Kinds
  BY DEF IInv, Kinds
<1>busy. pc # "idle" => snap.ns \in Namespaces
  BY <1>typed DEF TypeOK, Specs
<1>1. ASSUME pc # "idle", NEW k \in Kinds, NEW r, NEW err, Call(k, r, err)
      PROVE  /\ j = k /\ n = snap.ns
             /\ obj'[j][n] \in Leftovers(k, r) /\ obj'[j][n] # Live(k)
  <2>1. PICK o \in Leftovers(k, r) : obj' = [obj EXCEPT ![k][snap.ns] = o]
    BY <1>1, CallReplaces
  <2>2. j = k /\ n = snap.ns
    BY <1>1, <1>typed, <1>busy, <2>1 DEF TypeOK
  <2>3. obj'[j][n] = o
    BY <1>1, <1>typed, <1>busy, <2>1, <2>2 DEF TypeOK
  <2> QED
    BY <2>2, <2>3 DEF Live
<1>2. ASSUME pc # "idle", NEW k \in Kinds, NEW r \in {Ensure(k), EnsureDeleted(k)},
             NEW err, Call(k, r, err)
      PROVE  /\ j = k /\ n = snap.ns
             /\ obj[j][n].owner \in Sesames => obj[j][n].owner = cur
             /\ obj'[j][n] = NoObject \/ cache[j][n].owner \in {Nil, obj'[j][n].owner}
             /\ cache[j][n] = NoObject \/ cache[j][n].owner = cur
  <2>1. j = k /\ n = snap.ns /\ obj'[j][n] \in Leftovers(k, r) /\ obj'[j][n] # Live(k)
    BY <1>1, <1>2
  <2>2. Desired(k).owner = cur
    BY DEF Desired
  <2> QED
    BY <1>2, <1>typed, <2>1, <2>2, CallsRespectOwners DEF OInv, Live, Seen
<1>3. CASE EnsureNamespace
  BY <1>3, <1>2, <1>typed DEF EnsureNamespace
<1>4. CASE EnsureRBAC
  BY <1>4, <1>2, <1>typed DEF EnsureRBAC, TypeOK
<1>5. CASE EnsureChild
  BY <1>5, <1>2, <1>typed DEF EnsureChild, TypeOK
<1>6. CASE DeleteChild
  BY <1>6, <1>2, <1>typed DEF DeleteChild, TypeOK
<1>7. CASE DeleteRBAC
  <2>1. PICK k \in todo, err \in BOOLEAN : Call(k, Deleted, err)
    BY <1>7 DEF DeleteRBAC
  <2>2. k \in Kinds /\ pc = "deleteRbac"
    BY <1>7, <1>typed DEF DeleteRBAC, TypeOK
  <2>3. j = k /\ n = snap.ns /\ obj'[j][n] \in Leftovers(k, Deleted)
        /\ obj'[j][n] # Live(k)
    BY <1>1, <2>1, <2>2
  <2>4. obj'[j][n] = NoObject
    BY <2>3 DEF Leftovers, Deleted
  <2> QED
    BY <2>1, <2>2, <2>3, <2>4 DEF OInv, Collected
<1>8. obj' # obj
  OBVIOUS
<1> QED
  BY <1>3, <1>4, <1>5, <1>6, <1>7, <1>8
     DEF Reconcile, Work, GetSesame, Validate, EnsureFinalizer, RBACDone,
         SyncStatus, ListInNs, ListAll, RBACDeleted, CheckNamespace,
         DeleteNamespace, EnsureFinalizerRemoved

-----------------------------------------------------------------------------
(* OInv is inductive.                                                      *)

\* Others than the worker take objects away from Sesames at most.
LEMMA OthersSteps ==
  ASSUME IInv, [Next]_vars, ~ Reconcile, NEW k \in Kinds, NEW n \in Namespaces
  PROVE  obj'[k][n].owner \in {obj[k][n].owner, Nil, Stranger}
<1> USE DEF cluster, worker, bounds
<1>typed. TypeOK /\ "namespace" \in Kinds
  BY DEF IInv, Kinds
<1>1. ASSUME NEW j \in Kinds, NEW m \in Namespaces, NEW o,
             obj' = [obj EXCEPT ![j][m] = o],
             o \in {NoObject, StrangersObject, Altered(obj[j][m])}
      PROVE  obj'[k][n].owner \in {obj[k][n].owner, Nil, Stranger}
  <2>1. o.owner \in {obj[j][m].owner, Nil, Stranger}
    BY <1>1 DEF NoObject, StrangersObject, Altered
  <2>2. obj'[k][n] = obj[k][n] \/ (j = k /\ m = n /\ obj'[k][n] = o)
    BY <1>1, <1>typed DEF TypeOK
  <2> QED
    BY <2>1, <2>2
<1>2. ASSUME NEW j \in Kinds, NEW m \in Namespaces, Meddle(j, m) \/ DrainNamespace(j, m)
      PROVE  obj'[k][n].owner \in {obj[k][n].owner, Nil, Stranger}
  BY <1>1, <1>2 DEF Meddle, DrainNamespace
<1>3. ASSUME NEW m \in Namespaces, MeddleNamespace(m)
      PROVE  obj'[k][n].owner \in {obj[k][n].owner, Nil, Stranger}
  BY <1>1, <1>3, <1>typed DEF MeddleNamespace
<1> QED
  BY <1>2, <1>3 DEF Next, Users, SyncCache, Resync, Crash, CreateSesame,
     EditSpec, DeleteSesame, Edit, vars

\* Nothing is cached and nothing collected yet.
LEMMA InitOwners == Init => OInv
<1> SUFFICES ASSUME Init PROVE OInv
  OBVIOUS
<1>1. cache = obj /\ pc = "idle"
  BY DEF Init
<1> QED
  BY <1>1 DEF OInv, CachedOwners, Collected

\* The worker writes under names the cache shows to be free or its Sesame's, and
\* the informers copy what is there.
LEMMA CachedOwnersInductive ==
  ASSUME IInv, OInv, [Next]_vars
  PROVE  CachedOwners'
<1> SUFFICES ASSUME NEW k \in Kinds, NEW n \in Namespaces,
                    cache'[k][n].owner \in Sesames, obj'[k][n].owner \in Sesames
             PROVE  cache'[k][n].owner = obj'[k][n].owner
  BY DEF CachedOwners
<1> USE DEF cluster, worker, bounds
<1>1. CASE Reconcile
  <2>1. cache' = cache
    BY <1>1 DEF Reconcile, Work, GetSesame, Validate, EnsureFinalizer,
       EnsureNamespace, EnsureRBAC, RBACDone, EnsureChild, SyncStatus, DeleteChild,
       ListInNs, ListAll, DeleteRBAC, RBACDeleted, CheckNamespace,
       DeleteNamespace, EnsureFinalizerRemoved
  <2>2. CASE obj'[k][n] = obj[k][n]
    BY <2>1, <2>2 DEF OInv, CachedOwners
  <2>3. CASE obj'[k][n] # obj[k][n]
    BY <1>1, <2>1, <2>3, WritingSteps, NamesAssumption DEF NoObject
  <2> QED
    BY <2>2, <2>3
<1>2. CASE ~ Reconcile
  <2>1. obj'[k][n].owner = obj[k][n].owner
    BY <1>2, OthersSteps, NamesAssumption
  <2>2. cache'[k][n] \in {cache[k][n], obj[k][n]}
    <3>1. ASSUME NEW j \in Kinds, SyncCache(j) PROVE cache'[k][n] \in {cache[k][n], obj[k][n]}
      BY <3>1 DEF SyncCache, IInv, TypeOK
    <3> QED
      BY <1>2, <3>1 DEF Next, Users, Resync, Crash, CreateSesame, EditSpec,
         DeleteSesame, Edit, Meddle, MeddleNamespace, DrainNamespace, vars
  <2> QED
    BY <2>1, <2>2 DEF OInv, CachedOwners
<1> QED
  BY <1>1, <1>2

\* What was collected, others may take from cur but nobody gives to a Sesame.
LEMMA CollectedInductive ==
  ASSUME IInv, OInv, [Next]_vars
  PROVE  Collected'
<1> SUFFICES ASSUME pc' = "deleteRbac"
             PROVE  /\ todo' \subseteq RbacKinds
                    /\ \A k \in todo' :
                          obj'[k][snap'.ns].owner \in Sesames =>
                              obj'[k][snap'.ns].owner = cur'
  BY DEF Collected
<1> USE DEF cluster, worker, bounds
<1>1. CASE ListAll
  <2>1. /\ todo' = {k \in RbacKinds : Removable(k)}
        /\ UNCHANGED <<obj, cur, snap>> /\ pc # "idle"
    BY <1>1 DEF ListAll, Goto
  <2>2. snap.ns \in Namespaces /\ cur \in Sesames
    BY <2>1 DEF IInv, TypeOK, Specs
  <2> QED
    BY <2>1, <2>2 DEF Removable, Seen, OInv, CachedOwners, Kinds
<1>2. CASE pc = "deleteRbac" /\ todo' \subseteq todo /\ UNCHANGED <<cur, snap>>
  <2>1. todo' \subseteq RbacKinds /\ snap.ns \in Namespaces
    BY <1>2 DEF OInv, Collected, IInv, TypeOK, Specs
  <2> SUFFICES ASSUME NEW k \in todo', NEW s \in Sesames, obj'[k][snap.ns].owner = s
               PROVE  s = cur
    BY <1>2, <2>1
  <2>2. obj[k][snap.ns].owner = s
    <3>1. TypeOK /\ k \in Kinds /\ pc \notin EnsurePcs
      BY <1>2, <2>1 DEF IInv, Kinds, EnsurePcs
    <3> QED
      BY <2>1, <3>1, AcquiringSteps
  <2> QED
    BY <1>2, <2>2 DEF OInv, Collected
<1>3. ListAll \/ (pc = "deleteRbac" /\ todo' \subseteq todo /\ UNCHANGED <<cur, snap>>)
  <2>1. ASSUME NEW s \in Sesames, GetSesame(s)
        PROVE  pc = "deleteRbac" /\ UNCHANGED worker
    BY <2>1 DEF GetSesame
  <2>2. CASE Validate \/ EnsureFinalizer \/ SyncStatus \/ EnsureFinalizerRemoved \/ Crash
    BY <2>2 DEF Validate, EnsureFinalizer, SyncStatus, EnsureFinalizerRemoved,
       Crash, Finish, Reset, Goto
  <2>3. CASE EnsureNamespace \/ EnsureRBAC \/ RBACDone \/ EnsureChild \/ DeleteChild
             \/ ListInNs \/ RBACDeleted \/ CheckNamespace \/ DeleteNamespace
    BY <2>3 DEF EnsureNamespace, EnsureRBAC, RBACDone, EnsureChild, DeleteChild,
       ListInNs, RBACDeleted, CheckNamespace, DeleteNamespace, Goto
  <2>4. CASE DeleteRBAC
    BY <2>4 DEF DeleteRBAC
  <2> QED
    BY <2>1, <2>2, <2>3, <2>4
       DEF Next, Reconcile, Work, Users, SyncCache, Resync, CreateSesame, EditSpec,
           DeleteSesame, Edit, Meddle, MeddleNamespace, DrainNamespace, vars
<1> QED
  BY <1>1, <1>2, <1>3

\* So every reachable state satisfies it.
LEMMA OwnersInvariant == Spec => [](IInv /\ OInv)
<1>1. IInv /\ OInv /\ [Next]_vars => OInv'
  BY CachedOwnersInductive, CollectedInductive DEF OInv
<1> QED
  BY <1>1, InitInductive, NextInductive, InitOwners, PTL DEF Spec

-----------------------------------------------------------------------------
(* Whose objects the worker leaves alone.                                  *)

\* However far the caches lag behind, and wherever users move Sesames, the worker
\* never overwrites or deletes what belongs to another Sesame.
THEOREM OthersAreLeftAlone == Spec => AnothersObjectsUntouched
<1>1. IInv /\ OInv =>
        (Reconcile => \A k \in Kinds, n \in Namespaces :
            obj[k][n].owner \in Sesames /\ obj'[k][n] # obj[k][n] =>
                obj[k][n].owner = cur)
  BY WritingSteps
<1> QED
  BY <1>1, OwnersInvariant, PTL DEF Spec, AnothersObjectsUntouched

\* With current caches the same holds of the children strangers made; with
\* caches that lag a Delete by name could hit one.
THEOREM StrangersAreLeftAlone ==
  ASSUME StaleReads = FALSE
  PROVE  Spec => StrangersObjectsKept
<1>1. IInv /\ OInv =>
        (Reconcile => \A k \in ChildKinds, n \in Namespaces :
            obj[k][n].owner = Stranger => obj'[k][n] = obj[k][n])
  <2> SUFFICES ASSUME IInv, OInv, Reconcile, NEW k \in ChildKinds, NEW n \in Namespaces,
                      obj[k][n].owner = Stranger, obj'[k][n] # obj[k][n]
               PROVE  FALSE
    OBVIOUS
  <2>1. k \in Kinds /\ k \notin RbacKinds /\ k # "namespace"
    BY KindsAssumption DEF Kinds, ClusterRbac
  <2>2. CacheReady /\ (cache[k][n] = NoObject \/ cache[k][n].owner = cur)
    BY <2>1, WritingSteps
  <2>3. cache[k][n].owner = Stranger
    BY <2>2 DEF CacheReady
  <2>4. cur # Stranger
    BY NamesAssumption DEF IInv, TypeOK
  <2> QED
    BY <2>2, <2>3, <2>4, NamesAssumption DEF NoObject
<1> QED
  BY <1>1, OwnersInvariant, PTL DEF Spec, StrangersObjectsKept

=============================================================================
