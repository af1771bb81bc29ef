------------------------ MODULE SesameOperatorProofs ------------------------
(***************************************************************************)
(* Theorems about SesameOperator, for any number of Sesames, namespaces    *)
(* and kinds, any bounds, and any behaviour of users and caches.           *)
(***************************************************************************)
EXTENDS SesameOperator, TLAPS

-----------------------------------------------------------------------------
(* The inductive invariant.                                                *)

EnsurePcs == {"namespace", "rbac", "children", "status"}
DeletePcs == {"delete", "listAll", "deleteRbac", "checkNs", "deleteNs",
              "unfinalize"}

\* As long as the worker's copy of the Sesame is current, it is a copy.
SnapshotCurrent ==
    pc # "idle" /\ fresh => phase[cur] # "none" /\ spec[cur] = snap

\* While a Sesame is built it keeps its finalizer, for only the worker removes
\* it, and while it is torn down it stays marked.
FinalizerHeld ==
    /\ pc = "validate" /\ finalized => phase[cur] \in {"live", "deleting"}
    /\ pc \in EnsurePcs => phase[cur] \in {"live", "deleting"}
    /\ pc \in DeletePcs => phase[cur] = "deleting"

IInv == TypeOK /\ SnapshotCurrent /\ FinalizerHeld

-----------------------------------------------------------------------------
(* What the calls return.                                                  *)

Results == [object : Objects, err : BOOLEAN]

\* The two objects the environment brings in are objects.
LEMMA ObjectsTyped ==
  /\ NoObject \in Objects
  /\ StrangersObject \in Objects
  BY DEF NoObject, StrangersObject, Objects

\* Every call the worker makes has a result of the right type.
LEMMA ResultsTyped ==
  ASSUME TypeOK, pc # "idle", NEW k \in Kinds
  PROVE  /\ Ensure(k) \in Results
         /\ EnsureDeleted(k) \in Results
         /\ Deleted \in Results
<1>1. snap \in Specs /\ snap.ns \in Namespaces /\ snap.config \in Configs
  BY DEF TypeOK, Specs
<1>2. Live(k) \in Objects /\ Seen(k) \in Objects
  BY <1>1 DEF TypeOK, Live, Seen
<1>3. Desired(k) \in Objects
  BY <1>1 DEF TypeOK, Desired, Config, Objects
<1>4. /\ Unchanged(k) \in Results
      /\ Refused(k) \in Results
      /\ Stored(k) \in Results
      /\ Deleted \in Results
      /\ [object |-> NoObject, err |-> TRUE] \in Results
  BY <1>2, <1>3, ObjectsTyped DEF Unchanged, Refused, Stored, Deleted, Results
<1>5. /\ Create(k) \in Results
      /\ Update(k) \in Results
      /\ Recreate(k) \in Results
  BY <1>4 DEF Create, Update, UpdateGenerated, UpdateCopy, Recreate
<1>6. Ensure(k) \in Results
  BY <1>4, <1>5 DEF Ensure
<1>7. EnsureDeleted(k) \in Results
  BY <1>4 DEF EnsureDeleted
<1> QED
  BY <1>4, <1>6, <1>7

\* A call, failed or not, replaces one object by one of its leftovers.
LEMMA CallReplaces ==
  ASSUME NEW k, NEW r, NEW err, Call(k, r, err)
  PROVE  \E o \in Leftovers(k, r) : obj' = [obj EXCEPT ![k][snap.ns] = o]
<1>1. r.object \in Leftovers(k, r)
  BY DEF Leftovers
<1> QED
  BY <1>1 DEF Call

\* So a call, whatever becomes of it, leaves well-typed objects behind.
LEMMA CallTyped ==
  ASSUME TypeOK, pc # "idle", NEW k \in Kinds, NEW r \in Results,
         NEW err \in BOOLEAN, Call(k, r, err)
  PROVE  /\ obj' \in [Kinds -> [Namespaces -> Objects]]
         /\ faults' \in 0..MaxFaults
<1>1. snap.ns \in Namespaces
  BY DEF TypeOK, Specs
<1>2. r.object \in Objects /\ Leftovers(k, r) \subseteq Objects
  BY <1>1, ObjectsTyped DEF TypeOK, Results, Leftovers, Live
<1>3. \A o \in Objects :
        [obj EXCEPT ![k][snap.ns] = o] \in [Kinds -> [Namespaces -> Objects]]
  BY <1>1 DEF TypeOK
<1>4. faults > 0 => faults - 1 \in 0..MaxFaults
  BY BoundsAssumption DEF TypeOK
<1>5. obj' \in [Kinds -> [Namespaces -> Objects]]
  BY <1>2, <1>3, CallReplaces
<1>6. faults' \in 0..MaxFaults
  BY <1>4 DEF Call, TypeOK
<1> QED
  BY <1>5, <1>6

\* An object changes hands only to the Sesame being reconciled.
LEMMA EnsureAcquires ==
  ASSUME TypeOK, pc # "idle", NEW k \in Kinds
  PROVE  /\ Ensure(k).object \in {Live(k), Desired(k), NoObject}
         /\ EnsureDeleted(k).object \in {Live(k), NoObject}
         /\ Deleted.object = NoObject
  BY DEF Ensure, EnsureDeleted, Create, Update, UpdateGenerated, UpdateCopy,
         Recreate, Unchanged, Refused, Stored, Deleted
-----------------------------------------------------------------------------
(* IInv is inductive.                                                      *)

\* The operator starts idle, when there is nothing to type but the bounds.
LEMMA InitInductive == Init => IInv
<1> SUFFICES ASSUME Init PROVE IInv
  OBVIOUS
<1>1. obj \in [Kinds -> [Namespaces -> Objects]]
  BY ObjectsTyped DEF Init
<1>2. /\ phase \in [Sesames -> Phases]
      /\ spec \in [Sesames -> Specs \cup {Nil}]
      /\ \A s \in Sesames : phase[s] = "none" <=> spec[s] = Nil
  BY DEF Init, Phases
<1>3. /\ pc = "idle" /\ pc \in Pcs /\ cur = Nil /\ snap = Nil
      /\ queue \subseteq Sesames /\ todo \subseteq Kinds
      /\ terminating \subseteq Namespaces /\ cache = obj
      /\ {finalized, fresh, failed, shared} \subseteq BOOLEAN
  BY DEF Init, Pcs
<1>4. /\ edits \in 0..MaxEdits
      /\ meddles \in 0..MaxMeddles
      /\ faults \in 0..MaxFaults
  BY BoundsAssumption DEF Init
<1> QED
  BY <1>1, <1>2, <1>3, <1>4 DEF IInv, TypeOK, SnapshotCurrent, FinalizerHeld,
     EnsurePcs, DeletePcs

\* Reset leaves a well-typed idle worker, for which the rest of IInv is void.
LEMMA ResetInductive ==
  ASSUME TypeOK, Reset
  PROVE  /\ pc' = "idle" /\ cur' = Nil /\ snap' = Nil
         /\ todo' \subseteq Kinds
         /\ {finalized, fresh, failed, shared}' \subseteq BOOLEAN
         /\ SnapshotCurrent' /\ FinalizerHeld'
  BY DEF Reset, SnapshotCurrent, FinalizerHeld, EnsurePcs, DeletePcs

\* A fault is taken off its bound.
LEMMA FaultTyped ==
  ASSUME TypeOK, Fault
  PROVE  faults' \in 0..MaxFaults
  BY BoundsAssumption DEF TypeOK, Fault

\* Every step keeps IInv, those of users that change the Sesame being reconciled
\* because they make the worker's copy of it outdated.
LEMMA NextInductive == IInv /\ [Next]_vars => IInv'
<1> SUFFICES ASSUME IInv, [Next]_vars PROVE IInv'
  OBVIOUS
<1> USE NamesAssumption, BoundsAssumption DEF IInv, cluster, worker, bounds
<1>idle. pc = "idle" => cur = Nil /\ snap = Nil
  BY DEF TypeOK
<1>busy. pc # "idle" => cur \in Sesames /\ snap \in Specs /\ snap.ns \in Namespaces
  BY DEF TypeOK, Specs
<1>kinds. "namespace" \in Kinds /\ RbacKinds \subseteq Kinds /\ ChildKinds \subseteq Kinds
  BY DEF Kinds
<1>1. ASSUME NEW s \in Sesames, GetSesame(s) PROVE IInv'
  <2>1. CASE Fault /\ UNCHANGED <<queue, worker>>
    BY <1>1, <2>1, FaultTyped DEF GetSesame, TypeOK, SnapshotCurrent, FinalizerHeld
  <2>2. CASE queue' = queue \ {s} /\ UNCHANGED <<worker, faults>>
    BY <1>1, <2>2 DEF GetSesame, TypeOK, SnapshotCurrent, FinalizerHeld
  <2>3. CASE pc' # "idle"
    BY <1>1, <2>3, <1>kinds DEF GetSesame, TypeOK, SnapshotCurrent, FinalizerHeld,
       EnsurePcs, DeletePcs, Pcs, Phases, Specs, Fault
  <2> QED
    BY <1>1, <2>1, <2>2, <2>3 DEF GetSesame
<1>2. CASE Validate
  <2>1. CASE Fault /\ Finish(TRUE)
    BY <1>2, <2>1, FaultTyped, ResetInductive DEF Validate, Finish, TypeOK, Pcs
  <2>2. CASE Finish(TRUE) /\ UNCHANGED faults
    BY <1>2, <2>2, ResetInductive DEF Validate, Finish, TypeOK, Pcs
  <2>3. CASE Goto(IF finalized THEN "namespace" ELSE "finalize")
             /\ UNCHANGED <<queue, fresh, todo, failed, shared, faults>>
    BY <1>2, <2>3 DEF Validate, Goto, TypeOK, Pcs, SnapshotCurrent, FinalizerHeld,
       EnsurePcs, DeletePcs
  <2> QED
    BY <1>2, <2>1, <2>2, <2>3 DEF Validate
<1>3. CASE EnsureFinalizer
  <2>1. queue' \subseteq Sesames /\ faults' \in 0..MaxFaults
    BY <1>3, <1>busy, FaultTyped DEF EnsureFinalizer, Finish, TypeOK
  <2>2. phase' \in [Sesames -> Phases] /\ \A s \in Sesames : phase'[s] = "none" <=> spec[s] = Nil
    BY <1>3, <1>busy DEF EnsureFinalizer, TypeOK, Phases, SnapshotCurrent
  <2> QED
    BY <1>3, <2>1, <2>2, ResetInductive DEF EnsureFinalizer, Finish, TypeOK, Pcs
<1>4. CASE EnsureNamespace
  <2>1. /\ obj' \in [Kinds -> [Namespaces -> Objects]]
        /\ faults' \in 0..MaxFaults
        /\ failed' \in BOOLEAN
    BY <1>4, <1>kinds, ResultsTyped, CallTyped DEF EnsureNamespace
  <2> QED
    BY <1>4, <2>1, <1>kinds DEF EnsureNamespace, Goto, TypeOK, Pcs, SnapshotCurrent,
       FinalizerHeld, EnsurePcs, DeletePcs
<1>5. CASE EnsureRBAC
  <2>1. /\ obj' \in [Kinds -> [Namespaces -> Objects]]
        /\ faults' \in 0..MaxFaults
        /\ failed' \in BOOLEAN
        /\ todo' \subseteq Kinds
    BY <1>5, ResultsTyped, CallTyped DEF EnsureRBAC, TypeOK
  <2> QED
    BY <1>5, <2>1 DEF EnsureRBAC, TypeOK, SnapshotCurrent, FinalizerHeld
<1>6. CASE RBACDone
  BY <1>6, <1>kinds DEF RBACDone, Goto, TypeOK, Pcs, SnapshotCurrent,
     FinalizerHeld, EnsurePcs, DeletePcs
<1>7. CASE EnsureChild
  <2>1. /\ obj' \in [Kinds -> [Namespaces -> Objects]]
        /\ faults' \in 0..MaxFaults
        /\ failed' \in BOOLEAN
        /\ todo' \subseteq Kinds
    BY <1>7, ResultsTyped, CallTyped DEF EnsureChild, TypeOK
  <2> QED
    BY <1>7, <2>1 DEF EnsureChild, Goto, TypeOK, Pcs, SnapshotCurrent,
       FinalizerHeld, EnsurePcs, DeletePcs
<1>8. CASE SyncStatus
  <2>1. queue' \subseteq Sesames /\ faults' \in 0..MaxFaults
    BY <1>8, <1>busy, FaultTyped DEF SyncStatus, Finish, TypeOK
  <2> QED
    BY <1>8, <2>1, ResetInductive DEF SyncStatus, Finish, TypeOK, Pcs
<1>9. CASE DeleteChild
  <2>1. /\ obj' \in [Kinds -> [Namespaces -> Objects]]
        /\ faults' \in 0..MaxFaults
        /\ failed' \in BOOLEAN
        /\ todo' \subseteq Kinds
    BY <1>9, ResultsTyped, CallTyped DEF DeleteChild, TypeOK
  <2> QED
    BY <1>9, <2>1 DEF DeleteChild, TypeOK, SnapshotCurrent, FinalizerHeld
<1>10. CASE ListInNs
  <2>1. shared' \in BOOLEAN /\ failed' \in BOOLEAN /\ faults' \in 0..MaxFaults
    BY <1>10, FaultTyped DEF ListInNs, TypeOK, OtherSesamesExistInSpecNs
  <2> QED
    BY <1>10, <2>1 DEF ListInNs, Goto, TypeOK, Pcs, SnapshotCurrent,
       FinalizerHeld, EnsurePcs, DeletePcs
<1>11. CASE ListAll
  <2>1. failed' \in BOOLEAN /\ todo' \subseteq Kinds /\ faults' \in 0..MaxFaults
    BY <1>11, <1>kinds, FaultTyped DEF ListAll, TypeOK
  <2> QED
    BY <1>11, <2>1 DEF ListAll, Goto, TypeOK, Pcs, SnapshotCurrent,
       FinalizerHeld, EnsurePcs, DeletePcs
<1>12. CASE DeleteRBAC
  <2>1. /\ obj' \in [Kinds -> [Namespaces -> Objects]]
        /\ faults' \in 0..MaxFaults
        /\ failed' \in BOOLEAN
        /\ todo' \subseteq Kinds
    BY <1>12, ResultsTyped, CallTyped DEF DeleteRBAC, TypeOK
  <2> QED
    BY <1>12, <2>1 DEF DeleteRBAC, TypeOK, SnapshotCurrent, FinalizerHeld
<1>13. CASE RBACDeleted
  BY <1>13 DEF RBACDeleted, Goto, TypeOK, Pcs, SnapshotCurrent,
     FinalizerHeld, EnsurePcs, DeletePcs
<1>14. CASE CheckNamespace
  <2>1. failed' \in BOOLEAN /\ faults' \in 0..MaxFaults
    BY <1>14, FaultTyped DEF CheckNamespace, TypeOK
  <2> QED
    BY <1>14, <2>1 DEF CheckNamespace, Goto, TypeOK, Pcs, SnapshotCurrent,
       FinalizerHeld, EnsurePcs, DeletePcs
<1>15. CASE DeleteNamespace
  <2>1. /\ failed' \in BOOLEAN
        /\ faults' \in 0..MaxFaults
        /\ terminating' \subseteq Namespaces
    BY <1>15, <1>busy, FaultTyped DEF DeleteNamespace, TypeOK
  <2> QED
    BY <1>15, <2>1 DEF DeleteNamespace, Goto, TypeOK, Pcs, SnapshotCurrent,
       FinalizerHeld, EnsurePcs, DeletePcs
<1>16. CASE EnsureFinalizerRemoved
  <2>1. queue' \subseteq Sesames /\ faults' \in 0..MaxFaults
    BY <1>16, <1>busy, FaultTyped DEF EnsureFinalizerRemoved, Finish, TypeOK
  <2>2. /\ phase' \in [Sesames -> Phases]
        /\ spec' \in [Sesames -> Specs \cup {Nil}]
        /\ \A s \in Sesames : phase'[s] = "none" <=> spec'[s] = Nil
    BY <1>16, <1>busy DEF EnsureFinalizerRemoved, TypeOK, Phases
  <2> QED
    BY <1>16, <2>1, <2>2, ResetInductive DEF EnsureFinalizerRemoved, Finish, TypeOK, Pcs
<1>17. ASSUME NEW k \in Kinds, SyncCache(k) PROVE IInv'
  BY <1>17 DEF SyncCache, OwnersOf, TypeOK, SnapshotCurrent, FinalizerHeld
<1>18. CASE Resync
  BY <1>18 DEF Resync, Present, TypeOK, SnapshotCurrent, FinalizerHeld
<1>19. CASE Crash
  BY <1>19, FaultTyped, ResetInductive DEF Crash, Present, TypeOK, Pcs
<1>20. ASSUME NEW s \in Sesames, CreateSesame(s) PROVE IInv'
  <2>1. /\ phase' \in [Sesames -> Phases]
        /\ spec' \in [Sesames -> Specs \cup {Nil}]
        /\ \A t \in Sesames : phase'[t] = "none" <=> spec'[t] = Nil
    BY <1>20 DEF CreateSesame, TypeOK, Phases
  <2>2. edits' \in 0..MaxEdits /\ fresh' \in BOOLEAN /\ queue' \subseteq Sesames
    BY <1>20 DEF CreateSesame, Edit, Touch, TypeOK
  <2>3. TypeOK'
    BY <1>20, <2>1, <2>2 DEF CreateSesame, Edit, TypeOK
  <2>4. SnapshotCurrent' /\ FinalizerHeld'
    BY <1>20, <1>busy DEF CreateSesame, Edit, Touch, TypeOK, SnapshotCurrent,
       FinalizerHeld, EnsurePcs, DeletePcs
  <2> QED
    BY <2>3, <2>4
<1>21. ASSUME NEW s \in Sesames, EditSpec(s) PROVE IInv'
  <2>1. /\ spec' \in [Sesames -> Specs \cup {Nil}]
        /\ \A t \in Sesames : phase'[t] = "none" <=> spec'[t] = Nil
    BY <1>21 DEF EditSpec, TypeOK
  <2>2. edits' \in 0..MaxEdits /\ fresh' \in BOOLEAN /\ queue' \subseteq Sesames
    BY <1>21 DEF EditSpec, Edit, Touch, TypeOK
  <2>3. TypeOK'
    BY <1>21, <2>1, <2>2 DEF EditSpec, Edit, TypeOK
  <2>4. SnapshotCurrent' /\ FinalizerHeld'
    BY <1>21, <1>busy DEF EditSpec, Edit, Touch, TypeOK, SnapshotCurrent,
       FinalizerHeld, EnsurePcs, DeletePcs
  <2> QED
    BY <2>3, <2>4
<1>22. ASSUME NEW s \in Sesames, DeleteSesame(s) PROVE IInv'
  <2>1. /\ phase' \in [Sesames -> Phases]
        /\ spec' \in [Sesames -> Specs \cup {Nil}]
        /\ \A t \in Sesames : phase'[t] = "none" <=> spec'[t] = Nil
    BY <1>22 DEF DeleteSesame, TypeOK, Phases
  <2>2. edits' \in 0..MaxEdits /\ fresh' \in BOOLEAN /\ queue' \subseteq Sesames
    BY <1>22 DEF DeleteSesame, Edit, Touch, TypeOK
  <2>3. TypeOK'
    BY <1>22, <2>1, <2>2 DEF DeleteSesame, Edit, TypeOK
  <2>4. SnapshotCurrent' /\ FinalizerHeld'
    <3>1. /\ UNCHANGED <<pc, cur, snap, finalized>>
          /\ fresh' = (fresh /\ s # cur)
          /\ \A c \in Sesames :
                c # s => phase'[c] = phase[c] /\ spec'[c] = spec[c]
      BY <1>22 DEF DeleteSesame, Edit, Touch, TypeOK
    <3>2. \/ phase[s] = "new"
          \/ phase[s] = "live" /\ phase'[s] = "deleting"
      BY <1>22 DEF DeleteSesame, TypeOK
    <3>3. CASE s = cur
      <4>1. phase[s] = "new" => pc \notin EnsurePcs \cup DeletePcs
                                /\ ~ (pc = "validate" /\ finalized)
        BY <3>3 DEF FinalizerHeld
      <4> QED
        <5>1. SnapshotCurrent'
          BY <3>1, <3>3 DEF SnapshotCurrent
        <5>2. CASE phase[s] = "new"
          BY <5>1, <5>2, <3>1, <4>1 DEF FinalizerHeld
        <5>3. CASE phase[s] = "live" /\ phase'[s] = "deleting"
          BY <5>1, <5>3, <3>1, <3>3 DEF FinalizerHeld
        <5> QED
          BY <3>2, <5>2, <5>3
    <3>4. CASE s # cur
      <4>1. pc # "idle" => phase'[cur] = phase[cur] /\ spec'[cur] = spec[cur]
        BY <3>1, <3>4, <1>busy
      <4> QED
        <5>1. SnapshotCurrent'
          BY <3>1, <3>4, <4>1 DEF SnapshotCurrent
        <5>2. FinalizerHeld'
          BY <3>1, <4>1 DEF FinalizerHeld, EnsurePcs, DeletePcs
        <5> QED
          BY <5>1, <5>2
    <3> QED
      BY <3>3, <3>4
  <2> QED
    BY <2>3, <2>4
<1>23. ASSUME NEW k \in Kinds, NEW n \in Namespaces, Meddle(k, n) PROVE IInv'
  <2> DEFINE o == obj[k][n]
  <2>0. Altered(o) \in Objects
    BY DEF Altered, TypeOK, Objects
  <2>1. PICK o2 \in {NoObject, Altered(o), StrangersObject} :
          obj' = [obj EXCEPT ![k][n] = o2]
    BY <1>23 DEF Meddle
  <2>2. obj' \in [Kinds -> [Namespaces -> Objects]]
    BY <2>0, <2>1, ObjectsTyped DEF TypeOK
  <2>3. meddles' \in 0..MaxMeddles
    BY <1>23 DEF Meddle, TypeOK
  <2> QED
    BY <1>23, <2>2, <2>3 DEF Meddle, TypeOK, SnapshotCurrent, FinalizerHeld
<1>24. ASSUME NEW n \in Namespaces, MeddleNamespace(n) PROVE IInv'
  <2>0. Altered(obj["namespace"][n]) \in Objects
    BY <1>kinds DEF Altered, TypeOK, Objects
  <2>1. /\ obj' \in [Kinds -> [Namespaces -> Objects]]
        /\ terminating' \subseteq Namespaces
        /\ meddles' \in 0..MaxMeddles
    <3>1. CASE UNCHANGED obj /\ terminating' = terminating \cup {n}
      BY <1>24, <3>1 DEF MeddleNamespace, TypeOK
    <3>2. CASE obj' = [obj EXCEPT !["namespace"][n] = StrangersObject]
               /\ UNCHANGED terminating
      BY <1>24, <1>kinds, <3>2, ObjectsTyped DEF MeddleNamespace, TypeOK
    <3>3. CASE obj' = [obj EXCEPT !["namespace"][n] = Altered(obj["namespace"][n])]
               /\ UNCHANGED terminating
      BY <1>24, <1>kinds, <3>3, <2>0 DEF MeddleNamespace, TypeOK
    <3> QED
      BY <1>24, <3>1, <3>2, <3>3 DEF MeddleNamespace
  <2> QED
    BY <1>24, <2>1 DEF MeddleNamespace, TypeOK, SnapshotCurrent, FinalizerHeld
<1>25. ASSUME NEW k \in Kinds, NEW n \in Namespaces, DrainNamespace(k, n) PROVE IInv'
  <2>1. /\ obj' \in [Kinds -> [Namespaces -> Objects]]
        /\ terminating' \subseteq Namespaces
    BY <1>25, ObjectsTyped DEF DrainNamespace, TypeOK
  <2> QED
    BY <1>25, <2>1 DEF DrainNamespace, TypeOK, SnapshotCurrent, FinalizerHeld
<1>26. CASE UNCHANGED vars
  BY <1>26 DEF vars, TypeOK, SnapshotCurrent, FinalizerHeld
<1> QED
  BY <1>1, <1>2, <1>3, <1>4, <1>5, <1>6, <1>7, <1>8, <1>9, <1>10, <1>11,
     <1>12, <1>13, <1>14, <1>15, <1>16, <1>17, <1>18, <1>19, <1>20, <1>21,
     <1>22, <1>23, <1>24, <1>25, <1>26 DEF Next, Reconcile, Work, Users

\* The type invariant, which fails to be inductive by itself: EnsureFinalizer
\* writes the phase of a Sesame it must not bring back from the dead.
THEOREM TypeCorrect == Spec => []TypeOK
<1>1. Init => IInv
  BY InitInductive
<1>2. IInv /\ [Next]_vars => IInv'
  BY NextInductive
<1>3. IInv => TypeOK
  BY DEF IInv
<1> QED
  BY <1>1, <1>2, <1>3, PTL DEF Spec

-----------------------------------------------------------------------------
(* Which steps give a Sesame an object.                                    *)

\* A call puts at most cur's object where something else was, and only if its
\* result says so.
LEMMA CallAcquires ==
  ASSUME TypeOK, pc # "idle", NEW k \in Kinds, NEW r \in Results,
         NEW err \in BOOLEAN, Call(k, r, err),
         r.object \in {Live(k), Desired(k), NoObject},
         NEW s \in Sesames, NEW j \in Kinds, NEW n \in Namespaces,
         obj'[j][n].owner = s, obj[j][n].owner # s
  PROVE  s = cur /\ n = snap.ns /\ r.object = Desired(k)
<1>1. snap.ns \in Namespaces
  BY DEF TypeOK, Specs
<1>2. PICK o \in Leftovers(k, r) : obj' = [obj EXCEPT ![k][snap.ns] = o]
  BY CallReplaces
<1>3. j = k /\ n = snap.ns
  BY <1>1, <1>2 DEF TypeOK
<1>4. obj'[j][n] = o
  BY <1>1, <1>2, <1>3 DEF TypeOK
<1>5. o # Live(k)
  BY <1>3, <1>4 DEF Live
<1>6. o # NoObject
  BY <1>4, NamesAssumption DEF NoObject
<1>7. o = Desired(k) /\ o = r.object
  BY <1>2, <1>5, <1>6 DEF Leftovers
<1> QED
  BY <1>3, <1>4, <1>7 DEF Desired

\* Only EnsureNamespace, EnsureRBAC and EnsureChild give a Sesame an object, and
\* only the one they reconcile, in the namespace that they read.
LEMMA AcquiringSteps ==
  ASSUME TypeOK, [Next]_vars, NEW s \in Sesames, NEW j \in Kinds, NEW n \in Namespaces,
         obj'[j][n].owner = s, obj[j][n].owner # s
  PROVE  s = cur /\ n = snap.ns /\ pc \in EnsurePcs
<1> USE DEF cluster, worker, bounds
<1>1. obj'[j][n].owner = s /\ obj[j][n].owner # s
  OBVIOUS
<1>2. obj' # obj
  BY <1>1
<1>kinds. "namespace" \in Kinds /\ RbacKinds \subseteq Kinds /\ ChildKinds \subseteq Kinds
  BY DEF Kinds
<1>free. s # Nil /\ s # Stranger
  BY NamesAssumption
<1>3. CASE EnsureNamespace
  BY <1>1, <1>3, <1>kinds, ResultsTyped, EnsureAcquires, CallAcquires
     DEF EnsureNamespace, EnsurePcs
<1>4. CASE EnsureRBAC
  <2>1. PICK k \in todo, err \in BOOLEAN : Call(k, Ensure(k), err)
    BY <1>4 DEF EnsureRBAC
  <2>2. k \in Kinds /\ pc # "idle"
    BY <1>4 DEF EnsureRBAC, TypeOK
  <2> QED
    BY <1>1, <1>4, <2>1, <2>2, ResultsTyped, EnsureAcquires, CallAcquires
       DEF EnsureRBAC, EnsurePcs
<1>5. CASE EnsureChild
  <2>1. PICK k \in todo, err \in BOOLEAN : Call(k, Ensure(k), err)
    BY <1>5 DEF EnsureChild
  <2>2. k \in Kinds /\ pc # "idle"
    BY <1>5 DEF EnsureChild, TypeOK
  <2> QED
    BY <1>1, <1>5, <2>1, <2>2, ResultsTyped, EnsureAcquires, CallAcquires
       DEF EnsureChild, EnsurePcs
<1>6. CASE DeleteChild
  <2>1. PICK k \in todo, err \in BOOLEAN : Call(k, EnsureDeleted(k), err)
    BY <1>6 DEF DeleteChild
  <2>2. k \in Kinds /\ pc # "idle" /\ snap.ns \in Namespaces
    BY <1>6 DEF DeleteChild, TypeOK, Specs
  <2>3. PICK o \in Leftovers(k, EnsureDeleted(k)) :
          obj' = [obj EXCEPT ![k][snap.ns] = o]
    BY <2>1, CallReplaces
  <2>4. o \in {Live(k), NoObject}
    BY DEF Leftovers, EnsureDeleted, Deleted, Unchanged
  <2> QED
    BY <1>1, <2>2, <2>3, <2>4, <1>free DEF TypeOK, NoObject, Live
<1>7. CASE DeleteRBAC
  <2>1. PICK k \in todo, err \in BOOLEAN : Call(k, Deleted, err)
    BY <1>7 DEF DeleteRBAC
  <2>2. k \in Kinds /\ pc # "idle" /\ snap.ns \in Namespaces
    BY <1>7 DEF DeleteRBAC, TypeOK, Specs
  <2>3. PICK o \in Leftovers(k, Deleted) : obj' = [obj EXCEPT ![k][snap.ns] = o]
    BY <2>1, CallReplaces
  <2>4. o \in {Live(k), NoObject}
    BY DEF Leftovers, Deleted
  <2> QED
    BY <1>1, <2>2, <2>3, <2>4, <1>free DEF TypeOK, NoObject, Live
<1>8. ASSUME NEW k \in Kinds, NEW m \in Namespaces, Meddle(k, m) PROVE FALSE
  <2>1. PICK o2 \in {NoObject, Altered(obj[k][m]), StrangersObject} :
          obj' = [obj EXCEPT ![k][m] = o2]
    BY <1>8 DEF Meddle
  <2>2. o2.owner \in {Nil, Stranger, obj[k][m].owner}
    BY DEF NoObject, StrangersObject, Altered
  <2> QED
    BY <1>1, <2>1, <2>2, <1>free DEF TypeOK
<1>9. ASSUME NEW m \in Namespaces, MeddleNamespace(m) PROVE FALSE
  <2>1. PICK o2 \in {Altered(obj["namespace"][m]), StrangersObject} :
          obj' = [obj EXCEPT !["namespace"][m] = o2]
    BY <1>2, <1>9 DEF MeddleNamespace
  <2>2. o2.owner \in {Stranger, obj["namespace"][m].owner}
    BY DEF StrangersObject, Altered
  <2> QED
    BY <1>1, <1>kinds, <2>1, <2>2, <1>free DEF TypeOK
<1>10. ASSUME NEW k \in Kinds, NEW m \in Namespaces, DrainNamespace(k, m) PROVE FALSE
  BY <1>1, <1>10, <1>free DEF DrainNamespace, TypeOK, NoObject
<1> QED
  BY <1>2, <1>3, <1>4, <1>5, <1>6, <1>7, <1>8, <1>9, <1>10
     DEF Next, Reconcile, Work, Users, GetSesame, Validate, EnsureFinalizer,
         RBACDone, SyncStatus, ListInNs, ListAll, RBACDeleted, CheckNamespace,
         DeleteNamespace, EnsureFinalizerRemoved, SyncCache, Resync, Crash,
         CreateSesame, EditSpec, DeleteSesame, Edit, vars

\* Whatever users do during a reconcile, the Sesame that gets an object has
\* its finalizer.
THEOREM ChildrenAreGuarded == Spec => FinalizerGuards
<1>1. IInv /\ [Next]_vars =>
        \A s \in Sesames : Acquires(s) => phase[s] \in {"live", "deleting"}
  BY AcquiringSteps DEF Acquires, IInv, FinalizerHeld
<1> QED
  BY <1>1, InitInductive, NextInductive, PTL DEF Spec, FinalizerGuards
-----------------------------------------------------------------------------
(* The finalizer goes after the child objects, if the caches are current.  *)

\* While nothing has failed, the kinds already dealt with are gone.
Cleaned ==
    pc \in DeletePcs /\ ~ failed =>
        \A k \in ChildKinds :
            (pc = "delete" => k \notin todo) => obj[k][snap.ns].owner # cur

\* The ways in which the worker gets to, or stays in, the deletion of a Sesame
\* without having failed.
LEMMA DeletionSteps ==
  ASSUME IInv, [Next]_vars, pc' \in DeletePcs, ~ failed'
  PROVE  \/ pc' = "delete" /\ todo' = ChildKinds
         \/ DeleteChild
         \/ /\ pc \in DeletePcs
            /\ ~ failed
            /\ UNCHANGED <<cur, snap>>
            /\ \/ UNCHANGED <<pc, todo>>
               \/ pc = "delete" /\ todo = {}
               \/ pc # "delete" /\ pc' # "delete"
<1> USE DEF cluster, worker, bounds
<1>1. ASSUME NEW s \in Sesames, GetSesame(s)
      PROVE  \/ pc' = "delete" /\ todo' = ChildKinds
             \/ UNCHANGED worker
  BY <1>1 DEF GetSesame, DeletePcs
<1>2. CASE Validate \/ EnsureFinalizer \/ SyncStatus \/ EnsureFinalizerRemoved \/ Crash
  BY <1>2 DEF Validate, EnsureFinalizer, SyncStatus, EnsureFinalizerRemoved,
     Crash, Finish, Reset, Goto, DeletePcs
<1>3. CASE EnsureNamespace \/ EnsureRBAC \/ RBACDone \/ EnsureChild
  BY <1>3 DEF EnsureNamespace, EnsureRBAC, RBACDone, EnsureChild, Goto, DeletePcs
<1>4. CASE ListInNs \/ ListAll
  BY <1>4 DEF ListInNs, ListAll, Goto, DeletePcs
<1>5. CASE DeleteRBAC
  <2>1. ~ failed
    BY <1>5 DEF DeleteRBAC
  <2> QED
    BY <1>5, <2>1 DEF DeleteRBAC, DeletePcs
<1>6. CASE RBACDeleted \/ CheckNamespace \/ DeleteNamespace
  BY <1>6 DEF RBACDeleted, CheckNamespace, DeleteNamespace, Goto, DeletePcs
<1>7. ASSUME NEW s \in Sesames, CreateSesame(s) \/ EditSpec(s) \/ DeleteSesame(s)
      PROVE  UNCHANGED <<pc, cur, snap, todo, failed>>
  BY <1>7 DEF CreateSesame, EditSpec, DeleteSesame, Edit
<1>8. ASSUME NEW k \in Kinds, NEW n \in Namespaces,
             Meddle(k, n) \/ DrainNamespace(k, n)
      PROVE  UNCHANGED worker
  BY <1>8 DEF Meddle, DrainNamespace
<1>9. CASE Resync \/ UNCHANGED vars
  BY <1>9 DEF Resync, vars
<1>10. ASSUME NEW k \in Kinds, SyncCache(k) PROVE UNCHANGED worker
  BY <1>10 DEF SyncCache
<1>11. ASSUME NEW n \in Namespaces, MeddleNamespace(n) PROVE UNCHANGED worker
  BY <1>11 DEF MeddleNamespace
<1> QED
  BY <1>1, <1>2, <1>3, <1>4, <1>5, <1>6, <1>7, <1>8, <1>9, <1>10, <1>11
     DEF Next, Reconcile, Work, Users

\* With current caches every kind that was dealt with stays gone: nobody but
\* the worker gives cur an object, and it does not while it tears cur down.
LEMMA CleanedInductive ==
  ASSUME StaleReads = FALSE
  PROVE  IInv /\ Cleaned /\ [Next]_vars => Cleaned'
<1> SUFFICES ASSUME IInv, Cleaned, [Next]_vars, pc' \in DeletePcs, ~ failed',
                    NEW k \in ChildKinds, pc' = "delete" => k \notin todo'
             PROVE  obj'[k][snap'.ns].owner # cur'
  BY DEF Cleaned
<1>typed. TypeOK /\ ChildKinds \subseteq Kinds
  BY DEF IInv, Kinds
<1>1. ~ (pc' = "delete" /\ todo' = ChildKinds)
  OBVIOUS
<1>2. CASE DeleteChild
  <2>1. PICK j \in todo, err \in BOOLEAN :
          /\ Call(j, EnsureDeleted(j), err)
          /\ failed' = (failed \/ err)
          /\ todo' = todo \ {j}
    BY <1>2 DEF DeleteChild
  <2>2. /\ pc = "delete" /\ pc' = "delete" /\ UNCHANGED <<cur, snap>>
        /\ cache = obj
        /\ snap.ns \in Namespaces /\ cur \in Sesames /\ j \in Kinds
    BY <1>2, <1>typed DEF DeleteChild, CacheReady, TypeOK, Specs
  <2>3. ~ err /\ ~ failed
    BY <2>1
  <2>4. obj' = [obj EXCEPT ![j][snap.ns] = EnsureDeleted(j).object]
    BY <2>1, <2>3 DEF Call
  <2>5. CASE k = j
    <3>1. obj'[k][snap.ns] = EnsureDeleted(j).object
      BY <1>typed, <2>2, <2>4, <2>5 DEF TypeOK
    <3>2. EnsureDeleted(j).object.owner # cur
      BY <2>2, NamesAssumption DEF EnsureDeleted, Deleted, Unchanged, Seen, Live,
         NoObject
    <3> QED
      BY <2>2, <3>1, <3>2
  <2>6. CASE k # j
    <3>1. obj'[k][snap.ns] = obj[k][snap.ns]
      BY <1>typed, <2>2, <2>4, <2>6 DEF TypeOK
    <3>2. k \notin todo
      BY <2>1, <2>2, <2>6
    <3> QED
      BY <2>2, <2>3, <3>1, <3>2 DEF Cleaned, DeletePcs
  <2> QED
    BY <2>5, <2>6
<1>3. CASE /\ pc \in DeletePcs
           /\ ~ failed
           /\ UNCHANGED <<cur, snap>>
           /\ \/ UNCHANGED <<pc, todo>>
              \/ pc = "delete" /\ todo = {}
              \/ pc # "delete" /\ pc' # "delete"
  <2>1. pc = "delete" => k \notin todo
    BY <1>3
  <2>2. obj[k][snap.ns].owner # cur
    BY <1>3, <2>1 DEF Cleaned
  <2>3. cur \in Sesames /\ snap.ns \in Namespaces
    BY <1>3, <1>typed DEF TypeOK, Specs, DeletePcs
  <2>4. ~ Acquires(cur)
    BY <1>3, <1>typed, <2>3, AcquiringSteps DEF Acquires, EnsurePcs, DeletePcs
  <2> QED
    BY <1>3, <1>typed, <2>2, <2>3, <2>4 DEF Acquires
<1> QED
  BY <1>1, <1>2, <1>3, DeletionSteps

\* Only EnsureFinalizerRemoved makes a marked Sesame disappear.
LEMMA RemovingSteps ==
  ASSUME IInv, [Next]_vars, NEW s \in Sesames,
         phase[s] = "deleting", phase'[s] = "none"
  PROVE  /\ s = cur /\ spec[s] = snap
         /\ pc = "unfinalize" /\ ~ failed
<1> USE DEF cluster, worker, bounds
<1>1. phase' # phase
  OBVIOUS
<1>2. CASE EnsureFinalizer
  BY <1>2 DEF EnsureFinalizer, IInv, TypeOK
<1>3. ASSUME NEW t \in Sesames, CreateSesame(t) \/ DeleteSesame(t) PROVE FALSE
  BY <1>3 DEF CreateSesame, DeleteSesame, IInv, TypeOK
<1>4. CASE EnsureFinalizerRemoved
  <2>1. pc = "unfinalize" /\ ~ failed /\ fresh /\ phase' = [phase EXCEPT ![cur] = "none"]
    BY <1>1, <1>4 DEF EnsureFinalizerRemoved
  <2>2. s = cur
    BY <2>1 DEF IInv, TypeOK
  <2> QED
    BY <2>1, <2>2 DEF IInv, SnapshotCurrent
<1> QED
  BY <1>1, <1>2, <1>3, <1>4
     DEF Next, Reconcile, Work, Users, GetSesame, Validate, EnsureNamespace,
         EnsureRBAC, RBACDone, EnsureChild, SyncStatus, DeleteChild, ListInNs,
         ListAll, DeleteRBAC, RBACDeleted, CheckNamespace, DeleteNamespace,
         SyncCache, Resync, Crash, EditSpec, Meddle, MeddleNamespace,
         DrainNamespace, vars

\* With current caches, no failure, restart, conflict or edit makes the
\* operator let a Sesame go before the child objects in its namespace.
THEOREM RemovalIsClean ==
  ASSUME StaleReads = FALSE
  PROVE  Spec => NothingLeftBehind
<1>1. Init => Cleaned
  BY DEF Init, Cleaned, DeletePcs
<1>2. IInv /\ Cleaned /\ [Next]_vars => Cleaned'
  BY CleanedInductive
<1>3. IInv /\ Cleaned /\ [Next]_vars =>
        \A s \in Sesames : phase[s] = "deleting" /\ phase'[s] = "none" =>
            \A k \in ChildKinds : obj[k][spec[s].ns].owner # s
  BY RemovingSteps DEF Cleaned, DeletePcs
<1> QED
  BY <1>1, <1>2, <1>3, InitInductive, NextInductive, PTL DEF Spec, NothingLeftBehind
=============================================================================
