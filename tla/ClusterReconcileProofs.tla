----------------------- MODULE ClusterReconcileProofs -----------------------
(***************************************************************************)
(* Proofs about ClusterReconcile, for all values of its constants: its     *)
(* types, the record and the claims first, then the deletion and the       *)
(* specifications that the loop implements.                                *)
(***************************************************************************)
EXTENDS ClusterRefinement, TLAPS

-----------------------------------------------------------------------------
(* Type correctness.                                                        *)

\* Whatever the operator renders for a bkConfig is ConfigMap data.
LEMMA RenderingsInCmData ==
    ASSUME NEW c \in Configs
    PROVE  Renderings(c) \subseteq CmData
BY DEF CmData

\* A resource that was just created is a resource.
LEMMA NewClusterType ==
    ASSUME NEW s \in SpecType
    PROVE  NewCluster(s) \in ClusterType
BY ConstantsAssumption DEF NewCluster, NoMeta, ClusterType, MetaType, Phases

\* The parts of a resource have their types, and may be replaced.
LEMMA ClusterParts ==
    ASSUME NEW c \in ClusterType
    PROVE  /\ c.phase \in Phases /\ c.fin \in BOOLEAN /\ c.ready \in Nat
           /\ c.spec \in SpecType /\ c.meta \in MetaType
           /\ c.phase = "deleting" => c.fin
BY DEF ClusterType

\* Every change the operator or a user makes of a resource gives a resource.
LEMMA ClusterUpdates ==
    ASSUME NEW c \in ClusterType
    PROVE  /\ \A s \in SpecType : [c EXCEPT !.spec = s] \in ClusterType
           /\ \A m \in MetaType : [c EXCEPT !.meta = m] \in ClusterType
           /\ \A r \in Nat : [c EXCEPT !.ready = r] \in ClusterType
           /\ [c EXCEPT !.fin = TRUE] \in ClusterType
           /\ [c EXCEPT !.fin = FALSE, !.phase = "finalized"] \in ClusterType
           /\ [c EXCEPT !.phase = IF c.fin THEN "deleting" ELSE "deleted"]
                \in ClusterType
           /\ [c EXCEPT !.spec.size = 0, !.spec.ar = 0] \in ClusterType
BY DEF ClusterType, SpecType, Phases

\* The absent copy is not a resource.
LEMMA NoClusterIsNoCluster ==
    /\ ~Exists(NoCluster)
    /\ \A c \in ClusterType : c # NoCluster
BY DEF NoCluster, Exists, ClusterType, Phases

\* The fields of a spec have their types, and so has what is recorded of it.
LEMMA SpecParts ==
    ASSUME NEW s \in SpecType
    PROVE  /\ s.size \in Nat /\ s.ar \in Nat /\ s.ver \in Versions
           /\ s.cfg \in Configs /\ s.mu \in Nat
           /\ RecordedMeta(s) \in MetaType
BY DEF SpecType, RecordedMeta, MetaType

\* The Deployment that autorecovery is to have is one, with the replicas of the
\* spec.
LEMMA SpecifiedDepParts ==
    ASSUME NEW c, c.spec \in SpecType, NEW d \in WorkloadType
    PROVE  /\ SpecifiedDep(c, d) \in WorkloadType
           /\ SpecifiedDep(c, d).exists
           /\ SpecifiedDep(c, d).replicas = c.spec.ar
BY SpecParts DEF SpecifiedDep, WorkloadType

\* The types hold when the resource has just been created.
LEMMA TypeInit == Init => TypeOK
<1> SUFFICES ASSUME Init PROVE TypeOK
  OBVIOUS
<1>1. cr \in ClusterType
  BY ConstantsAssumption, NewClusterType DEF Init
<1>2. LoopTypes
  BY <1>1 DEF Init, LoopTypes, Steps
<1>3. {NoSts, NoDep} \subseteq WorkloadType /\ NoPdb \in [exists: BOOLEAN, mu: Nat]
  BY DEF NoSts, NoDep, NoPdb, WorkloadType
<1>4. NoCm \in [exists: BOOLEAN, data: CmData]
  BY DEF NoCm, CmData
<1>5. ObjectTypes
  BY <1>3, <1>4 DEF Init, ObjectTypes
<1>6. OutsideTypes
  BY ConstantsAssumption DEF Init, OutsideTypes
<1>7. QED
  BY <1>2, <1>5, <1>6 DEF TypeOK

(* What each way to continue or to end a run does to the loop's variables.  *)

\* A run that goes on keeps the types of the loop.
LEMMA ProceedTypes ==
    ASSUME LoopTypes, pc # "idle", NEW step \in Steps,
           Proceed(step), UNCHANGED crVars
    PROVE  LoopTypes'
BY DEF LoopTypes, Proceed, Goto, memVars, crVars, Exists

\* A run that ends, well or with an error, keeps the types of the loop.
LEMMA LeaveTypes ==
    ASSUME LoopTypes, EndRun \/ Fail, UNCHANGED crVars
    PROVE  LoopTypes'
BY DEF LoopTypes, EndRun, Fail, Leave, crVars, Steps

\* A write of the resource after which the run goes on keeps them.
LEMMA AcceptTypes ==
    ASSUME LoopTypes, NEW new \in ClusterType, NEW step \in Steps,
           Exists(new),
           WriteAndProceed(new, step)
    PROVE  LoopTypes'
<1>1. CASE Accept(new) /\ mem' = new /\ UNCHANGED memFresh /\ Goto(step)
  BY <1>1 DEF LoopTypes, Accept, Goto, Exists
<1>2. CASE Conflict
  BY <1>2, LeaveTypes DEF Conflict
<1>3. QED
  BY <1>1, <1>2 DEF WriteAndProceed

\* A write of the resource that ends the run keeps them.
LEMMA AcceptLastTypes ==
    ASSUME LoopTypes, NEW new \in ClusterType,
           WriteAndEnd(new)
    PROVE  LoopTypes'
<1>1. CASE Accept(new) /\ EndRun
  BY <1>1 DEF LoopTypes, Accept, EndRun, Leave, Steps
<1>2. CASE Conflict
  BY <1>2, LeaveTypes DEF Conflict
<1>3. QED
  BY <1>1, <1>2 DEF WriteAndEnd

\* A change of the resource by a user keeps them.
LEMMA UserTypes ==
    ASSUME LoopTypes, NEW new \in ClusterType,
           NewVersionBy(new), UNCHANGED loopVars
    PROVE  LoopTypes'
BY DEF LoopTypes, NewVersionBy, loopVars, Exists

\* The copy of a run is a resource.
LEMMA RunHoldsResource ==
    ASSUME LoopTypes, pc # "idle"
    PROVE  mem \in ClusterType /\ Exists(mem)
BY NoClusterIsNoCluster DEF LoopTypes

\* Every step keeps the types of the resource, its copies and the loop.
LEMMA LoopTypesStep ==
    ASSUME TypeOK, [Next]_vars
    PROVE  LoopTypes'
<1> USE DEF TypeOK
<1>1. CASE BeginRun
  BY <1>1 DEF BeginRun, FoundByRun, LoopTypes, Steps, memVars, crVars
<1>2. CASE ReconcilePodDisruptionBudget \/ ReconcileConfigMap
  BY <1>2, ProceedTypes DEF ReconcilePodDisruptionBudget, ReconcileConfigMap, Steps
<1>3. CASE ReconcileServices
  BY <1>3, ProceedTypes DEF ReconcileServices, ReconcileService, Steps
<1>4. CASE CreateStatefulSet \/ UpdateStatefulSet \/ KeepStatefulSet
  BY <1>4, ProceedTypes, LeaveTypes
  DEF CreateStatefulSet, UpdateStatefulSet, KeepStatefulSet, Steps
<1>5. CASE UpdateStatefulsetPVCs \/ ReconcileAutoRecovery
  BY <1>5, ProceedTypes, LeaveTypes DEF UpdateStatefulsetPVCs, ReconcileAutoRecovery, Steps
<1>6. CASE UpdateMetadata \/ UpdateClusterSizeMeta
  BY <1>6, ProceedTypes
  DEF UpdateMetadata, MetadataStep, UpdateClusterSizeMeta, Steps
<1>7. CASE RecordMetadata
  <2> DEFINE new == [mem EXCEPT !.meta = RecordedMeta(mem.spec)]
  <2>1. mem \in ClusterType /\ Exists(mem)
    BY <1>7, RunHoldsResource DEF RecordMetadata
  <2>2. new \in ClusterType /\ Exists(new)
    BY <2>1, ClusterParts, ClusterUpdates, SpecParts DEF Exists, ClusterType
  <2> QED
    BY <1>7, <2>2, AcceptTypes DEF RecordMetadata, Steps
<1>8. CASE UpdateStatus
  <2> DEFINE new == [mem EXCEPT !.ready = ListedPods]
  <2>1. mem \in ClusterType /\ Exists(mem)
    BY <1>8, RunHoldsResource DEF UpdateStatus
  <2>2. ListedPods \in Nat
    BY DEF ListedPods, OutsideTypes
  <2>3. new \in ClusterType /\ Exists(new)
    BY <2>1, <2>2, ClusterUpdates DEF Exists, ClusterType
  <2> QED
    BY <1>8, <2>3, AcceptTypes DEF UpdateStatus, Steps
<1>9. CASE AddFinalizer \/ DownscaleToZero \/ RemoveFinalizer
  <2>1. mem \in ClusterType
    BY <1>9, RunHoldsResource DEF AddFinalizer, DownscaleToZero, RemoveFinalizer
  <2> QED
    BY <1>9, <2>1, ClusterUpdates, AcceptLastTypes
    DEF AddFinalizer, DownscaleToZero, RemoveFinalizer
<1>10. CASE KeepFinalizer \/ WaitError \/ AbortRun
  BY <1>10, LeaveTypes DEF KeepFinalizer, WaitError, AbortRun
<1>11. CASE StartCleanUp \/ WaitClusterTermination \/ DeleteMetadata
  BY <1>11, ProceedTypes
  DEF StartCleanUp, WaitClusterTermination, DeleteMetadata, Steps
<1>12. CASE EditSpec
  <2>1. PICK e \in Edits : NewVersionBy([cr EXCEPT !.spec = e[2]])
    BY <1>12 DEF EditSpec
  <2> DEFINE new == [cr EXCEPT !.spec = e[2]]
  <2>2. new \in ClusterType
    BY ConstantsAssumption, ClusterUpdates DEF LoopTypes
  <2> QED
    BY <1>12, <2>1, <2>2, UserTypes DEF EditSpec
<1>13. CASE DeleteCluster
  <2> DEFINE new == [cr EXCEPT !.phase = IF cr.fin THEN "deleting" ELSE "deleted"]
  <2>1. new \in ClusterType
    BY ClusterUpdates DEF LoopTypes
  <2> QED
    BY <1>13, <2>1, UserTypes DEF DeleteCluster
<1>14. CASE SyncCluster \/ SyncStatefulSet \/ SyncDeployment
  BY <1>14 DEF SyncCluster, SyncStatefulSet, SyncDeployment, LoopTypes, memVars,
      crVars
<1>15. CASE StartBookie \/ StopBookie \/ ScaleAutoRecovery
  BY <1>15 DEF StartBookie, StopBookie, ScaleAutoRecovery, LoopTypes, memVars, crVars
<1>16. CASE BookieWritesLedgers \/ GarbageCollect \/ UNCHANGED vars
  BY <1>16 DEF BookieWritesLedgers, GarbageCollect, vars, LoopTypes, memVars,
               crVars, loopVars
<1> QED
  BY <1>1, <1>2, <1>3, <1>4, <1>5, <1>6, <1>7, <1>8, <1>9, <1>10, <1>11, <1>12,
     <1>13, <1>14, <1>15, <1>16 DEF Next, OperatorStep, UserStep

\* Every step keeps the types of the objects the resource owns.
LEMMA ObjectTypesStep ==
    ASSUME TypeOK, [Next]_vars
    PROVE  ObjectTypes'
<1> USE DEF TypeOK
<1>1. pc # "idle" => mem.spec \in SpecType
  BY RunHoldsResource, ClusterParts
<1>2. CASE ReconcilePodDisruptionBudget
  BY <1>1, <1>2, SpecParts
  DEF ReconcilePodDisruptionBudget, ObjectTypes, stsVars, depVars
<1>3. CASE ReconcileConfigMap
  <2>0. cm \in [exists: BOOLEAN, data: CmData]
    BY DEF ObjectTypes
  <2>1. mem.spec.cfg \in Configs
    BY <1>1, <1>3, SpecParts DEF ReconcileConfigMap
  <2>2. Renderings(mem.spec.cfg) \subseteq CmData
    BY <2>1, RenderingsInCmData
  <2> QED
    <3>1. \/ cm' = cm
          \/ \E d \in Renderings(mem.spec.cfg) : cm' = [exists |-> TRUE, data |-> d]
      BY <1>3 DEF ReconcileConfigMap
    <3>2. ASSUME NEW d \in CmData
          PROVE  [exists |-> TRUE, data |-> d] \in [exists: BOOLEAN, data: CmData]
      OBVIOUS
    <3>3. cm' \in [exists: BOOLEAN, data: CmData]
      BY ONLY <3>1, <3>2, <2>0, <2>2, Zenon
    <3>4. QED
      BY <1>3, <3>3 DEF ReconcileConfigMap, ObjectTypes, stsVars, depVars
<1>4. CASE ReconcileServices
  BY <1>4 DEF ReconcileServices, ReconcileService, ObjectTypes, stsVars, depVars
<1>5. CASE CreateStatefulSet \/ UpdateStatefulSet \/ KeepStatefulSet
  <2>1. SpecifiedSts(mem) \in WorkloadType
    BY <1>1, <1>5, SpecParts
    DEF SpecifiedSts, WorkloadType, CreateStatefulSet, UpdateStatefulSet,
        KeepStatefulSet
  <2> QED
    BY <1>5, <2>1
    DEF CreateStatefulSet, UpdateStatefulSet, KeepStatefulSet, ObjectTypes,
        stsVars, ownedVars, depVars
<1>6. CASE ReconcileAutoRecovery
  <2>1. SpecifiedDep(mem, depCache) \in WorkloadType
    BY <1>1, <1>6, SpecifiedDepParts DEF ReconcileAutoRecovery, ObjectTypes
  <2> QED
    BY <1>6, <2>1 DEF ReconcileAutoRecovery, ObjectTypes, stsVars
<1>7. CASE SyncStatefulSet \/ SyncDeployment
  BY <1>7
  DEF SyncStatefulSet, SyncDeployment, ObjectTypes, stsVars, ownedVars, depVars
<1>8. CASE GarbageCollect
  <2>1. NoSts \in WorkloadType /\ NoDep \in WorkloadType
    BY DEF NoSts, NoDep, WorkloadType
  <2>2. NoCm \in [exists: BOOLEAN, data: CmData]
    BY DEF NoCm, CmData
  <2> QED
    BY <1>8, <2>1, <2>2 DEF GarbageCollect, ObjectTypes, NoPdb
<1>9. CASE UNCHANGED <<stsVars, ownedVars>>
  BY <1>9 DEF ObjectTypes, stsVars, ownedVars, depVars
<1> QED
  BY <1>2, <1>3, <1>4, <1>5, <1>6, <1>7, <1>8, <1>9
  DEF Next, OperatorStep, UserStep, vars, BeginRun, UpdateStatefulsetPVCs,
      UpdateMetadata, UpdateClusterSizeMeta, RecordMetadata, UpdateStatus,
      AddFinalizer, KeepFinalizer, DownscaleToZero, StartCleanUp,
      WaitClusterTermination, DeleteMetadata, RemoveFinalizer, WaitError,
      AbortRun, EditSpec, DeleteCluster, SyncCluster, StartBookie, StopBookie,
      ScaleAutoRecovery, BookieWritesLedgers

\* Every step keeps the types of pods, claims, znodes and counters.
LEMMA OutsideTypesStep ==
    ASSUME TypeOK, [Next]_vars
    PROVE  OutsideTypes'
<1> USE DEF TypeOK
<1>1. CASE UpdateStatefulsetPVCs
  BY <1>1 DEF UpdateStatefulsetPVCs, OutsideTypes, bounds
<1>2. CASE UpdateClusterSizeMeta
  <2>1. mem.spec.size \in Nat
    BY <1>2, RunHoldsResource, ClusterParts, SpecParts DEF UpdateClusterSizeMeta
  <2> QED
    BY <1>2, <2>1
    DEF UpdateClusterSizeMeta, OutsideTypes, ZNodes, podVars, bounds
<1>3. CASE DeleteMetadata
  BY <1>3 DEF DeleteMetadata, OutsideTypes, podVars, bounds
<1>4. CASE AbortRun \/ EditSpec
  BY <1>4, ConstantsAssumption DEF AbortRun, EditSpec, OutsideTypes, podVars
<1>5. CASE StartBookie \/ StopBookie \/ ScaleAutoRecovery
  <2>1. sts.replicas \in Nat /\ dep.replicas \in Nat
    BY DEF ObjectTypes, WorkloadType
  <2>2. CASE StartBookie
    BY <2>2 DEF StartBookie, OutsideTypes, bounds
  <2>3. CASE StopBookie
    BY <2>1, <2>3 DEF StopBookie, OutsideTypes, bounds
  <2>4. CASE ScaleAutoRecovery
    BY <2>1, <2>4 DEF ScaleAutoRecovery, OutsideTypes, bounds
  <2> QED
    BY <1>5, <2>2, <2>3, <2>4
<1>6. CASE BookieWritesLedgers
  BY <1>6 DEF BookieWritesLedgers, OutsideTypes, ZNodes, podVars, bounds
<1>7. CASE UNCHANGED <<podVars, zk, bounds>>
  BY <1>7 DEF OutsideTypes, podVars, bounds
<1> QED
  BY <1>1, <1>2, <1>3, <1>4, <1>5, <1>6, <1>7
  DEF Next, OperatorStep, UserStep, vars, BeginRun,
      ReconcilePodDisruptionBudget, ReconcileConfigMap, ReconcileServices,
      ReconcileService, CreateStatefulSet, UpdateStatefulSet, KeepStatefulSet,
      ReconcileAutoRecovery, UpdateMetadata, RecordMetadata, UpdateStatus,
      AddFinalizer, KeepFinalizer, DownscaleToZero, StartCleanUp,
      WaitClusterTermination, RemoveFinalizer, WaitError, DeleteCluster,
      SyncCluster, SyncStatefulSet, SyncDeployment, GarbageCollect

\* TypeOK holds in every reachable state.
THEOREM TypeCorrect == Spec => []TypeOK
<1>1. TypeOK /\ [Next]_vars => TypeOK'
  BY LoopTypesStep, ObjectTypesStep, OutsideTypesStep DEF TypeOK
<1>2. QED
  BY <1>1, TypeInit, PTL DEF Spec
-----------------------------------------------------------------------------
(* The copies of the resource.                                              *)

\* A copy that is said to be the newest version is that version.  While a run
\* holds the newest version, the informer's copy may miss the status that this
\* very run wrote, but neither its spec nor its phase.
CopiesAgree ==
    /\ cacheFresh => cache = cr
    /\ memFresh => pc # "idle" /\ mem = cr
    /\ memFresh => cache.phase = mem.phase /\ cache.spec = mem.spec

\* There are no copies of the resource at first.
LEMMA CopiesInit == Init => CopiesAgree
BY DEF Init, CopiesAgree

\* A run that goes on keeps its copy of the resource.
LEMMA ProceedCopies ==
    ASSUME CopiesAgree, NEW step, step # "idle", Proceed(step), UNCHANGED crVars
    PROVE  CopiesAgree'
BY DEF CopiesAgree, Proceed, Goto, memVars, crVars

\* A run that ends drops its copy.
LEMMA LeaveCopies ==
    ASSUME CopiesAgree, EndRun \/ Fail, UNCHANGED crVars
    PROVE  CopiesAgree'
BY DEF CopiesAgree, EndRun, Fail, Leave, crVars

\* After a write the run works on what it wrote.
LEMMA AcceptCopies ==
    ASSUME CopiesAgree, NEW new, NEW step, step # "idle",
           new.phase = mem.phase, new.spec = mem.spec,
           WriteAndProceed(new, step)
    PROVE  CopiesAgree'
<1>1. CASE Accept(new) /\ mem' = new /\ UNCHANGED memFresh /\ Goto(step)
  BY <1>1 DEF CopiesAgree, Accept, Goto
<1>2. CASE Conflict
  BY <1>2, LeaveCopies DEF Conflict
<1>3. QED
  BY <1>1, <1>2 DEF WriteAndProceed

\* After a write that ends the run, the informer's copy is as true as before.
LEMMA AcceptLastCopies ==
    ASSUME CopiesAgree, NEW new, WriteAndEnd(new)
    PROVE  CopiesAgree'
<1>1. CASE Accept(new) /\ EndRun
  BY <1>1 DEF CopiesAgree, Accept, EndRun, Leave
<1>2. CASE Conflict
  BY <1>2, LeaveCopies DEF Conflict
<1>3. QED
  BY <1>1, <1>2 DEF WriteAndEnd

\* Every step keeps fresh copies equal to the resource.
LEMMA CopiesStep ==
    ASSUME TypeOK, CopiesAgree, [Next]_vars
    PROVE  CopiesAgree'
<1>1. CASE BeginRun
  BY <1>1 DEF BeginRun, CopiesAgree, memVars, crVars
<1>2. CASE ReconcilePodDisruptionBudget \/ ReconcileConfigMap
  BY <1>2, ProceedCopies DEF ReconcilePodDisruptionBudget, ReconcileConfigMap
<1>3. CASE ReconcileServices
  BY <1>3, ProceedCopies DEF ReconcileServices, ReconcileService
<1>4. CASE CreateStatefulSet \/ UpdateStatefulSet \/ KeepStatefulSet
  BY <1>4, ProceedCopies, LeaveCopies
  DEF CreateStatefulSet, UpdateStatefulSet, KeepStatefulSet
<1>5. CASE UpdateStatefulsetPVCs \/ ReconcileAutoRecovery
  BY <1>5, ProceedCopies, LeaveCopies
  DEF UpdateStatefulsetPVCs, ReconcileAutoRecovery
<1>6. CASE UpdateMetadata \/ UpdateClusterSizeMeta
  BY <1>6, ProceedCopies DEF UpdateMetadata, MetadataStep, UpdateClusterSizeMeta
<1>7. CASE RecordMetadata \/ UpdateStatus
  <2>1. mem \in ClusterType
    BY <1>7, RunHoldsResource DEF RecordMetadata, UpdateStatus, TypeOK
  <2>2. ASSUME NEW m PROVE /\ [mem EXCEPT !.meta = m].phase = mem.phase
                           /\ [mem EXCEPT !.meta = m].spec = mem.spec
    BY <2>1 DEF ClusterType
  <2>3. ASSUME NEW r PROVE /\ [mem EXCEPT !.ready = r].phase = mem.phase
                           /\ [mem EXCEPT !.ready = r].spec = mem.spec
    BY <2>1 DEF ClusterType
  <2> QED
    BY <1>7, <2>2, <2>3, AcceptCopies DEF RecordMetadata, UpdateStatus
<1>8. CASE AddFinalizer \/ DownscaleToZero \/ RemoveFinalizer
  BY <1>8, AcceptLastCopies DEF AddFinalizer, DownscaleToZero, RemoveFinalizer
<1>9. CASE KeepFinalizer \/ WaitError \/ AbortRun
  BY <1>9, LeaveCopies DEF KeepFinalizer, WaitError, AbortRun
<1>10. CASE StartCleanUp \/ WaitClusterTermination \/ DeleteMetadata
  BY <1>10, ProceedCopies DEF StartCleanUp, WaitClusterTermination, DeleteMetadata
<1>11. CASE UserStep
  BY <1>11 DEF UserStep, EditSpec, DeleteCluster, NewVersionBy, CopiesAgree
<1>12. CASE SyncCluster
  BY <1>12 DEF SyncCluster, CopiesAgree, memVars
<1>13. CASE UNCHANGED <<crVars, memVars, pc>>
  BY <1>13 DEF CopiesAgree, crVars, memVars
<1> QED
  BY <1>1, <1>2, <1>3, <1>4, <1>5, <1>6, <1>7, <1>8, <1>9, <1>10, <1>11, <1>12,
     <1>13
  DEF Next, OperatorStep, vars, loopVars, SyncStatefulSet, SyncDeployment,
      StartBookie,
      StopBookie, ScaleAutoRecovery, BookieWritesLedgers, GarbageCollect
-----------------------------------------------------------------------------
(* What the status records about the size, and which claims go.             *)

\* What the steps before RecordMetadata have done for it.
Recording ==
    pc \in {"zkTime", "record"} /\ mem.spec.size # mem.meta.size =>
        /\ "size" \in zk.nodes /\ zk.size = mem.spec.size
        /\ pc = "record" => "updatedat" \in zk.nodes

\* Idle claims go only once the StatefulSet has the new size, or is gone.
Reclaiming ==
    pc = "pvc" => DeleteStorage /\ sts.replicas <= mem.spec.size

\* Every step keeps what a run has told ZooKeeper before it records it.
LEMMA RecordingStep ==
    ASSUME TypeOK, Recording, [Next]_vars
    PROVE  Recording'
<1>1. CASE UpdateMetadata
  BY <1>1 DEF UpdateMetadata, MetadataStep, Proceed, Goto, memVars, Recording
<1>2. CASE UpdateClusterSizeMeta
  BY <1>2 DEF UpdateClusterSizeMeta, Proceed, Goto, memVars, Recording, TypeOK,
              OutsideTypes
<1>3. CASE BookieWritesLedgers
  BY <1>3 DEF BookieWritesLedgers, memVars, loopVars, Recording, TypeOK,
              OutsideTypes
<1>4. CASE UNCHANGED <<mem, pc, zk>>
  BY <1>4 DEF Recording
<1>5. CASE pc' \notin {"zkTime", "record"}
  BY <1>5 DEF Recording
<1>6. CASE BeginRun \/ RecordMetadata \/ UpdateStatus
  BY <1>4, <1>5, <1>6
  DEF BeginRun, RecordMetadata, UpdateStatus, WriteAndProceed, Goto, Conflict,
      Fail, Leave, memVars
<1>7. CASE \/ AddFinalizer \/ KeepFinalizer \/ DownscaleToZero \/ RemoveFinalizer
           \/ WaitError \/ AbortRun
  BY <1>5, <1>7
  DEF AddFinalizer, KeepFinalizer, DownscaleToZero, RemoveFinalizer, WaitError,
      AbortRun, WriteAndEnd, Conflict, EndRun, Fail, Leave
<1>8. CASE \/ ReconcilePodDisruptionBudget \/ ReconcileConfigMap
           \/ ReconcileServices \/ ReconcileAutoRecovery
           \/ CreateStatefulSet \/ UpdateStatefulSet \/ KeepStatefulSet
           \/ UpdateStatefulsetPVCs
  BY <1>5, <1>8
  DEF ReconcilePodDisruptionBudget, ReconcileConfigMap, ReconcileServices,
      ReconcileService, ReconcileAutoRecovery, CreateStatefulSet,
      UpdateStatefulSet, KeepStatefulSet, UpdateStatefulsetPVCs, Proceed, Goto,
      Fail, Leave
<1>9. CASE StartCleanUp \/ WaitClusterTermination \/ DeleteMetadata
  BY <1>5, <1>9
  DEF StartCleanUp, WaitClusterTermination, DeleteMetadata, Proceed, Goto
<1> QED
  BY <1>1, <1>2, <1>3, <1>4, <1>6, <1>7, <1>8, <1>9
  DEF Next, OperatorStep, UserStep, vars, memVars, loopVars, EditSpec,
      DeleteCluster, NewVersionBy, SyncCluster, SyncStatefulSet, SyncDeployment,
      StartBookie,
      StopBookie, ScaleAutoRecovery, GarbageCollect

\* Every step keeps the StatefulSet at the size a reclaiming run asked for.
LEMMA ReclaimingStep ==
    ASSUME TypeOK, Reclaiming, [Next]_vars
    PROVE  Reclaiming'
<1>1. pc # "idle" => mem.spec.size \in Nat
  BY RunHoldsResource, ClusterParts, SpecParts DEF TypeOK
<1>2. CASE UpdateStatefulSet
  BY <1>1, <1>2
  DEF UpdateStatefulSet, SpecifiedSts, Proceed, Goto, Fail, Leave, memVars,
      Reclaiming
<1>3. CASE GarbageCollect
  BY <1>1, <1>3 DEF GarbageCollect, NoSts, memVars, loopVars, Reclaiming
<1>4. CASE UNCHANGED <<mem, pc, sts>>
  BY <1>4 DEF Reclaiming
<1>5. CASE pc' # "pvc"
  BY <1>5 DEF Reclaiming
<1>6. CASE BeginRun \/ RecordMetadata \/ UpdateStatus
  BY <1>4, <1>5, <1>6
  DEF BeginRun, RecordMetadata, UpdateStatus, WriteAndProceed, Goto, Conflict,
      Fail, Leave, memVars, stsVars
<1>7. CASE \/ AddFinalizer \/ KeepFinalizer \/ DownscaleToZero \/ RemoveFinalizer
           \/ WaitError \/ AbortRun
  BY <1>5, <1>7
  DEF AddFinalizer, KeepFinalizer, DownscaleToZero, RemoveFinalizer, WaitError,
      AbortRun, WriteAndEnd, Conflict, EndRun, Fail, Leave
<1>8. CASE \/ ReconcilePodDisruptionBudget \/ ReconcileConfigMap
           \/ ReconcileServices \/ ReconcileAutoRecovery
           \/ CreateStatefulSet \/ KeepStatefulSet \/ UpdateStatefulsetPVCs
  BY <1>4, <1>5, <1>8
  DEF ReconcilePodDisruptionBudget, ReconcileConfigMap, ReconcileServices,
      ReconcileService, ReconcileAutoRecovery, CreateStatefulSet,
      KeepStatefulSet, UpdateStatefulsetPVCs, Proceed, Goto, Fail, Leave,
      memVars, stsVars
<1>9. CASE \/ UpdateMetadata \/ UpdateClusterSizeMeta \/ StartCleanUp
           \/ WaitClusterTermination \/ DeleteMetadata
  BY <1>5, <1>9
  DEF UpdateMetadata, MetadataStep, UpdateClusterSizeMeta, StartCleanUp,
      WaitClusterTermination, DeleteMetadata, Proceed, Goto
<1> QED
  BY <1>2, <1>3, <1>4, <1>6, <1>7, <1>8, <1>9
  DEF Next, OperatorStep, UserStep, vars, memVars, loopVars, stsVars, EditSpec,
      DeleteCluster, NewVersionBy, SyncCluster, SyncStatefulSet, SyncDeployment,
      StartBookie,
      StopBookie, ScaleAutoRecovery, BookieWritesLedgers

\* The inductive invariant of the two action properties below.
LoopInv == TypeOK /\ CopiesAgree /\ Recording /\ Reclaiming

\* The inductive invariant of the loop holds in every reachable state.
LEMMA LoopInvHolds == Spec => []LoopInv
<1>1. Init => LoopInv
  BY TypeInit, CopiesInit DEF LoopInv, Init, Recording, Reclaiming
<1>2. LoopInv /\ [Next]_vars => LoopInv'
  BY LoopTypesStep, ObjectTypesStep, OutsideTypesStep, CopiesStep,
     RecordingStep, ReclaimingStep DEF LoopInv, TypeOK
<1>3. QED
  BY <1>1, <1>2, PTL DEF Spec

\* Only RecordMetadata writes the recorded metadata.
LEMMA MetaWrittenByRecord ==
    ASSUME LoopInv, [Next]_vars, cr'.meta # cr.meta
    PROVE  RecordMetadata /\ memFresh /\ cr' = [mem EXCEPT !.meta = RecordedMeta(mem.spec)]
<1>1. /\ cr \in ClusterType
      /\ memFresh => mem = cr
  BY DEF LoopInv, TypeOK, LoopTypes, CopiesAgree
<1>2. CASE RecordMetadata
  BY <1>2 DEF RecordMetadata, WriteAndProceed, Accept, Conflict, crVars
<1>3. CASE UpdateStatus
  <2>1. cr' = cr \/ cr' = [cr EXCEPT !.ready = ListedPods]
    BY <1>1, <1>3 DEF UpdateStatus, WriteAndProceed, Accept, Conflict, crVars
  <2> QED
    BY <1>1, <2>1 DEF ClusterType
<1>4. CASE AddFinalizer \/ DownscaleToZero \/ RemoveFinalizer
  <2>1. \/ cr' = cr
        \/ cr' = [cr EXCEPT !.fin = TRUE]
        \/ cr' = [cr EXCEPT !.spec.size = 0, !.spec.ar = 0]
        \/ cr' = [cr EXCEPT !.fin = FALSE, !.phase = "finalized"]
    BY <1>1, <1>4
    DEF AddFinalizer, DownscaleToZero, RemoveFinalizer, WriteAndEnd, Accept,
        Conflict, crVars
  <2> QED
    BY <1>1, <2>1 DEF ClusterType
<1>5. CASE UserStep
  <2>1. \/ \E s : cr' = [cr EXCEPT !.spec = s]
        \/ \E p : cr' = [cr EXCEPT !.phase = p]
    BY <1>5, Zenon DEF UserStep, EditSpec, DeleteCluster, NewVersionBy
  <2>2. ASSUME NEW s, cr' = [cr EXCEPT !.spec = s] PROVE cr'.meta = cr.meta
    BY <1>1, <2>2 DEF ClusterType
  <2>3. ASSUME NEW p, cr' = [cr EXCEPT !.phase = p] PROVE cr'.meta = cr.meta
    BY <1>1, <2>3 DEF ClusterType
  <2> QED
    BY <2>1, <2>2, <2>3
<1>6. CASE UNCHANGED cr
  BY <1>6
<1> QED
  BY <1>2, <1>3, <1>4, <1>5, <1>6
  DEF Next, OperatorStep, vars, crVars, BeginRun, ReconcilePodDisruptionBudget,
      ReconcileConfigMap, ReconcileServices, ReconcileService,
      CreateStatefulSet, UpdateStatefulSet, KeepStatefulSet,
      UpdateStatefulsetPVCs, ReconcileAutoRecovery, UpdateMetadata,
      UpdateClusterSizeMeta, KeepFinalizer, StartCleanUp,
      WaitClusterTermination, DeleteMetadata, WaitError, AbortRun, SyncCluster,
      SyncStatefulSet, SyncDeployment, StartBookie, StopBookie, ScaleAutoRecovery,
      BookieWritesLedgers, GarbageCollect

\* The status never records a size that ZooKeeper was not told.
THEOREM RecordedSizeTold == Spec => RecordedSizeIsInZk
<1>1. ASSUME LoopInv, [Next]_vars, cr'.meta.size # cr.meta.size
      PROVE  SizeTold(cr'.meta.size)
  <2>1. /\ pc = "record" /\ mem = cr
        /\ cr' = [mem EXCEPT !.meta = RecordedMeta(mem.spec)]
    BY <1>1, MetaWrittenByRecord DEF RecordMetadata, LoopInv, CopiesAgree
  <2>2. cr'.meta.size = mem.spec.size
    BY <1>1, <2>1 DEF RecordedMeta, LoopInv, TypeOK, LoopTypes, ClusterType
  <2>3. QED
    BY <1>1, <2>1, <2>2 DEF LoopInv, Recording, SizeTold
<1>2. LoopInv /\ [Next]_vars =>
        [cr'.meta.size # cr.meta.size => SizeTold(cr'.meta.size)]_vars
  BY <1>1
<1>3. QED
  BY <1>2, LoopInvHolds, PTL DEF Spec, RecordedSizeIsInZk

\* What is live is what a user asked for, and a copy is live or absent as long
\* as the resource is live.
OfAsked(c) == c.phase = "live" => c.spec \in AskedSpecs
Asked ==
    /\ OfAsked(cr) /\ OfAsked(cache) /\ OfAsked(mem)
    /\ cr.phase = "live" =>
            cache.phase \in {"live", "none"} /\ mem.phase \in {"live", "none"}

\* A live resource keeps its phase and its spec, or a user changed the spec.
LEMMA LiveResourceStep ==
    ASSUME LoopInv, [Next]_vars, cr'.phase = "live"
    PROVE  /\ cr.phase = "live"
           /\ cr'.spec = cr.spec \/ cr'.spec \in AskedSpecs
<1>1. /\ cr \in ClusterType
      /\ memFresh => mem = cr
  BY DEF LoopInv, TypeOK, LoopTypes, CopiesAgree
<1>2. CASE UNCHANGED cr
  BY <1>2
<1>3. CASE RecordMetadata \/ UpdateStatus
  <2>1. \/ cr' = cr
        \/ cr' = [cr EXCEPT !.meta = RecordedMeta(mem.spec)]
        \/ cr' = [cr EXCEPT !.ready = ListedPods]
    BY <1>1, <1>3
    DEF RecordMetadata, UpdateStatus, WriteAndProceed, Accept, Conflict, crVars
  <2> QED
    BY <1>1, <2>1 DEF ClusterType
<1>4. CASE AddFinalizer \/ DownscaleToZero \/ RemoveFinalizer
  <2>1. \/ cr' = cr
        \/ cr' = [cr EXCEPT !.fin = TRUE]
        \/ /\ cr.phase = "deleting"
           /\ cr' = [cr EXCEPT !.spec.size = 0, !.spec.ar = 0]
        \/ cr' = [cr EXCEPT !.fin = FALSE, !.phase = "finalized"]
    BY <1>1, <1>4
    DEF AddFinalizer, DownscaleToZero, RemoveFinalizer, WriteAndEnd, Accept,
        Conflict, crVars
  <2> QED
    BY <1>1, <2>1 DEF ClusterType
<1>5. CASE EditSpec
  <2>1. PICK e \in Edits : cr' = [cr EXCEPT !.spec = e[2]]
    BY <1>5 DEF EditSpec, NewVersionBy
  <2> QED
    BY <1>1, <2>1 DEF ClusterType, AskedSpecs
<1>6. CASE DeleteCluster
  BY <1>1, <1>6 DEF DeleteCluster, NewVersionBy, ClusterType
<1> QED
  BY <1>2, <1>3, <1>4, <1>5, <1>6
  DEF Next, OperatorStep, UserStep, vars, crVars, BeginRun,
      ReconcilePodDisruptionBudget, ReconcileConfigMap, ReconcileServices,
      ReconcileService, CreateStatefulSet, UpdateStatefulSet, KeepStatefulSet,
      UpdateStatefulsetPVCs, ReconcileAutoRecovery, UpdateMetadata,
      UpdateClusterSizeMeta, KeepFinalizer, StartCleanUp,
      WaitClusterTermination, DeleteMetadata, WaitError, AbortRun, SyncCluster,
      SyncStatefulSet, SyncDeployment, StartBookie, StopBookie,
      ScaleAutoRecovery, BookieWritesLedgers, GarbageCollect

\* The informer's copy is replaced by the resource only.
LEMMA CacheStep ==
    ASSUME [Next]_vars
    PROVE  cache' = cache \/ cache' = cr
BY DEF Next, OperatorStep, UserStep, vars, crVars, BeginRun,
    ReconcilePodDisruptionBudget, ReconcileConfigMap, ReconcileServices,
    ReconcileService, CreateStatefulSet, UpdateStatefulSet,
    KeepStatefulSet, UpdateStatefulsetPVCs, ReconcileAutoRecovery,
    UpdateMetadata, UpdateClusterSizeMeta, RecordMetadata, UpdateStatus,
    AddFinalizer, KeepFinalizer, DownscaleToZero, StartCleanUp,
    WaitClusterTermination, DeleteMetadata, RemoveFinalizer, WaitError,
    AbortRun, EditSpec, DeleteCluster, SyncCluster, SyncStatefulSet,
    SyncDeployment, StartBookie, StopBookie, ScaleAutoRecovery,
    BookieWritesLedgers, GarbageCollect, Accept, Conflict, WriteAndProceed,
    WriteAndEnd, NewVersionBy

\* A run's copy comes from the informer, keeps what it says of the spec and the
\* phase, and goes with the run.
LEMMA RunCopyStep ==
    ASSUME LoopInv, [Next]_vars
    PROVE  \/ mem' = NoCluster
           \/ mem' = cache
           \/ mem'.spec = mem.spec /\ mem'.phase = mem.phase
<1>1. CASE RecordMetadata \/ UpdateStatus
  <2>1. mem \in ClusterType
    BY <1>1, RunHoldsResource DEF RecordMetadata, UpdateStatus, LoopInv, TypeOK
  <2>2. CASE RecordMetadata
    BY <2>1, <2>2
    DEF RecordMetadata, WriteAndProceed, Conflict, Fail, Leave, ClusterType
  <2>3. CASE UpdateStatus
    BY <2>1, <2>3
    DEF UpdateStatus, WriteAndProceed, Conflict, Fail, Leave, ClusterType
  <2> QED
    BY <1>1, <2>2, <2>3
<1>2. CASE \/ AddFinalizer \/ KeepFinalizer \/ DownscaleToZero
           \/ RemoveFinalizer \/ WaitError \/ AbortRun
  BY <1>2
  DEF AddFinalizer, KeepFinalizer, DownscaleToZero, RemoveFinalizer, WaitError,
      AbortRun, WriteAndEnd, Conflict, EndRun, Fail, Leave
<1>3. CASE BeginRun
  BY <1>3 DEF BeginRun, memVars
<1>4. CASE \/ CreateStatefulSet \/ UpdateStatefulSet \/ KeepStatefulSet
           \/ ReconcileAutoRecovery
  BY <1>4
  DEF CreateStatefulSet, UpdateStatefulSet, KeepStatefulSet,
      ReconcileAutoRecovery, Proceed, Fail, Leave, memVars
<1> QED
  BY <1>1, <1>2, <1>3, <1>4
  DEF Next, OperatorStep, UserStep, vars, memVars, Proceed,
      ReconcilePodDisruptionBudget, ReconcileConfigMap, ReconcileServices,
      ReconcileService, UpdateStatefulsetPVCs, UpdateMetadata,
      UpdateClusterSizeMeta, StartCleanUp, WaitClusterTermination,
      DeleteMetadata, EditSpec, DeleteCluster, NewVersionBy, SyncCluster,
      SyncStatefulSet, SyncDeployment, StartBookie, StopBookie,
      ScaleAutoRecovery, BookieWritesLedgers, GarbageCollect

\* Every step keeps live copies to what users asked for.
LEMMA AskedStep ==
    ASSUME LoopInv, Asked, [Next]_vars
    PROVE  Asked'
<1> USE DEF OfAsked
<1>1. OfAsked(NoCluster) /\ NoCluster.phase = "none"
  BY DEF NoCluster
<1>2. OfAsked(cr')
  BY LiveResourceStep DEF Asked
<1>3. OfAsked(cache')
  BY CacheStep DEF Asked
<1>4. OfAsked(mem')
  BY <1>1, RunCopyStep DEF Asked
<1>5. ASSUME cr'.phase = "live"
      PROVE  cache'.phase \in {"live", "none"} /\ mem'.phase \in {"live", "none"}
  BY <1>1, <1>5, LiveResourceStep, CacheStep, RunCopyStep DEF Asked
<1>6. QED
  BY <1>2, <1>3, <1>4, <1>5 DEF Asked

\* A claim goes only under the policy "Delete", only when the StatefulSet no
\* longer asks for its bookie, and while the cluster lives only if a user once
\* asked to do without it.
THEOREM ClaimsKept == Spec => ClaimsKeptForAskedBookies
<1> DEFINE MayGo(o) ==
        /\ DeleteStorage
        /\ o >= sts.replicas
        /\ cr.phase = "live" => \E s \in AskedSpecs : o >= s.size
<1>1. ASSUME LoopInv, Asked, [Next]_vars, NEW o \in pvcs \ pvcs'
      PROVE  MayGo(o)
  <2>1. UpdateStatefulsetPVCs
    BY <1>1
    DEF Next, OperatorStep, UserStep, vars, podVars, BeginRun,
        ReconcilePodDisruptionBudget, ReconcileConfigMap, ReconcileServices,
        ReconcileService, CreateStatefulSet, UpdateStatefulSet,
        KeepStatefulSet, ReconcileAutoRecovery, UpdateMetadata,
        UpdateClusterSizeMeta, RecordMetadata, UpdateStatus, AddFinalizer,
        KeepFinalizer, DownscaleToZero, StartCleanUp, WaitClusterTermination,
        DeleteMetadata, RemoveFinalizer, WaitError, AbortRun, EditSpec,
        DeleteCluster, SyncCluster, SyncStatefulSet, SyncDeployment,
        StartBookie, StopBookie, ScaleAutoRecovery, BookieWritesLedgers,
        GarbageCollect
  <2>2. DeleteStorage /\ sts.replicas <= mem.spec.size /\ o >= mem.spec.size
    BY <1>1, <2>1 DEF UpdateStatefulsetPVCs, IdleClaims, LoopInv, Reclaiming
  <2>3. /\ o \in Nat /\ sts.replicas \in Nat /\ mem.spec.size \in Nat
        /\ mem.phase \in {"live", "deleting"}
    BY <1>1, <2>1, RunHoldsResource, ClusterParts, SpecParts
    DEF LoopInv, TypeOK, ObjectTypes, OutsideTypes, WorkloadType, Exists,
        UpdateStatefulsetPVCs
  <2>4. cr.phase = "live" => mem.spec \in AskedSpecs
    BY <1>1, <2>3 DEF Asked, OfAsked
  <2>5. QED
    BY <2>2, <2>3, <2>4
<1>2. LoopInv /\ Asked /\ [Next]_vars => [\A o \in pvcs \ pvcs' : MayGo(o)]_vars
  BY <1>1
<1>3. Init => Asked
  BY DEF Init, NewCluster, NoCluster, Asked, OfAsked, AskedSpecs
<1>4. LoopInv /\ Asked /\ [Next]_vars => Asked'
  BY AskedStep
<1>5. QED
  BY <1>2, <1>3, <1>4, LoopInvHolds, PTL DEF Spec, ClaimsKeptForAskedBookies

-----------------------------------------------------------------------------
(***************************************************************************)
(* What deletes a cluster, provided that a run reads a StatefulSet that is *)
(* and a Deployment that are not older than the resource it reads:         *)
(* CleanGoodbye and ReclaimedUnlessFailed; and UsesMetadata, which does    *)
(* not need that.                                                          *)
(*                                                                         *)
(* The argument: a run that gets as far as waiting for the pods works on a *)
(* resource with both sizes zero, so the StatefulSet and the Deployment    *)
(* were set to zero by it or an earlier run (Scaled); once the pods are    *)
(* gone nothing starts them again, and without pods nothing writes below   *)
(* the root znode (Finalizing); and when the resource is gone a run can    *)
(* only be one that read its last version, which asks for zero too         *)
(* (Finalized).                                                            *)
(***************************************************************************)
Emptied(c) == c.phase = "deleting" /\ c.spec.size = 0 /\ c.spec.ar = 0

BeforeSts == {"pdb", "configmap", "headless", "client", "statefulset"}
PastDep == {"metadata", "zkSize", "zkTime", "record", "status", "finalizer",
             "wait", "zkDelete", "unfinalize"}
PastSts == {"pvc", "autorecovery"} \cup PastDep
BeforeDep == BeforeSts \cup {"pvc", "autorecovery"}
Recorders == {"zkSize", "zkTime", "record"}
CleaningUp == {"wait", "zkDelete", "unfinalize"}

AbsentIsZero ==
    /\ sts.exists \/ sts.replicas = 0
    /\ dep.exists \/ dep.replicas = 0

Scaled ==
    /\ pc \in BeforeSts => stsCache = sts \/ ~sts.exists
    /\ pc \in BeforeDep => depCache = dep \/ ~dep.exists
    /\ pc \in PastSts => sts.replicas = 0 \/ sts.replicas = mem.spec.size
    /\ pc \in PastDep => dep.replicas = 0 \/ dep.replicas = mem.spec.ar

Finalizing ==
    /\ pc \in Recorders => mem.phase = "live"
    /\ pc \in CleaningUp => Emptied(mem)
    /\ pc \in {"zkDelete", "unfinalize"} => pods = 0 /\ arPods = 0
    /\ pc = "unfinalize" => zk.nodes = {}

Finalized ==
    cr.phase = "finalized" =>
        /\ pods = 0 /\ arPods = 0 /\ zk.nodes = {}
        /\ sts.replicas = 0 /\ dep.replicas = 0
        /\ Exists(cache) => Emptied(cache)
        /\ pc # "idle" => Emptied(mem)

-----------------------------------------------------------------------------
\* What a run specifies for the autorecovery Deployment.
LEMMA RunSpecifiesDep ==
    ASSUME LoopInv, pc # "idle"
    PROVE  /\ SpecifiedDep(mem, depCache).exists
           /\ SpecifiedDep(mem, depCache).replicas = mem.spec.ar
BY RunHoldsResource, ClusterParts, SpecifiedDepParts DEF LoopInv, TypeOK, ObjectTypes

\* Every step keeps workloads that do not exist without replicas.
LEMMA AbsentIsZeroStep ==
    ASSUME LoopInv, AbsentIsZero, [Next]_vars
    PROVE  AbsentIsZero'
<1>1. CASE CreateStatefulSet \/ UpdateStatefulSet
  BY <1>1 DEF CreateStatefulSet, UpdateStatefulSet, SpecifiedSts, ownedVars,
      depVars, AbsentIsZero
<1>2. CASE GarbageCollect
  BY <1>2 DEF GarbageCollect, NoSts, NoDep, AbsentIsZero
<1>3. CASE ReconcileAutoRecovery
  <2>1. dep' = dep \/ dep'.exists
    BY <1>3, RunSpecifiesDep DEF ReconcileAutoRecovery
  <2> QED
    BY <1>3, <2>1 DEF ReconcileAutoRecovery, stsVars, AbsentIsZero
<1>4. CASE UNCHANGED <<sts, dep>>
  BY <1>4 DEF AbsentIsZero
<1> QED
  BY <1>1, <1>2, <1>3, <1>4
  DEF Next, OperatorStep, UserStep, vars, stsVars, ownedVars, depVars, BeginRun,
      ReconcilePodDisruptionBudget, ReconcileConfigMap, ReconcileServices,
      ReconcileService, KeepStatefulSet, UpdateStatefulsetPVCs,
      UpdateMetadata, UpdateClusterSizeMeta, RecordMetadata, UpdateStatus,
      AddFinalizer, KeepFinalizer, DownscaleToZero, StartCleanUp,
      WaitClusterTermination, DeleteMetadata, RemoveFinalizer, WaitError,
      AbortRun, EditSpec, DeleteCluster, SyncCluster, SyncStatefulSet,
      SyncDeployment,
      StartBookie, StopBookie, ScaleAutoRecovery, BookieWritesLedgers

\* A run goes on in one of these ways, and keeps the spec and the phase it read.
LEMMA MemKept ==
    ASSUME LoopInv, RecordMetadata \/ UpdateStatus
    PROVE  \/ pc' = "idle"
           \/ mem'.spec = mem.spec /\ mem'.phase = mem.phase
<1>1. mem \in ClusterType
  BY RunHoldsResource DEF RecordMetadata, UpdateStatus, LoopInv, TypeOK
<1>2. CASE RecordMetadata
  BY <1>1, <1>2
  DEF RecordMetadata, WriteAndProceed, Conflict, Fail, Leave, ClusterType
<1>3. CASE UpdateStatus
  BY <1>1, <1>3
  DEF UpdateStatus, WriteAndProceed, Conflict, Fail, Leave, ClusterType
<1>4. QED
  BY <1>2, <1>3

\* The steps that end a run, or read a resource that is gone.
LEMMA RunEnds ==
    ASSUME \/ AddFinalizer \/ KeepFinalizer \/ DownscaleToZero
           \/ RemoveFinalizer \/ WaitError \/ AbortRun
    PROVE  pc' = "idle"
BY DEF AddFinalizer, KeepFinalizer, DownscaleToZero, RemoveFinalizer, WaitError,
       AbortRun, WriteAndEnd, Conflict, EndRun, Fail, Leave

\* Every step keeps what an emptied resource says of its StatefulSet.
LEMMA ScaledStep ==
    ASSUME ~WorkloadLag, LoopInv, AbsentIsZero, Scaled, [Next]_vars
    PROVE  Scaled'
<1> USE DEF BeforeSts, BeforeDep, PastDep, PastSts
<1>1. CASE BeginRun
  BY <1>1 DEF BeginRun, WorkloadsSeen, stsVars, ownedVars, depVars, Scaled
<1>2. CASE ReconcilePodDisruptionBudget \/ ReconcileConfigMap \/ ReconcileServices
  BY <1>2
  DEF ReconcilePodDisruptionBudget, ReconcileConfigMap, ReconcileServices,
      ReconcileService, Proceed, Goto, stsVars, depVars, Scaled
<1>3. CASE CreateStatefulSet \/ UpdateStatefulSet
  BY <1>3
  DEF CreateStatefulSet, UpdateStatefulSet, SpecifiedSts, Proceed, Goto, Fail,
      Leave, memVars, ownedVars, depVars, Scaled
<1>4. CASE KeepStatefulSet
  BY <1>4
  DEF KeepStatefulSet, ShouldUpdateStatefulSet, AbsentIsZero, Proceed, Goto,
      memVars, stsVars, ownedVars, depVars, Scaled
<1>5. CASE UpdateStatefulsetPVCs
  BY <1>5
  DEF UpdateStatefulsetPVCs, Proceed, Goto, memVars, stsVars, ownedVars,
      depVars, Scaled
<1>6. CASE ReconcileAutoRecovery
  <2>1. pc = "autorecovery" /\ UNCHANGED <<sts, stsCache, depCache>>
    BY <1>6 DEF ReconcileAutoRecovery, stsVars
  <2>2. /\ SpecifiedDep(mem, depCache).exists
        /\ SpecifiedDep(mem, depCache).replicas = mem.spec.ar
    BY <2>1, RunSpecifiesDep
  <2>3. CASE Proceed("metadata") /\ dep' = SpecifiedDep(mem, depCache)
    BY <2>1, <2>2, <2>3 DEF Proceed, Goto, memVars, Scaled
  <2>4. CASE /\ SpecifiedDep(mem, depCache) = depCache
             /\ Proceed("metadata") /\ UNCHANGED dep
    BY <2>1, <2>2, <2>4 DEF Proceed, Goto, memVars, Scaled, AbsentIsZero
  <2>5. CASE Fail
    BY <2>5 DEF Fail, Leave, Scaled
  <2> QED
    BY <1>6, <2>3, <2>4, <2>5 DEF ReconcileAutoRecovery
<1>7. CASE UpdateMetadata \/ UpdateClusterSizeMeta
  BY <1>7
  DEF UpdateMetadata, MetadataStep, UpdateClusterSizeMeta, Proceed, Goto,
      memVars, stsVars, ownedVars, depVars, Scaled
<1>8. CASE StartCleanUp \/ WaitClusterTermination \/ DeleteMetadata
  BY <1>8
  DEF StartCleanUp, WaitClusterTermination, DeleteMetadata, Proceed, Goto,
      memVars, stsVars, ownedVars, depVars, Scaled
<1>9. CASE pc' = "idle"
  BY <1>9 DEF Scaled
<1>10. CASE RecordMetadata \/ UpdateStatus
  BY <1>9, <1>10, MemKept
  DEF RecordMetadata, UpdateStatus, WriteAndProceed, Conflict, Fail, Leave,
      Goto, stsVars, ownedVars, depVars, Scaled
<1>11. CASE SyncStatefulSet \/ SyncDeployment
  BY <1>11
  DEF SyncStatefulSet, SyncDeployment, memVars, stsVars, ownedVars, depVars, Scaled
<1>12. CASE GarbageCollect
  BY <1>12 DEF GarbageCollect, NoSts, NoDep, memVars, loopVars, Scaled
<1>13. CASE UNCHANGED <<pc, mem, sts, stsCache, dep, depCache>>
  BY <1>13 DEF Scaled
<1> QED
  BY <1>1, <1>2, <1>3, <1>4, <1>5, <1>6, <1>7, <1>8, <1>9, <1>10, <1>11, <1>12,
     <1>13, RunEnds
  DEF Next, OperatorStep, UserStep, vars, memVars, loopVars, stsVars, ownedVars,
      depVars,
      EditSpec, DeleteCluster, NewVersionBy, SyncCluster, StartBookie,
      StopBookie, ScaleAutoRecovery, BookieWritesLedgers

\* The types the arithmetic below needs.
LEMMA Numbers ==
    ASSUME LoopInv
    PROVE  /\ pods \in Nat /\ arPods \in Nat
           /\ sts.replicas \in Nat /\ dep.replicas \in Nat
           /\ pc # "idle" => /\ mem.spec.size \in Nat /\ mem.spec.ar \in Nat
                             /\ mem.phase \in {"live", "deleting"}
BY RunHoldsResource, ClusterParts, SpecParts
DEF LoopInv, TypeOK, ObjectTypes, OutsideTypes, WorkloadType, Exists

\* Pods and znodes stay away while a run finalizes a scaled resource.
LEMMA NothingComesBack ==
    ASSUME LoopInv, sts.replicas = 0, dep.replicas = 0, pods = 0, arPods = 0
    PROVE  ~StartBookie /\ ~StopBookie /\ ~ScaleAutoRecovery /\ ~BookieWritesLedgers
BY DEF StartBookie, StopBookie, ScaleAutoRecovery, BookieWritesLedgers

\* Every step keeps what a finalizing run has already seen to be gone.
LEMMA FinalizingStep ==
    ASSUME LoopInv, Scaled, Finalizing, [Next]_vars
    PROVE  Finalizing'
<1> USE DEF Recorders, CleaningUp, Emptied
<1>1. CASE UpdateMetadata
  BY <1>1, Numbers
  DEF UpdateMetadata, MetadataStep, Proceed, Goto, memVars, Finalizing
<1>2. CASE UpdateClusterSizeMeta
  BY <1>2 DEF UpdateClusterSizeMeta, Proceed, Goto, memVars, Finalizing
<1>3. CASE StartCleanUp
  BY <1>3, Numbers
  DEF StartCleanUp, NeedsDownscale, Proceed, Goto, memVars, Finalizing
<1>4. CASE WaitClusterTermination
  BY <1>4, Numbers
  DEF WaitClusterTermination, PodsTerminated, Proceed, Goto, memVars, podVars,
      Finalizing
<1>5. CASE DeleteMetadata
  BY <1>5 DEF DeleteMetadata, Proceed, Goto, memVars, podVars, Finalizing
<1>6. CASE StartBookie \/ StopBookie \/ ScaleAutoRecovery \/ BookieWritesLedgers
  <2>1. pc \notin {"zkDelete", "unfinalize"}
    BY <1>6, NothingComesBack DEF Finalizing, Scaled, PastSts, PastDep
  <2> QED
    BY <1>6, <2>1
    DEF StartBookie, StopBookie, ScaleAutoRecovery, BookieWritesLedgers,
        memVars, loopVars, Finalizing
<1>7. CASE UNCHANGED <<pc, mem, pods, arPods, zk>>
  BY <1>7 DEF Finalizing
<1>8. CASE pc' \notin Recorders \cup CleaningUp
  BY <1>8 DEF Finalizing
<1>9. CASE BeginRun \/ RecordMetadata \/ UpdateStatus
  BY <1>7, <1>8, <1>9
  DEF BeginRun, RecordMetadata, UpdateStatus, WriteAndProceed, Conflict, Goto,
      Fail, Leave, memVars, podVars
<1>10. CASE \/ ReconcilePodDisruptionBudget \/ ReconcileConfigMap
            \/ ReconcileServices \/ ReconcileAutoRecovery
            \/ CreateStatefulSet \/ UpdateStatefulSet \/ KeepStatefulSet
            \/ UpdateStatefulsetPVCs
  BY <1>8, <1>10
  DEF ReconcilePodDisruptionBudget, ReconcileConfigMap, ReconcileServices,
      ReconcileService, ReconcileAutoRecovery, CreateStatefulSet,
      UpdateStatefulSet, KeepStatefulSet, UpdateStatefulsetPVCs, Proceed, Goto,
      Fail, Leave
<1> QED
  BY <1>1, <1>2, <1>3, <1>4, <1>5, <1>6, <1>7, <1>8, <1>9, <1>10, RunEnds
  DEF Next, OperatorStep, UserStep, vars, memVars, loopVars, podVars, EditSpec,
      DeleteCluster, NewVersionBy, SyncCluster, SyncStatefulSet, SyncDeployment,
      GarbageCollect

\* A resource that is gone does not change, and goes only by RemoveFinalizer.
LEMMA GoneStays ==
    ASSUME LoopInv, [Next]_vars, cr'.phase = "finalized"
    PROVE  \/ RemoveFinalizer /\ memFresh /\ mem = cr
           \/ cr.phase = "finalized" /\ cr' = cr
<1>1. /\ cr \in ClusterType
      /\ memFresh => mem = cr
      /\ pc # "idle" => mem.phase \in {"live", "deleting"}
  BY Numbers DEF LoopInv, TypeOK, LoopTypes, CopiesAgree
<1>2. CASE UNCHANGED cr
  BY <1>2
<1>3. CASE RecordMetadata \/ UpdateStatus
  <2>1. \/ cr' = cr
        \/ /\ cr.phase \in {"live", "deleting"}
           /\ \/ cr' = [cr EXCEPT !.meta = RecordedMeta(mem.spec)]
              \/ cr' = [cr EXCEPT !.ready = ListedPods]
    BY <1>1, <1>3
    DEF RecordMetadata, UpdateStatus, WriteAndProceed, Accept, Conflict, crVars
  <2> QED
    BY <1>1, <2>1 DEF ClusterType
<1>4. CASE AddFinalizer \/ DownscaleToZero
  <2>1. \/ cr' = cr
        \/ /\ cr.phase \in {"live", "deleting"}
           /\ \/ cr' = [cr EXCEPT !.fin = TRUE]
              \/ cr' = [cr EXCEPT !.spec.size = 0, !.spec.ar = 0]
    BY <1>1, <1>4
    DEF AddFinalizer, DownscaleToZero, WriteAndEnd, Accept, Conflict, crVars
  <2> QED
    BY <1>1, <2>1 DEF ClusterType
<1>5. CASE RemoveFinalizer
  BY <1>1, <1>2, <1>5
  DEF RemoveFinalizer, WriteAndEnd, Accept, Conflict, crVars
<1>6. CASE EditSpec
  <2>1. Exists(cr) /\ \E s : cr' = [cr EXCEPT !.spec = s]
    BY <1>6, Zenon DEF EditSpec, NewVersionBy
  <2>2. ASSUME NEW s, cr' = [cr EXCEPT !.spec = s] PROVE cr'.phase = cr.phase
    BY <1>1, <2>2 DEF ClusterType
  <2> QED
    BY <2>1, <2>2 DEF Exists
<1>7. CASE DeleteCluster
  BY <1>1, <1>7 DEF DeleteCluster, NewVersionBy, ClusterType
<1> QED
  BY <1>2, <1>3, <1>4, <1>5, <1>6, <1>7
  DEF Next, OperatorStep, UserStep, vars, crVars, BeginRun,
      ReconcilePodDisruptionBudget, ReconcileConfigMap, ReconcileServices,
      ReconcileService, CreateStatefulSet, UpdateStatefulSet, KeepStatefulSet,
      UpdateStatefulsetPVCs, ReconcileAutoRecovery, UpdateMetadata,
      UpdateClusterSizeMeta, KeepFinalizer, StartCleanUp,
      WaitClusterTermination, DeleteMetadata, WaitError, AbortRun, SyncCluster,
      SyncStatefulSet, SyncDeployment, StartBookie, StopBookie, ScaleAutoRecovery,
      BookieWritesLedgers, GarbageCollect

\* The step that takes the finalizer off.
LEMMA FinalizedByRemoval ==
    ASSUME LoopInv, Scaled, Finalizing, RemoveFinalizer, memFresh
    PROVE  Finalized'
<1>1. /\ pods = 0 /\ arPods = 0 /\ zk.nodes = {} /\ Emptied(mem)
      /\ sts.replicas = 0 /\ dep.replicas = 0
  BY DEF RemoveFinalizer, Finalizing, Scaled, Emptied, CleaningUp, PastSts, PastDep
<1>2. cache.phase = mem.phase /\ cache.spec = mem.spec
  BY DEF LoopInv, CopiesAgree
<1>3. Emptied(cache)
  BY <1>1, <1>2 DEF Emptied
<1>4. cache' = cache /\ pc' = "idle"
  BY DEF RemoveFinalizer, WriteAndEnd, Accept, Conflict, EndRun, Leave
<1>5. QED
  BY <1>1, <1>3, <1>4
  DEF RemoveFinalizer, Finalized, Emptied, stsVars, ownedVars, depVars, podVars

\* The steps taken after that.
LEMMA FinalizedKept ==
    ASSUME LoopInv, Finalizing, Finalized, [Next]_vars,
           cr.phase = "finalized", cr' = cr
    PROVE  Finalized'
<1>1. /\ pods = 0 /\ arPods = 0 /\ zk.nodes = {}
      /\ sts.replicas = 0 /\ dep.replicas = 0
      /\ Exists(cache) => Emptied(cache)
      /\ pc # "idle" => Emptied(mem)
  BY DEF Finalized
<1>2. ~Exists(cr)
  BY DEF Exists
<1>3. ~StartBookie /\ ~StopBookie /\ ~ScaleAutoRecovery /\ ~BookieWritesLedgers
  BY <1>1, NothingComesBack
<1>4. pods' = 0 /\ arPods' = 0
  BY <1>1, <1>3
  DEF Next, OperatorStep, UserStep, vars, podVars, BeginRun,
      ReconcilePodDisruptionBudget, ReconcileConfigMap, ReconcileServices,
      ReconcileService, CreateStatefulSet, UpdateStatefulSet,
      KeepStatefulSet, UpdateStatefulsetPVCs, ReconcileAutoRecovery,
      UpdateMetadata, UpdateClusterSizeMeta, RecordMetadata, UpdateStatus,
      AddFinalizer, KeepFinalizer, DownscaleToZero, StartCleanUp,
      WaitClusterTermination, DeleteMetadata, RemoveFinalizer, WaitError,
      AbortRun, EditSpec, DeleteCluster, SyncCluster, SyncStatefulSet,
      SyncDeployment,
      GarbageCollect
<1>5. zk'.nodes = {}
  <2>1. ~UpdateClusterSizeMeta
    BY <1>1 DEF UpdateClusterSizeMeta, Finalizing, Recorders, Emptied
  <2>2. CASE DeleteMetadata
    BY <1>1, <2>2 DEF DeleteMetadata
  <2>3. CASE UNCHANGED zk
    BY <1>1, <2>3
  <2> QED
    BY <1>3, <2>1, <2>2, <2>3
    DEF Next, OperatorStep, UserStep, vars, BeginRun,
        ReconcilePodDisruptionBudget, ReconcileConfigMap, ReconcileServices,
        ReconcileService, CreateStatefulSet, UpdateStatefulSet,
        KeepStatefulSet, UpdateStatefulsetPVCs, ReconcileAutoRecovery,
        UpdateMetadata, RecordMetadata, UpdateStatus, AddFinalizer,
        KeepFinalizer, DownscaleToZero, StartCleanUp, WaitClusterTermination,
        RemoveFinalizer, WaitError, AbortRun, EditSpec, DeleteCluster,
        SyncCluster, SyncStatefulSet, SyncDeployment, GarbageCollect
<1>6. sts'.replicas = 0 /\ dep'.replicas = 0
  <2>1. CASE CreateStatefulSet \/ UpdateStatefulSet
    BY <1>1, <2>1
    DEF CreateStatefulSet, UpdateStatefulSet, SpecifiedSts, Emptied, ownedVars,
        depVars
  <2>2. CASE ReconcileAutoRecovery
    BY <1>1, <2>2, RunSpecifiesDep DEF ReconcileAutoRecovery, Emptied, stsVars
  <2>3. CASE GarbageCollect
    BY <2>3 DEF GarbageCollect, NoSts, NoDep
  <2>4. CASE UNCHANGED <<sts, dep>>
    BY <1>1, <2>4
  <2> QED
    BY <2>1, <2>2, <2>3, <2>4
    DEF Next, OperatorStep, UserStep, vars, stsVars, ownedVars, depVars, BeginRun,
        ReconcilePodDisruptionBudget, ReconcileConfigMap, ReconcileServices,
        ReconcileService, KeepStatefulSet, UpdateStatefulsetPVCs,
        UpdateMetadata, UpdateClusterSizeMeta, RecordMetadata, UpdateStatus,
        AddFinalizer, KeepFinalizer, DownscaleToZero, StartCleanUp,
        WaitClusterTermination, DeleteMetadata, RemoveFinalizer, WaitError,
        AbortRun, EditSpec, DeleteCluster, SyncCluster, SyncStatefulSet,
        SyncDeployment,
        StartBookie, StopBookie, ScaleAutoRecovery, BookieWritesLedgers
<1>7. Exists(cache') => Emptied(cache')
  <2>1. cache' = cache \/ cache' = cr
    BY CacheStep
  <2> QED
    BY <1>1, <1>2, <2>1
<1>8. pc' # "idle" => Emptied(mem')
  <2>1. CASE BeginRun
    BY <1>1, <2>1 DEF BeginRun, FoundByRun, memVars
  <2>2. CASE RecordMetadata \/ UpdateStatus
    BY <1>1, <2>2, MemKept DEF RecordMetadata, UpdateStatus, Emptied
  <2>3. CASE pc' = "idle"
    BY <2>3
  <2>4. CASE mem' = mem /\ (pc = "idle" => pc' = "idle")
    BY <1>1, <2>4
  <2>5. CASE CreateStatefulSet \/ UpdateStatefulSet \/ ReconcileAutoRecovery
    BY <2>3, <2>4, <2>5
    DEF CreateStatefulSet, UpdateStatefulSet, ReconcileAutoRecovery, Proceed,
        Goto, Fail, Leave, memVars
  <2> QED
    BY <2>1, <2>2, <2>3, <2>4, <2>5, RunEnds
    DEF Next, OperatorStep, UserStep, vars, memVars, loopVars, Proceed, Goto,
        ReconcilePodDisruptionBudget, ReconcileConfigMap, ReconcileServices,
        ReconcileService, KeepStatefulSet, UpdateStatefulsetPVCs,
        ReconcileAutoRecovery, UpdateMetadata, UpdateClusterSizeMeta,
        StartCleanUp, WaitClusterTermination, DeleteMetadata, EditSpec,
        DeleteCluster, NewVersionBy, SyncCluster, SyncStatefulSet, SyncDeployment,
        StartBookie, StopBookie, ScaleAutoRecovery, BookieWritesLedgers,
        GarbageCollect
<1>9. QED
  BY <1>4, <1>5, <1>6, <1>7, <1>8 DEF Finalized, Exists, Emptied

\* Every step keeps a finalized cluster without pods and znodes.
LEMMA FinalizedStep ==
    ASSUME LoopInv, Scaled, Finalizing, Finalized, [Next]_vars
    PROVE  Finalized'
<1>1. CASE cr'.phase # "finalized"
  BY <1>1 DEF Finalized
<1>2. CASE cr'.phase = "finalized"
  BY <1>2, GoneStays, FinalizedByRemoval, FinalizedKept
<1>3. QED
  BY <1>1, <1>2

\* The inductive invariant behind CleanGoodbye.
GoodbyeInv == LoopInv /\ AbsentIsZero /\ Scaled /\ Finalizing /\ Finalized

\* It holds in every reachable state.
LEMMA GoodbyeInvHolds ==
    ASSUME ~WorkloadLag
    PROVE  Spec => []GoodbyeInv
<1>1. Init => AbsentIsZero /\ Scaled /\ Finalizing /\ Finalized
  BY DEF Init, NewCluster, AbsentIsZero, NoSts, NoDep, Scaled, Finalizing,
         Finalized, BeforeSts, BeforeDep, PastSts, PastDep, Recorders, CleaningUp
<1>2. LoopInv /\ AbsentIsZero /\ Scaled /\ Finalizing /\ Finalized /\ [Next]_vars
        => (AbsentIsZero /\ Scaled /\ Finalizing /\ Finalized)'
  BY AbsentIsZeroStep, ScaledStep, FinalizingStep, FinalizedStep
<1>3. QED
  BY <1>1, <1>2, LoopInvHolds, PTL DEF Spec, GoodbyeInv

\* When the operator takes its finalizer off, the pods have terminated and the
\* znodes are deleted, and none of them comes back.
THEOREM GoodbyeIsClean == ~WorkloadLag => (Spec => []CleanGoodbye)
<1>1. GoodbyeInv => CleanGoodbye
  BY DEF GoodbyeInv, Finalized, CleanGoodbye
<1>2. ASSUME ~WorkloadLag PROVE Spec => []CleanGoodbye
  BY <1>1, <1>2, GoodbyeInvHolds, PTL
<1>3. QED
  BY <1>2

-----------------------------------------------------------------------------
(* ReclaimedUnlessFailed, under the same condition: as long as no run was   *)
(* cut off while it deleted claims, only bookies that the StatefulSet has   *)
(* or will have own claims, and it has none when the finalizer goes.        *)

Reclaimed ==
    DeleteStorage /\ faults = 0 =>
        /\ Exists(cr) /\ pc # "pvc" => \A o \in pvcs : o < sts.replicas
        /\ Exists(cr) /\ pc = "pvc" => sts.replicas = mem.spec.size
        /\ cr.phase = "finalized" => pvcs = {}

\* A resource that is gone does not come back.
LEMMA ExistedBefore ==
    ASSUME LoopInv, [Next]_vars, Exists(cr')
    PROVE  Exists(cr)
<1>1. memFresh => mem = cr /\ Exists(mem)
  BY RunHoldsResource DEF LoopInv, TypeOK, CopiesAgree
<1>2. CASE UNCHANGED cr
  BY <1>2
<1>3. CASE \/ RecordMetadata \/ UpdateStatus
           \/ AddFinalizer \/ DownscaleToZero \/ RemoveFinalizer
  <2>1. UNCHANGED cr \/ memFresh
    BY <1>3
    DEF RecordMetadata, UpdateStatus, AddFinalizer, DownscaleToZero,
        RemoveFinalizer, WriteAndProceed, WriteAndEnd, Accept, Conflict, crVars
  <2> QED
    BY <1>1, <1>2, <2>1
<1>4. CASE EditSpec \/ DeleteCluster
  BY <1>4 DEF EditSpec, DeleteCluster, Exists
<1> QED
  BY <1>2, <1>3, <1>4
  DEF Next, OperatorStep, UserStep, vars, crVars, BeginRun,
      ReconcilePodDisruptionBudget, ReconcileConfigMap, ReconcileServices,
      ReconcileService, CreateStatefulSet, UpdateStatefulSet, KeepStatefulSet,
      UpdateStatefulsetPVCs, ReconcileAutoRecovery, UpdateMetadata,
      UpdateClusterSizeMeta, KeepFinalizer, StartCleanUp,
      WaitClusterTermination, DeleteMetadata, WaitError, AbortRun, SyncCluster,
      SyncStatefulSet, SyncDeployment, StartBookie, StopBookie, ScaleAutoRecovery,
      BookieWritesLedgers, GarbageCollect

\* A step that neither reclaims nor scales and does not fail leaves a run that
\* is reclaiming where it is.
LEMMA ReclaimingGoesOn ==
    ASSUME [Next]_vars, faults \in Nat, UNCHANGED faults,
           ~UpdateStatefulsetPVCs, ~UpdateStatefulSet
    PROVE  /\ pc = "pvc" <=> pc' = "pvc"
           /\ pc = "pvc" => UNCHANGED mem
<1> USE DEF Proceed, Goto, Fail, Leave
<1>1. CASE pc # "pvc" /\ pc' # "pvc"
  BY <1>1
<1>2. CASE UNCHANGED <<pc, mem>>
  BY <1>2
<1>3. CASE BeginRun \/ CreateStatefulSet \/ KeepStatefulSet \/ ReconcileAutoRecovery
  BY <1>3 DEF BeginRun, CreateStatefulSet, KeepStatefulSet, ReconcileAutoRecovery
<1>4. CASE RecordMetadata \/ UpdateStatus
  BY <1>4 DEF RecordMetadata, UpdateStatus, WriteAndProceed, Conflict
<1>5. CASE AddFinalizer \/ DownscaleToZero \/ RemoveFinalizer \/ KeepFinalizer
  BY <1>5
  DEF AddFinalizer, DownscaleToZero, RemoveFinalizer, KeepFinalizer,
      WriteAndEnd, Conflict, EndRun
<1>6. ~AbortRun
  BY DEF AbortRun
<1> QED
  BY <1>1, <1>2, <1>3, <1>4, <1>5, <1>6
  DEF Next, OperatorStep, UserStep, vars, memVars, loopVars,
      ReconcilePodDisruptionBudget, ReconcileConfigMap, ReconcileServices,
      ReconcileService, ReconcileAutoRecovery, UpdateMetadata, MetadataStep,
      UpdateClusterSizeMeta, StartCleanUp, WaitClusterTermination,
      DeleteMetadata, WaitError, EditSpec, DeleteCluster, NewVersionBy,
      SyncCluster, SyncStatefulSet, SyncDeployment, StartBookie, StopBookie,
      ScaleAutoRecovery,
      BookieWritesLedgers, GarbageCollect

\* Every step keeps claims with bookies that there are to be.
LEMMA ReclaimedStep ==
    ASSUME GoodbyeInv, Reclaimed, [Next]_vars
    PROVE  Reclaimed'
<1> SUFFICES
      ASSUME DeleteStorage, faults' = 0
      PROVE  /\ Exists(cr') /\ pc' # "pvc" => \A o \in pvcs' : o < sts'.replicas
             /\ Exists(cr') /\ pc' = "pvc" => sts'.replicas = mem'.spec.size
             /\ cr'.phase = "finalized" => pvcs' = {}
  BY DEF Reclaimed, Exists
<1> USE DEF GoodbyeInv
<1>1. /\ pods \in Nat /\ pvcs \subseteq Nat /\ sts.replicas \in Nat
      /\ faults = 0 /\ UNCHANGED faults
  <2>1. faults \in Nat /\ pvcs \subseteq Nat
    BY DEF LoopInv, TypeOK, OutsideTypes
  <2>2. UNCHANGED faults \/ faults' = faults + 1
    BY DEF Next, OperatorStep, UserStep, vars, bounds, BeginRun,
           ReconcilePodDisruptionBudget, ReconcileConfigMap, ReconcileServices,
           ReconcileService, CreateStatefulSet, UpdateStatefulSet,
           KeepStatefulSet, UpdateStatefulsetPVCs, ReconcileAutoRecovery,
           UpdateMetadata, UpdateClusterSizeMeta, RecordMetadata, UpdateStatus,
           AddFinalizer, KeepFinalizer, DownscaleToZero, StartCleanUp,
           WaitClusterTermination, DeleteMetadata, RemoveFinalizer, WaitError,
           AbortRun, EditSpec, DeleteCluster, SyncCluster, SyncStatefulSet,
           SyncDeployment,
           StartBookie, StopBookie, ScaleAutoRecovery, BookieWritesLedgers,
           GarbageCollect
  <2> QED
    BY <2>1, <2>2, Numbers
<1>2. pvcs' \subseteq pvcs \/ StartBookie
  BY DEF Next, OperatorStep, UserStep, vars, podVars, BeginRun,
         ReconcilePodDisruptionBudget, ReconcileConfigMap, ReconcileServices,
         ReconcileService, CreateStatefulSet, UpdateStatefulSet,
         KeepStatefulSet, UpdateStatefulsetPVCs, ReconcileAutoRecovery,
         UpdateMetadata, UpdateClusterSizeMeta, RecordMetadata, UpdateStatus,
         AddFinalizer, KeepFinalizer, DownscaleToZero, StartCleanUp,
         WaitClusterTermination, DeleteMetadata, RemoveFinalizer, WaitError,
         AbortRun, EditSpec, DeleteCluster, SyncCluster, SyncStatefulSet,
         SyncDeployment,
         StopBookie, ScaleAutoRecovery, BookieWritesLedgers, GarbageCollect
<1>3. ASSUME cr'.phase = "finalized" PROVE pvcs' = {}
  <2>1. CASE RemoveFinalizer /\ memFresh /\ mem = cr
    <3>1. pc = "unfinalize" /\ Emptied(mem) /\ sts.replicas = 0
      BY <2>1
      DEF RemoveFinalizer, Finalizing, Scaled, Emptied, CleaningUp, PastSts,
          PastDep
    <3>2. Exists(cr)
      BY <2>1, <3>1 DEF Emptied, Exists
    <3>3. pvcs = {}
      BY <1>1, <3>1, <3>2 DEF Reclaimed
    <3> QED
      BY <2>1, <3>3 DEF RemoveFinalizer, podVars
  <2>2. CASE cr.phase = "finalized"
    <3>1. pvcs = {} /\ ~StartBookie
      BY <1>1, <2>2, NothingComesBack DEF Reclaimed, Finalized
    <3> QED
      BY <1>2, <3>1
  <2> QED
    BY <1>3, <2>1, <2>2, GoneStays
<1>4. ASSUME Exists(cr')
      PROVE  /\ pc' # "pvc" => \A o \in pvcs' : o < sts'.replicas
             /\ pc' = "pvc" => sts'.replicas = mem'.spec.size
  <2>1. Exists(cr) /\ ~GarbageCollect
    BY <1>4, ExistedBefore DEF GarbageCollect
  <2>2. /\ pc # "pvc" => \A o \in pvcs : o < sts.replicas
        /\ pc = "pvc" => sts.replicas = mem.spec.size
    BY <1>1, <2>1 DEF Reclaimed
  <2>3. CASE UpdateStatefulSet
    BY <2>2, <2>3
    DEF UpdateStatefulSet, SpecifiedSts, Proceed, Goto, Fail, Leave, memVars,
        podVars
  <2>4. CASE UpdateStatefulsetPVCs
    <3>1. /\ pc = "pvc" /\ UNCHANGED <<mem, sts>>
          /\ \/ IdleClaims(mem.spec.size) = {} /\ UNCHANGED pvcs
             \/ pc' = "pvc"
      BY <2>4 DEF UpdateStatefulsetPVCs, Proceed, Goto, memVars, stsVars
    <3>2. mem.spec.size \in Nat
      BY <3>1, Numbers
    <3>3. IdleClaims(mem.spec.size) = {} => \A o \in pvcs : o < mem.spec.size
      BY <1>1, <3>2 DEF IdleClaims
    <3> QED
      BY <2>2, <3>1, <3>3
  <2>5. CASE CreateStatefulSet
    BY <1>1, <2>2, <2>5
    DEF CreateStatefulSet, SpecifiedSts, AbsentIsZero, Proceed, Goto, Fail,
        Leave, podVars
  <2>6. CASE StartBookie
    BY <1>1, <2>2, <2>6 DEF StartBookie, memVars, stsVars
  <2>7. CASE UNCHANGED sts /\ pvcs' \subseteq pvcs
             /\ ~UpdateStatefulsetPVCs /\ ~UpdateStatefulSet
    BY <1>1, <2>2, <2>7, ReclaimingGoesOn
  <2> QED
    BY <1>2, <2>1, <2>3, <2>4, <2>5, <2>6, <2>7
    DEF Next, OperatorStep, UserStep, vars, stsVars, BeginRun,
        ReconcilePodDisruptionBudget, ReconcileConfigMap, ReconcileServices,
        ReconcileService, KeepStatefulSet, ReconcileAutoRecovery,
        UpdateMetadata, UpdateClusterSizeMeta, RecordMetadata, UpdateStatus,
        AddFinalizer, KeepFinalizer, DownscaleToZero, StartCleanUp,
        WaitClusterTermination, DeleteMetadata, RemoveFinalizer, WaitError,
        AbortRun, EditSpec, DeleteCluster, SyncCluster, SyncStatefulSet,
        SyncDeployment,
        StopBookie, ScaleAutoRecovery, BookieWritesLedgers
<1> QED
  BY <1>3, <1>4

\* Under the policy "Delete" no claim is left when the operator has finalized
\* the resource, provided that no run failed.
THEOREM ClaimsAreReclaimed == ~WorkloadLag => (Spec => []ReclaimedUnlessFailed)
<1>1. Init => Reclaimed
  BY DEF Init, NewCluster, Reclaimed
<1>2. GoodbyeInv /\ Reclaimed /\ [Next]_vars => Reclaimed'
  BY ReclaimedStep
<1>3. Reclaimed => ReclaimedUnlessFailed
  BY DEF Reclaimed, ReclaimedUnlessFailed, ClaimsGoWithFinalizer
<1>4. ASSUME ~WorkloadLag PROVE Spec => []ReclaimedUnlessFailed
  BY <1>1, <1>2, <1>3, <1>4, GoodbyeInvHolds, PTL DEF Spec
<1>5. QED
  BY <1>4

-----------------------------------------------------------------------------
(* The calls of the ZooKeeper client.                                       *)

NoCallSteps == Steps \ {"zkSize", "zkTime", "zkDelete", "unfinalize", "record"}

\* The call a run is in, step by step.
CallOfStep ==
    /\ pc \in {"zkSize", "zkTime"} =>
            ZkCall = [op |-> "update", size |-> mem.spec.size]
    /\ pc = "zkDelete" => ZkCall = [op |-> "delete"]
    /\ pc = "unfinalize" => ZkCall = [op |-> "done"]
    /\ pc = "record" =>
            ZkCall = IF mem.spec.size # mem.meta.size
                     THEN [op |-> "done"] ELSE [op |-> "none"]
    /\ pc \in NoCallSteps => ZkCall = [op |-> "none"]

\* A run calls UpdateMetadata only with a size it has not recorded.
Telling == pc \in {"zkSize", "zkTime"} => mem.spec.size # mem.meta.size

MetadataInv == LoopInv /\ Telling /\ CallOfStep

\* CallOfStep restates the definition of ZkCall.
LEMMA CallOfStepHolds == CallOfStep
BY DEF CallOfStep, ZkCall, NoCallSteps

\* Every step keeps a run from telling ZooKeeper a size that is recorded.
LEMMA TellingStep ==
    ASSUME Telling, [Next]_vars
    PROVE  Telling'
<1>1. CASE UpdateMetadata
  BY <1>1 DEF UpdateMetadata, MetadataStep, Proceed, Goto, memVars, Telling
<1>2. CASE UpdateClusterSizeMeta
  BY <1>2 DEF UpdateClusterSizeMeta, Proceed, Goto, memVars, Telling
<1>3. CASE UNCHANGED <<mem, pc>>
  BY <1>3 DEF Telling
<1>4. CASE pc' \notin {"zkSize", "zkTime"}
  BY <1>4 DEF Telling
<1>5. CASE BeginRun \/ RecordMetadata \/ UpdateStatus
  BY <1>3, <1>4, <1>5
  DEF BeginRun, RecordMetadata, UpdateStatus, WriteAndProceed, Goto, Conflict,
      Fail, Leave, memVars
<1>6. CASE \/ ReconcilePodDisruptionBudget \/ ReconcileConfigMap
           \/ ReconcileServices \/ ReconcileAutoRecovery
           \/ CreateStatefulSet \/ UpdateStatefulSet \/ KeepStatefulSet
           \/ UpdateStatefulsetPVCs \/ StartCleanUp \/ WaitClusterTermination
           \/ DeleteMetadata
  BY <1>4, <1>6
  DEF ReconcilePodDisruptionBudget, ReconcileConfigMap, ReconcileServices,
      ReconcileService, ReconcileAutoRecovery, CreateStatefulSet,
      UpdateStatefulSet, KeepStatefulSet, UpdateStatefulsetPVCs, StartCleanUp,
      WaitClusterTermination, DeleteMetadata, Proceed, Goto, Fail, Leave
<1> QED
  BY <1>1, <1>2, <1>3, <1>4, <1>5, <1>6, RunEnds
  DEF Next, OperatorStep, UserStep, vars, memVars, loopVars, EditSpec,
      DeleteCluster, NewVersionBy, SyncCluster, SyncStatefulSet, SyncDeployment,
      StartBookie,
      StopBookie, ScaleAutoRecovery, BookieWritesLedgers, GarbageCollect

\* A step that leaves ZooKeeper alone begins a call or drops the result of one.
LEMMA CallBegins ==
    ASSUME UNCHANGED zk,
           ZkCall \in {[op |-> "none"], [op |-> "done"]},
           \/ ZkCall' \in {[op |-> "none"], [op |-> "delete"]}
           \/ \E s \in Nat : ZkCall' = [op |-> "update", size |-> s]
    PROVE  Metadata!Begin
BY DEF Metadata!Begin, Metadata!NoCall, Metadata!Done, Metadata!Deletion,
       Metadata!Updates, SizeNode

\* The two writes of UpdateMetadata; the second one returns.
LEMMA UpdateSteps ==
    ASSUME MetadataInv, MetadataInv', UpdateClusterSizeMeta
    PROVE  Metadata!Work \/ Metadata!Return
<1> USE DEF MetadataInv, CallOfStep
<1>1. zk \in [nodes: SUBSET ZNodes, size: Nat]
  BY DEF LoopInv, TypeOK, OutsideTypes
<1>2. mem' = mem /\ ZkCall = [op |-> "update", size |-> mem.spec.size]
  BY DEF UpdateClusterSizeMeta, Proceed, memVars
<1>3. CASE pc = "zkSize"
  <2>1. /\ zk'.nodes = zk.nodes \cup {"root", "size"}
        /\ SizeNode' = mem.spec.size
        /\ ZkCall' = ZkCall
    BY <1>2, <1>3 DEF UpdateClusterSizeMeta, SizeNode, Proceed, Goto
  <2> QED
    BY <1>2, <2>1 DEF Metadata!Work, Metadata!UpdatePart
<1>4. CASE pc = "zkTime"
  <2>1. /\ mem.spec.size # mem.meta.size
        /\ "size" \in zk.nodes /\ SizeNode = mem.spec.size
    BY <1>4 DEF LoopInv, Recording, Telling, SizeNode
  <2>2. zk'.nodes = zk.nodes \cup {"root", "updatedat"} /\ zk'.size = zk.size
    BY <1>1, <1>4 DEF UpdateClusterSizeMeta
  <2>3. SizeNode' = mem.spec.size
    BY <2>1, <2>2 DEF SizeNode
  <2>4. ZkCall' = [op |-> "done"]
    BY <1>2, <1>4, <2>1 DEF UpdateClusterSizeMeta, Proceed, Goto
  <2> QED
    BY <1>2, <2>1, <2>2, <2>3, <2>4
    DEF Metadata!Return, Metadata!Complete, Metadata!UpdatePart, Metadata!Done
<1>5. QED
  BY <1>3, <1>4 DEF UpdateClusterSizeMeta

\* The deletions of DeleteMetadata, and its return when nothing is left.
LEMMA DeleteSteps ==
    ASSUME MetadataInv, MetadataInv', DeleteMetadata
    PROVE  Metadata!Work \/ Metadata!Return
<1> USE DEF MetadataInv, CallOfStep
<1>1. zk \in [nodes: SUBSET ZNodes, size: Nat]
  BY DEF LoopInv, TypeOK, OutsideTypes
<1>2. ZkCall = Metadata!Deletion
  BY DEF DeleteMetadata, Metadata!Deletion
<1>3. CASE zk.nodes = {} /\ Proceed("unfinalize") /\ UNCHANGED zk
  <2>1. ZkCall' = [op |-> "done"]
    BY <1>3 DEF Proceed, Goto
  <2> QED
    BY <1>2, <1>3, <2>1
    DEF Metadata!Return, Metadata!Complete, Metadata!DeletePart, Metadata!Done,
        SizeNode
<1>4. ASSUME NEW n \in zk.nodes, Removable(n), Proceed("zkDelete"),
             zk' = [zk EXCEPT !.nodes = @ \ {n}]
      PROVE  Metadata!Work
  <2>1. ZkCall' = ZkCall
    BY <1>2, <1>4 DEF Proceed, Goto, Metadata!Deletion
  <2>2. zk'.nodes = zk.nodes \ {n} /\ zk'.size = zk.size
    BY <1>1, <1>4
  <2>3. "root" \in zk.nodes \ zk'.nodes => zk'.nodes = {}
    BY <1>4, <2>2 DEF Removable
  <2>4. SizeNode' = IF "size" \in zk'.nodes THEN SizeNode ELSE 0
    BY <2>2 DEF SizeNode
  <2> QED
    BY <1>2, <2>1, <2>2, <2>3, <2>4 DEF Metadata!Work, Metadata!DeletePart
<1>5. QED
  BY <1>3, <1>4 DEF DeleteMetadata

\* A run that stops anywhere ends its call with an error.
LEMMA AbortSteps ==
    ASSUME MetadataInv, MetadataInv', AbortRun
    PROVE  Metadata!Begin \/ Metadata!Work
<1> USE DEF MetadataInv, CallOfStep
<1>1. pc \in Steps /\ pc' = "idle" /\ UNCHANGED zk
  BY DEF AbortRun, Fail, Leave, LoopInv, TypeOK, LoopTypes
<1>2. ZkCall' = [op |-> "none"] /\ SizeNode' = SizeNode
  BY <1>1 DEF NoCallSteps, Steps, SizeNode
<1>3. CASE pc \in {"zkSize", "zkTime"}
  BY <1>1, <1>2, <1>3 DEF Metadata!Work, Metadata!UpdatePart, Metadata!NoCall
<1>4. CASE pc = "zkDelete"
  <2>1. SizeNode = IF "size" \in zk.nodes THEN SizeNode ELSE 0
    BY DEF SizeNode
  <2> QED
    BY <1>1, <1>2, <1>4, <2>1
    DEF Metadata!Work, Metadata!DeletePart, Metadata!NoCall, Metadata!Deletion
<1>5. CASE pc \notin {"zkSize", "zkTime", "zkDelete"}
  <2>1. ZkCall \in {[op |-> "none"], [op |-> "done"]}
    BY <1>1, <1>5 DEF NoCallSteps
  <2> QED
    BY <1>1, <1>2, <2>1, CallBegins
<1>6. QED
  BY <1>3, <1>4, <1>5

\* Every step of the loop is one that ZkMetadata allows.
LEMMA MetadataStepAllowed ==
    ASSUME MetadataInv, MetadataInv', [Next]_vars
    PROVE  [Metadata!Next]_Metadata!vars
<1> USE DEF Metadata!Next, Metadata!vars
<1> DEFINE None == [op |-> "none"]
           Quiet == {None, [op |-> "done"]}
<1>1. CASE UpdateClusterSizeMeta \/ DeleteMetadata \/ AbortRun
  BY <1>1, UpdateSteps, DeleteSteps, AbortSteps
<1>2. CASE UpdateMetadata
  <2>1. mem.spec.size \in Nat
    BY <1>2, RunHoldsResource, ClusterParts, SpecParts
    DEF UpdateMetadata, MetadataInv, LoopInv, TypeOK
  <2>2. ZkCall = None /\ UNCHANGED <<zk, mem>>
    BY <1>2 DEF UpdateMetadata, MetadataInv, CallOfStep, NoCallSteps, Steps,
                Proceed, memVars
  <2>3. ZkCall' \in {None, [op |-> "update", size |-> mem.spec.size]}
    BY <1>2, <2>2
    DEF UpdateMetadata, MetadataStep, MetadataInv, CallOfStep, NoCallSteps,
        Steps, Proceed, Goto
  <2> QED
    BY <2>1, <2>2, <2>3, CallBegins
<1>3. CASE WaitClusterTermination \/ StartCleanUp
  <2>1. ZkCall = None /\ UNCHANGED zk /\ ZkCall' \in {None, [op |-> "delete"]}
    BY <1>3
    DEF WaitClusterTermination, StartCleanUp, MetadataInv, CallOfStep,
        NoCallSteps, Steps, Proceed, Goto
  <2> QED
    BY <2>1, CallBegins
<1>4. CASE BookieWritesLedgers
  <2>1. zk'.nodes = zk.nodes \cup {"root", "ledgers"} /\ zk'.size = zk.size
    BY <1>4 DEF BookieWritesLedgers, MetadataInv, LoopInv, TypeOK, OutsideTypes
  <2>2. UNCHANGED <<pc, mem>>
    BY <1>4 DEF BookieWritesLedgers, memVars, loopVars
  <2>3. UNCHANGED <<SizeNode, ZkCall>>
    BY <2>1, <2>2 DEF SizeNode, ZkCall
  <2> QED
    BY <2>1, <2>3 DEF Metadata!Others
<1>5. CASE UNCHANGED <<zk, pc, mem>>
  BY <1>5 DEF SizeNode, ZkCall
<1>6. CASE UNCHANGED zk /\ ZkCall \in Quiet /\ ZkCall' = None
  BY <1>6, CallBegins
<1>7. CASE \/ RecordMetadata \/ UpdateStatus \/ AddFinalizer \/ KeepFinalizer
           \/ DownscaleToZero \/ RemoveFinalizer \/ WaitError
  <2>1. /\ pc \in {"record", "status", "finalizer", "unfinalize", "wait"}
        /\ pc' \in {"status", "finalizer", "idle"}
        /\ UNCHANGED zk
    BY <1>7
    DEF RecordMetadata, UpdateStatus, AddFinalizer, KeepFinalizer,
        DownscaleToZero, RemoveFinalizer, WaitError, WriteAndProceed,
        WriteAndEnd, Conflict, EndRun, Fail, Leave, Goto
  <2> QED
    BY <1>6, <2>1 DEF MetadataInv, CallOfStep, NoCallSteps, Steps
<1>8. CASE \/ BeginRun \/ ReconcilePodDisruptionBudget \/ ReconcileConfigMap
           \/ ReconcileServices \/ ReconcileAutoRecovery
           \/ CreateStatefulSet \/ UpdateStatefulSet \/ KeepStatefulSet
           \/ UpdateStatefulsetPVCs
  <2> DEFINE Early == {"idle", "pdb", "configmap", "headless", "client",
                       "statefulset", "pvc", "autorecovery", "metadata"}
  <2>1. pc \in Early /\ pc' \in Early /\ UNCHANGED zk
    BY <1>8
    DEF BeginRun, ReconcilePodDisruptionBudget, ReconcileConfigMap,
        ReconcileServices, ReconcileService, ReconcileAutoRecovery,
        CreateStatefulSet, UpdateStatefulSet, KeepStatefulSet,
        UpdateStatefulsetPVCs, Proceed, Goto, Fail, Leave
  <2> QED
    BY <1>6, <2>1 DEF MetadataInv, CallOfStep, NoCallSteps, Steps
<1> QED
  BY <1>1, <1>2, <1>3, <1>4, <1>5, <1>7, <1>8
  DEF Next, OperatorStep, UserStep, vars, memVars, loopVars, EditSpec,
      DeleteCluster, NewVersionBy, SyncCluster, SyncStatefulSet, SyncDeployment,
      StartBookie,
      StopBookie, ScaleAutoRecovery, GarbageCollect

\* The loop uses the ZooKeeper client as ZkMetadata allows: one call at a time,
\* with a result only when it is complete, whatever fails and whoever writes.
THEOREM MetadataUsed == Spec => UsesMetadata
<1>1. Init => Telling /\ Metadata!Init
  BY DEF Init, Telling, Metadata!Init, Metadata!NoCall, SizeNode, ZkCall
<1>2. Telling /\ [Next]_vars => Telling'
  BY TellingStep
<1>3. Spec => []MetadataInv
  BY <1>1, <1>2, CallOfStepHolds, LoopInvHolds, PTL DEF Spec, MetadataInv
<1>4. MetadataInv /\ MetadataInv' /\ [Next]_vars => [Metadata!Next]_Metadata!vars
  BY MetadataStepAllowed
<1>5. Spec => Metadata!Spec
  BY <1>1, <1>3, <1>4, PTL DEF Spec, Metadata!Spec
<1>6. QED
  BY <1>5 DEF UsesMetadata
=============================================================================
