------------------------- MODULE ClusterLabelsProofs -------------------------
(***************************************************************************)
(* Proofs about ClusterLabels, for any number of failed runs, replacements *)
(* and removed Services.  The Services select the bookies with and without *)
(* spec.labels.  The wait before the clean-up and the search for claims    *)
(* are right only without the labels that spoil them, and the theorems say *)
(* that nothing else does, except a run that fails between the update of   *)
(* the StatefulSet and its claims.                                         *)
(***************************************************************************)
EXTENDS ClusterLabels, TLAPS

PastSts == {"claims", "autorecovery", "metadata", "status", "finalizer"}
PastDep == {"metadata", "status", "finalizer"}

\* Whatever the shared map held, a selector gets the component of its own.
OwnSelectors ==
    /\ scale \in {0, 1}
    /\ pdb \in {"nothing", Bookie}
    /\ sts \in {Absent} \cup [sel: {Bookie}, replicas: {0, 1}]
    /\ dep \in {Absent} \cup [sel: {AutoRecovery}, replicas: {0, 1}]

\* What the map that the calls of a run share can hold.
Held == {Any} \cup Components

\* The budget, made before the Services by every run, leaves its component in
\* the map, whatever the map held before; the Services have it from there.
OwnServices ==
    /\ stored \in Held
    /\ mem \in Held
    /\ SharesTheMap /\ pc \in {"headless", "client"} => mem # AutoRecovery
    /\ svc \in [{"headless", "client"} -> {"nothing", Any, Bookie}]

\* A run that has passed a workload has given it the scale of the resource,
\* which only the end of a run changes.
Rescaled ==
    /\ pc \in PastSts => sts # Absent /\ sts.replicas = scale
    /\ pc \in PastDep => dep.replicas = scale

\* Pods have the component of a workload, and claims that of the bookies.
OwnPods ==
    /\ pods \subseteq Components
    /\ claims \subseteq {Bookie}

\* A resource that is gone has no run, and nobody scales its workloads.
Gone ==
    phase = "gone" =>
        pc = "idle" /\ sts.replicas = 0 /\ dep.replicas = 0

LabelsInv == OwnSelectors /\ OwnServices /\ Rescaled /\ OwnPods /\ Gone

-----------------------------------------------------------------------------
\* The selectors of the two workloads and of nothing differ.
LEMMA LabelsDiffer ==
    /\ Bookie # AutoRecovery
    /\ "nothing" \notin Components /\ Any \notin Components /\ "nothing" # Any
BY DEF Bookie, AutoRecovery, Components, Any

\* The invariant holds before the first run.
LEMMA LabelsInit == Init => LabelsInv
BY DEF Init, LabelsInv, OwnSelectors, OwnServices, Held, Rescaled, OwnPods, Gone,
       PastSts, PastDep

\* Every step keeps the selectors of the budget and the workloads.
LEMMA SelectorsStep ==
    ASSUME OwnSelectors, [Next]_vars
    PROVE  OwnSelectors'
<1>1. CASE ReconcilePodDisruptionBudget
  BY <1>1 DEF ReconcilePodDisruptionBudget, Component, res, OwnSelectors
<1>2. CASE CreateStatefulSet \/ UpdateStatefulSet
  BY <1>2 DEF CreateStatefulSet, UpdateStatefulSet, Component, res, OwnSelectors
<1>3. CASE ReconcileAutoRecovery
  BY <1>3 DEF ReconcileAutoRecovery, Component, res, OwnSelectors
<1>4. CASE ReconcileFinalizer \/ DownscaleToZero
  BY <1>4 DEF ReconcileFinalizer, DownscaleToZero, WritesBack, objs, OwnSelectors
<1>5. CASE UNCHANGED <<pdb, sts, dep, scale>>
  BY <1>5 DEF OwnSelectors
<1> QED
  BY <1>1, <1>2, <1>3, <1>4, <1>5
  DEF Next, vars, res, objs, BeginRun, ReconcileHeadlessService,
      ReconcileClientService, ReconcileService, KeepStatefulSet,
      UpdateStatefulsetPVCs, UpdateMetadata, UpdateStatus,
      WaitClusterTermination, AbortRun, ReplaceCluster, DeleteCluster,
      RemoveService, ScaleWorkload

\* Every step keeps what the shared map can hold, and the selectors of the
\* Services.
LEMMA OwnServicesStep ==
    ASSUME OwnServices, [Next]_vars
    PROVE  OwnServices'
<1> USE DEF Held, Components, Goto, Leave
<1>1. CASE BeginRun
  BY <1>1 DEF BeginRun, res, objs, OwnServices
<1>2. CASE ReconcilePodDisruptionBudget
  <2>1. mem' = Bookie \/ (mem' = mem /\ ~SharesTheMap)
    BY <1>2 DEF ReconcilePodDisruptionBudget, GenerateWorkloadLabels, Component
  <2>2. mem' \in Held /\ pc' = "headless"
    BY <1>2, <2>1 DEF ReconcilePodDisruptionBudget, OwnServices
  <2>3. QED
    BY <1>2, <2>1, <2>2, LabelsDiffer
    DEF ReconcilePodDisruptionBudget, res, OwnServices
<1>3. CASE ReconcileHeadlessService \/ ReconcileClientService
  <2>1. PICK s \in {"headless", "client"}, n \in {"client", "statefulset"} :
            ReconcileService(s, n)
    BY <1>3 DEF ReconcileHeadlessService, ReconcileClientService
  <2>2. (SharesTheMap => mem # AutoRecovery) /\ UNCHANGED <<stored, mem>>
    BY <2>1 DEF ReconcileService, OwnServices, res
  <2>3. GenerateLabels \in {Any, Bookie}
    BY <2>2 DEF GenerateLabels, OwnServices
  <2>4. svc' \in [{"headless", "client"} -> {"nothing", Any, Bookie}]
    BY <2>1, <2>3 DEF ReconcileService, OwnServices
  <2>5. QED
    BY <2>2, <2>4 DEF OwnServices
<1>4. CASE CreateStatefulSet \/ ReconcileAutoRecovery
  <2>1. mem' \in Held /\ UNCHANGED <<stored, svc>>
    BY <1>4
    DEF CreateStatefulSet, ReconcileAutoRecovery, GenerateWorkloadLabels,
        Component, res, OwnServices
  <2>2. pc' \notin {"headless", "client"}
    BY <1>4 DEF CreateStatefulSet, ReconcileAutoRecovery
  <2>3. QED
    BY <2>1, <2>2 DEF OwnServices
<1>5. CASE KeepStatefulSet \/ UpdateStatefulSet \/ UpdateStatefulsetPVCs
  BY <1>5
  DEF KeepStatefulSet, UpdateStatefulSet, UpdateStatefulsetPVCs, res, objs,
      OwnServices
<1>6. CASE UpdateMetadata \/ UpdateStatus
  BY <1>6 DEF UpdateMetadata, UpdateStatus, Decoded, copy, res, objs, OwnServices
<1>7. CASE \/ ReconcileFinalizer \/ DownscaleToZero \/ WaitClusterTermination
           \/ AbortRun
  BY <1>7
  DEF ReconcileFinalizer, DownscaleToZero, WaitClusterTermination, AbortRun,
      WritesBack, copy, res, objs, OwnServices
<1>8. CASE ReplaceCluster \/ DeleteCluster
  BY <1>8 DEF ReplaceCluster, DeleteCluster, objs, OwnServices
<1>9. CASE RemoveService
  BY <1>9 DEF RemoveService, res, copy, OwnServices
<1>10. CASE UNCHANGED <<stored, mem, pc, svc>>
  BY <1>10 DEF OwnServices
<1> QED
  BY <1>1, <1>2, <1>3, <1>4, <1>5, <1>6, <1>7, <1>8, <1>9, <1>10
  DEF Next, vars, res, copy, objs, ScaleWorkload

\* Every step keeps the workloads that a run has passed at the scale.
LEMMA RescaledStep ==
    ASSUME OwnSelectors, Rescaled, [Next]_vars
    PROVE  Rescaled'
<1> USE DEF PastSts, PastDep, Goto, Leave
<1>1. CASE \/ BeginRun \/ ReconcilePodDisruptionBudget
           \/ ReconcileHeadlessService \/ ReconcileClientService
  BY <1>1
  DEF BeginRun, ReconcilePodDisruptionBudget, ReconcileHeadlessService,
      ReconcileClientService, ReconcileService, Rescaled
<1>2. CASE CreateStatefulSet \/ UpdateStatefulSet
  <2>1. sts' \in [sel: {Bookie}, replicas: {0, 1}] /\ sts'.replicas = scale
    BY <1>2
    DEF CreateStatefulSet, UpdateStatefulSet, Component, OwnSelectors
  <2>2. sts' # Absent
    BY <2>1, LabelsDiffer DEF Absent, Components
  <2>3. UNCHANGED scale /\ pc' \notin PastDep
    BY <1>2 DEF CreateStatefulSet, UpdateStatefulSet, res
  <2>4. QED
    BY <2>1, <2>2, <2>3 DEF Rescaled
<1>7. CASE KeepStatefulSet \/ UpdateStatefulsetPVCs
  BY <1>7 DEF KeepStatefulSet, UpdateStatefulsetPVCs, res, objs, Rescaled
<1>3. CASE ReconcileAutoRecovery
  BY <1>3, LabelsDiffer
  DEF ReconcileAutoRecovery, res, Absent, Rescaled, OwnSelectors
<1>4. CASE UpdateMetadata \/ UpdateStatus
  BY <1>4 DEF UpdateMetadata, UpdateStatus, res, objs, Rescaled
<1>5. CASE \/ ReconcileFinalizer \/ DownscaleToZero \/ WaitClusterTermination
           \/ AbortRun
  BY <1>5
  DEF ReconcileFinalizer, DownscaleToZero, WaitClusterTermination, AbortRun,
      WritesBack, Rescaled
<1>6. CASE UNCHANGED <<pc, scale, sts, dep>>
  BY <1>6 DEF Rescaled
<1> QED
  BY <1>1, <1>2, <1>3, <1>4, <1>5, <1>6, <1>7
  DEF Next, vars, res, objs, copy, ReplaceCluster, DeleteCluster, RemoveService,
      ScaleWorkload

\* Every step keeps the components of pods and claims.
LEMMA OwnPodsStep ==
    ASSUME OwnSelectors, OwnPods, [Next]_vars
    PROVE  OwnPods'
<1>1. CASE UpdateStatefulsetPVCs
  BY <1>1 DEF UpdateStatefulsetPVCs, OwnPods
<1>2. CASE ScaleWorkload
  <2>1. PICK w \in {sts, dep} :
            /\ w # Absent
            /\ pods' = IF w.replicas > 0 THEN pods \cup {w.sel} ELSE pods \ {w.sel}
            /\ claims' = IF w = sts THEN claims \cup (pods' \cap {w.sel}) ELSE claims
    BY <1>2 DEF ScaleWorkload
  <2>2. w.sel \in Components /\ (w = sts => w.sel = Bookie)
    BY <2>1 DEF OwnSelectors, Components
  <2>3. QED
    BY <2>1, <2>2 DEF OwnPods
<1>3. CASE UNCHANGED runs
  BY <1>3 DEF runs, OwnPods
<1> QED
  BY <1>1, <1>2, <1>3
  DEF Next, vars, BeginRun, ReconcilePodDisruptionBudget,
      ReconcileHeadlessService, ReconcileClientService, ReconcileService,
      CreateStatefulSet, KeepStatefulSet, UpdateStatefulSet,
      ReconcileAutoRecovery, UpdateMetadata, UpdateStatus, ReconcileFinalizer,
      DownscaleToZero, WaitClusterTermination, AbortRun, ReplaceCluster,
      DeleteCluster, RemoveService

\* Every step leaves a resource that is gone without runs and replicas.
LEMMA GoneStep ==
    ASSUME Rescaled, Gone, [Next]_vars
    PROVE  Gone'
<1> USE DEF Leave, Goto
<1>1. CASE WaitClusterTermination
  BY <1>1 DEF WaitClusterTermination, objs, Gone, Rescaled, PastSts, PastDep
<1>2. CASE BeginRun
  BY <1>2 DEF BeginRun, res, objs, Gone
<1>3. CASE phase' = phase /\ pc # "idle"
  BY <1>3 DEF Gone
<1>4. CASE ReplaceCluster \/ DeleteCluster
  BY <1>4 DEF ReplaceCluster, DeleteCluster, Gone
<1>5. CASE UNCHANGED <<phase, pc, sts, dep>>
  BY <1>5 DEF Gone
<1> QED
  BY <1>1, <1>2, <1>3, <1>4, <1>5
  DEF Next, vars, res, objs, copy, ReconcilePodDisruptionBudget,
      ReconcileHeadlessService, ReconcileClientService, ReconcileService,
      CreateStatefulSet, KeepStatefulSet, UpdateStatefulSet,
      UpdateStatefulsetPVCs, ReconcileAutoRecovery, UpdateMetadata,
      UpdateStatus, ReconcileFinalizer, DownscaleToZero, AbortRun,
      RemoveService, ScaleWorkload

\* The invariant holds in every reachable state.
LEMMA LabelsInvHolds == Spec => []LabelsInv
<1>1. LabelsInv /\ [Next]_vars => LabelsInv'
  BY SelectorsStep, OwnServicesStep, RescaledStep, OwnPodsStep, GoneStep DEF LabelsInv
<1>2. QED
  BY <1>1, LabelsInit, PTL DEF Spec
-----------------------------------------------------------------------------
\* A Service, whenever it is created, selects the bookies, whatever labels the
\* user set and whatever came back from the API server: the budget is made
\* before it by every run, and leaves the component of the bookies in the map.
THEOREM ServicesReachBookies == Spec => []ServicesSelectBookies
<1>1. LabelsInv => ServicesSelectBookies
  <2> SUFFICES ASSUME LabelsInv, NEW s \in DOMAIN svc, svc[s] # "nothing"
               PROVE  Bookie \in Selected(svc[s], Components)
    BY DEF ServicesSelectBookies
  <2>1. svc[s] \in {Any, Bookie}
    BY DEF LabelsInv, OwnServices
  <2>2. QED
    BY <2>1 DEF Selected, Components
<1>2. QED
  BY <1>1, LabelsInvHolds, PTL

\* Without labels of the user's own, a step lets the resource go only when its
\* pods have terminated, and brings none of them back.
LEMMA PodsGoneStep ==
    ASSUME ~OwnLabels, LabelsInv, AllPodsTerminated, [Next]_vars
    PROVE  AllPodsTerminated'
<1> USE DEF LabelsInv
<1>1. CASE WaitClusterTermination
  <2>1. Selected(GenerateLabels, pods) = pods
    BY DEF Selected, GenerateLabels, SharesTheMap
  <2>2. QED
    BY <1>1, <2>1 DEF WaitClusterTermination, runs, AllPodsTerminated
<1>2. CASE ScaleWorkload
  <2>1. CASE phase = "gone"
    <3>1. \A w \in {sts, dep} : ~(w.replicas > 0)
      BY <2>1 DEF Gone
    <3>2. pods' = {}
      BY <1>2, <2>1, <3>1 DEF ScaleWorkload, AllPodsTerminated
    <3>3. QED
      BY <3>2 DEF AllPodsTerminated
  <2>2. CASE phase # "gone"
    BY <1>2, <2>2 DEF ScaleWorkload, res, AllPodsTerminated
  <2>3. QED
    BY <2>1, <2>2
<1>3. CASE phase' # "gone"
  BY <1>3 DEF AllPodsTerminated
<1>4. CASE UNCHANGED <<phase, pods>>
  BY <1>4 DEF AllPodsTerminated
<1> QED
  BY <1>1, <1>2, <1>3, <1>4
  DEF Next, vars, res, runs, BeginRun, ReconcilePodDisruptionBudget,
      ReconcileHeadlessService, ReconcileClientService, ReconcileService,
      CreateStatefulSet, KeepStatefulSet, UpdateStatefulSet,
      UpdateStatefulsetPVCs, ReconcileAutoRecovery, UpdateMetadata,
      UpdateStatus, ReconcileFinalizer, DownscaleToZero, AbortRun,
      ReplaceCluster, DeleteCluster, RemoveService

\* When the user set no labels, the wait before the clean-up waits for all the
\* pods of the cluster, although the labels it looks for name no component.
THEOREM PodsTerminateWithoutLabels == ~OwnLabels => (Spec => []AllPodsTerminated)
<1>1. Init => AllPodsTerminated
  BY DEF Init, AllPodsTerminated
<1>2. ASSUME ~OwnLabels
      PROVE  LabelsInv /\ AllPodsTerminated /\ [Next]_vars => AllPodsTerminated'
  BY <1>2, PodsGoneStep
<1>3. ASSUME ~OwnLabels
      PROVE  Spec => []AllPodsTerminated
  BY <1>1, <1>2, <1>3, LabelsInvHolds, PTL DEF Spec
<1>4. QED
  BY <1>3

\* An empty StatefulSet has no claims once the run that emptied it has looked for
\* them, unless a run failed.
EmptyHasNoClaims ==
    (faults = 0 /\ pc # "claims" /\ sts.replicas = 0) => claims = {}

\* Failed runs are counted.
FaultsCounted == faults \in Nat

\* Every step keeps this, unless claims are looked for by the labels of pods.
LEMMA EmptyHasNoClaimsStep ==
    ASSUME ~PodLabels, LabelsInv, FaultsCounted, EmptyHasNoClaims, [Next]_vars
    PROVE  EmptyHasNoClaims'
<1> USE DEF LabelsInv
<1>1. CASE CreateStatefulSet
  BY <1>1 DEF CreateStatefulSet, Absent, runs, bnds, EmptyHasNoClaims
<1>2. CASE UpdateStatefulSet
  BY <1>2 DEF UpdateStatefulSet, Goto, EmptyHasNoClaims
<1>3. CASE UpdateStatefulsetPVCs
  <2>1. CASE sts.replicas = 0
    <3>1. sts.sel = Bookie
      BY <1>3 DEF UpdateStatefulsetPVCs, OwnSelectors, Rescaled, PastSts
    <3>2. FoundClaims = claims
      BY <3>1 DEF FoundClaims, Selected, OwnPods
    <3>3. QED
      BY <1>3, <2>1, <3>2
      DEF UpdateStatefulsetPVCs, IdleClaims, EmptyHasNoClaims
  <2>2. CASE sts.replicas # 0
    BY <1>3, <2>2 DEF UpdateStatefulsetPVCs, objs, EmptyHasNoClaims
  <2>3. QED
    BY <2>1, <2>2
<1>4. CASE ScaleWorkload
  <2>1. CASE claims' = claims
    BY <1>4, <2>1 DEF ScaleWorkload, objs, bnds, EmptyHasNoClaims
  <2>2. CASE claims' # claims
    <3>1. /\ claims' = claims \cup (pods' \cap {sts.sel})
          /\ pods' = IF sts.replicas > 0 THEN pods \cup {sts.sel} ELSE pods \ {sts.sel}
      BY <1>4, <2>2 DEF ScaleWorkload
    <3>2. sts.replicas # 0
      BY <2>2, <3>1
    <3>3. QED
      BY <1>4, <3>2 DEF ScaleWorkload, objs, EmptyHasNoClaims
  <2>3. QED
    BY <2>1, <2>2
<1>5. CASE AbortRun
  BY <1>5 DEF AbortRun, FaultsCounted, EmptyHasNoClaims
<1>6. CASE pc # "claims" /\ UNCHANGED <<sts, claims, faults>>
  BY <1>6 DEF EmptyHasNoClaims
<1>7. CASE \/ ReplaceCluster \/ DeleteCluster \/ RemoveService
           \/ UNCHANGED vars
  BY <1>7
  DEF ReplaceCluster, DeleteCluster, RemoveService, vars, objs, runs, bnds,
      EmptyHasNoClaims
<1>8. CASE \/ BeginRun \/ ReconcilePodDisruptionBudget
           \/ ReconcileHeadlessService \/ ReconcileClientService
           \/ KeepStatefulSet \/ ReconcileAutoRecovery
  BY <1>6, <1>8
  DEF BeginRun, ReconcilePodDisruptionBudget, ReconcileHeadlessService,
      ReconcileClientService, ReconcileService, KeepStatefulSet,
      ReconcileAutoRecovery, objs, runs, bnds
<1>9. CASE \/ UpdateMetadata \/ UpdateStatus \/ ReconcileFinalizer
           \/ DownscaleToZero \/ WaitClusterTermination
  BY <1>6, <1>9
  DEF UpdateMetadata, UpdateStatus, ReconcileFinalizer, DownscaleToZero,
      WaitClusterTermination, objs, runs, bnds
<1> QED
  BY <1>1, <1>2, <1>3, <1>4, <1>5, <1>7, <1>8, <1>9 DEF Next

\* When the pod template has no labels of its own and no run failed, the claims
\* that a cluster is scaled away from are found, those of the last bookie before
\* it goes included, whatever the labels of the cluster.
THEOREM ClaimsAreFound == ~PodLabels => (Spec => []ClaimsFoundUnlessFailed)
<1>1. Init => FaultsCounted /\ EmptyHasNoClaims
  BY DEF Init, FaultsCounted, EmptyHasNoClaims
<1>2. FaultsCounted /\ [Next]_vars => FaultsCounted'
  <2>1. [Next]_vars => UNCHANGED faults \/ AbortRun
    BY DEF Next, vars, bnds, BeginRun, ReconcilePodDisruptionBudget,
      ReconcileHeadlessService, ReconcileClientService, ReconcileService,
      CreateStatefulSet, KeepStatefulSet, UpdateStatefulSet,
      UpdateStatefulsetPVCs, ReconcileAutoRecovery, UpdateMetadata,
      UpdateStatus, ReconcileFinalizer, DownscaleToZero, WaitClusterTermination,
      ReplaceCluster, DeleteCluster, RemoveService, ScaleWorkload
  <2>2. QED
    BY <2>1 DEF FaultsCounted, AbortRun
<1>3. ASSUME ~PodLabels
      PROVE  LabelsInv /\ FaultsCounted /\ EmptyHasNoClaims /\ [Next]_vars
                => EmptyHasNoClaims'
  BY <1>3, EmptyHasNoClaimsStep
<1>4. LabelsInv /\ EmptyHasNoClaims => ClaimsFoundUnlessFailed
  BY DEF LabelsInv, Gone, EmptyHasNoClaims, ClaimsFound, ClaimsFoundUnlessFailed
<1>5. ASSUME ~PodLabels
      PROVE  Spec => []ClaimsFoundUnlessFailed
  BY <1>1, <1>2, <1>3, <1>4, <1>5, LabelsInvHolds, PTL DEF Spec
<1>6. QED
  BY <1>5
=============================================================================
