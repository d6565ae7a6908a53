-------------------------- MODULE ClusterRecordProofs --------------------------
(***************************************************************************)
(* RecordIsApplied and SettledApplied, for any number of edits and of      *)
(* failures and with informers of the workloads that may lag, provided     *)
(* that edits move on and that no bkConfig has blank values.               *)
(*                                                                         *)
(* The loop decides by what the status recorded, while the objects carry   *)
(* what some run, whose record may have failed, has given them.  The       *)
(* argument is an order in which versions, configurations and sizes are    *)
(* asked for: the objects are never behind any copy's record nor ahead of  *)
(* any copy's spec, so they are up to date when record and spec agree.     *)
(***************************************************************************)
EXTENDS ClusterReconcileProofs, FiniteSetTheorems

\* A bkConfig is a finite map without blank values.
PlainConfigs ==
    \A c \in Configs :
        /\ c = [k \in DOMAIN c |-> c[k]]
        /\ IsFiniteSet(DOMAIN c)
        /\ \A k \in DOMAIN c : c[k] # Blank

\* The ways to order values, with the one of an unwritten status first.
Orders(values, first) ==
    {age \in [values -> Nat] :
        /\ \A v \in values : age[first] <= age[v]
        /\ \A v, w \in values : age[v] = age[w] => v = w}

SpecEdits == {e \in Edits : e[1] \in SpecType}

InVersionOrder(age) == \A e \in SpecEdits : age[e[1].ver] <= age[e[2].ver]
InConfigOrder(age)  == \A e \in SpecEdits : age[e[1].cfg] <= age[e[2].cfg]
InSizeOrder(age)    == \A e \in SpecEdits : age[e[1].size] <= age[e[2].size]

VersionOrders == Orders(Versions \cup {NoVersion}, NoVersion)
ConfigOrders  == Orders(Configs, EmptyConfig)
SizeOrders    == Orders(Nat, 0)

\* No edit takes a setting back to a value that it had before.
VersionsMoveOn == \E age \in VersionOrders : InVersionOrder(age)
ConfigsMoveOn  == \E age \in ConfigOrders : InConfigOrder(age)
SizesMoveOn    == \E age \in SizeOrders : InSizeOrder(age)

VersionAge == CHOOSE age \in VersionOrders : InVersionOrder(age)
ConfigAge  == CHOOSE age \in ConfigOrders : InConfigOrder(age)
SizeAge    == CHOOSE age \in SizeOrders : InSizeOrder(age)

RecordsAreOrdered == PlainConfigs /\ VersionsMoveOn /\ ConfigsMoveOn

\* s was asked for before t, or is t.
Older(s, t) ==
    /\ VersionAge[s.ver] <= VersionAge[t.ver]
    /\ ConfigAge[s.cfg] <= ConfigAge[t.cfg]

-----------------------------------------------------------------------------
AfterCm == {"headless", "client", "statefulset", "pvc", "autorecovery",
            "metadata", "zkSize", "zkTime", "record", "status", "finalizer",
            "wait", "zkDelete", "unfinalize"}
AfterSts == AfterCm \ {"headless", "client", "statefulset"}
AfterPdb == AfterCm \cup {"configmap"}
AfterServices == AfterSts \cup {"statefulset"}
AfterDep == AfterSts \ {"pvc", "autorecovery"}
AfterRecord == AfterDep \ {"metadata", "zkSize", "zkTime", "record"}
AfterZk == AfterRecord \cup {"zkTime", "record"}

\* The copies of the resource that there are, itself included.
Copies == {c \in {cr, cache, mem} : Exists(c)}

\* What a run holds, by where it is.
RunShape ==
    /\ pc = "idle" => mem = NoCluster
    /\ pc \in {"zkSize", "zkTime", "record"} => mem.phase = "live"
    /\ pc \in {"wait", "zkDelete", "unfinalize"} => mem.phase = "deleting"

\* A run is behind the cache, and the cache behind the resource.
Overtaken ==
    cr.phase = "live" =>
        /\ \A c \in Copies : c.phase = "live" /\ Older(c.spec, cr.spec)
        /\ Exists(mem) => Exists(cache) /\ Older(mem.spec, cache.spec)
        /\ stsCache.exists => sts.exists
        /\ depCache.exists => dep.exists

\* The version of the StatefulSet is between what any copy says was recorded
\* and what it asks for.
StsBetween ==
    cr.phase = "live" =>
        IF sts.exists
        THEN \A c \in Copies : /\ VersionAge[c.meta.ver] <= VersionAge[sts.ver]
                               /\ VersionAge[sts.ver] <= VersionAge[c.spec.ver]
        ELSE \A c \in Copies : c.meta.ver = NoVersion

\* So is the configuration of the ConfigMap.
CmHas(k) ==
    /\ cm.data \in Renderings(k)
    /\ \A c \in Copies : /\ ConfigAge[c.meta.cfg] <= ConfigAge[k]
                         /\ ConfigAge[k] <= ConfigAge[c.spec.cfg]
CmBetween ==
    cr.phase = "live" =>
        IF cm.exists
        THEN \E k \in Configs : CmHas(k)
        ELSE \A c \in Copies : c.meta.cfg = EmptyConfig

\* A run that has passed them has brought both up to date.
ObjectsDone ==
    cr.phase = "live" =>
        /\ pc \in AfterCm =>
            cm.exists /\ cm.data \in Renderings(mem.spec.cfg)
        /\ pc \in AfterSts =>
            sts.exists /\ sts.ver = mem.spec.ver

RecordInv ==
    LoopInv /\ RunShape /\ Overtaken /\ StsBetween /\ CmBetween /\ ObjectsDone

-----------------------------------------------------------------------------
(* Configurations and ages.                                                 *)

\* mapEqual is equality of maps that are finite and have no blank values: the
\* keys of the first are keys of the second, which has no more of them.
LEMMA MapEqualIsEquality ==
    ASSUME PlainConfigs, NEW c \in Configs, NEW d \in Configs
    PROVE  MapEqual(c, d) <=> c = d
<1>1. /\ c = [k \in DOMAIN c |-> c[k]] /\ d = [k \in DOMAIN d |-> d[k]]
      /\ IsFiniteSet(DOMAIN c) /\ IsFiniteSet(DOMAIN d)
      /\ \A k \in DOMAIN c : c[k] # Blank
  BY DEF PlainConfigs
<1>2. MapEqual(c, c)
  BY DEF MapEqual, Lookup
<1>3. ASSUME MapEqual(c, d) PROVE c = d
  <2>1. DOMAIN c \subseteq DOMAIN d
    BY <1>1, <1>3 DEF MapEqual, Lookup
  <2>2. DOMAIN c = DOMAIN d
    BY <1>1, <1>3, <2>1, FS_Subset DEF MapEqual
  <2>3. \A k \in DOMAIN c : c[k] = d[k]
    BY <1>3, <2>2 DEF MapEqual, Lookup
  <2>4. QED
    BY <1>1, <2>2, <2>3
<1>4. QED
  BY <1>2, <1>3

\* Ages are numbers that tell the values apart, and no edit makes younger.
LEMMA VersionAges ==
    ASSUME VersionsMoveOn
    PROVE  /\ \A v \in Versions \cup {NoVersion} :
                VersionAge[v] \in Nat /\ VersionAge[NoVersion] <= VersionAge[v]
           /\ \A v, w \in Versions \cup {NoVersion} :
                VersionAge[v] = VersionAge[w] => v = w
           /\ InVersionOrder(VersionAge)
<1>1. VersionAge \in VersionOrders /\ InVersionOrder(VersionAge)
  BY Zenon DEF VersionAge, VersionsMoveOn
<1>2. QED
  BY <1>1 DEF VersionOrders, Orders

\* The same of configurations.
LEMMA ConfigAges ==
    ASSUME ConfigsMoveOn
    PROVE  /\ \A c \in Configs :
                ConfigAge[c] \in Nat /\ ConfigAge[EmptyConfig] <= ConfigAge[c]
           /\ \A c, d \in Configs : ConfigAge[c] = ConfigAge[d] => c = d
           /\ InConfigOrder(ConfigAge)
<1>1. ConfigAge \in ConfigOrders /\ InConfigOrder(ConfigAge)
  BY Zenon DEF ConfigAge, ConfigsMoveOn
<1>2. QED
  BY <1>1 DEF ConfigOrders, Orders

\* To be older is reflexive and transitive, and an edit does not go back.
LEMMA OlderIsOrder ==
    ASSUME VersionsMoveOn, ConfigsMoveOn
    PROVE  /\ \A s \in SpecType : Older(s, s)
           /\ \A s, t, u \in SpecType : Older(s, t) /\ Older(t, u) => Older(s, u)
           /\ \A e \in SpecEdits : Older(e[1], e[2])
<1>1. \A s \in SpecType : VersionAge[s.ver] \in Nat /\ ConfigAge[s.cfg] \in Nat
  BY VersionAges, ConfigAges, SpecParts
<1>2. \A e \in SpecEdits : Older(e[1], e[2])
  BY VersionAges, ConfigAges DEF Older, InVersionOrder, InConfigOrder
<1>3. QED
  BY <1>1, <1>2 DEF Older

-----------------------------------------------------------------------------
(* How the copies change while the resource is live.                        *)

\* Every step keeps what a run holds.
LEMMA RunShapeStep ==
    ASSUME LoopInv, RunShape, [Next]_vars
    PROVE  RunShape'
<1> USE DEF Proceed, Goto, memVars
<1>0. pc # "idle" => mem.phase \in {"live", "deleting"}
  BY DEF LoopInv, TypeOK, LoopTypes, Exists
<1>1. CASE BeginRun
  BY <1>1 DEF BeginRun, RunShape
<1>2. CASE \/ ReconcilePodDisruptionBudget \/ ReconcileConfigMap
           \/ ReconcileServices \/ UpdateStatefulsetPVCs
  BY <1>2
  DEF ReconcilePodDisruptionBudget, ReconcileConfigMap, ReconcileServices,
      ReconcileService, UpdateStatefulsetPVCs, RunShape
<1>3. CASE \/ CreateStatefulSet \/ UpdateStatefulSet \/ KeepStatefulSet
           \/ ReconcileAutoRecovery
  BY <1>3
  DEF CreateStatefulSet, UpdateStatefulSet, KeepStatefulSet,
      ReconcileAutoRecovery, Fail, Leave, RunShape
<1>4. CASE UpdateMetadata \/ UpdateClusterSizeMeta
  BY <1>0, <1>4 DEF UpdateMetadata, MetadataStep, UpdateClusterSizeMeta, RunShape
<1>5. CASE RecordMetadata \/ UpdateStatus
  BY <1>5
  DEF RecordMetadata, UpdateStatus, WriteAndProceed, Conflict, Fail, Leave,
      RunShape
<1>6. CASE \/ AddFinalizer \/ KeepFinalizer \/ DownscaleToZero
           \/ RemoveFinalizer \/ WaitError \/ AbortRun
  BY <1>6
  DEF AddFinalizer, KeepFinalizer, DownscaleToZero, RemoveFinalizer, WaitError,
      AbortRun, WriteAndEnd, Conflict, EndRun, Fail, Leave, RunShape
<1>7. CASE StartCleanUp \/ WaitClusterTermination \/ DeleteMetadata
  BY <1>7 DEF StartCleanUp, WaitClusterTermination, DeleteMetadata, RunShape
<1>8. CASE UNCHANGED <<mem, pc>>
  BY <1>8 DEF RunShape
<1> QED
  BY <1>1, <1>2, <1>3, <1>4, <1>5, <1>6, <1>7, <1>8
  DEF Next, OperatorStep, UserStep, vars, loopVars, EditSpec, DeleteCluster,
      NewVersionBy, SyncCluster, SyncStatefulSet, SyncDeployment, StartBookie,
      StopBookie,
      ScaleAutoRecovery, BookieWritesLedgers, GarbageCollect

\* The ways in which the resource and its copies change while it is live.
LEMMA LiveChanges ==
    ASSUME LoopInv, RunShape, [Next]_vars, cr'.phase = "live"
    PROVE  /\ cr.phase = "live"
           /\ \/ UNCHANGED <<cr, cache, mem>>
              \/ UNCHANGED <<cr, cache>> /\ mem' = NoCluster
              \/ UNCHANGED <<cr, cache>> /\ mem' = cache /\ Exists(cache)
              \/ UNCHANGED <<cr, mem>> /\ cache' = cr
              \/ /\ UNCHANGED cache /\ mem = cr /\ mem' = cr'
                 /\ cr' = [cr EXCEPT !.ready = ListedPods]
              \/ /\ pc = "record"
                 /\ UNCHANGED cache /\ mem = cr /\ mem' = cr'
                 /\ cr' = [cr EXCEPT !.meta = RecordedMeta(cr.spec)]
              \/ /\ UNCHANGED cache /\ mem' = NoCluster
                 /\ cr' = [cr EXCEPT !.fin = TRUE]
              \/ /\ UNCHANGED <<cache, mem>>
                 /\ \E e \in SpecEdits :
                        e[1] = cr.spec /\ cr' = [cr EXCEPT !.spec = e[2]]
<1>1. /\ cr \in ClusterType
      /\ memFresh => mem = cr
  BY DEF LoopInv, TypeOK, LoopTypes, CopiesAgree
<1>2. CASE BeginRun
  BY <1>2 DEF BeginRun, FoundByRun, crVars, memVars
<1>3. CASE CreateStatefulSet \/ UpdateStatefulSet \/ ReconcileAutoRecovery
  BY <1>3
  DEF CreateStatefulSet, UpdateStatefulSet, ReconcileAutoRecovery, Proceed, Fail,
      Leave, crVars, memVars
<1>4. CASE RecordMetadata
  BY <1>1, <1>4
  DEF RecordMetadata, WriteAndProceed, Accept, Conflict, Fail, Leave, crVars,
      ClusterType
<1>5. CASE UpdateStatus
  BY <1>1, <1>5
  DEF UpdateStatus, WriteAndProceed, Accept, Conflict, Fail, Leave, crVars,
      ClusterType
<1>6. CASE AddFinalizer
  BY <1>1, <1>6
  DEF AddFinalizer, WriteAndEnd, Accept, Conflict, EndRun, Fail, Leave, crVars,
      ClusterType
<1>7. CASE DownscaleToZero \/ RemoveFinalizer
  BY <1>1, <1>7
  DEF DownscaleToZero, RemoveFinalizer, RunShape, WriteAndEnd, Accept, Conflict,
      EndRun, Fail, Leave, crVars, ClusterType
<1>8. CASE KeepFinalizer \/ WaitError \/ AbortRun
  BY <1>8
  DEF KeepFinalizer, WaitError, AbortRun, EndRun, Fail, Leave, crVars
<1>9. CASE EditSpec
  <2>1. PICK e \in Edits : e[1] = cr.spec /\ cr' = [cr EXCEPT !.spec = e[2]]
    BY <1>9 DEF EditSpec, NewVersionBy
  <2>2. e \in SpecEdits
    BY <1>1, <2>1 DEF SpecEdits, ClusterType
  <2>3. cr'.phase = cr.phase
    BY <1>1, <2>1 DEF ClusterType
  <2> QED
    BY <1>9, <2>1, <2>2, <2>3 DEF EditSpec, NewVersionBy
<1>10. CASE DeleteCluster
  BY <1>1, <1>10 DEF DeleteCluster, NewVersionBy, ClusterType
<1>11. CASE SyncCluster
  BY <1>11 DEF SyncCluster, memVars
<1>12. CASE UNCHANGED <<cr, cache, mem>>
  BY <1>12
<1> QED
  BY <1>2, <1>3, <1>4, <1>5, <1>6, <1>7, <1>8, <1>9, <1>10, <1>11, <1>12
  DEF Next, OperatorStep, UserStep, vars, crVars, memVars, Proceed,
      ReconcilePodDisruptionBudget, ReconcileConfigMap, ReconcileServices,
      ReconcileService, KeepStatefulSet, UpdateStatefulsetPVCs,
      ReconcileAutoRecovery, UpdateMetadata, UpdateClusterSizeMeta,
      StartCleanUp, WaitClusterTermination, DeleteMetadata, SyncStatefulSet,
      SyncDeployment,
      StartBookie, StopBookie, ScaleAutoRecovery, BookieWritesLedgers,
      GarbageCollect

\* What there is of the resource has its type.
LEMMA CopyTypes ==
    ASSUME LoopInv, NEW c \in Copies
    PROVE  /\ c \in ClusterType /\ c.spec \in SpecType /\ c.meta \in MetaType
           /\ c.meta.ver \in Versions \cup {NoVersion}
           /\ c.meta.cfg \in Configs /\ c.meta.size \in Nat
<1>1. c \in ClusterType
  BY NoClusterIsNoCluster DEF Copies, LoopInv, TypeOK, LoopTypes
<1>2. QED
  BY <1>1, ClusterParts DEF MetaType

\* Every copy comes from one that there was before: it is that copy, or that
\* copy with a spec edited by a user, or that copy with a new record.
LEMMA CopiesChange ==
    ASSUME LoopInv, RunShape, [Next]_vars, cr'.phase = "live", NEW d \in Copies'
    PROVE  \E c \in Copies :
               /\ d.phase = c.phase
               /\ d.spec = c.spec \/ \E e \in SpecEdits : e[1] = c.spec /\ e[2] = d.spec
               /\ \/ d.meta = c.meta
                  \/ /\ pc = "record" /\ c = mem /\ d.spec = mem.spec
                     /\ d.meta = RecordedMeta(mem.spec)
<1>1. /\ cr \in ClusterType /\ cr \in Copies
      /\ ~Exists(NoCluster)
  BY LiveChanges, NoClusterIsNoCluster
  DEF LoopInv, TypeOK, LoopTypes, Copies, Exists
<1>2. CASE d \in Copies
  BY <1>2
<1>3. CASE d = cr' /\ cr' = [cr EXCEPT !.ready = ListedPods]
  BY <1>1, <1>3 DEF ClusterType
<1>4. CASE /\ d = cr' /\ cr' = [cr EXCEPT !.meta = RecordedMeta(cr.spec)]
           /\ pc = "record" /\ mem = cr
  BY <1>1, <1>4 DEF ClusterType
<1>5. CASE d = cr' /\ cr' = [cr EXCEPT !.fin = TRUE]
  BY <1>1, <1>5 DEF ClusterType
<1>6. CASE d = cr' /\ \E e \in SpecEdits :
                        e[1] = cr.spec /\ cr' = [cr EXCEPT !.spec = e[2]]
  <2>1. PICK e \in SpecEdits : e[1] = cr.spec /\ cr' = [cr EXCEPT !.spec = e[2]]
    BY <1>6
  <2>2. d.phase = cr.phase /\ d.meta = cr.meta /\ d.spec = e[2]
    BY <1>1, <1>6, <2>1 DEF ClusterType
  <2> QED
    BY <1>1, <2>1, <2>2
<1> QED
  BY <1>1, <1>2, <1>3, <1>4, <1>5, <1>6, LiveChanges DEF Copies

\* So records change only by RecordMetadata, and specs do not get older.
LEMMA CopiesMoveOn ==
    ASSUME LoopInv, RunShape, VersionsMoveOn, ConfigsMoveOn,
           [Next]_vars, cr'.phase = "live", NEW d \in Copies'
    PROVE  \E c \in Copies :
               /\ d.phase = c.phase /\ Older(c.spec, d.spec)
               /\ \/ d.meta = c.meta
                  \/ /\ pc = "record" /\ c = mem /\ d.spec = mem.spec
                     /\ d.meta = RecordedMeta(mem.spec)
<1>1. PICK c \in Copies :
          /\ d.phase = c.phase
          /\ d.spec = c.spec \/ \E e \in SpecEdits : e[1] = c.spec /\ e[2] = d.spec
          /\ \/ d.meta = c.meta
             \/ /\ pc = "record" /\ c = mem /\ d.spec = mem.spec
                /\ d.meta = RecordedMeta(mem.spec)
  BY CopiesChange
<1>2. Older(c.spec, d.spec)
  BY <1>1, CopyTypes, OlderIsOrder
<1>3. QED
  BY <1>1, <1>2

\* A run that goes on keeps the spec and the phase that it began with.
LEMMA RunGoesOn ==
    ASSUME LoopInv, [Next]_vars, pc' # "idle"
    PROVE  \/ BeginRun /\ pc = "idle" /\ pc' = "pdb" /\ mem' = cache /\ Exists(cache)
           \/ pc # "idle" /\ mem'.spec = mem.spec /\ mem'.phase = mem.phase
<1> USE DEF Proceed, Goto, memVars, Fail, Leave
<1>1. CASE BeginRun
  BY <1>1 DEF BeginRun, FoundByRun
<1>2. CASE \/ CreateStatefulSet \/ UpdateStatefulSet \/ KeepStatefulSet
           \/ ReconcileAutoRecovery
  BY <1>2
  DEF CreateStatefulSet, UpdateStatefulSet, KeepStatefulSet,
      ReconcileAutoRecovery
<1>3. CASE RecordMetadata \/ UpdateStatus
  <2>1. mem \in ClusterType /\ pc # "idle"
    BY <1>3, RunHoldsResource DEF RecordMetadata, UpdateStatus, LoopInv, TypeOK
  <2>2. \/ mem' = [mem EXCEPT !.meta = RecordedMeta(mem.spec)]
        \/ mem' = [mem EXCEPT !.ready = ListedPods]
    BY <1>3 DEF RecordMetadata, UpdateStatus, WriteAndProceed, Conflict
  <2> QED
    BY <2>1, <2>2 DEF ClusterType
<1>4. CASE UNCHANGED <<mem, pc>>
  BY <1>4
<1> QED
  BY <1>1, <1>2, <1>3, <1>4
  DEF Next, OperatorStep, UserStep, vars, loopVars,
      ReconcilePodDisruptionBudget, ReconcileConfigMap, ReconcileServices,
      ReconcileService, UpdateStatefulsetPVCs, ReconcileAutoRecovery,
      UpdateMetadata, UpdateClusterSizeMeta, AddFinalizer, KeepFinalizer,
      DownscaleToZero, StartCleanUp, WaitClusterTermination, DeleteMetadata,
      RemoveFinalizer, WaitError, AbortRun, WriteAndEnd, Conflict, EndRun,
      EditSpec, DeleteCluster, NewVersionBy, SyncCluster, SyncStatefulSet,
      SyncDeployment,
      StartBookie, StopBookie, ScaleAutoRecovery, BookieWritesLedgers,
      GarbageCollect

\* The calls that a run makes, in their order.
LEMMA RunOrder ==
    ASSUME [Next]_vars
    PROVE  /\ pc' \in AfterPdb => pc \in AfterPdb \/ ReconcilePodDisruptionBudget
           /\ pc' \in AfterCm => pc \in AfterCm \/ ReconcileConfigMap
           /\ pc' \in AfterCm \ {"headless"} =>
                \/ pc \in AfterCm \ {"headless"}
                \/ ReconcileService("headless", "client")
           /\ pc' \in AfterServices =>
                \/ pc \in AfterServices
                \/ ReconcileService("client", "statefulset")
           /\ pc' \in AfterSts =>
                \/ pc \in AfterSts
                \/ CreateStatefulSet \/ UpdateStatefulSet \/ KeepStatefulSet
           /\ pc' \in AfterDep => pc \in AfterDep \/ ReconcileAutoRecovery
           /\ pc' \in AfterZk =>
                pc \in AfterZk \/ UpdateMetadata \/ UpdateClusterSizeMeta
           /\ pc' \in AfterZk \ {"zkTime"} =>
                \/ pc \in AfterZk \ {"zkTime"}
                \/ UpdateMetadata \/ UpdateClusterSizeMeta
           /\ pc' \in AfterRecord =>
                pc \in AfterRecord \/ UpdateMetadata \/ RecordMetadata
<1> USE DEF AfterPdb, AfterCm, AfterServices, AfterSts, AfterDep, AfterZk,
            AfterRecord, Proceed, Goto
<1>1. CASE BeginRun
  BY <1>1 DEF BeginRun
<1>2. CASE \/ ReconcilePodDisruptionBudget \/ ReconcileConfigMap
           \/ ReconcileServices
  BY <1>2
  DEF ReconcilePodDisruptionBudget, ReconcileConfigMap, ReconcileServices,
      ReconcileService
<1>3. CASE \/ CreateStatefulSet \/ UpdateStatefulSet \/ KeepStatefulSet
           \/ UpdateStatefulsetPVCs \/ ReconcileAutoRecovery
  BY <1>3
  DEF CreateStatefulSet, UpdateStatefulSet, KeepStatefulSet,
      UpdateStatefulsetPVCs, ReconcileAutoRecovery, Fail, Leave
<1>4. CASE \/ UpdateMetadata \/ UpdateClusterSizeMeta \/ RecordMetadata
           \/ UpdateStatus
  BY <1>4
  DEF UpdateMetadata, MetadataStep, UpdateClusterSizeMeta, RecordMetadata,
      UpdateStatus, WriteAndProceed, Conflict, Fail, Leave
<1>5. CASE StartCleanUp \/ WaitClusterTermination \/ DeleteMetadata
  BY <1>5 DEF StartCleanUp, WaitClusterTermination, DeleteMetadata
<1>6. CASE pc' = "idle"
  BY <1>6
<1>7. CASE UNCHANGED pc
  BY <1>7
<1> QED
  BY <1>1, <1>2, <1>3, <1>4, <1>5, <1>6, <1>7
  DEF Next, OperatorStep, UserStep, vars, loopVars, AddFinalizer, KeepFinalizer,
      DownscaleToZero, RemoveFinalizer, WaitError, AbortRun, WriteAndEnd,
      Conflict, EndRun, Fail, Leave, EditSpec, DeleteCluster, SyncCluster,
      SyncStatefulSet, SyncDeployment, StartBookie, StopBookie, ScaleAutoRecovery,
      BookieWritesLedgers, GarbageCollect

\* The StatefulSet of a live resource changes only by the calls for it, which
\* set it to the spec of the run, the ConfigMap only by that for it, and a
\* Deployment does not go.
LEMMA ObjectsChange ==
    ASSUME LoopInv, RunShape, [Next]_vars, cr'.phase = "live"
    PROVE  /\ \/ UNCHANGED sts
              \/ /\ sts' = SpecifiedSts(mem) /\ pc = "statefulset"
                 /\ pc' \in {"pvc", "autorecovery"}
                 /\ UNCHANGED <<cr, cache, mem, stsCache>>
           /\ stsCache' = stsCache \/ stsCache' = sts
           /\ UNCHANGED cm \/ ReconcileConfigMap
           /\ UNCHANGED dep \/ dep'.exists
           /\ depCache' = depCache \/ depCache' = dep
<1>1. ~GarbageCollect
  BY LiveChanges DEF GarbageCollect, Exists
<1>2. CASE CreateStatefulSet \/ UpdateStatefulSet
  BY <1>2
  DEF CreateStatefulSet, UpdateStatefulSet, Proceed, Goto, crVars, memVars,
      ownedVars, depVars
<1>3. CASE UNCHANGED sts /\ ReconcileConfigMap
  BY <1>3 DEF ReconcileConfigMap, stsVars, depVars
<1>4. CASE UNCHANGED <<sts, stsCache, cm, dep, depCache>>
  BY <1>4
<1>5. CASE SyncStatefulSet \/ SyncDeployment
  BY <1>5 DEF SyncStatefulSet, SyncDeployment, stsVars, ownedVars, depVars
<1>6. CASE ReconcileAutoRecovery
  <2>1. UNCHANGED dep \/ dep'.exists
    BY <1>6, RunSpecifiesDep DEF ReconcileAutoRecovery
  <2> QED
    BY <1>6, <2>1 DEF ReconcileAutoRecovery, stsVars
<1> QED
  BY <1>1, <1>2, <1>3, <1>4, <1>5, <1>6
  DEF Next, OperatorStep, UserStep, vars, stsVars, ownedVars, depVars, BeginRun,
      ReconcilePodDisruptionBudget, ReconcileConfigMap, ReconcileServices,
      ReconcileService, KeepStatefulSet, UpdateStatefulsetPVCs,
      UpdateMetadata, UpdateClusterSizeMeta, RecordMetadata, UpdateStatus,
      AddFinalizer, KeepFinalizer, DownscaleToZero, StartCleanUp,
      WaitClusterTermination, DeleteMetadata, RemoveFinalizer, WaitError,
      AbortRun, EditSpec, DeleteCluster, SyncCluster, StartBookie, StopBookie,
      ScaleAutoRecovery, BookieWritesLedgers

\* Every step keeps a run behind the cache and the cache behind the resource.
LEMMA OvertakenStep ==
    ASSUME LoopInv, RunShape, VersionsMoveOn, ConfigsMoveOn, Overtaken, [Next]_vars
    PROVE  Overtaken'
<1> SUFFICES ASSUME cr'.phase = "live"
             PROVE  /\ \A d \in Copies' : d.phase = "live" /\ Older(d.spec, cr'.spec)
                    /\ Exists(mem') => Exists(cache') /\ Older(mem'.spec, cache'.spec)
                    /\ stsCache'.exists => sts'.exists
                    /\ depCache'.exists => dep'.exists
  BY DEF Overtaken
<1>1. /\ cr.phase = "live" /\ cr \in Copies /\ cr' \in Copies'
      /\ \A c \in Copies : /\ c.phase = "live" /\ c.spec \in SpecType
                           /\ Older(c.spec, cr.spec)
      /\ Exists(mem) => Exists(cache) /\ Older(mem.spec, cache.spec)
      /\ stsCache.exists => sts.exists
      /\ depCache.exists => dep.exists
      /\ ~Exists(NoCluster)
  BY LiveChanges, CopyTypes, NoClusterIsNoCluster DEF Overtaken, Copies, Exists
<1>2. cr'.spec \in SpecType /\ Older(cr.spec, cr'.spec)
  <2>1. \/ cr' = cr
        \/ cr' = [cr EXCEPT !.ready = ListedPods]
        \/ cr' = [cr EXCEPT !.meta = RecordedMeta(cr.spec)]
        \/ cr' = [cr EXCEPT !.fin = TRUE]
        \/ \E e \in SpecEdits : e[1] = cr.spec /\ cr' = [cr EXCEPT !.spec = e[2]]
    BY LiveChanges
  <2>2. cr \in ClusterType /\ cr.spec \in SpecType
    BY <1>1, CopyTypes
  <2>3. CASE \E e \in SpecEdits : e[1] = cr.spec /\ cr' = [cr EXCEPT !.spec = e[2]]
    <3>1. PICK e \in SpecEdits : e[1] = cr.spec /\ cr' = [cr EXCEPT !.spec = e[2]]
      BY <2>3
    <3>2. cr'.spec = e[2] /\ e[2] \in SpecType
      BY <2>2, <3>1, ConstantsAssumption DEF ClusterType, SpecEdits
    <3> QED
      BY <3>1, <3>2, OlderIsOrder
  <2>4. CASE cr'.spec = cr.spec
    BY <2>2, <2>4, OlderIsOrder
  <2> QED
    BY <2>1, <2>2, <2>3, <2>4 DEF ClusterType
<1>3. ASSUME NEW d \in Copies'
      PROVE  d.phase = "live" /\ Older(d.spec, cr'.spec)
  <2>1. d = cr' \/ d \in Copies
    BY <1>1, LiveChanges DEF Copies
  <2>2. CASE d = cr'
    BY <1>2, <2>2, OlderIsOrder
  <2>3. CASE d \in Copies
    BY <1>1, <1>2, <2>3, OlderIsOrder
  <2> QED
    BY <2>1, <2>2, <2>3
<1>4. Exists(mem') => Exists(cache') /\ Older(mem'.spec, cache'.spec)
  <2>1. CASE mem' = NoCluster
    BY <1>1, <2>1
  <2>2. CASE UNCHANGED <<cache, mem>>
    BY <1>1, <2>2
  <2>3. CASE UNCHANGED cache /\ mem' = cache /\ Exists(cache)
    BY <1>1, <2>3, OlderIsOrder DEF Copies
  <2>4. CASE UNCHANGED <<cr, mem>> /\ cache' = cr
    BY <1>1, <2>4 DEF Copies, Exists
  <2>5. CASE /\ UNCHANGED cache /\ mem = cr /\ mem' = cr'
             /\ \/ cr' = [cr EXCEPT !.ready = ListedPods]
                \/ cr' = [cr EXCEPT !.meta = RecordedMeta(cr.spec)]
    BY <1>1, <2>5, CopyTypes DEF ClusterType, Exists
  <2> QED
    BY <2>1, <2>2, <2>3, <2>4, <2>5, LiveChanges
<1>5. /\ stsCache'.exists => sts'.exists
      /\ depCache'.exists => dep'.exists
  BY <1>1, ObjectsChange DEF SpecifiedSts
<1> QED
  BY <1>3, <1>4, <1>5

\* No copy of a live resource asks for less than the run does.
LEMMA RunIsOldest ==
    ASSUME LoopInv, VersionsMoveOn, ConfigsMoveOn, Overtaken, cr.phase = "live",
           Exists(mem), NEW c \in Copies
    PROVE  mem \in Copies /\ Older(mem.spec, c.spec)
<1>1. mem \in Copies /\ mem.spec \in SpecType
  BY CopyTypes DEF Copies
<1>2. Exists(cache) /\ Older(mem.spec, cache.spec) /\ Older(mem.spec, cr.spec)
  BY <1>1 DEF Overtaken
<1>3. QED
  BY <1>1, <1>2, OlderIsOrder DEF Copies

\* The ages of what a copy asks for and of what it says was recorded.
LEMMA CopyAges ==
    ASSUME LoopInv, VersionsMoveOn, ConfigsMoveOn, NEW c \in Copies
    PROVE  /\ VersionAge[c.spec.ver] \in Nat /\ VersionAge[c.meta.ver] \in Nat
           /\ VersionAge[NoVersion] \in Nat
           /\ \A v \in Versions : VersionAge[NoVersion] <= VersionAge[v]
           /\ ConfigAge[c.spec.cfg] \in Nat /\ ConfigAge[c.meta.cfg] \in Nat
           /\ ConfigAge[EmptyConfig] \in Nat
           /\ \A k \in Configs : ConfigAge[EmptyConfig] <= ConfigAge[k]
BY CopyTypes, SpecParts, VersionAges, ConfigAges, ConstantsAssumption

\* Every step keeps the StatefulSet's version between record and spec.
LEMMA StsBetweenStep ==
    ASSUME LoopInv, RunShape, VersionsMoveOn, ConfigsMoveOn,
           Overtaken, StsBetween, ObjectsDone, [Next]_vars
    PROVE  StsBetween'
<1> SUFFICES
      ASSUME cr'.phase = "live", NEW d \in Copies'
      PROVE  /\ sts'.exists => /\ VersionAge[d.meta.ver] <= VersionAge[sts'.ver]
                               /\ VersionAge[sts'.ver] <= VersionAge[d.spec.ver]
             /\ ~sts'.exists => d.meta.ver = NoVersion
  BY DEF StsBetween
<1>1. cr.phase = "live" /\ sts \in WorkloadType
  BY LiveChanges DEF LoopInv, TypeOK, ObjectTypes
<1>2. sts.exists => VersionAge[sts.ver] \in Nat
  BY <1>1, VersionAges DEF WorkloadType
<1>3. CASE UNCHANGED sts
  <2>1. PICK c \in Copies :
          /\ Older(c.spec, d.spec)
          /\ \/ d.meta = c.meta
             \/ /\ pc = "record" /\ c = mem /\ d.spec = mem.spec
                /\ d.meta = RecordedMeta(mem.spec)
    BY CopiesMoveOn
  <2>2. VersionAge[d.spec.ver] \in Nat
    BY <2>1, CopiesChange, CopyTypes, SpecParts, VersionAges, ConstantsAssumption
    DEF SpecEdits
  <2>3. /\ sts.exists => /\ VersionAge[c.meta.ver] <= VersionAge[sts.ver]
                         /\ VersionAge[sts.ver] <= VersionAge[c.spec.ver]
        /\ ~sts.exists => c.meta.ver = NoVersion
    BY <1>1 DEF StsBetween
  <2>4. sts.exists => VersionAge[sts.ver] <= VersionAge[d.spec.ver]
    BY <1>2, <2>1, <2>2, <2>3, CopyAges DEF Older
  <2>5. CASE d.meta = c.meta
    BY <1>3, <2>3, <2>4, <2>5
  <2>6. CASE pc = "record" /\ d.meta = RecordedMeta(mem.spec)
    <3>1. sts.exists /\ d.meta.ver = sts.ver
      BY <1>1, <2>6 DEF ObjectsDone, AfterSts, AfterCm, RecordedMeta
    <3> QED
      BY <1>2, <1>3, <2>4, <3>1
  <2> QED
    BY <2>1, <2>5, <2>6
<1>4. CASE /\ sts' = SpecifiedSts(mem) /\ pc = "statefulset"
           /\ UNCHANGED <<cr, cache, mem>>
  <2>1. d \in Copies
    BY <1>4 DEF Copies
  <2>2. mem \in Copies /\ Older(mem.spec, d.spec)
    BY <1>1, <1>4, <2>1, RunIsOldest, RunHoldsResource DEF LoopInv, TypeOK
  <2>3. /\ sts.exists => /\ VersionAge[d.meta.ver] <= VersionAge[sts.ver]
                         /\ VersionAge[sts.ver] <= VersionAge[mem.spec.ver]
        /\ ~sts.exists => d.meta.ver = NoVersion
    BY <1>1, <2>1, <2>2 DEF StsBetween
  <2>4. mem.spec.ver \in Versions
    BY <2>2, CopyTypes, SpecParts
  <2>5. VersionAge[d.meta.ver] <= VersionAge[mem.spec.ver]
    BY <1>2, <2>1, <2>2, <2>3, <2>4, CopyAges
  <2>6. sts'.exists /\ sts'.ver = mem.spec.ver
    BY <1>4 DEF SpecifiedSts
  <2> QED
    BY <2>2, <2>5, <2>6 DEF Older
<1> QED
  BY <1>3, <1>4, ObjectsChange

\* The spec of the run fits between record and spec of every copy.
LEMMA RunFits ==
    ASSUME LoopInv, VersionsMoveOn, ConfigsMoveOn, Overtaken, CmBetween,
           cr.phase = "live", Exists(mem), NEW c \in Copies
    PROVE  /\ mem.spec.cfg \in Configs
           /\ ConfigAge[c.meta.cfg] <= ConfigAge[mem.spec.cfg]
           /\ ConfigAge[mem.spec.cfg] <= ConfigAge[c.spec.cfg]
<1>1. mem \in Copies /\ Older(mem.spec, c.spec)
  BY RunIsOldest
<1>2. mem.spec.cfg \in Configs
  BY <1>1, CopyTypes, SpecParts
<1>3. CASE cm.exists
  <2>1. PICK k \in Configs : CmHas(k)
    BY <1>3 DEF CmBetween
  <2>2. ConfigAge[c.meta.cfg] <= ConfigAge[k] /\ ConfigAge[k] <= ConfigAge[mem.spec.cfg]
    BY <1>1, <2>1 DEF CmHas
  <2>3. ConfigAge[k] \in Nat
    BY ConfigAges
  <2> QED
    BY <1>1, <1>2, <2>2, <2>3, CopyAges DEF Older
<1>4. CASE ~cm.exists
  BY <1>1, <1>2, <1>4, CopyAges DEF CmBetween, Older
<1> QED
  BY <1>3, <1>4

\* Every step keeps the ConfigMap's configuration between record and spec.
LEMMA CmBetweenStep ==
    ASSUME LoopInv, RunShape, VersionsMoveOn, ConfigsMoveOn,
           Overtaken, CmBetween, ObjectsDone, [Next]_vars
    PROVE  CmBetween'
<1> SUFFICES
      ASSUME cr'.phase = "live"
      PROVE  IF cm'.exists
             THEN \E k \in Configs :
                    /\ cm'.data \in Renderings(k)
                    /\ \A d \in Copies' : /\ ConfigAge[d.meta.cfg] <= ConfigAge[k]
                                          /\ ConfigAge[k] <= ConfigAge[d.spec.cfg]
             ELSE \A d \in Copies' : d.meta.cfg = EmptyConfig
  BY DEF CmBetween, CmHas
<1>1. cr.phase = "live"
  BY LiveChanges
<1>2. ASSUME UNCHANGED cm, pc # "record", NEW d \in Copies'
      PROVE  \E c \in Copies : d.meta = c.meta /\ Older(c.spec, d.spec)
  BY <1>2, CopiesMoveOn
<1>3. CASE UNCHANGED cm /\ pc # "record" /\ cm.exists
  <2>1. PICK k \in Configs : CmHas(k)
    BY <1>1, <1>3 DEF CmBetween
  <2>2. ASSUME NEW d \in Copies'
        PROVE  /\ ConfigAge[d.meta.cfg] <= ConfigAge[k]
               /\ ConfigAge[k] <= ConfigAge[d.spec.cfg]
    <3>1. PICK c \in Copies : d.meta = c.meta /\ Older(c.spec, d.spec)
      BY <1>2, <1>3
    <3>2. ConfigAge[c.spec.cfg] <= ConfigAge[d.spec.cfg]
      BY <3>1 DEF Older
    <3>3. ConfigAge[k] \in Nat /\ ConfigAge[d.spec.cfg] \in Nat
      BY CopiesChange, CopyTypes, SpecParts, ConfigAges, ConstantsAssumption
      DEF SpecEdits
    <3> QED
      BY <2>1, <3>1, <3>2, <3>3, CopyAges DEF CmHas
  <2> QED
    BY <1>3, <2>1, <2>2 DEF CmHas
<1>4. CASE UNCHANGED cm /\ pc # "record" /\ ~cm.exists
  BY <1>1, <1>2, <1>4 DEF CmBetween
<1>5. CASE UNCHANGED cm /\ pc = "record"
  <2>1. Exists(mem) /\ cm.exists /\ cm.data \in Renderings(mem.spec.cfg)
    BY <1>1, <1>5, RunHoldsResource DEF ObjectsDone, AfterCm, LoopInv, TypeOK
  <2>2. mem.spec.cfg \in Configs /\ ConfigAge[mem.spec.cfg] \in Nat
    BY <1>1, <2>1, RunFits, RunIsOldest, CopyAges DEF Copies
  <2>3. ASSUME NEW d \in Copies'
        PROVE  /\ ConfigAge[d.meta.cfg] <= ConfigAge[mem.spec.cfg]
               /\ ConfigAge[mem.spec.cfg] <= ConfigAge[d.spec.cfg]
    <3>1. PICK c \in Copies :
            /\ Older(c.spec, d.spec)
            /\ \/ d.meta = c.meta
               \/ /\ pc = "record" /\ c = mem /\ d.spec = mem.spec
                  /\ d.meta = RecordedMeta(mem.spec)
      BY CopiesMoveOn
    <3>2. /\ ConfigAge[c.meta.cfg] <= ConfigAge[mem.spec.cfg]
          /\ ConfigAge[mem.spec.cfg] <= ConfigAge[c.spec.cfg]
      BY <1>1, <2>1, RunFits
    <3>3. ConfigAge[d.spec.cfg] \in Nat /\ ConfigAge[c.spec.cfg] \in Nat
      BY CopiesChange, CopyTypes, SpecParts, ConfigAges, ConstantsAssumption
      DEF SpecEdits
    <3> QED
      BY <2>2, <3>1, <3>2, <3>3 DEF Older, RecordedMeta
  <2> QED
    BY <1>5, <2>1, <2>2, <2>3
<1>6. CASE ReconcileConfigMap
  <2>1. /\ UNCHANGED <<cr, cache, mem>> /\ pc = "configmap"
        /\ cm' = cm \/ (cm'.exists /\ cm'.data \in Renderings(mem.spec.cfg))
    BY <1>6 DEF ReconcileConfigMap, Proceed, Goto, crVars, memVars
  <2>2. CASE UNCHANGED cm
    BY <1>3, <1>4, <2>1, <2>2
  <2>3. CASE cm'.exists /\ cm'.data \in Renderings(mem.spec.cfg)
    <3>1. Copies' = Copies /\ Exists(mem)
      BY <2>1, RunHoldsResource DEF Copies, LoopInv, TypeOK
    <3>2. mem.spec.cfg \in Configs
      BY <3>1, CopyTypes, SpecParts DEF Copies
    <3>3. \A c \in Copies : /\ ConfigAge[c.meta.cfg] <= ConfigAge[mem.spec.cfg]
                            /\ ConfigAge[mem.spec.cfg] <= ConfigAge[c.spec.cfg]
      BY <1>1, <3>1, RunFits
    <3> QED
      BY <2>3, <3>1, <3>2, <3>3
  <2> QED
    BY <2>1, <2>2, <2>3
<1> QED
  BY <1>3, <1>4, <1>5, <1>6, ObjectsChange

\* Every step keeps what a run has brought up to date.
LEMMA ObjectsDoneStep ==
    ASSUME LoopInv, RunShape, RecordsAreOrdered,
           Overtaken, StsBetween, CmBetween, ObjectsDone, [Next]_vars
    PROVE  ObjectsDone'
<1> SUFFICES
      ASSUME cr'.phase = "live", pc' \in AfterCm
      PROVE  /\ cm'.exists /\ cm'.data \in Renderings(mem'.spec.cfg)
             /\ pc' \in AfterSts => sts'.exists /\ sts'.ver = mem'.spec.ver
  BY DEF ObjectsDone, AfterSts
<1> USE DEF RecordsAreOrdered
<1>1. cr.phase = "live" /\ pc # "idle" /\ mem'.spec = mem.spec
  BY LiveChanges, RunGoesOn DEF AfterCm
<1>2. /\ mem \in Copies /\ mem.spec.cfg \in Configs /\ mem.meta.cfg \in Configs
      /\ mem.spec.ver \in Versions
  BY <1>1, RunHoldsResource, CopyTypes, SpecParts DEF Copies, LoopInv, TypeOK
<1>3. cm'.exists /\ cm'.data \in Renderings(mem.spec.cfg)
  <2>1. CASE ReconcileConfigMap /\ UNCHANGED cm
    <3>1. \/ cm.exists /\ ~ShouldUpdateConfigmap(mem)
          \/ cm'.exists /\ cm'.data \in Renderings(mem.spec.cfg)
      <4>1. \/ cm.exists /\ ~ShouldUpdateConfigmap(mem)
            \/ \E r \in Renderings(mem.spec.cfg) :
                   cm' = [exists |-> TRUE, data |-> r]
        BY <2>1, Zenon DEF ReconcileConfigMap
      <4> QED
        BY <4>1
    <3>2. ASSUME cm.exists, ~ShouldUpdateConfigmap(mem)
          PROVE  cm.data \in Renderings(mem.spec.cfg)
      <4>1. mem.spec.cfg = mem.meta.cfg
        BY <1>2, <3>2, MapEqualIsEquality DEF ShouldUpdateConfigmap
      <4>2. PICK k \in Configs : CmHas(k)
        BY <1>1, <3>2 DEF CmBetween
      <4>3. ConfigAge[k] = ConfigAge[mem.spec.cfg]
        BY <1>2, <4>1, <4>2, ConfigAges DEF CmHas
      <4>4. k = mem.spec.cfg
        BY <1>2, <4>3, ConfigAges
      <4> QED
        BY <4>2, <4>4 DEF CmHas
    <3> QED
      BY <2>1, <3>1, <3>2
  <2>2. CASE ReconcileConfigMap /\ cm' # cm
    BY <2>2 DEF ReconcileConfigMap
  <2>3. CASE UNCHANGED cm /\ pc \in AfterCm
    BY <1>1, <2>3 DEF ObjectsDone
  <2>4. pc \in AfterCm \/ ReconcileConfigMap
    BY RunOrder
  <2> QED
    BY <2>1, <2>2, <2>3, <2>4, ObjectsChange
<1>4. pc' \in AfterSts => sts'.exists /\ sts'.ver = mem.spec.ver
  <2>1. CASE sts' = SpecifiedSts(mem)
    BY <2>1 DEF SpecifiedSts
  <2>2. CASE UNCHANGED sts /\ pc \in AfterSts
    BY <1>1, <2>2 DEF ObjectsDone
  <2>3. CASE UNCHANGED sts /\ KeepStatefulSet
    <3>1. sts.exists /\ mem.spec.ver = mem.meta.ver
      BY <1>1, <2>3 DEF KeepStatefulSet, ShouldUpdateStatefulSet, Overtaken
    <3>2. /\ VersionAge[mem.meta.ver] <= VersionAge[sts.ver]
          /\ VersionAge[sts.ver] <= VersionAge[mem.spec.ver]
      BY <1>1, <1>2, <3>1 DEF StsBetween
    <3>3. sts.ver \in Versions \cup {NoVersion}
      BY DEF LoopInv, TypeOK, ObjectTypes, WorkloadType
    <3>4. VersionAge[sts.ver] = VersionAge[mem.spec.ver]
      BY <1>2, <3>1, <3>2, <3>3, VersionAges
    <3>5. sts.ver = mem.spec.ver
      BY <1>2, <3>3, <3>4, VersionAges
    <3> QED
      BY <2>3, <3>1, <3>5
  <2>4. pc' \in AfterSts =>
            \/ pc \in AfterSts \/ KeepStatefulSet
            \/ sts' = SpecifiedSts(mem)
    BY RunOrder
    DEF AfterSts, AfterCm, CreateStatefulSet, UpdateStatefulSet, Fail, Leave
  <2> QED
    BY <2>1, <2>2, <2>3, <2>4, ObjectsChange
<1> QED
  BY <1>1, <1>3, <1>4

-----------------------------------------------------------------------------
\* The invariant behind both theorems holds in every reachable state.
LEMMA RecordInvHolds ==
    ASSUME RecordsAreOrdered
    PROVE  Spec => []RecordInv
<1>1. Init => RunShape /\ Overtaken /\ StsBetween /\ CmBetween /\ ObjectsDone
  <2> SUFFICES ASSUME Init
               PROVE  RunShape /\ Overtaken /\ StsBetween /\ CmBetween /\ ObjectsDone
    OBVIOUS
  <2>1. PICK s \in Specs : cr = NewCluster(s)
    BY DEF Init
  <2>2. /\ s \in SpecType /\ ~Exists(NoCluster)
        /\ cache = NoCluster /\ mem = NoCluster /\ pc = "idle"
        /\ sts = NoSts /\ stsCache = NoSts /\ cm = NoCm
        /\ dep = NoDep /\ depCache = NoDep
    BY ConstantsAssumption, NoClusterIsNoCluster DEF Init
  <2>3. /\ cr.phase = "live" /\ cr.spec = s
        /\ cr.meta.ver = NoVersion /\ cr.meta.cfg = EmptyConfig
    BY <2>1 DEF NewCluster, NoMeta
  <2>4. \A c \in Copies : c = cr
    BY <2>2 DEF Copies
  <2> QED
    BY <2>2, <2>3, <2>4, OlderIsOrder
    DEF RunShape, Overtaken, StsBetween, CmBetween, ObjectsDone, NoSts, NoDep, NoCm,
        AfterCm, AfterSts, RecordsAreOrdered
<1>2. RecordInv /\ LoopInv' /\ [Next]_vars => RecordInv'
  BY RunShapeStep, OvertakenStep, StsBetweenStep, CmBetweenStep, ObjectsDoneStep
  DEF RecordInv, RecordsAreOrdered
<1>3. QED
  BY <1>1, <1>2, LoopInvHolds, PTL DEF Spec, RecordInv

\* When the status records a version and a configuration, the StatefulSet and
\* the ConfigMap carry them.
THEOREM RecordingIsTrue == RecordsAreOrdered => (Spec => RecordIsApplied)
<1>1. ASSUME RecordInv, [Next]_vars, cr'.meta # cr.meta
      PROVE  /\ sts.exists /\ sts.ver = cr'.meta.ver
             /\ cm.exists /\ cm.data \in Renderings(cr'.meta.cfg)
  <2>1. /\ pc = "record" /\ mem = cr /\ cr.phase = "live"
        /\ cr' = [mem EXCEPT !.meta = RecordedMeta(mem.spec)]
    BY <1>1, MetaWrittenByRecord
    DEF RecordMetadata, RecordInv, LoopInv, CopiesAgree, RunShape
  <2>2. cr'.meta.ver = mem.spec.ver /\ cr'.meta.cfg = mem.spec.cfg
    BY <1>1, <2>1
    DEF RecordedMeta, RecordInv, LoopInv, TypeOK, LoopTypes, ClusterType
  <2>3. QED
    BY <1>1, <2>1, <2>2 DEF RecordInv, ObjectsDone, AfterCm, AfterSts
<1>2. RecordInv /\ [Next]_vars =>
        [cr'.meta # cr.meta =>
            /\ sts.exists /\ sts.ver = cr'.meta.ver
            /\ cm.exists /\ cm.data \in Renderings(cr'.meta.cfg)]_vars
  BY <1>1
<1>3. ASSUME RecordsAreOrdered PROVE Spec => RecordIsApplied
  BY <1>2, <1>3, RecordInvHolds, PTL DEF Spec, RecordIsApplied
<1>4. QED
  BY <1>3

-----------------------------------------------------------------------------
(* What the ConfigMap has is what the operator renders.                     *)

\* No name is given with the prefix BK_ and without it.
OneSpelling(c) == \A k, l \in DOMAIN c : k[2] = l[2] => k = l

\* createConfigmapData gives some data for every bkConfig, and only one, in
\* whatever order the map is ranged over, unless a name is spelled in two ways.
THEOREM OneRendering ==
    ASSUME NEW c
    PROVE  /\ Renderings(c) # {}
           /\ OneSpelling(c) => \A d, e \in Renderings(c) : d = e
<1> DEFINE names == NamesOf(c) \ Reserved
           KeyOf(n) == CHOOSE k \in DOMAIN c : k[2] = n
<1>1. \A n \in names : KeyOf(n) \in DOMAIN c /\ KeyOf(n)[2] = n
  BY DEF NamesOf
<1>2. Renderings(c) # {}
  <2> DEFINE o == [n \in names |-> c[KeyOf(n)]]
  <2>1. o \in [names -> {c[k] : k \in DOMAIN c}]
    BY <1>1
  <2>2. \A n \in names : \E k \in DOMAIN c : k[2] = n /\ o[n] = c[k]
    BY <1>1
  <2>3. o \in Overrides(c)
    BY <2>1, <2>2 DEF Overrides
  <2>4. QED
    BY <2>3 DEF Renderings
<1>3. ASSUME OneSpelling(c), NEW o \in Overrides(c), NEW p \in Overrides(c)
      PROVE  o = p
  <2>1. /\ o \in [names -> {c[k] : k \in DOMAIN c}]
        /\ p \in [names -> {c[k] : k \in DOMAIN c}]
        /\ \A n \in names : \E k \in DOMAIN c : k[2] = n /\ o[n] = c[k]
        /\ \A n \in names : \E k \in DOMAIN c : k[2] = n /\ p[n] = c[k]
    BY DEF Overrides
  <2>2. ASSUME NEW n \in names PROVE o[n] = p[n]
    <3>1. PICK k \in DOMAIN c : k[2] = n /\ o[n] = c[k]
      BY <2>1
    <3>2. PICK l \in DOMAIN c : l[2] = n /\ p[n] = c[l]
      BY <2>1
    <3>3. k = l
      BY <1>3, <3>1, <3>2 DEF OneSpelling
    <3>4. QED
      BY <3>1, <3>2, <3>3
  <2>3. QED
    BY <2>1, <2>2
<1>4. QED
  BY <1>2, <1>3 DEF Renderings

-----------------------------------------------------------------------------
(* The rest of what a settled cluster has.                                  *)

\* No resource asks for no bookies when it is created: the size of a status
\* that was never written is zero too, so ZooKeeper would not be told of it.
SizesAreGiven == \A s \in Specs : s.size # 0

\* What ZooKeeper was told is between record and spec, and runs and the cache
\* are not ahead in this either.
SizeBetween ==
    cr.phase = "live" =>
        /\ \A c \in Copies :
            /\ c.spec.size # 0 /\ SizeAge[c.spec.size] <= SizeAge[cr.spec.size]
            /\ IF "size" \in zk.nodes
               THEN /\ SizeAge[c.meta.size] <= SizeAge[zk.size]
                    /\ SizeAge[zk.size] <= SizeAge[c.spec.size]
               ELSE c.meta.size = 0
            /\ c.meta.size # 0 => "updatedat" \in zk.nodes
        /\ Exists(mem) => SizeAge[mem.spec.size] <= SizeAge[cache.spec.size]

\* The size of a workload may be wrong as long as its informer has something to
\* tell.
ReplicasAs(s) == ~queued /\ stsCache = sts => sts.replicas = s.size
DaemonsAs(s) == ~queued /\ depCache = dep => dep.replicas = s.ar
ToldSize(s) == "size" \in zk.nodes /\ zk.size = s.size

\* What a run has done so far.
Stages ==
    cr.phase = "live" =>
        /\ pc \in AfterPdb => pdb = [exists |-> TRUE, mu |-> mem.spec.mu]
        /\ pc \in AfterCm \ {"headless"} => "headless" \in svcs
        /\ pc \in AfterServices => svcs = {"headless", "client"}
        /\ pc \in AfterSts => ReplicasAs(mem.spec)
        /\ pc \in AfterDep => dep.exists /\ DaemonsAs(mem.spec)
        /\ pc \in AfterZk => ToldSize(mem.spec)
        /\ pc \in AfterZk \ {"zkTime"} => "updatedat" \in zk.nodes
        /\ pc \in AfterRecord => mem.meta = RecordedMeta(mem.spec)

\* A run on an old copy has another one to follow.
StaleRunIsFollowed == pc # "idle" /\ cacheFresh /\ ~queued => memFresh

Applied(c) ==
    /\ c.fin
    /\ sts.exists /\ sts.ver = c.spec.ver
    /\ ReplicasAs(c.spec)
    /\ cm.exists /\ cm.data \in Renderings(c.spec.cfg)
    /\ pdb = [exists |-> TRUE, mu |-> c.spec.mu]
    /\ svcs = {"headless", "client"}
    /\ dep.exists /\ DaemonsAs(c.spec)
    /\ SizeTold(c.spec.size)
    /\ c.meta = RecordedMeta(c.spec)

\* When no other run is to follow, the last one has applied the spec.
RestedApplied ==
    cr.phase = "live" /\ pc = "idle" /\ cacheFresh /\ ~queued => Applied(cr)

SettledInv ==
    RecordInv /\ SizeBetween /\ Stages /\ StaleRunIsFollowed /\ RestedApplied

\* Ages of sizes are numbers that tell them apart, and no edit makes younger.
LEMMA SizeAges ==
    ASSUME SizesMoveOn
    PROVE  /\ \A n \in Nat : SizeAge[n] \in Nat /\ SizeAge[0] <= SizeAge[n]
           /\ \A m, n \in Nat : SizeAge[m] = SizeAge[n] => m = n
           /\ InSizeOrder(SizeAge)
<1>1. SizeAge \in SizeOrders /\ InSizeOrder(SizeAge)
  BY Zenon DEF SizeAge, SizesMoveOn
<1>2. QED
  BY <1>1 DEF SizeOrders, Orders

\* The objects of a live resource change only by the calls for them, and
\* bookies do not touch the size that ZooKeeper was told.
LEMMA OwnedChange ==
    ASSUME LoopInv, RunShape, Overtaken, [Next]_vars, cr'.phase = "live"
    PROVE  /\ UNCHANGED pdb \/ ReconcilePodDisruptionBudget
           /\ \/ UNCHANGED svcs
              \/ ReconcileService("headless", "client")
              \/ ReconcileService("client", "statefulset")
           /\ UNCHANGED dep \/ ReconcileAutoRecovery
           /\ \/ /\ "size" \in zk'.nodes <=> "size" \in zk.nodes
                 /\ zk'.size = zk.size
              \/ /\ pc = "zkSize" /\ "size" \in zk'.nodes
                 /\ zk'.size = mem.spec.size
                 /\ UNCHANGED <<cr, cache, mem, queued, sts, stsCache>>
           /\ "updatedat" \in zk.nodes => "updatedat" \in zk'.nodes
<1>1. ~GarbageCollect /\ ~DeleteMetadata
  BY LiveChanges, RunHoldsResource
  DEF GarbageCollect, DeleteMetadata, Exists, RunShape, Overtaken, Copies,
      LoopInv, TypeOK
<1>2. CASE UpdateClusterSizeMeta
  BY <1>2
  DEF UpdateClusterSizeMeta, Proceed, Goto, crVars, memVars, stsVars, ownedVars,
      depVars,
      LoopInv, TypeOK, OutsideTypes
<1>3. CASE BookieWritesLedgers
  BY <1>3 DEF BookieWritesLedgers, ownedVars, depVars, LoopInv, TypeOK, OutsideTypes
<1>4. CASE \/ ReconcilePodDisruptionBudget \/ ReconcileServices
           \/ ReconcileAutoRecovery
  BY <1>4
  DEF ReconcilePodDisruptionBudget, ReconcileServices, ReconcileService,
      ReconcileAutoRecovery, depVars
<1>5. CASE UNCHANGED <<pdb, svcs, dep, zk>>
  BY <1>5
<1> QED
  BY <1>1, <1>2, <1>3, <1>4, <1>5
  DEF Next, OperatorStep, UserStep, vars, ownedVars, depVars, BeginRun,
      ReconcileConfigMap, CreateStatefulSet, UpdateStatefulSet, KeepStatefulSet,
      UpdateStatefulsetPVCs, UpdateMetadata, RecordMetadata, UpdateStatus,
      AddFinalizer, KeepFinalizer, DownscaleToZero, StartCleanUp,
      WaitClusterTermination, RemoveFinalizer, WaitError, AbortRun, EditSpec,
      DeleteCluster, SyncCluster, SyncStatefulSet, SyncDeployment, StartBookie,
      StopBookie,
      ScaleAutoRecovery

\* The sizes of a copy and their ages.
LEMMA CopySizes ==
    ASSUME LoopInv, SizesMoveOn, NEW c \in Copies
    PROVE  /\ c.spec.size \in Nat /\ c.meta.size \in Nat
           /\ SizeAge[c.spec.size] \in Nat /\ SizeAge[c.meta.size] \in Nat
           /\ SizeAge[0] \in Nat /\ SizeAge[0] <= SizeAge[c.spec.size]
BY CopyTypes, SpecParts, SizeAges

\* No edit takes the size back, or to none.
LEMMA SizesOfEdits ==
    ASSUME SizesMoveOn, NEW e \in SpecEdits, e[1].size # 0
    PROVE  /\ e[2].size \in Nat /\ e[2].size # 0
           /\ SizeAge[e[1].size] <= SizeAge[e[2].size]
<1>1. e[1].size \in Nat /\ e[2].size \in Nat
  BY ConstantsAssumption, SpecParts DEF SpecEdits
<1>2. SizeAge[e[1].size] <= SizeAge[e[2].size]
  BY SizeAges DEF InSizeOrder
<1>3. e[2].size # 0
  BY <1>1, <1>2, SizeAges
<1>4. QED
  BY <1>1, <1>2, <1>3

\* Every step keeps what ZooKeeper was told between record and spec.
LEMMA SizeBetweenStep ==
    ASSUME LoopInv, LoopInv', RunShape, SizesMoveOn, Overtaken,
           SizeBetween, Stages, [Next]_vars
    PROVE  SizeBetween'
<1> SUFFICES
      ASSUME cr'.phase = "live"
      PROVE  /\ \A d \in Copies' :
                 /\ d.spec.size # 0
                 /\ SizeAge[d.spec.size] <= SizeAge[cr'.spec.size]
                 /\ "size" \in zk'.nodes =>
                        /\ SizeAge[d.meta.size] <= SizeAge[zk'.size]
                        /\ SizeAge[zk'.size] <= SizeAge[d.spec.size]
                 /\ "size" \notin zk'.nodes => d.meta.size = 0
                 /\ d.meta.size # 0 => "updatedat" \in zk'.nodes
             /\ Exists(mem') => SizeAge[mem'.spec.size] <= SizeAge[cache'.spec.size]
  BY DEF SizeBetween
<1>1. /\ cr.phase = "live" /\ cr \in Copies /\ cr \in ClusterType
      /\ \A c \in Copies : /\ c.spec.size # 0
                           /\ SizeAge[c.spec.size] <= SizeAge[cr.spec.size]
      /\ Exists(mem) => /\ SizeAge[mem.spec.size] <= SizeAge[cache.spec.size]
                        /\ Exists(cache)
      /\ ~Exists(NoCluster)
  BY LiveChanges, CopyTypes, NoClusterIsNoCluster
  DEF SizeBetween, Overtaken, Copies, Exists
<1>2. ASSUME NEW d \in Copies'
      PROVE  /\ d.spec.size \in Nat /\ SizeAge[d.spec.size] \in Nat
             /\ d.meta.size \in Nat
  <2>1. d \in ClusterType
    BY NoClusterIsNoCluster DEF Copies, LoopInv, TypeOK, LoopTypes
  <2> QED
    BY <2>1, ClusterParts, SpecParts, SizeAges DEF MetaType
<1>3. ASSUME NEW d \in Copies'
      PROVE  \E c \in Copies :
               /\ d.spec.size # 0 /\ SizeAge[c.spec.size] <= SizeAge[d.spec.size]
               /\ \/ d.meta = c.meta
                  \/ /\ pc = "record" /\ c = mem /\ d.spec = mem.spec
                     /\ d.meta = RecordedMeta(mem.spec)
  <2>1. PICK c \in Copies :
          /\ d.spec = c.spec \/ \E e \in SpecEdits : e[1] = c.spec /\ e[2] = d.spec
          /\ \/ d.meta = c.meta
             \/ /\ pc = "record" /\ c = mem /\ d.spec = mem.spec
                /\ d.meta = RecordedMeta(mem.spec)
    BY CopiesChange
  <2>2. d.spec.size # 0 /\ SizeAge[c.spec.size] <= SizeAge[d.spec.size]
    BY <1>1, <2>1, CopySizes, SizesOfEdits
  <2> QED
    BY <2>1, <2>2
<1>4. SizeAge[cr.spec.size] <= SizeAge[cr'.spec.size]
  <2>1. \/ cr'.spec = cr.spec
        \/ \E e \in SpecEdits : e[1] = cr.spec /\ e[2] = cr'.spec
    BY <1>1, LiveChanges DEF ClusterType
  <2> QED
    BY <1>1, <2>1, CopySizes, SizesOfEdits
<1>5. cr' \in Copies'
  BY DEF Copies, Exists
<1>6. ASSUME NEW d \in Copies'
      PROVE  SizeAge[d.spec.size] <= SizeAge[cr'.spec.size]
  <2>1. d = cr' \/ d \in Copies
    BY <1>1, LiveChanges DEF Copies
  <2> QED
    BY <1>1, <1>2, <1>4, <1>5, <2>1, CopySizes
<1>7. Exists(mem') => SizeAge[mem'.spec.size] <= SizeAge[cache'.spec.size]
  <2>1. CASE mem' = NoCluster
    BY <1>1, <2>1
  <2>2. CASE UNCHANGED <<cache, mem>>
    BY <1>1, <2>2
  <2>3. CASE UNCHANGED cache /\ mem' = cache /\ Exists(cache)
    BY <2>3, CopySizes DEF Copies
  <2>4. CASE UNCHANGED <<cr, mem>> /\ cache' = cr
    BY <1>1, <2>4 DEF Copies, Exists
  <2>5. CASE /\ UNCHANGED cache /\ mem = cr /\ mem' = cr'
             /\ \/ cr' = [cr EXCEPT !.ready = ListedPods]
                \/ cr' = [cr EXCEPT !.meta = RecordedMeta(cr.spec)]
    BY <1>1, <2>5 DEF ClusterType, Exists
  <2> QED
    BY <2>1, <2>2, <2>3, <2>4, <2>5, LiveChanges
<1>8. zk.size \in Nat /\ SizeAge[zk.size] \in Nat
  BY SizeAges DEF LoopInv, TypeOK, OutsideTypes
<1>9. ASSUME NEW d \in Copies',
             "size" \in zk'.nodes <=> "size" \in zk.nodes, zk'.size = zk.size
      PROVE  /\ "size" \in zk.nodes => /\ SizeAge[d.meta.size] <= SizeAge[zk.size]
                                       /\ SizeAge[zk.size] <= SizeAge[d.spec.size]
             /\ "size" \notin zk.nodes => d.meta.size = 0
  <2>1. PICK c \in Copies :
          /\ SizeAge[c.spec.size] <= SizeAge[d.spec.size]
          /\ \/ d.meta = c.meta
             \/ pc = "record" /\ d.meta = RecordedMeta(mem.spec)
    BY <1>3
  <2>2. /\ "size" \in zk.nodes => /\ SizeAge[c.meta.size] <= SizeAge[zk.size]
                                  /\ SizeAge[zk.size] <= SizeAge[c.spec.size]
        /\ "size" \notin zk.nodes => c.meta.size = 0
    BY <1>1 DEF SizeBetween
  <2>3. "size" \in zk.nodes => SizeAge[zk.size] <= SizeAge[d.spec.size]
    BY <1>2, <1>8, <2>1, <2>2, CopySizes
  <2>4. CASE d.meta = c.meta
    BY <2>2, <2>3, <2>4
  <2>5. CASE pc = "record" /\ d.meta = RecordedMeta(mem.spec)
    <3>1. "size" \in zk.nodes /\ d.meta.size = zk.size
      BY <1>1, <2>5 DEF Stages, AfterZk, ToldSize, RecordedMeta
    <3> QED
      BY <1>8, <2>3, <3>1
  <2> QED
    BY <2>1, <2>4, <2>5
<1>10. ASSUME NEW d \in Copies', d.meta.size # 0
       PROVE  "updatedat" \in zk'.nodes
  <2>1. PICK c \in Copies :
          \/ d.meta = c.meta
          \/ /\ pc = "record" /\ c = mem /\ d.spec = mem.spec
             /\ d.meta = RecordedMeta(mem.spec)
    BY <1>3
  <2>2. \A b \in Copies : b.meta.size # 0 => "updatedat" \in zk.nodes
    BY <1>1 DEF SizeBetween
  <2>3. CASE d.meta = c.meta
    BY <1>10, <2>2, <2>3, OwnedChange
  <2>4. CASE pc = "record" /\ c = mem /\ d.meta = RecordedMeta(mem.spec)
    <3>1. d.meta.size = mem.spec.size
      BY <2>4 DEF RecordedMeta
    <3>2. "updatedat" \in zk.nodes
      BY <1>10, <2>1, <2>2, <2>4, <3>1 DEF LoopInv, Recording
    <3> QED
      BY <3>2, OwnedChange
  <2> QED
    BY <2>1, <2>3, <2>4
<1>11. CASE /\ "size" \in zk'.nodes <=> "size" \in zk.nodes
            /\ zk'.size = zk.size
  BY <1>3, <1>6, <1>7, <1>9, <1>11, <1>10
<1>12. CASE /\ pc = "zkSize" /\ "size" \in zk'.nodes /\ zk'.size = mem.spec.size
            /\ UNCHANGED <<cr, cache, mem>>
  <2>1. mem \in Copies
    BY <1>12, RunHoldsResource DEF Copies, LoopInv, TypeOK
  <2>2. ASSUME NEW d \in Copies'
        PROVE  /\ SizeAge[d.meta.size] <= SizeAge[mem.spec.size]
               /\ SizeAge[mem.spec.size] <= SizeAge[d.spec.size]
    <3>1. d \in Copies
      BY <1>12 DEF Copies
    <3>2. SizeAge[mem.spec.size] <= SizeAge[d.spec.size]
      BY <1>1, <2>1, <3>1, CopySizes DEF Copies
    <3>3. CASE "size" \in zk.nodes
      <4>1. /\ SizeAge[d.meta.size] <= SizeAge[zk.size]
            /\ SizeAge[zk.size] <= SizeAge[mem.spec.size]
        BY <1>1, <2>1, <3>1, <3>3 DEF SizeBetween
      <4> QED
        BY <1>8, <2>1, <3>1, <3>2, <4>1, CopySizes
    <3>4. CASE "size" \notin zk.nodes
      <4>1. d.meta.size = 0
        BY <1>1, <3>1, <3>4 DEF SizeBetween
      <4> QED
        BY <2>1, <3>2, <4>1, CopySizes
    <3> QED
      BY <3>3, <3>4
  <2> QED
    BY <1>3, <1>6, <1>7, <1>12, <1>10, <2>2
<1> QED
  BY <1>11, <1>12, OwnedChange

\* While the operator goes on, nothing takes the key from the queue, and what
\* the informers have to tell goes onto it.
LEMMA RestIsQuiet ==
    ASSUME [Next]_vars, ~queued', ~BeginRun
    PROVE  /\ ~queued /\ UNCHANGED <<stsCache, depCache>>
           /\ cacheFresh' => cacheFresh /\ UNCHANGED <<cr, cache>>
           /\ cacheFresh' /\ pc' # "idle" => UNCHANGED memFresh
<1>1. ASSUME NEW new, Accept(new), cacheFresh'
      PROVE  cacheFresh /\ UNCHANGED <<cr, cache>>
  BY <1>1, Zenon DEF Accept
<1>2. CASE RecordMetadata \/ UpdateStatus
  <2>1. /\ ~queued /\ UNCHANGED <<stsCache, depCache, memFresh>>
        /\ \E new : Accept(new)
    BY <1>2
    DEF RecordMetadata, UpdateStatus, WriteAndProceed, Conflict, Fail, Goto,
        stsVars, ownedVars, depVars
  <2> QED
    BY <1>1, <2>1
<1>3. CASE AddFinalizer \/ DownscaleToZero \/ RemoveFinalizer
  <2>1. /\ ~queued /\ UNCHANGED <<stsCache, depCache>> /\ pc' = "idle"
        /\ \E new : Accept(new)
    BY <1>3
    DEF AddFinalizer, DownscaleToZero, RemoveFinalizer, WriteAndEnd, Conflict,
        Fail, EndRun, Leave, stsVars, ownedVars, depVars
  <2> QED
    BY <1>1, <2>1
<1>4. CASE \/ CreateStatefulSet \/ UpdateStatefulSet \/ KeepStatefulSet
           \/ ReconcileAutoRecovery
  BY <1>4
  DEF CreateStatefulSet, UpdateStatefulSet, KeepStatefulSet,
      ReconcileAutoRecovery, Proceed, Goto, Fail, crVars, memVars, stsVars,
      ownedVars, depVars
<1>5. CASE KeepFinalizer
  BY <1>5 DEF KeepFinalizer, EndRun, Leave, crVars, stsVars, ownedVars, depVars
<1>6. CASE EditSpec \/ DeleteCluster
  BY <1>6 DEF EditSpec, DeleteCluster, NewVersionBy, loopVars, stsVars, ownedVars,
             depVars
<1>7. CASE UNCHANGED <<queued, stsCache, depCache, crVars, memFresh>>
  BY <1>7 DEF crVars
<1> QED
  BY <1>2, <1>3, <1>4, <1>5, <1>6, <1>7
  DEF Next, OperatorStep, UserStep, vars, loopVars, stsVars, ownedVars, depVars,
      memVars,
      ReconcilePodDisruptionBudget, ReconcileConfigMap, ReconcileServices,
      ReconcileService, UpdateStatefulsetPVCs, ReconcileAutoRecovery,
      UpdateMetadata, UpdateClusterSizeMeta, StartCleanUp,
      WaitClusterTermination, DeleteMetadata, WaitError, AbortRun, SyncCluster,
      SyncStatefulSet, SyncDeployment, StartBookie, StopBookie, ScaleAutoRecovery,
      BookieWritesLedgers, GarbageCollect, Proceed, Goto, Fail

\* The run's record of a resource changes only when it writes one.
LEMMA MetaOfRun ==
    ASSUME LoopInv, [Next]_vars, pc \notin {"idle", "record"}, pc' # "idle"
    PROVE  mem'.meta = mem.meta
<1>1. mem \in ClusterType
  BY RunHoldsResource DEF LoopInv, TypeOK
<1>2. CASE UpdateStatus
  BY <1>1, <1>2
  DEF UpdateStatus, WriteAndProceed, Conflict, Fail, Leave, ClusterType
<1>3. CASE UNCHANGED mem
  BY <1>3
<1> QED
  BY <1>2, <1>3
  DEF Next, OperatorStep, UserStep, vars, memVars, BeginRun, RecordMetadata,
      ReconcilePodDisruptionBudget, ReconcileConfigMap, ReconcileServices,
      ReconcileService, CreateStatefulSet, UpdateStatefulSet, KeepStatefulSet,
      UpdateStatefulsetPVCs, ReconcileAutoRecovery, UpdateMetadata,
      UpdateClusterSizeMeta, AddFinalizer, KeepFinalizer, DownscaleToZero,
      StartCleanUp, WaitClusterTermination, DeleteMetadata, RemoveFinalizer,
      WaitError, AbortRun, EditSpec, DeleteCluster, NewVersionBy, SyncCluster,
      SyncStatefulSet, SyncDeployment, StartBookie, StopBookie, ScaleAutoRecovery,
      BookieWritesLedgers, GarbageCollect, Proceed, WriteAndEnd, Conflict,
      EndRun, Fail, Leave

\* Every step keeps what a run has done.
LEMMA StagesStep ==
    ASSUME LoopInv, LoopInv', RunShape, RecordsAreOrdered, SizesMoveOn,
           Overtaken, SizeBetween, Stages, [Next]_vars
    PROVE  Stages'
<1> SUFFICES
      ASSUME cr'.phase = "live", pc' # "idle", pc' # "pdb"
      PROVE  /\ pc' \in AfterPdb => pdb' = [exists |-> TRUE, mu |-> mem'.spec.mu]
             /\ pc' \in AfterCm \ {"headless"} => "headless" \in svcs'
             /\ pc' \in AfterServices => svcs' = {"headless", "client"}
             /\ pc' \in AfterSts => ReplicasAs(mem.spec)'
             /\ pc' \in AfterDep => dep'.exists /\ DaemonsAs(mem.spec)'
             /\ pc' \in AfterZk => ToldSize(mem.spec)'
             /\ pc' \in AfterZk \ {"zkTime"} => "updatedat" \in zk'.nodes
             /\ pc' \in AfterRecord => mem'.meta = RecordedMeta(mem'.spec)
  BY DEF Stages, AfterPdb, AfterCm, AfterServices, AfterSts, AfterDep, AfterZk,
         AfterRecord, ReplicasAs, DaemonsAs, ToldSize
<1>1. /\ cr.phase = "live" /\ pc # "idle"
      /\ mem'.spec = mem.spec /\ mem'.phase = mem.phase
  BY LiveChanges, RunGoesOn
<1>2. /\ mem \in ClusterType /\ mem \in Copies /\ mem.phase = "live"
      /\ mem.spec.cfg \in Configs /\ mem.meta.cfg \in Configs
  BY <1>1, RunHoldsResource, CopyTypes, SpecParts
  DEF Copies, Overtaken, LoopInv, TypeOK
<1>3. pc' \in AfterPdb => pdb' = [exists |-> TRUE, mu |-> mem.spec.mu]
  <2>1. CASE ReconcilePodDisruptionBudget
    BY <2>1 DEF ReconcilePodDisruptionBudget
  <2>2. CASE UNCHANGED pdb /\ pc \in AfterPdb
    BY <1>1, <2>2 DEF Stages
  <2> QED
    BY <2>1, <2>2, RunOrder, OwnedChange
<1>4. pc' \in AfterCm \ {"headless"} => "headless" \in svcs'
  <2>1. CASE ReconcileService("headless", "client")
    BY <2>1 DEF ReconcileService
  <2>2. CASE svcs \subseteq svcs' /\ pc \in AfterCm \ {"headless"}
    BY <1>1, <2>2 DEF Stages
  <2>3. svcs \subseteq svcs'
    BY OwnedChange DEF ReconcileService
  <2> QED
    BY <2>1, <2>2, <2>3, RunOrder
<1>5. pc' \in AfterServices => svcs' = {"headless", "client"}
  <2>1. svcs' \subseteq {"headless", "client"} /\ svcs \subseteq svcs'
    BY OwnedChange DEF ReconcileService, LoopInv, TypeOK, ObjectTypes
  <2>2. CASE ReconcileService("client", "statefulset")
    <3>1. "headless" \in svcs
      BY <1>1, <2>2 DEF ReconcileService, Stages, AfterCm
    <3> QED
      BY <2>1, <2>2, <3>1 DEF ReconcileService
  <2>3. CASE pc \in AfterServices
    BY <1>1, <2>1, <2>3 DEF Stages
  <2> QED
    BY <2>2, <2>3, RunOrder
<1>6. pc' \in AfterSts => ReplicasAs(mem.spec)'
  <2>1. CASE sts' = SpecifiedSts(mem)
    BY <1>1, <2>1 DEF SpecifiedSts, ReplicasAs
  <2>2. CASE UNCHANGED sts /\ KeepStatefulSet
    BY <1>1, <2>2
    DEF KeepStatefulSet, ShouldUpdateStatefulSet, ReplicasAs, stsVars
  <2>3. CASE UNCHANGED sts /\ pc \in AfterSts
    <3>1. ReplicasAs(mem.spec)
      BY <1>1, <2>3 DEF Stages
    <3>2. ~queued' => ~queued /\ UNCHANGED stsCache
      BY <1>1, RestIsQuiet DEF BeginRun
    <3> QED
      BY <1>1, <2>3, <3>1, <3>2 DEF ReplicasAs
  <2>4. pc' \in AfterSts =>
            \/ pc \in AfterSts \/ KeepStatefulSet
            \/ sts' = SpecifiedSts(mem)
    BY RunOrder
    DEF AfterSts, AfterCm, CreateStatefulSet, UpdateStatefulSet, Fail, Leave
  <2> QED
    BY <2>1, <2>2, <2>3, <2>4, ObjectsChange
<1>7. pc' \in AfterDep => dep'.exists /\ DaemonsAs(mem.spec)'
  <2>1. CASE ReconcileAutoRecovery
    <3>1. /\ SpecifiedDep(mem, depCache).exists
          /\ SpecifiedDep(mem, depCache).replicas = mem.spec.ar
      BY <1>1, RunSpecifiesDep
    <3>2. CASE dep' = SpecifiedDep(mem, depCache)
      BY <1>1, <3>1, <3>2 DEF DaemonsAs
    <3>3. CASE SpecifiedDep(mem, depCache) = depCache /\ UNCHANGED <<dep, depCache>>
      BY <1>1, <3>1, <3>3 DEF DaemonsAs, Overtaken
    <3>4. ~Fail
      BY DEF Fail, Leave
    <3> QED
      BY <2>1, <3>2, <3>3, <3>4 DEF ReconcileAutoRecovery
  <2>2. CASE UNCHANGED dep /\ pc \in AfterDep
    <3>1. dep.exists /\ DaemonsAs(mem.spec)
      BY <1>1, <2>2 DEF Stages
    <3>2. ~queued' => ~queued /\ UNCHANGED depCache
      BY <1>1, RestIsQuiet DEF BeginRun
    <3> QED
      BY <1>1, <2>2, <3>1, <3>2 DEF DaemonsAs
  <2> QED
    BY <2>1, <2>2, RunOrder, OwnedChange
<1>8. pc' \in AfterZk => ToldSize(mem.spec)'
  <2>1. CASE pc = "zkSize" /\ "size" \in zk'.nodes /\ zk'.size = mem.spec.size
    BY <1>1, <2>1 DEF ToldSize
  <2>2. CASE /\ "size" \in zk'.nodes <=> "size" \in zk.nodes
             /\ zk'.size = zk.size
    <3>1. CASE pc \in AfterZk
      BY <1>1, <2>2, <3>1 DEF Stages, ToldSize
    <3>2. CASE UpdateMetadata /\ mem.spec.size = mem.meta.size
      <4>1. mem.spec.size # 0
        BY <1>1, <1>2 DEF SizeBetween
      <4>2. /\ "size" \in zk.nodes
            /\ SizeAge[mem.meta.size] <= SizeAge[zk.size]
            /\ SizeAge[zk.size] <= SizeAge[mem.spec.size]
        BY <1>1, <1>2, <3>2, <4>1 DEF SizeBetween
      <4>3. zk.size \in Nat
        BY DEF LoopInv, TypeOK, OutsideTypes
      <4>4. zk.size = mem.spec.size
        BY <1>2, <3>2, <4>2, <4>3, CopySizes, SizeAges
      <4> QED
        BY <1>1, <2>2, <4>2, <4>4 DEF ToldSize
    <3>3. CASE UpdateClusterSizeMeta /\ pc = "zkSize"
      BY <1>1, <3>3 DEF UpdateClusterSizeMeta, ToldSize, LoopInv, TypeOK, OutsideTypes
    <3>4. pc' \in AfterZk =>
            \/ pc \in AfterZk
            \/ UpdateMetadata /\ mem.spec.size = mem.meta.size
            \/ UpdateClusterSizeMeta /\ pc = "zkSize"
      BY <1>2, RunOrder
      DEF UpdateMetadata, MetadataStep, SpecChanged, UpdateClusterSizeMeta,
          AfterZk, AfterRecord, AfterDep, AfterSts, AfterCm, Proceed, Goto
    <3> QED
      BY <3>1, <3>2, <3>3, <3>4
  <2> QED
    BY <2>1, <2>2, OwnedChange
<1>9. pc' \in AfterRecord => mem'.meta = RecordedMeta(mem.spec)
  <2>1. CASE UpdateMetadata /\ pc' \in AfterRecord
    <3>1. ~SpecChanged(mem) /\ mem' = mem
      BY <1>2, <2>1
      DEF UpdateMetadata, MetadataStep, AfterRecord, AfterDep, AfterSts, AfterCm,
          Proceed, Goto, memVars
    <3>2. /\ mem.spec.size = mem.meta.size /\ mem.spec.ver = mem.meta.ver
          /\ mem.spec.cfg = mem.meta.cfg
      BY <1>2, <3>1, MapEqualIsEquality DEF SpecChanged, RecordsAreOrdered
    <3>3. mem.meta = [size |-> mem.meta.size, ver |-> mem.meta.ver,
                      cfg |-> mem.meta.cfg]
      BY <1>2 DEF ClusterType, MetaType
    <3> QED
      BY <3>1, <3>2, <3>3 DEF RecordedMeta
  <2>2. CASE RecordMetadata /\ pc' \in AfterRecord
    BY <1>2, <2>2
    DEF RecordMetadata, WriteAndProceed, Conflict, Fail, Leave, AfterRecord,
        AfterDep, AfterSts, AfterCm, ClusterType
  <2>3. CASE pc \in AfterRecord
    <3>1. mem'.meta = mem.meta
      BY <1>1, <2>3, MetaOfRun DEF AfterRecord, AfterDep, AfterSts, AfterCm
    <3> QED
      BY <1>1, <2>3, <3>1 DEF Stages
  <2> QED
    BY <2>1, <2>2, <2>3, RunOrder
<1>10. pc' \in AfterZk \ {"zkTime"} => "updatedat" \in zk'.nodes
  <2>1. CASE pc \in AfterZk \ {"zkTime"}
    BY <1>1, <2>1, OwnedChange DEF Stages
  <2>2. CASE UpdateMetadata /\ mem.spec.size = mem.meta.size
    <3>1. mem.meta.size # 0
      BY <1>1, <1>2, <2>2 DEF SizeBetween
    <3>2. "updatedat" \in zk.nodes
      BY <1>1, <1>2, <3>1 DEF SizeBetween
    <3> QED
      BY <3>2, OwnedChange
  <2>3. CASE UpdateClusterSizeMeta /\ pc' # "zkTime"
    BY <2>3
    DEF UpdateClusterSizeMeta, Proceed, Goto, LoopInv, TypeOK, OutsideTypes
  <2>4. pc' \in AfterZk \ {"zkTime"} =>
            \/ pc \in AfterZk \ {"zkTime"}
            \/ UpdateMetadata /\ mem.spec.size = mem.meta.size
            \/ UpdateClusterSizeMeta /\ pc' # "zkTime"
    BY <1>2, RunOrder
    DEF UpdateMetadata, MetadataStep, SpecChanged, AfterZk, AfterRecord,
        AfterDep, AfterSts, AfterCm, Proceed, Goto
  <2> QED
    BY <2>1, <2>2, <2>3, <2>4
<1> QED
  BY <1>1, <1>3, <1>4, <1>5, <1>6, <1>7, <1>8, <1>9, <1>10

\* Every step keeps a run on an old copy followed by another one.
LEMMA StaleRunIsFollowedStep ==
    ASSUME LoopInv, StaleRunIsFollowed, [Next]_vars
    PROVE  StaleRunIsFollowed'
<1> SUFFICES ASSUME pc' # "idle", cacheFresh', ~queued' PROVE memFresh'
  BY DEF StaleRunIsFollowed
<1>1. CASE BeginRun
  BY <1>1 DEF BeginRun, crVars
<1>2. CASE ~BeginRun
  BY <1>2, RestIsQuiet, RunGoesOn DEF StaleRunIsFollowed
<1> QED
  BY <1>1, <1>2

\* A run of a live resource that ends quietly has nothing more to do.
LEMMA QuietEnd ==
    ASSUME LoopInv, RunShape, Overtaken, StaleRunIsFollowed, [Next]_vars,
           cr'.phase = "live", pc # "idle", pc' = "idle", cacheFresh', ~queued'
    PROVE  KeepFinalizer /\ mem = cr /\ cr' = cr
<1>1. /\ ~BeginRun
      /\ mem \in ClusterType /\ mem.phase = "live"
  BY LiveChanges, RunHoldsResource
  DEF BeginRun, LoopInv, TypeOK, Overtaken, Copies
<1>2. cacheFresh /\ ~queued /\ UNCHANGED <<cr, cache>>
  BY <1>1, RestIsQuiet
<1>3. memFresh /\ mem = cr
  BY <1>2 DEF StaleRunIsFollowed, LoopInv, CopiesAgree
<1>4. ~AddFinalizer
  <2>1. SUFFICES ASSUME AddFinalizer PROVE FALSE
    OBVIOUS
  <2>2. cr' = [mem EXCEPT !.fin = TRUE] /\ ~mem.fin
    BY <1>3, <2>1 DEF AddFinalizer, WriteAndEnd, Accept, Conflict
  <2> QED
    BY <1>1, <1>2, <1>3, <2>2 DEF ClusterType
<1>5. ~DownscaleToZero /\ ~RemoveFinalizer
  BY <1>1 DEF DownscaleToZero, RemoveFinalizer, RunShape
<1>6. KeepFinalizer
  BY <1>1, <1>3, <1>4, <1>5
  DEF Next, OperatorStep, UserStep, vars, loopVars, ReconcilePodDisruptionBudget,
      ReconcileConfigMap, ReconcileServices, ReconcileService,
      CreateStatefulSet, UpdateStatefulSet, KeepStatefulSet,
      UpdateStatefulsetPVCs, ReconcileAutoRecovery, UpdateMetadata,
      MetadataStep, UpdateClusterSizeMeta, RecordMetadata, UpdateStatus,
      StartCleanUp, WaitClusterTermination, DeleteMetadata, WaitError, AbortRun,
      EditSpec, DeleteCluster, SyncCluster, SyncStatefulSet, SyncDeployment,
      StartBookie,
      StopBookie, ScaleAutoRecovery, BookieWritesLedgers, GarbageCollect,
      Proceed, Goto, WriteAndProceed, Conflict, Fail
<1>7. QED
  BY <1>2, <1>3, <1>6

\* Every step keeps a resource that nothing is to be done for as it should be.
LEMMA RestedAppliedStep ==
    ASSUME LoopInv, LoopInv', RunShape, Overtaken, ObjectsDone, Stages,
           StaleRunIsFollowed, RestedApplied, [Next]_vars
    PROVE  RestedApplied'
<1> SUFFICES ASSUME cr'.phase = "live", pc' = "idle", cacheFresh', ~queued'
             PROVE  Applied(cr)'
  BY DEF RestedApplied
<1>1. cr.phase = "live"
  BY LiveChanges
<1>2. CASE BeginRun
  <2>1. cache = cr
    BY <1>2 DEF BeginRun, crVars, LoopInv, CopiesAgree
  <2> QED
    BY <1>1, <1>2, <2>1 DEF BeginRun, FoundByRun, Exists
<1>3. CASE ~BeginRun /\ pc = "idle"
  <2>1. UNCHANGED <<cr, stsCache, depCache>> /\ cacheFresh /\ ~queued
    BY <1>3, RestIsQuiet
  <2>2. Applied(cr)
    BY <1>1, <1>3, <2>1 DEF RestedApplied
  <2>3. UNCHANGED <<sts, cm, pdb, svcs, dep>>
    BY <1>3, ObjectsChange, OwnedChange
    DEF ReconcileConfigMap, ReconcilePodDisruptionBudget, ReconcileService,
        ReconcileAutoRecovery
  <2>4. \A n : SizeTold(n) => SizeTold(n)'
    BY <1>3, OwnedChange DEF SizeTold
  <2> QED
    BY <2>1, <2>2, <2>3, <2>4 DEF Applied, ReplicasAs, DaemonsAs, SizeTold
<1>4. CASE ~BeginRun /\ pc # "idle"
  <2>1. KeepFinalizer /\ mem = cr /\ cr' = cr
    BY <1>4, QuietEnd
  <2>2. /\ pc = "finalizer" /\ mem.fin
        /\ UNCHANGED <<stsVars, ownedVars, zk, queued>>
    BY <1>1, <2>1, Zenon DEF KeepFinalizer, EndRun
  <2>3. Applied(mem)
    BY <1>1, <2>1, <2>2
    DEF Applied, ObjectsDone, Stages, ToldSize, SizeTold, AfterPdb, AfterCm,
        AfterServices, AfterSts, AfterDep, AfterZk, AfterRecord
  <2> QED
    BY <2>1, <2>2, <2>3
    DEF Applied, ReplicasAs, DaemonsAs, SizeTold, stsVars, ownedVars, depVars
<1> QED
  BY <1>2, <1>3, <1>4

\* The invariant of a settled cluster holds in every reachable state.
LEMMA SettledInvHolds ==
    ASSUME RecordsAreOrdered, SizesMoveOn, SizesAreGiven
    PROVE  Spec => []SettledInv
<1>1. Init => SizeBetween /\ Stages /\ StaleRunIsFollowed /\ RestedApplied
  <2> SUFFICES ASSUME Init
               PROVE  SizeBetween /\ Stages /\ StaleRunIsFollowed /\ RestedApplied
    OBVIOUS
  <2>1. PICK s \in Specs : cr = NewCluster(s)
    BY DEF Init
  <2>2. /\ s \in SpecType /\ s.size # 0 /\ ~Exists(NoCluster)
        /\ cache = NoCluster /\ mem = NoCluster /\ pc = "idle"
        /\ cacheFresh = FALSE /\ zk.nodes = {}
    BY ConstantsAssumption, NoClusterIsNoCluster DEF Init, SizesAreGiven
  <2>3. cr.phase = "live" /\ cr.spec = s /\ cr.meta.size = 0
    BY <2>1 DEF NewCluster, NoMeta
  <2>4. \A c \in Copies : c = cr
    BY <2>2 DEF Copies
  <2>5. SizeAge[s.size] \in Nat
    BY <2>2, SpecParts, SizeAges
  <2> QED
    BY <2>2, <2>3, <2>4, <2>5
    DEF SizeBetween, Stages, StaleRunIsFollowed, RestedApplied, AfterPdb,
        AfterCm, AfterServices, AfterSts, AfterDep, AfterZk, AfterRecord
<1>2. RecordInv => LoopInv /\ RunShape /\ Overtaken /\ ObjectsDone
  BY DEF RecordInv
<1>3. SettledInv /\ RecordInv' /\ [Next]_vars => SettledInv'
  BY <1>2, SizeBetweenStep, StagesStep, StaleRunIsFollowedStep,
     RestedAppliedStep
  DEF SettledInv, RecordInv
<1>4. QED
  BY <1>1, <1>3, RecordInvHolds, PTL DEF Spec, SettledInv

\* Once the operator has settled, everything it manages is what the spec asks
\* for, whatever failed on the way.
THEOREM SettledMeansApplied ==
    RecordsAreOrdered /\ SizesMoveOn /\ SizesAreGiven => (Spec => []SettledApplied)
<1>1. SettledInv => SettledApplied
  <2> SUFFICES ASSUME SettledInv, Settled, cr.phase = "live"
               PROVE  /\ Applied(cr) /\ sts.replicas = cr.spec.size
                      /\ dep.replicas = cr.spec.ar
                      /\ sts = SpecifiedSts(cr)
    BY DEF SettledApplied, Applied
  <2>1. /\ Applied(cr) /\ sts.replicas = cr.spec.size
        /\ dep.replicas = cr.spec.ar
    BY Zenon
    DEF SettledInv, RestedApplied, Settled, WorkloadsSeen, Applied, ReplicasAs,
        DaemonsAs
  <2>2. sts \in WorkloadType
    BY DEF SettledInv, RecordInv, LoopInv, TypeOK, ObjectTypes
  <2>3. sts = [exists |-> sts.exists, replicas |-> sts.replicas, ver |-> sts.ver]
    BY <2>2 DEF WorkloadType
  <2>4. sts.exists = TRUE
    BY <2>1, <2>2 DEF Applied, WorkloadType
  <2> QED
    BY <2>1, <2>3, <2>4 DEF Applied, SpecifiedSts
<1>2. ASSUME RecordsAreOrdered /\ SizesMoveOn /\ SizesAreGiven
      PROVE  Spec => []SettledApplied
  BY <1>1, <1>2, SettledInvHolds, PTL
<1>3. QED
  BY <1>2
=============================================================================
