-------------------------- MODULE ClusterReconcile --------------------------
(***************************************************************************)
(* The reconcile loop of the bookkeeper operator for one BookkeeperCluster *)
(* resource, from the resource's creation to its removal.                  *)
(*                                                                         *)
(* A run of the loop reads the resource from the informer cache into mem   *)
(* and calls the functions of reconcileFuncs in order; the first error     *)
(* ends the run and puts the key back on the queue.  Every call to the API *)
(* server or to ZooKeeper is one action here, so that users, informers,    *)
(* the Kubernetes controllers and failures interleave between any two.     *)
(*                                                                         *)
(* The API server accepts a write of the resource only when the writer's   *)
(* copy is the newest one (memFresh); cacheFresh says the same of the      *)
(* informer's copy.  The two flags stand for resource versions.            *)
(***************************************************************************)
EXTENDS Naturals, ConfigData

CONSTANTS
    Versions,           \* bookkeeper versions
    Configs,            \* values of spec.bkConfig
    Specs,              \* the desired states a user may ask for
    Edits,              \* the <<old, new>> changes of the spec a user may make
    NoVersion,          \* the version of a status that was never written
    DeleteStorage,      \* spec.persistence.reclaimPolicy is "Delete"
    NameIsNamespace,    \* the resource has the name of its namespace
    WorkloadLag,        \* the informers of the workloads may lag behind other reads
    MaxEdits,           \* bound: changes of the spec by users
    MaxFaults           \* bound: calls that fail, and operator crashes

SpecType == [size: Nat, ar: Nat, ver: Versions, cfg: Configs, mu: Nat]

ASSUME ConstantsAssumption ==
    /\ \A s \in Specs : s \in SpecType
    /\ \A e \in Edits : e[2] \in SpecType
    /\ NoVersion \notin Versions
    /\ EmptyConfig \in Configs
    /\ {DeleteStorage, NameIsNamespace, WorkloadLag} \subseteq BOOLEAN
    /\ MaxEdits \in Nat
    /\ MaxFaults \in Nat

VARIABLES
    cr,         \* the resource on the API server
    cache,      \* the informer's copy of it
    cacheFresh, \* the informer's copy is the newest version
    mem,        \* the copy the current run works on
    memFresh,   \* that copy is the newest version
    pc,         \* the next call of the current run, "idle" between runs
    queued,     \* the work queue holds the key of the resource
    sts,        \* the bookie StatefulSet on the API server
    stsCache,   \* the informer's copy of it
    pdb,        \* the PodDisruptionBudget
    cm,         \* the ConfigMap
    svcs,       \* the Services that exist
    dep,        \* the autorecovery Deployment on the API server
    depCache,   \* the informer's copy of it
    pods,       \* bookie pods, of ordinals 0..pods-1
    arPods,     \* autorecovery pods
    pvcs,       \* ordinals that have PersistentVolumeClaims
    zk,         \* the znodes under the cluster's root
    edits,      \* changes made by users so far
    faults      \* failures so far

crVars    == <<cr, cache, cacheFresh>>
memVars   == <<mem, memFresh>>
loopVars  == <<pc, queued>>
stsVars   == <<sts, stsCache>>
depVars   == <<dep, depCache>>
ownedVars == <<pdb, cm, svcs, depVars>>
podVars   == <<pods, arPods, pvcs>>
bounds    == <<edits, faults>>
vars == <<crVars, memVars, loopVars, stsVars, ownedVars, podVars, zk, bounds>>

Phases == {"live", "deleting", "deleted", "finalized"}
Steps == {"idle", "pdb", "configmap", "headless", "client", "statefulset",
          "pvc", "autorecovery", "metadata", "zkSize", "zkTime", "record",
          "status", "finalizer", "wait", "zkDelete", "unfinalize"}
ZNodes == {"root", "size", "updatedat", "ledgers"}

\* "deleted" and "finalized" both mean that the resource is gone; the second
\* says that the operator took its finalizer off.
Exists(c) == c.phase \in {"live", "deleting"}

NoSts == [exists |-> FALSE, replicas |-> 0, ver |-> NoVersion]
NoDep == [exists |-> FALSE, replicas |-> 0, ver |-> NoVersion]
NoPdb == [exists |-> FALSE, mu |-> 0]
NoCm  == [exists |-> FALSE, data |-> EmptyConfig]
NoMeta == [size |-> 0, ver |-> NoVersion, cfg |-> EmptyConfig]

NoCluster == [phase |-> "none"]
NewCluster(s) ==
    [phase |-> "live", fin |-> FALSE, spec |-> s, meta |-> NoMeta, ready |-> 0]

MetaType == [size: Nat, ver: Versions \cup {NoVersion}, cfg: Configs]
\* Only the finalizer keeps a resource whose deletion was asked for.
ClusterType ==
    {c \in [phase: Phases, fin: BOOLEAN, spec: SpecType,
            meta: MetaType, ready: Nat] : c.phase = "deleting" => c.fin}
WorkloadType == [exists: BOOLEAN, replicas: Nat,
                 ver: Versions \cup {NoVersion}]
CmData == {EmptyConfig} \cup UNION {Renderings(c) : c \in Configs}

\* A user has just created the resource; the webhook filled in its defaults.
Init ==
    /\ \E s \in Specs : cr = NewCluster(s)
    /\ cache = NoCluster
    /\ cacheFresh = FALSE
    /\ mem = NoCluster
    /\ memFresh = FALSE
    /\ pc = "idle"
    /\ queued = FALSE
    /\ sts = NoSts
    /\ stsCache = NoSts
    /\ pdb = NoPdb
    /\ cm = NoCm
    /\ svcs = {}
    /\ dep = NoDep
    /\ depCache = NoDep
    /\ pods = 0
    /\ arPods = 0
    /\ pvcs = {}
    /\ zk = [nodes |-> {}, size |-> 0]
    /\ edits = 0
    /\ faults = 0
-----------------------------------------------------------------------------
(* Ends of a run, and writes of the resource.                              *)

Goto(step) == pc' = step /\ UNCHANGED queued
Proceed(step) == Goto(step) /\ UNCHANGED memVars

\* The run's copy of the resource goes with it.
Leave == pc' = "idle" /\ mem' = NoCluster /\ memFresh' = FALSE
EndRun == Leave /\ UNCHANGED queued

\* A call returned an error: Reconcile returns it and the key is requeued.
Fail == Leave /\ queued' = TRUE

\* An update of the resource that the API server accepts; one that changes
\* nothing makes no new version.
Accept(new) ==
    /\ memFresh
    /\ cr' = new
    /\ cacheFresh' = (cacheFresh /\ new = cr)
    /\ UNCHANGED cache

\* An update made with an old resource version, or of a resource that is gone.
Conflict == ~memFresh /\ Fail /\ UNCHANGED crVars

\* The answer to an accepted update is decoded into mem.
WriteAndProceed(new, step) ==
    \/ Accept(new) /\ mem' = new /\ UNCHANGED memFresh /\ Goto(step)
    \/ Conflict
WriteAndEnd(new) == (Accept(new) /\ EndRun) \/ Conflict

\* Someone else made a new version of the resource.
NewVersionBy(new) ==
    /\ cr' = new
    /\ cacheFresh' = FALSE
    /\ memFresh' = FALSE
    /\ UNCHANGED <<cache, mem>>
-----------------------------------------------------------------------------
(* A run begins, and the objects without decisions of their own.           *)

\* The informer's cache decides whether the resource is there at all.
FoundByRun_Always == TRUE
FoundByRun == Exists(cache)

WorkloadsSeen == stsCache = sts /\ depCache = dep

\* The queue hands the key to the only worker.
BeginRun ==
    /\ pc = "idle"
    /\ queued
    /\ WorkloadLag \/ WorkloadsSeen
    /\ queued' = FALSE
    /\ IF FoundByRun
       THEN mem' = cache /\ memFresh' = cacheFresh /\ pc' = "pdb"
       ELSE UNCHANGED <<memVars, pc>>
    /\ UNCHANGED <<crVars, stsVars, ownedVars, podVars, zk, bounds>>

\* shouldUpdatePDB compares the version with a label that no GenerateLabels
\* sets, so a budget that is found is always written again.
ReconcilePodDisruptionBudget ==
    /\ pc = "pdb"
    /\ pdb' = [exists |-> TRUE, mu |-> mem.spec.mu]
    /\ Proceed("configmap")
    /\ UNCHANGED <<crVars, stsVars, cm, svcs, depVars, podVars, zk, bounds>>

ShouldUpdateConfigmap_SameSize(c) ==
    Cardinality(DOMAIN c.spec.cfg) # Cardinality(DOMAIN c.meta.cfg)
ShouldUpdateConfigmap(c) == ~MapEqual(c.spec.cfg, c.meta.cfg)

ReconcileConfigMap ==
    /\ pc = "configmap"
    /\ IF ~cm.exists \/ ShouldUpdateConfigmap(mem)
       THEN \E d \in Renderings(mem.spec.cfg) : cm' = [exists |-> TRUE, data |-> d]
       ELSE UNCHANGED cm
    /\ Proceed("headless")
    /\ UNCHANGED <<crVars, stsVars, pdb, svcs, depVars, podVars, zk, bounds>>

\* Services are created once and never updated, the headless one first.
ReconcileService(svc, next) ==
    /\ pc = svc
    /\ svcs' = svcs \cup {svc}
    /\ Proceed(next)
    /\ UNCHANGED <<crVars, stsVars, pdb, cm, depVars, podVars, zk, bounds>>

ReconcileServices ==
    \/ ReconcileService("headless", "client")
    \/ ReconcileService("client", "statefulset")
-----------------------------------------------------------------------------
(* ReconcileStatefulSet: create, or update and reclaim idle claims.        *)

SpecifiedSts(c) ==
    [exists |-> TRUE, replicas |-> c.spec.size, ver |-> c.spec.ver]

CreateStatefulSet ==
    /\ pc = "statefulset"
    /\ ~stsCache.exists
    /\ IF sts.exists
       THEN Fail /\ UNCHANGED sts
       ELSE Proceed("autorecovery") /\ sts' = SpecifiedSts(mem)
    /\ UNCHANGED <<crVars, stsCache, ownedVars, podVars, zk, bounds>>

\* The size is compared with the StatefulSet itself, version and configuration
\* with what the status says was applied last.
ShouldUpdateStatefulSet_Recorded(c, s) ==
    \/ c.spec.size # c.meta.size
    \/ c.spec.ver # c.meta.ver
    \/ ~MapEqual(c.spec.cfg, c.meta.cfg)
ShouldUpdateStatefulSet_SizeOnly(c, s) == c.spec.size # s.replicas
ShouldUpdateStatefulSet(c, s) ==
    \/ c.spec.size # s.replicas
    \/ c.spec.ver # c.meta.ver
    \/ ~MapEqual(c.spec.cfg, c.meta.cfg)

UpdateStatefulSet ==
    /\ pc = "statefulset"
    /\ stsCache.exists
    /\ ShouldUpdateStatefulSet(mem, stsCache)
    /\ IF stsCache = sts
       THEN /\ sts' = SpecifiedSts(mem)
            /\ Proceed(IF DeleteStorage THEN "pvc" ELSE "autorecovery")
       ELSE Fail /\ UNCHANGED sts
    /\ UNCHANGED <<crVars, stsCache, ownedVars, podVars, zk, bounds>>

KeepStatefulSet ==
    /\ pc = "statefulset"
    /\ stsCache.exists
    /\ ~ShouldUpdateStatefulSet(mem, stsCache)
    /\ Proceed("autorecovery")
    /\ UNCHANGED <<crVars, stsVars, ownedVars, podVars, zk, bounds>>

\* oputil.IsOrdinalObjectIdle: the ordinal is not below the replica count.
IdleClaims_OffByOne(replicas) == {o \in pvcs : o + 1 >= replicas}
IdleClaims_AboveOnly(replicas) == {o \in pvcs : o > replicas}
IdleClaims(replicas) == {o \in pvcs : o >= replicas}

\* updateStatefulsetPVCs deletes the idle claims one call at a time.
UpdateStatefulsetPVCs ==
    /\ pc = "pvc"
    /\ \/ /\ IdleClaims(mem.spec.size) = {}
          /\ Proceed("autorecovery")
          /\ UNCHANGED pvcs
       \/ /\ \E o \in IdleClaims(mem.spec.size) : pvcs' = pvcs \ {o}
          /\ Proceed("pvc")
    /\ UNCHANGED <<crVars, stsVars, ownedVars, pods, arPods, zk, bounds>>

\* A Deployment that is found is changed only in its replica count.
SpecifiedDep_CreateOnly(c, d) ==
    IF d.exists THEN d
    ELSE [exists |-> TRUE, replicas |-> c.spec.ar, ver |-> c.spec.ver]
SpecifiedDep(c, d) ==
    IF d.exists THEN [d EXCEPT !.replicas = c.spec.ar]
    ELSE [exists |-> TRUE, replicas |-> c.spec.ar, ver |-> c.spec.ver]

\* Written only when it is not as it should be, and on top of what the informer
\* shows.
ReconcileAutoRecovery ==
    /\ pc = "autorecovery"
    /\ \/ /\ SpecifiedDep(mem, depCache) = depCache
          /\ Proceed("metadata")
          /\ UNCHANGED dep
       \/ /\ SpecifiedDep(mem, depCache) # depCache
          /\ IF depCache = dep
             THEN Proceed("metadata") /\ dep' = SpecifiedDep(mem, depCache)
             ELSE Fail /\ UNCHANGED dep
    /\ UNCHANGED <<crVars, stsVars, pdb, cm, svcs, depCache, podVars, zk, bounds>>
-----------------------------------------------------------------------------
(* ReconcileClusterStatus: record what was applied, then the membership.   *)

SpecChanged(c) ==
    \/ c.spec.size # c.meta.size
    \/ ~MapEqual(c.spec.cfg, c.meta.cfg)
    \/ c.spec.ver # c.meta.ver

\* Where updateMetadata goes: nothing is recorded once deletion has begun, and
\* ZooKeeper is told only of a new size, before the status is.
MetadataStep_RecordOnly(c) ==
    IF ~SpecChanged(c) \/ c.phase = "deleting" THEN "status"
    ELSE IF c.spec.ver = c.meta.ver THEN "zkSize" ELSE "record"
MetadataStep(c) ==
    IF ~SpecChanged(c) \/ c.phase = "deleting" THEN "status"
    ELSE IF c.spec.size # c.meta.size THEN "zkSize" ELSE "record"

UpdateMetadata ==
    /\ pc = "metadata"
    /\ Proceed(MetadataStep(mem))
    /\ UNCHANGED <<crVars, stsVars, ownedVars, podVars, zk, bounds>>

\* updateClusterSizeMeta writes the size node, then the time node.
UpdateClusterSizeMeta ==
    \/ /\ pc = "zkSize"
       /\ zk' = [nodes |-> zk.nodes \cup {"root", "size"}, size |-> mem.spec.size]
       /\ Proceed("zkTime")
       /\ UNCHANGED <<crVars, stsVars, ownedVars, podVars, bounds>>
    \/ /\ pc = "zkTime"
       /\ zk' = [zk EXCEPT !.nodes = @ \cup {"root", "updatedat"}]
       /\ Proceed("record")
       /\ UNCHANGED <<crVars, stsVars, ownedVars, podVars, bounds>>

RecordedMeta(s) == [size |-> s.size, ver |-> s.ver, cfg |-> s.cfg]

RecordMetadata ==
    /\ pc = "record"
    /\ WriteAndProceed([mem EXCEPT !.meta = RecordedMeta(mem.spec)], "status")
    /\ UNCHANGED <<stsVars, ownedVars, podVars, zk, bounds>>

\* Pods are listed by labels that bookie and autorecovery pods share, in a
\* namespace that is given the name of the resource.
ListedPods == IF NameIsNamespace THEN pods + arPods ELSE 0

UpdateStatus ==
    /\ pc = "status"
    /\ WriteAndProceed([mem EXCEPT !.ready = ListedPods], "finalizer")
    /\ UNCHANGED <<stsVars, ownedVars, podVars, zk, bounds>>
-----------------------------------------------------------------------------
(* ReconcileFinalizer.  The finalizer goes on at the end of the first whole *)
(* run.  A resource that is being deleted is scaled to zero by one run; a   *)
(* later one waits for the pods, removes the znodes and the finalizer.      *)

AddFinalizer ==
    /\ pc = "finalizer"
    /\ mem.phase = "live"
    /\ ~mem.fin
    /\ WriteAndEnd([mem EXCEPT !.fin = TRUE])
    /\ UNCHANGED <<stsVars, ownedVars, podVars, zk, bounds>>

\* Nothing to do: the finalizer is there, or a deletion waits for another one.
KeepFinalizer ==
    /\ pc = "finalizer"
    /\ mem.fin = (mem.phase = "live")
    /\ EndRun
    /\ UNCHANGED <<crVars, stsVars, ownedVars, podVars, zk, bounds>>

NeedsDownscale_BookiesOnly(c) == c.spec.size > 0
NeedsDownscale(c) == c.spec.size > 0 \/ c.spec.ar > 0

DownscaleToZero ==
    /\ pc = "finalizer"
    /\ mem.phase = "deleting"
    /\ mem.fin
    /\ NeedsDownscale(mem)
    /\ WriteAndEnd([mem EXCEPT !.spec.size = 0, !.spec.ar = 0])
    /\ UNCHANGED <<stsVars, ownedVars, podVars, zk, bounds>>

StartCleanUp ==
    /\ pc = "finalizer"
    /\ mem.phase = "deleting"
    /\ mem.fin
    /\ ~NeedsDownscale(mem)
    /\ Proceed("wait")
    /\ UNCHANGED <<crVars, stsVars, ownedVars, podVars, zk, bounds>>

\* k8s.WaitForPodsToTerminate lists the pods until none is left.
PodsTerminated == pods + arPods = 0

WaitClusterTermination ==
    /\ pc = "wait"
    /\ PodsTerminated
    /\ Proceed("zkDelete")
    /\ UNCHANGED <<crVars, stsVars, ownedVars, podVars, zk, bounds>>

\* The wait gives up.
WaitError ==
    /\ pc = "wait"
    /\ ~PodsTerminated
    /\ Fail
    /\ UNCHANGED <<crVars, stsVars, ownedVars, podVars, zk, bounds>>

\* deleteNode: a node that has children is removed after them.
Removable_OwnNodes(n) == n \in {"size", "updatedat"} \/ zk.nodes = {"root"}
Removable(n) == n # "root" \/ zk.nodes = {"root"}

DeleteMetadata ==
    /\ pc = "zkDelete"
    /\ \/ /\ zk.nodes = {}
          /\ Proceed("unfinalize")
          /\ UNCHANGED zk
       \/ /\ \E n \in zk.nodes :
                Removable(n) /\ zk' = [zk EXCEPT !.nodes = @ \ {n}]
          /\ Proceed("zkDelete")
    /\ UNCHANGED <<crVars, stsVars, ownedVars, podVars, bounds>>

\* The API server removes the resource when its last finalizer goes.
RemoveFinalizer ==
    /\ pc = "unfinalize"
    /\ WriteAndEnd([mem EXCEPT !.fin = FALSE, !.phase = "finalized"])
    /\ UNCHANGED <<stsVars, ownedVars, podVars, zk, bounds>>
-----------------------------------------------------------------------------
(* Failures: a call fails before or after it took effect, or the operator   *)
(* crashes.  Either way the run ends, and the key is queued again, by the   *)
(* queue's retry or by the list that a restarted operator begins with.      *)

AbortRun ==
    /\ pc # "idle"
    /\ faults < MaxFaults
    /\ faults' = faults + 1
    /\ Fail
    /\ UNCHANGED <<crVars, stsVars, ownedVars, podVars, zk, edits>>

-----------------------------------------------------------------------------
(* Users, through the API server.                                           *)

EditSpec ==
    /\ Exists(cr)
    /\ edits < MaxEdits
    /\ edits' = edits + 1
    /\ \E e \in Edits :
        e[1] = cr.spec /\ NewVersionBy([cr EXCEPT !.spec = e[2]])
    /\ UNCHANGED <<loopVars, stsVars, ownedVars, podVars, zk, faults>>

\* A resource without a finalizer goes at once.
DeleteCluster ==
    /\ cr.phase = "live"
    /\ NewVersionBy([cr EXCEPT !.phase = IF cr.fin THEN "deleting" ELSE "deleted"])
    /\ UNCHANGED <<loopVars, stsVars, ownedVars, podVars, zk, bounds>>

-----------------------------------------------------------------------------
(* The informers.  Every change they see puts the key on the queue.         *)

SyncCluster ==
    /\ ~cacheFresh
    /\ cache' = cr
    /\ cacheFresh' = TRUE
    /\ queued' = TRUE
    /\ UNCHANGED <<cr, memVars, pc, stsVars, ownedVars, podVars, zk, bounds>>

SyncStatefulSet ==
    /\ stsCache # sts
    /\ stsCache' = sts
    /\ queued' = TRUE
    /\ UNCHANGED <<crVars, memVars, pc, sts, ownedVars, podVars, zk, bounds>>

SyncDeployment ==
    /\ depCache # dep
    /\ depCache' = dep
    /\ queued' = TRUE
    /\ UNCHANGED <<crVars, memVars, pc, stsVars, pdb, cm, svcs, dep, podVars, zk,
                   bounds>>

-----------------------------------------------------------------------------
(* Kubernetes and the bookies.  A pod that comes or goes changes the status *)
(* of its StatefulSet or Deployment, and that queues the key.               *)

\* A pod's claims are made before the pod and stay when it goes.
StartBookie ==
    /\ pods < sts.replicas
    /\ pods' = pods + 1
    /\ pvcs' = pvcs \cup {pods}
    /\ queued' = TRUE
    /\ UNCHANGED <<crVars, memVars, pc, stsVars, ownedVars, arPods, zk, bounds>>

StopBookie ==
    /\ pods > sts.replicas
    /\ pods' = pods - 1
    /\ queued' = TRUE
    /\ UNCHANGED <<crVars, memVars, pc, stsVars, ownedVars, arPods, pvcs, zk, bounds>>

ScaleAutoRecovery ==
    /\ arPods # dep.replicas
    /\ arPods' = IF arPods < dep.replicas THEN arPods + 1 ELSE arPods - 1
    /\ queued' = TRUE
    /\ UNCHANGED <<crVars, memVars, pc, stsVars, ownedVars, pods, pvcs, zk, bounds>>

BookieWritesLedgers ==
    /\ pods + arPods > 0
    /\ zk' = [zk EXCEPT !.nodes = @ \cup {"root", "ledgers"}]
    /\ UNCHANGED <<crVars, memVars, loopVars, stsVars, ownedVars, podVars, bounds>>

\* Objects owned by a resource that is gone go too; claims have no owner.
GarbageCollect ==
    /\ ~Exists(cr)
    /\ sts' = NoSts
    /\ dep' = NoDep
    /\ pdb' = NoPdb
    /\ cm' = NoCm
    /\ svcs' = {}
    /\ UNCHANGED <<crVars, memVars, loopVars, stsCache, depCache, podVars, zk, bounds>>
-----------------------------------------------------------------------------
\* The calls of a run that do not fail.
OperatorStep ==
    \/ BeginRun
    \/ ReconcilePodDisruptionBudget
    \/ ReconcileConfigMap
    \/ ReconcileServices
    \/ CreateStatefulSet
    \/ UpdateStatefulSet
    \/ KeepStatefulSet
    \/ UpdateStatefulsetPVCs
    \/ ReconcileAutoRecovery
    \/ UpdateMetadata
    \/ UpdateClusterSizeMeta
    \/ RecordMetadata
    \/ UpdateStatus
    \/ AddFinalizer
    \/ KeepFinalizer
    \/ DownscaleToZero
    \/ StartCleanUp
    \/ WaitClusterTermination
    \/ DeleteMetadata
    \/ RemoveFinalizer

UserStep == EditSpec \/ DeleteCluster

Next ==
    \/ OperatorStep
    \/ WaitError
    \/ AbortRun
    \/ UserStep
    \/ SyncCluster
    \/ SyncStatefulSet
    \/ SyncDeployment
    \/ StartBookie
    \/ StopBookie
    \/ ScaleAutoRecovery
    \/ BookieWritesLedgers
    \/ GarbageCollect

Spec == Init /\ [][Next]_vars

\* The worker keeps working and the controllers of Kubernetes keep up; users,
\* failures and bookies owe nothing.
Fairness ==
    /\ WF_vars(OperatorStep)
    /\ WF_vars(SyncCluster)
    /\ WF_vars(SyncStatefulSet)
    /\ WF_vars(SyncDeployment)
    /\ WF_vars(StartBookie)
    /\ WF_vars(StopBookie)
    /\ WF_vars(ScaleAutoRecovery)
    /\ WF_vars(GarbageCollect)

FairSpec == Spec /\ Fairness
-----------------------------------------------------------------------------
(* Properties.                                                              *)

LoopTypes ==
    /\ cr \in ClusterType
    /\ cache \in ClusterType \cup {NoCluster}
    /\ mem \in ClusterType \cup {NoCluster}
    /\ cacheFresh \in BOOLEAN
    /\ memFresh \in BOOLEAN
    /\ pc \in Steps
    /\ queued \in BOOLEAN
    /\ pc # "idle" => Exists(mem)

ObjectTypes ==
    /\ sts \in WorkloadType
    /\ stsCache \in WorkloadType
    /\ dep \in WorkloadType
    /\ depCache \in WorkloadType
    /\ pdb \in [exists: BOOLEAN, mu: Nat]
    /\ cm \in [exists: BOOLEAN, data: CmData]
    /\ svcs \subseteq {"headless", "client"}

OutsideTypes ==
    /\ pods \in Nat
    /\ arPods \in Nat
    /\ pvcs \subseteq Nat
    /\ zk \in [nodes: SUBSET ZNodes, size: Nat]
    /\ edits \in 0..MaxEdits
    /\ faults \in 0..MaxFaults

\* The variables have their types, a run that is under way works on a
\* resource that exists, and a deletion is pending only for the finalizer.
TypeOK == LoopTypes /\ ObjectTypes /\ OutsideTypes

\* Nothing is left for the operator to do: no run, nothing queued, and the
\* informers have seen everything.
Settled ==
    /\ pc = "idle"
    /\ ~queued
    /\ cacheFresh
    /\ WorkloadsSeen

\* ZooKeeper has been told of a size, and of the time of the change.
SizeTold(size) == {"size", "updatedat"} \subseteq zk.nodes /\ zk.size = size

\* Once the operator has settled, everything it manages is what the spec asks
\* for, whatever failed on the way.  This needs edits that never bring a
\* setting back to an earlier value: the status, not the object, is what
\* shouldUpdateStatefulSet and shouldUpdateConfigmap compare the spec with.
SettledApplied ==
    Settled /\ cr.phase = "live" =>
        /\ cr.fin
        /\ sts = SpecifiedSts(cr)
        /\ cm.exists /\ cm.data \in Renderings(cr.spec.cfg)
        /\ pdb = [exists |-> TRUE, mu |-> cr.spec.mu]
        /\ svcs = {"headless", "client"}
        /\ dep.exists /\ dep.replicas = cr.spec.ar
        /\ SizeTold(cr.spec.size)
        /\ cr.meta = RecordedMeta(cr.spec)

\* The status never records a size that ZooKeeper was not told: updateMetadata
\* writes both nodes first, and a deletion cannot pass between.
RecordedSizeIsInZk ==
    [][cr'.meta.size # cr.meta.size => SizeTold(cr'.meta.size)]_vars

\* When the status records a version and a configuration, the StatefulSet and
\* the ConfigMap already carry them; so a later run may trust the record.
\* Like SettledApplied it needs edits that never go back.
RecordIsApplied ==
    [][cr'.meta # cr.meta =>
        /\ sts.exists /\ sts.ver = cr'.meta.ver
        /\ cm.exists /\ cm.data \in Renderings(cr'.meta.cfg)]_vars

\* The specs that users ask for.
AskedSpecs == Specs \cup {e[2] : e \in Edits}

\* A claim is deleted only under the policy "Delete", and only for a bookie that
\* the StatefulSet does without at that moment, whatever the informers showed
\* the run that deletes it; while the cluster lives, moreover, only for one that
\* some user asked to do without: the zeros of a deletion take no claim before.
\* The pod of that bookie may still run; nothing waits for it to stop.
ClaimsKeptForAskedBookies ==
    [][\A o \in pvcs \ pvcs' :
        /\ DeleteStorage
        /\ o >= sts.replicas
        /\ cr.phase = "live" => \E s \in AskedSpecs : o >= s.size]_vars

\* The finalizer goes only when the bookies and autorecovery pods have
\* terminated and the znodes are deleted, and nothing brings any of them back:
\* neither a change of the spec made during the deletion, nor a run that still
\* sees the resource in the cache after it is gone.
CleanGoodbye ==
    cr.phase = "finalized" => pods = 0 /\ arPods = 0 /\ zk.nodes = {}

\* A resource whose deletion has begun goes in the end, however often the
\* calls fail and whatever the users change meanwhile.
DeletionCompletes == cr.phase = "deleting" ~> ~Exists(cr)

\* After the last change and the last failure, the pods of a live cluster are
\* as many as the spec asks for, and stay so.
ReplicasConverge ==
    <>[](cr.phase = "live" =>
            pods = cr.spec.size /\ arPods = cr.spec.ar)

(* What the documentation says of the fields of the resource.               *)

\* "BookkeeperVersion defines the version of bookkeeper to use": the settled
\* StatefulSet runs that version.
BookiesRunTheVersion ==
    Settled /\ cr.phase = "live" => sts.ver = cr.spec.ver

\* The same of the autorecovery daemons, which run the same image.
AutoRecoveryRunsTheVersion ==
    Settled /\ cr.phase = "live" => dep.ver = cr.spec.ver

\* "If it's set to Delete and the bookkeeper cluster is deleted, the
\* corresponding PVCs will be deleted": none is left when the operator has
\* finalized the resource,
ClaimsGoWithFinalizer ==
    cr.phase = "finalized" /\ DeleteStorage => pvcs = {}

\* provided that no run failed and the operator did not stop,
ReclaimedUnlessFailed == faults = 0 => ClaimsGoWithFinalizer

\* and none is left when all is quiet after any deletion.
ClaimsGoWithTheCluster ==
    Settled /\ ~Exists(cr) /\ ~sts.exists /\ pods = 0 /\ DeleteStorage => pvcs = {}

\* "BkConfig defines the Bookkeeper configurations to override": the settled
\* ConfigMap is one rendered from the bkConfig of the spec.
ConfigMapOverrides ==
    Settled /\ cr.phase = "live" => cm.data \in Renderings(cr.spec.cfg)

\* "ReadyReplicas is the number of ready bookkeeper nodes in the cluster".
ReadyReplicasCountsBookies ==
    /\ Settled /\ cr.phase = "live"
    /\ pods = sts.replicas /\ arPods = dep.replicas
    => cr.ready = pods
=============================================================================
