---------------------------- MODULE ClusterLabels ----------------------------
(***************************************************************************)
(* The labels by which the operator finds the pods and claims of a cluster.*)
(*                                                                         *)
(* Of a label map only the entry "component" can differ between two maps   *)
(* made for the same resource, so a map is that entry here, or "any" when  *)
(* it has none, and selects the pods that have the entry.  The maps are    *)
(* made from spec.labels: when the user set any, createLabels returns the  *)
(* map of the spec itself, and what GenerateWorkloadLabels adds to it      *)
(* stays in the run's copy of the resource, goes to the API server with    *)
(* the next update, and comes back with the answer to a status update.     *)
(***************************************************************************)
EXTENDS Naturals

CONSTANTS
    OwnLabels,      \* the user set spec.labels
    PodLabels,      \* the user set spec.podConfig.labels
    MaxFaults,      \* bound: runs that fail
    MaxReplaced,    \* bound: times a user replaces the resource
    MaxRemoved      \* bound: Services that somebody removes

VARIABLES
    stored,     \* the component in spec.labels on the API server
    mem,        \* the component in the run's copy of it
    memFresh,   \* that copy is the newest version
    phase,      \* of the resource: live, deleting, gone
    fin,        \* it has the finalizer
    scale,      \* the replicas it wants of either workload: 0 or 1
    pc,         \* the next call of the run
    pdb,        \* what the PodDisruptionBudget selects
    svc,        \* what either Service selects
    sts, dep,   \* what the workloads select, and their replicas
    pods,       \* the components that have a pod
    claims,     \* the components that have claims
    faults, replaced, removed

res  == <<stored, phase, fin, scale>>
copy == <<mem, memFresh>>
objs == <<pdb, svc, sts, dep>>
runs == <<pods, claims>>
bnds == <<faults, replaced, removed>>
vars == <<res, copy, pc, objs, runs, bnds>>

Bookie == "bookie"
AutoRecovery == "bookkeeper-autorecovery"
Any == "any"
Components == {Bookie, AutoRecovery}
Absent == [sel |-> "nothing", replicas |-> 0]

Selected(label, from) == {c \in from : label \in {Any, c}}

Init ==
    /\ stored = Any
    /\ mem = Any
    /\ memFresh = FALSE
    /\ phase = "live"
    /\ fin = FALSE
    /\ scale = 1
    /\ pc = "idle"
    /\ pdb = "nothing"
    /\ svc = [headless |-> "nothing", client |-> "nothing"]
    /\ sts = Absent
    /\ dep = Absent
    /\ pods = {}
    /\ claims = {}
    /\ faults = 0
    /\ replaced = 0
    /\ removed = 0
-----------------------------------------------------------------------------
(* The two ways to make labels.                                            *)

\* createLabels hands out the map of the spec, if there is one.
SharesTheMap == OwnLabels

GenerateLabels == IF SharesTheMap THEN mem ELSE Any

\* The component is set whether or not there is one.
Component(c) == c

GenerateWorkloadLabels(c) ==
    mem' = IF SharesTheMap THEN Component(c) ELSE mem

Goto(step) == pc' = step /\ UNCHANGED memFresh
Leave == pc' = "idle" /\ UNCHANGED copy

BeginRun ==
    /\ pc = "idle"
    /\ phase # "gone"
    /\ mem' = stored
    /\ memFresh' = TRUE
    /\ pc' = "pdb"
    /\ UNCHANGED <<res, objs, runs, bnds>>

\* The budget is written by every run: the label that shouldUpdatePDB looks at
\* is set by nobody.
ReconcilePodDisruptionBudget_WhenNeeded ==
    /\ pc = "pdb"
    /\ IF pdb = "nothing"
       THEN GenerateWorkloadLabels(Bookie) /\ pdb' = Component(Bookie)
       ELSE UNCHANGED <<mem, pdb>>
    /\ Goto("headless")
    /\ UNCHANGED <<res, svc, sts, dep, runs, bnds>>
ReconcilePodDisruptionBudget ==
    /\ pc = "pdb"
    /\ GenerateWorkloadLabels(Bookie)
    /\ pdb' = Component(Bookie)
    /\ Goto("headless")
    /\ UNCHANGED <<res, svc, sts, dep, runs, bnds>>

\* A Service that is not there is created with the labels as they are.
ReconcileService(s, next) ==
    /\ pc = s
    /\ svc' = IF svc[s] = "nothing" THEN [svc EXCEPT ![s] = GenerateLabels] ELSE svc
    /\ Goto(next)
    /\ UNCHANGED <<res, mem, pdb, sts, dep, runs, bnds>>

ReconcileHeadlessService == ReconcileService("headless", "client")
ReconcileClientService == ReconcileService("client", "statefulset")

\* A StatefulSet keeps the selector it was created with.
CreateStatefulSet ==
    /\ pc = "statefulset"
    /\ sts = Absent
    /\ GenerateWorkloadLabels(Bookie)
    /\ sts' = [sel |-> Component(Bookie), replicas |-> scale]
    /\ Goto("autorecovery")
    /\ UNCHANGED <<res, pdb, svc, dep, runs, bnds>>

KeepStatefulSet ==
    /\ pc = "statefulset"
    /\ sts # Absent
    /\ sts.replicas = scale
    /\ Goto("autorecovery")
    /\ UNCHANGED <<res, mem, objs, runs, bnds>>

\* The idle claims are looked for by the labels of the pod template.  Those of
\* podConfig are among them, but a claim has only the ones it is created with
\* and the ones of the selector.
FoundClaims == IF PodLabels THEN {} ELSE Selected(sts.sel, claims)
IdleClaims == IF sts.replicas = 0 THEN FoundClaims ELSE {}

\* The update is made for a version or a configuration too.
UpdateStatefulSet_ClaimsFirst ==
    /\ pc = "statefulset"
    /\ sts # Absent
    /\ sts' = [sts EXCEPT !.replicas = scale]
    /\ claims' = claims \ IdleClaims
    /\ Goto("autorecovery")
    /\ UNCHANGED <<res, mem, pdb, svc, dep, pods, bnds>>
UpdateStatefulSet ==
    /\ pc = "statefulset"
    /\ sts # Absent
    /\ sts' = [sts EXCEPT !.replicas = scale]
    /\ Goto("claims")
    /\ UNCHANGED <<res, mem, pdb, svc, dep, runs, bnds>>

UpdateStatefulsetPVCs ==
    /\ pc = "claims"
    /\ claims' = claims \ IdleClaims
    /\ Goto("autorecovery")
    /\ UNCHANGED <<res, mem, objs, pods, bnds>>

ReconcileAutoRecovery ==
    /\ pc = "autorecovery"
    /\ \/ /\ dep = Absent
          /\ GenerateWorkloadLabels(AutoRecovery)
          /\ dep' = [sel |-> Component(AutoRecovery), replicas |-> scale]
       \/ /\ dep # Absent
          /\ dep' = [dep EXCEPT !.replicas = scale]
          /\ UNCHANGED mem
    /\ Goto("metadata")
    /\ UNCHANGED <<res, pdb, svc, sts, runs, bnds>>

\* The answer to a status update is decoded into the run's copy, its entries
\* into the map that is there: what the API server has wins.
Decoded == IF OwnLabels /\ stored # Any THEN stored ELSE mem

\* updateMetadata writes the status when it is not yet what the spec asks for.
UpdateMetadata ==
    /\ pc = "metadata"
    /\ \/ Goto("status") /\ UNCHANGED mem
       \/ phase = "live" /\ memFresh /\ mem' = Decoded /\ Goto("status")
       \/ ~memFresh /\ Leave
    /\ UNCHANGED <<res, objs, runs, bnds>>

UpdateStatus ==
    /\ pc = "status"
    /\ IF memFresh
       THEN mem' = Decoded /\ Goto("finalizer")
       ELSE Leave
    /\ UNCHANGED <<res, objs, runs, bnds>>
-----------------------------------------------------------------------------
(* ReconcileFinalizer.  Each of its updates writes the labels back.         *)

WritesBack(f, s) ==
    /\ Leave
    /\ IF memFresh
       THEN stored' = mem /\ fin' = f /\ scale' = s
       ELSE UNCHANGED <<stored, fin, scale>>

ReconcileFinalizer ==
    /\ pc = "finalizer"
    /\ phase = "live"
    /\ IF fin THEN Leave /\ UNCHANGED <<stored, fin, scale>>
       ELSE WritesBack(TRUE, scale)
    /\ UNCHANGED <<phase, objs, runs, bnds>>

DownscaleToZero ==
    /\ pc = "finalizer"
    /\ phase = "deleting"
    /\ scale > 0
    /\ WritesBack(fin, 0)
    /\ UNCHANGED <<phase, objs, runs, bnds>>

\* The wait lists the pods by the labels of the cluster until there are none;
\* then the znodes and the finalizer go.
WaitClusterTermination ==
    /\ pc = "finalizer"
    /\ phase = "deleting"
    /\ scale = 0
    /\ Selected(GenerateLabels, pods) = {}
    /\ Leave
    /\ IF memFresh THEN phase' = "gone" ELSE UNCHANGED phase
    /\ UNCHANGED <<stored, fin, scale, objs, runs, bnds>>
-----------------------------------------------------------------------------
(* Failures, users and the controllers of Kubernetes.                       *)

AbortRun ==
    /\ pc # "idle"
    /\ faults < MaxFaults
    /\ faults' = faults + 1
    /\ Leave
    /\ UNCHANGED <<res, objs, runs, replaced, removed>>

\* A user replaces the resource by a manifest, which has no component.
ReplaceCluster ==
    /\ phase = "live"
    /\ replaced < MaxReplaced
    /\ replaced' = replaced + 1
    /\ stored' = Any
    /\ memFresh' = FALSE
    /\ UNCHANGED <<phase, fin, scale, mem, pc, objs, runs, faults, removed>>

DeleteCluster ==
    /\ phase = "live"
    /\ fin
    /\ phase' = "deleting"
    /\ memFresh' = FALSE
    /\ UNCHANGED <<stored, fin, scale, mem, pc, objs, runs, bnds>>

\* Somebody removes a Service, which the next run creates again.
RemoveService ==
    /\ removed < MaxRemoved
    /\ removed' = removed + 1
    /\ \E s \in DOMAIN svc :
        /\ svc[s] # "nothing"
        /\ svc' = [svc EXCEPT ![s] = "nothing"]
    /\ UNCHANGED <<res, copy, pc, pdb, sts, dep, runs, faults, replaced>>

\* A pod carries the component that its workload selects.
ScaleWorkload ==
    /\ \E w \in {sts, dep} :
        /\ w # Absent
        /\ pods' = IF w.replicas > 0 THEN pods \cup {w.sel} ELSE pods \ {w.sel}
        /\ claims' = IF w = sts THEN claims \cup (pods' \cap {w.sel}) ELSE claims
    /\ pods' # pods
    /\ UNCHANGED <<res, copy, pc, objs, bnds>>

Next ==
    \/ BeginRun
    \/ ReconcilePodDisruptionBudget
    \/ ReconcileHeadlessService
    \/ ReconcileClientService
    \/ CreateStatefulSet
    \/ KeepStatefulSet
    \/ UpdateStatefulSet
    \/ UpdateStatefulsetPVCs
    \/ ReconcileAutoRecovery
    \/ UpdateMetadata
    \/ UpdateStatus
    \/ ReconcileFinalizer
    \/ DownscaleToZero
    \/ WaitClusterTermination
    \/ AbortRun
    \/ ReplaceCluster
    \/ DeleteCluster
    \/ RemoveService
    \/ ScaleWorkload

Spec == Init /\ [][Next]_vars
-----------------------------------------------------------------------------
(* Properties.                                                              *)

\* The Services are for the clients of the bookies: whenever one is created, the
\* map that it takes for its selector still selects them, although the map may
\* have come back from the API server with the component that an earlier run
\* added for the autorecovery pods.
ServicesSelectBookies ==
    \A s \in DOMAIN svc :
        svc[s] # "nothing" => Bookie \in Selected(svc[s], Components)

\* Neither do they pass requests to pods that have no bookie.
ServicesSelectBookiesOnly ==
    \A s \in DOMAIN svc : Selected(svc[s], Components) \subseteq {Bookie}

\* "WaitClusterTermination wait for all the bookkeeper pods in cluster to
\* terminated": none is left when the finalizer goes.
AllPodsTerminated == phase = "gone" => pods = {}

\* "If it's set to Delete and the bookkeeper cluster is deleted, the
\* corresponding PVCs will be deleted".
ClaimsFound == phase = "gone" => claims = {}

\* They are found and deleted unless a run failed: one that fails between the
\* update of the StatefulSet and its claims leaves them behind.
ClaimsFoundUnlessFailed == faults = 0 => ClaimsFound
=============================================================================
