------------------------------- MODULE Rollout -------------------------------
(***************************************************************************)
(* What of a spec reaches the objects of a cluster, and what of them its   *)
(* bookies.  ClusterReconcile has the interleavings inside a run; here a   *)
(* run is one step, which may fail after any of its functions, and the     *)
(* objects carry more of the spec: its layout (the ports and directories,  *)
(* which the ConfigMap, the Services and the pod template all get), the    *)
(* specs of the claims, and what a pod took along when it started.         *)
(***************************************************************************)
EXTENDS Naturals, Sequences

CONSTANTS
    Specs,          \* the specs a cluster may be created with
    Edits,          \* the <<old, new>> changes of it a user may make
    MaxEdits,       \* bound: changes by users
    MaxFaults,      \* bound: runs that fail
    MaxRestarts     \* bound: bookies that crash

VARIABLES
    spec,       \* the spec of the resource
    meta,       \* what the status says was applied
    cm,         \* the ConfigMap
    svc,        \* the Services
    sts,        \* the StatefulSet
    dep,        \* the autorecovery Deployment
    bookies,    \* the bookie pods, by ordinal from 1 on
    queued,     \* a run is due
    edits, faults, restarts

objects == <<cm, svc, sts, dep>>
bounds  == <<edits, faults, restarts>>
vars    == <<spec, meta, objects, bookies, queued, bounds>>

NoObject == [exists |-> FALSE]
NoMeta == [size |-> 0, ver |-> "", cfg |-> ""]

Init ==
    /\ spec \in Specs
    /\ meta = NoMeta
    /\ cm = NoObject
    /\ svc = NoObject
    /\ sts = NoObject
    /\ dep = NoObject
    /\ bookies = <<>>
    /\ queued = TRUE
    /\ edits = 0
    /\ faults = 0
    /\ restarts = 0
-----------------------------------------------------------------------------
(* The objects as they are created for a spec.                             *)

CreateConfigMap(s) == [cfg |-> s.cfg, layout |-> s.layout]

CreateService(s) == [layout |-> s.layout]

\* The claim of the journal is given the spec of the ledgers' one.
CreatePersistentVolumeClaims(s) == [journal |-> s.ledger, ledger |-> s.ledger]

CreateStatefulSet(s) ==
    [size |-> s.size, image |-> s.ver, layout |-> s.layout,
     claims |-> CreatePersistentVolumeClaims(s)]

CreateAutoRecoveryDeployment(s) == [replicas |-> s.ar, image |-> s.ver]

(* The objects after the function that reconciles them.                    *)

ReconciledConfigMap_CreateOnly ==
    IF cm = NoObject THEN CreateConfigMap(spec) ELSE cm
ReconciledConfigMap ==
    IF cm = NoObject \/ spec.cfg # meta.cfg THEN CreateConfigMap(spec) ELSE cm

ReconciledService == IF svc = NoObject THEN CreateService(spec) ELSE svc

ShouldUpdateStatefulSet ==
    \/ spec.size # sts.size
    \/ spec.ver # meta.ver
    \/ spec.cfg # meta.cfg

UpdatedStatefulSet_Scaled == [sts EXCEPT !.size = spec.size]
UpdatedStatefulSet == [sts EXCEPT !.size = spec.size, !.image = spec.ver]

ReconciledStatefulSet ==
    IF sts = NoObject THEN CreateStatefulSet(spec)
    ELSE IF ShouldUpdateStatefulSet THEN UpdatedStatefulSet ELSE sts

ReconciledDeployment ==
    IF dep = NoObject THEN CreateAutoRecoveryDeployment(spec)
    ELSE [dep EXCEPT !.replicas = spec.ar]

RecordedMeta == [size |-> spec.size, ver |-> spec.ver, cfg |-> spec.cfg]

\* A run: the ConfigMap, the Services, the StatefulSet, the Deployment and the
\* status, in this order.  A run that fails is queued again, and so is one
\* that changed something, which the informers report.
Reconcile ==
    /\ queued
    /\ \E done \in 0..5 :
        /\ IF done = 5 THEN UNCHANGED faults
           ELSE faults < MaxFaults /\ faults' = faults + 1
        /\ cm'   = IF done >= 1 THEN ReconciledConfigMap ELSE cm
        /\ svc'  = IF done >= 2 THEN ReconciledService ELSE svc
        /\ sts'  = IF done >= 3 THEN ReconciledStatefulSet ELSE sts
        /\ dep'  = IF done >= 4 THEN ReconciledDeployment ELSE dep
        /\ meta' = IF done >= 5 THEN RecordedMeta ELSE meta
        /\ queued' = (done < 5 \/ <<meta, objects>>' # <<meta, objects>>)
    /\ UNCHANGED <<spec, bookies, edits, restarts>>

EditSpec ==
    /\ edits < MaxEdits
    /\ edits' = edits + 1
    /\ \E e \in Edits : e[1] = spec /\ spec' = e[2]
    /\ queued' = TRUE
    /\ UNCHANGED <<meta, objects, bookies, faults, restarts>>
-----------------------------------------------------------------------------
(* The StatefulSet controller and the bookies.  A container reads its       *)
(* environment from the ConfigMap when it starts and not again.            *)

StartedBookie == [image |-> sts.image, layout |-> sts.layout, env |-> cm]

IsCurrent(b) == b.image = sts.image /\ b.layout = sts.layout

BookiesBecome(new) ==
    /\ bookies' = new
    /\ queued' = TRUE
    /\ UNCHANGED <<spec, meta, objects, edits, faults>>

StartBookie ==
    /\ sts # NoObject /\ cm # NoObject
    /\ Len(bookies) < sts.size
    /\ BookiesBecome(Append(bookies, StartedBookie))
    /\ UNCHANGED restarts

StopBookie ==
    /\ sts # NoObject
    /\ Len(bookies) > sts.size
    /\ BookiesBecome(SubSeq(bookies, 1, Len(bookies) - 1))
    /\ UNCHANGED restarts

\* A rolling update replaces one bookie at a time, from the last one on.
RollBookie ==
    /\ \E i \in DOMAIN bookies :
        /\ ~IsCurrent(bookies[i])
        /\ \A j \in i+1 .. Len(bookies) : IsCurrent(bookies[j])
        /\ BookiesBecome([bookies EXCEPT ![i] = StartedBookie])
    /\ UNCHANGED restarts

\* A container that crashes is started again in the same pod.
RestartBookie ==
    /\ restarts < MaxRestarts
    /\ restarts' = restarts + 1
    /\ \E i \in DOMAIN bookies :
        BookiesBecome([bookies EXCEPT ![i].env = cm])
-----------------------------------------------------------------------------
Next ==
    \/ Reconcile
    \/ EditSpec
    \/ StartBookie
    \/ StopBookie
    \/ RollBookie
    \/ RestartBookie

Spec == Init /\ [][Next]_vars

\* The operator works and the StatefulSet controller keeps up.
Fairness ==
    /\ WF_vars(Reconcile)
    /\ WF_vars(StartBookie)
    /\ WF_vars(StopBookie)
    /\ WF_vars(RollBookie)

FairSpec == Spec /\ Fairness
-----------------------------------------------------------------------------
(* Properties.                                                              *)

Settled == ~queued

\* The StatefulSet controller has nothing left to do either.
RolledOut ==
    /\ Settled
    /\ Len(bookies) = sts.size
    /\ \A i \in DOMAIN bookies : IsCurrent(bookies[i])

\* Updates bring the objects to where creating them afresh would: for edits of
\* the size, the version, the configuration and the daemons, that do not go
\* back, and whatever run failed between two objects, a settled cluster is the
\* one its spec alone determines.
UpdatedAsCreated ==
    Settled =>
        /\ cm = CreateConfigMap(spec)
        /\ svc = CreateService(spec)
        /\ sts = CreateStatefulSet(spec)
        /\ dep.replicas = spec.ar

\* The bookies end up as many as the spec asks for and of its version, crashes,
\* failed runs and edits on the way notwithstanding.
BookiesRollOut ==
    <>[](/\ Len(bookies) = spec.size
         /\ \A i \in DOMAIN bookies : bookies[i].image = spec.ver)

\* "BookkeeperClusterSpec defines the desired state": a bookie listens and
\* stores where its pod's probes, ports and mounts expect it to, by some spec.
LayoutsAgree ==
    \A i \in DOMAIN bookies : bookies[i].env.layout = bookies[i].layout

\* "BkConfig defines the Bookkeeper configurations to override": once all is
\* rolled out, the bookies run with them.
ConfigReachesBookies ==
    RolledOut => \A i \in DOMAIN bookies : bookies[i].env.cfg = spec.cfg

\* "EnableAutoRecovery indicates whether BookKeeper auto recovery is enabled".
DisabledRecoveryIsOff ==
    Settled /\ ~spec.enable => dep = NoObject \/ dep.replicas = 0

\* "JournalVolumeClaimSpec describes the PVC for the bookkeeper journal".
JournalClaimAsAsked == Settled => sts.claims.journal = spec.journal
=============================================================================
