-------------------------------- MODULE Fleet --------------------------------
(***************************************************************************)
(* Several clusters and the one operator that looks after them.  They share*)
(* its only worker, which a deletion keeps waiting for the pods of its     *)
(* cluster, the ZooKeeper tree, where a cluster is known by its name       *)
(* without its namespace, and the names of Services.                       *)
(*                                                                         *)
(* What a run does to its own cluster is in ClusterReconcile; here the     *)
(* functions before the finalizer are one step, on the newest version.     *)
(***************************************************************************)
EXTENDS Naturals, SequencesExt

CONSTANTS
    Keys,           \* [ns, name] of every resource; a name is its parts
    MaxEdits,       \* bound: changes of a spec
    MaxFaults,      \* bound: runs that fail
    MaxCrashes      \* bound: times the operator goes down

VARIABLES
    phase,      \* of each resource: none, live, deleting, gone
    want,       \* what its spec asks for; 0 is no replicas
    have,       \* what its workloads were told
    fin,        \* the resources with the finalizer
    told,       \* those whose status records that ZooKeeper was told
    pods,       \* those that have pods
    zk,         \* the roots that exist in ZooKeeper
    svc,        \* the Services, by namespace and name
    queue,      \* the keys a run is due for
    worker,     \* the key at work and where, or Idle
    up,         \* the operator is up
    edits, faults, crashes

res  == <<phase, want, fin, told>>
work == <<queue, worker, up>>
bnds == <<edits, faults, crashes>>
vars == <<res, have, pods, zk, svc, work, bnds>>

Idle == [at |-> "idle"]

Init ==
    /\ phase = [k \in Keys |-> "none"]
    /\ want = [k \in Keys |-> 0]
    /\ have = [k \in Keys |-> 0]
    /\ fin = {}
    /\ told = {}
    /\ pods = {}
    /\ zk = {}
    /\ svc = [n \in {} |-> Idle]
    /\ queue = <<>>
    /\ worker = Idle
    /\ up = TRUE
    /\ edits = 0
    /\ faults = 0
    /\ crashes = 0
-----------------------------------------------------------------------------
(* Names.                                                                   *)

ZkRootPath(k) == <<"bookkeeper", k.name>>

ClientServiceName(k) == [ns |-> k.ns, name |-> k.name]
HeadlessServiceName_Plain(k) == [ns |-> k.ns, name |-> k.name]
HeadlessServiceName(k) == [ns |-> k.ns, name |-> k.name \o <<"headless">>]

\* The pods that carry the labels of a cluster, in its namespace.
PodsOf_AnyInstance(k) == {j \in pods : j.ns = k.ns}
PodsOf(k) == {j \in pods : j.ns = k.ns /\ j.name = k.name}
-----------------------------------------------------------------------------
(* Users.                                                                   *)

Enqueued(k) ==
    queue' = IF ~up \/ k \in ToSet(queue) THEN queue ELSE Append(queue, k)

CreateCluster(k) ==
    /\ phase[k] = "none"
    /\ phase' = [phase EXCEPT ![k] = "live"]
    /\ want' = [want EXCEPT ![k] = 1]
    /\ Enqueued(k)
    /\ UNCHANGED <<have, fin, told, pods, zk, svc, worker, up, bnds>>

EditCluster(k) ==
    /\ phase[k] = "live"
    /\ edits < MaxEdits
    /\ edits' = edits + 1
    /\ want' = [want EXCEPT ![k] = 3 - @]
    /\ Enqueued(k)
    /\ UNCHANGED <<phase, have, fin, told, pods, zk, svc, worker, up, faults, crashes>>

DeleteCluster(k) ==
    /\ phase[k] = "live"
    /\ phase' = [phase EXCEPT ![k] = IF k \in fin THEN "deleting" ELSE "gone"]
    /\ Enqueued(k)
    /\ UNCHANGED <<want, have, fin, told, pods, zk, svc, worker, up, bnds>>
-----------------------------------------------------------------------------
(* The operator.                                                            *)

BeginRun ==
    /\ up
    /\ worker = Idle
    /\ queue # <<>>
    /\ queue' = Tail(queue)
    /\ worker' = IF phase[Head(queue)] = "gone" THEN Idle
                 ELSE [at |-> "run", key |-> Head(queue)]
    /\ UNCHANGED <<res, have, pods, zk, svc, up, bnds>>

AtWork(k, at) == worker = [at |-> at, key |-> k]

\* A Service that is found is left as it is.
ReconcileServices(k) ==
    svc' = [n \in DOMAIN svc \cup {HeadlessServiceName(k), ClientServiceName(k)} |->
              IF n \in DOMAIN svc THEN svc[n]
              ELSE [owner |-> k, headless |-> n = HeadlessServiceName(k)]]

\* The workloads, ZooKeeper and the status get what the spec asks for.
ReconcileWorkloads(k) ==
    /\ have' = [have EXCEPT ![k] = want[k]]
    /\ IF phase[k] = "live"
       THEN zk' = zk \cup {ZkRootPath(k)} /\ told' = told \cup {k}
       ELSE UNCHANGED <<zk, told>>

Reconcile(k) ==
    /\ AtWork(k, "run")
    /\ ReconcileServices(k)
    /\ ReconcileWorkloads(k)
    /\ worker' = [at |-> "finalizer", key |-> k]
    /\ UNCHANGED <<phase, want, fin, pods, queue, up, bnds>>

AddFinalizer(k) ==
    /\ AtWork(k, "finalizer")
    /\ phase[k] = "live"
    /\ fin' = fin \cup {k}
    /\ worker' = Idle
    /\ UNCHANGED <<phase, want, told, have, pods, zk, svc, queue, up, bnds>>

\* The changed resource is queued again.
DownscaleToZero(k) ==
    /\ AtWork(k, "finalizer")
    /\ phase[k] = "deleting"
    /\ want[k] > 0
    /\ want' = [want EXCEPT ![k] = 0]
    /\ worker' = Idle
    /\ Enqueued(k)
    /\ UNCHANGED <<phase, fin, told, have, pods, zk, svc, up, bnds>>

\* The worker waits until there are no pods; then the root and the finalizer go.
WaitClusterTermination(k) ==
    /\ AtWork(k, "finalizer")
    /\ phase[k] = "deleting"
    /\ want[k] = 0
    /\ PodsOf(k) = {}
    /\ zk' = zk \ {ZkRootPath(k)}
    /\ phase' = [phase EXCEPT ![k] = "gone"]
    /\ fin' = fin \ {k}
    /\ worker' = Idle
    /\ UNCHANGED <<want, told, have, pods, svc, queue, up, bnds>>

\* A resource may go while a run works on it, which then finds that out.
Disappeared(k) ==
    /\ AtWork(k, "finalizer")
    /\ phase[k] = "gone"
    /\ worker' = Idle
    /\ UNCHANGED <<res, have, pods, zk, svc, queue, up, bnds>>

AbortRun(k) ==
    /\ worker # Idle /\ worker.key = k
    /\ faults < MaxFaults
    /\ faults' = faults + 1
    /\ worker' = Idle
    /\ Enqueued(k)
    /\ UNCHANGED <<res, have, pods, zk, svc, up, edits, crashes>>

\* The queue is in memory; it is filled again with every resource there is.
CrashOperator ==
    /\ up
    /\ crashes < MaxCrashes
    /\ crashes' = crashes + 1
    /\ up' = FALSE
    /\ queue' = <<>>
    /\ worker' = Idle
    /\ UNCHANGED <<res, have, pods, zk, svc, edits, faults>>

StartOperator ==
    /\ ~up
    /\ up' = TRUE
    /\ queue' \in SetToSeqs({k \in Keys : phase[k] \in {"live", "deleting"}})
    /\ UNCHANGED <<res, have, pods, zk, svc, worker, bnds>>
-----------------------------------------------------------------------------
(* Kubernetes.                                                              *)

ScalePods(k) ==
    /\ (k \in pods) # (have[k] > 0)
    /\ pods' = IF have[k] > 0 THEN pods \cup {k} ELSE pods \ {k}
    /\ UNCHANGED <<res, have, zk, svc, work, bnds>>

Owned(k) == {n \in DOMAIN svc : svc[n].owner = k}

GarbageCollect(k) ==
    /\ phase[k] = "gone"
    /\ have[k] > 0 \/ Owned(k) # {}
    /\ have' = [have EXCEPT ![k] = 0]
    /\ svc' = Restrict(svc, DOMAIN svc \ Owned(k))
    /\ UNCHANGED <<res, pods, zk, work, bnds>>

RunStep(k) ==
    \/ Reconcile(k)
    \/ AddFinalizer(k)
    \/ DownscaleToZero(k)
    \/ WaitClusterTermination(k)
    \/ Disappeared(k)

UserStep(k) == CreateCluster(k) \/ EditCluster(k) \/ DeleteCluster(k)

Next ==
    \/ BeginRun
    \/ CrashOperator
    \/ StartOperator
    \/ \E k \in Keys : \/ RunStep(k)
                       \/ UserStep(k)
                       \/ AbortRun(k)
                       \/ ScalePods(k)
                       \/ GarbageCollect(k)

Spec == Init /\ [][Next]_vars

\* The worker works, an operator that went down is started again, and pods
\* start and terminate.
Fairness ==
    /\ WF_vars(BeginRun \/ \E k \in Keys : RunStep(k))
    /\ WF_vars(StartOperator)
    /\ \A k \in Keys : WF_vars(ScalePods(k)) /\ WF_vars(GarbageCollect(k))

FairSpec == Spec /\ Fairness
-----------------------------------------------------------------------------
(* Properties.                                                              *)

\* "ZkRootPath the zk root of this bookkeeper cluster": what was written there
\* for a cluster is there as long as the cluster is not deleted.
MetadataKept ==
    \A k \in told : phase[k] = "live" => ZkRootPath(k) \in zk

\* Once a run is through with a cluster both of its Services are there and its
\* own, whatever runs of the others make and the garbage collector takes away.
ServicesAreOwn ==
    \A k \in fin :
        /\ HeadlessServiceName(k) \in DOMAIN svc
        /\ svc[HeadlessServiceName(k)] = [owner |-> k, headless |-> TRUE]
        /\ ClientServiceName(k) \in DOMAIN svc
        /\ svc[ClientServiceName(k)] = [owner |-> k, headless |-> FALSE]

Served(k) == phase[k] = "live" => have[k] = want[k]

\* No cluster is held up for ever by another one whose deletion has the worker
\* wait, nor by failures and restarts: changes get applied, deletions end.
EveryClusterServed ==
    \A k \in Keys :
        /\ ~Served(k) ~> Served(k)
        /\ phase[k] = "deleting" ~> phase[k] = "gone"
=============================================================================
