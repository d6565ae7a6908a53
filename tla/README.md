# A verification of the bookkeeper operator

The operator keeps a BookKeeper cluster in Kubernetes in the shape that a
`BookkeeperCluster` resource asks for.  This directory has TLA+ modules that
model its reconcile loop, configurations that check them with TLC, and proofs
checked by TLAPS.  Paths below are relative to the repository (`src/`); those
without a directory are under `internal/controller/bookkeepercluster/`.

## 1. The system

### Components

| Component | Code | State it keeps | Operations |
| --- | --- | --- | --- |
| Reconcile loop | `internal/controller/bookkeepercluster_controller.go` | none of its own: the copy of the resource that one run works on | `Reconcile` calls the seven `reconcileFuncs` in order and stops at the first error |
| Finalizer and deletion | `finalizers.go` | the finalizer on the resource | add it; scale to zero; wait for the pods; delete the znodes; remove it |
| StatefulSet and claims | `statefulset.go` | the StatefulSet, the PersistentVolumeClaims of its pods | create, update, delete idle claims |
| ConfigMap | `configmap.go`, `utils.go` | the ConfigMap | create, update, render `spec.bkConfig` over the operator's own entries |
| Budget and Services | `pdb.go`, `service.go` | a PodDisruptionBudget, two Services | create all; update the budget |
| Autorecovery | `autorecovery.go` | a Deployment | create; update the replica count |
| Cluster status | `clusterstatus.go`, `api/v1alpha1/bookkeepercluster_status.go` | `status.metadata` (what was applied last), ready replicas, members, conditions | `updateMetadata`, `updateStatus` |
| ZooKeeper client | `internal/zk/zk.go` | the znodes `size` and `updatedat` below the cluster's root | `UpdateMetadata`, `DeleteMetadata` |
| Defaults and webhook | `api/v1alpha1/bookkeepercluster_spec.go`, `..._webhook.go` | the spec | `setDefaults`, validation |
| Labels and names | `api/v1alpha1/bookkeepercluster_types.go`, `..._spec.go` | `spec.labels` | `GenerateLabels`, `GenerateWorkloadLabels` |
| Bookie image | `deployments/docker/bookkeeper/scripts/` | none | starts a bookie of the upstream image |
| Manager | `main.go`, `internal/internal.go` | none | start-up |
| Deployment | `deployments/`, `config/` | none | manifests and images |

The operator talks to three parties.  The **API server** holds the resource and
everything it owns; it rejects an update that carries an old resource version,
and removes a resource that is being deleted when its last finalizer goes.
**Informers** copy objects into a cache that the operator reads, and put the
resource's key on a work queue whenever something they watch changes.
**ZooKeeper** holds the cluster's znodes, which the operator and the bookies
both write.  The controllers of Kubernetes start and stop pods, create claims
and collect the objects of a resource that is gone.  No component of the
operator calls another except in the order of `reconcileFuncs`; they are tied
together by what an earlier function, or an earlier run, left behind.

### What is hard

* A run reads a cached copy and makes a dozen calls; users, informers,
  Kubernetes and ZooKeeper act between any two of them.
* Any call may fail and the operator may stop, and the next run starts from the
  top.  What an unfinished run did is not written down anywhere, so each
  function must find out by itself what is left to do.
* Two functions decide by `status.metadata` instead of by the object they
  manage (`statefulset.go:82-90`, `configmap.go:66`).  The status and the
  objects are written by different calls.
* Deletion takes several runs (scale down, wait, clean up), during which the
  user may still edit the spec and the caches may be old.
* `mapEqual` and the rendering of the ConfigMap have corner cases (blank
  values, both `x` and `BK_x`), the second one in random order.
* The ZooKeeper client reads before it writes, takes some error codes for
  success, and loses its connection; bookies write the same tree, and their
  registrations expire on their own.
* The ConfigMap and the pod template get the same ports and directories, but
  are updated on different conditions, and a bookie reads the ConfigMap only
  when it starts.
* Labels are made from a map that belongs to the spec, and everything that is
  found by labels (pods, claims) depends on who added to it before.
* No run is started by a pod: the counts of ready pods come by way of the
  workloads' status, and the pods themselves by another watch.
* Several clusters share the only worker, which a deletion has wait, the
  ZooKeeper tree and the names of Services.

The list of hazards in `PROJECT.json` has the lines.

### What makes each component correct

* **Loop**: once nothing is queued, everything managed is what the spec asks
  for, whatever failed on the way.
* **Finalizer**: pods and znodes are gone before the finalizer is, and do not
  come back; a deletion completes.
* **StatefulSet and claims**: no claim of a bookie that the StatefulSet asks for
  is deleted, nor, while the cluster lives, one of a bookie that no user asked to
  do without; the claims of a deleted cluster are, under the policy `Delete`.
* **ConfigMap**: it is a rendering of the current `bkConfig`.
* **Status**: it records only what was applied, and only a size that ZooKeeper
  was told.
* **ZooKeeper client**: a call that returns nil has done all it was called for,
  one that does not has done nothing else; a deletion ends.
* **Rollout**: updating the objects ends where creating them afresh would.
* **Defaults**: what is stored is complete, follows the manifest, and lets the
  operator's own zeros pass.
* **Labels**: Services select the bookies; the wait for the pods and the search
  for claims find all of them.
* **Status**: once settled it is true, and it becomes true.
* **Several clusters**: each is served in the end, and has Services and
  metadata of its own.

## 2. Modules

| Module | Contents |
| --- | --- |
| `ConfigData` | the string maps: `mapEqual` and `createConfigmapData` as operators |
| `ClusterReconcile` | the loop with the components it calls, and its surroundings, call by call |
| `ZkMetadata` | what the loop relies on when it calls the ZooKeeper client |
| `ClusterRefinement` | `ClusterReconcile` as a user of `ZkMetadata` |
| `ZkClient` | the ZooKeeper client, request by request; implements `ZkMetadata` |
| `Rollout` | how much of a spec reaches the objects, and the bookies that run |
| `ClusterLabels` | the label map that the calls of a run share, and what is found by it |
| `SpecDefaults` | `setDefaults`, the webhook, and the specs that users and the operator write |
| `ClusterStatus` | the counts, the members and the Ready condition; runs that cause runs |
| `Fleet` | several clusters, one worker, one ZooKeeper, a restart of the operator |
| `MC...` | the instances for TLC of the module named |
| `ClusterReconcileProofs` | the invariant of the loop, claims, deletion, and the use of `ZkMetadata` |
| `ClusterRecordProofs` | what the status records and what a settled operator has applied |
| `ZkClientProofs`, `RolloutProofs`, `ClusterLabelsProofs`, `SpecDefaultsProofs`, `ClusterStatusProofs`, `FleetProofs` | proofs about the module named |

`ZkMetadata` joins two models: `ClusterReconcile` is shown to ask for no more
than it allows, and `ZkClient` to do no less.

### `ClusterReconcile` and the code

A run is a sequence of steps `pc`, one per call to the API server or to
ZooKeeper.  `Proceed` goes on to the next call, `EndRun` ends a run well,
`Fail` ends it with an error and requeues the key.

| Actions | Code |
| --- | --- |
| `BeginRun` | the queue hands the key out; `r.Run` reads the resource from the cache |
| `ReconcilePodDisruptionBudget` | `pdb.go`; an existing budget is always written, as the label `shouldUpdatePDB` looks at is never set |
| `ReconcileConfigMap` | `configmap.go`, `ShouldUpdateConfigmap`, `Renderings` |
| `ReconcileServices` | `service.go`, the headless one first |
| `CreateStatefulSet`, `UpdateStatefulSet`, `KeepStatefulSet` | `ReconcileStatefulSet`; create and update fail when the cached StatefulSet is not the real one |
| `UpdateStatefulsetPVCs` | `updateStatefulsetPVCs`, one claim per step |
| `ReconcileAutoRecovery` | `autorecovery.go`; a write fails when the cached Deployment is not the real one |
| `UpdateMetadata`, `UpdateClusterSizeMeta`, `RecordMetadata` | `updateMetadata` and `zk.UpdateMetadata`: size node, time node, status |
| `UpdateStatus` | `updateStatus` |
| `AddFinalizer`, `KeepFinalizer`, `DownscaleToZero`, `StartCleanUp`, `WaitClusterTermination`, `WaitError`, `DeleteMetadata`, `RemoveFinalizer` | the branches of `ReconcileFinalizer` and `cleanUpMetadata` |
| `AbortRun` | a call fails, before or after it took effect, or the operator stops |
| `EditSpec`, `DeleteCluster` | users |
| `SyncCluster`, `SyncStatefulSet`, `SyncDeployment` | informers |
| `StartBookie`, `StopBookie`, `ScaleAutoRecovery`, `BookieWritesLedgers`, `GarbageCollect` | Kubernetes and the bookies |

Resource versions are two flags.  `cacheFresh` says that the informer's copy is
the newest version, `memFresh` that the copy of the run is; an update is
accepted only if `memFresh`.  That is all the API server's optimistic locking
amounts to, and it keeps the state finite.  An update that changes nothing
makes no new version.

The phases `deleted` and `finalized` both mean that the resource is gone; they
tell a deletion the operator never saw from one that it completed.

### `ZkMetadata` and `ClusterRefinement`

`ZkMetadata` has the nodes, the size and the call in progress.  A call may do
its work in any number of parts and stop anywhere (`Work`); it is `Done` only in
the state in which all it was called for is true (`Return`).  `Others` are the
bookies, `Overdue` what a broken connection still had under way.  `ZkCall` maps
the step a run is in to the call.

### `ZkClient` (`internal/zk/zk.go`)

`todo` is the list of requests the call in progress still has to send, and
`FollowUps` says what the answer to one puts in its place: `setNodeData` becomes
a read and then a set with the version read, or the creates of `createNode`;
`deleteNode` a read, a delete with the version read, and after "not empty" a
listing of the children, their deletion and the node once more.  `Accepted` and
`After` are the server.  A connection may break at any request, which then has
been done, is never done, or (its kind being in `Late`) is done later
(`LateRequest`).  A deletion may begin while bookies still run, since the wait
for them may have given up.  `registered` stands for the ephemeral nodes of
bookies.

### `Rollout`

A run is one action, which performs the first `done` of the five functions that
write objects; `ReconciledX` is object X after its function.  The objects carry
their layout (ports and directories) and the specs of the claims; a pod carries
the template it was made from and the ConfigMap it read when it started.
`StartBookie`, `StopBookie`, `RollBookie` are the StatefulSet controller, and
`RestartBookie` the kubelet, which restarts a container in the same pod.

### `ClusterLabels`

Of a label map only the entry `component` matters, so a map is that entry.
`GenerateWorkloadLabels` writes it into the run's copy when `spec.labels` is
set; `WritesBack` are the updates of `ReconcileFinalizer`, which store it;
`Decoded` is the answer to a status update, which brings the stored one back.
A Service gets as its selector whatever the map holds when it is made
(`ReconcileHeadlessService`, `ReconcileClientService`); `CreateStatefulSet` and
`ReconcileAutoRecovery` set their own component first, and
`WaitClusterTermination` and `FoundClaims` look for pods and claims by the map
and by the pod template.  The update of the StatefulSet (`UpdateStatefulSet`,
`statefulset.go:53`) and the deletion of its idle claims
(`UpdateStatefulsetPVCs`, `statefulset.go:56`) are two steps, and a run may fail
between them.  `RemoveService` is somebody who deletes a Service, which the next
run makes again from a map that came back with another component.

### `SpecDefaults`

A spec is a function on the fields it has; a field has its zero value, its
default, or another one.  `Missing` tells fields whose zero counts as missing
(numbers and strings) from pointers, slices and maps, for which it does not.
`Admitted` is the mutating webhook; when the operator is down nothing gets
written.  `ApplyManifest` is `kubectl apply` (three-way merge) or `replace`.
The run is reduced to what it does with the spec and the claims.

### `ClusterStatus`

Pods change (`PodProgresses`, `PodFlips`), the operator's pod cache follows
(`SyncPods`), the workloads' controllers count (`ReportCounts`), and that is
what queues a run.  `BeginRun`, `UpdateMetadata`, `ListPods`, `UpdateStatus` are
the run as far as the status is concerned; a status written with a difference
queues a run.  The pods are listed in any order (`Listings`): they come from a
cache made of Go maps, and nothing sorts them.  `SetCondition` is `setCondition`
with its clock (`Ticks`).  The two watches are independent: a report may come
before the pods it counts (`behind`), start a run, and let that run get as far
as the list.  With `PodLag` FALSE the run lists only when those pods have come;
with TRUE it may list without them.

### `Fleet`

The functions before the finalizer are one step here, `Reconcile`; the run
before it (`BeginRun`) and the branches of `ReconcileFinalizer` after it are
others.  A key is a namespace and a name, a name is a sequence of its parts, so
that `<<"a">>` with `headless` appended is the name `<<"a", "headless">>`.
`CrashOperator` loses the queue, and `StartOperator` fills it with every
resource there is, in any order.

### Assumptions

* One worker and one leader: controller-runtime's default of one concurrent
  reconcile, and leader election, which the manifests turn on
  (`config/manager/manager.yaml:72`).  So there is at most one run.
* In `ClusterReconcile` the StatefulSet and the Deployment are read from
  informers (`stsCache`, `depCache`), which may lag if `WorkloadLag` is TRUE: a
  run then takes one that was made for missing, or has an old replica count.
  With FALSE a run starts only when both have caught up, and may be overtaken
  during the run only by the garbage collector, as nobody else changes their
  specs.  `CleanGoodbye`, `ReclaimedUnlessFailed` and the liveness properties
  are checked with FALSE, and section 6 says what TRUE does to them.
* The lists of pods (`bookkeepercluster_types.go:133`) and of claims
  (`statefulset.go:125`) are taken to be current when they are read, although
  they come from caches too.  A wait for the pods whose cache has not seen a pod
  yet would be over too early; nothing in the code corrects that, so this is an
  assumption of every statement about a deletion.
* Services, budget and ConfigMap are read as they are: the first two decide
  nothing, and the ConfigMap by its existence only; a lag of theirs leads to a
  failed create and another run.
* Except in `ClusterStatus`, all pods that exist are ready, and a pod that
  terminates is gone at once.  The StatefulSet controller works from the
  StatefulSet's current spec.
* A bookie's claims (index, ledgers, journal) are one claim, except in
  `Rollout`; claims are removed as soon as they are deleted.
* A resource has no finalizer but the operator's, and is not created again
  under the same name.
* `ClusterStatus` is about a resource in the namespace of its name, since
  elsewhere `clusterstatus.go:37` finds no pod (`MCReady.cfg`, section 6).
* Controllers of workloads, in `ClusterStatus`, report the pods they started or
  stopped before they go on (`Reported`); they report how many, not which.
* The libraries (`operator-helper`, controller-runtime, the ZooKeeper client)
  are modelled from how the operator uses them.  `r.Run` reads the resource,
  calls the function when it is there, and returns its error, which requeues
  the key.  controller-runtime's resync, every ten hours by default, is left
  out: it repairs in the end what a missed event left, and no property should
  need it.
* Constants have the named assumptions of their modules (`ConstantsAssumption`
  of `ClusterReconcile` and `ClusterStatus`, `ManifestsAssumption`,
  `SizesAssumption`), which TLC evaluates on every run: bounds and sizes are
  numbers, flags are Booleans, users' values are of the types they have.
  Modules without any need none.
* `DeleteStorage` is the reclaim policy and does not change within
  `ClusterReconcile`.  `NameIsNamespace` says whether the resource has the name
  of its namespace.

## 3. Runs

`tlc -config X.cfg M` in this directory; `PROJECT.json` pairs configurations
with modules and mutants.

| Run | Configuration | Question | Answer |
| --- | --- | --- | --- |
| `forward` | `MCForward` | Two edits that never go back, a scale-down from two bookies to one among them, one failure, lagging informers of the workloads, deletion at any time: is what is settled what was asked for, is what is recorded what was applied, and do only claims go that nobody asks for? | holds, 3.5 million states |
| `deletion` | `MCDeletion` | Scaling before and during a deletion, with one failure: is nothing left, does nothing come back, are the claims gone when nothing failed, and does the loop keep to `ZkMetadata`? | holds, 2.4 million states |
| `live` | `MCLive` | The size of one cluster, or the daemons of another, taken away and asked for again at any moment, also during a deletion, with one failure: do the pods converge, does a deletion complete? | holds under `Fairness`, 0.7 million states |
| `rollout` | `MCRollout` | Three edits, two failed runs, one crash of a bookie: are objects updated to what they would be created as, and do the bookies follow? | holds, 1800 states |
| `zk_client` | `MCZkClient` | Three updates, a deletion, two broken connections, late requests other than creates: is `ZkMetadata` implemented, does a deletion succeed, does a finished update stay? | holds, 0.3 million states |
| `labels` | `MCLabelsOwn` | With labels in the spec, two replacements, a removed Service and a failure: does every Service select the bookies, and are the claims gone unless a run failed? | holds, 15 thousand states |
| `defaults` | `MCDefaults` | Five manifests, two of them applied to a resource, a restart: is the stored spec complete and determined by the last manifest, does a deletion get through the webhook? | holds, 390 states |
| `status` | `MCStatus` | An edit, a failed run, a pod that ceases to be ready, any order of listing, either watch ahead: are the settled counts and the condition true, and do the counts become true? | holds, 0.7 million states |
| `fleet` | `MCFleet` | Two clusters in a namespace, an edit, a failure and a restart: does each get served, with Services of its own? | holds, 54 thousand states |
| `version_taken_back` | `MCVersion` | Do the settled bookies run the version of the spec when it is taken back? | no |
| `claims_after_failure` | `MCClaimsFault` | Are the claims gone with the finalizer when a run failed? | no |
| `labels_wait` | `MCLabelsWait` | With labels in the spec, have all pods terminated when the finalizer goes? | no |

The other configurations are told in section 6.

### Bounds, and why they are enough

* **One resource, sizes 0 to 2** in `ClusterReconcile`.  Nothing compares more
  than a size with a recorded size or an ordinal with a size.  `ForwardEdits`
  scale from two bookies to one under the policy `Delete`, so that there is a
  claim to keep and one on the boundary to delete; the deletion takes the rest.
* **`MaxEdits` 2.**  The failures of a loop that compares with a record need a
  value, a change of it, and a change back or another one.  `Rollout` has three,
  to reach a scale-down after a change of everything.
* **`MaxFaults` 1.**  A failure ends the run, and the next one begins without
  any memory of it, so what one failure leaves is where a second one starts;
  the theorems cover any number.  `Rollout` and `ZkClient` have two.
* **Versions** `v1`, `v2`.  **Configurations**: none; one entry; another value
  together with a reserved name; the same name with and without its prefix (two
  renderings); a blank value; another name.
* `ForwardEdits` never bring a version or a configuration back to a value it had
  before.  `SettledApplied` and `RecordIsApplied` need that: the run
  `version_taken_back` shows what happens otherwise, and `live` that sizes and
  daemons are not affected, since they are compared with the StatefulSet and the
  Deployment themselves. The edits of `Rollout` do not go back either.  The
  instance meets the hypotheses of the theorems on both (section 5).
* `deletion` and `live` have `WorkloadLag` FALSE; see section 6.  In `live` one
  initial state has a cluster whose size wavers and another one a cluster whose
  daemons do; what depends on both (`NeedsDownscale`, the wait for the pods)
  meets both at once in `deletion`.
* `ZkClient`: `MaxUpdates` 3 is an update that creates the nodes, one whose set
  is late and one that it must not undo.  Two sizes, one registered bookie and
  one znode of ledgers, which has the deletion start over and descend two
  levels.
* `ClusterLabels`: replicas are 0 or 1; components matter, not numbers.  A
  Service is removed once, when the map may have any of its values.
* `SpecDefaults`: the manifests set a part of every struct, zeros of each kind
  of field, and a misspelt policy; a value is zero, default or the user's.
* `ClusterStatus`: one bookie and one autorecovery pod, which are counted
  together and listed in two orders; two clock readings, of which an unchanged
  condition must use none.
* `Fleet`: two clusters; one waits and the other wants to be served.

`MCForward`, `MCDeletion` and `MCLive` check for deadlock: bookies keep writing,
or an edit, a deletion or the garbage collector is always possible.  The
instances of the other modules come to rest: their users, failures and pods are
bounded, the operator has nothing to do once it has settled, and a resource that
is gone stays gone.  They say `CHECK_DEADLOCK FALSE`, and that they do not rest
too early is what their liveness properties and the settled invariants are for.

### Fairness

Users, failures, crashes, the wait that gives up and bookies owe nothing in any
module.  Everything else is weakly fair:

* `ClusterReconcile`: `OperatorStep` (the one worker always makes its next
  call: calls have timeouts, and failing is not part of `OperatorStep`), the
  informers, the StatefulSet and Deployment controllers and the garbage
  collector, which all run for ever in a healthy Kubernetes.  `DeletionCompletes`
  needs no assumption that bookies stop writing: the wait before the clean-up
  sees to that, and a mutant that lets the deletion stumble over the bookies'
  znodes breaks it.
* `Rollout`: a queued run (the queue retries a failed one), the StatefulSet
  controller.
* `ZkClient`: the client gets an answer to its request, unless the connection
  breaks, and a deletion that failed is tried again, because its run is requeued.
* `SpecDefaults`: the operator works, and is restarted by its Deployment.
* `ClusterStatus`: the worker, the pod informer, the kubelet and the workloads'
  controllers.
* `Fleet`: the worker takes its next step, whichever key it is for; the operator
  is restarted; each cluster's pods and garbage are seen to.  That a given key
  gets its turn is not assumed: it follows from the queue.

## 4. Properties

Each is stated in words above its definition.

| Module | Safety | Of steps | Liveness | Refinement |
| --- | --- | --- | --- | --- |
| `ClusterReconcile` | `SettledApplied`, `CleanGoodbye`, `ReclaimedUnlessFailed` | `RecordedSizeIsInZk`, `RecordIsApplied`, `ClaimsKeptForAskedBookies` | `DeletionCompletes`, `ReplicasConverge` | `UsesMetadata` |
| `ZkClient` | | `FinishedUpdateStays` | `DeletionSucceeds` | `ImplementsMetadata` |
| `Rollout` | `UpdatedAsCreated` | | `BookiesRollOut` | |
| `ClusterLabels` | `ServicesSelectBookies`, `ClaimsFoundUnlessFailed` | | | |
| `SpecDefaults` | `SpecFollowsManifest` | | `DeletionGetsThrough` | |
| `ClusterStatus` | `CountsAreTrue` | | `CountsConverge` | |
| `Fleet` | `ServicesAreOwn` | | `EveryClusterServed` | |

The mutants in `PROJECT.json` are small changes of the model, such as a clause
of a decision forgotten, a bound off by one, or an error code not passed over,
that break the property they are listed with.

## 5. Proofs

`tlapm M.tla` for each of the eight proof modules.  All theorems hold for any
number of edits, failures, crashes and restarts, for any values of the other
constants that the modules' named assumptions allow, and under the hypothesis
that stands before `=>`.

| Theorem | Says |
| --- | --- |
| `TypeCorrect` | `Spec => []TypeOK` |
| `RecordedSizeTold` | `Spec => RecordedSizeIsInZk` |
| `ClaimsKept` | `Spec => ClaimsKeptForAskedBookies` |
| `GoodbyeIsClean` | `~WorkloadLag => (Spec => []CleanGoodbye)` |
| `ClaimsAreReclaimed` | `~WorkloadLag => (Spec => []ReclaimedUnlessFailed)` |
| `MetadataUsed` | `Spec => UsesMetadata` |
| `ClientImplementsMetadata` | `"create" \notin Late => (Spec => ImplementsMetadata)`, for `ZkClient` |
| `FinishedUpdatesStay` | `"create" \notin Late => (Spec => FinishedUpdateStays)`, for `ZkClient` |
| `RecordingIsTrue` | `RecordsAreOrdered => (Spec => RecordIsApplied)` |
| `OneRendering` | there is a rendering of every `bkConfig`, and one only unless it spells a name in two ways |
| `SettledMeansApplied` | `RecordsAreOrdered /\ SizesMoveOn /\ SizesAreGiven => (Spec => []SettledApplied)` |
| `UpdatesReachObjects` | `EditsMoveOn => (Spec => []UpdatedAsCreated)`, for `Rollout` |
| `ServicesReachBookies` | `Spec => []ServicesSelectBookies`, for `ClusterLabels` |
| `PodsTerminateWithoutLabels` | `~OwnLabels => (Spec => []AllPodsTerminated)`, for `ClusterLabels` |
| `ClaimsAreFound` | `~PodLabels => (Spec => []ClaimsFoundUnlessFailed)`, for `ClusterLabels` |
| `SpecIsTheManifests` | `Spec => []SpecFollowsManifest`, for `SpecDefaults` |
| `CountsSettleTrue` | `~PodLag => (Spec => []CountsAreTrue)`, for `ClusterStatus` |
| `ServicesStayOwn` | `DistinctServices => (Spec => []ServicesAreOwn)`, for `Fleet` |

### The loop

The first three rest on `LoopInv`, which is inductive:

* `TypeOK`;
* `CopiesAgree`: a copy that is flagged fresh equals the resource, up to what
  this very run wrote to the status.  Without it nothing relates `cr`, which
  the properties speak of, to `mem`, which the actions work on.
* `Recording`: between the write of the size node and the record, the node
  has the size to be recorded.
* `Reclaiming`: while claims are deleted, the policy is `Delete` and the
  StatefulSet has no more replicas than the size by which ordinals are called
  idle.  This is why the claims must be deleted after the update, by the run that
  made it.

`ClaimsKept` adds `Asked`: while the cluster lives, every copy of the resource
that a run can start from has a size that some user asked for, since the zeros
that the operator writes come with a deletion.  A claim that goes is one above
such a size.  The pod of that bookie may still be running then: the code deletes
a claim as soon as the StatefulSet is updated, and nothing waits for the pod to
stop; Kubernetes does not remove a claim that a pod uses.

### Deletion

`GoodbyeIsClean` adds four more: `AbsentIsZero` (a workload that does not exist
has no replicas), `Scaled` (before its step, a run sees a workload as it is;
past it, a run knows that the StatefulSet and the Deployment have the size of
its copy, or are gone), `Finalizing` (a run that waits works on a resource with
both sizes zero; past the wait there are no pods; past the deletion no znodes)
and `Finalized`, which is `CleanGoodbye` strengthened by why it stays so: the
replica counts are zero, and a run or a cache that still has the resource has a
version of it that asks for zero.  The key of the last one is that the update
which removed the finalizer was accepted, so no edit came after the version the
run had read.

`ClaimsAreReclaimed` adds `Reclaimed`: as long as nothing failed, every claim
belongs to an ordinal that the StatefulSet asks for, except while the run that
scaled it down is still deleting claims; it has replicas by its copy then.  At
the end the replicas are zero, so nothing is left to own a claim.

`MetadataUsed` needs `LoopInv`, and that a size is told only when it is not yet
recorded (`Telling`): one lemma for the steps that write znodes, one for those
that begin or end a call, and all others map to a stutter or to `Begin`.

### Record and objects

`shouldUpdateStatefulSet` and `shouldUpdateConfigmap` compare the spec with the
record, not with the object.  That this is enough needs edits that move on:

* `VersionsMoveOn`, `ConfigsMoveOn`, `SizesMoveOn`: there is an order of all
  values (`VersionAge`, ...) in which no edit goes back.  The value of a record
  that was never written is the first one.  So taking a setting back is
  excluded, as the run `version_taken_back` says it must be, and so is emptying
  a `bkConfig`: an empty one reads like a record that was never written, and
  when it was emptied before the first record the ConfigMap keeps the old one.
* `PlainConfigs`: a `bkConfig` is a finite map without blank values.  For those
  `mapEqual` is equality (`MapEqualIsEquality`); `MCBlank` shows what happens
  with blank ones.
* `SizesAreGiven`, for `SettledMeansApplied`: no resource is created with size
  0, which reads like the record of nothing as well, so that ZooKeeper is not
  told of it before the size changes.

`RecordInv` says: a run works on a version not newer than the cache's, nor the
cache's than the resource's (`Overtaken`); what an object carries lies between
the record and the spec of every copy there is, the run's and the cache's
included (`StsBetween`, `CmBetween`); and a run that has passed an object has
brought it up to the run's own copy (`ObjectsDone`).  "Every copy" is what makes
it inductive: the next run may start from any version the cache ever shows, and
when record and spec of that version agree, the object between them is what it
should be.  The age order takes the place of a history variable.

`SettledInv` adds the same for the size node (`SizeBetween`), which has the time
node with it, what a run has done by the step it is at (`Stages`), that a run on
an old copy has another one to follow (`StaleRunIsFollowed`), and that when none
is to follow the last one has applied its spec (`RestedApplied`).  Neither
theorem needs `WorkloadLag` FALSE: as long as an informer of a workload has
something to tell, a run is due (`DaemonsAs` is what the Deployment has by
then).

`RecordIsApplied` and `SettledApplied` speak of a rendering of the `bkConfig`,
since Go ranges over a map in any order.  `OneRendering` says that there is always
one, so the loop never stops for want of it, and that it is the only one as long
as no name stands there both with the prefix `BK_` and without it.

`UpdatesReachObjects` is the same argument for `Rollout`, whose objects carry
layouts and claims that no update looks at; so `EditsMoveOn` also keeps these.

### ZooKeeper client

`MetadataUsed` and `ClientImplementsMetadata` meet in `ZkMetadata`: the loop
relies on no more than what the client, request by request, is proved to give,
for any sizes, any number of updates and of connections that break, and
whatever the bookies write.  The one hypothesis is that no create takes effect
after its connection broke; `MCZkLateCreate` shows what comes of one that does.

`ClientInv`, which is inductive, ties what a call still has to send to what the
tree already has:

* `Updating`: an update is somewhere in its work on the size node, with that on
  the time node to follow, or on the time node with the size written.  What
  `setNodeData` may still send (`Puttings`) is a read; a set with a version that
  is not ahead of the node's; or, when there is no node, a create with or
  without those of its ancestors.  Only a deletion takes one of these nodes
  away, so a node that was missing stays so until the client creates it.
* `Delayed`: before the deletion begins only reads and sets may come late, the
  sets for nodes that are there, with versions that are not ahead.  A set that
  succeeds makes a new version, so every one still under way is then behind
  (`Written`), and that is what `FinishedUpdatesStay` needs.
* `Deleting`: whatever the children found on the way put before it, the last
  request on the list is one for the root, in one of the forms read, delete and
  list; each is followed by requests that end with the same node or by none, and
  then the node is gone (`DeletionFollowUps`).
* `TreeType`: a node's parent is there, so that without the root nothing of the
  cluster is left, and with the size node the root is there.

Each request maps to an `UpdatePart` or a `DeletePart` (`UpdateRequest`,
`DeletionRequest`), a late one to `Overdue` or to nothing, what bookies write to
`Others`.

### Labels and defaults

`ServicesReachBookies`: nobody sets a component before a Service takes the map as
its selector, so that a map which came back from the API server with the
component of the autorecovery pods would make a Service without a bookie.  What
prevents it is that the budget is reconciled before, by every run, and leaves its
component in the map (`OwnServices`).  It does so because `shouldUpdatePDB` looks
at a label nobody sets: the budget written only when it changes is the mutant
that breaks the property.

The other two are the positive side of `labels_wait` and `MCLabelsClaims`:
without `spec.labels` the wait finds every pod, and without labels of the pod
template the claims are found unless a run failed.  The one rests on `Rescaled`
(a run that gets as far as the wait has given both workloads the scale of the
resource) and `Gone` (nobody scales them afterwards), the other on
`EmptyHasNoClaims`: if nothing failed, a StatefulSet without replicas has no
claims, except between the update that emptied it and the step that follows.
The failure in between is what `claims_after_failure` refutes.

`SpecIsTheManifests` rests on two lemmas about `setDefaults`: a complete spec is
left alone, zeros of the operator included (`SetDefaultsKeeps`), and a field
that left the manifest becomes what it would be had it never been there
(`MergedFollows`).

### Status

`CountsSettleTrue`, for clusters of any size: `OnlyMoreReady` says that while
the number of pods is the one reported, the number of ready ones is not below
the reported one.  Workloads report what they started or stopped before they go
on, and pods that become ready only add to a count, so no two changes cancel out
between reports (`ProgressIsCounted`).  When the counts agree, nothing has
changed since the last report, and the cache shows the pods there are or is known
to be behind (`SeenWhenCounted`); the run that the report started waits for them
and lists them; it ends
without another run only if the resource did not change and its status has them
already (`LastRunIsFresh`, `LastRunIsTrue`).  That sums of cardinalities match
the lengths of listings is proved from the library's facts about finite sets.

### Several clusters

In `Fleet`, `DistinctServices` says that no two clusters have a Service of one
name.  It is what the code does not see to (`MCFleetServices`), so the theorem
says that nothing else is needed, for any set of clusters and no matter how many
edits, failures and restarts.  `ServicesAreOwn` needs that every Service is
attributed to the cluster whose name it has, that a cluster which is still there
keeps its Services once a run has passed `Reconcile`, and that only such a
cluster gets the finalizer.

### Checked by TLC only

Out of the prover's reach are the liveness properties (`DeletionCompletes`,
`ReplicasConverge`, `DeletionSucceeds`, `BookiesRollOut`, `DeletionGetsThrough`,
`CountsConverge`, `EveryClusterServed`), as they depend on fairness and `ENABLED`.
Every other property of a run that passes is stated by a theorem.  Of the runs
that expect a violation, `labels_wait` has one for the case in which its property
holds (`PodsTerminateWithoutLabels`).

## 6. What the checks found

### Listed findings

* **A version that is taken back** (`version_taken_back`, `statefulset.go:87`).
  `shouldUpdateStatefulSet` compares the spec with the status.  When a version
  goes from v1 to v2 and back before the status recorded v2, the bookies stay at
  v2 with nothing queued.
* **Claims after a failed run** (`claims_after_failure`, `statefulset.go:56`).
  Only the run that updated the StatefulSet deletes idle claims; if it fails in
  between, no later run does.
* **A wait for the wrong pods** (`labels_wait`, `bookkeepercluster_spec.go:355`).
  With `spec.labels` set, the component of the last workload made is stored in
  them, and the wait before the clean-up looks for that component only: znodes
  and finalizer go while pods of the other one run.

### Further configurations that TLC refutes

Each has one property, which is what the quoted line says or, where none is
quoted, what a reader of the code would expect.

| Configuration | Module | Property | What happens |
| --- | --- | --- | --- |
| `MCAutoRecovery` | `MCClusterReconcile` | `AutoRecoveryRunsTheVersion` | `autorecovery.go:43` updates the replica count only, so a new version never reaches the daemons (`..._spec.go:80`: "BookkeeperVersion defines the version of bookkeeper to use") |
| `MCClaimsEarly` | `MCClusterReconcile` | `ClaimsGoWithTheCluster` | the finalizer is added by the last function of a run (`bookkeepercluster_controller.go:40`), so a resource deleted during its first run leaves its claims (`..._spec.go:215-217`: "the corresponding PVCs will be deleted") |
| `MCReady` | `MCClusterReconcile` | `ReadyReplicasCountsBookies` | `clusterstatus.go:37` passes the name of the resource as the namespace, so outside a namespace of its name it has no ready replicas (`..._status.go:47`: "ReadyReplicas is the number of ready bookkeeper nodes in the cluster") |
| `MCBlank` | `MCClusterReconcile` | `ConfigMapOverrides` | `mapEqual` (`utils.go:18`) does not tell a missing key from a blank value: an override replaced by a blank entry of another name stays in the ConfigMap (`..._spec.go:108`: "BkConfig defines the Bookkeeper configurations to override the bk_server.conf") |
| `MCZkLateCreate` | `MCZkClient` | `UpdateIsDone` | a create whose connection broke is carried out between the read and the create of the retry, which takes the node for its own (`zk.go:138`), with the old size in it (`zk.go:38`: "UpdateMetadata update the metadata of the specified cluster") |
| `MCRolloutLayout` | `MCRollout` | `LayoutsAgree` | new ports or directories reach the ConfigMap with the next change of `bkConfig`, and the pod template never (`statefulset.go:102`; `..._spec.go:75`: "defines the desired state of BookkeeperCluster") |
| `MCRolloutConfig` | `MCRollout` | `ConfigReachesBookies` | a new configuration leaves the pod template as it is, so no bookie restarts and reads it (`statefulset.go:102`; `..._spec.go:108`) |
| `MCRolloutDisabled` | `MCRollout` | `DisabledRecoveryIsOff` | `enableAutoRecovery` is read nowhere (`..._spec.go:100`: "EnableAutoRecovery indicates whether BookKeeper auto recovery is enabled.") |
| `MCRolloutJournal` | `MCRollout` | `JournalClaimAsAsked` | the journal's claim is made by the ledgers' spec (`statefulset.go:328`; `..._spec.go:222`: "JournalVolumeClaimSpec describes the PVC for the bookkeeper journal") |
| `MCLabelsClaims` | `MCClusterLabels` | `ClaimsFound` | claims are looked for by the labels of the pod template, those of `podConfig` included, which claims do not have (`statefulset.go:125`; `..._spec.go:215-217`) |
| `MCLabelsServices` | `MCClusterLabels` | `ServicesSelectBookiesOnly` | without `spec.labels` a Service selects by the labels of the cluster, which the autorecovery pods have too, so it passes requests on to pods without a bookie (`service.go:94-101`) |
| `MCDefaultsRetain` | `MCSpecDefaults` | `RetainByDefault` | a missing or misspelt policy becomes `Delete` (`..._spec.go:231`), where `..._spec.go:217` says "The default value is Retain." |
| `MCStatusStale` | `MCClusterStatus` | `CountsAreTrue` | when the pod cache is behind the workload's status, the last run counts too few pods, and no event starts another (`clusterstatus.go:37`; `..._status.go:47`) |
| `MCStatusMembers` | `MCClusterStatus` | `MembersAreTrue` | one bookie becomes ready and another ceases to be before either is counted: no count changes, no run starts (`clusterstatus.go:58`; `..._status.go:51`: "Membership describe the status of members within the cluster") |
| `MCStatusReady` | `MCClusterStatus` | `ReadyMeansBookies` | autorecovery pods are counted with the bookies (`clusterstatus.go:43`; `..._status.go:47`) |
| `MCStatusOrder` | `MCClusterStatus` | `RunsEnd` | the members are listed in the order of the pod cache, which is that of Go maps: a status may differ in order only, be written, and start another run, for ever (`clusterstatus.go:50-59`) |
| `MCFleetRoots` | `MCFleet` | `MetadataKept` | clusters of one name in two namespaces share a root (`..._types.go:115`), and one takes the metadata of the other along (`..._types.go:113`: "ZkRootPath the zk root of this bookkeeper cluster") |
| `MCFleetServices` | `MCFleet` | `ServicesAreOwn` | a cluster named like the headless Service of another one takes it for its client Service (`..._types.go:105`, `service.go:42`) |

`MCLabels` is the counterpart of `MCLabelsWait` without labels in the spec:
there `AllPodsTerminated` holds.

### Observations

* `CleanGoodbye` needs `WorkloadLag` FALSE.  With TRUE, TLC finds this: a
  cluster of size 0 is scaled to 1 and then deleted; a run scales the
  StatefulSet up, and the resource down again because it is being deleted; the
  next run reads the scaled-down resource from one informer and the StatefulSet
  from another one that still shows it empty, so it leaves it alone; the pod of
  the StatefulSet has not been created yet, so the wait is over at once; znodes
  and finalizer go, and then the pod starts, until the garbage collector comes.
* The same lag can hold up a deletion (`DeletionCompletes`): if the pod does
  start before the wait, the run waits for a pod that nobody scales down, until
  the wait gives up.  It takes an informer that lags by a whole run, and nothing
  in the repository promises anything about that, so neither is a finding.
* `SettledApplied` says nothing of the size node when a size is taken back: the
  node may then keep a size that the status never recorded
  (`clusterstatus.go:80`).
* A cluster that is created with size 0 equals the record of a status that was
  never written, so its size node is not made until the size changes
  (`clusterstatus.go:80`).  No bookie runs before that, and nothing in the
  repository says that the node must be there; `SettledApplied` does not hold of
  such a cluster.
* `CountsAreTrue` is about pods that stay ready (`flips = 0`).  A pod that
  ceases to be ready, is listed so, and is ready again before its workload
  counted it leaves a count that no event corrects.
* The counts become true and stay so even where the runs never end
  (`CountsConverge`): only the order of the members goes on changing.
* The budget that every run writes looks like a mistake (`pdb.go:102` compares a
  label that is never set), but the selectors of the Services depend on it
  when the spec has labels (`ServicesSelectBookies`).
* A claim is deleted right after the update of the StatefulSet, when its pod may
  still run: `ClaimsKeptForAskedBookies` is about bookies that are asked for, not
  about pods that have not stopped.
* `status.replicas` is never set, nor are the conditions `Preparing` and
  `Error`; a condition that is set for the first time has no times
  (`bookkeepercluster_status.go:132-168`).

## 7. Not modelled, and what is left

Not modelled:

* **Pod templates** beyond image, labels, layout and environment: probes,
  resources, affinity, JVM options and annotations are copied from the spec when
  the StatefulSet is created, and no decision depends on them.
* **Bookie image** (`deployments/docker`): the scripts that start a bookie of
  the upstream image; the modules have bookies as writers of znodes and readers
  of the ConfigMap.
* **Deployment** (`deployments/`, `config/`): manifests, charts and the
  generated CRD.
* **Manager** beyond its restart: flags, scheme, metrics, leader election.
* **Clocks**: the wait of `WaitClusterTermination` may give up at any moment.

Left to do: an instance in which `create` may come late and the loop asks for the
update again, to say how long the wrong size of `MCZkLateCreate` lasts.
