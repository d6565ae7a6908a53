---------------------------- MODULE ClusterStatus ----------------------------
(***************************************************************************)
(* The status of a cluster: how many pods are ready, which ones, and       *)
(* whether the cluster as a whole is.                                      *)
(*                                                                         *)
(* No run is started by a pod.  A pod that changes is counted by its       *)
(* workload's controller; a count that changes is written to the status of *)
(* the workload; that starts a run, which lists the pods from a cache of   *)
(* its own and writes the status of the resource; and a status that        *)
(* changed starts a run again.  The pods and the status of their workload  *)
(* come by different watches, of which either may be ahead.                *)
(*                                                                         *)
(* The resource is in the namespace of its name, where the pods are looked *)
(* for, and a run begins with its newest version.                          *)
(***************************************************************************)
EXTENDS Naturals, FiniteSets, SequencesExt

CONSTANTS
    MaxSize,        \* bound: the size of the cluster
    Recovery,       \* the number of autorecovery pods
    PodLag,         \* pods that were reported may not be listed by the run
    MaxEdits,       \* bound: changes of the size
    MaxFlips,       \* bound: ready pods that cease to be
    MaxFaults       \* bound: runs that fail

ASSUME ConstantsAssumption ==
    /\ {MaxSize, Recovery, MaxEdits, MaxFlips, MaxFaults} \subseteq Nat
    /\ PodLag \in BOOLEAN

VARIABLES
    size,       \* of the spec
    status,     \* of the resource
    sts,        \* the replicas of the StatefulSet
    pods,       \* the state of every pod
    seen,       \* the same in the pod cache
    counts,     \* what the workloads' status says
    behind,     \* the pod cache lacks some of the pods that status counts
    queued,     \* a run is due
    pc, mem, memFresh,      \* the run and its copy of the resource
    edits, flips, faults

run  == <<pc, mem, memFresh>>
obs  == <<seen, counts, behind>>
bnds == <<edits, flips, faults>>
vars == <<size, status, sts, pods, obs, queued, run, bnds>>

Bookies == 0 .. MaxSize - 1
Recoverers == MaxSize .. MaxSize + Recovery - 1
Pods == Bookies \cup Recoverers

Ticks == 1 .. 2
Blank == 0      \* a time that is not set
NoCondition == [status |-> "none"]
NoCopy == <<>>

In(state, of) == {p \in Pods : of[p] = state}
Counted(set) == <<Cardinality(set \ In("none", pods)),
                  Cardinality(set \cap In("ready", pods))>>
Counts == [sts |-> Counted(Bookies), dep |-> Counted(Recoverers)]

\* The resource may have the conditions of setDefault.
Init ==
    /\ size \in 0 .. MaxSize
    /\ status \in [meta : {0}, ready : {<<>>}, unready : {<<>>},
                   readyReplicas : {0}, currentReplicas : {0},
                   cond : {NoCondition, [status |-> "False", time |-> Blank]}]
    /\ sts = 0
    /\ pods = [p \in Pods |-> "none"]
    /\ seen = pods
    /\ counts = Counts
    /\ behind = FALSE
    /\ queued = TRUE
    /\ pc = "idle"
    /\ mem = NoCopy
    /\ memFresh = FALSE
    /\ edits = 0
    /\ flips = 0
    /\ faults = 0
-----------------------------------------------------------------------------
(* A run, as far as ReconcileClusterStatus is concerned.                    *)

\* A condition that is new has no times, and one that does not change keeps
\* them.
SetCondition_OnTheCopy(c, s, now) ==
    IF c = NoCondition THEN [status |-> s, time |-> Blank] ELSE c
SetCondition(c, s, now) ==
    IF c = NoCondition THEN [status |-> s, time |-> Blank]
    ELSE IF c.status # s THEN [status |-> s, time |-> now]
    ELSE c

\* The cache has no order, and the list is not sorted.
Listings(set) == SetToSeqs(set)

\* All pods with the labels of the cluster are listed, whatever their
\* component, and their number is compared with that of the bookies.
StatusFrom(ready, unready, now) ==
    [mem.status EXCEPT
        !.cond = SetCondition(
                    @, IF mem.size = Len(ready) THEN "True" ELSE "False", now),
        !.ready = ready,
        !.unready = unready,
        !.readyReplicas = Len(ready),
        !.currentReplicas = Len(ready) + Len(unready)]

Goto(step) == pc' = step
Leave == pc' = "idle" /\ mem' = NoCopy /\ memFresh' = FALSE
Fail_Forgotten == Leave /\ UNCHANGED queued
Fail == Leave /\ queued' = TRUE

\* The workloads are reconciled before the status is.
BeginRun ==
    /\ pc = "idle"
    /\ queued
    /\ queued' = FALSE
    /\ mem' = [size |-> size, status |-> status]
    /\ memFresh' = TRUE
    /\ sts' = size
    /\ Goto("metadata")
    /\ UNCHANGED <<size, status, pods, obs, bnds>>

\* A status that is written, and differs, starts a run.
WriteStatus(new) ==
    /\ status' = new
    /\ queued' = (queued \/ new # status)

UpdateMetadata ==
    /\ pc = "metadata"
    /\ LET new == [mem.status EXCEPT !.meta = mem.size] IN
        \/ /\ new = mem.status
           /\ Goto("list")
           /\ UNCHANGED <<mem, memFresh, status, queued>>
        \/ /\ new # mem.status /\ memFresh
           /\ WriteStatus(new)
           /\ mem' = [mem EXCEPT !.status = new]
           /\ Goto("list")
           /\ UNCHANGED memFresh
        \/ /\ new # mem.status /\ ~memFresh
           /\ Fail
           /\ UNCHANGED status
    /\ UNCHANGED <<size, sts, pods, obs, bnds>>

\* The pods that a workload reported may be seen before its report is, or any
\* time until the run lists them.
ListPods ==
    /\ pc = "list"
    /\ PodLag \/ ~behind
    /\ \E ready \in Listings(In("ready", seen)),
          unready \in Listings(In("unready", seen)), now \in Ticks :
        mem' = [mem EXCEPT !.status = StatusFrom(ready, unready, now)]
    /\ Goto("status")
    /\ UNCHANGED <<size, status, sts, pods, obs, queued, memFresh, bnds>>

UpdateStatus ==
    /\ pc = "status"
    /\ IF memFresh THEN WriteStatus(mem.status) /\ Leave
       ELSE Fail /\ UNCHANGED status
    /\ UNCHANGED <<size, sts, pods, obs, bnds>>

AbortRun ==
    /\ pc # "idle"
    /\ faults < MaxFaults
    /\ faults' = faults + 1
    /\ Fail
    /\ UNCHANGED <<size, status, sts, pods, obs, edits, flips>>
-----------------------------------------------------------------------------
(* Users and Kubernetes.                                                    *)

EditSize ==
    /\ edits < MaxEdits
    /\ edits' = edits + 1
    /\ size' \in 0 .. MaxSize \ {size}
    /\ memFresh' = FALSE
    /\ queued' = TRUE
    /\ UNCHANGED <<status, sts, pods, obs, pc, mem, flips, faults>>

Wanted(p) == p \in Recoverers \/ p < sts

PodBecomes(p, state) ==
    /\ pods' = [pods EXCEPT ![p] = state]
    /\ UNCHANGED <<size, status, sts, obs, queued, run, edits, faults>>

\* The workloads' controllers report the pods they started or stopped before
\* they go on to the next ones.
Reported == counts.sts[1] = Counts.sts[1] /\ counts.dep[1] = Counts.dep[1]

\* A pod starts, or becomes ready, or is stopped.
PodProgresses ==
    /\ \E p \in Pods :
        \/ Wanted(p) /\ pods[p] = "none" /\ Reported /\ PodBecomes(p, "unready")
        \/ Wanted(p) /\ pods[p] = "unready" /\ PodBecomes(p, "ready")
        \/ ~Wanted(p) /\ pods[p] # "none" /\ Reported /\ PodBecomes(p, "none")
    /\ UNCHANGED flips

PodFlips ==
    /\ flips < MaxFlips
    /\ flips' = flips + 1
    /\ \E p \in In("ready", pods) : PodBecomes(p, "unready")

SyncPods ==
    /\ seen # pods
    /\ seen' = pods
    /\ behind' = FALSE
    /\ UNCHANGED <<size, status, sts, pods, counts, queued, run, bnds>>

\* The controller of a workload counts its pods and writes the counts to its
\* status, which the operator's informer reports.
ReportCounts ==
    /\ counts # Counts
    /\ counts' = Counts
    /\ behind' = (seen # pods)
    /\ queued' = TRUE
    /\ UNCHANGED <<size, status, sts, pods, seen, run, bnds>>

OperatorStep == BeginRun \/ UpdateMetadata \/ ListPods \/ UpdateStatus

Next ==
    \/ OperatorStep
    \/ AbortRun
    \/ EditSize
    \/ PodProgresses
    \/ PodFlips
    \/ SyncPods
    \/ ReportCounts

Spec == Init /\ [][Next]_vars

Fairness ==
    /\ WF_vars(OperatorStep)
    /\ WF_vars(PodProgresses)
    /\ WF_vars(SyncPods)
    /\ WF_vars(ReportCounts)

FairSpec == Spec /\ Fairness
-----------------------------------------------------------------------------
(* Properties.                                                              *)

\* Nothing is left that could start a run or change what one would see.
Settled == pc = "idle" /\ ~queued /\ counts = Counts /\ seen = pods

\* The status is that of the pods there are, autorecovery's among them, and of
\* the size asked for.
StatusIsTrue ==
    /\ status.readyReplicas = Cardinality(In("ready", pods))
    /\ status.currentReplicas = Cardinality(Pods \ In("none", pods))
    /\ (status.cond.status = "True") <=> (status.readyReplicas = size)
    /\ status.meta = size

\* No run starts by itself, so the last one must have seen everything: whether a
\* report overtook the pods it counts or the other way round, as long as both
\* were there when the run listed the pods.  A pod that ceases to be ready and
\* is again before its workload counted it is missed.
CountsAreTrue == Settled /\ flips = 0 => StatusIsTrue

\* The same in the end, and for good, although the operator may never settle: a
\* list in another order is another status, which starts a run.
CountsConverge == <>[](flips = 0 => StatusIsTrue)

\* "Membership describe the status of members within the cluster": when the
\* numbers are right, the names are.
MembersAreTrue ==
    Settled /\ status.readyReplicas = Cardinality(In("ready", pods)) =>
        ToSet(status.ready) = In("ready", pods)

\* "ReadyReplicas is the number of ready bookkeeper nodes in the cluster": when
\* it makes the cluster ready, all of its bookies are.
ReadyMeansBookies ==
    Settled /\ status.cond.status = "True" =>
        0 .. size - 1 \subseteq In("ready", pods)

\* Runs that write a status, and are started by it, come to an end: they do if
\* the pods are listed in the same order every time.
RunsEnd == <>[](pc = "idle" /\ ~queued)
=============================================================================
