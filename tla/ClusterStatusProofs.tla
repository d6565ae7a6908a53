------------------------- MODULE ClusterStatusProofs -------------------------
(***************************************************************************)
(* CountsAreTrue, for clusters of any size, any number of edits and of     *)
(* failures and whatever the order in which pods are listed, provided that *)
(* a run lists the pods that were reported before.                         *)
(*                                                                         *)
(* The argument: as long as no ready pod ceases to be, no two changes of   *)
(* pods cancel out between two reports, since workloads report what they   *)
(* start or stop before they go on, and pods that become ready only add to *)
(* the count.  So when the counts that were reported are those of the pods *)
(* there are, nothing has changed since the last report; the pod cache     *)
(* shows those pods, unless it is behind, and the run which that report    *)
(* started does not list them before it shows them.                        *)
(***************************************************************************)
EXTENDS ClusterStatus, FiniteSetTheorems, TLAPS

PodStates == {"none", "unready", "ready"}
Conditions == {NoCondition} \cup [status: {"True", "False"}, time: Nat]
StatusType ==
    [meta: Nat, ready: Seq(Pods), unready: Seq(Pods),
     readyReplicas: Nat, currentReplicas: Nat, cond: Conditions]
CopyType == [size: Nat, status: StatusType]

StatusTypes ==
    /\ size \in Nat
    /\ status \in StatusType
    /\ {pods, seen} \subseteq [Pods -> PodStates]
    /\ counts \in [sts: Nat \X Nat, dep: Nat \X Nat]
    /\ {queued, memFresh, behind} \subseteq BOOLEAN
    /\ pc \in {"idle", "metadata", "list", "status"}
    /\ pc # "idle" => mem \in CopyType
    /\ memFresh => pc # "idle"
    /\ flips \in Nat

\* While the numbers of pods are those reported, more of them may be ready, and
\* not fewer.
OnlyMoreReady ==
    flips = 0 =>
        /\ counts.sts[1] = Counts.sts[1] => counts.sts[2] <= Counts.sts[2]
        /\ counts.dep[1] = Counts.dep[1] => counts.dep[2] <= Counts.dep[2]

\* When nothing is to be reported, the pod cache is up to date or known not to be.
SeenWhenCounted == flips = 0 /\ counts = Counts /\ ~behind => seen = pods

\* A run that no other one follows works on the newest version.
LastRunIsFresh ==
    /\ pc # "idle" /\ ~queued => memFresh
    /\ memFresh => mem.size = size
    /\ pc \in {"list", "status"} => mem.status.meta = mem.size

TrueOf(s, n) ==
    /\ s.readyReplicas = Cardinality(In("ready", pods))
    /\ s.currentReplicas = Cardinality(Pods \ In("none", pods))
    /\ (s.cond.status = "True") <=> (s.readyReplicas = n)
    /\ s.meta = n

\* When nothing is to be reported and no run is due, the last run has written,
\* or is about to write, what is true.
LastRunIsTrue ==
    flips = 0 /\ counts = Counts /\ ~queued =>
        /\ pc = "idle" => TrueOf(status, size)
        /\ pc = "status" => TrueOf(mem.status, mem.size)

StatusInv ==
    /\ StatusTypes /\ OnlyMoreReady /\ SeenWhenCounted /\ LastRunIsFresh
    /\ LastRunIsTrue

-----------------------------------------------------------------------------
(* Sets of pods, their sizes and their listings.                            *)

\* The sets of pods are finite, and the two kinds are disjoint.
LEMMA PodSets ==
    /\ IsFiniteSet(Bookies) /\ IsFiniteSet(Recoverers) /\ IsFiniteSet(Pods)
    /\ Bookies \cap Recoverers = {} /\ Pods = Bookies \cup Recoverers
<1>1. MaxSize \in Nat /\ Recovery \in Nat
  BY ConstantsAssumption
<1>2. IsFiniteSet(Bookies) /\ IsFiniteSet(Recoverers)
  BY <1>1, FS_Interval DEF Bookies, Recoverers
<1>3. Bookies \cap Recoverers = {}
  BY <1>1 DEF Bookies, Recoverers
<1>4. QED
  BY <1>2, <1>3, FS_Union DEF Pods

\* A listing of pods is a sequence of pods, as long as the set is large.
LEMMA ListingLengths ==
    ASSUME NEW set, IsFiniteSet(set), set \subseteq Pods,
           NEW l \in Listings(set)
    PROVE  l \in Seq(Pods) /\ Len(l) = Cardinality(set)
<1>1. Cardinality(set) \in Nat
  BY FS_CardinalityType
<1>2. l \in [1..Cardinality(set) -> set]
  BY DEF Listings, SetToSeqs
<1>3. l \in [1..Cardinality(set) -> Pods]
  BY <1>2
<1>4. QED
  BY <1>1, <1>3

\* Counts are numbers.
LEMMA CountsAreNumbers ==
    ASSUME NEW W \in {Bookies, Recoverers}
    PROVE  /\ Counted(W) \in Nat \X Nat
           /\ Counted(W)[1] = Cardinality(W \ In("none", pods))
           /\ Counted(W)[2] = Cardinality(W \cap In("ready", pods))
<1>1. IsFiniteSet(W \ In("none", pods)) /\ IsFiniteSet(W \cap In("ready", pods))
  BY PodSets, FS_Difference, FS_Intersection
<1>2. QED
  BY <1>1, FS_CardinalityType DEF Counted

\* A pod that is not of a workload does not change its counts.
LEMMA CountOthers ==
    ASSUME NEW W \in {Bookies, Recoverers}, NEW p \in Pods \ W, NEW state,
           pods \in [Pods -> PodStates], pods' = [pods EXCEPT ![p] = state]
    PROVE  Counted(W)' = Counted(W)
<1>1. W \ In("none", pods)' = W \ In("none", pods)
  BY DEF In
<1>2. W \cap In("ready", pods)' = W \cap In("ready", pods)
  BY DEF In
<1>3. QED
  BY <1>1, <1>2 DEF Counted

\* A set with one more element.
LEMMA OneMore ==
    ASSUME NEW S, NEW T, NEW x, IsFiniteSet(S), T = S \cup {x}, x \notin S
    PROVE  /\ Cardinality(S) \in Nat /\ Cardinality(T) = Cardinality(S) + 1
           /\ Cardinality(T) # Cardinality(S)
<1>1. Cardinality(T) = Cardinality(S) + 1
  BY FS_AddElement
<1>2. QED
  BY <1>1, FS_CardinalityType

\* A pod that starts or stops makes the number of pods another one.
LEMMA CountStarts ==
    ASSUME NEW W \in {Bookies, Recoverers}, NEW p \in W, W \subseteq Pods,
           NEW state, (pods[p] = "none") # (state = "none"),
           pods \in [Pods -> PodStates], pods' = [pods EXCEPT ![p] = state]
    PROVE  Counted(W)[1]' # Counted(W)[1]
<1>1. IsFiniteSet(W \ In("none", pods)) /\ IsFiniteSet(W \ In("none", pods)')
  BY PodSets, FS_Difference
<1>2. Cardinality(W \ In("none", pods)') # Cardinality(W \ In("none", pods))
  <2>1. CASE state # "none"
    <3>1. /\ W \ In("none", pods)' = (W \ In("none", pods)) \cup {p}
          /\ p \notin W \ In("none", pods)
      BY <2>1 DEF In
    <3> QED
      BY <1>1, <3>1, OneMore
  <2>2. CASE state = "none"
    <3>1. /\ W \ In("none", pods) = (W \ In("none", pods)') \cup {p}
          /\ p \notin W \ In("none", pods)'
      BY <2>2 DEF In
    <3>2. Cardinality(W \ In("none", pods)) # Cardinality(W \ In("none", pods)')
      BY <1>1, <3>1, OneMore
    <3> QED
      BY <3>2
  <2> QED
    BY <2>1, <2>2
<1>3. QED
  BY <1>2 DEF Counted

\* A pod that becomes ready adds one to the number of those that are.
LEMMA CountReady ==
    ASSUME NEW W \in {Bookies, Recoverers}, NEW p \in W, W \subseteq Pods,
           pods[p] = "unready",
           pods \in [Pods -> PodStates], pods' = [pods EXCEPT ![p] = "ready"]
    PROVE  /\ Counted(W)[1]' = Counted(W)[1]
           /\ Counted(W)[2]' = Counted(W)[2] + 1
<1>1. W \ In("none", pods)' = W \ In("none", pods)
  BY DEF In
<1>2. /\ W \cap In("ready", pods)' = (W \cap In("ready", pods)) \cup {p}
      /\ p \notin W \cap In("ready", pods)
  BY DEF In
<1>3. IsFiniteSet(W \cap In("ready", pods))
  BY PodSets, FS_Intersection
<1>4. Cardinality(W \cap In("ready", pods)')
        = Cardinality(W \cap In("ready", pods)) + 1
  BY <1>2, <1>3, OneMore
<1>5. QED
  BY <1>1, <1>4 DEF Counted
-----------------------------------------------------------------------------
(* What a pod that changes does to the counts.                              *)

\* The counts by workload, as what they are.
LEMMA CountsOf ==
    /\ Counts = [sts |-> Counted(Bookies), dep |-> Counted(Recoverers)]
    /\ Counts.sts = Counted(Bookies) /\ Counts.dep = Counted(Recoverers)
    /\ Counts' = [sts |-> Counted(Bookies)', dep |-> Counted(Recoverers)']
    /\ Counts'.sts = Counted(Bookies)' /\ Counts'.dep = Counted(Recoverers)'
    /\ Counts \in [sts: Nat \X Nat, dep: Nat \X Nat]
<1>1. Counted(Bookies) \in Nat \X Nat /\ Counted(Recoverers) \in Nat \X Nat
  BY CountsAreNumbers
<1>2. QED
  BY <1>1 DEF Counts

\* A pod that starts or stops when its workloads have reported: the next report
\* is another one.
LEMMA StartOrStop ==
    ASSUME StatusTypes, OnlyMoreReady, Reported,
           NEW p \in Pods, NEW state, (pods[p] = "none") # (state = "none"),
           PodBecomes(p, state), flips' = flips
    PROVE  OnlyMoreReady' /\ counts' # Counts'
<1>1. /\ pods \in [Pods -> PodStates] /\ pods' = [pods EXCEPT ![p] = state]
      /\ counts' = counts
  BY DEF StatusTypes, PodBecomes, obs
<1>2. CASE p \in Bookies
  <2>1. Counted(Bookies)[1]' # Counted(Bookies)[1]
    <3>1. Bookies \in {Bookies, Recoverers} /\ Bookies \subseteq Pods
      BY PodSets
    <3> QED
      BY <1>1, <1>2, <3>1, CountStarts
  <2>2. Counted(Recoverers)' = Counted(Recoverers)
    <3>1. Recoverers \in {Bookies, Recoverers} /\ p \in Pods \ Recoverers
      BY <1>2, PodSets
    <3> QED
      BY <1>1, <3>1, CountOthers
  <2>3. counts.sts[1] # Counts'.sts[1] /\ Counts'.dep = Counts.dep
    BY <2>1, <2>2, CountsOf DEF Reported
  <2>4. QED
    BY <1>1, <2>3 DEF OnlyMoreReady
<1>3. CASE p \in Recoverers
  <2>1. Counted(Recoverers)[1]' # Counted(Recoverers)[1]
    <3>1. Recoverers \in {Bookies, Recoverers} /\ Recoverers \subseteq Pods
      BY PodSets
    <3> QED
      BY <1>1, <1>3, <3>1, CountStarts
  <2>2. Counted(Bookies)' = Counted(Bookies)
    <3>1. Bookies \in {Bookies, Recoverers} /\ p \in Pods \ Bookies
      BY <1>3, PodSets
    <3> QED
      BY <1>1, <3>1, CountOthers
  <2>3. counts.dep[1] # Counts'.dep[1] /\ Counts'.sts = Counts.sts
    BY <2>1, <2>2, CountsOf DEF Reported
  <2>4. QED
    BY <1>1, <2>3 DEF OnlyMoreReady
<1>4. QED
  BY <1>2, <1>3, PodSets

\* A pod that becomes ready: no report so far had as many that are, of as many.
LEMMA BecomesReady ==
    ASSUME StatusTypes, OnlyMoreReady, flips = 0,
           NEW p \in Pods, pods[p] = "unready",
           PodBecomes(p, "ready"), flips' = flips
    PROVE  OnlyMoreReady' /\ counts' # Counts'
<1>1. /\ pods \in [Pods -> PodStates] /\ pods' = [pods EXCEPT ![p] = "ready"]
      /\ counts' = counts /\ counts \in [sts: Nat \X Nat, dep: Nat \X Nat]
  BY DEF StatusTypes, PodBecomes, obs
<1>2. /\ counts.sts[2] \in Nat /\ counts.dep[2] \in Nat
      /\ Counts.sts[2] \in Nat /\ Counts.dep[2] \in Nat
  BY <1>1, CountsOf
<1>3. CASE p \in Bookies
  <2>1. /\ Counted(Bookies)[1]' = Counted(Bookies)[1]
        /\ Counted(Bookies)[2]' = Counted(Bookies)[2] + 1
    <3>1. Bookies \in {Bookies, Recoverers} /\ Bookies \subseteq Pods
      BY PodSets
    <3> QED
      BY <1>1, <1>3, <3>1, CountReady
  <2>2. Counted(Recoverers)' = Counted(Recoverers)
    <3>1. Recoverers \in {Bookies, Recoverers} /\ p \in Pods \ Recoverers
      BY <1>3, PodSets
    <3> QED
      BY <1>1, <3>1, CountOthers
  <2>3. /\ Counts'.sts[1] = Counts.sts[1] /\ Counts'.dep = Counts.dep
        /\ Counts'.sts[2] = Counts.sts[2] + 1
    BY <2>1, <2>2, CountsOf
  <2>4. QED
    BY <1>1, <1>2, <2>3 DEF OnlyMoreReady
<1>4. CASE p \in Recoverers
  <2>1. /\ Counted(Recoverers)[1]' = Counted(Recoverers)[1]
        /\ Counted(Recoverers)[2]' = Counted(Recoverers)[2] + 1
    <3>1. Recoverers \in {Bookies, Recoverers} /\ Recoverers \subseteq Pods
      BY PodSets
    <3> QED
      BY <1>1, <1>4, <3>1, CountReady
  <2>2. Counted(Bookies)' = Counted(Bookies)
    <3>1. Bookies \in {Bookies, Recoverers} /\ p \in Pods \ Bookies
      BY <1>4, PodSets
    <3> QED
      BY <1>1, <3>1, CountOthers
  <2>3. /\ Counts'.dep[1] = Counts.dep[1] /\ Counts'.sts = Counts.sts
        /\ Counts'.dep[2] = Counts.dep[2] + 1
    BY <2>1, <2>2, CountsOf
  <2>4. QED
    BY <1>1, <1>2, <2>3 DEF OnlyMoreReady
<1>5. QED
  BY <1>3, <1>4, PodSets

\* Hence, as long as no ready pod ceases to be, a pod that changes leaves
\* something to be reported.
LEMMA ProgressIsCounted ==
    ASSUME StatusTypes, OnlyMoreReady, flips = 0, PodProgresses
    PROVE  OnlyMoreReady' /\ counts' # Counts'
<1>1. flips' = flips
  BY DEF PodProgresses
<1>2. PICK p \in Pods :
        \/ Wanted(p) /\ pods[p] = "none" /\ Reported /\ PodBecomes(p, "unready")
        \/ Wanted(p) /\ pods[p] = "unready" /\ PodBecomes(p, "ready")
        \/ ~Wanted(p) /\ pods[p] # "none" /\ Reported /\ PodBecomes(p, "none")
  BY DEF PodProgresses
<1>3. CASE pods[p] = "none" /\ Reported /\ PodBecomes(p, "unready")
  <2>1. (pods[p] = "none") # ("unready" = "none")
    BY <1>3
  <2>2. QED
    BY <1>1, <1>3, <2>1, StartOrStop
<1>4. CASE pods[p] = "unready" /\ PodBecomes(p, "ready")
  BY <1>1, <1>4, BecomesReady
<1>5. CASE pods[p] # "none" /\ Reported /\ PodBecomes(p, "none")
  <2>1. (pods[p] = "none") # ("none" = "none")
    BY <1>5
  <2>2. QED
    BY <1>1, <1>5, <2>1, StartOrStop
<1>6. QED
  BY <1>2, <1>3, <1>4, <1>5
-----------------------------------------------------------------------------
(* What a run writes.                                                       *)

\* A condition that is set has the value it is set to, and is a condition.
LEMMA ConditionSet ==
    ASSUME NEW c \in Conditions, NEW s \in {"True", "False"}, NEW now \in Ticks
    PROVE  SetCondition(c, s, now) \in Conditions
           /\ SetCondition(c, s, now).status = s
BY DEF SetCondition, Conditions, NoCondition, Ticks, Blank

\* The pods there are, ready or not, are those that are not none.
LEMMA ReadyOrNot ==
    ASSUME NEW of \in [Pods -> PodStates]
    PROVE  /\ IsFiniteSet(In("ready", of)) /\ IsFiniteSet(In("unready", of))
           /\ In("ready", of) \subseteq Pods /\ In("unready", of) \subseteq Pods
           /\ Cardinality(In("ready", of)) \in Nat
           /\ Cardinality(In("unready", of)) \in Nat
           /\ Cardinality(In("ready", of)) + Cardinality(In("unready", of))
                = Cardinality(Pods \ In("none", of))
<1>1. In("ready", of) \subseteq Pods /\ In("unready", of) \subseteq Pods
  BY DEF In
<1>2. IsFiniteSet(In("ready", of)) /\ IsFiniteSet(In("unready", of))
  BY <1>1, PodSets, FS_Subset
<1>3. In("ready", of) \cap In("unready", of) = {}
  BY DEF In
<1>4. In("ready", of) \cup In("unready", of) = Pods \ In("none", of)
  BY DEF In, PodStates
<1>5. /\ Cardinality(In("ready", of)) \in Nat
      /\ Cardinality(In("unready", of)) \in Nat
  BY <1>2, FS_CardinalityType
<1>6. Cardinality(In("ready", of) \cup In("unready", of))
        = Cardinality(In("ready", of)) + Cardinality(In("unready", of))
  <2>1. Cardinality(In("ready", of) \cap In("unready", of)) = 0
    BY <1>3, FS_EmptySet
  <2>2. Cardinality(In("ready", of) \cup In("unready", of))
          = Cardinality(In("ready", of)) + Cardinality(In("unready", of))
            - Cardinality(In("ready", of) \cap In("unready", of))
    BY <1>2, FS_Union
  <2>3. QED
    BY <1>5, <2>1, <2>2
<1>7. QED
  BY <1>1, <1>2, <1>4, <1>5, <1>6

\* What a run takes over from the pod cache is what the cache shows.
LEMMA ListedIsSeen ==
    ASSUME StatusTypes, ListPods
    PROVE  /\ mem' \in CopyType
           /\ mem'.size = mem.size /\ mem'.status.meta = mem.status.meta
           /\ mem'.status.readyReplicas = Cardinality(In("ready", seen))
           /\ mem'.status.currentReplicas
                = Cardinality(Pods \ In("none", seen))
           /\ (mem'.status.cond.status = "True")
                <=> (mem'.status.readyReplicas = mem.size)
<1>1. /\ mem \in CopyType /\ seen \in [Pods -> PodStates]
  BY DEF StatusTypes, ListPods
<1>2. PICK ready \in Listings(In("ready", seen)),
           unready \in Listings(In("unready", seen)), now \in Ticks :
        mem' = [mem EXCEPT !.status = StatusFrom(ready, unready, now)]
  BY DEF ListPods
<1>3. ready \in Seq(Pods) /\ Len(ready) = Cardinality(In("ready", seen))
  BY <1>1, ReadyOrNot, ListingLengths
<1>4. /\ unready \in Seq(Pods)
      /\ Len(unready) = Cardinality(In("unready", seen))
  BY <1>1, ReadyOrNot, ListingLengths
<1> DEFINE s == IF mem.size = Len(ready) THEN "True" ELSE "False"
           c == SetCondition(mem.status.cond, s, now)
<1>6. s \in {"True", "False"} /\ ((s = "True") <=> (mem.size = Len(ready)))
  OBVIOUS
<1>7. mem.status.cond \in Conditions
  BY <1>1 DEF CopyType, StatusType
<1>8. c \in Conditions /\ c.status = s
  BY <1>2, <1>6, <1>7, ConditionSet
<1>9. StatusFrom(ready, unready, now) =
        [mem.status EXCEPT !.cond = c, !.ready = ready, !.unready = unready,
                           !.readyReplicas = Len(ready),
                           !.currentReplicas = Len(ready) + Len(unready)]
  BY DEF StatusFrom
<1> HIDE DEF s, c
<1>10. mem.status \in StatusType
  BY <1>1 DEF CopyType
<1>11. Len(ready) \in Nat /\ Len(ready) + Len(unready) \in Nat
  BY <1>1, <1>3, <1>4, ReadyOrNot
<1> DEFINE new == StatusFrom(ready, unready, now)
<1>12. /\ new \in StatusType
       /\ new.meta = mem.status.meta /\ new.cond = c
       /\ new.readyReplicas = Len(ready)
       /\ new.currentReplicas = Len(ready) + Len(unready)
  BY <1>3, <1>4, <1>8, <1>9, <1>10, <1>11 DEF StatusType
<1>13. /\ mem' \in CopyType /\ mem'.size = mem.size /\ mem'.status = new
  BY <1>1, <1>2, <1>12 DEF CopyType
<1>14. Len(ready) + Len(unready) = Cardinality(Pods \ In("none", seen))
  BY <1>1, <1>3, <1>4, ReadyOrNot
<1>15. QED
  BY <1>3, <1>6, <1>8, <1>12, <1>13, <1>14

\* The metadata step writes the size of its copy, and the copy records it.
LEMMA MetadataWritten ==
    ASSUME StatusTypes, UpdateMetadata, pc' # "idle"
    PROVE  /\ mem' \in CopyType /\ mem'.size = mem.size
           /\ mem'.status.meta = mem.size
           /\ status' = status \/ status' = mem'.status
<1>1. mem \in CopyType /\ mem.status \in StatusType /\ mem.size \in Nat
  BY DEF StatusTypes, UpdateMetadata, CopyType
<1> DEFINE new == [mem.status EXCEPT !.meta = mem.size]
<1>2. new \in StatusType /\ new.meta = mem.size
  BY <1>1 DEF StatusType
<1>3. CASE new = mem.status /\ UNCHANGED <<mem, status>>
  BY <1>1, <1>2, <1>3
<1>4. CASE WriteStatus(new) /\ mem' = [mem EXCEPT !.status = new]
  <2> HIDE DEF new
  <2>1. mem' \in CopyType /\ mem'.size = mem.size /\ mem'.status = new
    BY <1>1, <1>2, <1>4 DEF CopyType
  <2>2. QED
    BY <1>2, <1>4, <2>1 DEF WriteStatus
<1>5. QED
  BY <1>3, <1>4 DEF UpdateMetadata, Fail, Leave
-----------------------------------------------------------------------------
(* The invariant.                                                           *)

\* At the beginning there are no pods, and a run is due.
LEMMA StatusStarts == Init => StatusInv
<1> SUFFICES ASSUME Init PROVE StatusInv
  OBVIOUS
<1>1. /\ pods \in [Pods -> PodStates] /\ seen = pods /\ counts = Counts
      /\ behind = FALSE /\ queued = TRUE /\ pc = "idle" /\ memFresh = FALSE /\ flips = 0
  BY DEF Init, PodStates
<1>2. size \in Nat
  BY ConstantsAssumption DEF Init
<1>3. status \in StatusType
  <2>1. /\ <<>> \in Seq(Pods) /\ NoCondition \in Conditions
        /\ [status |-> "False", time |-> Blank] \in Conditions
    BY DEF Conditions, Blank
  <2>2. status \in [meta : {0}, ready : {<<>>}, unready : {<<>>},
                    readyReplicas : {0}, currentReplicas : {0},
                    cond : {NoCondition, [status |-> "False", time |-> Blank]}]
    BY DEF Init
  <2>3. PICK c \in {NoCondition, [status |-> "False", time |-> Blank]} :
          status = [meta |-> 0, ready |-> <<>>, unready |-> <<>>,
                    readyReplicas |-> 0, currentReplicas |-> 0, cond |-> c]
    BY <2>2
  <2>4. c \in Conditions
    BY <2>1
  <2>5. QED
    BY <2>1, <2>3, <2>4, Zenon DEF StatusType
<1>4. StatusTypes
  BY <1>1, <1>2, <1>3, CountsOf DEF StatusTypes
<1>5. OnlyMoreReady
  BY <1>1, CountsOf DEF OnlyMoreReady
<1>6. SeenWhenCounted /\ LastRunIsFresh /\ LastRunIsTrue
  BY <1>1 DEF SeenWhenCounted, LastRunIsFresh, LastRunIsTrue
<1>7. QED
  BY <1>4, <1>5, <1>6 DEF StatusInv

\* Every step keeps the types.
LEMMA TypesStep == StatusTypes /\ [Next]_vars => StatusTypes'
<1> SUFFICES ASSUME StatusTypes, [Next]_vars PROVE StatusTypes'
  OBVIOUS
<1> USE DEF StatusTypes
<1>1. CASE BeginRun
  <2>1. mem' \in CopyType
    BY <1>1 DEF BeginRun, CopyType
  <2>2. QED
    BY <1>1, <2>1 DEF BeginRun, Goto, obs, bnds
<1>2. CASE UpdateMetadata
  <2>1. CASE pc' = "idle"
    BY <1>2, <2>1 DEF UpdateMetadata, Goto, Fail, Leave, WriteStatus, obs, bnds
  <2>2. CASE pc' # "idle"
    <3>1. mem' \in CopyType /\ status' \in StatusType
      BY <1>2, <2>2, MetadataWritten DEF CopyType
    <3>2. pc' = "list" /\ queued' \in BOOLEAN /\ memFresh' = memFresh
      BY <1>2, <2>2 DEF UpdateMetadata, Goto, Fail, Leave, WriteStatus
    <3>3. QED
      BY <1>2, <3>1, <3>2 DEF UpdateMetadata, obs, bnds
  <2>3. QED
    BY <2>1, <2>2
<1>3. CASE ListPods
  <2>1. mem' \in CopyType
    BY <1>3, ListedIsSeen
  <2>2. QED
    BY <1>3, <2>1 DEF ListPods, Goto, obs, bnds
<1>4. CASE UpdateStatus
  <2>1. mem.status \in StatusType
    BY <1>4 DEF UpdateStatus, CopyType
  <2>2. QED
    BY <1>4, <2>1 DEF UpdateStatus, WriteStatus, Fail, Leave, obs, bnds
<1>5. CASE AbortRun
  BY <1>5 DEF AbortRun, Fail, Leave, obs
<1>6. CASE EditSize
  <2>1. MaxSize \in Nat
    BY ConstantsAssumption
  <2>2. size' \in 0 .. MaxSize
    BY <1>6 DEF EditSize
  <2>3. size' \in Nat
    BY <2>1, <2>2
  <2>4. QED
    BY <1>6, <2>3 DEF EditSize, obs
<1>7. CASE PodProgresses
  BY <1>7 DEF PodProgresses, PodBecomes, PodStates, obs, run
<1>8. CASE PodFlips
  <2>1. PICK p \in Pods : PodBecomes(p, "unready")
    BY <1>8 DEF PodFlips, In
  <2>2. pods' \in [Pods -> PodStates]
    BY <2>1 DEF PodBecomes, PodStates
  <2>3. flips' \in Nat
    BY <1>8 DEF PodFlips
  <2>4. QED
    BY <2>1, <2>2, <2>3 DEF PodBecomes, obs, run
<1>9. CASE SyncPods
  BY <1>9 DEF SyncPods, run, bnds
<1>10. CASE ReportCounts
  <2>1. counts' \in [sts: Nat \X Nat, dep: Nat \X Nat]
    BY <1>10, CountsOf DEF ReportCounts
  <2>2. QED
    BY <1>10, <2>1 DEF ReportCounts, run, bnds
<1>11. CASE UNCHANGED vars
  BY <1>11 DEF vars, obs, run, bnds
<1>12. QED
  BY <1>1, <1>2, <1>3, <1>4, <1>5, <1>6, <1>7, <1>8, <1>9, <1>10, <1>11
  DEF Next, OperatorStep

\* Steps that are not a pod's leave the counts of pods as they are.
LEMMA OnlyPodsCount == UNCHANGED pods => UNCHANGED Counts
BY DEF Counts, Counted, In

\* Steps of runs, edits and the cache change neither pods nor what is reported.
LEMMA QuietSteps ==
    ASSUME \/ BeginRun \/ UpdateMetadata \/ ListPods \/ UpdateStatus
           \/ AbortRun \/ EditSize \/ SyncPods \/ UNCHANGED vars
    PROVE  UNCHANGED <<pods, counts, flips, Counts>>
<1>1. UNCHANGED <<pods, counts, flips>>
  BY DEF BeginRun, UpdateMetadata, ListPods, UpdateStatus, AbortRun, EditSize,
         SyncPods, vars, obs, run, bnds
<1>2. QED
  BY <1>1, OnlyPodsCount

\* Between two reports pods only become ready, if none ceases to be.
LEMMA OnlyMoreReadyStep ==
    StatusTypes /\ OnlyMoreReady /\ [Next]_vars => OnlyMoreReady'
<1> SUFFICES ASSUME StatusTypes, OnlyMoreReady, [Next]_vars, flips' = 0
             PROVE  OnlyMoreReady'
  BY DEF OnlyMoreReady
<1>1. CASE PodProgresses
  <2>1. flips = 0
    BY <1>1 DEF PodProgresses
  <2>2. QED
    BY <1>1, <2>1, ProgressIsCounted
<1>2. CASE PodFlips
  BY <1>2 DEF PodFlips, StatusTypes
<1>3. CASE ReportCounts
  <2>1. counts' = Counts'
    BY <1>3, OnlyPodsCount DEF ReportCounts
  <2>2. counts'.sts[2] \in Nat /\ counts'.dep[2] \in Nat
    BY <1>3, CountsOf DEF ReportCounts
  <2>3. QED
    BY <2>1, <2>2 DEF OnlyMoreReady
<1>4. CASE \/ BeginRun \/ UpdateMetadata \/ ListPods \/ UpdateStatus
           \/ AbortRun \/ EditSize \/ SyncPods \/ UNCHANGED vars
  BY <1>4, QuietSteps DEF OnlyMoreReady
<1>5. QED
  BY <1>1, <1>2, <1>3, <1>4 DEF Next, OperatorStep

\* What the pod cache lacks has not been reported yet, or makes it known to be
\* behind.
LEMMA SeenWhenCountedStep ==
    ASSUME StatusTypes, OnlyMoreReady, SeenWhenCounted, [Next]_vars
    PROVE  SeenWhenCounted'
<1> SUFFICES ASSUME flips' = 0, counts' = Counts', ~behind'
             PROVE  seen' = pods'
  BY DEF SeenWhenCounted
<1>1. CASE PodProgresses
  <2>1. flips = 0
    BY <1>1 DEF PodProgresses
  <2>2. QED
    BY <1>1, <2>1, ProgressIsCounted
<1>2. CASE PodFlips
  BY <1>2 DEF PodFlips, StatusTypes
<1>3. CASE ReportCounts
  BY <1>3 DEF ReportCounts
<1>4. CASE SyncPods
  BY <1>4 DEF SyncPods
<1>5. CASE \/ BeginRun \/ UpdateMetadata \/ ListPods \/ UpdateStatus
           \/ AbortRun \/ EditSize \/ UNCHANGED vars
  <2>1. UNCHANGED <<pods, counts, flips, Counts>>
    BY <1>5, QuietSteps
  <2>2. UNCHANGED <<seen, behind>>
    BY <1>5 DEF BeginRun, UpdateMetadata, ListPods, UpdateStatus, AbortRun,
                EditSize, vars, obs
  <2>3. QED
    BY <2>1, <2>2 DEF SeenWhenCounted
<1>6. QED
  BY <1>1, <1>2, <1>3, <1>4, <1>5 DEF Next, OperatorStep

\* An edit makes the copy an old one, and a run due.
LEMMA LastRunIsFreshStep ==
    StatusTypes /\ LastRunIsFresh /\ [Next]_vars => LastRunIsFresh'
<1> SUFFICES ASSUME StatusTypes, LastRunIsFresh, [Next]_vars
             PROVE  LastRunIsFresh'
  OBVIOUS
<1> USE DEF LastRunIsFresh
<1>1. CASE BeginRun
  BY <1>1 DEF BeginRun, Goto
<1>2. CASE UpdateMetadata
  <2>1. CASE pc' = "idle"
    BY <1>2, <2>1 DEF UpdateMetadata, Goto, Fail, Leave
  <2>2. CASE pc' # "idle"
    <3>1. mem'.size = mem.size /\ mem'.status.meta = mem.size
      BY <1>2, <2>2, MetadataWritten
    <3>2. memFresh' = memFresh /\ size' = size /\ pc = "metadata"
      BY <1>2, <2>2 DEF UpdateMetadata, Goto, Fail, Leave
    <3>3. ~queued' => ~queued
      BY <1>2, Zenon DEF UpdateMetadata, Fail, WriteStatus
    <3>4. QED
      BY <3>1, <3>2, <3>3
  <2>3. QED
    BY <2>1, <2>2
<1>3. CASE ListPods
  <2>1. mem'.size = mem.size /\ mem'.status.meta = mem.status.meta
    BY <1>3, ListedIsSeen
  <2>2. QED
    BY <1>3, <2>1 DEF ListPods, Goto
<1>4. CASE UpdateStatus
  BY <1>4 DEF UpdateStatus, Fail, Leave
<1>5. CASE AbortRun
  BY <1>5 DEF AbortRun, Fail, Leave
<1>6. CASE EditSize
  BY <1>6 DEF EditSize
<1>7. CASE PodProgresses
  BY <1>7 DEF PodProgresses, PodBecomes, run
<1>8. CASE PodFlips
  BY <1>8 DEF PodFlips, PodBecomes, run
<1>9. CASE SyncPods
  BY <1>9 DEF SyncPods, run
<1>10. CASE ReportCounts
  BY <1>10 DEF ReportCounts, run
<1>11. CASE UNCHANGED vars
  BY <1>11 DEF vars, run
<1>12. QED
  BY <1>1, <1>2, <1>3, <1>4, <1>5, <1>6, <1>7, <1>8, <1>9, <1>10, <1>11
  DEF Next, OperatorStep

\* The run that the last report started lists the pods that were reported, and
\* ends without another one only when the status has them already.
LEMMA LastRunIsTrueStep ==
    ASSUME ~PodLag, StatusInv, [Next]_vars
    PROVE  LastRunIsTrue'
<1> SUFFICES ASSUME flips' = 0, counts' = Counts', ~queued'
             PROVE  /\ pc' = "idle" => TrueOf(status, size)'
                    /\ pc' = "status" => TrueOf(mem.status, mem.size)'
  BY Zenon DEF LastRunIsTrue
<1> USE DEF StatusInv
<1>1. CASE BeginRun
  BY <1>1 DEF BeginRun, Goto
<1>2. CASE UpdateMetadata
  BY <1>2 DEF UpdateMetadata, Goto, Fail, Leave
<1>3. CASE ListPods
  <2>1. flips = 0 /\ counts = Counts /\ pods' = pods
    BY <1>3, QuietSteps
  <2>2. seen = pods
    BY <1>3, <2>1 DEF SeenWhenCounted, ListPods
  <2>3. /\ mem'.size = mem.size /\ mem'.status.meta = mem.size
        /\ pc' = "status"
    BY <1>3, ListedIsSeen DEF LastRunIsFresh, ListPods, Goto
  <2>4. /\ mem'.status.readyReplicas = Cardinality(In("ready", pods))
        /\ mem'.status.currentReplicas = Cardinality(Pods \ In("none", pods))
        /\ (mem'.status.cond.status = "True")
             <=> (mem'.status.readyReplicas = mem.size)
    BY <1>3, <2>2, ListedIsSeen
  <2>5. TrueOf(mem.status, mem.size)'
    BY <2>1, <2>3, <2>4 DEF TrueOf, In
  <2>6. QED
    BY <2>3, <2>5
<1>4. CASE UpdateStatus
  <2>1. flips = 0 /\ counts = Counts /\ pods' = pods
    BY <1>4, QuietSteps
  <2>2. /\ memFresh /\ status' = mem.status /\ ~queued /\ pc = "status"
        /\ pc' = "idle" /\ size' = size
    BY <1>4 DEF UpdateStatus, Fail, Leave, WriteStatus
  <2>3. TrueOf(mem.status, mem.size) /\ mem.size = size
    BY <2>1, <2>2 DEF LastRunIsTrue, LastRunIsFresh
  <2>4. TrueOf(status, size)'
    BY <2>1, <2>2, <2>3 DEF TrueOf, In
  <2>5. QED
    BY <2>2, <2>4
<1>5. CASE AbortRun \/ EditSize \/ ReportCounts
  BY <1>5 DEF AbortRun, EditSize, ReportCounts, Fail
<1>6. CASE PodProgresses
  <2>1. flips = 0
    BY <1>6 DEF PodProgresses
  <2>2. QED
    BY <1>6, <2>1, ProgressIsCounted
<1>7. CASE PodFlips
  BY <1>7 DEF PodFlips, StatusTypes
<1>8. CASE SyncPods \/ UNCHANGED vars
  <2>1. flips = 0 /\ counts = Counts /\ pods' = pods
    BY <1>8, QuietSteps
  <2>2. UNCHANGED <<status, size, mem, pc, queued>>
    BY <1>8 DEF SyncPods, run, vars
  <2>3. QED
    BY <2>1, <2>2 DEF LastRunIsTrue, TrueOf, In
<1>9. QED
  BY <1>1, <1>2, <1>3, <1>4, <1>5, <1>6, <1>7, <1>8 DEF Next, OperatorStep

\* Once settled, the numbers of pods and the condition that the status shows are
\* those of the pods there are and of the size asked for, for clusters of any
\* size, however often the size is edited and runs fail, unless a ready pod
\* ceases to be: provided that no run lists the pods before it can see all those
\* that were reported.
THEOREM CountsSettleTrue == ~PodLag => (Spec => []CountsAreTrue)
<1> SUFFICES ASSUME ~PodLag PROVE Spec => []CountsAreTrue
  OBVIOUS
<1>1. Init => StatusInv
  BY StatusStarts
<1>2. StatusInv /\ [Next]_vars => StatusInv'
  BY TypesStep, OnlyMoreReadyStep, SeenWhenCountedStep, LastRunIsFreshStep,
     LastRunIsTrueStep DEF StatusInv
<1>3. StatusInv => CountsAreTrue
  BY DEF StatusInv, LastRunIsTrue, TrueOf, CountsAreTrue,
         StatusIsTrue, Settled
<1>4. QED
  BY <1>1, <1>2, <1>3, PTL DEF Spec
=============================================================================
