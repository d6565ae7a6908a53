----------------------------- MODULE FleetProofs -----------------------------
(***************************************************************************)
(* When the Services of clusters have different names, every cluster has   *)
(* its own, for any number of clusters, edits, failures and restarts.      *)
(***************************************************************************)
EXTENDS Fleet, TLAPS

\* No two Services have the same name.
DistinctServices ==
    \A j, k \in Keys :
        /\ ClientServiceName(j) = ClientServiceName(k) => j = k
        /\ HeadlessServiceName(j) = HeadlessServiceName(k) => j = k
        /\ ClientServiceName(j) # HeadlessServiceName(k)
-----------------------------------------------------------------------------
(* Services.                                                                *)

Headless(k) == [owner |-> k, headless |-> TRUE]
Client(k) == [owner |-> k, headless |-> FALSE]

\* A Service that has a cluster's name is the cluster's.
Attributed ==
    \A k \in Keys :
        /\ HeadlessServiceName(k) \in DOMAIN svc =>
            svc[HeadlessServiceName(k)] = Headless(k)
        /\ ClientServiceName(k) \in DOMAIN svc =>
            svc[ClientServiceName(k)] = Client(k)

ServicesThere(k) ==
    HeadlessServiceName(k) \in DOMAIN svc /\ ClientServiceName(k) \in DOMAIN svc

\* A run makes the Services before the finalizer, and the garbage collector
\* takes those of a resource that is gone.
ServicesInv ==
    /\ phase \in [Keys -> {"none", "live", "deleting", "gone"}]
    /\ fin \subseteq {k \in Keys : phase[k] \in {"live", "deleting"}}
    /\ Attributed
    /\ \A k \in Keys :
        \/ k \in fin
        \/ AtWork(k, "finalizer") /\ phase[k] # "gone"
        => ServicesThere(k)

\* There are no Services before the first run.
LEMMA ServicesInit == Init => ServicesInv
BY DEF Init, ServicesInv, Attributed, AtWork, Idle

\* A run adds the Services that are missing and leaves the others alone.
LEMMA ReconciledServices ==
    ASSUME DistinctServices, NEW k \in Keys, Attributed, ReconcileServices(k)
    PROVE  Attributed' /\ ServicesThere(k)'
           /\ \A j \in Keys : ServicesThere(j) => ServicesThere(j)'
<1>1. /\ DOMAIN svc' = DOMAIN svc \cup {HeadlessServiceName(k), ClientServiceName(k)}
      /\ \A n \in DOMAIN svc : svc'[n] = svc[n]
      /\ HeadlessServiceName(k) \notin DOMAIN svc =>
            svc'[HeadlessServiceName(k)] = Headless(k)
      /\ /\ ClientServiceName(k) \notin DOMAIN svc
         /\ ClientServiceName(k) # HeadlessServiceName(k)
         => svc'[ClientServiceName(k)] = Client(k)
    BY DEF ReconcileServices, Headless, Client
<1>2. ASSUME NEW j \in Keys, HeadlessServiceName(j) \in DOMAIN svc'
      PROVE  svc'[HeadlessServiceName(j)] = Headless(j)
    BY <1>1, <1>2 DEF DistinctServices, Attributed
<1>3. ASSUME NEW j \in Keys, ClientServiceName(j) \in DOMAIN svc'
      PROVE  svc'[ClientServiceName(j)] = Client(j)
    BY <1>1, <1>3 DEF DistinctServices, Attributed
<1> QED
    BY <1>1, <1>2, <1>3
    DEF Attributed, ServicesThere, HeadlessServiceName, ClientServiceName,
        Headless, Client

\* The garbage collector takes no Service of another cluster.
LEMMA CollectedServices ==
    ASSUME NEW k \in Keys, Attributed, svc' = Restrict(svc, DOMAIN svc \ Owned(k))
    PROVE  /\ Attributed'
           /\ \A j \in Keys \ {k} : ServicesThere(j) => ServicesThere(j)'
<1>1. /\ DOMAIN svc' = DOMAIN svc \ Owned(k)
      /\ \A n \in DOMAIN svc' : svc'[n] = svc[n]
    BY DEF Restrict
<1>2. Attributed'
    BY <1>1 DEF Attributed, HeadlessServiceName, ClientServiceName, Headless, Client
<1>3. ASSUME NEW j \in Keys \ {k}, ServicesThere(j)
      PROVE  ServicesThere(j)'
    <2>1. /\ svc[HeadlessServiceName(j)] = [owner |-> j, headless |-> TRUE]
          /\ svc[ClientServiceName(j)] = [owner |-> j, headless |-> FALSE]
        BY <1>3 DEF Attributed, ServicesThere, Headless, Client
    <2> QED
        BY <1>1, <1>3, <2>1
        DEF Owned, ServicesThere, HeadlessServiceName, ClientServiceName
<1> QED BY <1>2, <1>3

\* A run makes both Services on its way to the finalizer, which alone takes
\* charge of a cluster, and only the garbage collector takes Services away.
LEMMA ServicesStep == DistinctServices /\ ServicesInv /\ [Next]_vars => ServicesInv'
<1> SUFFICES ASSUME DistinctServices, ServicesInv, [Next]_vars
             PROVE  ServicesInv'
    OBVIOUS
<1> DEFINE Same == svc' = svc
<1>1. Same => Attributed' /\ \A j \in Keys : ServicesThere(j) <=> ServicesThere(j)'
    BY DEF ServicesInv, Attributed, ServicesThere, HeadlessServiceName,
           ClientServiceName, Headless, Client
<1>2. ASSUME NEW k \in Keys, CreateCluster(k) \/ DeleteCluster(k)
      PROVE  ServicesInv'
    BY <1>1, <1>2 DEF CreateCluster, DeleteCluster, ServicesInv, AtWork
<1>3. ASSUME NEW k \in Keys,
             EditCluster(k) \/ ScalePods(k) \/ UNCHANGED vars
      PROVE  ServicesInv'
    BY <1>1, <1>3 DEF EditCluster, ScalePods, vars, res, work, ServicesInv, AtWork
<1>4. ASSUME BeginRun \/ CrashOperator \/ StartOperator
      PROVE  ServicesInv'
    BY <1>1, <1>4
    DEF BeginRun, CrashOperator, StartOperator, res, Idle, ServicesInv, AtWork
<1>5. ASSUME NEW k \in Keys, Reconcile(k)
      PROVE  ServicesInv'
    <2>1. /\ ReconcileServices(k)
          /\ UNCHANGED <<phase, fin>>
          /\ worker' = [at |-> "finalizer", key |-> k]
        BY <1>5 DEF Reconcile
    <2>2. /\ Attributed' /\ ServicesThere(k)'
          /\ \A j \in Keys : ServicesThere(j) => ServicesThere(j)'
        BY <2>1, ReconciledServices DEF ServicesInv
    <2>3. \A j \in Keys : AtWork(j, "finalizer")' => j = k
        BY <2>1 DEF AtWork
    <2> QED BY <2>1, <2>2, <2>3 DEF ServicesInv
<1>6. ASSUME NEW k \in Keys, AddFinalizer(k)
      PROVE  ServicesInv'
    BY <1>1, <1>6 DEF AddFinalizer, ServicesInv, AtWork, Idle
<1>7. ASSUME NEW k \in Keys,
             DownscaleToZero(k) \/ WaitClusterTermination(k) \/ Disappeared(k)
      PROVE  ServicesInv'
    BY <1>1, <1>7
    DEF DownscaleToZero, WaitClusterTermination, Disappeared, res, ServicesInv,
        AtWork, Idle
<1>8. ASSUME NEW k \in Keys, AbortRun(k)
      PROVE  ServicesInv'
    BY <1>1, <1>8 DEF AbortRun, res, ServicesInv, AtWork, Idle
<1>9. ASSUME NEW k \in Keys, GarbageCollect(k)
      PROVE  ServicesInv'
    <2>1. /\ phase[k] = "gone"
          /\ UNCHANGED <<phase, fin, worker>>
          /\ svc' = Restrict(svc, DOMAIN svc \ Owned(k))
        BY <1>9 DEF GarbageCollect, res, work
    <2>2. Attributed' /\ \A j \in Keys \ {k} : ServicesThere(j) => ServicesThere(j)'
        BY <2>1, CollectedServices DEF ServicesInv
    <2> QED BY <2>1, <2>2 DEF ServicesInv, AtWork
<1> QED
    BY <1>1, <1>2, <1>3, <1>4, <1>5, <1>6, <1>7, <1>8, <1>9
    DEF Next, RunStep, UserStep, ServicesInv, vars, res, work, AtWork

\* Once a run is through with a cluster both of its Services are there and its
\* own, when no two have the same name (service.go:42 takes any that is found).
THEOREM ServicesStayOwn == DistinctServices => (Spec => []ServicesAreOwn)
<1> SUFFICES ASSUME DistinctServices PROVE Spec => []ServicesAreOwn
    OBVIOUS
<1>1. ServicesInv /\ [Next]_vars => ServicesInv'
    BY ServicesStep
<1>2. ServicesInv => ServicesAreOwn
    BY DEF ServicesInv, ServicesAreOwn, Attributed, ServicesThere, Headless, Client
<1> QED BY ServicesInit, <1>1, <1>2, PTL DEF Spec
=============================================================================
