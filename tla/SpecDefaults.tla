---------------------------- MODULE SpecDefaults -----------------------------
(***************************************************************************)
(* The spec of a resource between its user, the webhook that completes it  *)
(* on every write, and the operator, which writes it too: it adds the      *)
(* finalizer, and scales the cluster to zero before it is deleted.         *)
(*                                                                         *)
(* A spec is a function on the fields it has, those of its structs         *)
(* included: a struct that is missing, or empty, has none of its fields.   *)
(* A run of the operator is one step here.                                 *)
(***************************************************************************)
EXTENDS Naturals

CONSTANTS
    Manifests,      \* the specs a user may write
    MaxEdits,       \* bound: manifests applied to an existing resource
    MaxCrashes      \* bound: times the operator goes down

VARIABLES
    asked,      \* the manifest the user wrote last
    stored,     \* the spec on the API server
    phase,      \* of the resource: none, live, deleting, gone
    fin,        \* it has the finalizer
    running,    \* the StatefulSet has replicas
    claims,     \* the cluster has claims
    up,         \* the operator, and with it the webhook, is up
    edits, crashes

vars == <<asked, stored, phase, fin, running, claims, up, edits, crashes>>

Zero == "zero"          \* 0, an empty string, an empty list or map
NoSpec == <<>>          \* without any field

\* Fields whose zero value is not told from a missing one.
Plain ==
    {"bookkeeperVersion", "imagePullPolicy", "maxUnavailableNodes",
     "clusterDomain", "indexDirs", "journalDir", "ledgerDirs",
     "bookie", "admin", "metrics"}

\* Pointers, slices and maps: zero is a value of its own.
Nilable ==
    {"size", "autoRecoveryReplicas", "enableAutoRecovery", "bkConfig",
     "journal", "ledger", "index", "probeConfig", "terminationGracePeriod",
     "memory", "gc", "gcLogging", "extra"}

Fields == Plain \cup Nilable \cup {"reclaimPolicy"}

\* The API server drops what is not a field of the spec.
ASSUME ManifestsAssumption == \A m \in Manifests : DOMAIN m \subseteq Fields

Structs ==
    {{"indexDirs", "journalDir", "ledgerDirs"}, {"bookie", "admin", "metrics"},
     {"reclaimPolicy", "journal", "ledger", "index"}}

Init ==
    /\ asked = NoSpec
    /\ stored = NoSpec
    /\ phase = "none"
    /\ fin = FALSE
    /\ running = FALSE
    /\ claims = FALSE
    /\ up = TRUE
    /\ edits = 0
    /\ crashes = 0
-----------------------------------------------------------------------------
(* setDefaults                                                              *)

Default(f) == IF f \in {"gc", "gcLogging", "bkConfig"} THEN Zero ELSE "default"

Missing_WholeStruct(f, s) ==
    \A str \in Structs : f \in str => str \cap DOMAIN s = {}
Missing_Zeros(f, s) == f \notin DOMAIN s \/ s[f] = Zero
Missing(f, s) == f \notin DOMAIN s \/ (f \in Plain /\ s[f] = Zero)

\* Whatever is not one of the two policies becomes Delete.
ReclaimPolicy(s) ==
    IF /\ "reclaimPolicy" \in DOMAIN s
       /\ s["reclaimPolicy"] \in {"Delete", "Retain"}
    THEN s["reclaimPolicy"]
    ELSE "Delete"

Unset(s) == {f \in Fields \ {"reclaimPolicy"} : Missing(f, s)}

SetDefaults(s) ==
    [f \in Unset(s) \cup {"reclaimPolicy"} \cup DOMAIN s |->
        IF f = "reclaimPolicy" THEN ReclaimPolicy(s)
        ELSE IF f \in Unset(s) THEN Default(f)
        ELSE s[f]]

\* The webhook sees every spec that is created or updated, before it is
\* validated.
Admitted(s) == up /\ stored' = SetDefaults(s)
-----------------------------------------------------------------------------
(* Users.                                                                   *)

CreateCluster ==
    /\ phase = "none"
    /\ phase' = "live"
    /\ \E m \in Manifests : asked' = m /\ Admitted(m)
    /\ UNCHANGED <<fin, running, claims, up, edits, crashes>>

\* What kubectl apply sends: fields that leave the manifest leave the spec, and
\* those that never were in one stay.
Merged(m) ==
    [f \in DOMAIN m \cup (DOMAIN stored \ DOMAIN asked) |->
        IF f \in DOMAIN m THEN m[f] ELSE stored[f]]

\* A manifest is applied, or replaces the resource.
ApplyManifest ==
    /\ phase \in {"live", "deleting"}
    /\ edits < MaxEdits
    /\ edits' = edits + 1
    /\ \E m \in Manifests :
        /\ asked' = m
        /\ Admitted(m) \/ Admitted(Merged(m))
    /\ UNCHANGED <<phase, fin, running, claims, up, crashes>>

\* The webhook is not asked about deletions.
DeleteCluster ==
    /\ phase = "live"
    /\ phase' = IF fin THEN "deleting" ELSE "gone"
    /\ UNCHANGED <<asked, stored, fin, running, claims, up, edits, crashes>>
-----------------------------------------------------------------------------
(* The operator.                                                            *)

ShouldDeleteStorage == stored["reclaimPolicy"] = "Delete"

\* The StatefulSet gets its replicas; claims come with them, and go with them
\* if the policy says so.
ReconcileStatefulSet ==
    /\ running' = (stored["size"] # Zero)
    /\ claims' = IF running /\ ~running' /\ ShouldDeleteStorage
                 THEN FALSE ELSE claims \/ running'

IsScaledDown == stored["size"] = Zero /\ stored["autoRecoveryReplicas"] = Zero

ScaledDown == [stored EXCEPT !["size"] = Zero, !["autoRecoveryReplicas"] = Zero]

AddFinalizer ==
    /\ phase = "live"
    /\ IF fin THEN UNCHANGED stored ELSE Admitted(stored)
    /\ fin' = TRUE
    /\ UNCHANGED phase

DownscaleToZero ==
    /\ phase = "deleting"
    /\ ~IsScaledDown
    /\ Admitted(ScaledDown)
    /\ UNCHANGED <<phase, fin>>

RemoveFinalizer ==
    /\ phase = "deleting"
    /\ IsScaledDown
    /\ phase' = "gone"
    /\ fin' = FALSE
    /\ UNCHANGED stored

Reconcile ==
    /\ up
    /\ phase \in {"live", "deleting"}
    /\ ReconcileStatefulSet
    /\ AddFinalizer \/ DownscaleToZero \/ RemoveFinalizer
    /\ UNCHANGED <<asked, up, edits, crashes>>

CrashOperator ==
    /\ up
    /\ crashes < MaxCrashes
    /\ crashes' = crashes + 1
    /\ up' = FALSE
    /\ UNCHANGED <<asked, stored, phase, fin, running, claims, edits>>

\* main registers the webhook and the reconciler before it starts either.
StartOperator ==
    /\ ~up
    /\ up' = TRUE
    /\ UNCHANGED <<asked, stored, phase, fin, running, claims, edits, crashes>>

Next ==
    \/ CreateCluster
    \/ ApplyManifest
    \/ DeleteCluster
    \/ Reconcile
    \/ CrashOperator
    \/ StartOperator

Spec == Init /\ [][Next]_vars

\* An operator that goes down is started again, and works while it is up.
FairSpec == Spec /\ WF_vars(Reconcile) /\ WF_vars(StartOperator)
-----------------------------------------------------------------------------
(* Properties.                                                              *)

\* What is stored is complete, so that no pointer the reconciler follows is
\* nil, and is what the last manifest alone determines, whether it was applied
\* or replaced the resource, and whatever was stored before; only a deletion
\* scales the cluster down.
SpecFollowsManifest ==
    phase # "none" =>
        /\ DOMAIN stored = Fields
        /\ \A f \in Fields :
            \/ stored[f] = SetDefaults(asked)[f]
            \/ /\ phase # "live"
               /\ f \in {"size", "autoRecoveryReplicas"}
               /\ stored[f] = Zero

\* A deletion gets through: the zeros that the operator writes into the spec
\* are not taken for missing values by the webhook, which would scale the
\* cluster up again, time after time.
DeletionGetsThrough == phase = "deleting" ~> phase = "gone"

\* "The default value is Retain": a user who did not ask for the policy Delete
\* keeps the claims.
RetainByDefault ==
    [][claims /\ ~claims' =>
        /\ "reclaimPolicy" \in DOMAIN asked
        /\ asked["reclaimPolicy"] = "Delete"]_vars
=============================================================================
