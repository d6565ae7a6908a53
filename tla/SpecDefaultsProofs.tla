-------------------------- MODULE SpecDefaultsProofs --------------------------
(***************************************************************************)
(* SpecFollowsManifest, for any set of manifests, any number of edits and  *)
(* any number of restarts of the operator.                                 *)
(*                                                                         *)
(* The webhook completes what the operator writes as well as what users    *)
(* do, so the theorem rests on two lemmas about setDefaults: it finds      *)
(* nothing to do in a complete spec, with zeros of the operator or         *)
(* without, and it makes a field that left the manifest what it would have *)
(* been had it never been there.                                           *)
(***************************************************************************)
EXTENDS SpecDefaults, TLAPS

\* The fields that the operator sets to zero before a deletion.
ScaledFields == {"size", "autoRecoveryReplicas"}

\* The spec that a manifest determines, except for zeros of a deletion.
FollowsBut(s, m, zeros) ==
    /\ DOMAIN s = Fields
    /\ \A f \in Fields :
        \/ s[f] = SetDefaults(m)[f]
        \/ f \in zeros /\ s[f] = Zero

-----------------------------------------------------------------------------
(* setDefaults                                                              *)

\* The fields the operator scales are pointers, which keep their zeros.
LEMMA ScaledAreNilable ==
    /\ ScaledFields \subseteq Nilable
    /\ Plain \cap Nilable = {} /\ "reclaimPolicy" \notin Plain \cup Nilable
BY DEF ScaledFields, Nilable, Plain

\* A default is no zero where a zero counts as missing.
LEMMA DefaultsOfPlain ==
    \A f \in Plain : Default(f) # Zero
BY DEF Plain, Default, Zero

\* setDefaults gives every field a value: its own, if it has one that counts,
\* or else the default.
LEMMA SetDefaultsGives ==
    ASSUME NEW s, DOMAIN s \subseteq Fields
    PROVE  /\ DOMAIN SetDefaults(s) = Fields
           /\ SetDefaults(s)["reclaimPolicy"] = ReclaimPolicy(s)
           /\ \A f \in Fields \ {"reclaimPolicy"} :
                SetDefaults(s)[f] = IF Missing(f, s) THEN Default(f) ELSE s[f]
<1>1. Unset(s) \subseteq Fields /\ "reclaimPolicy" \in Fields
  BY DEF Unset, Fields
<1>2. \A f \in Fields \ {"reclaimPolicy"} : f \in Unset(s) <=> Missing(f, s)
  BY DEF Unset
<1>3. \A f \in Fields \ {"reclaimPolicy"} : f \in Unset(s) \/ f \in DOMAIN s
  BY <1>2 DEF Missing
<1>4. QED
  BY <1>1, <1>2, <1>3 DEF SetDefaults

\* What a manifest determines, the webhook leaves alone, and so it does the
\* zeros that the operator put in its place.
LEMMA SetDefaultsKeeps ==
    ASSUME NEW s, NEW m, NEW zeros,
           DOMAIN m \subseteq Fields, zeros \subseteq ScaledFields,
           FollowsBut(s, m, zeros)
    PROVE  FollowsBut(SetDefaults(s), m, zeros)
<1>1. DOMAIN s = Fields
  BY DEF FollowsBut
<1>2. SetDefaults(s)["reclaimPolicy"] = SetDefaults(m)["reclaimPolicy"]
  <2>1. s["reclaimPolicy"] = SetDefaults(m)["reclaimPolicy"]
    BY ScaledAreNilable DEF FollowsBut, Fields
  <2>2. s["reclaimPolicy"] = ReclaimPolicy(m)
    BY <2>1, SetDefaultsGives
  <2>3. s["reclaimPolicy"] \in {"Delete", "Retain"}
    BY <2>2 DEF ReclaimPolicy
  <2>4. SetDefaults(s)["reclaimPolicy"] = ReclaimPolicy(s)
    BY <1>1, SetDefaultsGives
  <2>5. ReclaimPolicy(s) = s["reclaimPolicy"]
    BY <1>1, <2>3 DEF ReclaimPolicy, Fields
  <2>6. QED
    BY <2>1, <2>4, <2>5
<1>3. ASSUME NEW f \in Plain
      PROVE  SetDefaults(s)[f] = SetDefaults(m)[f]
  <2>1. f \in Fields \ {"reclaimPolicy"} /\ f \notin zeros
    BY ScaledAreNilable DEF Fields
  <2>2. s[f] = SetDefaults(m)[f]
    BY <2>1 DEF FollowsBut
  <2>3. SetDefaults(m)[f] # Zero
    BY <2>1, SetDefaultsGives, DefaultsOfPlain DEF Missing
  <2>4. ~Missing(f, s)
    BY <1>1, <2>1, <2>2, <2>3 DEF Missing
  <2>5. QED
    BY <1>1, <2>1, <2>2, <2>4, SetDefaultsGives
<1>4. ASSUME NEW f \in Nilable
      PROVE  SetDefaults(s)[f] = s[f]
  <2>1. f \in Fields \ {"reclaimPolicy"} /\ f \notin Plain
    BY ScaledAreNilable DEF Fields
  <2>2. ~Missing(f, s)
    BY <1>1, <2>1 DEF Missing
  <2>3. QED
    BY <1>1, <2>1, <2>2, SetDefaultsGives
<1>5. DOMAIN SetDefaults(s) = Fields
  BY <1>1, SetDefaultsGives
<1>6. QED
  BY <1>2, <1>3, <1>4, <1>5 DEF FollowsBut, Fields

\* A manifest that is applied replaces the one before it: what that one alone
\* had goes back to its default, and what neither has is at its default.
LEMMA MergedFollows ==
    ASSUME NEW m, NEW zeros,
           DOMAIN m \subseteq Fields, DOMAIN asked \subseteq Fields,
           zeros \subseteq ScaledFields,
           FollowsBut(stored, asked, zeros)
    PROVE  FollowsBut(SetDefaults(Merged(m)), m, zeros)
<1> DEFINE mm == Merged(m)
<1>1. DOMAIN stored = Fields
  BY DEF FollowsBut
<1>2. /\ DOMAIN mm = DOMAIN m \cup (Fields \ DOMAIN asked)
      /\ \A f \in DOMAIN m : mm[f] = m[f]
      /\ \A f \in DOMAIN mm \ DOMAIN m : mm[f] = stored[f]
  BY <1>1 DEF Merged
<1>3. DOMAIN mm \subseteq Fields
  BY <1>2
<1> HIDE DEF mm
<1>4. SetDefaults(mm)["reclaimPolicy"] = SetDefaults(m)["reclaimPolicy"]
  <2>1. /\ SetDefaults(mm)["reclaimPolicy"] = ReclaimPolicy(mm)
        /\ SetDefaults(m)["reclaimPolicy"] = ReclaimPolicy(m)
    BY <1>3, SetDefaultsGives
  <2>2. CASE "reclaimPolicy" \in DOMAIN m \cup DOMAIN asked
    BY <1>2, <2>1, <2>2 DEF ReclaimPolicy
  <2>3. CASE "reclaimPolicy" \notin DOMAIN m \cup DOMAIN asked
    <3>1. mm["reclaimPolicy"] = stored["reclaimPolicy"]
      BY <1>2, <2>3 DEF Fields
    <3>2. stored["reclaimPolicy"] = SetDefaults(asked)["reclaimPolicy"]
      BY ScaledAreNilable DEF FollowsBut, Fields
    <3>3. SetDefaults(asked)["reclaimPolicy"] = "Delete"
      BY <2>3, SetDefaultsGives DEF ReclaimPolicy
    <3>4. QED
      BY <2>1, <2>3, <3>1, <3>2, <3>3 DEF ReclaimPolicy
  <2>4. QED
    BY <2>2, <2>3
<1>5. ASSUME NEW f \in Fields \ {"reclaimPolicy"}
      PROVE  \/ SetDefaults(mm)[f] = SetDefaults(m)[f]
             \/ f \in zeros /\ SetDefaults(mm)[f] = Zero
  <2>1. CASE f \in DOMAIN m \cup DOMAIN asked
    <3>1. /\ Missing(f, mm) <=> Missing(f, m)
          /\ ~Missing(f, m) => mm[f] = m[f]
      BY <1>2, <2>1 DEF Missing
    <3>2. QED
      BY <1>3, <3>1, SetDefaultsGives
  <2>2. CASE f \notin DOMAIN m \cup DOMAIN asked
    <3>1. /\ SetDefaults(m)[f] = Default(f)
          /\ SetDefaults(asked)[f] = Default(f)
      BY <2>2, SetDefaultsGives DEF Missing
    <3>2. f \in DOMAIN mm /\ mm[f] = stored[f]
      BY <1>2, <2>2
    <3>3. mm[f] = Default(f) \/ (f \in zeros /\ mm[f] = Zero)
      BY <3>1, <3>2 DEF FollowsBut
    <3>4. SetDefaults(mm)[f] = Default(f) \/ SetDefaults(mm)[f] = mm[f]
      BY <1>3, SetDefaultsGives
    <3>5. QED
      BY <3>1, <3>3, <3>4
  <2>3. QED
    BY <2>1, <2>2
<1>6. DOMAIN SetDefaults(mm) = Fields
  BY <1>3, SetDefaultsGives
<1>7. QED
  BY <1>4, <1>5, <1>6 DEF FollowsBut, mm

\* A manifest that is written as it is determines the spec.
LEMMA ManifestFollows ==
    ASSUME NEW m, NEW zeros, DOMAIN m \subseteq Fields
    PROVE  FollowsBut(SetDefaults(m), m, zeros)
BY SetDefaultsGives DEF FollowsBut

\* The operator's zeros go where a deletion may have them.
LEMMA ScaledDownFollows ==
    ASSUME FollowsBut(stored, asked, ScaledFields)
    PROVE  FollowsBut(ScaledDown, asked, ScaledFields)
BY DEF FollowsBut, ScaledDown, ScaledFields
-----------------------------------------------------------------------------
(* The invariant.                                                           *)

MayBeZero == IF phase = "live" THEN {} ELSE ScaledFields

DefaultsInv ==
    /\ phase \in {"none", "live", "deleting", "gone"}
    /\ phase # "none" =>
        asked \in Manifests /\ FollowsBut(stored, asked, MayBeZero)

\* Every step keeps the stored spec at what the last manifest determines.
LEMMA DefaultsStep ==
    ASSUME DefaultsInv, [Next]_vars
    PROVE  DefaultsInv'
<1> USE DEF DefaultsInv
<1>0. MayBeZero \subseteq ScaledFields
  BY DEF MayBeZero
<1>1. CASE CreateCluster
  BY <1>1, ManifestsAssumption, ManifestFollows
  DEF CreateCluster, Admitted
<1>2. CASE ApplyManifest
  <2>1. PICK m \in Manifests : asked' = m /\ (Admitted(m) \/ Admitted(Merged(m)))
    BY <1>2 DEF ApplyManifest
  <2>2. phase' = phase /\ phase \in {"live", "deleting"}
    BY <1>2 DEF ApplyManifest
  <2>3. DOMAIN m \subseteq Fields /\ DOMAIN asked \subseteq Fields
    BY <2>2, ManifestsAssumption
  <2>4. /\ FollowsBut(SetDefaults(m), m, MayBeZero)
        /\ FollowsBut(SetDefaults(Merged(m)), m, MayBeZero)
    BY <1>0, <2>2, <2>3, ManifestFollows, MergedFollows
  <2>5. FollowsBut(stored', m, MayBeZero)
    BY <2>1, <2>4 DEF Admitted
  <2>6. QED
    BY <2>1, <2>2, <2>5 DEF MayBeZero
<1>3. CASE DeleteCluster
  BY <1>3 DEF DeleteCluster, MayBeZero, FollowsBut
<1>4. CASE Reconcile
  <2>1. /\ phase \in {"live", "deleting"} /\ asked' = asked
        /\ DOMAIN asked \subseteq Fields
    BY <1>4, ManifestsAssumption DEF Reconcile
  <2>2. CASE AddFinalizer
    <3>1. FollowsBut(SetDefaults(stored), asked, MayBeZero)
      BY <1>0, <2>1, SetDefaultsKeeps
    <3>2. phase' = phase /\ stored' \in {stored, SetDefaults(stored)}
      BY <2>2 DEF AddFinalizer, Admitted
    <3>3. QED
      BY <2>1, <3>1, <3>2 DEF MayBeZero
  <2>3. CASE DownscaleToZero
    <3>1. MayBeZero = ScaledFields /\ phase' = phase
      BY <2>3 DEF DownscaleToZero, MayBeZero
    <3>2. FollowsBut(SetDefaults(ScaledDown), asked, ScaledFields)
      BY <2>1, <3>1, ScaledDownFollows, SetDefaultsKeeps
    <3>3. stored' = SetDefaults(ScaledDown)
      BY <2>3 DEF DownscaleToZero, Admitted
    <3>4. QED
      BY <2>1, <3>1, <3>2, <3>3 DEF MayBeZero
  <2>4. CASE RemoveFinalizer
    BY <2>1, <2>4 DEF RemoveFinalizer, MayBeZero
  <2>5. QED
    BY <1>4, <2>2, <2>3, <2>4 DEF Reconcile
<1>5. CASE CrashOperator \/ StartOperator \/ UNCHANGED vars
  BY <1>5 DEF CrashOperator, StartOperator, vars, MayBeZero
<1>6. QED
  BY <1>1, <1>2, <1>3, <1>4, <1>5 DEF Next

\* What is stored is complete and follows the last manifest, whether it was
\* applied or replaced the resource, and whatever the operator wrote meanwhile.
THEOREM SpecIsTheManifests == Spec => []SpecFollowsManifest
<1>1. Init => DefaultsInv
  BY DEF Init, DefaultsInv
<1>2. DefaultsInv => SpecFollowsManifest
  BY DEF DefaultsInv, MayBeZero, FollowsBut, ScaledFields, SpecFollowsManifest
<1>3. QED
  BY <1>1, <1>2, DefaultsStep, PTL DEF Spec
=============================================================================
