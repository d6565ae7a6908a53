---------------------------- MODULE RolloutProofs ----------------------------
(***************************************************************************)
(* UpdatedAsCreated, for any specs, any number of edits and of failed      *)
(* runs, provided that edits move on.                                      *)
(*                                                                         *)
(* The functions of a run decide by what the status recorded, not by what  *)
(* an object has.  What ties the two together is an order in which the     *)
(* versions, and the configurations, are asked for: that of an object is   *)
(* never older than the recorded one and never newer than the one asked    *)
(* for, so it is both when these agree and nothing is updated.             *)
(***************************************************************************)
EXTENDS Rollout, TLAPS

Asked == Specs \cup {e[2] : e \in Edits}

\* With the blank ones of a status that was never written.
Versions == {NoMeta.ver} \cup {s.ver : s \in Asked}
Configs  == {NoMeta.cfg} \cup {s.cfg : s \in Asked}

\* An order of the values in which the blank one is the first.
Order(values, blank) ==
    {age \in [values -> Nat] :
        /\ \A v \in values : age[blank] <= age[v]
        /\ \A v, w \in values : age[v] = age[w] => v = w}

\* No edit brings a version or a configuration back to an earlier one, and
\* none changes what no update of an object looks at.
InOrder(va, ca) ==
    \A e \in Edits :
        /\ va[e[1].ver] <= va[e[2].ver]
        /\ ca[e[1].cfg] <= ca[e[2].cfg]
        /\ e[1].layout = e[2].layout
        /\ e[1].ledger = e[2].ledger

EditsMoveOn ==
    \E va \in Order(Versions, NoMeta.ver), ca \in Order(Configs, NoMeta.cfg) :
        InOrder(va, ca)

-----------------------------------------------------------------------------
\* The ConfigMap is between what was recorded and what is asked for.
CmBetween(ca) ==
    \/ cm = NoObject /\ meta = NoMeta
    \/ /\ cm = [cfg |-> cm.cfg, layout |-> spec.layout]
       /\ cm.cfg \in Configs
       /\ ca[meta.cfg] <= ca[cm.cfg] /\ ca[cm.cfg] <= ca[spec.cfg]

\* So is the StatefulSet, but for its size.
StsBetween(va) ==
    \/ sts = NoObject /\ meta = NoMeta
    \/ /\ sts = [size |-> sts.size, image |-> sts.image, layout |-> spec.layout,
                 claims |-> CreatePersistentVolumeClaims(spec)]
       /\ sts.image \in Versions
       /\ va[meta.ver] <= va[sts.image] /\ va[sts.image] <= va[spec.ver]

\* The other objects have nothing that is compared with a record.
OthersMade ==
    /\ svc \in {NoObject, CreateService(spec)}
    /\ dep = NoObject \/ dep = [replicas |-> dep.replicas, image |-> dep.image]

RolloutInv(va, ca) ==
    /\ spec \in Asked
    /\ meta.ver \in Versions /\ meta.cfg \in Configs
    /\ CmBetween(ca)
    /\ StsBetween(va)
    /\ OthersMade
    /\ UpdatedAsCreated

\* An object that is there is not the absent one.
LEMMA ObjectsExist ==
    ASSUME NEW s
    PROVE  /\ CreateConfigMap(s) # NoObject /\ CreateStatefulSet(s) # NoObject
           /\ CreateService(s) # NoObject /\ CreateAutoRecoveryDeployment(s) # NoObject
<1>1. /\ DOMAIN NoObject = {"exists"} /\ DOMAIN CreateConfigMap(s) = {"cfg", "layout"}
      /\ DOMAIN CreateStatefulSet(s) = {"size", "image", "layout", "claims"}
      /\ DOMAIN CreateService(s) = {"layout"}
      /\ DOMAIN CreateAutoRecoveryDeployment(s) = {"replicas", "image"}
  BY DEF NoObject, CreateConfigMap, CreateStatefulSet, CreateService,
         CreateAutoRecoveryDeployment
<1>2. /\ {"exists"} # {"cfg", "layout"} /\ {"exists"} # {"layout"}
      /\ {"exists"} # {"size", "image", "layout", "claims"}
      /\ {"exists"} # {"replicas", "image"}
  OBVIOUS
<1>3. QED
  BY <1>1, <1>2, Zenon

\* Each function leaves its object as creating it afresh would.
LEMMA ReconciledAsCreated ==
    ASSUME NEW va \in Order(Versions, NoMeta.ver),
           NEW ca \in Order(Configs, NoMeta.cfg),
           RolloutInv(va, ca)
    PROVE  /\ ReconciledConfigMap = CreateConfigMap(spec)
           /\ ReconciledService = CreateService(spec)
           /\ ReconciledStatefulSet = CreateStatefulSet(spec)
           /\ ReconciledDeployment.replicas = spec.ar
           /\ ReconciledDeployment = [replicas |-> ReconciledDeployment.replicas,
                                      image |-> ReconciledDeployment.image]
<1>1. spec.ver \in Versions /\ spec.cfg \in Configs
  BY DEF RolloutInv, Versions, Configs
<1>2. meta.ver \in Versions /\ meta.cfg \in Configs
  BY DEF RolloutInv
<1>3. /\ \A v \in Versions : va[v] \in Nat
      /\ \A v, w \in Versions : va[v] = va[w] => v = w
      /\ \A c \in Configs : ca[c] \in Nat
      /\ \A c, d \in Configs : ca[c] = ca[d] => c = d
  BY DEF Order
<1>4. ReconciledConfigMap = CreateConfigMap(spec)
  <2>1. CASE cm = NoObject \/ spec.cfg # meta.cfg
    BY <2>1 DEF ReconciledConfigMap
  <2>2. CASE cm # NoObject /\ spec.cfg = meta.cfg
    <3>1. /\ cm = [cfg |-> cm.cfg, layout |-> spec.layout]
          /\ cm.cfg \in Configs
          /\ ca[spec.cfg] <= ca[cm.cfg] /\ ca[cm.cfg] <= ca[spec.cfg]
      BY <2>2 DEF RolloutInv, CmBetween
    <3>2. cm.cfg = spec.cfg
      BY <1>1, <1>3, <3>1
    <3>3. QED
      BY <2>2, <3>1, <3>2 DEF ReconciledConfigMap, CreateConfigMap
  <2>3. QED
    BY <2>1, <2>2
<1>5. ReconciledStatefulSet = CreateStatefulSet(spec)
  <2>1. CASE sts = NoObject
    BY <2>1 DEF ReconciledStatefulSet
  <2>2. CASE sts # NoObject
    <3>1. /\ sts = [size |-> sts.size, image |-> sts.image, layout |-> spec.layout,
                    claims |-> CreatePersistentVolumeClaims(spec)]
          /\ sts.image \in Versions
          /\ va[meta.ver] <= va[sts.image] /\ va[sts.image] <= va[spec.ver]
      BY <2>2 DEF RolloutInv, StsBetween
    <3>2. ASSUME NEW size, NEW image, NEW claims,
                 sts = [size |-> size, image |-> image, layout |-> spec.layout,
                        claims |-> claims]
          PROVE  UpdatedStatefulSet =
                    [size |-> spec.size, image |-> spec.ver,
                     layout |-> spec.layout, claims |-> claims]
      <4>1. UpdatedStatefulSet =
                [[size |-> size, image |-> image, layout |-> spec.layout,
                  claims |-> claims] EXCEPT !.size = spec.size, !.image = spec.ver]
        BY <3>2 DEF UpdatedStatefulSet
      <4>2. QED
        BY <4>1
    <3>3. ~ShouldUpdateStatefulSet => sts = CreateStatefulSet(spec)
      BY <1>1, <1>3, <3>1 DEF ShouldUpdateStatefulSet, CreateStatefulSet
    <3>4. QED
      BY <2>2, <3>1, <3>2, <3>3 DEF ReconciledStatefulSet, CreateStatefulSet
  <2>3. QED
    BY <2>1, <2>2
<1>6. ReconciledService = CreateService(spec)
  BY DEF RolloutInv, OthersMade, ReconciledService
<1>7. /\ ReconciledDeployment.replicas = spec.ar
      /\ ReconciledDeployment = [replicas |-> ReconciledDeployment.replicas,
                                 image |-> ReconciledDeployment.image]
  BY DEF RolloutInv, OthersMade, ReconciledDeployment, CreateAutoRecoveryDeployment
<1>8. QED
  BY <1>4, <1>5, <1>6, <1>7

\* A run, whole or not, keeps the invariant.
LEMMA ReconcileStep ==
    ASSUME NEW va \in Order(Versions, NoMeta.ver),
           NEW ca \in Order(Configs, NoMeta.cfg),
           RolloutInv(va, ca), Reconcile
    PROVE  RolloutInv(va, ca)'
<1>1. PICK done \in 0..5 :
        /\ cm'   = IF done >= 1 THEN ReconciledConfigMap ELSE cm
        /\ svc'  = IF done >= 2 THEN ReconciledService ELSE svc
        /\ sts'  = IF done >= 3 THEN ReconciledStatefulSet ELSE sts
        /\ dep'  = IF done >= 4 THEN ReconciledDeployment ELSE dep
        /\ meta' = IF done >= 5 THEN RecordedMeta ELSE meta
        /\ queued' = (done < 5 \/ <<meta, objects>>' # <<meta, objects>>)
  BY DEF Reconcile
<1>2. spec' = spec
  BY DEF Reconcile
<1>3. /\ ReconciledConfigMap = CreateConfigMap(spec)
      /\ ReconciledService = CreateService(spec)
      /\ ReconciledStatefulSet = CreateStatefulSet(spec)
      /\ ReconciledDeployment.replicas = spec.ar
      /\ ReconciledDeployment = [replicas |-> ReconciledDeployment.replicas,
                                 image |-> ReconciledDeployment.image]
  BY ReconciledAsCreated
<1>4. /\ spec.ver \in Versions /\ spec.cfg \in Configs
      /\ meta.ver \in Versions /\ meta.cfg \in Configs
  BY DEF RolloutInv, Versions, Configs
<1>5. /\ \A v \in Versions : va[v] \in Nat /\ va[NoMeta.ver] <= va[v]
      /\ \A c \in Configs : ca[c] \in Nat /\ ca[NoMeta.cfg] <= ca[c]
  BY DEF Order
<1>6. meta' \in {meta, RecordedMeta}
  BY <1>1
<1>7. RecordedMeta.ver = spec.ver /\ RecordedMeta.cfg = spec.cfg
  BY DEF RecordedMeta
<1>8. meta'.ver \in Versions /\ meta'.cfg \in Configs
  BY <1>4, <1>6, <1>7
<1>9. ca[meta'.cfg] <= ca[spec.cfg] /\ va[meta'.ver] <= va[spec.ver]
  <2>1. ca[meta.cfg] <= ca[spec.cfg]
    BY <1>4, <1>5 DEF RolloutInv, CmBetween
  <2>2. va[meta.ver] <= va[spec.ver]
    BY <1>4, <1>5 DEF RolloutInv, StsBetween
  <2>3. QED
    BY <1>4, <1>5, <1>6, <1>7, <2>1, <2>2
<1>10. CmBetween(ca)'
  <2>1. CASE cm' = CreateConfigMap(spec)
    BY <1>2, <1>4, <1>5, <1>9, <2>1 DEF CmBetween, CreateConfigMap
  <2>2. CASE cm' = cm /\ meta' = meta
    BY <1>2, <2>2 DEF RolloutInv, CmBetween
  <2>3. QED
    BY <1>1, <1>3, <2>1, <2>2
<1>11. StsBetween(va)'
  <2>1. CASE sts' = CreateStatefulSet(spec)
    BY <1>2, <1>4, <1>5, <1>9, <2>1
    DEF StsBetween, CreateStatefulSet, CreatePersistentVolumeClaims
  <2>2. CASE sts' = sts /\ meta' = meta
    BY <1>2, <2>2 DEF RolloutInv, StsBetween, CreatePersistentVolumeClaims
  <2>3. QED
    BY <1>1, <1>3, <2>1, <2>2
<1>12. OthersMade'
  BY <1>1, <1>2, <1>3 DEF RolloutInv, OthersMade, CreateService
<1>13. UpdatedAsCreated'
  <2>1. CASE done = 5
    BY <1>1, <1>2, <1>3, <2>1
    DEF UpdatedAsCreated, CreateConfigMap, CreateService, CreateStatefulSet,
        CreatePersistentVolumeClaims
  <2>2. CASE done # 5
    <3>1. done < 5
      BY <2>2
    <3>2. queued'
      BY <1>1, <3>1, Zenon
    <3>3. QED
      BY <3>2 DEF UpdatedAsCreated, Settled
  <2>3. QED
    BY <2>1, <2>2
<1>14. QED
  BY <1>2, <1>8, <1>10, <1>11, <1>12, <1>13 DEF RolloutInv

\* An edit keeps it, as it moves on.
LEMMA EditStep ==
    ASSUME NEW va \in Order(Versions, NoMeta.ver),
           NEW ca \in Order(Configs, NoMeta.cfg),
           InOrder(va, ca), RolloutInv(va, ca), EditSpec
    PROVE  RolloutInv(va, ca)'
<1>1. PICK e \in Edits : e[1] = spec /\ spec' = e[2]
  BY DEF EditSpec
<1>2. /\ UNCHANGED <<meta, cm, svc, sts, dep>> /\ queued' = TRUE
  BY DEF EditSpec, objects
<1>3. /\ va[spec.ver] <= va[spec'.ver] /\ ca[spec.cfg] <= ca[spec'.cfg]
      /\ spec'.layout = spec.layout /\ spec'.ledger = spec.ledger
  BY <1>1 DEF InOrder
<1>4. spec' \in Asked
  BY <1>1 DEF Asked
<1>5. /\ spec.ver \in Versions /\ spec.cfg \in Configs
      /\ spec'.ver \in Versions /\ spec'.cfg \in Configs
      /\ meta.ver \in Versions /\ meta.cfg \in Configs
  BY <1>4 DEF RolloutInv, Versions, Configs
<1>6. /\ \A v \in Versions : va[v] \in Nat
      /\ \A c \in Configs : ca[c] \in Nat
  BY DEF Order
<1>7. CmBetween(ca)'
  BY <1>2, <1>3, <1>5, <1>6 DEF RolloutInv, CmBetween
<1>8. StsBetween(va)'
  BY <1>2, <1>3, <1>5, <1>6
  DEF RolloutInv, StsBetween, CreatePersistentVolumeClaims
<1>9. OthersMade'
  BY <1>2, <1>3 DEF RolloutInv, OthersMade, CreateService
<1>10. UpdatedAsCreated'
  BY <1>2 DEF UpdatedAsCreated, Settled
<1>11. QED
  BY <1>2, <1>4, <1>5, <1>7, <1>8, <1>9, <1>10 DEF RolloutInv

\* So does every other step.
LEMMA RolloutStep ==
    ASSUME NEW va \in Order(Versions, NoMeta.ver),
           NEW ca \in Order(Configs, NoMeta.cfg),
           InOrder(va, ca), RolloutInv(va, ca), [Next]_vars
    PROVE  RolloutInv(va, ca)'
<1>1. CASE StartBookie \/ StopBookie \/ RollBookie \/ RestartBookie
  BY <1>1
  DEF StartBookie, StopBookie, RollBookie, RestartBookie, BookiesBecome,
      objects, RolloutInv, CmBetween, StsBetween, OthersMade, UpdatedAsCreated,
      Settled, CreateService, CreatePersistentVolumeClaims
<1>2. CASE UNCHANGED vars
  BY <1>2
  DEF vars, objects, RolloutInv, CmBetween, StsBetween, OthersMade,
      UpdatedAsCreated, Settled, CreateService, CreatePersistentVolumeClaims,
      CreateConfigMap, CreateStatefulSet
<1>3. QED
  BY <1>1, <1>2, ReconcileStep, EditStep DEF Next

\* Whichever runs failed between two objects, a settled cluster is the one that
\* its spec alone determines, as long as edits move on.
THEOREM UpdatesReachObjects == EditsMoveOn => (Spec => []UpdatedAsCreated)
<1> SUFFICES ASSUME EditsMoveOn
             PROVE  Spec => []UpdatedAsCreated
  OBVIOUS
<1>1. PICK va \in Order(Versions, NoMeta.ver), ca \in Order(Configs, NoMeta.cfg) :
        InOrder(va, ca)
  BY DEF EditsMoveOn
<1>2. Init => RolloutInv(va, ca)
  BY DEF Init, RolloutInv, Asked, Versions, Configs, CmBetween, StsBetween,
         OthersMade, UpdatedAsCreated, Settled
<1>3. RolloutInv(va, ca) /\ [Next]_vars => RolloutInv(va, ca)'
  BY <1>1, RolloutStep
<1>4. RolloutInv(va, ca) => UpdatedAsCreated
  BY DEF RolloutInv
<1>5. QED
  BY <1>2, <1>3, <1>4, PTL DEF Spec
=============================================================================
