--------------------------- MODULE MCSpecDefaults ----------------------------
(***************************************************************************)
(* Small instances of SpecDefaults.                                        *)
(***************************************************************************)
EXTENDS SpecDefaults, TLC

Sized == [size |-> "three"]

\* The example of the README, a part of every struct, zeros of every kind, and
\* a policy that is misspelt.
SomeManifests ==
    {Sized,
     Sized @@ [reclaimPolicy |-> "Retain", bookie |-> "own", journalDir |-> "own"],
     [reclaimPolicy |-> "retain", journal |-> "own", metrics |-> Zero],
     [size |-> Zero, memory |-> Zero, maxUnavailableNodes |-> Zero],
     [autoRecoveryReplicas |-> Zero, reclaimPolicy |-> "Delete", gc |-> "own"]}
=============================================================================
