----------------------------- MODULE ConfigData -----------------------------
(***************************************************************************)
(* The string maps of the operator: spec.bkConfig, its copy in             *)
(* status.metadata.bkConfig, and the data of the ConfigMap rendered from   *)
(* it.  A map is a function from a finite set of keys to values; a key of  *)
(* bkConfig is a pair <<prefix, name>> whose prefix is "BK_" or "", and a  *)
(* key of the ConfigMap is the name alone, since every key gets "BK_".     *)
(***************************************************************************)
EXTENDS FiniteSets

CONSTANTS
    Reserved,       \* names the operator does not let bkConfig set
    DefaultData     \* the entries the operator itself puts in the ConfigMap

Blank == ""
EmptyConfig == [k \in {} |-> Blank]

\* m[k] of a Go map: a missing key reads as the zero value.
Lookup(m, k) == IF k \in DOMAIN m THEN m[k] ELSE Blank

\* mapEqual compares the sizes, then the entries of m1 only.
MapEqual(m1, m2) ==
    /\ Cardinality(DOMAIN m1) = Cardinality(DOMAIN m2)
    /\ \A k \in DOMAIN m1 : Lookup(m2, k) = m1[k]

NamesOf(c) == {k[2] : k \in DOMAIN c}

(***************************************************************************)
(* createConfigmapData.  bkConfig is ranged over in no fixed order, so     *)
(* when "x" and "BK_x" are both set either may be the one written last.    *)
(* An overriding entry replaces the default one, and entries that are      *)
(* blank in the end are dropped, the operator's own included.              *)
(***************************************************************************)
Overrides(c) ==
    LET names == NamesOf(c) \ Reserved
    IN  {o \in [names -> {c[k] : k \in DOMAIN c}] :
            \A n \in names : \E k \in DOMAIN c : k[2] = n /\ o[n] = c[k]}

Merged(o) ==
    [n \in DOMAIN o \cup DOMAIN DefaultData |->
        IF n \in DOMAIN o THEN o[n] ELSE DefaultData[n]]

NonBlank(d) == [n \in {n \in DOMAIN d : d[n] # Blank} |-> d[n]]

\* Every ConfigMap the operator may write for the bkConfig c.
Renderings(c) == {NonBlank(Merged(o)) : o \in Overrides(c)}
=============================================================================
