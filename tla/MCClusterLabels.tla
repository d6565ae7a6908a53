--------------------------- MODULE MCClusterLabels ---------------------------
(***************************************************************************)
(* Small instances of ClusterLabels: all of its constants are numbers and  *)
(* truth values, which the configurations give.                            *)
(***************************************************************************)
EXTENDS ClusterLabels
=============================================================================
