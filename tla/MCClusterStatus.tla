--------------------------- MODULE MCClusterStatus ---------------------------
(***************************************************************************)
(* Small instances of ClusterStatus: all of its constants are numbers and  *)
(* truth values, which the configurations give.                            *)
(***************************************************************************)
EXTENDS ClusterStatus
=============================================================================
