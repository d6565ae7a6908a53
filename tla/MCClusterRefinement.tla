------------------------- MODULE MCClusterRefinement -------------------------
(***************************************************************************)
(* The instances of MCClusterReconcile for the refinements.                *)
(***************************************************************************)
EXTENDS MCClusterReconcile, ClusterRefinement
=============================================================================
