-------------------------- MODULE ClusterRefinement --------------------------
(***************************************************************************)
(* The reconcile loop seen from ZooKeeper: how its state maps to that of   *)
(* the specification that it relies on.                                    *)
(***************************************************************************)
EXTENDS ClusterReconcile

\* The call of the ZooKeeper client that a run is in.  It has just succeeded
\* when the run goes on to record a new size, or to remove the finalizer.
ZkCall ==
    CASE pc \in {"zkSize", "zkTime"} -> [op |-> "update", size |-> mem.spec.size]
      [] pc = "zkDelete"             -> [op |-> "delete"]
      [] pc = "unfinalize"           -> [op |-> "done"]
      [] pc = "record" /\ mem.spec.size # mem.meta.size -> [op |-> "done"]
      [] OTHER                       -> [op |-> "none"]

SizeNode == IF "size" \in zk.nodes THEN zk.size ELSE 0

Metadata == INSTANCE ZkMetadata
    WITH nodes <- zk.nodes, size <- SizeNode, call <- ZkCall

\* The loop asks of the ZooKeeper client what ZkMetadata promises and no more:
\* one call at a time, which may stop halfway, while the bookies write.
UsesMetadata == Metadata!Spec
=============================================================================
