----------------------------- MODULE ZkMetadata -----------------------------
(***************************************************************************)
(* What the reconcile loop relies on when it calls UpdateMetadata and      *)
(* DeleteMetadata.  A call may do its work bit by bit and stop anywhere    *)
(* with an error, but one that returns without an error is all done, at    *)
(* the moment it returns, whatever the bookies wrote meanwhile.            *)
(***************************************************************************)
EXTENDS Naturals

VARIABLES
    nodes,      \* which znodes there are: the cluster's root, the two of the
                \* operator, and "ledgers" for any others below the root
    size,       \* the data of the size node, 0 without one
    call        \* the call in progress

vars == <<nodes, size, call>>

Updates == [op: {"update"}, size: Nat]
Deletion == [op |-> "delete"]
Done == [op |-> "done"]
NoCall == [op |-> "none"]

Init == nodes = {} /\ size = 0 /\ call = NoCall

\* A call begins, or its caller forgets that the last one succeeded.
Begin ==
    /\ call \in {NoCall, Done}
    /\ call' \in Updates \cup {Deletion, NoCall}
    /\ UNCHANGED <<nodes, size>>

\* Bookies and autorecovery daemons write znodes of their own and, for them,
\* the root; some of theirs go by themselves.
Others ==
    /\ nodes' \in {nodes \cup {"root"}, nodes \cup {"root", "ledgers"},
                   nodes \ {"ledgers"}}
    /\ UNCHANGED <<size, call>>

\* An update brings the operator's nodes, and no size but its own.
UpdatePart ==
    /\ call.op = "update"
    /\ nodes \subseteq nodes'
    /\ nodes' \subseteq nodes \cup {"root", "size", "updatedat"}
    /\ \/ size' = size /\ ("size" \in nodes' => "size" \in nodes)
       \/ size' = call.size /\ "size" \in nodes'

\* A deletion takes nodes away, the root after all others.
DeletePart ==
    /\ call = Deletion
    /\ nodes' \subseteq nodes
    /\ "root" \in nodes \ nodes' => nodes' = {}
    /\ size' = IF "size" \in nodes' THEN size ELSE 0

Work == (UpdatePart \/ DeletePart) /\ call' \in {call, NoCall}

\* What a broken connection still had under way may come later: a size for the
\* node that is there, or a node less.  It never comes after an update's success.
Overdue ==
    /\ call = Done => "size" \notin nodes
    /\ \/ nodes' = nodes /\ "size" \in nodes /\ size' \in Nat
       \/ /\ nodes' \subseteq nodes
          /\ "root" \in nodes \ nodes' => nodes' = {}
          /\ size' = IF "size" \in nodes' THEN size ELSE 0
    /\ UNCHANGED call

Complete ==
    \/ UpdatePart /\ {"root", "size", "updatedat"} \subseteq nodes' /\ size' = call.size
    \/ DeletePart /\ nodes' = {}

Return == Complete /\ call' = Done

Next == Begin \/ Others \/ Work \/ Overdue \/ Return

Spec == Init /\ [][Next]_vars
=============================================================================
