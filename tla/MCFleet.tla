------------------------------- MODULE MCFleet -------------------------------
(***************************************************************************)
(* Small instances of Fleet.                                               *)
(***************************************************************************)
EXTENDS Fleet

Cluster(ns, name) == [ns |-> ns, name |-> name]

\* Neighbours in a namespace, one name in two namespaces, and a cluster that is
\* named like the headless Service of another one.
Neighbours == {Cluster("bk", <<"a">>), Cluster("bk", <<"b">>)}
Namesakes == {Cluster("bk", <<"a">>), Cluster("test", <<"a">>)}
Headlesses == {Cluster("bk", <<"a">>), Cluster("bk", <<"a", "headless">>)}
=============================================================================
