--------------------------- MODULE ZkClientProofs ---------------------------
(***************************************************************************)
(* ImplementsMetadata and FinishedUpdateStays, for any sizes, any number   *)
(* of updates and of connections that break, and whatever the bookies do,  *)
(* provided that a create does not take effect after its connection broke. *)
(*                                                                         *)
(* The argument for updates: until the deletion nothing is deleted but by  *)
(* bookies, so a node that the client found missing is missing until it    *)
(* creates it, and versions only grow; the set of an update that succeeds  *)
(* leaves a version that no request still under way was sent with.  For    *)
(* the deletion: whatever comes first on its list, the last is about the   *)
(* root, which goes only without children.                                 *)
(***************************************************************************)
EXTENDS ZkClient, FiniteSetTheorems, SequenceTheorems, TLAPS

Paths == {"top", "root", "size", "updatedat", "ledgers", "registered"}
Node == [data: Nat, ver: Nat]

\* The znodes form a tree.
TreeType ==
    /\ tree \in [DOMAIN tree -> Node]
    /\ DOMAIN tree \subseteq Paths
    /\ \A p \in DOMAIN tree : Parent[p] = "/" \/ Parent[p] \in DOMAIN tree

\* The requests of an update to size s, and those of a deletion.
PutPaths == {"size", "updatedat"}
Right(r, s) == r.path = "size" => r.data = s
UpdateRequests(s) ==
    {r \in [req: {"getToPut"}, path: PutPaths, data: Nat]
           \cup [req: {"set"}, path: PutPaths, data: Nat, ver: Nat]
           \cup [req: {"create"}, path: PutPaths \cup {"top", "root"}, data: Nat] :
        Right(r, s)}
DeletionRequests ==
    [req: {"getToDelete", "children"}, path: Paths]
    \cup [req: {"delete"}, path: Paths, ver: Nat]
Requests == (UNION {UpdateRequests(s) : s \in Nat}) \cup DeletionRequests

\* What setNodeData of p may still have to send.
Puttings(p, d) ==
    {<<ToPut(p, d)>>} \cup
    (IF p \in DOMAIN tree
     THEN {<<SetData(p, d, v)>> : v \in 0 .. tree[p].ver}
     ELSE {CreateNode(p, d), <<Create("root", 0), Create(p, d)>>,
           <<Create(p, d)>>})

\* The size node has size s, and no request under way can change it.
Written(s) ==
    /\ "size" \in DOMAIN tree
    /\ tree["size"].data = s
    /\ \A r \in late :
        r.req = "set" /\ r.path = "size" => r.ver < tree["size"].ver

Calls == {NoCall, Done, Deletion} \cup {Update(s) : s \in Sizes}

CallType ==
    /\ call \in Calls
    /\ deleting \in BOOLEAN
    /\ call \in {NoCall, Done} => todo = <<>>

\* An update works on one node after the other.
Updating ==
    call.op = "update" =>
        /\ ~deleting
        /\ \/ \E t \in Puttings("size", call.size) :
                todo = t \o <<ToPut("updatedat", 0)>>
           \/ todo \in Puttings("updatedat", 0) /\ Written(call.size)

\* A deletion works on the root last.
Deleting ==
    call = Deletion =>
        /\ deleting
        /\ todo \in Seq(DeletionRequests) /\ todo # <<>>
        /\ todo[Len(todo)].path = "root"

\* What a call that succeeded has left.
Succeeded ==
    call = Done =>
        IF deleting THEN "size" \notin DOMAIN tree ELSE Written(SizeData)

\* Before the deletion only sets are under way, of nodes that are still there.
Delayed ==
    /\ late \subseteq Requests
    /\ \A r \in late : r.req # "create"
    /\ ~deleting =>
        \A r \in late :
            /\ r.req \in {"getToPut", "set"}
            /\ r.req = "set" =>
                r.path \in DOMAIN tree /\ r.ver <= tree[r.path].ver

ClientInv == TreeType /\ CallType /\ Updating /\ Deleting /\ Succeeded /\ Delayed
-----------------------------------------------------------------------------
(* Lists of requests.                                                       *)

\* What comes first, and what is left, of two lists one after the other.
LEMMA HeadTailOfConcat ==
    ASSUME NEW S, NEW s \in Seq(S), NEW t \in Seq(S), s # <<>>
    PROVE  /\ s \o t # <<>>
           /\ Head(s \o t) = Head(s) /\ Tail(s \o t) = Tail(s) \o t
<1>1. /\ s \o t \in Seq(S) /\ Len(s \o t) = Len(s) + Len(t)
      /\ \A i \in 1 .. Len(s) + Len(t) : (s \o t)[i] =
            IF i <= Len(s) THEN s[i] ELSE t[i - Len(s)]
  BY ConcatProperties
<1>2. /\ Len(s) \in Nat \ {0} /\ Len(t) \in Nat
  BY EmptySeq, LenProperties
<1>3. s \o t # <<>>
  BY <1>1, <1>2
<1>4. Head(s \o t) = Head(s)
  BY <1>1, <1>2
<1>5. /\ Tail(s) \in Seq(S) /\ Len(Tail(s)) = Len(s) - 1
      /\ \A i \in 1 .. Len(Tail(s)) : Tail(s)[i] = s[i + 1]
  BY HeadTailProperties
<1>6. /\ Tail(s \o t) \in Seq(S) /\ Len(Tail(s \o t)) = Len(s \o t) - 1
      /\ \A i \in 1 .. Len(Tail(s \o t)) : Tail(s \o t)[i] = (s \o t)[i + 1]
  BY <1>1, <1>3, HeadTailProperties
<1>7. /\ Tail(s) \o t \in Seq(S) /\ Len(Tail(s) \o t) = Len(Tail(s)) + Len(t)
      /\ \A i \in 1 .. Len(Tail(s)) + Len(t) : (Tail(s) \o t)[i] =
            IF i <= Len(Tail(s)) THEN Tail(s)[i] ELSE t[i - Len(Tail(s))]
  BY <1>5, ConcatProperties
<1>8. Len(Tail(s \o t)) = Len(Tail(s) \o t)
  BY <1>1, <1>2, <1>5, <1>6, <1>7
<1>9. ASSUME NEW i \in 1 .. Len(Tail(s \o t))
      PROVE  Tail(s \o t)[i] = (Tail(s) \o t)[i]
  <2>1. i \in Nat /\ 1 <= i /\ i <= Len(s) + Len(t) - 1
    BY <1>1, <1>2, <1>6, <1>9
  <2>2. Tail(s \o t)[i] = IF i + 1 <= Len(s) THEN s[i + 1] ELSE t[i + 1 - Len(s)]
    BY <1>1, <1>2, <1>6, <1>9, <2>1
  <2>3. (Tail(s) \o t)[i] =
            IF i <= Len(s) - 1 THEN Tail(s)[i] ELSE t[i - (Len(s) - 1)]
    BY <1>2, <1>5, <1>7, <2>1
  <2>4. i <= Len(s) - 1 => Tail(s)[i] = s[i + 1]
    BY <1>2, <1>5, <2>1
  <2>5. i - (Len(s) - 1) = i + 1 - Len(s)
    BY <1>2, <2>1
  <2>6. QED
    BY <1>2, <2>1, <2>2, <2>3, <2>4, <2>5
<1>10. QED
  BY <1>3, <1>4, <1>6, <1>7, <1>8, <1>9, SeqEqual

\* The last of two lists one after the other is that of the second.
LEMMA LastOfConcat ==
    ASSUME NEW S, NEW s \in Seq(S), NEW t \in Seq(S), t # <<>>
    PROVE  /\ s \o t \in Seq(S) /\ s \o t # <<>>
           /\ (s \o t)[Len(s \o t)] = t[Len(t)]
<1>1. /\ s \o t \in Seq(S) /\ Len(s \o t) = Len(s) + Len(t)
      /\ \A i \in 1 .. Len(s) + Len(t) : (s \o t)[i] =
            IF i <= Len(s) THEN s[i] ELSE t[i - Len(s)]
  BY ConcatProperties
<1>2. Len(t) \in Nat \ {0} /\ Len(s) \in Nat
  BY EmptySeq, LenProperties
<1>3. QED
  BY <1>1, <1>2

\* What is left of a list that has more than one request ends like it.
LEMMA LastOfTail ==
    ASSUME NEW S, NEW s \in Seq(S), s # <<>>, Tail(s) # <<>>
    PROVE  Tail(s)[Len(Tail(s))] = s[Len(s)]
<1>1. /\ Tail(s) \in Seq(S) /\ Len(Tail(s)) = Len(s) - 1
      /\ \A i \in 1 .. Len(Tail(s)) : Tail(s)[i] = s[i + 1]
  BY HeadTailProperties
<1>2. Len(s) \in Nat /\ Len(Tail(s)) \in Nat \ {0}
  BY <1>1, EmptySeq, LenProperties
<1>3. QED
  BY <1>1, <1>2

\* A list with nothing after its head ends with it.
LEMMA OnlyOne ==
    ASSUME NEW S, NEW s \in Seq(S), s # <<>>, Tail(s) = <<>>
    PROVE  Head(s) = s[Len(s)]
<1>1. Len(Tail(s)) = Len(s) - 1 /\ Len(Tail(s)) = 0
  BY HeadTailProperties
<1>2. Len(s) \in Nat
  BY LenProperties
<1>3. Len(s) = 1
  BY <1>1, <1>2
<1>4. QED
  BY <1>3

\* What replaces the head of the first of two lists comes before what is left of
\* both.
LEMMA HeadReplaced ==
    ASSUME NEW S, NEW s \in Seq(S), NEW t \in Seq(S), s # <<>>
    PROVE  \A n \in Seq(S) : n \o Tail(s \o t) = (n \o Tail(s)) \o t
<1> TAKE n \in Seq(S)
<1>1. Tail(s \o t) = Tail(s) \o t
  BY HeadTailOfConcat
<1>2. Tail(s) \in Seq(S)
  BY HeadTailProperties
<1>3. (n \o Tail(s)) \o t = n \o (Tail(s) \o t)
  BY <1>2, ConcatAssociative
<1>4. QED
  BY <1>1, <1>3

\* Heads and tails of short lists.
LEMMA ShortLists ==
    ASSUME NEW a, NEW b, NEW c
    PROVE  /\ Head(<<a>>) = a /\ Tail(<<a>>) = <<>> /\ <<a>> # <<>>
           /\ Head(<<a, b>>) = a /\ Tail(<<a, b>>) = <<b>> /\ <<a, b>> # <<>>
           /\ Head(<<a, b, c>>) = a /\ Tail(<<a, b, c>>) = <<b, c>>
           /\ <<a, b, c>> # <<>>
OBVIOUS

\* They are lists of what is in them, and an empty list adds nothing to them.
LEMMA ShortListsOf ==
    ASSUME NEW S, NEW a \in S, NEW b \in S, NEW c \in S
    PROVE  /\ <<a>> \in Seq(S) /\ <<a, b>> \in Seq(S) /\ <<a, b, c>> \in Seq(S)
           /\ <<>> \o <<a>> = <<a>> /\ <<>> \o <<a, b>> = <<a, b>>
           /\ <<a>> \o <<>> = <<a>> /\ <<a, b, c>> \o <<>> = <<a, b, c>>
           /\ <<>> \o <<>> = <<>>
<1>1. /\ <<>> \in Seq(S)
      /\ <<a>> \in Seq(S) /\ <<a, b>> \in Seq(S) /\ <<a, b, c>> \in Seq(S)
  OBVIOUS
<1>2. QED
  BY <1>1, ConcatEmptySeq

-----------------------------------------------------------------------------
(* The tree.                                                                *)

\* Every znode has the parent it has; the topmost one's is no znode.
LEMMA Parents ==
    /\ DOMAIN Parent = Paths /\ "/" \notin Paths
    /\ Parent["top"] = "/" /\ Parent["root"] = "top"
    /\ Parent["size"] = "root" /\ Parent["updatedat"] = "root"
    /\ Parent["ledgers"] = "root" /\ Parent["registered"] = "ledgers"
BY DEF Parent, Paths

\* What the reconcile loop calls nodes are these znodes.
LEMMA NodesAre ==
    LET Seen == DOMAIN tree \cap {"root", "size", "updatedat", "ledgers"}
    IN  (TreeType => Nodes = Seen) /\ (TreeType' => Nodes' = Seen')
<1>1. TreeType => Children("root") = DOMAIN tree \cap {"size", "updatedat", "ledgers"}
  BY Parents DEF Children, TreeType, Paths
<1>2. TreeType' => Children("root")' = DOMAIN tree' \cap {"size", "updatedat", "ledgers"}
  BY Parents DEF Children, TreeType, Paths
<1>3. QED
  BY <1>1, <1>2 DEF Nodes

\* A tree with one more znode, or another one in its place.
LEMMA TreeWith ==
    ASSUME TreeType, NEW p \in Paths, NEW node \in Node,
           Parent[p] = "/" \/ Parent[p] \in DOMAIN tree, tree' = With(p, node)
    PROVE  /\ TreeType' /\ DOMAIN tree' = DOMAIN tree \cup {p}
           /\ tree'[p] = node
           /\ \A q \in DOMAIN tree \ {p} : tree'[q] = tree[q]
BY DEF TreeType, With

\* The same with one that has no children less.
LEMMA TreeWithout ==
    ASSUME TreeType, NEW p \in Paths, Children(p) = {},
           tree' = [q \in DOMAIN tree \ {p} |-> tree[q]]
    PROVE  /\ TreeType' /\ DOMAIN tree' = DOMAIN tree \ {p}
           /\ \A q \in DOMAIN tree \ {p} : tree'[q] = tree[q]
BY DEF TreeType, Children

\* A request that reads, or that is refused, leaves the tree alone.
LEMMA ReadsChangeNothing ==
    ASSUME NEW r, ~Accepted(r) \/ r.req \notin {"create", "set", "delete"}
    PROVE  After(r) = tree
BY DEF After

\* A create adds a znode where there was none.
LEMMA CreateAdds ==
    ASSUME TreeType, NEW r, r.req = "create", r.path \in Paths, r.data \in Nat,
           Accepted(r), tree' = After(r)
    PROVE  /\ TreeType' /\ r.path \notin DOMAIN tree
           /\ DOMAIN tree' = DOMAIN tree \cup {r.path}
           /\ tree'[r.path] = [data |-> r.data, ver |-> 0]
           /\ \A q \in DOMAIN tree : tree'[q] = tree[q]
<1>1. /\ tree' = With(r.path, [data |-> r.data, ver |-> 0])
      /\ r.path \notin DOMAIN tree
      /\ Parent[r.path] = "/" \/ Parent[r.path] \in DOMAIN tree
  BY DEF After, Accepted, ThereIs
<1>2. [data |-> r.data, ver |-> 0] \in Node
  BY DEF Node
<1>3. QED
  BY <1>1, <1>2, TreeWith

\* A set replaces data of the version it was sent with.
LEMMA SetReplaces ==
    ASSUME TreeType, NEW r, r.req = "set", r.path \in Paths, r.data \in Nat,
           r.ver \in Nat, Accepted(r), tree' = After(r)
    PROVE  /\ TreeType' /\ r.path \in DOMAIN tree /\ DOMAIN tree' = DOMAIN tree
           /\ tree[r.path].ver = r.ver
           /\ tree'[r.path] = [data |-> r.data, ver |-> r.ver + 1]
           /\ \A q \in DOMAIN tree \ {r.path} : tree'[q] = tree[q]
<1>1. /\ tree' = With(r.path, [data |-> r.data, ver |-> r.ver + 1])
      /\ r.path \in DOMAIN tree /\ tree[r.path].ver = r.ver
  BY Parents DEF After, Accepted, ThereIs, VersionMatches
<1>2. [data |-> r.data, ver |-> r.ver + 1] \in Node
  BY DEF Node
<1>3. Parent[r.path] = "/" \/ Parent[r.path] \in DOMAIN tree
  BY <1>1 DEF TreeType
<1>4. QED
  BY <1>1, <1>2, <1>3, TreeWith

\* A delete takes a znode without children away.
LEMMA DeleteRemoves ==
    ASSUME TreeType, NEW r, r.req = "delete", r.path \in Paths,
           Accepted(r), tree' = After(r)
    PROVE  /\ TreeType' /\ r.path \in DOMAIN tree /\ Children(r.path) = {}
           /\ DOMAIN tree' = DOMAIN tree \ {r.path}
           /\ \A q \in DOMAIN tree' : tree'[q] = tree[q]
<1>1. /\ tree' = [q \in DOMAIN tree \ {r.path} |-> tree[q]]
      /\ r.path \in DOMAIN tree /\ Children(r.path) = {}
  BY Parents DEF After, Accepted, ThereIs
<1>2. QED
  BY <1>1, TreeWithout

-----------------------------------------------------------------------------
(* What a request does to what the loop sees.                               *)

\* The parts of requests.
LEMMA UpdateRequestParts ==
    ASSUME NEW s \in Nat, NEW r \in UpdateRequests(s)
    PROVE  /\ r \in Requests /\ r.path \in Paths /\ r.data \in Nat
           /\ r.path \in {"size", "updatedat", "top", "root"}
           /\ r.path = "size" => r.data = s
           /\ r.req \in {"getToPut", "set", "create"}
           /\ r.req = "set" => r.ver \in Nat /\ r.path \in PutPaths
BY DEF UpdateRequests, Requests, Right, PutPaths, Paths

LEMMA DeletionRequestParts ==
    ASSUME NEW r \in DeletionRequests
    PROVE  /\ r \in Requests /\ r.path \in Paths
           /\ r.req \in {"getToDelete", "children", "delete"}
           /\ r.req = "delete" => r.ver \in Nat
BY DEF DeletionRequests, Requests, Paths

\* A request is one of an update or of a deletion.
LEMMA RequestKinds ==
    ASSUME NEW r \in Requests
    PROVE  (\E s \in Nat : r \in UpdateRequests(s)) \/ r \in DeletionRequests
BY DEF Requests

\* Every request leaves a tree.
LEMMA RequestKeepsTree ==
    ASSUME TreeType, NEW r \in Requests, tree' = After(r)
    PROVE  TreeType'
<1>1. CASE tree' = tree
  BY <1>1 DEF TreeType
<1>2. CASE Accepted(r) /\ r.req \in {"create", "set", "delete"}
  <2>1. CASE \E s \in Nat : r \in UpdateRequests(s)
    <3>1. PICK s \in Nat : r \in UpdateRequests(s)
      BY <2>1
    <3>2. QED
      BY <1>2, <3>1, UpdateRequestParts, CreateAdds, SetReplaces
  <2>2. CASE r \in DeletionRequests
    BY <1>2, <2>2, DeletionRequestParts, DeleteRemoves
  <2>3. QED
    BY <2>1, <2>2, RequestKinds
<1>3. QED
  BY <1>1, <1>2, ReadsChangeNothing

\* One of an update to size s brings the operator's nodes, and no other size.
LEMMA UpdateRequest ==
    ASSUME TreeType, NEW s \in Nat, NEW r \in UpdateRequests(s),
           tree' = After(r), call = Update(s)
    PROVE  Metadata!UpdatePart
<1>1. /\ TreeType'
      /\ Nodes = DOMAIN tree \cap {"root", "size", "updatedat", "ledgers"}
  BY RequestKeepsTree, NodesAre, UpdateRequestParts
<1>2. Nodes' = DOMAIN tree' \cap {"root", "size", "updatedat", "ledgers"}
  BY <1>1, NodesAre
<1>3. call.op = "update" /\ call.size = s
  BY DEF Update
<1>4. SizeData = IF "size" \in DOMAIN tree THEN tree["size"].data ELSE 0
  BY DEF SizeData, ThereIs
<1>5. SizeData' = IF "size" \in DOMAIN tree' THEN tree'["size"].data ELSE 0
  BY DEF SizeData, ThereIs
<1>6. CASE tree' = tree
  BY <1>1, <1>2, <1>3, <1>4, <1>5, <1>6 DEF Metadata!UpdatePart
<1>7. CASE Accepted(r) /\ r.req = "create"
  <2>1. /\ r.path \in {"size", "updatedat", "top", "root"}
        /\ r.path = "size" => r.data = s
        /\ r.path \notin DOMAIN tree
        /\ DOMAIN tree' = DOMAIN tree \cup {r.path}
        /\ tree'[r.path] = [data |-> r.data, ver |-> 0]
        /\ \A q \in DOMAIN tree : tree'[q] = tree[q]
    BY <1>7, UpdateRequestParts, CreateAdds
  <2>2. CASE r.path = "size"
    <3>1. SizeData' = s /\ "size" \in Nodes'
      BY <1>2, <1>5, <2>1, <2>2
    <3>2. Nodes \subseteq Nodes' /\ Nodes' \subseteq Nodes \cup {"size"}
      BY <1>1, <1>2, <2>1, <2>2
    <3>3. QED
      BY <1>3, <3>1, <3>2 DEF Metadata!UpdatePart
  <2>3. CASE r.path # "size"
    <3>1. SizeData' = SizeData /\ ("size" \in Nodes' => "size" \in Nodes)
      BY <1>1, <1>2, <1>4, <1>5, <2>1, <2>3
    <3>2. /\ Nodes \subseteq Nodes'
          /\ Nodes' \subseteq Nodes \cup {"root", "size", "updatedat"}
      BY <1>1, <1>2, <2>1, <2>3
    <3>3. QED
      BY <1>3, <3>1, <3>2 DEF Metadata!UpdatePart
  <2>4. QED
    BY <2>2, <2>3
<1>8. CASE Accepted(r) /\ r.req = "set"
  <2>1. /\ r.path \in {"size", "updatedat", "top", "root"}
        /\ r.path = "size" => r.data = s
        /\ r.path \in DOMAIN tree /\ DOMAIN tree' = DOMAIN tree
        /\ tree'[r.path] = [data |-> r.data, ver |-> r.ver + 1]
        /\ \A q \in DOMAIN tree \ {r.path} : tree'[q] = tree[q]
    BY <1>8, UpdateRequestParts, SetReplaces
  <2>2. Nodes' = Nodes
    BY <1>1, <1>2, <2>1
  <2>3. SizeData' = SizeData \/ (SizeData' = s /\ "size" \in Nodes')
    BY <1>2, <1>4, <1>5, <2>1
  <2>4. QED
    BY <1>3, <2>2, <2>3 DEF Metadata!UpdatePart
<1>9. QED
  BY <1>6, <1>7, <1>8, UpdateRequestParts, ReadsChangeNothing

\* A deletion takes the root after all others, of what the loop sees.
Removal ==
    /\ Nodes' \subseteq Nodes
    /\ "root" \in Nodes \ Nodes' => Nodes' = {}
    /\ SizeData' = IF "size" \in Nodes' THEN SizeData ELSE 0

\* So does each of its requests.
LEMMA DeletionRequest ==
    ASSUME TreeType, NEW r \in DeletionRequests, tree' = After(r)
    PROVE  Removal
<1>1. /\ TreeType'
      /\ Nodes = DOMAIN tree \cap {"root", "size", "updatedat", "ledgers"}
  BY RequestKeepsTree, NodesAre, DeletionRequestParts
<1>2. Nodes' = DOMAIN tree' \cap {"root", "size", "updatedat", "ledgers"}
  BY <1>1, NodesAre
<1>3. SizeData = IF "size" \in DOMAIN tree THEN tree["size"].data ELSE 0
  BY DEF SizeData, ThereIs
<1>4. SizeData' = IF "size" \in DOMAIN tree' THEN tree'["size"].data ELSE 0
  BY DEF SizeData, ThereIs
<1>5. CASE tree' = tree
  BY <1>1, <1>2, <1>3, <1>4, <1>5 DEF Removal
<1>6. CASE Accepted(r) /\ r.req = "delete"
  <2>1. /\ r.path \in DOMAIN tree /\ Children(r.path) = {}
        /\ DOMAIN tree' = DOMAIN tree \ {r.path}
        /\ \A q \in DOMAIN tree' : tree'[q] = tree[q]
    BY <1>6, DeletionRequestParts, DeleteRemoves
  <2>2. "root" \notin DOMAIN tree' => Nodes' = {}
    BY <1>1, <1>2, Parents DEF TreeType
  <2>3. QED
    BY <1>1, <1>2, <1>3, <1>4, <2>1, <2>2 DEF Removal
<1>7. QED
  BY <1>5, <1>6, DeletionRequestParts, ReadsChangeNothing

-----------------------------------------------------------------------------
(* setNodeData                                                              *)

\* Versions are numbers.
LEMMA VersionsAreNumbers ==
    ASSUME TreeType, NEW p \in DOMAIN tree
    PROVE  tree[p].ver \in Nat /\ tree[p].data \in Nat
BY DEF TreeType, Node

\* The requests of setNodeData for p, with size s when p is the size node.
LEMMA PutRequests ==
    ASSUME NEW p \in PutPaths, NEW d \in Nat, NEW s \in Nat, p = "size" => d = s,
           NEW v \in Nat
    PROVE  /\ {ToPut(p, d), SetData(p, d, v), Create(p, d)} \subseteq UpdateRequests(s)
           /\ {Create("top", 0), Create("root", 0)} \subseteq UpdateRequests(s)
BY DEF ToPut, SetData, Create, UpdateRequests, Right, PutPaths

\* What setNodeData may still send is one of these lists.
LEMMA PuttingCases ==
    ASSUME TreeType, NEW p \in PutPaths, NEW d \in Nat, NEW t \in Puttings(p, d)
    PROVE  \/ t = <<ToPut(p, d)>>
           \/ \E v \in Nat : /\ t = <<SetData(p, d, v)>>
                             /\ p \in DOMAIN tree /\ v <= tree[p].ver
           \/ /\ t = <<Create("top", 0), Create("root", 0), Create(p, d)>>
              /\ p \notin DOMAIN tree
           \/ /\ t = <<Create("root", 0), Create(p, d)>>
              /\ p \notin DOMAIN tree
           \/ t = <<Create(p, d)>> /\ p \notin DOMAIN tree
<1>1. CASE p \in DOMAIN tree
  <2>1. tree[p].ver \in Nat
    BY <1>1, VersionsAreNumbers
  <2>2. \A v \in 0 .. tree[p].ver : v \in Nat /\ v <= tree[p].ver
    BY <2>1
  <2>3. t = <<ToPut(p, d)>> \/ \E v \in 0 .. tree[p].ver : t = <<SetData(p, d, v)>>
    BY <1>1 DEF Puttings
  <2>4. QED
    BY <1>1, <2>2, <2>3
<1>2. CASE p \notin DOMAIN tree
  BY <1>2 DEF Puttings, CreateNode
<1>3. QED
  BY <1>1, <1>2

\* They are lists of requests of the update.
LEMMA PuttingsAreLists ==
    ASSUME TreeType, NEW p \in PutPaths, NEW d \in Nat, NEW s \in Nat,
           p = "size" => d = s, NEW t \in Puttings(p, d)
    PROVE  /\ t \in Seq(UpdateRequests(s)) /\ t # <<>>
           /\ Head(t) \in UpdateRequests(s)
           /\ Head(t).req = "set" =>
                /\ Head(t).path \in DOMAIN tree
                /\ Head(t).ver <= tree[Head(t).path].ver
<1>1. /\ ToPut(p, d) \in UpdateRequests(s) /\ Create(p, d) \in UpdateRequests(s)
      /\ Create("top", 0) \in UpdateRequests(s)
      /\ Create("root", 0) \in UpdateRequests(s)
      /\ \A v \in Nat : SetData(p, d, v) \in UpdateRequests(s)
  BY PutRequests
<1>2. t \in Seq(UpdateRequests(s)) /\ t # <<>>
  <2> DEFINE top == Create("top", 0)
             root == Create("root", 0)
             own == Create(p, d)
  <2>1. \/ t = <<ToPut(p, d)>>
        \/ \E v \in Nat : t = <<SetData(p, d, v)>>
        \/ t = <<top, root, own>>
        \/ t = <<root, own>>
        \/ t = <<own>>
    BY PuttingCases
  <2> HIDE DEF top, root, own
  <2>2. /\ top \in UpdateRequests(s) /\ root \in UpdateRequests(s)
        /\ own \in UpdateRequests(s)
    BY <1>1 DEF top, root, own
  <2>3. /\ <<top, root, own>> \in Seq(UpdateRequests(s))
        /\ <<root, own>> \in Seq(UpdateRequests(s))
        /\ <<own>> \in Seq(UpdateRequests(s))
    BY <2>2, ShortListsOf, Zenon
  <2>4. /\ <<ToPut(p, d)>> \in Seq(UpdateRequests(s))
        /\ \A v \in Nat : <<SetData(p, d, v)>> \in Seq(UpdateRequests(s))
    BY <1>1, ShortListsOf, Zenon
  <2>5. t \in Seq(UpdateRequests(s))
    BY <2>1, <2>3, <2>4, Zenon
  <2>6. t # <<>>
    BY <2>1
  <2>7. QED
    BY <2>5, <2>6
<1>3. Head(t) \in UpdateRequests(s)
  BY <1>2, HeadTailProperties
<1>4. ASSUME Head(t).req = "set"
      PROVE  Head(t).path \in DOMAIN tree /\ Head(t).ver <= tree[Head(t).path].ver
  <2>1. /\ \A v \in Nat : SetData(p, d, v).path = p /\ SetData(p, d, v).ver = v
        /\ ToPut(p, d).req # "set"
        /\ \A q, e : Create(q, e).req # "set"
    BY DEF SetData, ToPut, Create
  <2>2. \E v \in Nat : /\ Head(t) = SetData(p, d, v)
                       /\ p \in DOMAIN tree /\ v <= tree[p].ver
    BY <1>4, <2>1, PuttingCases, ShortLists
  <2>3. QED
    BY <2>1, <2>2
<1>5. QED
  BY <1>2, <1>3, <1>4

\* They stay so when the node does, with a version that does not go back, or
\* stays away.
LEMMA PuttingsKept ==
    ASSUME TreeType, TreeType', NEW p \in PutPaths, NEW d \in Nat,
           p \in DOMAIN tree <=> p \in DOMAIN tree',
           p \in DOMAIN tree => tree[p].ver <= tree'[p].ver
    PROVE  Puttings(p, d) \subseteq Puttings(p, d)'
<1>1. CASE p \in DOMAIN tree
  <2>1. tree[p].ver \in Nat /\ tree'[p].ver \in Nat
    BY <1>1 DEF TreeType, Node
  <2>2. 0 .. tree[p].ver \subseteq 0 .. tree'[p].ver
    BY <1>1, <2>1
  <2>3. QED
    BY <1>1, <2>2 DEF Puttings
<1>2. CASE p \notin DOMAIN tree
  BY <1>2 DEF Puttings
<1>3. QED
  BY <1>1, <1>2

\* A node that a step leaves as it is.
Same(q) ==
    /\ q \in DOMAIN tree <=> q \in DOMAIN tree'
    /\ q \in DOMAIN tree => tree'[q] = tree[q]

\* The answer to a request of setNodeData leaves such a list; after the last one
\* the node has the data, with a version of which no request is under way.
LEMMA PutStep ==
    ASSUME TreeType, NEW p \in PutPaths, NEW d \in Nat, NEW t \in Puttings(p, d),
           tree' = After(Head(t)), NEW next \in FollowUps(Head(t))
    PROVE  \/ /\ next \o Tail(t) \in Puttings(p, d)'
              /\ \A q \in PutPaths : Same(q)
              /\ next \o Tail(t) # <<>>
           \/ /\ next \o Tail(t) = <<>> /\ next = <<>> /\ Tail(t) = <<>>
              /\ p \in DOMAIN tree' /\ tree'[p].data = d
              /\ p \in DOMAIN tree => tree'[p].ver = tree[p].ver + 1
              /\ \A q \in PutPaths \ {p} : Same(q)
<1> DEFINE r == Head(t)
<1>1. p \in Paths /\ p # "top" /\ p # "root"
  BY DEF PutPaths, Paths
<1>2. ASSUME NEW a, NEW b, NEW c
      PROVE  /\ <<>> \o <<a>> = <<a>> /\ <<>> \o <<a, b>> = <<a, b>>
             /\ <<a>> \o <<>> = <<a>> /\ <<a, b, c>> \o <<>> = <<a, b, c>>
             /\ <<>> \o <<>> = <<>>
  BY ShortListsOf
<1>3. CASE t = <<ToPut(p, d)>>
  <2>1. r = ToPut(p, d) /\ Tail(t) = <<>>
    BY <1>3, ShortLists
  <2>2. r.req = "getToPut" /\ r.path = p /\ r.data = d
    BY <2>1 DEF ToPut
  <2>3. tree' = tree
    BY <2>2, ReadsChangeNothing
  <2>4. next \in SetNodeData(r)
    BY <2>2 DEF FollowUps
  <2>5. CASE p \in DOMAIN tree
    <3>1. next = <<SetData(p, d, tree[p].ver)>>
      BY <2>2, <2>4, <2>5 DEF SetNodeData, ThereIs
    <3>2. next \o Tail(t) = next /\ next # <<>>
      BY <1>2, <2>1, <3>1
    <3>3. next \in Puttings(p, d)
      <4>1. tree[p].ver \in 0 .. tree[p].ver
        BY <2>5, VersionsAreNumbers
      <4>2. QED
        BY <2>5, <3>1, <4>1 DEF Puttings
    <3>4. QED
      BY <2>3, <3>2, <3>3 DEF Puttings, Same
  <2>6. CASE p \notin DOMAIN tree
    <3>1. next = CreateNode(p, d)
      BY <1>1, <2>2, <2>4, <2>6, Parents DEF SetNodeData, ThereIs
    <3>2. next \o Tail(t) = next /\ next # <<>>
      <4>1. next = <<Create("top", 0), Create("root", 0), Create(p, d)>>
        BY <3>1 DEF CreateNode
      <4>2. next \o <<>> = next
        BY <1>2, <4>1, Zenon
      <4>3. next # <<>>
        BY <4>1, ShortLists, Zenon
      <4>4. QED
        BY <2>1, <4>2, <4>3
    <3>3. next \in Puttings(p, d)
      BY <2>6, <3>1 DEF Puttings
    <3>4. QED
      BY <2>3, <3>2, <3>3 DEF Puttings, Same
  <2>7. QED
    BY <2>5, <2>6
<1>4. ASSUME NEW v \in Nat, t = <<SetData(p, d, v)>>, p \in DOMAIN tree
      PROVE  /\ next \o Tail(t) = <<>> /\ next = <<>> /\ Tail(t) = <<>>
             /\ p \in DOMAIN tree' /\ tree'[p].data = d
             /\ tree'[p].ver = tree[p].ver + 1
             /\ \A q \in PutPaths \ {p} : Same(q)
  <2>1. r = SetData(p, d, v) /\ Tail(t) = <<>>
    BY <1>4, ShortLists
  <2>2. r.req = "set" /\ r.path = p /\ r.data = d /\ r.ver = v
    BY <2>1 DEF SetData
  <2>3. Accepted(r) /\ next = <<>>
    BY <2>2 DEF FollowUps
  <2>4. /\ DOMAIN tree' = DOMAIN tree /\ tree[p].ver = v
        /\ tree'[p] = [data |-> d, ver |-> v + 1]
        /\ \A q \in DOMAIN tree \ {p} : tree'[q] = tree[q]
    BY <1>1, <2>2, <2>3, SetReplaces
  <2>5. QED
    BY <1>2, <1>4, <2>1, <2>3, <2>4 DEF Same
<1>5. ASSUME NEW q \in {"top", "root"}, Head(t) = Create(q, 0),
             p \notin DOMAIN tree, Tail(t) # <<>>, <<>> \o Tail(t) = Tail(t),
             Tail(t) \in {<<Create("root", 0), Create(p, d)>>, <<Create(p, d)>>}
      PROVE  /\ next \o Tail(t) \in Puttings(p, d)'
             /\ \A n \in PutPaths : Same(n)
             /\ next \o Tail(t) # <<>>
  <2>1. r.req = "create" /\ r.path = q /\ r.data = 0
    BY <1>5 DEF Create
  <2>2. next = <<>>
    BY <2>1 DEF FollowUps
  <2>3. \A n \in PutPaths : Same(n)
    <3>1. CASE Accepted(r)
      <4>1. /\ DOMAIN tree' = DOMAIN tree \cup {q}
            /\ \A n \in DOMAIN tree : tree'[n] = tree[n]
        <5>1. r.path \in Paths /\ r.data \in Nat
          BY <2>1 DEF Paths
        <5>2. QED
          BY <2>1, <3>1, <5>1, CreateAdds
      <4>2. QED
        BY <4>1 DEF Same, PutPaths
    <3>2. CASE ~Accepted(r)
      BY <3>2, ReadsChangeNothing DEF Same
    <3>3. QED
      BY <3>1, <3>2
  <2>4. p \notin DOMAIN tree'
    BY <1>5, <2>3 DEF Same
  <2>5. Tail(t) \in Puttings(p, d)'
    BY <1>5, <2>4 DEF Puttings
  <2>6. QED
    BY <1>5, <2>2, <2>3, <2>5
<1>6. CASE /\ t = <<Create("top", 0), Create("root", 0), Create(p, d)>>
           /\ p \notin DOMAIN tree
  <2>1. /\ Head(t) = Create("top", 0)
        /\ Tail(t) = <<Create("root", 0), Create(p, d)>> /\ Tail(t) # <<>>
    BY <1>6, ShortLists
  <2>2. QED
    BY <1>2, <1>5, <1>6, <2>1
<1>7. CASE t = <<Create("root", 0), Create(p, d)>> /\ p \notin DOMAIN tree
  <2>1. /\ Head(t) = Create("root", 0)
        /\ Tail(t) = <<Create(p, d)>> /\ Tail(t) # <<>>
    BY <1>7, ShortLists
  <2>2. QED
    BY <1>2, <1>5, <1>7, <2>1
<1>8. CASE t = <<Create(p, d)>> /\ p \notin DOMAIN tree
  <2>1. r = Create(p, d) /\ Tail(t) = <<>>
    BY <1>8, ShortLists
  <2>2. r.req = "create" /\ r.path = p /\ r.data = d
    BY <2>1 DEF Create
  <2>3. ThereIs(Parent[p]) /\ next = <<>>
    BY <2>2 DEF FollowUps
  <2>4. Accepted(r)
    BY <1>1, <1>8, <2>2, <2>3, Parents DEF Accepted, ThereIs
  <2>5. /\ DOMAIN tree' = DOMAIN tree \cup {p}
        /\ tree'[p] = [data |-> d, ver |-> 0]
        /\ \A q \in DOMAIN tree : tree'[q] = tree[q]
    BY <1>1, <2>2, <2>4, CreateAdds
  <2>6. \A q \in PutPaths \ {p} : Same(q)
    BY <2>5 DEF Same
  <2>7. QED
    BY <1>2, <1>8, <2>1, <2>3, <2>5, <2>6
<1>9. QED
  BY <1>3, <1>4, <1>6, <1>7, <1>8, PuttingCases

\* What follows on a request of an update are requests of the update.
LEMMA UpdateFollowUps ==
    ASSUME TreeType, NEW s \in Nat, NEW r \in UpdateRequests(s),
           NEW next \in FollowUps(r)
    PROVE  next \in Seq(UpdateRequests(s))
<1>1. <<>> \in Seq(UpdateRequests(s))
  OBVIOUS
<1>2. CASE r.req = "getToPut"
  <2>1. /\ r.path \in PutPaths /\ r.data \in Nat
        /\ r.path = "size" => r.data = s
        /\ next \in SetNodeData(r)
    BY <1>2 DEF UpdateRequests, Right, FollowUps
  <2>2. CASE ThereIs(r.path)
    <3>1. r.path \in DOMAIN tree
      BY <2>1, <2>2 DEF ThereIs, PutPaths
    <3>2. tree[r.path].ver \in Nat
      BY <3>1, VersionsAreNumbers
    <3>3. SetData(r.path, r.data, tree[r.path].ver) \in UpdateRequests(s)
      BY <2>1, <3>2, PutRequests
    <3>4. next = <<SetData(r.path, r.data, tree[r.path].ver)>>
      BY <2>1, <2>2 DEF SetNodeData
    <3>5. QED
      BY <3>3, <3>4, ShortListsOf, Zenon
  <2>3. CASE ~ThereIs(r.path)
    <3>1. /\ Create("top", 0) \in UpdateRequests(s)
          /\ Create("root", 0) \in UpdateRequests(s)
          /\ Create(r.path, r.data) \in UpdateRequests(s)
      BY <2>1, PutRequests
    <3>2. next = <<Create("top", 0), Create("root", 0), Create(r.path, r.data)>>
      BY <2>1, <2>3 DEF SetNodeData, CreateNode
    <3>3. QED
      BY <3>1, <3>2, ShortListsOf, Zenon
  <2>4. QED
    BY <2>2, <2>3
<1>3. CASE r.req \in {"create", "set"}
  <2>1. next = <<>>
    BY <1>3 DEF FollowUps
  <2>2. QED
    BY <1>1, <2>1
<1>4. QED
  BY <1>2, <1>3, UpdateRequestParts

\* Nothing that an update sends deletes a node or brings back a version.
Grows(q) ==
    q \in DOMAIN tree => q \in DOMAIN tree' /\ tree[q].ver <= tree'[q].ver

LEMMA UpdateGrows ==
    ASSUME TreeType, NEW s \in Nat, NEW r \in UpdateRequests(s), tree' = After(r)
    PROVE  \A q \in Paths : Grows(q)
<1>1. \A q \in DOMAIN tree : tree[q].ver \in Nat
  BY VersionsAreNumbers
<1>2. CASE tree' = tree
  BY <1>1, <1>2 DEF Grows
<1>3. CASE Accepted(r) /\ r.req = "create"
  <2>1. /\ DOMAIN tree' = DOMAIN tree \cup {r.path}
        /\ \A q \in DOMAIN tree : tree'[q] = tree[q]
    BY <1>3, UpdateRequestParts, CreateAdds
  <2>2. QED
    BY <1>1, <2>1 DEF Grows
<1>4. CASE Accepted(r) /\ r.req = "set"
  <2>1. /\ DOMAIN tree' = DOMAIN tree /\ r.path \in DOMAIN tree
        /\ tree[r.path].ver = r.ver
        /\ tree'[r.path] = [data |-> r.data, ver |-> r.ver + 1]
        /\ \A q \in DOMAIN tree \ {r.path} : tree'[q] = tree[q]
    BY <1>4, UpdateRequestParts, SetReplaces
  <2>2. QED
    BY <1>1, <2>1 DEF Grows
<1>5. QED
  BY <1>2, <1>3, <1>4, UpdateRequestParts, ReadsChangeNothing

-----------------------------------------------------------------------------
(* deleteNode                                                               *)

\* What follows on a request of a deletion are such requests, the last of them
\* for the same node; when nothing follows the node is gone.
LEMMA DeletionFollowUps ==
    ASSUME TreeType, NEW r \in DeletionRequests, NEW next \in FollowUps(r),
           tree' = After(r)
    PROVE  /\ next \in Seq(DeletionRequests)
           /\ next # <<>> => next[Len(next)].path = r.path
           /\ next = <<>> => r.path \notin DOMAIN tree'
<1>1. r.path \in Paths /\ r.path # "/"
  BY DeletionRequestParts, Parents
<1>2. /\ \A p \in Paths : ToDelete(p) \in DeletionRequests /\ ToDelete(p).path = p
      /\ \A p \in Paths : List(p) \in DeletionRequests /\ List(p).path = p
      /\ \A p \in Paths, v \in Nat :
            Delete(p, v) \in DeletionRequests /\ Delete(p, v).path = p
  BY DEF ToDelete, List, Delete, DeletionRequests
<1>3. ASSUME NEW a \in DeletionRequests, a.path = r.path, next = <<a>>
      PROVE  /\ next \in Seq(DeletionRequests) /\ next # <<>>
             /\ next[Len(next)].path = r.path
  BY <1>3
<1>4. CASE r.req = "getToDelete"
  <2>1. tree' = tree /\ next \in DeleteNode(r)
    BY <1>4, ReadsChangeNothing DEF FollowUps
  <2>2. CASE r.path \in DOMAIN tree
    <3>1. /\ next = <<Delete(r.path, tree[r.path].ver)>>
          /\ tree[r.path].ver \in Nat
      BY <2>1, <2>2, VersionsAreNumbers DEF DeleteNode, ThereIs
    <3>2. QED
      BY <1>1, <1>2, <1>3, <3>1
  <2>3. CASE r.path \notin DOMAIN tree
    <3>1. next = <<>>
      BY <1>1, <2>1, <2>3 DEF DeleteNode, ThereIs, FoundGone
    <3>2. QED
      BY <2>1, <2>3, <3>1
  <2>4. QED
    BY <2>2, <2>3
<1>5. CASE r.req = "children"
  <2>1. PICK cs \in SetToSeqs(Children(r.path)) :
            next = Append([i \in DOMAIN cs |-> ToDelete(cs[i])], ToDelete(r.path))
    BY <1>5 DEF FollowUps, DeleteChildren
  <2>2. Children(r.path) \subseteq Paths
    BY DEF Children, TreeType
  <2>3. IsFiniteSet(Paths)
    <3>1. \A a : IsFiniteSet({a})
      BY FS_Singleton
    <3>2. Paths = {"top"} \cup ({"root"} \cup ({"size"} \cup
                    ({"updatedat"} \cup ({"ledgers"} \cup {"registered"}))))
      BY DEF Paths
    <3>3. \A S, T : IsFiniteSet(S) /\ IsFiniteSet(T) => IsFiniteSet(S \cup T)
      BY FS_Union
    <3>4. QED
      BY <3>1, <3>2, <3>3, Zenon
  <2>4. Cardinality(Children(r.path)) \in Nat
    BY <2>2, <2>3, FS_Subset, FS_CardinalityType
  <2>5. cs \in [1 .. Cardinality(Children(r.path)) -> Children(r.path)]
    BY DEF SetToSeqs
  <2>6. [i \in DOMAIN cs |-> ToDelete(cs[i])] \in Seq(DeletionRequests)
    BY <1>2, <2>2, <2>4, <2>5
  <2>7. ToDelete(r.path) \in DeletionRequests /\ ToDelete(r.path).path = r.path
    BY <1>1, <1>2
  <2>8. QED
    BY <2>1, <2>6, <2>7
<1>6. CASE r.req = "delete"
  <2>1. CASE NotEmpty(r)
    <3>1. next = <<List(r.path)>>
      BY <1>6, <2>1 DEF FollowUps
    <3>2. QED
      BY <1>1, <1>2, <1>3, <3>1
  <2>2. CASE ~NotEmpty(r)
    <3>1. Accepted(r) /\ next = <<>>
      BY <1>6, <2>2 DEF FollowUps
    <3>2. DOMAIN tree' = DOMAIN tree \ {r.path}
      BY <1>1, <1>6, <3>1, DeleteRemoves
    <3>3. QED
      BY <3>1, <3>2
  <2>3. QED
    BY <2>1, <2>2
<1>7. QED
  BY <1>4, <1>5, <1>6, DeletionRequestParts

-----------------------------------------------------------------------------
(* Steps of others.                                                         *)

\* The calls there are.
LEMMA CallKinds ==
    ASSUME call \in Calls
    PROVE  /\ call.op = "update" =>
                /\ call.size \in Sizes /\ call.size \in Nat
                /\ call = Update(call.size) /\ call \notin {NoCall, Done, Deletion}
           /\ call.op # "update" => call \in {NoCall, Done, Deletion}
           /\ NoCall.op # "update" /\ Done.op # "update" /\ Deletion.op # "update"
           /\ NoCall # Done /\ NoCall # Deletion /\ Done # Deletion
BY SizesAssumption DEF Calls, Update, NoCall, Done, Deletion

\* What is under way stays what it is when no node goes and no version is back.
LEMMA DelayedGrows ==
    ASSUME TreeType, Delayed, late' \subseteq late, deleting' = deleting,
           \A q \in PutPaths : Grows(q), TreeType'
    PROVE  Delayed'
<1>1. ASSUME ~deleting, NEW r \in late, r.req = "set"
      PROVE  r.path \in DOMAIN tree' /\ r.ver <= tree'[r.path].ver
  <2>1. r \in Requests
    BY DEF Delayed
  <2>2. r \notin DeletionRequests
    BY <1>1, DeletionRequestParts
  <2>3. r.path \in PutPaths /\ r.ver \in Nat
    BY <1>1, <2>1, <2>2, RequestKinds, UpdateRequestParts
  <2>4. r.path \in DOMAIN tree /\ r.ver <= tree[r.path].ver
    BY <1>1 DEF Delayed
  <2>5. r.path \in DOMAIN tree' /\ tree[r.path].ver <= tree'[r.path].ver
    BY <2>3, <2>4 DEF Grows
  <2>6. tree[r.path].ver \in Nat /\ tree'[r.path].ver \in Nat
    BY <2>4, <2>5 DEF TreeType, Node
  <2>7. QED
    BY <2>3, <2>4, <2>5, <2>6
<1>2. QED
  BY <1>1 DEF Delayed

\* A step that is none of the call's keeps the invariant when, before the
\* deletion, it neither adds nor removes one of the operator's nodes nor brings a
\* version back, leaves a written size alone, and never brings the size node.
LEMMA OthersKeepInv ==
    ASSUME ClientInv, TreeType', late' \subseteq late,
           UNCHANGED <<call, todo, deleting>>,
           "size" \notin DOMAIN tree => "size" \notin DOMAIN tree',
           ~deleting => \A q \in PutPaths :
                (q \in DOMAIN tree' => q \in DOMAIN tree) /\ Grows(q),
           \A s \in Nat : ~deleting /\ Written(s) => Same("size")
    PROVE  ClientInv'
<1>1. TreeType /\ CallType /\ Updating /\ Deleting /\ Succeeded /\ Delayed
  BY DEF ClientInv
<1>2. ASSUME NEW s \in Nat, ~deleting, Written(s)
      PROVE  Written(s)'
  BY <1>2 DEF Written, Same
<1>3. Updating'
  <2> SUFFICES ASSUME call.op = "update"
               PROVE  Updating'
    BY DEF Updating
  <2>1. call.size \in Nat /\ ~deleting
    BY <1>1, CallKinds DEF CallType, Updating
  <2>2. /\ Puttings("size", call.size) \subseteq Puttings("size", call.size)'
        /\ Puttings("updatedat", 0) \subseteq Puttings("updatedat", 0)'
    BY <1>1, <2>1, PuttingsKept DEF PutPaths, Grows
  <2>3. CASE \E t \in Puttings("size", call.size) : todo = t \o <<ToPut("updatedat", 0)>>
    <3>1. \E t \in Puttings("size", call.size)' : todo = t \o <<ToPut("updatedat", 0)>>
      BY <2>2, <2>3
    <3>2. QED
      BY <2>1, <3>1 DEF Updating
  <2>4. CASE todo \in Puttings("updatedat", 0) /\ Written(call.size)
    BY <1>2, <2>1, <2>2, <2>4 DEF Updating
  <2>5. QED
    BY <1>1, <2>3, <2>4 DEF Updating
<1>4. Succeeded'
  <2>1. CASE call = Done /\ ~deleting
    <3>1. Written(SizeData)
      BY <1>1, <2>1 DEF Succeeded
    <3>2. SizeData = tree["size"].data /\ SizeData \in Nat
      BY <1>1, <3>1, VersionsAreNumbers DEF SizeData, ThereIs, Written
    <3>3. Same("size") /\ "size" \in DOMAIN tree
      BY <2>1, <3>1, <3>2 DEF Written
    <3>4. SizeData' = SizeData
      BY <3>2, <3>3 DEF SizeData, ThereIs, Same
    <3>5. QED
      BY <1>2, <2>1, <3>1, <3>2, <3>4 DEF Succeeded
  <2>2. QED
    BY <1>1, <2>1 DEF Succeeded
<1>5. Delayed'
  <2>1. CASE deleting
    BY <1>1, <2>1 DEF Delayed
  <2>2. CASE ~deleting
    BY <1>1, <2>2, DelayedGrows
  <2>3. QED
    BY <2>1, <2>2
<1>6. CallType' /\ Deleting'
  BY <1>1 DEF CallType, Deleting
<1>7. QED
  BY <1>3, <1>4, <1>5, <1>6 DEF ClientInv

\* What the loop sees.
View == <<Nodes, SizeData, call>>

\* What the bookies write, and what goes with their sessions, is theirs.
LEMMA BookiesStep ==
    ASSUME TreeType, BookieWrites \/ RegistrationExpires
    PROVE  /\ TreeType' /\ \A q \in PutPaths : Same(q)
           /\ Metadata!Others \/ UNCHANGED View
<1>1. SizeData = IF "size" \in DOMAIN tree THEN tree["size"].data ELSE 0
  BY DEF SizeData, ThereIs
<1>2. SizeData' = IF "size" \in DOMAIN tree' THEN tree'["size"].data ELSE 0
  BY DEF SizeData, ThereIs
<1>3. call' = call
  BY DEF BookieWrites, RegistrationExpires
<1>4. CASE BookieWrites
  <2>1. PICK p \in {"top", "root", "ledgers", "registered"} :
            Accepted(Create(p, 0)) /\ tree' = With(p, [data |-> 0, ver |-> 0])
    BY <1>4 DEF BookieWrites
  <2>2. p \in Paths /\ [data |-> 0, ver |-> 0] \in Node
    BY DEF Paths, Node
  <2>3. p \notin DOMAIN tree /\ (Parent[p] = "/" \/ Parent[p] \in DOMAIN tree)
    BY <2>1 DEF Accepted, Create, ThereIs
  <2>4. /\ TreeType' /\ DOMAIN tree' = DOMAIN tree \cup {p}
        /\ \A q \in DOMAIN tree \ {p} : tree'[q] = tree[q]
    BY <2>1, <2>2, <2>3, TreeWith
  <2>5. \A q \in PutPaths : Same(q)
    BY <2>1, <2>3, <2>4 DEF Same, PutPaths
  <2>6. SizeData' = SizeData
    BY <1>1, <1>2, <2>5 DEF Same, PutPaths
  <2>7. /\ Nodes = DOMAIN tree \cap {"root", "size", "updatedat", "ledgers"}
        /\ Nodes' = DOMAIN tree' \cap {"root", "size", "updatedat", "ledgers"}
    BY <2>4, NodesAre
  <2>8. CASE p \in {"top", "registered"}
    <3>1. Nodes' = Nodes
      BY <2>4, <2>7, <2>8
    <3>2. QED
      BY <1>3, <2>4, <2>5, <2>6, <3>1 DEF View
  <2>9. CASE p = "root"
    <3>1. Nodes' = Nodes \cup {"root"}
      BY <2>4, <2>7, <2>9
    <3>2. QED
      BY <1>3, <2>4, <2>5, <2>6, <3>1 DEF Metadata!Others
  <2>10. CASE p = "ledgers"
    <3>1. "root" \in DOMAIN tree
      BY <2>3, <2>10, Parents
    <3>2. Nodes' = Nodes \cup {"root", "ledgers"}
      BY <2>4, <2>7, <2>10, <3>1
    <3>3. QED
      BY <1>3, <2>4, <2>5, <2>6, <3>2 DEF Metadata!Others
  <2>11. QED
    BY <2>1, <2>8, <2>9, <2>10
<1>5. CASE RegistrationExpires
  <2> DEFINE r == Delete("registered", tree["registered"].ver)
  <2>1. r.req = "delete" /\ r.path = "registered" /\ r.path \in Paths
    BY DEF Delete, Paths
  <2>2. tree' = After(r)
    BY <1>5 DEF RegistrationExpires
  <2>3. TreeType' /\ \A q \in Paths \ {"registered"} : Same(q)
    <3>1. CASE Accepted(r)
      BY <2>1, <2>2, <3>1, DeleteRemoves DEF Same
    <3>2. CASE ~Accepted(r)
      BY <2>2, <3>2, ReadsChangeNothing DEF Same, TreeType
    <3>3. QED
      BY <3>1, <3>2
  <2>4. \A q \in {"root", "size", "updatedat", "ledgers"} : Same(q)
    BY <2>3 DEF Paths
  <2>5. /\ Nodes = DOMAIN tree \cap {"root", "size", "updatedat", "ledgers"}
        /\ Nodes' = DOMAIN tree' \cap {"root", "size", "updatedat", "ledgers"}
    BY <2>3, NodesAre
  <2>6. Nodes' = Nodes
    BY <2>4, <2>5 DEF Same
  <2>7. SizeData' = SizeData
    BY <1>1, <1>2, <2>4 DEF Same
  <2>8. QED
    BY <1>3, <2>3, <2>4, <2>6, <2>7 DEF View, PutPaths
<1>6. QED
  BY <1>4, <1>5

\* A request of a broken connection finds its version gone by, or the call it
\* belonged to has failed.
LEMMA LateStep ==
    ASSUME ClientInv, LateRequest
    PROVE  /\ ClientInv'
           /\ Metadata!Overdue \/ UNCHANGED View
           /\ call = Done /\ ~deleting => SizeData' = SizeData
<1>1. TreeType /\ Succeeded /\ Delayed
  BY DEF ClientInv
<1>2. PICK r \in late : late' = late \ {r} /\ tree' = After(r)
  BY DEF LateRequest
<1>3. UNCHANGED <<call, todo, deleting>> /\ call' = call
  BY DEF LateRequest, caller
<1>4. r \in Requests /\ r.req # "create"
  BY <1>1, <1>2 DEF Delayed
<1>5. TreeType'
  BY <1>1, <1>2, <1>4, RequestKeepsTree
<1>6. /\ Nodes = DOMAIN tree \cap {"root", "size", "updatedat", "ledgers"}
      /\ Nodes' = DOMAIN tree' \cap {"root", "size", "updatedat", "ledgers"}
  BY <1>1, <1>5, NodesAre
<1>7. SizeData = IF "size" \in DOMAIN tree THEN tree["size"].data ELSE 0
  BY DEF SizeData, ThereIs
<1>8. SizeData' = IF "size" \in DOMAIN tree' THEN tree'["size"].data ELSE 0
  BY DEF SizeData, ThereIs
<1>9. CASE tree' = tree
  <2>1. \A q \in Paths : Same(q) /\ Grows(q)
    <3>1. \A q \in DOMAIN tree : tree[q].ver \in Nat
      BY <1>1, VersionsAreNumbers
    <3>2. QED
      BY <1>9, <3>1 DEF Same, Grows
  <2>2. ClientInv'
    BY <1>2, <1>3, <1>5, <1>9, <2>1, OthersKeepInv DEF PutPaths, Paths
  <2>3. QED
    BY <1>3, <1>6, <1>7, <1>8, <1>9, <2>2 DEF View
<1>10. CASE r \in DeletionRequests
  <2>1. deleting
    BY <1>1, <1>2, <1>10, DeletionRequestParts DEF Delayed
  <2>2. DOMAIN tree' \subseteq DOMAIN tree
    <3>1. CASE r.req = "delete" /\ Accepted(r)
      BY <1>1, <1>2, <1>10, <3>1, DeletionRequestParts, DeleteRemoves
    <3>2. CASE ~(r.req = "delete" /\ Accepted(r))
      BY <1>2, <1>10, <3>2, DeletionRequestParts, ReadsChangeNothing
    <3>3. QED
      BY <3>1, <3>2
  <2>3. ClientInv'
    BY <1>2, <1>3, <1>5, <2>1, <2>2, OthersKeepInv
  <2>4. Removal
    BY <1>1, <1>2, <1>10, DeletionRequest
  <2>5. call = Done => "size" \notin Nodes
    BY <1>1, <1>6, <2>1 DEF Succeeded
  <2>6. Done = Metadata!Done
    BY DEF Done, Metadata!Done
  <2>7. Metadata!Overdue
    BY <1>3, <2>4, <2>5, <2>6 DEF Removal, Metadata!Overdue
  <2>8. QED
    BY <2>1, <2>3, <2>7
<1>11. CASE r \notin DeletionRequests /\ Accepted(r) /\ r.req = "set"
  <2>1. /\ r.path \in PutPaths /\ r.path \in Paths
        /\ r.data \in Nat /\ r.ver \in Nat
    BY <1>4, <1>11, RequestKinds, UpdateRequestParts
  <2>2. /\ r.path \in DOMAIN tree /\ DOMAIN tree' = DOMAIN tree
        /\ tree[r.path].ver = r.ver
        /\ tree'[r.path] = [data |-> r.data, ver |-> r.ver + 1]
        /\ \A q \in DOMAIN tree \ {r.path} : tree'[q] = tree[q]
    BY <1>1, <1>2, <1>11, <2>1, SetReplaces
  <2>3. \A q \in PutPaths : (q \in DOMAIN tree' => q \in DOMAIN tree) /\ Grows(q)
    <3>1. \A q \in DOMAIN tree : tree[q].ver \in Nat
      BY <1>1, VersionsAreNumbers
    <3>2. QED
      BY <2>1, <2>2, <3>1 DEF Grows
  <2>4. ASSUME NEW s \in Nat, Written(s)
        PROVE  r.path # "size" /\ Same("size")
    <3>1. r.path = "size" => tree["size"].ver < tree["size"].ver
      BY <1>2, <1>11, <2>2, <2>4 DEF Written
    <3>2. "size" \in DOMAIN tree /\ tree["size"].ver \in Nat
      BY <1>1, <2>4, VersionsAreNumbers DEF Written
    <3>3. r.path # "size"
      BY <3>1, <3>2
    <3>4. QED
      BY <2>2, <3>3 DEF Same
  <2>5. ClientInv'
    BY <1>2, <1>3, <1>5, <2>2, <2>3, <2>4, OthersKeepInv
  <2>6. Nodes' = Nodes
    BY <1>6, <2>2
  <2>7. CASE r.path # "size"
    <3>1. SizeData' = SizeData
      BY <1>7, <1>8, <2>2, <2>7
    <3>2. QED
      BY <1>3, <2>5, <2>6, <3>1 DEF View
  <2>8. CASE r.path = "size"
    <3>1. call # Done
      <4>1. SUFFICES ASSUME call = Done
                     PROVE  FALSE
        OBVIOUS
      <4>2. Written(SizeData)
        BY <1>1, <2>2, <2>8, <4>1 DEF Succeeded
      <4>3. SizeData \in Nat
        BY <1>1, <1>7, <2>2, <2>8, VersionsAreNumbers
      <4>4. QED
        BY <2>4, <2>8, <4>2, <4>3
    <3>2. "size" \in Nodes /\ SizeData' \in Nat
      BY <1>6, <1>8, <2>1, <2>2, <2>8
    <3>3. Metadata!Overdue
      <4>1. Done = Metadata!Done
        BY DEF Done, Metadata!Done
      <4>2. QED
        BY <1>3, <2>6, <3>1, <3>2, <4>1 DEF Metadata!Overdue
    <3>4. QED
      BY <2>5, <3>1, <3>3
  <2>9. QED
    BY <2>7, <2>8
<1>12. QED
  BY <1>2, <1>4, <1>9, <1>10, <1>11, ReadsChangeNothing, RequestKinds,
     UpdateRequestParts

-----------------------------------------------------------------------------
(* Steps of a call.                                                         *)

\* The first request of an update, and the version it was sent with.
LEMMA UpdatingHead ==
    ASSUME ClientInv, call.op = "update"
    PROVE  /\ call.size \in Nat /\ call = Update(call.size) /\ ~deleting
           /\ Head(todo) \in UpdateRequests(call.size)
           /\ Head(todo).req = "set" =>
                /\ Head(todo).path \in DOMAIN tree
                /\ Head(todo).ver <= tree[Head(todo).path].ver
<1>1. TreeType /\ call \in Calls /\ Updating
  BY DEF ClientInv, CallType
<1>2. call.size \in Nat /\ call = Update(call.size) /\ ~deleting
  BY <1>1, CallKinds DEF Updating
<1>3. ASSUME NEW t \in Puttings("size", call.size),
             todo = t \o <<ToPut("updatedat", 0)>>
      PROVE  /\ Head(todo) \in UpdateRequests(call.size)
             /\ Head(todo).req = "set" =>
                  /\ Head(todo).path \in DOMAIN tree
                  /\ Head(todo).ver <= tree[Head(todo).path].ver
  <2>1. /\ t \in Seq(UpdateRequests(call.size)) /\ t # <<>>
        /\ Head(t) \in UpdateRequests(call.size)
        /\ Head(t).req = "set" =>
             Head(t).path \in DOMAIN tree /\ Head(t).ver <= tree[Head(t).path].ver
    BY <1>1, <1>2, <1>3, PuttingsAreLists DEF PutPaths
  <2>2. ToPut("updatedat", 0) \in UpdateRequests(call.size)
    BY <1>2, PutRequests DEF PutPaths
  <2>3. <<ToPut("updatedat", 0)>> \in Seq(UpdateRequests(call.size))
    BY <2>2, ShortListsOf, Zenon
  <2>4. Head(todo) = Head(t)
    BY <1>3, <2>1, <2>3, HeadTailOfConcat
  <2>5. QED
    BY <2>1, <2>4
<1>4. ASSUME todo \in Puttings("updatedat", 0)
      PROVE  /\ Head(todo) \in UpdateRequests(call.size)
             /\ Head(todo).req = "set" =>
                  /\ Head(todo).path \in DOMAIN tree
                  /\ Head(todo).ver <= tree[Head(todo).path].ver
  BY <1>1, <1>2, <1>4, PuttingsAreLists DEF PutPaths
<1>5. QED
  BY <1>1, <1>2, <1>3, <1>4 DEF Updating

\* What the view relies on: the calls are those of the abstract specification.
LEMMA SameCalls ==
    /\ Metadata!Deletion = Deletion /\ Metadata!Done = Done /\ Metadata!NoCall = NoCall
    /\ \A s \in Nat : Update(s) \in Metadata!Updates
BY DEF Metadata!Deletion, Deletion, Metadata!Done, Done, Metadata!NoCall, NoCall,
       Update, Metadata!Updates

\* A call that failed leaves nothing to keep but what is under way.
LEMMA FailedKeepsInv ==
    ASSUME TreeType', Delayed', call' = NoCall, todo' = <<>>, deleting' \in BOOLEAN
    PROVE  ClientInv'
<1>1. NoCall \in Calls /\ NoCall.op # "update" /\ NoCall \notin {Done, Deletion}
  BY DEF NoCall, Done, Deletion, Calls
<1>2. Calls' = Calls
  BY DEF Calls
<1>3. QED
  BY <1>1, <1>2 DEF ClientInv, CallType, Updating, Deleting, Succeeded

\* While an update works on the size node: it goes on with it or turns to the
\* other one.
LEMMA SizeStep ==
    ASSUME ClientInv, call.op = "update", TreeType', Delayed',
           UNCHANGED <<late, deleting>>, tree' = After(Head(todo)),
           NEW s \in Nat, call.size = s, NEW t \in Puttings("size", s),
           todo = t \o <<ToPut("updatedat", 0)>>,
           NEW next \in FollowUps(Head(todo)), todo' = next \o Tail(todo),
           call' = IF todo' = <<>> THEN Done ELSE call
    PROVE  ClientInv' /\ call' = call
<1> DEFINE u == <<ToPut("updatedat", 0)>>
           R == UpdateRequests(s)
<1>1. /\ TreeType /\ Delayed /\ ~deleting /\ call \in Calls /\ deleting \in BOOLEAN
      /\ call \notin {NoCall, Done, Deletion}
  BY CallKinds, UpdatingHead DEF ClientInv, CallType
<1>2. t \in Seq(R) /\ t # <<>> /\ Head(t) \in R
  BY <1>1, PuttingsAreLists DEF PutPaths
<1>3. ToPut("updatedat", 0) \in R
  BY <1>1, PutRequests DEF PutPaths
<1>4. u \in Seq(R) /\ u # <<>> /\ <<>> \o u = u
  <2>1. \A a \in R : <<a>> \in Seq(R) /\ <<>> \o <<a>> = <<a>>
    BY ShortListsOf
  <2>2. QED
    BY <1>3, <2>1, ShortLists
<1>5. Head(todo) = Head(t) /\ Tail(todo) = Tail(t) \o u
  BY <1>2, <1>4, HeadTailOfConcat
<1>6. next \in FollowUps(Head(t)) /\ tree' = After(Head(t))
  BY <1>5
<1>7. next \in Seq(R) /\ Tail(t) \in Seq(R)
  <2>1. Tail(t) \in Seq(R)
    BY <1>2, HeadTailProperties
  <2>2. QED
    BY <1>1, <1>2, <1>6, <2>1, UpdateFollowUps
<1>8. todo' = (next \o Tail(t)) \o u
  <2>1. \A n \in Seq(R) : n \o Tail(t \o u) = (n \o Tail(t)) \o u
    BY <1>2, <1>4, HeadReplaced
  <2>2. QED
    BY <1>7, <2>1, Zenon
<1>9. todo' # <<>>
  <2>1. next \o Tail(t) \in Seq(R)
    BY <1>7, ConcatProperties
  <2>2. QED
    BY <1>4, <1>8, <2>1, LastOfConcat
<1>10. call' = call
  BY <1>9
<1>11. Updating'
  <2>1. CASE next \o Tail(t) \in Puttings("size", s)'
    <3>1. \E n \in Puttings("size", call.size)' : todo' = n \o u
      BY <1>8, <1>10, <2>1
    <3>2. QED
      BY <1>1, <3>1 DEF Updating
  <2>2. CASE /\ next \o Tail(t) = <<>>
             /\ "size" \in DOMAIN tree' /\ tree'["size"].data = s
             /\ "size" \in DOMAIN tree => tree'["size"].ver = tree["size"].ver + 1
    <3>1. todo' = u
      BY <1>4, <1>8, <2>2
    <3>2. u \in Puttings("updatedat", 0)'
      BY DEF Puttings
    <3>3. ASSUME NEW r \in late', r.req = "set", r.path = "size"
          PROVE  r.ver < tree'["size"].ver
      <4>1. r \in Requests /\ r \notin DeletionRequests
        BY <3>3, DeletionRequestParts DEF ClientInv, Delayed
      <4>2. r.ver \in Nat
        BY <3>3, <4>1, RequestKinds, UpdateRequestParts
      <4>3. "size" \in DOMAIN tree /\ r.ver <= tree["size"].ver
        BY <1>1, <3>3 DEF Delayed
      <4>4. tree["size"].ver \in Nat
        BY <1>1, <4>3, VersionsAreNumbers
      <4>5. QED
        BY <2>2, <4>2, <4>3, <4>4
    <3>4. Written(call.size)'
      BY <1>10, <2>2, <3>3 DEF Written
    <3>5. QED
      BY <1>1, <3>1, <3>2, <3>4 DEF Updating
  <2>3. QED
    BY <1>1, <1>6, <2>1, <2>2, PutStep DEF PutPaths
<1>12. CallType' /\ Deleting' /\ Succeeded'
  <2>1. Calls' = Calls
    BY DEF Calls
  <2>2. QED
    BY <1>1, <1>10, <2>1 DEF CallType, Deleting, Succeeded
<1>13. QED
  BY <1>10, <1>11, <1>12 DEF ClientInv

\* While it works on the other one it leaves the size alone; when that is done
\* too, both nodes and their root are there.
LEMMA UpdatedatStep ==
    ASSUME ClientInv, call.op = "update", TreeType', Delayed',
           UNCHANGED <<late, deleting>>, tree' = After(Head(todo)),
           todo \in Puttings("updatedat", 0),
           NEW s \in Nat, call.size = s, Written(s),
           NEW next \in FollowUps(Head(todo)), todo' = next \o Tail(todo),
           call' = IF todo' = <<>> THEN Done ELSE call
    PROVE  /\ ClientInv'
           /\ \/ call' = call
              \/ /\ call' = Done
                 /\ {"root", "size", "updatedat"} \subseteq Nodes'
                 /\ SizeData' = s
<1>1. /\ TreeType /\ Delayed /\ ~deleting /\ call \in Calls /\ deleting \in BOOLEAN
      /\ call \notin {NoCall, Done, Deletion}
  BY CallKinds, UpdatingHead DEF ClientInv, CallType
<1>2. Calls' = Calls /\ Done \in Calls /\ Done.op # "update" /\ Done # Deletion
  BY DEF Calls, Done, Deletion
<1>3. \/ todo' \in Puttings("updatedat", 0)' /\ todo' # <<>>
      \/ todo' = <<>> /\ "updatedat" \in DOMAIN tree'
  BY <1>1, PutStep DEF PutPaths
<1>4. Same("size")
  BY <1>1, PutStep DEF PutPaths
<1>5. Written(s)'
  BY <1>4 DEF Written, Same
<1>6. CASE todo' \in Puttings("updatedat", 0)' /\ todo' # <<>>
  <2>1. call' = call
    BY <1>6
  <2>2. Updating'
    BY <1>1, <1>5, <1>6, <2>1 DEF Updating
  <2>3. CallType' /\ Deleting' /\ Succeeded'
    BY <1>1, <1>2, <2>1 DEF CallType, Deleting, Succeeded
  <2>4. QED
    BY <2>1, <2>2, <2>3 DEF ClientInv
<1>7. CASE todo' = <<>> /\ "updatedat" \in DOMAIN tree'
  <2>1. call' = Done
    BY <1>7
  <2>2. SizeData' = s /\ "size" \in DOMAIN tree'
    BY <1>5 DEF Written, SizeData, ThereIs
  <2>3. "root" \in DOMAIN tree'
    BY <2>2, Parents DEF TreeType
  <2>4. Nodes' = DOMAIN tree' \cap {"root", "size", "updatedat", "ledgers"}
    BY NodesAre
  <2>5. Succeeded'
    BY <1>1, <1>5, <2>2 DEF Succeeded
  <2>6. CallType' /\ Updating' /\ Deleting'
    BY <1>1, <1>2, <1>7, <2>1 DEF CallType, Updating, Deleting
  <2>7. QED
    BY <1>7, <2>1, <2>2, <2>3, <2>4, <2>5, <2>6 DEF ClientInv
<1>8. QED
  BY <1>3, <1>6, <1>7

\* A step of an update.
LEMMA UpdatingSend ==
    ASSUME ClientInv, SendRequest, call.op = "update"
    PROVE  ClientInv' /\ (Metadata!Work \/ Metadata!Return)
<1> SUFFICES ASSUME NEW s, s = call.size
             PROVE  ClientInv' /\ (Metadata!Work \/ Metadata!Return)
  OBVIOUS
<1>1. /\ TreeType /\ Delayed /\ Updating /\ ~deleting /\ s \in Nat
      /\ call = Update(s) /\ Head(todo) \in UpdateRequests(s) /\ deleting \in BOOLEAN
  BY UpdatingHead DEF ClientInv, CallType
<1>2. /\ tree' = After(Head(todo)) /\ late' = late /\ deleting' = deleting
  BY DEF SendRequest, caller
<1>3. TreeType'
  BY <1>1, <1>2, RequestKeepsTree, UpdateRequestParts
<1>4. Metadata!UpdatePart
  BY <1>1, <1>2, UpdateRequest
<1>5. \A q \in Paths : Grows(q)
  BY <1>1, <1>2, UpdateGrows
<1>6. Delayed'
  BY <1>1, <1>2, <1>3, <1>5, DelayedGrows DEF PutPaths, Paths
<1>7. CASE todo' = <<>> /\ call' = NoCall
  <2>1. ClientInv'
    BY <1>1, <1>2, <1>3, <1>6, <1>7, FailedKeepsInv
  <2>2. QED
    BY <1>4, <1>7, <2>1, SameCalls DEF Metadata!Work
<1>8. CASE \E next \in FollowUps(Head(todo)) :
                /\ todo' = next \o Tail(todo)
                /\ call' = IF todo' = <<>> THEN Done ELSE call
  <2>1. PICK next \in FollowUps(Head(todo)) :
                /\ todo' = next \o Tail(todo)
                /\ call' = IF todo' = <<>> THEN Done ELSE call
    BY <1>8
  <2>2. CASE \E t \in Puttings("size", s) : todo = t \o <<ToPut("updatedat", 0)>>
    <3>1. PICK t \in Puttings("size", s) : todo = t \o <<ToPut("updatedat", 0)>>
      BY <2>2
    <3>2. ClientInv' /\ call' = call
      BY <1>1, <1>2, <1>3, <1>6, <2>1, <3>1, SizeStep
    <3>3. QED
      BY <1>4, <3>2 DEF Metadata!Work
  <2>3. CASE todo \in Puttings("updatedat", 0) /\ Written(s)
    <3>1. /\ ClientInv'
          /\ \/ call' = call
             \/ /\ call' = Done
                /\ {"root", "size", "updatedat"} \subseteq Nodes'
                /\ SizeData' = s
      BY <1>1, <1>2, <1>3, <1>6, <2>1, <2>3, UpdatedatStep
    <3>2. QED
      BY <1>4, <3>1, SameCalls DEF Metadata!Work, Metadata!Return, Metadata!Complete
  <2>4. QED
    BY <1>1, <2>2, <2>3 DEF Updating
<1>9. QED
  BY <1>7, <1>8 DEF SendRequest

\* What is under way when the deletion has begun.
LEMMA DelayedDeleting ==
    ASSUME Delayed, late' = late, deleting'
    PROVE  Delayed'
BY DEF Delayed

\* A step of a deletion: whatever is first, the last request stays one for the
\* root until it is gone.
LEMMA DeletingSend ==
    ASSUME ClientInv, SendRequest, call = Deletion
    PROVE  ClientInv' /\ (Metadata!Work \/ Metadata!Return)
<1> DEFINE r == Head(todo)
           D == DeletionRequests
<1>1. /\ TreeType /\ Delayed /\ deleting
      /\ todo \in Seq(D) /\ todo # <<>> /\ todo[Len(todo)].path = "root"
  BY DEF ClientInv, Deleting
<1>2. tree' = After(r) /\ late' = late /\ deleting'
  BY <1>1 DEF SendRequest, caller
<1>3. r \in D /\ Tail(todo) \in Seq(D)
  BY <1>1, HeadTailProperties
<1>4. TreeType' /\ Delayed'
  BY <1>1, <1>2, <1>3, RequestKeepsTree, DeletionRequestParts, DelayedDeleting
<1>5. Metadata!DeletePart
  <2>1. Removal
    BY <1>1, <1>2, <1>3, DeletionRequest
  <2>2. QED
    BY <2>1, SameCalls DEF Removal, Metadata!DeletePart
<1>6. CASE todo' = <<>> /\ call' = NoCall
  <2>1. ClientInv'
    BY <1>2, <1>4, <1>6, FailedKeepsInv
  <2>2. QED
    BY <1>5, <1>6, <2>1, SameCalls DEF Metadata!Work
<1>7. ASSUME todo' \in Seq(D), todo' # <<>>, todo'[Len(todo')].path = "root",
             call' = call
      PROVE  ClientInv' /\ Metadata!Work
  <2>1. /\ Calls' = Calls /\ Deletion \in Calls
        /\ Deletion.op # "update" /\ Deletion \notin {NoCall, Done}
    BY DEF Calls, Deletion, NoCall, Done
  <2>2. CallType' /\ Updating' /\ Deleting' /\ Succeeded'
    BY <1>2, <1>7, <2>1 DEF CallType, Updating, Deleting, Succeeded
  <2>3. QED
    BY <1>4, <1>5, <1>7, <2>2 DEF ClientInv, Metadata!Work
<1>8. CASE \E next \in FollowUps(r) :
                /\ todo' = next \o Tail(todo)
                /\ call' = IF todo' = <<>> THEN Done ELSE call
  <2>1. PICK next \in FollowUps(r) :
                /\ todo' = next \o Tail(todo)
                /\ call' = IF todo' = <<>> THEN Done ELSE call
    BY <1>8
  <2>2. /\ next \in Seq(D)
        /\ next # <<>> => next[Len(next)].path = r.path
        /\ next = <<>> => r.path \notin DOMAIN tree'
    BY <1>1, <1>2, <1>3, DeletionFollowUps
  <2>3. CASE Tail(todo) # <<>>
    <3>1. Tail(todo)[Len(Tail(todo))].path = "root"
      BY <1>1, <2>3, LastOfTail
    <3>2. /\ todo' \in Seq(D) /\ todo' # <<>>
          /\ todo'[Len(todo')] = Tail(todo)[Len(Tail(todo))]
      BY <1>3, <2>1, <2>2, <2>3, LastOfConcat
    <3>3. QED
      BY <1>7, <2>1, <3>1, <3>2
  <2>4. CASE Tail(todo) = <<>>
    <3>1. r.path = "root"
      <4>1. r = todo[Len(todo)]
        BY <1>1, <2>4, OnlyOne
      <4>2. QED
        BY <1>1, <4>1
    <3>2. todo' = next
      BY <2>1, <2>2, <2>4, ConcatEmptySeq
    <3>3. CASE next # <<>>
      BY <1>7, <2>1, <2>2, <3>1, <3>2, <3>3
    <3>4. CASE next = <<>>
      <4>1. "root" \notin DOMAIN tree' /\ call' = Done /\ todo' = <<>>
        BY <2>1, <2>2, <3>1, <3>2, <3>4
      <4>2. /\ Nodes' = DOMAIN tree' \cap {"root", "size", "updatedat", "ledgers"}
            /\ \A p \in DOMAIN tree' : p \in Paths
            /\ \A p \in DOMAIN tree' : Parent[p] = "/" \/ Parent[p] \in DOMAIN tree'
        BY <1>4, NodesAre DEF TreeType
      <4>3. Nodes' = {} /\ "size" \notin DOMAIN tree'
        BY <4>1, <4>2, Parents
      <4>4. /\ Calls' = Calls /\ Done \in Calls
            /\ Done.op # "update" /\ Done # Deletion
        BY DEF Calls, Done, Deletion
      <4>5. CallType' /\ Updating' /\ Deleting' /\ Succeeded'
        BY <1>2, <4>1, <4>3, <4>4 DEF CallType, Updating, Deleting, Succeeded
      <4>6. ClientInv'
        BY <1>4, <4>5 DEF ClientInv
      <4>7. Metadata!Return
        BY <1>5, <4>1, <4>3, SameCalls DEF Metadata!Return, Metadata!Complete
      <4>8. QED
        BY <4>6, <4>7
    <3>5. QED
      BY <3>3, <3>4
  <2>5. QED
    BY <2>3, <2>4
<1>9. QED
  BY <1>6, <1>7, <1>8 DEF SendRequest

\* A call whose connection breaks has done what it did, and may do one thing more.
LEMMA LoseStep ==
    ASSUME ClientInv, LoseConnection, "create" \notin Late
    PROVE  ClientInv' /\ Metadata!Work
<1> DEFINE r == Head(todo)
<1>1. /\ TreeType /\ Delayed /\ CallType /\ todo # <<>>
      /\ deleting' = deleting /\ deleting \in BOOLEAN
      /\ todo' = <<>> /\ call' = NoCall
  BY DEF ClientInv, CallType, LoseConnection, caller
<1>2. \/ call.op = "update" /\ ~deleting
      \/ call = Deletion /\ deleting
  <2>1. call \in Calls /\ call \notin {NoCall, Done}
    BY <1>1 DEF CallType
  <2>2. QED
    BY <2>1, CallKinds DEF ClientInv, Updating, Deleting
<1>3. ASSUME call.op = "update"
      PROVE  /\ ~deleting /\ call.size \in Nat /\ call = Update(call.size)
             /\ r \in UpdateRequests(call.size)
             /\ r.req = "set" => r.path \in DOMAIN tree /\ r.ver <= tree[r.path].ver
  BY <1>3, UpdatingHead
<1>4. ASSUME call = Deletion
      PROVE  r \in DeletionRequests
  <2>1. todo \in Seq(DeletionRequests)
    BY <1>4 DEF ClientInv, Deleting
  <2>2. QED
    BY <1>1, <2>1, HeadTailProperties
<1>5. r \in Requests
  BY <1>2, <1>3, <1>4, UpdateRequestParts, DeletionRequestParts
<1>6. CASE tree' = After(r) /\ late' = late
  <2>1. TreeType'
    BY <1>1, <1>5, <1>6, RequestKeepsTree
  <2>2. CASE call.op = "update"
    <3>1. \A q \in PutPaths : Grows(q)
      BY <1>1, <1>3, <1>6, <2>2, UpdateGrows DEF PutPaths, Paths
    <3>2. Delayed'
      BY <1>1, <1>6, <2>1, <3>1, DelayedGrows
    <3>3. Metadata!UpdatePart
      BY <1>1, <1>3, <1>6, <2>2, UpdateRequest
    <3>4. QED
      BY <1>1, <2>1, <3>2, <3>3, FailedKeepsInv, SameCalls DEF Metadata!Work
  <2>3. CASE call = Deletion
    <3>1. deleting /\ Delayed'
      BY <1>1, <1>2, <1>6, <2>3, DelayedDeleting, CallKinds DEF CallType
    <3>2. Removal
      BY <1>1, <1>4, <1>6, <2>3, DeletionRequest
    <3>3. Metadata!DeletePart
      BY <2>3, <3>2, SameCalls DEF Removal, Metadata!DeletePart
    <3>4. QED
      BY <1>1, <2>1, <3>1, <3>3, FailedKeepsInv, SameCalls DEF Metadata!Work
  <2>4. QED
    BY <1>2, <2>2, <2>3
<1>7. CASE tree' = tree
  <2>1. TreeType' /\ Nodes' = Nodes /\ SizeData' = SizeData
    BY <1>1, <1>7, NodesAre DEF TreeType, SizeData, ThereIs
  <2>2. SizeData = IF "size" \in DOMAIN tree THEN tree["size"].data ELSE 0
    BY DEF SizeData, ThereIs
  <2>3. "size" \in DOMAIN tree => "size" \in Nodes
    BY <1>1, NodesAre
  <2>4. Metadata!UpdatePart \/ Metadata!DeletePart
    <3>1. CASE call.op = "update"
      BY <2>1, <3>1 DEF Metadata!UpdatePart
    <3>2. CASE call = Deletion
      BY <2>1, <2>2, <2>3, <3>2, SameCalls DEF Metadata!DeletePart
    <3>3. QED
      BY <1>2, <3>1, <3>2
  <2>5. Delayed'
    <3>1. CASE late' = late
      BY <1>1, <1>7, <3>1 DEF Delayed
    <3>2. CASE r.req \in Late /\ late' = late \cup {r}
      <4>1. r.req # "create"
        BY <3>2
      <4>2. ~deleting => /\ r.req \in {"getToPut", "set"}
                         /\ r.req = "set" =>
                              r.path \in DOMAIN tree /\ r.ver <= tree[r.path].ver
        BY <1>2, <1>3, <4>1, UpdateRequestParts
      <4>3. QED
        BY <1>1, <1>5, <1>7, <3>2, <4>1, <4>2 DEF Delayed
    <3>3. QED
      BY <1>7, <3>1, <3>2 DEF LoseConnection
  <2>6. ClientInv'
    BY <1>1, <2>1, <2>5, FailedKeepsInv
  <2>7. QED
    BY <1>1, <2>4, <2>6, SameCalls DEF Metadata!Work
<1>8. QED
  BY <1>6, <1>7 DEF LoseConnection

-----------------------------------------------------------------------------
(* Steps that begin a call.                                                 *)

LEMMA UpdateBegins ==
    ASSUME ClientInv, UpdateMetadata
    PROVE  ClientInv' /\ Metadata!Begin /\ SizeData' = SizeData
<1>1. /\ TreeType /\ Delayed /\ ~deleting /\ call \in {NoCall, Done}
      /\ tree' = tree /\ late' = late /\ ~deleting' /\ deleting' \in BOOLEAN
  BY DEF ClientInv, CallType, UpdateMetadata
<1>2. PICK s \in Sizes :
        call' = Update(s) /\ todo' = <<ToPut("size", s), ToPut("updatedat", 0)>>
  BY DEF UpdateMetadata
<1>3. /\ s \in Nat /\ Update(s).op = "update" /\ Update(s).size = s
      /\ Update(s) \notin {NoCall, Done, Deletion}
  BY SizesAssumption DEF Update, NoCall, Done, Deletion
<1>4. todo' = <<ToPut("size", s)>> \o <<ToPut("updatedat", 0)>>
  BY <1>2
<1>5. <<ToPut("size", s)>> \in Puttings("size", s)'
  BY DEF Puttings
<1>6. Updating'
  <2>1. \E t \in Puttings("size", call.size)' : todo' = t \o <<ToPut("updatedat", 0)>>
    BY <1>2, <1>3, <1>4, <1>5
  <2>2. QED
    BY <1>1, <2>1 DEF Updating
<1>7. CallType' /\ Deleting' /\ Succeeded'
  BY <1>1, <1>2, <1>3 DEF CallType, Deleting, Succeeded, Calls
<1>8. TreeType' /\ Delayed'
  BY <1>1 DEF TreeType, Delayed
<1>9. Metadata!Begin
  <2>1. Nodes' = Nodes /\ SizeData' = SizeData
    BY <1>1, <1>8, NodesAre DEF SizeData, ThereIs
  <2>2. QED
    BY <1>1, <1>2, <1>3, <2>1, SameCalls DEF Metadata!Begin
<1>10. QED
  BY <1>6, <1>7, <1>8, <1>9 DEF ClientInv, Metadata!Begin

LEMMA DeletionBegins ==
    ASSUME ClientInv, DeleteMetadata
    PROVE  ClientInv' /\ Metadata!Begin /\ SizeData' = SizeData
<1>1. /\ TreeType /\ Delayed /\ call \in {NoCall, Done}
      /\ tree' = tree /\ late' = late /\ deleting' = TRUE /\ call' = Deletion
      /\ todo' = <<ToDelete("root")>>
  BY DEF ClientInv, DeleteMetadata
<1>2. /\ ToDelete("root") \in DeletionRequests /\ ToDelete("root").path = "root"
  BY DEF ToDelete, DeletionRequests, Paths
<1>3. /\ todo' \in Seq(DeletionRequests) /\ todo' # <<>>
      /\ todo'[Len(todo')].path = "root"
  BY <1>1, <1>2
<1>4. /\ Deletion.op # "update" /\ Deletion \notin {NoCall, Done}
      /\ Deletion \in Calls /\ Calls' = Calls
  BY DEF Deletion, NoCall, Done, Calls
<1>5. CallType' /\ Updating' /\ Deleting' /\ Succeeded'
  BY <1>1, <1>3, <1>4 DEF CallType, Updating, Deleting, Succeeded
<1>6. TreeType' /\ Delayed'
  BY <1>1, DelayedDeleting DEF TreeType
<1>7. Metadata!Begin
  <2>1. Nodes' = Nodes /\ SizeData' = SizeData
    BY <1>1, <1>6, NodesAre DEF SizeData, ThereIs
  <2>2. QED
    BY <1>1, <2>1, SameCalls DEF Metadata!Begin
<1>8. QED
  BY <1>5, <1>6, <1>7 DEF ClientInv, Metadata!Begin

-----------------------------------------------------------------------------
(* The theorems.                                                            *)

LEMMA InitialInv == Init => ClientInv /\ Metadata!Init
<1> SUFFICES ASSUME Init
             PROVE  ClientInv /\ Metadata!Init
  OBVIOUS
<1>1. /\ DOMAIN tree = {} /\ tree \in [DOMAIN tree -> Node] /\ late = {}
      /\ call = NoCall /\ todo = <<>> /\ deleting \in BOOLEAN
  BY DEF Init
<1>2. TreeType /\ Delayed
  BY <1>1 DEF TreeType, Delayed
<1>3. NoCall \in Calls /\ NoCall.op # "update" /\ NoCall \notin {Done, Deletion}
  BY DEF NoCall, Done, Deletion, Calls
<1>4. CallType /\ Updating /\ Deleting /\ Succeeded
  BY <1>1, <1>3 DEF CallType, Updating, Deleting, Succeeded
<1>5. Metadata!Init
  BY <1>1, <1>2, NodesAre, SameCalls DEF Metadata!Init, SizeData, ThereIs
<1>6. QED
  BY <1>2, <1>4, <1>5 DEF ClientInv

\* A step keeps the invariant, is one of the abstract specification or changes
\* nothing it sees, and leaves a size that an update wrote.
LEMMA ClientStep ==
    ASSUME ClientInv, Next, "create" \notin Late
    PROVE  /\ ClientInv'
           /\ Metadata!Next \/ UNCHANGED View
           /\ call = Done /\ ~deleting => SizeData' = SizeData
<1>1. TreeType /\ CallType /\ Succeeded
  BY DEF ClientInv
<1>2. CASE SendRequest
  <2>1. call \in Calls /\ call \notin {NoCall, Done}
    BY <1>1, <1>2 DEF CallType, SendRequest
  <2>2. call.op = "update" \/ call = Deletion
    BY <2>1, CallKinds
  <2>3. ClientInv' /\ (Metadata!Work \/ Metadata!Return)
    BY <1>2, <2>2, UpdatingSend, DeletingSend
  <2>4. QED
    BY <2>1, <2>3 DEF Metadata!Next
<1>3. CASE LoseConnection
  <2>1. call # Done
    BY <1>1, <1>3 DEF CallType, LoseConnection
  <2>2. QED
    BY <1>3, <2>1, LoseStep DEF Metadata!Next
<1>4. CASE LateRequest
  BY <1>4, LateStep DEF Metadata!Next
<1>5. CASE UpdateMetadata
  BY <1>5, UpdateBegins DEF Metadata!Next
<1>6. CASE DeleteMetadata
  BY <1>6, DeletionBegins DEF Metadata!Next
<1>7. CASE BookieWrites \/ RegistrationExpires
  <2>1. /\ TreeType' /\ \A q \in PutPaths : Same(q)
        /\ Metadata!Others \/ UNCHANGED View
    BY <1>1, <1>7, BookiesStep
  <2>2. late' = late /\ UNCHANGED <<call, todo, deleting>>
    BY <1>7 DEF BookieWrites, RegistrationExpires, caller
  <2>3. \A q \in PutPaths : (q \in DOMAIN tree' => q \in DOMAIN tree) /\ Grows(q)
    <3>1. \A q \in DOMAIN tree : tree[q].ver \in Nat
      BY <1>1, VersionsAreNumbers
    <3>2. QED
      BY <2>1, <3>1 DEF Same, Grows
  <2>4. Same("size")
    BY <2>1 DEF PutPaths
  <2>5. ClientInv'
    BY <2>1, <2>2, <2>3, <2>4, OthersKeepInv DEF Same
  <2>6. SizeData' = SizeData
    BY <2>4 DEF SizeData, ThereIs, Same
  <2>7. QED
    BY <2>1, <2>5, <2>6 DEF Metadata!Next
<1>8. CASE StopBookies
  <2>1. UNCHANGED <<tree, late, call, todo, deleting>>
    BY <1>8 DEF StopBookies, caller
  <2>2. ClientInv'
    BY <2>1 DEF ClientInv, TreeType, CallType, Calls, Updating, Deleting, Succeeded,
                Delayed, Written, Puttings, SizeData, ThereIs
  <2>3. UNCHANGED View /\ SizeData' = SizeData
    <3>1. Nodes' = Nodes
      BY <1>1, <2>1, <2>2, NodesAre DEF ClientInv
    <3>2. QED
      BY <2>1, <3>1 DEF View, SizeData, ThereIs
  <2>4. QED
    BY <2>2, <2>3
<1>9. QED
  BY <1>2, <1>3, <1>4, <1>5, <1>6, <1>7, <1>8 DEF Next

LEMMA ClientStutters ==
    ASSUME ClientInv, UNCHANGED vars
    PROVE  ClientInv' /\ UNCHANGED View /\ SizeData' = SizeData
<1>1. TreeType /\ UNCHANGED <<tree, late, call, todo, deleting>>
  BY DEF ClientInv, vars, caller
<1>2. ClientInv'
  BY <1>1 DEF ClientInv, TreeType, CallType, Calls, Updating, Deleting, Succeeded,
              Delayed, Written, Puttings, SizeData, ThereIs
<1>3. Nodes' = Nodes
  BY <1>1, <1>2, NodesAre DEF ClientInv
<1>4. QED
  BY <1>1, <1>2, <1>3 DEF View, SizeData, ThereIs

LEMMA ClientInvariant ==
    "create" \notin Late => (Spec => []ClientInv)
<1> SUFFICES ASSUME "create" \notin Late
             PROVE  Spec => []ClientInv
  OBVIOUS
<1>1. Init => ClientInv
  BY InitialInv
<1>2. ClientInv /\ [Next]_vars => ClientInv'
  BY ClientStep, ClientStutters
<1>3. QED
  BY <1>1, <1>2, PTL DEF Spec

\* The requests of UpdateMetadata and DeleteMetadata, with their answers, broken
\* connections, retries and the bookies' own writes in between, implement what
\* the reconcile loop relies on.
THEOREM ClientImplementsMetadata ==
    "create" \notin Late => (Spec => ImplementsMetadata)
<1> SUFFICES ASSUME "create" \notin Late
             PROVE  Spec => ImplementsMetadata
  OBVIOUS
<1>1. Init => Metadata!Init
  BY InitialInv
<1>2. ClientInv /\ [Next]_vars => [Metadata!Next]_(Metadata!vars)
  BY ClientStep, ClientStutters DEF View, Metadata!vars
<1>3. QED
  BY <1>1, <1>2, ClientInvariant, PTL DEF Spec, ImplementsMetadata, Metadata!Spec

\* The size that UpdateMetadata left when it returned nil stays until the next
\* call, whatever an earlier run's broken connections had still under way.
THEOREM FinishedUpdatesStay ==
    "create" \notin Late => (Spec => FinishedUpdateStays)
<1> SUFFICES ASSUME "create" \notin Late
             PROVE  Spec => FinishedUpdateStays
  OBVIOUS
<1>1. ClientInv /\ [Next]_vars =>
        [call = Done /\ ~deleting => SizeData' = SizeData]_vars
  BY ClientStep, ClientStutters
<1>2. QED
  BY <1>1, ClientInvariant, PTL DEF Spec, FinishedUpdateStays
=============================================================================
