------------------------------ MODULE ZkClient ------------------------------
(***************************************************************************)
(* The operator's ZooKeeper client, one request at a time.  What a call    *)
(* still has to send is a list of requests; the answer to the first one    *)
(* puts others in its place, or ends the call.  Between two requests the   *)
(* bookies write, the nodes of bookies whose session ends disappear, and   *)
(* the connection may break.                                               *)
(***************************************************************************)
EXTENDS Naturals, Sequences, SequencesExt

CONSTANTS
    Sizes,          \* sizes a cluster may have
    Late,           \* kinds of requests that may take effect after their
                    \* connection broke
    MaxUpdates,     \* bound: calls of UpdateMetadata
    MaxFaults       \* bound: connections that break

ASSUME SizesAssumption == Sizes \subseteq Nat

VARIABLES
    tree,       \* the znodes: from paths to data and version
    call,       \* the call in progress
    todo,       \* the requests it still has to send
    late,       \* requests of broken connections that are still under way
    deleting,   \* the operator has begun to delete the metadata
    bookies,    \* bookies run
    updates, faults

caller == <<deleting, updates>>
vars == <<tree, call, todo, late, caller, bookies, faults>>

\* The znodes, each with its parent: "root" is that of the cluster, and
\* "registered" stands for what a running bookie registers.
Parent == [top |-> "/", root |-> "top", size |-> "root", updatedat |-> "root",
           ledgers |-> "root", registered |-> "ledgers"]

ThereIs(p) == p = "/" \/ p \in DOMAIN tree
Children(p) == {c \in DOMAIN tree : Parent[c] = p}

Update(s) == [op |-> "update", size |-> s]
Deletion == [op |-> "delete"]
Done == [op |-> "done"]
NoCall == [op |-> "none"]

Init ==
    /\ tree = [p \in {} |-> 0]
    /\ call = NoCall
    /\ todo = <<>>
    /\ late = {}
    /\ deleting = FALSE
    /\ bookies = TRUE
    /\ updates = 0
    /\ faults = 0
-----------------------------------------------------------------------------
(* Requests, and what a ZooKeeper server does with them.                   *)

ToPut(p, d)     == [req |-> "getToPut", path |-> p, data |-> d]
Create(p, d)    == [req |-> "create", path |-> p, data |-> d]
SetData(p, d, v) == [req |-> "set", path |-> p, data |-> d, ver |-> v]
ToDelete(p)     == [req |-> "getToDelete", path |-> p]
Delete(p, v)    == [req |-> "delete", path |-> p, ver |-> v]
List(p)         == [req |-> "children", path |-> p]

\* A write is sent with the version that was read.
VersionMatches_Any(r) == TRUE
VersionMatches(r) == tree[r.path].ver = r.ver

Accepted(r) ==
    CASE r.req = "create" -> ~ThereIs(r.path) /\ ThereIs(Parent[r.path])
      [] r.req = "set"    -> ThereIs(r.path) /\ VersionMatches(r)
      [] r.req = "delete" -> /\ ThereIs(r.path) /\ VersionMatches(r)
                             /\ Children(r.path) = {}
      [] OTHER            -> ThereIs(r.path)

With(p, node) == [q \in DOMAIN tree \cup {p} |-> IF q = p THEN node ELSE tree[q]]

\* The tree after a request.
After(r) ==
    IF ~Accepted(r) THEN tree
    ELSE CASE r.req = "create" -> With(r.path, [data |-> r.data, ver |-> 0])
           [] r.req = "set"    -> With(r.path, [data |-> r.data, ver |-> r.ver + 1])
           [] r.req = "delete" -> [q \in DOMAIN tree \ {r.path} |-> tree[q]]
           [] OTHER            -> tree
-----------------------------------------------------------------------------
(* What the client sends next: setNodeData, createNode and deleteNode.      *)

\* createNode creates the node after all its ancestors.
CreateNode(p, d) == <<Create("top", 0), Create("root", 0), Create(p, d)>>

SetNodeData(r) ==
    IF ThereIs(r.path)
    THEN {<<SetData(r.path, r.data, tree[r.path].ver)>>}
    ELSE {CreateNode(r.path, r.data)}

\* A node that is gone is deleted.
FoundGone_IsError == {}
FoundGone == {<<>>}

DeleteNode(r) ==
    IF ThereIs(r.path) THEN {<<Delete(r.path, tree[r.path].ver)>>} ELSE FoundGone

\* A node with children is deleted after them, and read again before.
DeleteChildren_Only(p) ==
    {[i \in DOMAIN cs |-> ToDelete(cs[i])] : cs \in SetToSeqs(Children(p))}
DeleteChildren(p) ==
    {Append([i \in DOMAIN cs |-> ToDelete(cs[i])], ToDelete(p)) :
        cs \in SetToSeqs(Children(p))}

\* A version that does not match is answered before children that are there.
NotEmpty(r) ==
    /\ r.req = "delete"
    /\ ThereIs(r.path)
    /\ VersionMatches(r)
    /\ Children(r.path) # {}

\* The requests that may follow on the answer to r; none after an error.
FollowUps(r) ==
    CASE r.req = "getToPut"    -> SetNodeData(r)
      [] r.req = "getToDelete" -> DeleteNode(r)
      [] r.req = "create"      -> IF ThereIs(Parent[r.path]) THEN {<<>>} ELSE {}
      [] r.req = "children"    -> IF Accepted(r) THEN DeleteChildren(r.path) ELSE {}
      [] r.req = "set"         -> IF Accepted(r) THEN {<<>>} ELSE {}
      [] r.req = "delete"      -> IF NotEmpty(r) THEN {<<List(r.path)>>}
                                  ELSE IF Accepted(r) THEN {<<>>} ELSE {}

\* The call goes on, returns nil after its last request, or returns an error.
SendRequest ==
    /\ todo # <<>>
    /\ tree' = After(Head(todo))
    /\ \/ \E next \in FollowUps(Head(todo)) :
            /\ todo' = next \o Tail(todo)
            /\ call' = IF todo' = <<>> THEN Done ELSE call
       \/ /\ FollowUps(Head(todo)) = {}
          /\ todo' = <<>>
          /\ call' = NoCall
    /\ UNCHANGED <<late, caller, bookies, faults>>

\* The connection breaks: the request was done, will be, or never is.
LoseConnection ==
    /\ todo # <<>>
    /\ faults < MaxFaults
    /\ faults' = faults + 1
    /\ todo' = <<>>
    /\ call' = NoCall
    /\ \/ UNCHANGED <<tree, late>>
       \/ tree' = After(Head(todo)) /\ UNCHANGED late
       \/ /\ Head(todo).req \in Late
          /\ late' = late \cup {Head(todo)}
          /\ UNCHANGED tree
    /\ UNCHANGED <<caller, bookies>>

LateRequest ==
    /\ \E r \in late :
        /\ late' = late \ {r}
        /\ tree' = After(r)
    /\ UNCHANGED <<call, todo, caller, bookies, faults>>
-----------------------------------------------------------------------------
(* The runs of the reconcile loop that call the client, each with a client  *)
(* of its own.  Once the deletion has begun there are no more updates.      *)

UpdateMetadata ==
    /\ call \in {NoCall, Done}
    /\ ~deleting
    /\ updates < MaxUpdates
    /\ updates' = updates + 1
    /\ \E s \in Sizes :
        /\ call' = Update(s)
        /\ todo' = <<ToPut("size", s), ToPut("updatedat", 0)>>
    /\ UNCHANGED <<tree, late, deleting, bookies, faults>>

\* The wait for the bookies may have given up on them.  A deletion whose result
\* could not be saved is done again.
DeleteMetadata ==
    /\ call \in {NoCall, Done}
    /\ deleting' = TRUE
    /\ call' = Deletion
    /\ todo' = <<ToDelete("root")>>
    /\ UNCHANGED <<tree, late, updates, bookies, faults>>

(* The bookies.                                                             *)

BookieWrites ==
    /\ bookies
    /\ \E p \in {"top", "root", "ledgers", "registered"} :
        /\ Accepted(Create(p, 0))
        /\ tree' = With(p, [data |-> 0, ver |-> 0])
    /\ UNCHANGED <<call, todo, late, caller, bookies, faults>>

\* A bookie's session ends, perhaps long after the bookie.
RegistrationExpires ==
    /\ "registered" \in DOMAIN tree
    /\ tree' = After(Delete("registered", tree["registered"].ver))
    /\ UNCHANGED <<call, todo, late, caller, bookies, faults>>

StopBookies ==
    /\ bookies
    /\ bookies' = FALSE
    /\ UNCHANGED <<tree, call, todo, late, caller, faults>>

Next ==
    \/ SendRequest
    \/ LoseConnection
    \/ LateRequest
    \/ UpdateMetadata
    \/ DeleteMetadata
    \/ BookieWrites
    \/ RegistrationExpires
    \/ StopBookies

Spec == Init /\ [][Next]_vars

\* The client gets its answers, and a deletion that failed is tried again.
FairSpec ==
    /\ Spec
    /\ WF_vars(SendRequest)
    /\ WF_vars(deleting /\ call = NoCall /\ DeleteMetadata)
-----------------------------------------------------------------------------
(* Properties.                                                              *)

\* How the client implements what the reconcile loop relies on.
Nodes ==
    (DOMAIN tree \cap {"root", "size", "updatedat"})
    \cup (IF Children("root") \subseteq {"size", "updatedat"} THEN {} ELSE {"ledgers"})
SizeData == IF ThereIs("size") THEN tree["size"].data ELSE 0

Metadata == INSTANCE ZkMetadata WITH nodes <- Nodes, size <- SizeData

\* A call that returns nil has done all it was called for, and one that does
\* not, nothing else: the ancestors that exist, the children that come and go
\* and the error codes that are passed over make no difference.
ImplementsMetadata == Metadata!Spec

\* A deletion succeeds once the bookies have terminated, although a connection
\* breaks, the nodes of the bookies disappear under it, and it finds nothing
\* left of what an earlier attempt did away with.
DeletionSucceeds == call = Deletion /\ ~bookies ~> call = Done

\* A request that arrives late never changes the size that a finished update
\* left: its version is an old one, or the node it would create is there.
FinishedUpdateStays ==
    [][call = Done /\ ~deleting => SizeData' = SizeData]_vars

\* "UpdateMetadata update the metadata of the specified cluster": when it
\* returns nil, the size node has the size it was called with.
UpdateIsDone ==
    [][call.op = "update" /\ call' = Done => SizeData' = call.size]_vars
=============================================================================
