----------------------------- MODULE MCZkClient -----------------------------
(***************************************************************************)
(* Small instances of ZkClient.                                            *)
(***************************************************************************)
EXTENDS ZkClient

MCSizes == {1, 2}
AllRequests == {"getToPut", "create", "set", "getToDelete", "delete", "children"}
AllButCreate == AllRequests \ {"create"}
=============================================================================
