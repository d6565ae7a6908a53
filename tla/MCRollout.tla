------------------------------ MODULE MCRollout ------------------------------
(***************************************************************************)
(* Small instances of Rollout.                                             *)
(***************************************************************************)
EXTENDS Rollout

Base == [size |-> 1, ar |-> 1, ver |-> "v1", cfg |-> "a", layout |-> "l1",
         enable |-> TRUE, journal |-> "fast", ledger |-> "fast"]

\* Edits of what the operator applies, never back to an earlier value.
LiveEdits ==
    LET grown   == [Base EXCEPT !.size = 2, !.ar = 0]
        tuned   == [Base EXCEPT !.cfg = "b"]
        renewed == [grown EXCEPT !.ver = "v2", !.cfg = "b"]
        shrunk  == [renewed EXCEPT !.size = 1]
    IN  {<<Base, grown>>, <<Base, tuned>>, <<tuned, renewed>>,
         <<grown, renewed>>, <<renewed, shrunk>>}

\* New ports or directories, then another configuration.
LayoutEdits ==
    LET moved == [Base EXCEPT !.layout = "l2"]
    IN  {<<Base, moved>>, <<moved, [moved EXCEPT !.cfg = "b"]>>}

BaseSpec == {Base}
DisabledSpec == {[Base EXCEPT !.enable = FALSE]}
SlowLedgers == {[Base EXCEPT !.ledger = "slow"]}
NoEdits == {}
TuningEdits == {<<Base, [Base EXCEPT !.cfg = "b"]>>}
=============================================================================
