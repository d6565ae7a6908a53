------------------------- MODULE MCClusterReconcile -------------------------
(***************************************************************************)
(* Small instances of ClusterReconcile.  A spec is written                 *)
(* Wants(size, ar, version, bkConfig, maxUnavailableNodes).                *)
(***************************************************************************)
EXTENDS ClusterReconcile

Wants(size, ar, ver, cfg, mu) ==
    [size |-> size, ar |-> ar, ver |-> ver, cfg |-> cfg, mu |-> mu]

MCVersions == {"v1", "v2"}
MCReserved == {"zkServers"}
MCDefaultData == [n \in {"zkServers", "stats"} |-> "default"]

\* Two configurations of one entry each, and one that sets an entry both with
\* and without its prefix; the reserved name is ignored.
CfgA == [k \in {<<"BK_", "gc">>} |-> "a"]
CfgB == [k \in {<<"BK_", "gc">>, <<"", "zkServers">>} |-> "b"]
CfgAB == [k \in {<<"BK_", "gc">>, <<"", "gc">>} |->
            IF k[1] = "" THEN "b" ELSE "c"]
\* mapEqual takes these two for the same.
CfgBlank == [k \in {<<"", "gc">>} |-> Blank]
CfgOther == [k \in {<<"", "stats">>} |-> "x"]
MCConfigs == {EmptyConfig, CfgA, CfgB, CfgAB, CfgBlank, CfgOther}

Small == Wants(1, 1, "v1", CfgA, 1)

\* Edits that never bring a version or a configuration back to a value it had
\* before, nor a size to one that was recorded.
ForwardConfigs == {EmptyConfig, CfgA, CfgB, CfgAB}
Pair == Wants(2, 0, "v1", CfgA, 1)
ForwardSpecs == {Pair}
ForwardEdits ==
    LET shrunk == Wants(1, 0, "v1", CfgAB, 2)
        retuned == Wants(1, 1, "v2", CfgB, 2)
    IN  {<<Pair, shrunk>>, <<shrunk, retuned>>}

\* A cluster that is scaled down before or by its deletion, and back up.
Emptied == Wants(0, 0, "v1", CfgA, 1)
Daemons == Wants(0, 1, "v1", CfgA, 1)
ScaledSpecs == {Small, Daemons}
ScaledEdits == {<<Small, Daemons>>, <<Daemons, Small>>, <<Emptied, Small>>}

OneSpec == {Small}

\* Of one cluster the size and of another one, of another version, the daemons
\* are taken back, perhaps before they were recorded, or given back after the
\* deletion took them.
Lone == Wants(1, 0, "v1", CfgA, 1)
Waking == Wants(0, 1, "v2", CfgA, 1)
LoneSpecs == {Lone, Waking}
WaveringEdits ==
    LET asleep == [Waking EXCEPT !.ar = 0]
    IN  {<<Lone, Emptied>>, <<Emptied, Lone>>,
         <<Waking, asleep>>, <<asleep, Waking>>}

\* A version that is taken back, and an override replaced by a blank one.
VersionEdits ==
    LET upgraded == [Small EXCEPT !.ver = "v2"]
    IN  {<<Small, upgraded>>, <<upgraded, Small>>}
Tuned == [Small EXCEPT !.cfg = CfgOther]
TunedSpec == {Tuned}
BlankEdits == {<<Tuned, [Small EXCEPT !.cfg = CfgBlank]>>}
NoEdits == {}
=============================================================================
