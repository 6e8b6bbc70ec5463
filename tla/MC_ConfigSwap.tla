---------------------------- MODULE MC_ConfigSwap ----------------------------
(* ConfigSwap on small instances. *)
EXTENDS ConfigSwap

CONSTANTS e1, c1, c2, c3

Filtering == {c1, c2, c3}
MCConfigs == {e1} \cup Filtering
MCEmptyConfigs == {e1}
MCStatelessConfigs == {e1, c1}
=============================================================================
