--------------------------- MODULE MCPanelStream ---------------------------
(* PanelStream with the shown chat t1, another chat t2 and one panel.      *)
EXTENDS PanelStream

CONSTANTS t1, t2, s1

FilterOne == [s \in {s1} |-> {t1}]
=============================================================================
