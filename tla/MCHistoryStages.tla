--------------------------- MODULE MCHistoryStages ---------------------------
(* All stages, or the one whose comment the violation run quotes. *)
EXTENDS HistoryStages

MCStages == AllStages
MCV5 == {"V5"}
=============================================================================
