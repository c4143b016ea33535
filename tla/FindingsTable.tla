--------------------------- MODULE FindingsTable ---------------------------
(***************************************************************************)
(* What the local store promises of the findings of reviews, whatever      *)
(* version of the program wrote them and however often it dies while it    *)
(* opens the store: they change only when a review is saved, and that is   *)
(* possible only once the store is open.                                   *)
(***************************************************************************)
CONSTANT Findings

VARIABLES findings, open

tableVars == <<findings, open>>

TableInit == findings \in SUBSET Findings /\ open \in BOOLEAN

(* save_review_findings replaces the findings of a manifest as a whole.    *)
SaveReview == open /\ findings' \in SUBSET Findings /\ UNCHANGED open

OpenOrClose == open' = ~open /\ UNCHANGED findings

TableNext == SaveReview \/ OpenOrClose

TableSpec == TableInit /\ [][TableNext]_tableVars
=============================================================================
