----------------------------- MODULE MCSurvival -----------------------------
(* The relayer-loss scenario with every budget scaled down, in the order   *)
(* and the proportions the scenario states them: window < deadline <       *)
(* settle + deadline < idle budget and tail grace.                         *)
EXTENDS Survival

BothModes == {FALSE, TRUE}
LossOnly == {FALSE}
=============================================================================
