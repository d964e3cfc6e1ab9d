------------------------------ MODULE MCRunner ------------------------------
(* A v4 run, a nightly v5 run with and without a localcluster that takes   *)
(* the PIX geometry, and a v5 run of the pull-request tier.                *)
EXTENDS Runner

FourRuns == {
  [line |-> "v4", tier |-> "pr", pix |-> FALSE, pixConfig |-> FALSE, returnPath |-> FALSE],
  [line |-> "v5", tier |-> "nightly", pix |-> TRUE, pixConfig |-> TRUE, returnPath |-> TRUE],
  [line |-> "v5", tier |-> "nightly", pix |-> TRUE, pixConfig |-> FALSE, returnPath |-> TRUE],
  [line |-> "v5", tier |-> "pr", pix |-> TRUE, pixConfig |-> TRUE, returnPath |-> FALSE] }
=============================================================================
