---------------------------- MODULE MCEdgliBoot ----------------------------
(* Two binaries on one chain, the second with a cluster of its own size,   *)
(* and two tests in each: channels outlive boots and nodes both ways.      *)
EXTENDS EdgliBoot
=============================================================================
