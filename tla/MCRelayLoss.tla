---------------------------- MODULE MCRelayLoss ----------------------------
(* TLC: a cycle of four polynomials in two blocks, and one of two whose    *)
(* surplus exceeds its threshold; one-hop paths over two relayers.         *)
EXTENDS RelayLoss

Knob(polys, surplus, buffer) ==
  [polys |-> polys, threshold |-> NotSet, surplus |-> surplus, rate |-> NotSet,
   buffer |-> buffer, served |-> NotSet]

Run(k, forward, return, relays) ==
  [knobs |-> k, topology |-> [forward |-> forward, return |-> return, relays |-> relays]]

(* SYMMETRIC and RETURN_ONLY. *)
SmallRuns == {Run(Knob(2, 3, 2), 1, 1, 2), Run(Knob(4, NotSet, 2), 0, 1, 2)}

(* The first relayer has a past. *)
SmallLifetime == <<3, 0>>
=============================================================================
