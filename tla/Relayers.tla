------------------------------ MODULE Relayers ------------------------------
(***************************************************************************)
(* Who carried the traffic, as relayers.rs reads it: every node counts the *)
(* packets it forwards for others, a sample is what those nodes said that  *)
(* answered, and the spread is what each forwarded between two samples.    *)
(* Nodes are numbers, ordered as their addresses are; a node that did not  *)
(* answer is not in the sample's domain.                                   *)
(***************************************************************************)
EXTENDS Integers, FiniteSetsExt, Functions

(* u64::saturating_sub of a node's end from its start; a node that stopped *)
(* answering stands where it was.                                          *)
Progress(before, after, n) ==
  LET end == IF n \in DOMAIN after THEN after[n] ELSE before[n]
  IN  IF end > before[n] THEN end - before[n] ELSE 0

(* Mutant: a node without a start counts from zero. *)
SpreadFromZero(before, after) ==
  LET all == [n \in DOMAIN before \cup DOMAIN after |->
                IF n \in DOMAIN before THEN before[n] ELSE 0]
  IN  [n \in {m \in DOMAIN all : Progress(all, after, m) > 0} |-> Progress(all, after, n)]

(* A node without a start is left out: its lifetime is no traffic of this  *)
(* window.                                                                 *)
Spread(before, after) ==
  [n \in {m \in DOMAIN before : Progress(before, after, m) > 0} |-> Progress(before, after, n)]

Total(spread) == MapThenSumSet(LAMBDA n : spread[n], DOMAIN spread)

(* The relayers with at least pct per cent of the total. *)
ActiveRelayers(spread, pct) == {n \in DOMAIN spread : spread[n] * 100 >= pct * Total(spread)}

(* The one that carried the most, of equals the first by address. *)
IsBusiest(spread, n) ==
  /\ n \in DOMAIN spread
  /\ \A m \in DOMAIN spread : spread[m] < spread[n] \/ (spread[m] = spread[n] /\ n <= m)
=============================================================================
