--------------------------- MODULE PumpRefinement ---------------------------
(* The mapping under which Pump implements PumpContract. *)
EXTENDS Pump

Contract == INSTANCE PumpContract
  WITH payload <- opts.total, leftover <- opts.backlog, offered <- accepted,
       back <- mine, verdict <- outcome

(* Whatever the schedule, the session and the executor do, the pump keeps  *)
(* its contract: one verdict, supported by what it counted as its own,     *)
(* after which nothing more is counted.                                    *)
ImplementsContract == Contract!Spec
=============================================================================
