---------------------------- MODULE PumpContract ----------------------------
(***************************************************************************)
(* What a pump promises its scenario, with no clock, schedule or session   *)
(* in it: units are offered, some of them come back while the reader       *)
(* listens, perhaps along with an earlier phase's leftovers that pass for  *)
(* them, and exactly one verdict is reached, which says no more than what  *)
(* was counted supports.  Offering may go on after the verdict.  Pump      *)
(* implements this (PumpRefinement).                                       *)
(***************************************************************************)
EXTENDS Integers

VARIABLES
  payload,   \* units the caller asked to transfer
  leftover,  \* units an earlier phase may still have in the session
  offered,   \* units the session took
  back,      \* units the reader counted as this transfer's
  verdict    \* "Waiting" until the reader has concluded

contractVars == <<payload, leftover, offered, back, verdict>>

(* The verdicts a count of `b` units out of `p` supports. *)
Supported(v, b, p) ==
  /\ v = "Complete" <=> b >= p
  /\ v = "NeverStarted" => b = 0
  /\ v \in {"Idle", "TailGraceExpired"} => b > 0

Verdicts == {"Complete", "Idle", "NeverStarted", "SessionClosed", "DeadlineExceeded",
             "TailGraceExpired", "ReadError"}

Init ==
  /\ payload \in Nat /\ leftover \in Nat /\ offered = 0 /\ back = 0 /\ verdict = "Waiting"

Offer ==
  /\ offered' \in offered .. payload
  /\ UNCHANGED <<payload, leftover, back, verdict>>

Return ==
  /\ verdict = "Waiting"
  /\ back' \in back .. offered + leftover
  /\ UNCHANGED <<payload, leftover, offered, verdict>>

Conclude(v) ==
  /\ verdict = "Waiting"
  /\ Supported(v, back, payload)
  /\ verdict' = v
  /\ UNCHANGED <<payload, leftover, offered, back>>

Next == Offer \/ Return \/ \E v \in Verdicts : Conclude(v)

Spec == Init /\ [][Next]_contractVars
=============================================================================
