------------------------------ MODULE StopRule ------------------------------
(***************************************************************************)
(* The pump's stopping rule (`stop_reason` in pump.rs) and the vocabulary  *)
(* it decides in.  The rule is pure: the reader evaluates it before every  *)
(* read, and Pump and Survival both use it, so there is one translation of *)
(* the order in which its clauses are tried.                               *)
(***************************************************************************)
EXTENDS Integers

(* PumpOutcome.  "Waiting" is the None of Option<PumpOutcome>. *)
Waiting == "Waiting"
PumpOutcome == {"Complete", "Idle", "NeverStarted", "SessionClosed",
                "DeadlineExceeded", "TailGraceExpired"}

(* PumpOutcome::exit_stopped_serving *)
ExitStoppedServing(outcome) == outcome \in {"NeverStarted", "SessionClosed"}

(* The larger of two numbers (Duration::max). *)
Larger(a, b) == IF a >= b THEN a ELSE b

(***************************************************************************)
(* An Option<TailWindow> is the empty set (no grace was asked for, or the  *)
(* offer is still in flight) or the set of the one window.                 *)
(***************************************************************************)
NoTail == {}
TailWindow(sinceOfferComplete, grace) ==
  {[since |-> sinceOfferComplete, grace |-> grace]}

TailExpired(tail) == \E t \in tail : t.since >= t.grace

(* Mutant: the tail cap answers without asking whether anything arrived. *)
StopReasonCapIsBlind(received, sinceLast, sinceStart, deadline, idle, firstByte, tail) ==
  CASE sinceStart >= deadline -> "DeadlineExceeded"
    [] sinceStart < deadline /\ TailExpired(tail) -> "TailGraceExpired"
    [] sinceStart < deadline /\ ~TailExpired(tail) /\ received = 0
         /\ sinceStart >= Larger(idle, firstByte) -> "NeverStarted"
    [] sinceStart < deadline /\ ~TailExpired(tail) /\ received # 0
         /\ sinceLast >= idle -> "Idle"
    [] OTHER -> Waiting

(***************************************************************************)
(* The clauses in the order the code returns from them: the deadline, the  *)
(* tail cap, then the first-byte budget or the idle budget, whichever the  *)
(* stream has earned by having delivered anything.                         *)
(***************************************************************************)
StopReason(received, sinceLast, sinceStart, deadline, idle, firstByte, tail) ==
  CASE sinceStart >= deadline -> "DeadlineExceeded"
    [] sinceStart < deadline /\ TailExpired(tail) ->
         IF received = 0 THEN "NeverStarted" ELSE "TailGraceExpired"
    [] sinceStart < deadline /\ ~TailExpired(tail) /\ received = 0
         /\ sinceStart >= Larger(idle, firstByte) -> "NeverStarted"
    [] sinceStart < deadline /\ ~TailExpired(tail) /\ received # 0
         /\ sinceLast >= idle -> "Idle"
    [] OTHER -> Waiting
=============================================================================
