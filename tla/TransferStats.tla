---------------------------- MODULE TransferStats ----------------------------
(***************************************************************************)
(* The statistics a finished Transfer offers a scenario (impl Transfer in  *)
(* pump.rs).  A transfer t has t.progress, the sequence of [at, units] the *)
(* reader pushed at every read (when it was, and how much of the phase had *)
(* come back by then), t.wall, t.outcome and t.offerEnd, the set of the    *)
(* instant the offer was complete, if it was.  Times count from the pump's *)
(* start.                                                                  *)
(***************************************************************************)
EXTENDS StopRule, Sequences, FiniteSetsExt

(* When the reader last read anything; the pump's start if it never did. *)
LastRead(t) == IF t.progress = <<>> THEN 0 ELSE t.progress[Len(t.progress)].at

(* The waits between reads, the wait for the first one included. *)
Waits(t) ==
  {t.progress[i].at - (IF i = 1 THEN 0 ELSE t.progress[i - 1].at) : i \in DOMAIN t.progress}

(* The silence after the last read that counts as a stall: none of it when *)
(* the idle rule measured it, only what fell inside the offer when the     *)
(* tail cap ended the pump.                                                *)
TrailingSilence(t) ==
  CASE t.outcome = "Idle" -> 0
    [] t.outcome = "TailGraceExpired" -> Min(t.offerEnd \cup {t.wall}) - LastRead(t)
    [] OTHER -> t.wall - LastRead(t)

(* Mutant: the wait for the first byte is not a stall. *)
LongestStallOnceStarted(t) ==
  Max({t.progress[i].at - t.progress[i - 1].at : i \in 2 .. Len(t.progress)}
        \cup {0, TrailingSilence(t)})

(* Transfer::longest_stall *)
LongestStall(t) == Max(Waits(t) \cup {0, TrailingSilence(t)})

(* Units that had come back by the reads the test selects, the last one.   *)
UnitsBy(t, from) ==
  Max({t.progress[i].units : i \in {j \in DOMAIN t.progress : t.progress[j].at <= from}}
        \cup {0})

(* Transfer::steady_state_mbps, as units over the pump's last `window`. *)
SteadyState(t, window) ==
  IF t.wall < window \/ t.progress = <<>>
  THEN 0
  ELSE t.progress[Len(t.progress)].units - UnitsBy(t, t.wall - window)

(* Mutant: whatever had come back by the read is credited to its window.   *)
ArrivedInTotal(t, window, i) == t.progress[i].units

(* Units that came back after the first read of the window ending at the   *)
(* i-th read, up to that read.                                             *)
ArrivedWithin(t, window, i) ==
  LET earliest == Min({j \in DOMAIN t.progress : t.progress[j].at >= t.progress[i].at - window})
  IN t.progress[i].units - t.progress[earliest].units

(* Transfer::time_to_sustain: the first read at which the rate num/den     *)
(* (units per tick) had held over a whole window, as an option.            *)
TimeToSustain(t, num, den, window) ==
  LET held == {i \in DOMAIN t.progress :
                 /\ t.wall >= window /\ t.progress[i].at >= window
                 /\ \E j \in 1 .. i - 1 : t.progress[j].at >= t.progress[i].at - window
                 /\ ArrivedWithin(t, window, i) * den >= num * window}
  IN IF held = {} THEN {} ELSE {t.progress[Min(held)].at}
=============================================================================
