------------------------------ MODULE Survival ------------------------------
(***************************************************************************)
(* session_should_survive_relayer_loss and its common-mode variant         *)
(* (integration/tests/return_path.rs): several pumps run one after another *)
(* over one session that loses its return relayers in between, and the     *)
(* last one is judged against the paced baseline.                          *)
(*                                                                         *)
(* One step is one second of the scenario.  A pump of the scenario is Pump *)
(* with its schedule made regular: one unit a second for a paced pump, the *)
(* whole payload at once for the warm-up, and a reader that is never late. *)
(* A unit the session loses is one it never delivers, and a unit is of     *)
(* the phase the scan of the reads attributes it to (module Scan).         *)
(***************************************************************************)
EXTENDS TransferStats

CONSTANTS
  WarmUnits, BaseLoad, OutageLoad, Load,   \* units offered by each phase
  Window, Deadline, IdleBudget, TailGrace, \* RECOVERY_SUSTAIN_WINDOW, _DEADLINE, SURVIVAL_*
  DefaultIdle, FirstByte, Timeout,         \* READ_IDLE_TIMEOUT, NO_FIRST_BYTE_TIMEOUT, PUMP_TIMEOUT
  Settle, Quiet, OutageQuiet, DrainCap,    \* KILL_SETTLE, DRAIN_QUIET, DRAIN_MAX_TOTAL
  MaxLeftover,                             \* MAX_LEFTOVER_BYTES
  Modes,                                   \* which of the two scenarios: common mode or not
  MaxRead                                  \* bound: units one second can deliver

(* The constants' static assertions in return_path.rs. *)
ASSUME BudgetAssumption ==
  /\ IdleBudget > Settle + Deadline
  /\ TailGrace > Settle + Deadline
  /\ {WarmUnits, BaseLoad, OutageLoad, Load, Window} \subseteq Nat \ {0}
  /\ {Deadline, IdleBudget, TailGrace, DefaultIdle, FirstByte, Timeout, Settle, Quiet, DrainCap,
      MaxLeftover} \subseteq Nat

VARIABLES
  common,     \* the outage takes all relayers down for a while, not one for good
  stage,      \* where the scenario is
  clock,      \* seconds since the stage began
  transit,    \* units of the running phase the session holds
  backlog,    \* units of earlier phases the session holds
  open,       \* the session is served
  mine, foreign, lastMineAt, progress,  \* the running pump's own state
  quiet, discarded,   \* seconds of silence so far and units thrown away, in a drain
  baseline,   \* what the assertion reads of the baseline's Transfer
  after,      \* the survival pump's Transfer
  log         \* history: own and foreign units read in each second of the survival pump,
              \* and its own ones so far

pumpVars == <<mine, foreign, lastMineAt, progress>>
vars == <<common, stage, clock, transit, backlog, open, pumpVars, quiet, discarded,
          baseline, after, log>>

Pumps  == {"warmup", "baseline", "outage", "survival"}
Drains == {"warmDrain", "baseDrain", "outageDrain"}
Ends   == {"passed", "failed"}

(* Mutant: the phase under test keeps the pump's default idle budget. *)
IdleOfDefault(s) == DefaultIdle

(* PumpOpts of each pump of the scenario. *)
IdleOf(s)  == CASE s = "warmup" -> DefaultIdle [] s = "outage" -> OutageLoad [] OTHER -> IdleBudget

GraceOf(s) == CASE s = "survival" -> {TailGrace} [] s = "outage" -> {OutageLoad} [] OTHER -> {}
LoadOf(s)  == CASE s = "warmup" -> WarmUnits [] s = "baseline" -> BaseLoad
                [] s = "outage" -> OutageLoad [] s = "survival" -> Load
Paced(s)   == s # "warmup"

(* Units offered in the second that starts at c. *)
OfferedAt(s, c) ==
  CASE Paced(s) -> IF c < LoadOf(s) THEN 1 ELSE 0
    [] ~Paced(s) -> IF c = 0 THEN LoadOf(s) ELSE 0

(* The writer stamps its offer after the pause behind the last unit. *)
OfferEnd(s, now) ==
  LET at == IF Paced(s) THEN LoadOf(s) ELSE 0 IN IF now >= at THEN {at} ELSE {}

TailOf(s, now) == UNION {TailWindow(now - at, g) : at \in OfferEnd(s, now), g \in GraceOf(s)}

NoTransfer == [outcome |-> Waiting]
NoBaseline == [back |-> 0, seconds |-> 0, ramp |-> {}]

FreshPump ==
  /\ mine' = 0 /\ foreign' = 0 /\ lastMineAt' = 0 /\ progress' = <<>>
  /\ transit' = 0

Init ==
  /\ common \in Modes
  /\ stage = "warmup" /\ clock = 0 /\ transit = 0 /\ backlog = 0 /\ open = TRUE
  /\ mine = 0 /\ foreign = 0 /\ lastMineAt = 0 /\ progress = <<>>
  /\ quiet = 0 /\ discarded = 0
  /\ baseline = NoBaseline /\ after = NoTransfer /\ log = <<>>

-----------------------------------------------------------------------------
(* What the scenario makes of a finished pump *)

(* arrival_pct() > 50 *)
MostlyBack(units, load) == 2 * units > load

(* mbps and the ramp to RECOVERY_FRACTION (a half) of it, as the assertion *)
(* reads them later.  All of it back in one read is an unbounded rate that *)
(* no window can hold.                                                     *)
BaselineOf(t) ==
  LET span == IF t.progress = <<>> THEN 0 ELSE LastRead(t) - t.progress[1].at IN
  [back |-> t.mine, seconds |-> span,
   ramp |-> IF span = 0 THEN {} ELSE TimeToSustain(t, t.mine, 2 * span, Window)]

(* recovery: how much longer than the healthy session this one took. *)
Recovery(t) ==
  {Larger(s - r, 0) : s \in TimeToSustain(t, baseline.back, 2 * baseline.seconds, Window),
                      r \in baseline.ramp}

(* NEAR_COMPLETE_ARRIVAL_PCT *)
NearComplete(t) == 10 * t.mine >= 9 * Load

(* assert_recovered: every ensure! of it, in order.  A payload all of whose *)
(* records were counted may still be corrupt (sha_ok).                     *)
AssertRecovered(t, shaOk) ==
  /\ baseline.ramp # {}
  /\ ExitStoppedServing(t.outcome) => NearComplete(t)
  /\ t.foreign <= MaxLeftover
  /\ t.wall > Window
  /\ \E s \in Recovery(t) : s <= Deadline
  /\ LongestStall(t) <= Deadline
  /\ t.mine < Load \/ shaOk

(* The stage behind a pump that returned t. *)
StageAfter(t, shaOk) ==
  CASE stage = "warmup" -> IF MostlyBack(t.mine, WarmUnits) THEN "warmDrain" ELSE "failed"
    [] stage = "baseline" -> IF MostlyBack(t.mine, BaseLoad) THEN "baseDrain" ELSE "failed"
    [] stage = "outage" -> IF t.outcome = "SessionClosed" THEN "failed" ELSE "settle"
    [] stage = "survival" -> IF AssertRecovered(t, shaOk) THEN "passed" ELSE "failed"

PumpReturns(t) ==
  /\ \E shaOk \in BOOLEAN : stage' = StageAfter(t, shaOk)
  /\ clock' = 0 /\ FreshPump
  /\ baseline' = IF stage = "baseline" THEN BaselineOf(t) ELSE baseline
  /\ after' = IF stage = "survival" THEN t ELSE after

-----------------------------------------------------------------------------
(* One second of a pump *)

(* What a read adds to `progress` counts this phase's units only. *)
Attributed(own, other) == mine + own

(* Units of the survival phase read in its first i seconds. *)
Back(i) == IF i = 0 THEN 0 ELSE log[i].back

Logged(own, other) == [own |-> own, other |-> other, back |-> Back(Len(log)) + own]

(* A second passes in which own and other units are read; the reader then  *)
(* asks itself whether it is done or should stop.                          *)
Second(own, other) ==
  LET now   == clock + 1
      held  == transit + OfferedAt(stage, clock)
      came  == own + other > 0
      since == IF own > 0 THEN 0 ELSE now - lastMineAt
      read  == IF came /\ stage \in {"baseline", "survival"}
               THEN Append(progress, [at |-> now, units |-> Attributed(own, other)])
               ELSE progress
      rule  == StopReason(mine + own, since, now, Timeout, IdleOf(stage), FirstByte,
                          TailOf(stage, now))
      stop  == IF mine + own >= LoadOf(stage) THEN "Complete" ELSE rule
      t     == [outcome |-> stop, mine |-> mine + own, foreign |-> foreign + other,
                progress |-> read, wall |-> now, offerEnd |-> OfferEnd(stage, now)]
  IN
  /\ stage \in Pumps /\ open
  /\ own <= held /\ other <= backlog
  /\ log' = IF stage = "survival" THEN Append(log, Logged(own, other)) ELSE log
  /\ \/ /\ stop = Waiting
        /\ clock' = now
        /\ transit' = held - own /\ backlog' = backlog - other
        /\ mine' = mine + own /\ foreign' = foreign + other
        /\ lastMineAt' = IF own > 0 THEN now ELSE lastMineAt
        /\ progress' = read
        /\ UNCHANGED <<stage, baseline, after>>
     \/ /\ stop # Waiting
        /\ backlog' = backlog - other + held - own
        /\ PumpReturns(t)
  /\ UNCHANGED <<common, open, quiet, discarded>>

(* The session closes under a pump: a read of zero bytes. *)
Closes ==
  LET t == [outcome |-> "SessionClosed", mine |-> mine, foreign |-> foreign,
            progress |-> progress, wall |-> clock, offerEnd |-> OfferEnd(stage, clock)]
  IN
  /\ stage \in Pumps
  /\ open' = FALSE
  /\ backlog' = backlog + transit
  /\ PumpReturns(t)
  /\ UNCHANGED <<common, quiet, discarded, log>>

(* A read fails: the scenario's `?` ends it. *)
ReadFails ==
  /\ stage \in Pumps
  /\ stage' = "failed" /\ clock' = 0 /\ FreshPump
  /\ UNCHANGED <<common, backlog, open, quiet, discarded, baseline, after, log>>

-----------------------------------------------------------------------------
(* drain_until_quiet and the settle between the phases *)

(* Mutant: the drain's read has no timeout of its own. *)
DrainEndsOnCap(read) == read > 0 /\ clock + 1 >= DrainCap

QuietOf(s) == IF s = "outageDrain" THEN OutageQuiet ELSE Quiet

(* The stream has been quiet for long enough, or a read came after the cap. *)
DrainEnds(read) ==
  \/ read = 0 /\ quiet + 1 >= QuietOf(stage)
  \/ read > 0 /\ clock + 1 >= DrainCap

(* What follows a drain that threw n units away; the drain behind the      *)
(* outage has no limit on them.                                            *)
StageAfterDrain(n) ==
  CASE stage = "outageDrain" -> "survival"
    [] stage # "outageDrain" /\ n > MaxLeftover -> "failed"
    [] stage = "warmDrain" /\ n <= MaxLeftover -> "baseline"
    [] stage = "baseDrain" /\ n <= MaxLeftover -> IF common THEN "outage" ELSE "settle"

DrainReturns(n) ==
  /\ stage' = StageAfterDrain(n)
  /\ clock' = 0 /\ quiet' = 0 /\ discarded' = 0

(* A second of a drain, in which `read` units are thrown away; both its    *)
(* counters stop at the limit they are compared with.                      *)
DrainSecond(read) ==
  /\ stage \in Drains /\ open
  /\ read <= backlog /\ backlog' = backlog - read
  /\ \/ DrainEnds(read) /\ DrainReturns(discarded + read)
     \/ /\ ~DrainEnds(read)
        /\ clock' = Min({clock + 1, DrainCap})
        /\ quiet' = IF read = 0 THEN Min({quiet + 1, QuietOf(stage)}) ELSE 0
        /\ discarded' = discarded + read
        /\ UNCHANGED stage
  /\ UNCHANGED <<common, transit, open, pumpVars, baseline, after, log>>

(* A closed or broken session ends a drain as silence does.                *)
DrainBreaks ==
  /\ stage \in Drains
  /\ \/ open' = FALSE
     \/ open /\ UNCHANGED open
  /\ DrainReturns(discarded)
  /\ UNCHANGED <<common, transit, backlog, pumpVars, baseline, after, log>>

(* Nothing is read while the kill, or the thaw, lands.                     *)
SettleEnds ==
  /\ stage = "settle"
  /\ stage' = IF common THEN "outageDrain" ELSE "survival"
  /\ clock' = 0
  /\ UNCHANGED <<common, transit, backlog, open, pumpVars, quiet, discarded, baseline,
                 after, log>>

(* No relayer forwarded anything, or the one to be taken out, or one of    *)
(* those to be frozen, cannot be: the scenario ends without a fault.  The  *)
(* common mode asks for a share right behind its warm-up, and freezes      *)
(* right before the outage pump.                                           *)
FaultFails ==
  /\ \/ ~common /\ stage = "settle"
     \/ common /\ stage \in {"warmDrain", "outage"} /\ clock = 0
  /\ stage' = "failed" /\ clock' = 0
  /\ UNCHANGED <<common, transit, backlog, open, pumpVars, quiet, discarded, baseline,
                 after, log>>

(* The verdict is in: the test is over. *)
Over == stage \in Ends /\ UNCHANGED vars

Next ==
  \/ \E own, other \in 0 .. MaxRead : own + other <= MaxRead /\ Second(own, other)
  \/ \E read \in 0 .. MaxRead : DrainSecond(read)
  \/ Closes \/ ReadFails \/ DrainBreaks \/ SettleEnds \/ FaultFails \/ Over

Spec == Init /\ [][Next]_vars

(* Seconds pass, whatever is or is not read in them, and a closed session  *)
(* is noticed; nothing else is owed.                                       *)
Passes ==
  \/ \E own, other \in 0 .. MaxRead : own + other <= MaxRead /\ Second(own, other)
  \/ \E read \in 0 .. MaxRead : DrainSecond(read)
  \/ SettleEnds
  \/ ~open /\ (Closes \/ DrainBreaks)

FairSpec == Spec /\ WF_vars(Passes)

-----------------------------------------------------------------------------
(* Properties *)

(* Units of this phase read in the seconds after `from`, up to `upto`. *)
OwnBetween(from, upto) == Back(upto) - Back(from)

(* A scenario passes only if some window, ending no more than the deadline *)
(* later than the healthy session needed, carried half the healthy rate in *)
(* units of the surviving phase itself.                                    *)
RecoveredInTime ==
  stage = "passed" =>
    \E r \in baseline.ramp, end \in Window .. Len(log) :
      /\ end <= r + Deadline
      /\ OwnBetween(end - Window, end) * 2 * baseline.seconds >= baseline.back * Window

(* ... and only if the session never stood still for longer than the       *)
(* deadline while anything was yet to come, the wait for the first byte    *)
(* included.                                                               *)
NeverStoodStill ==
  stage = "passed" =>
    \A i \in DOMAIN log :
      (\E later \in i + Deadline .. Len(log) : log[later].own > 0)
        => \E k \in i .. i + Deadline - 1 : log[k].own + log[k].other > 0

(* The measurement is not cut short by its own budgets: the survival pump  *)
(* gives up on a session only after it brought nothing of this phase -     *)
(* since its last unit, or from the very start - or the offer was          *)
(* complete, for longer than a recovery may take counted from the kill     *)
(* (the two static assertions of return_path.rs).                          *)
GivesRoomToRecover ==
  after # NoTransfer /\ after.outcome \in {"Idle", "NeverStarted", "TailGraceExpired"} =>
    \/ /\ after.wall > Settle + Deadline
       /\ \A i \in DOMAIN log : log[i].own > 0 => after.wall - i > Settle + Deadline
    \/ \E at \in after.offerEnd : after.wall - at > Settle + Deadline

(* What assert_recovered's doc says of a pass, and the code does not hold: *)
(* the stream was still carrying load when the pump ended, by its own      *)
(* steady-state figure.  Here only for a pump that ended while load was    *)
(* still being offered, and only for any load at all.                      *)
StillCarrying ==
  stage = "passed" /\ after.offerEnd = {} => SteadyState(after, Window) > 0

(* What its comment on foreign traffic says, and the code does not hold:   *)
(* an earlier phase's units are excluded from the stall as from every      *)
(* other figure.                                                           *)
BacklogExcluded ==
  stage = "passed" =>
    \A i \in DOMAIN log :
      (\E later \in i + Deadline .. Len(log) : log[later].own > 0)
        => \E k \in i .. i + Deadline - 1 : log[k].own > 0

(* The scenario reaches a verdict, whatever the session delivers.          *)
ReachesVerdict == <>(stage \in Ends)
=============================================================================
