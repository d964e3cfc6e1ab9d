----------------------------- MODULE ExitTrace -----------------------------
(***************************************************************************)
(* One Exit's share counters, sampled in the background while a scenario   *)
(* runs (Sampler and Trace in pix_exit.rs), and the scenarios that share   *)
(* the Exit one after another (tests/pix_shapes.rs).  The counters carry   *)
(* no session label, so a Session an earlier scenario left behind counts   *)
(* into the next one's; the census of supervised Sessions is what tells.   *)
(*                                                                         *)
(* A scrape reads all series of the Exit at one instant.  A share is the   *)
(* unit.                                                                   *)
(***************************************************************************)
EXTENDS Integers, SequencesExt, FiniteSetsExt

CONSTANTS
  Ceiling,     \* shapes::max_served_without_progress
  Tolerance,   \* SURPLUS_RUN_USEFUL_TOLERANCE
  Scenarios,   \* bound: scenarios run on this Exit
  MaxUseful, MaxSurplus,  \* bound: shares of each kind the Exit accepts in one scenario
  MaxSamples   \* bound: samples one trace takes

ASSUME TraceAssumption ==
  /\ Ceiling \in Nat \ {0} /\ Tolerance \in Nat
  /\ {Scenarios, MaxUseful, MaxSurplus, MaxSamples} \subseteq Nat \ {0}

VARIABLES
  scenario,   \* which scenario runs
  phase,      \* what it is doing
  own,        \* the Exit supervises this scenario's Session
  leftover,   \* Sessions of earlier scenarios it still supervises
  useful, surplus,  \* hopr_pix_shares_total by kind, since this scenario began
  sampler,    \* where the sampling task is
  stop,       \* its stop flag
  samples,    \* the trace: [useful, surplus, active] per successful scrape
  verdict,    \* what assert_the_gate_served_the_surplus made of the trace
  ownRun, ownLongest,  \* history: this Session's surplus since its last useful share, its maximum
  edge, worstEdge,     \* history: this Session's surplus since the last sample, its maximum
  orphan      \* history: surplus of Sessions left behind since this one ended

exitVars   == <<own, leftover, useful, surplus>>
traceVars  == <<sampler, stop, samples>>
history    == <<ownRun, ownLongest, edge, worstEdge, orphan>>
vars == <<scenario, phase, exitVars, traceVars, verdict, history>>

(* The census gauge: every Session the Exit supervises. *)
Active == leftover + (IF own THEN 1 ELSE 0)

-----------------------------------------------------------------------------
(* The trace's own reading of itself *)

Steps == 1 .. Len(samples) - 1

Delta(kind, i) == samples[i + 1][kind] - samples[i][kind]

(* Mutant: only the reading that ends a step is asked who was there. *)
ForeignAtEnd(i) == samples[i + 1].active > 1

(* Another Session was supervised at either end of the step. *)
ForeignStep(i) == samples[i].active > 1 \/ samples[i + 1].active > 1

(* Trace::foreign_steps *)
ForeignSteps == {i \in Steps : ForeignStep(i)}

(* A useful share, or one nobody can attribute, ends the run. *)
EndsRun(i) == Delta("useful", i) > Tolerance \/ ForeignStep(i)

(* The run as it stands behind the i-th step. *)
Current ==
  LET run[i \in 0 .. Len(samples)] ==
        IF i = 0 \/ i \notin Steps THEN 0
        ELSE IF EndsRun(i) THEN 0 ELSE run[i - 1] + Delta("surplus", i)
  IN run

(* Trace::longest_surplus_only_run *)
LongestSurplusOnlyRun == Max({Current[i] : i \in 0 .. Len(samples)})

-----------------------------------------------------------------------------
Init ==
  /\ scenario = 1 /\ phase = "opening"
  /\ own = FALSE /\ leftover = 0 /\ useful = 0 /\ surplus = 0
  /\ sampler = "none" /\ stop = FALSE /\ samples = <<>>
  /\ verdict = "none"
  /\ ownRun = 0 /\ ownLongest = 0 /\ edge = 0 /\ worstEdge = 0 /\ orphan = 0

-----------------------------------------------------------------------------
(* The scenario *)

(* The PIX Session opens and the sampler is spawned behind it. *)
Open ==
  /\ phase = "opening"
  /\ phase' = "tracing" /\ own' = TRUE
  /\ sampler' = "check" /\ stop' = FALSE /\ samples' = <<>>
  /\ useful' = 0 /\ surplus' = 0
  /\ verdict' = "none"
  /\ ownRun' = 0 /\ ownLongest' = 0 /\ edge' = 0 /\ worstEdge' = 0 /\ orphan' = 0
  /\ UNCHANGED <<scenario, leftover>>

(* The next scenario on this Exit; a Session nobody closed is left to it.  *)
Leave(left) ==
  /\ leftover' = leftover + left /\ own' = FALSE
  /\ sampler' = "none"
  /\ IF scenario < Scenarios
     THEN scenario' = scenario + 1 /\ phase' = "opening"
     ELSE phase' = "over" /\ UNCHANGED scenario

Mine == IF own THEN 1 ELSE 0

(* The scenario fails before its trace is read: its Session stays behind,  *)
(* and its sampler goes down with the test's runtime.                      *)
Fails ==
  /\ phase = "tracing"
  /\ Leave(Mine)
  /\ UNCHANGED <<useful, surplus, stop, samples, verdict, history>>

(* Sampler::finish raises the flag and waits for the task. *)
Finish ==
  /\ phase = "tracing"
  /\ phase' = "finishing" /\ stop' = TRUE
  /\ UNCHANGED <<scenario, exitVars, sampler, samples, verdict, history>>

(* Mutant: a short run fails whoever else was there. *)
RunVerdictUnaware == IF LongestSurplusOnlyRun >= Ceiling THEN "served" ELSE "fragmented"

(* The surplus run held against the gate's ceiling: short and attributable *)
(* fails, short with another Session about is only reported.               *)
RunVerdict ==
  CASE LongestSurplusOnlyRun >= Ceiling -> "served"
    [] LongestSurplusOnlyRun < Ceiling /\ ForeignSteps # {} -> "unmeasured"
    [] LongestSurplusOnlyRun < Ceiling /\ ForeignSteps = {} -> "fragmented"

Finished ==
  /\ phase = "finishing" /\ sampler = "done"
  /\ verdict' = RunVerdict /\ phase' = "closing"
  /\ UNCHANGED <<scenario, exitVars, traceVars, history>>

(* The end of a scenario.  One that passed sends the terminating segment   *)
(* and waits for the census to fall (close_session), but goes on without   *)
(* it: the segment may be lost, the Exit slow or the scrape refused.  One  *)
(* whose run was fragmented just fails.  OwnEnds says whether the Session  *)
(* is gone by now; if not it is left to the next scenario.                 *)
Ends ==
  /\ phase = "closing"
  /\ Leave(Mine)
  /\ UNCHANGED <<useful, surplus, stop, samples, verdict, history>>

-----------------------------------------------------------------------------
(* The sampling task *)

(* The head of its loop: the flag is looked at before every scrape. *)
LoopHead ==
  /\ sampler = "check"
  /\ sampler' = IF stop THEN "done" ELSE "scraping"
  /\ UNCHANGED <<scenario, phase, exitVars, stop, samples, verdict, history>>

(* A failed or timed-out scrape is skipped. *)
ScrapeFails ==
  /\ sampler = "scraping"
  /\ sampler' = "sleeping"
  /\ UNCHANGED <<scenario, phase, exitVars, stop, samples, verdict, history>>

Scrape ==
  /\ sampler = "scraping" /\ Len(samples) < MaxSamples
  /\ samples' = Append(samples, [useful |-> useful, surplus |-> surplus, active |-> Active])
  /\ sampler' = "sleeping"
  /\ edge' = 0
  /\ UNCHANGED <<scenario, phase, exitVars, stop, verdict, ownRun, ownLongest, worstEdge, orphan>>

(* Mutant: a raised flag is noticed only by a sampler that got a reading. *)
SleepEndsOnReading ==
  /\ sampler = "sleeping" /\ samples # <<>>
  /\ sampler' = "check"
  /\ UNCHANGED <<scenario, phase, exitVars, stop, samples, verdict, history>>

SleepEnds ==
  /\ sampler = "sleeping"
  /\ sampler' = "check"
  /\ UNCHANGED <<scenario, phase, exitVars, stop, samples, verdict, history>>

-----------------------------------------------------------------------------
(* The Exit *)

Serving == phase \in {"tracing", "finishing"}

(* This scenario's Session reveals a useful share, or a surplus one. *)
OwnUseful ==
  /\ Serving /\ own /\ useful < MaxUseful
  /\ useful' = useful + 1 /\ ownRun' = 0
  /\ UNCHANGED <<scenario, phase, own, leftover, surplus, traceVars, verdict, ownLongest,
                 edge, worstEdge, orphan>>

OwnSurplus ==
  /\ Serving /\ own /\ surplus < MaxSurplus
  /\ surplus' = surplus + 1
  /\ ownRun' = ownRun + 1 /\ ownLongest' = Max({ownLongest, ownRun'})
  /\ edge' = edge + 1 /\ worstEdge' = Max({worstEdge, edge'})
  /\ UNCHANGED <<scenario, phase, own, leftover, useful, traceVars, verdict, orphan>>

(* A Session left behind still reveals shares of its own. *)
LeftoverShare ==
  /\ Serving /\ leftover > 0
  /\ \/ useful < MaxUseful /\ useful' = useful + 1 /\ UNCHANGED <<surplus, orphan>>
     \/ /\ surplus < MaxSurplus /\ surplus' = surplus + 1 /\ UNCHANGED useful
        /\ orphan' = IF own THEN orphan ELSE orphan + 1
  /\ UNCHANGED <<scenario, phase, own, leftover, traceVars, verdict, ownRun, ownLongest,
                 edge, worstEdge>>

(* The Exit gives up on a Session left behind, in any phase. *)
LeftoverEnds ==
  /\ leftover > 0 /\ phase # "over"
  /\ leftover' = leftover - 1
  /\ UNCHANGED <<scenario, phase, own, useful, surplus, traceVars, verdict, history>>

(* The supervisor closes this scenario's Session, or its terminating       *)
(* segment takes effect.                                                   *)
OwnEnds ==
  /\ own /\ phase \in {"tracing", "finishing", "closing"}
  /\ own' = FALSE
  /\ UNCHANGED <<scenario, phase, leftover, useful, surplus, traceVars, verdict, history>>

(* Every scenario has run. *)
Over == phase = "over" /\ UNCHANGED vars

Next ==
  \/ Open \/ Fails \/ Finish \/ Finished \/ Ends
  \/ LoopHead \/ Scrape \/ ScrapeFails \/ SleepEnds
  \/ OwnUseful \/ OwnSurplus \/ LeftoverShare \/ LeftoverEnds \/ OwnEnds
  \/ Over

Spec == Init /\ [][Next]_vars

(* A scrape returns or times out, the task is woken, and the scenario goes *)
(* on; the Exit owes nothing.                                              *)
Fairness ==
  /\ WF_vars(LoopHead) /\ WF_vars(Scrape \/ ScrapeFails) /\ WF_vars(SleepEnds)
  /\ WF_vars(Finished)

FairSpec == Spec /\ Fairness

-----------------------------------------------------------------------------
(* Properties *)

(* The trace never reports a longer surplus-only run than the scenario's   *)
(* Session really had, and while that one lives neither a Session left     *)
(* behind, a failed scrape nor the sampling cadence adds a share to it.    *)
(* Only once it has ended can a run be another's: the census of one is     *)
(* then the other's own, and the trace takes it for the scenario's.        *)
RunIsOwn ==
  Serving \/ phase = "closing" => LongestSurplusOnlyRun <= Max({ownLongest, orphan})

(* A scenario is never failed for a run that others cut: if the trace      *)
(* calls it fragmented, the Session's own longest run was short too, up to *)
(* what the sampling can hide at the two edges of a run.                   *)
FragmentedIsOwn ==
  phase = "closing" /\ verdict = "fragmented" => ownLongest < Ceiling + 2 * worstEdge

(* finish() returns: a raised flag is noticed, whatever the scrapes do.    *)
TraceIsCollected == phase = "finishing" ~> phase = "closing"
=============================================================================
