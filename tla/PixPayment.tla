----------------------------- MODULE PixPayment -----------------------------
(***************************************************************************)
(* Paying for a PIX Session, as tests/pix.rs drives and judges it: the     *)
(* Entry's strategy deposits for each SSA cycle the Exit asks for, the     *)
(* Exit confirms the deposit, recovers the cycle's key out of the shares   *)
(* on the reply traffic and sweeps the deposit into its Safe.  The test    *)
(* only sees two Safes and two sets of counters, read one after another    *)
(* while the chain goes on; the happy scenario asks for Target swept       *)
(* cycles, the exhaustion scenario budgets the Entry for a few cycles and  *)
(* expects the Exit to close on the first one left unpaid.                 *)
(*                                                                         *)
(* Entry strategy, Exit and chain are external.  Amounts are in units of   *)
(* which one cycle costs PerCycle.                                         *)
(***************************************************************************)
EXTENDS Counters, Sequences

CONSTANTS
  PerCycle,   \* pix::per_cycle: what one cycle costs the Entry
  Target,     \* TARGET_CYCLES
  InFlight,   \* MAX_SSAS_IN_FLIGHT
  Budgeted,   \* BUDGETED_CYCLES of the happy scenario
  Exhaustion, \* EXHAUSTION_BUDGETED_CYCLES
  Plausible,  \* MAX_PLAUSIBLE_CYCLES
  Funds,      \* what the Entry's Safe may hold before the Session
  Earlier,    \* what the process's deposit counter reads before it
  Builds,     \* which ends may export their strategy counters
  MaxCycles,  \* bound: cycles one Session asks for
  MaxStake,   \* bound: what the channel strategy takes out of the Entry's Safe
  MaxBroken   \* bound: deposits that break

ASSUME PaymentAssumption ==
  /\ {PerCycle, Target, Exhaustion, MaxCycles} \subseteq Nat \ {0}
  /\ {InFlight, Budgeted, Plausible, MaxStake, MaxBroken} \subseteq Nat
  /\ Funds \subseteq Nat /\ Earlier \in Nat /\ Builds \subseteq SUBSET {"exit", "entry"}
  /\ Target <= Plausible

VARIABLES
  scenario,   \* "happy" or "exhaustion"
  todo,       \* the steps the test still has to take
  read,       \* what it has read: baselines, from its second reading on differences
  verdict,    \* how it ended
  telemetry,  \* which ends export their strategy counters
  funds, stake,  \* the Entry's Safe at the start, and what its channels took of it
  deposit,    \* the Entry's deposit for each cycle
  tracking,   \* the Exit's wait for that deposit
  shares,     \* how far the cycle's key is recovered
  swept,      \* what sweeping it brought
  closed,     \* the Exit has closed the Session
  strained    \* history: a key came before its deposit, or sweeping fell two cycles behind

entryVars == <<funds, stake, deposit>>
exitVars  == <<tracking, shares, swept, closed>>
testVars  == <<todo, read, verdict>>
vars == <<scenario, telemetry, testVars, entryVars, exitVars, strained>>

Cycles == 1 .. MaxCycles

(* Mutant: the Entry's side is read after the Session is open. *)
OrderEntryLate ==
  <<"open", "entry before", "exit safe", "exit counters", "funded", "pump", "sweeps",
    "entry counters", "safes after">>

(* The test's steps.  The Entry's side is read before the Session opens,   *)
(* for the Exit asks for the first cycle while it is being established.    *)
Order ==
  <<"entry before", "open", "exit safe", "exit counters", "funded", "pump", "sweeps",
    "entry counters", "safes after">>

BudgetCycles == IF scenario = "happy" THEN Budgeted ELSE Exhaustion

Budget == PerCycle * BudgetCycles

-----------------------------------------------------------------------------
(* What there is to read *)

With(f, states) == {c \in Cycles : f[c] \in states}

Count(f, states) == Cardinality(With(f, states))

(* Deposits made are counted when sent and leave the Safe when mined. *)
Made == {"sent", "mined"}

EntrySafe == funds - stake - PerCycle * Count(deposit, {"mined"})

(* The Exit's Safe over what it held: auto-redeeming is off, so sweeps are *)
(* all that moves it.                                                      *)
ExitSafe == PerCycle * Count(swept, {"paid"})

PlainSeries(name, n) == [name |-> name, suffix |-> "total", labels |-> <<>>, value |-> n]

(* A labelled series exists from its first increment on. *)
TrackingSeries(outcome, n) ==
  {[name |-> "tracking", suffix |-> "total", labels |-> [outcome |-> o], value |-> n] :
     o \in IF n = 0 THEN {} ELSE {outcome}}

(* A key swept against an empty address counts as recovered and as swept. *)
ExitBody ==
  IF "exit" \notin telemetry THEN {}
  ELSE {PlainSeries("keys", Count(shares, {"recovered"})),
        PlainSeries("sweeps", Count(swept, {"paid", "empty"}))}
       \cup TrackingSeries("confirmed", Count(tracking, {"confirmed"}))
       \cup TrackingSeries("timeout", Count(tracking, {"timeout"}))

(* Mutant: a refusal for budget and a failed transfer are one counter. *)
EntryBodyFolded ==
  IF "entry" \notin telemetry THEN {}
  ELSE {PlainSeries("deposits", Earlier + Count(deposit, Made)),
        PlainSeries("failed", 0),
        PlainSeries("over_budget", Count(deposit, {"refused", "failed"}))}

EntryBody ==
  IF "entry" \notin telemetry THEN {}
  ELSE {PlainSeries("deposits", Earlier + Count(deposit, Made)),
        PlainSeries("failed", Count(deposit, {"failed"})),
        PlainSeries("over_budget", Count(deposit, {"refused"}))}

-----------------------------------------------------------------------------
(* Judging *)

None == -1

(* pix::completed_cycles *)
CompletedCycles(delta) ==
  LET n == delta \div PerCycle
  IN IF delta >= 0 /\ n <= Plausible /\ PerCycle * n = delta THEN n ELSE None

Recovered == ExitSafe - read.exitSafe

SafeDrop == read.entryBefore - EntrySafe

(* Mutant: what the Exit says it swept is taken for what it was paid. *)
PaidCyclesByCounter == At(read.exitCounters, Plain("sweeps"))

PaidCycles == CompletedCycles(Recovered)

OfExit(key) == At(read.exitCounters, key)

OfEntry(name) == At(read.entryCounters, Plain(name))

(* The assertions of edgli_entry_deposits_should_be_swept_into_the_exit_   *)
(* safe, in their order: each with what a failure says.                    *)
HappyChecks ==
  <<<<"carried nothing", read.arrived>>,
    <<"no telemetry",    Registered(read.exitCounters)>>,
    <<"timed out",       OfExit(Tracking("timeout")) = 0>>,
    <<"unconfirmed",     OfExit(Tracking("confirmed")) >= Target>>,
    <<"unrecovered",     OfExit(Plain("keys")) >= Target /\ OfExit(Plain("sweeps")) >= Target>>,
    <<"not a multiple",  PaidCycles # None>>,
    <<"too few",         PaidCycles >= Target>>,
    <<"no telemetry",    Plain("deposits") \in DOMAIN read.entryCounters>>,
    <<"deposits",        OfEntry("deposits") \in PaidCycles .. PaidCycles + InFlight>>,
    <<"not conserved",   SafeDrop >= Recovered>>,
    <<"failed",          OfEntry("failed") = 0>>,
    <<"over budget",     OfEntry("over_budget") = 0>>>>

(* Those of a_session_should_close_when_the_entry_can_no_longer_deposit. *)
ExhaustionChecks ==
  <<<<"carried nothing", read.arrived>>,
    <<"deposits",        OfEntry("deposits") = Exhaustion>>,
    <<"never refused",   OfEntry("over_budget") >= 1>>,
    <<"failed",          OfEntry("failed") = 0>>,
    <<"served unpaid",   ~read.complete>>,
    <<"never timed out", OfExit(Tracking("timeout")) >= 1>>,
    <<"not a multiple",  PaidCycles # None>>,
    <<"swept",           PaidCycles \in 1 .. Exhaustion>>>>

Checks == IF scenario = "happy" THEN HappyChecks ELSE ExhaustionChecks

-----------------------------------------------------------------------------
All(v) == [c \in Cycles |-> v]

Init ==
  /\ scenario \in {"happy", "exhaustion"} /\ telemetry \in Builds
  /\ todo = Order /\ read = <<>> /\ verdict = "none"
  /\ funds \in Funds /\ stake = 0
  /\ deposit = All("none") /\ tracking = All("none")
  /\ shares = All("none") /\ swept = All("no")
  /\ closed = FALSE /\ strained = FALSE

-----------------------------------------------------------------------------
(* The test *)

Doing(step) == todo # <<>> /\ Head(todo) = step

(* The step is done and what it read is kept. *)
Reads(step, reading) ==
  /\ Doing(step)
  /\ read' = [r \in DOMAIN reading \cup DOMAIN read |->
               IF r \in DOMAIN reading THEN reading[r] ELSE read[r]]
  /\ todo' = Tail(todo)
  /\ UNCHANGED <<scenario, telemetry, verdict, entryVars, exitVars, strained>>

EntryBefore ==
  Reads("entry before", [entryBefore |-> EntrySafe, entryCounters |-> ReadPix(EntryBody)])

(* The Exit asks for cycles cs: the Entry is to deposit, the Exit waits.   *)
Asks(cs) ==
  /\ deposit' = [c \in Cycles |-> IF c \in cs THEN "asked" ELSE deposit[c]]
  /\ tracking' = [c \in Cycles |-> IF c \in cs THEN "waiting" ELSE tracking[c]]

(* It asks for the first one as the Session is established; the deposit    *)
(* may be made before open returns or after.                               *)
AskFirst ==
  /\ Doing("open") /\ deposit[1] = "none"
  /\ Asks({1})
  /\ UNCHANGED <<scenario, telemetry, testVars, funds, stake, shares, swept, closed, strained>>

OpenReturns == deposit[1] # "none" /\ Reads("open", <<>>)

ExitSafeBefore == Reads("exit safe", [exitSafe |-> ExitSafe])

ExitCountersBefore == Reads("exit counters", [exitCounters |-> ReadPix(ExitBody)])

(* The budget has to be what binds, not the Safe. *)
Funded == Doing("funded") /\ read.entryBefore >= Budget /\ Reads("funded", <<>>)

(* The pump ends.  Shares came on replies, so something arrived; the whole *)
(* payload, of which only the exhaustion scenario asks, comes back only    *)
(* from a Session still open.                                              *)
PumpEnds ==
  \E arrived, complete \in BOOLEAN :
    /\ ~arrived => shares[1] = "none"
    /\ complete => arrived /\ ~closed /\ scenario = "exhaustion"
    /\ Reads("pump", [arrived |-> arrived, complete |-> complete])

(* await_sweeps returns its last reading: the target was met or the        *)
(* deadline, which may come at any poll, has passed.  A poll before that   *)
(* changes nothing.                                                        *)
SweepsAwaited ==
  Reads("sweeps", [exitCounters |-> Since(read.exitCounters, ReadPix(ExitBody))])

EntryCounters ==
  Reads("entry counters", [entryCounters |-> Since(read.entryCounters, ReadPix(EntryBody))])

Ends(how) == verdict' = how /\ todo' = <<>> /\ read' = <<>>

(* The last reading, of the two Safes, and the first assertion that fails, *)
(* if any.  The Entry's Safe is read after the Exit's, and could only have *)
(* fallen further: nothing is lost by reading both at once.                *)
Judge ==
  /\ Doing("safes after")
  /\ \E checks \in {Checks} :
        \/ (\A i \in DOMAIN checks : checks[i][2]) /\ Ends("pass")
        \/ \E i \in DOMAIN checks :
             /\ ~checks[i][2] /\ \A j \in 1 .. i - 1 : checks[j][2]
             /\ Ends(checks[i][1])
  /\ UNCHANGED <<scenario, telemetry, entryVars, exitVars, strained>>

(* An early end takes the cluster down with it. *)
Dropped(how) ==
  /\ Ends(how)
  /\ stake' = 0 /\ closed' = FALSE /\ strained' = FALSE
  /\ deposit' = All("none") /\ tracking' = All("none")
  /\ shares' = All("none") /\ swept' = All("no")
  /\ UNCHANGED <<scenario, telemetry, funds>>

NotFunded == Doing("funded") /\ read.entryBefore < Budget /\ Dropped("underfunded")

(* Opening fails, an API or a scrape does not answer, or a write does. *)
Errs ==
  /\ todo # <<>> /\ Head(todo) \notin {"funded", "entry counters"}
  /\ Dropped("error")

-----------------------------------------------------------------------------
(* The Entry's strategy (external) *)

(* The strategy takes the events as they come. *)
Decides(c, how) ==
  /\ todo # <<>> /\ deposit[c] = "asked"
  /\ \A d \in 1 .. c - 1 : deposit[d] # "asked"
  /\ deposit' = [deposit EXCEPT ![c] = how]
  /\ UNCHANGED <<scenario, telemetry, testVars, funds, stake, exitVars, strained>>

(* Mutant: the deposit asked for is not counted. *)
WithinBudgetBefore == PerCycle * Count(deposit, Made) <= Budget

WithinBudget == PerCycle * (Count(deposit, Made) + 1) <= Budget

Covered == funds - stake - PerCycle * Count(deposit, Made) >= PerCycle

Deposits(c) == WithinBudget /\ Covered /\ Decides(c, "sent")

(* A deposit that would cross the window's budget is dropped for good. *)
Refuses(c) == ~WithinBudget /\ Decides(c, "refused")

(* The transfer breaks, or the Safe cannot cover it. *)
DepositFails(c) ==
  /\ WithinBudget /\ Count(deposit, {"failed"}) < MaxBroken
  /\ Decides(c, "failed")

(* The channel strategy stakes out of the same Safe.  It may at any time;  *)
(* only its having done so between the two readings of the Safe matters.   *)
StakesChannel ==
  /\ Doing("pump") /\ stake < MaxStake
  /\ stake' = stake + 1
  /\ UNCHANGED <<scenario, telemetry, testVars, funds, deposit, exitVars, strained>>

-----------------------------------------------------------------------------
(* The chain and the Exit (external) *)

(* One account sends them, so they are mined in order. *)
Mined(c) ==
  /\ todo # <<>> /\ deposit[c] = "sent"
  /\ \A d \in 1 .. c - 1 : deposit[d] # "sent"
  /\ deposit' = [deposit EXCEPT ![c] = "mined"]
  /\ UNCHANGED <<scenario, telemetry, testVars, funds, stake, exitVars, strained>>

(* After the Exit's counters are read for good its waits are of no more    *)
(* consequence and are not followed.                                       *)
Counted == \E i \in DOMAIN todo : todo[i] = "sweeps"

Confirms(c) ==
  /\ Counted /\ ~closed /\ tracking[c] = "waiting" /\ deposit[c] = "mined"
  /\ \A d \in 1 .. c - 1 : tracking[d] # "waiting"
  /\ tracking' = [tracking EXCEPT ![c] = "confirmed"]
  /\ UNCHANGED <<scenario, telemetry, testVars, entryVars, shares, swept, closed, strained>>

(* The deposit deadline: one failed cycle closes the Session. *)
TimesOut(c) ==
  /\ Counted /\ ~closed /\ tracking[c] = "waiting"
  /\ tracking' = [tracking EXCEPT ![c] = "timeout"] /\ closed' = TRUE
  /\ UNCHANGED <<scenario, telemetry, testVars, entryVars, shares, swept, strained>>

(* Replies carry the shares of the first cycle not recovered; only the     *)
(* pump makes replies, and serving does not wait for the deposit.          *)
AtFront(c) ==
  /\ Doing("pump") /\ ~closed /\ deposit[c] # "none"
  /\ shares[c] # "recovered" /\ \A d \in 1 .. c - 1 : shares[d] = "recovered"

(* Past the early-recovery threshold the Exit asks for the next cycle. *)
EarlyRecovery(c) ==
  /\ AtFront(c) /\ shares[c] = "none"
  /\ shares' = [shares EXCEPT ![c] = "early"]
  /\ Asks({c + 1} \cap Cycles)
  /\ strained' = (strained \/ \E d \in 1 .. c - 1 : swept[d] = "no")
  /\ UNCHANGED <<scenario, telemetry, testVars, funds, stake, swept, closed>>

RecoversKey(c) ==
  /\ AtFront(c) /\ shares[c] = "early"
  /\ shares' = [shares EXCEPT ![c] = "recovered"]
  /\ strained' = (strained \/ deposit[c] # "mined")
  /\ UNCHANGED <<scenario, telemetry, testVars, entryVars, tracking, swept, closed>>

(* The recovered key moves whatever its address holds by now. *)
Sweeps(c) ==
  /\ todo # <<>> /\ shares[c] = "recovered" /\ swept[c] = "no"
  /\ \A d \in 1 .. c - 1 : swept[d] # "no"
  /\ swept' = [swept EXCEPT ![c] = IF deposit[c] = "mined" THEN "paid" ELSE "empty"]
  /\ UNCHANGED <<scenario, telemetry, testVars, entryVars, tracking, shares, closed, strained>>

Over == todo = <<>> /\ UNCHANGED vars

Next ==
  \/ EntryBefore \/ AskFirst \/ OpenReturns \/ ExitSafeBefore \/ ExitCountersBefore
  \/ Funded \/ NotFunded \/ PumpEnds \/ SweepsAwaited
  \/ EntryCounters \/ Judge \/ Errs
  \/ \E c \in Cycles :
       \/ Deposits(c) \/ Refuses(c) \/ DepositFails(c) \/ Mined(c)
       \/ Confirms(c) \/ TimesOut(c) \/ EarlyRecovery(c) \/ RecoversKey(c) \/ Sweeps(c)
  \/ StakesChannel
  \/ Over

Spec == Init /\ [][Next]_vars

-----------------------------------------------------------------------------
(* Properties *)

(* Every variable keeps its kind, and the Entry never deposits more than   *)
(* the window's budget.                                                    *)
TypeOK ==
  /\ scenario \in {"happy", "exhaustion"} /\ telemetry \subseteq {"exit", "entry"}
  /\ funds \in Nat /\ stake \in 0 .. MaxStake
  /\ deposit \in [Cycles -> {"none", "asked", "sent", "mined", "refused", "failed"}]
  /\ tracking \in [Cycles -> {"none", "waiting", "confirmed", "timeout"}]
  /\ shares \in [Cycles -> {"none", "early", "recovered"}]
  /\ swept \in [Cycles -> {"no", "paid", "empty"}]
  /\ closed \in BOOLEAN /\ strained \in BOOLEAN
  /\ PerCycle * Count(deposit, Made) <= Budget

(* The happy scenario passes only if at least Target cycles really were    *)
(* deposited for, recovered and swept into the Exit's Safe: not for keys   *)
(* recovered ahead of their deposits, which count as swept and pay nothing.*)
PassMeansPaid ==
  scenario = "happy" /\ verdict = "pass" =>
    Cardinality({c \in Cycles : deposit[c] = "mined" /\ shares[c] = "recovered"
                                /\ swept[c] = "paid"}) >= Target

(* The bookkeeping of the happy scenario blames the deposits, or           *)
(* conservation, only for something that happened: a key recovered before  *)
(* its deposit was mined, or sweeping two cycles behind.  The order of the *)
(* readings never makes a deposit appear or disappear; and the one         *)
(* baseline taken after the Session is open, the Exit's, hides at most the *)
(* first confirmation.                                                     *)
AccountsReconcile ==
  scenario = "happy" =>
    /\ verdict \in {"deposits", "not a multiple", "not conserved"} => strained
    /\ verdict = "unconfirmed" => Count(tracking, {"confirmed"}) <= Target

(* The exhaustion scenario passes only if the Entry made exactly the       *)
(* deposits it was budgeted for, refused one for its budget, broke none,   *)
(* and the Exit gave up on a deposit and was paid for no more than was     *)
(* deposited.                                                              *)
BudgetBinds ==
  scenario = "exhaustion" /\ verdict = "pass" =>
    /\ Count(deposit, Made) = Exhaustion
    /\ Count(deposit, {"refused"}) >= 1 /\ Count(deposit, {"failed"}) = 0
    /\ closed /\ Count(swept, {"paid"}) \in 1 .. Exhaustion
=============================================================================
