# A verification of hopr-integration-tests

The repository is a test harness: Rust scenarios that pump bytes through HOPR
sessions and judge what comes back, and shell scripts that put a chain, a
cluster and the suites around them. What can go wrong in it is not a crash but a
wrong verdict (a scenario that passes on a dead stream, or fails a healthy one),
a run that never ends, and a run that leaves something behind for the next one.
The modules here state what its verdicts, its waits and its clean-ups promise,
check that with TLC on small instances, and prove every safety property of the
runs, and that the pump implements its contract, for every value of the
constants. What is left to TLC alone is liveness.

1. [The system](#the-system) – components, state, interactions, what is hard
2. [The modules](#the-modules) – which models what, and how
3. [The runs](#the-runs) – what is checked, the bounds, the fairness
4. [What the runs found](#what-the-runs-found)
5. [The proofs](#the-proofs)
6. [What is not modelled](#what-is-not-modelled)
7. [The plan](#the-plan)

## The system

| component | code | state it keeps | operations |
|---|---|---|---|
| pump | `integration/src/pump.rs` | the writer's offset and schedule, the offer stamp, the reader's buffer, counts per phase, arrival stamps | `pump_halves`, `pump_loopback`, `drain_until_quiet`, `scan_records`, `stop_reason`, the `Transfer` statistics |
| survival scenarios | `integration/tests/return_path.rs` | a baseline, one `Transfer` per phase, the fault | warm-up, drains, paced baseline, kill or freeze, settle, survival pump, `assert_recovered` |
| Exit telemetry | `integration/src/pix_exit.rs` | a sampler task with a stop flag, the samples | `Sampler::start/finish`, `Trace::longest_surplus_only_run`, `foreign_steps` |
| PIX traffic shapes | `integration/tests/pix_shapes.rs`, `src/shapes.rs` | one session per scenario, what earlier ones left behind | open, trace, verdict on the run, `close_session` |
| PIX accounting | `src/pix.rs`, `tests/pix.rs` | two Safes and two sets of counters, read before and after | baselines, open, pump, `await_sweeps`, `completed_cycles`, the assertions |
| relay loss with PIX | `src/relay_loss.rs`, `tests/pix_relay_loss.rs` | the knobs of the environment, the halves of a stream, the driver of the outage | derive and install a profile, warm up, kill the busiest return relayer, await its cycle's sweep, judge |
| relayers | `src/relayers.rs` | two samples of every node's forwarded packets | sample, `spread`, `active_relayers`, `busiest` |
| origination, session counters | `src/origination.rs`, `src/session_metrics.rs` | two readings of other counter families | parse, difference |
| environment | `integration/src/env.rs` | `BOOTS`, the Edgli, its ports, channels, targets | `setup`, `setup_rotsee`, gates, strategy sizing, target selection |
| cluster | `integration/src/cluster.rs` | `SHARED`, `REQUESTED_SIZE`, the localcluster child | `request_cluster_size`, `bring_up_shared`, polls, `pause`/`resume`/`kill` |
| one suite | `scripts/integration/run-binchain.sh` | a FIFO, tee, the log, `rc` | run, reap, wait, record; traps |
| local chain | `scripts/integration/lib.sh` (`chain_*`) | a wrapper shell, anvil, bloklid on fixed ports | `chain_up`, `chain_start`, `chain_stop` |
| a run | `scripts/integration/run.sh`, `run_tier` | manifest and lock with their backup, traps, `suite_rc` | swap, build, pin, suites, summary |

A run is nested: `run.sh` starts a chain and calls `run-binchain.sh` per suite,
which runs one `cargo test` binary, one test thread. The first test of a binary
brings up a cluster and leaks it to the others; every test boots an Edgli of the
one funded identity against it; a scenario opens a session through that Edgli and
runs one pump after another over it. Below the Edgli there is nothing of this
repository: `hoprd`, `hoprd-localcluster`, anvil, bloklid and `HoprSession` are
external, and are modelled by what the code here relies on them *not* promising:
a session loses, delays and closes, a node dies or freezes, a scrape fails, a
process obeys SIGTERM when it gets to it.

What is hard to test here, and where the properties therefore aim:

- **two futures of one call.** The reader's tail cap reads a stamp the writer
  publishes; either may end first, fail, or be wedged.
- **order of rules.** `stop_reason` has five rules; which fires depends on when it is asked.
- **what earlier phases leave.** Bytes of an earlier phase, Sessions of an earlier
  scenario, channels of an earlier boot, nodes of an earlier cluster, programs of an
  earlier chain: each is read by code that means its own.
- **figures over partial data.** Torn records, failed scrapes, gaps in a curve, a
  series that is not there yet against one that reads zero.
- **readings that are not of one moment.** Two Safes and two nodes' counters, one after
  the other, while deposits are mined, keys recovered and cycles swept.
- **sizes derived from sizes.** A profile follows from six knobs; two ends and a loss
  model have to agree on it for each choice.
- **waits.** Every phase of every scenario, every gate, every `wait` in the scripts.
- **traps.** Shell handlers run between commands, also inside other handlers.

PROJECT.json lists these hazards one by one, at their lines, with the properties
that cover them or the reason none does.

What makes each component correct, in a sentence: a pump's verdict says no more
than it saw and always comes; a scenario passes only if the phase under test
recovered; attribution finds the same records however the stream is read, and a digest that is right means the whole payload came; a trace's run
is its own Session's; a payment scenario passes only for cycles really deposited for,
recovered and swept, and blames only what happened; a relay-loss scenario asks after
the cycle that was in flight when a relayer that carried it was killed; a boot uses only what is alive; the cluster's size never
changes under its users; a suite's log is complete and its processes were told to go; a run gives back the
checkout and is green only when everything ran.

## The modules

| module | models | extends / composes |
|---|---|---|
| `StopRule` | `PumpOutcome`, `stop_reason` | – |
| `Pump` | `pump_halves`: both futures, the join, `longest_stall` | `StopRule` |
| `PumpContract` | what a scenario may assume of a pump, without time | – |
| `PumpRefinement` | the mapping of `Pump` to `PumpContract` | `Pump`, `INSTANCE PumpContract` |
| `PumpProofs` | the pump's theorems, and those of its attribution of records | `PumpRefinement`, `Scan`, `TLAPS` |
| `TransferStats` | `longest_stall`, `steady_state_mbps`, `time_to_sustain` on a recorded curve | `StopRule` |
| `Survival` | the relayer-loss scenario and its common-mode variant, warm-up to `assert_recovered` | `TransferStats` |
| `Scan` | records in a torn stream | – |
| `ExitTrace` | scenarios, sampler, trace and the Exit's counters | – |
| `Counters` | the parsers of `pix.rs` and `pix_exit.rs`, the differences and what is read of them | – |
| `Relayers` | a sample's spread and whom it names | – |
| `PixProfile` | what `relay_loss.rs` and `shapes.rs` derive from the knobs, and what Exit and Entry accept | – |
| `PixPayment` | both scenarios of `tests/pix.rs`, over the Entry's strategy, the chain and the Exit | `Counters` |
| `RelayLoss` | the scenario of `tests/pix_relay_loss.rs`, share by share | `PixProfile`, `Counters`, `Relayers` |
| `PixPaymentProofs`, `RelayLossProofs` | their theorems, the profile's among the latter | `PixPayment`, `RelayLoss`, `TLAPS` |
| `SurvivalProofs`, `ExitTraceProofs` | their theorems | `Survival`, `ExitTrace`, `TLAPS` |
| `EdgliBootProofs`, `SuiteProofs`, `RunnerProofs` | their theorems | `EdgliBoot`, `Suite`, `Runner`, `TLAPS` |
| `EdgliBoot` | boots of one identity over several binaries, and on Rotsee | – |
| `Cluster` | the tests of a binary and the shared cluster | – |
| `Suite` | `run-binchain.sh` around `Cluster` | `Cluster` |
| `Chain` | `chain_up`, `chain_start`, `chain_stop` | – |
| `Runner` | `run.sh` and `run_tier` around `Chain` | `Chain` |
| `MC*` | constants for TLC | one of the above |

How state and actions correspond to the code:

**Pump.** Data is counted in units (one tagged record, or a piece of payload),
time in ticks. The writer's program counter is where its future is suspended: in
`write_all` ("writing"), in a flush, in a sleep, in the last flush. `Write` is one
poll of it: the session takes any amount of the current chunk, and the code that
follows up to the next await runs in the same step, since nothing else of the
task does. The reader alternates between `Check` (the whole loop head: `done`,
`stop_reason`, then the read with its timeout is issued) and one of `Read`,
`PollExpires`, `ReadEof`, `ReadFails`. A read of `own` and `other` units is counted as `a` of this phase and `b` of another,
any two numbers that add up to no more than was read: the scan (module `Scan`) may take a torn record of either for one of
either, or for none. `Join` computes the `Transfer`.
`Tick` may not pass a due future by more than `Lag`, which is how late the
executor may be. `Lose` and `Close` are the session. `backlog` is what an earlier
phase left in it.

**Survival.** One step is one second; each pump of the scenario is `Pump` made regular
(one unit a second when paced, a reader that is never late), so that whole
sequences of pumps can be explored: `stage` is the line of the test the scenario is
at, `Second` one second of the running pump with what the session chose to
deliver, `DrainSecond` one of `drain_until_quiet`, `AssertRecovered` the
assertions, in the code's order. `log` is a history variable: for each second of the survival pump, the units of its own and of others
that were read and what came back in all, from which the properties are stated, and not from the
figures the code computes.

**Scan.** The word of four bytes is the unit; a frame is one word more than a
whole number of records, as in the code (63 · SESSION_MTU is 4 modulo 16).
`ScanRecords` is a recursive function over the buffer's positions. A tag is compared as the one byte it is
(`TagByte`), so that the low byte of an index that a hole left in its place can pass for one. A word carries who sent it and where it
stood, which neither the scan nor the digest (`ShaOk`: the length and the values) looks at and the properties do.

**ExitTrace.** `Sampler`'s task is `LoopHead`, `Scrape`/`ScrapeFails`, `SleepEnds`,
interleaved with the scenario, which raises `stop` in `Finish`, and with the Exit,
which accepts useful and surplus shares of the scenario's Session and of those
left behind, into the same two counters. `Current` is the sample whose interval is being judged.

**Counters.** An exposition is a set of series, a reading a function from series
to counts, so that *absent* and *zero* stay apart, as they do in the code. `Since` keeps
the code's rules: counters are differenced saturating at zero, gauges are taken as they
stand, histograms bucket by bucket. `MCPixPayment` checks the readings over all small
bodies (`HistogramsDiffer`, `ReadingsKeepAbsence`) against what was observed.

**PixPayment.** `todo` holds the steps the scenario still has to take, in the order of the
test; each reads a Safe or counters into `read`. Between any two of them the Entry's
strategy (external) deposits, refuses or fails, the chain mines in order, the Exit confirms,
times out, recovers a key and sweeps. `Judge` is the last reading and the list of assertions,
each under the name a failure gives the verdict; the first that fails decides. `strained` is a
history variable: a key came before its deposit, or sweeping fell two cycles behind.

**PixProfile.** Operators only: a knob record says what the environment says; the two configurations
follow from it as in the code; `Starts`, `Admits`, `Pays`, `Tracks` and `Drains` are what
the nodes demand of each other's configuration, as the comments and the derivations of the code
state it.

**RelayLoss.** `stage` is the await of the driver of the outage; the writer and the reader of the
stream are joined with it and stop on its flag. The shares of the first cycle are followed one by one: `Mint` binds the next share
to a path, `Spend` delivers the oldest of the Exit's store or loses it with a dead relayer, `Wipe` is the
Entry's re-planning. Later cycles are followed by their deposit, key and sweep only.
`Scraped` is one relayer's answer or failure, of which the traffic takes no notice.

**EdgliBoot.** `stage` is the await `setup` is in. `open` and `announced` are on the
chain and outlive boots and binaries. `ReadChannels` and `ReadPeers` are the two
concurrent reads of `select_session_targets`, in either order.

**Cluster, Suite.** `tpc` is where the current test is in `bring_up`; `cur` counts
the localclusters the binary has spawned, several of which can be alive, since a
handle dropped after a failed poll kills nothing. A node is its port, so that a retry's polls may be answered by
the nodes of the first localcluster, or by one left over from an earlier suite, as in the code. `Suite`
adds the script (`spc`) and tee, which ends when no process has the FIFO open. That the binary and its localclusters
have it open is in the source (`run-binchain.sh:193`, `cluster.rs:716-717`); whether a node inherits it is up to
`hoprd-localcluster`, so each node either does or does not. `Pkill` only sends SIGTERM (`told`, `termed`): a localcluster shuts
down when it gets to it, may take nodes along, and may start another before it ends (`late`, a history variable); a node
obeys unless it is frozen.

**Chain, Runner.** A program of the chain is `<<kind, generation>>`, so that what
an earlier `chain_start` left can be told from the current one's. `wpc` is the
wrapper shell in `chain_up`, with a pending SIGTERM whose trap runs between its
commands, kills the programs whose pids it knows by then (`Named`) and goes on. At EXIT the same trap
runs behind `chain_up`, whose locals those pids are, and kills nothing (`WrapperExits`). `&` and `$!` are two steps, in
`chain_up` and in `chain_start` (`PidNoted`, `StartNotes`); `pid` is `CHAIN_PID`. `early` and `unsent` are history variables: generations
whose trap ran before there was an anvil, and those a `chain_stop` had no pid for. `pc` is the line of `run.sh`/`run_tier`;
`handler`, `exit`, `stop`, `last` are the signal handler, the EXIT trap's restore,
its `chain_stop`, and a handler that interrupts the EXIT trap. `restore_manifest`
is three commands, each of which a signal can follow. A suite is one pass or fail.
A failing `cp` in `restore_manifest` is taken not to happen.

Definitions marked "Mutant" are plausible wrong versions of the definition behind
them. They are not used by the specification; PROJECT.json names for each
property one that must break it.

## The runs

`tlc -config X.cfg M` in this directory; PROJECT.json names the module of each cfg.

| run | shows | states |
|---|---|---|
| pump | every outcome is backed by what was counted, and the count by what was read (`OutcomeEvidence`), an earlier phase's backlog or a trickle cannot outlast the budgets (`BacklogCannotHold`, `TailIsCapped`), the reported stall is the stream's (`StallIsTheStreams`), the call returns (`Returns`) and implements the contract (`ImplementsContract`) | 1.8 M |
| survival | a pass means a window of the phase's own units at half the healthy rate in time (`RecoveredInTime`) and no standstill (`NeverStoodStill`), the pump gives up on a session, one silent from the start included, no sooner than a recovery may take (`GivesRoomToRecover`), a verdict always comes (`ReachesVerdict`) | 236 k |
| scan | attribution does not depend on where reads fall (`ReadsDoNotMatter`), a right digest means the whole payload was read (`CompleteMeansWhole`), a hole costs at most one intact record (`OneRecordPerHole`) | 43 k |
| exit_trace | a run of surplus shares is never longer than the Session's own while it lives, and afterwards than that or a leftover's since (`RunIsOwn`), a Session is not failed for a run others cut (`FragmentedIsOwn`), `finish` returns (`TraceIsCollected`) | 1.8 M |
| edgli_boot | ports never clash (`PortIsFree`), a passed gate is a usable channel (`GateMeansUsable`), targets are nodes of the running cluster (`TargetsAreLive`), the strategy closes nothing on a local cluster (`NeverCloses`), setups end (`SetupEnds`) | 381 k |
| suite | the size polled for is the size started, and each node of a shared cluster passed each poll (`EveryNodeWasReady`), when results are read the log is complete and each node left was told to go, or started too late for that (`SuiteCleansUp`), the script ends (`SuitesEnd`) | 129 k |
| runner | the checkout comes back (`ManifestRestored`), suites run only on the pinned set (`SuiteOnItsLine`), green means all ran and passed (`GreenIsGreen`), behind the EXIT trap the wrapper is gone and every program was sent SIGTERM, two cases excepted (`NoChainLeft`), the script ends (`RunEnds`) | 209 k |
| pix | the Entry stays within its budget (`TypeOK`), a pass was really paid for (`PassMeansPaid`), deposits and conservation are blamed only for something that happened (`AccountsReconcile`), the exhaustion scenario passes only if the budget is what bound (`BudgetBinds`) | 1.2 M |
| relay_loss | no scenario ends for its own profile (`NeverRefused`), losses within the tolerated burst starve nothing (`BurstSurvived`), a pass is of the cycle that was in flight (`PassMeansSurvived`), the relayer killed carried and not alone (`KillRemovesACarrier`), the scenario ends (`ScenarioEnds`) | 339 k |
| stream_dies, backlog_hides_stall, hole_misattributes | one statement each of a comment or a test that the code does not keep, see below | |

`TypeOK` is checked where a type can go wrong in an interesting way: `pump`, `pix` (it holds the
budget) and `runner`.

Bounds, and why they are enough for what they show:

- *pump*: six calls, one per shape and option (phased or not, grace or not, backlog
  or not, empty payload, chunk not dividing the payload), payloads of at most 3
  units, `Poll` = `Lag` = 1 tick. Idle budgets lie on both sides of `FirstByte`, and
  graces both below and above what is left of the timeout, so each rule wins in
  some behaviour. A backlog of up to 2 units passes for a phase's own or is counted as foreign or not at all.
  The theorems remove these bounds.
- *survival*: window < deadline < settle + deadline < idle budget and tail grace, as
  the scenario's static assertions require; a load longer than the tail grace, so
  that every outcome occurs; at most two units a second, so that a second can
  carry the phase's own, an earlier phase's, both or a burst above the pace. `FirstByte` lies below the survival pump's idle
  budget (in the source the two are equal) and above the other pumps', so that either ends a pump over a session
  silent from the start. A unit is counted for the phase the scan takes it for.
  `MaxLeftover` = 1 lets a drain pass with something still in the session.
- *scan*: a frame of 5 words tears a record of 4 at every offset; 7 and 4 records
  make 6 and 4 frames, all of whose subsets may be lost; reads of 1 to 6 words end
  before, at and after each boundary. The tags are also indices of records, so that
  torn records do pass for whole ones of either phase.
- *exit_trace*: two scenarios, so that the second can meet what the first left; four
  samples make a run with two edges and a middle.
- *pix*: four cycles, one more than what may be in flight beyond the target of one; the exhaustion
  scenario's budget of two leaves a third to refuse and a fourth never asked. Funds lie on both sides of
  the happy budget; one deposit breaks, the channel strategy stakes once. The deposit counter starts
  at 1, as in a process that has paid before; either both ends export their counters or neither does.
- *relay_loss*: a window of 2 and cycles of two polynomials (one block) and of four (two);
  one share needed of each, and a surplus of 1 and of 3, below and above the threshold. A store of two
  SURBs is at its limit at once. One failed scrape, one eviction, one wipe, two SURBs minted over the dead relayer,
  two relayers of which one has a past. `MaxEarly` bounds what is emitted before the kill to three shares, above the
  quarter the warm-up waits for. The profile's operators are also evaluated at the real sizes
  over a sweep of the knobs (`ProfileFigures`, `ProfilesFit` of `MCPixPayment`), and the theorems cover all of them.
- *edgli_boot*: two binaries with clusters of 2 and 3 nodes in either order, two
  boots each: channels to dead nodes, to nodes that come back, and a listener
  that lingers. Rotsee's target is scaled to 1 among 2 or 3 peers, as 3 is among
  the network's.
- *suite*: two binaries of two tests; sizes 1 and 2, with one request out of range; any
  number of failed bring-ups in a binary (one per test). A late node, a node left frozen and one that is slow to
  obey are all reached.
- *runner*: a v4 run, v5 nightly runs with and without a localcluster that takes the
  PIX geometry, a v5 pull-request run; three scenarios, one of each kind; two signals,
  so that one can interrupt the handling of the other.

Fairness, and what in the code justifies it:

- *Pump*: the clock advances, and the executor runs futures whose timers fired
  (`Check`, `PollExpires`, `Wake`, `WriterCut`, `Join`). There is none on `Write`,
  `FlushAndPause`, `Read` or `Close`: a session owes nothing. `Returns` holds because the writer
  is under `tokio::time::timeout` and the reader under its own rules.
- *Survival*: seconds pass, whatever is read in them; a closed session is noticed
  by the next read.
- *ExitTrace*: the sampler's task runs, a scrape returns or fails (the HTTP client
  has a timeout of 10 s), and `finish` is polled. None on the Exit.
- *RelayLoss*: every step of the driver has a deadline or a timeout; each write of the writer has ten seconds
  and the reader polls its flag. None on the network or the nodes, on whom `ScenarioEnds` may not depend.
- *EdgliBoot*: polls run out (`poll_until` has a deadline) and reads return. None on
  peers, channels or the strategy.
- *Suite*: the script's own steps, tee once nobody writes, a bring-up's
  timeouts, the end of a test, localclusters that obey SIGTERM in the end, and nodes that do while they are not frozen.
  None on a cluster that becomes ready. `SuitesEnd` excuses two cases, which the
  code does not handle, and only if the node in question inherited the FIFO: a test process killed while it held nodes frozen
  thaws nothing (`Thawed` needs its drop), and tee then waits for a node that
  cannot obey; and a localcluster may start a node behind `reap_nodes`' second `pkill`, which nobody asks to go.
- *Runner*: every suite, build and deployment is taken to end, since nothing in
  `run.sh` or `lib.sh` bounds them; programs obey SIGTERM. None on a chain that comes up. `RunEnds`
  excuses one case, which the code does not handle: the wrapper's trap runs
  before its `wait`, kills what was started, and the wrapper then starts a
  bloklid after `chain_stop`'s pkill, for which both now wait.

Deadlock is checked in every run; each specification has an explicit final
stutter (`Finished`, `Over`, `Drained`).

## What the runs found

Three statements of the repository about itself do not hold. Each is a violation
run; the findings in PROJECT.json quote them.

- **stream_dies** – `assert_recovered`'s doc wants the stream to be still carrying
  the rate when the pump ends. `steady_state` is only logged, and the silence that
  ended an idle pump is left out of the longest stall: a stream that recovers and then dies passes.
- **backlog_hides_stall** – an earlier phase's bytes are said to be excluded from every
  figure. Every read is an entry of `progress`, so they break up a stall.
- **hole_misattributes** – the hole test says attribution survives a lost frame. Behind
  some holes a torn record is read as one of a phase nobody sent.

Seen while modelling, without a run of their own:

- `Suite`/`EdgliBoot`: "the close pass can never run" (`env.rs`). On Rotsee the target is fixed
  and channels of earlier boots to live peers are not in the floor.
- "Both children are killed here" (`lib.sh:252-254`). They are on SIGTERM, once their pids are noted. At EXIT
  `chain_up` has returned and `anvil_pid` and `bloklid_pid`, its locals (`lib.sh:251`), with it: after a failed deploy anvil is left to
  `chain_stop`'s `pkill`. A SIGTERM whose trap runs before anvil is started kills nothing either, and if the deploy then fails behind the
  pkills, an anvil stays that nothing has signalled (`early`). A signal between `&` and `CHAIN_PID=$!` (`lib.sh:339-340`) leaves a
  wrapper that `chain_stop` neither signals nor waits for (`unsent`).
- A localcluster that is told to go may start a node behind the nodes' `pkill` (`lib.sh:384-385`); nobody tells that node, and after
  thirty seconds nobody waits for it. It holds its port when the next binary starts, as does any node that is slow to obey.
- "but never long" (`pix_exit.rs:567-568`) of the surplus-only run holds while the scenario's own Session lives. Once it has ended, a
  Session left behind makes a census of one, and its run is credited.
- `return_path` is said to run on a fresh chain. `chain_stop` waits for the wrapper
  only, and the next `chain_start` takes any answer on the port (`NoChainLeft` is therefore stated of
  the EXIT trap, behind which no chain is started).
- `EveryNodeWasReady` needs that in a binary every test asks for a size or none does
  (`BinariesAssumption`, as `request_cluster_size`'s doc wants and as all test files do). After a bring-up
  nobody asked a size for, `REQUESTED_SIZE` is still empty, so a later call would be the "first"
  and change `cluster_size()` under the shared cluster (`cluster.rs:36-37`, `52-53`).
- `KILL_SETTLE`'s doc (`return_path.rs:347-348`) counts recovery from the kill, the code from the
  survival pump's start.
- A torn record is counted for this phase's when the low byte of an index stands where its tag should,
  and the count of records, which decides `Complete`, can then reach the payload with a record missing. `sha_ok`
  tells: a right digest means the whole payload was read (`DigestMeansWhole`).
- The outage's pump lasts `NO_FIRST_BYTE_TIMEOUT` when nothing comes back, not "one budget"
  (`return_path.rs:962-964`, `pump.rs:469-473`).
- A first `chain_start` that fails ends `run.sh` before line 256 puts `chain_stop` in the EXIT
  trap, so the chain it started stays; a bring-up whose readiness poll fails leaves its localcluster
  running, and the next test's retry starts another on the same ports.
- `open_pix_session`'s doc wants both hop counts to be at least 1; the code requires it of the
  return path only, and the relay-loss scenario opens with none forward.
- A relayer whose baseline scrape failed is left out of the spread. With two relayers that
  is a "concentrated" stream and a failure; with three, the scenario goes on with the two it saw, and may
  kill the second busiest. `KillRemovesACarrier` holds all the same.
- The fill ceiling the profile derives is above what a Session is taken to carry (5000 packets a
  second) for extreme knobs, and the nodes then do not start: `ProfileStarts` needs the premise.
  `HOPRD_PIX_POLYS` that is no multiple of the window is not guarded at run time either: `BurstSurvived` is about those
  that are.
- The happy scenario takes the Exit's baseline behind `open`, so it can miss the first
  confirmation (`AccountsReconcile` allows exactly that one); the exhaustion scenario's timeout
  can be that of an earlier, slow deposit, not of the refused one.
- "unpaid" and "timed out" of the relay-loss scenario are shadowed by earlier assertions: whatever
  would fail them has closed the Session or left the sweep uncounted.

## The proofs

### The pump

`PumpProofs` proves, for every set of calls, every first-byte budget, poll interval and
lag (`OptsAssumption`, `TimingAssumption` of `Pump`; nothing else is assumed):

| theorem | statement |
|---|---|
| `Invariant` | `Spec => []PumpInv` |
| `TypeCorrect` | `Spec => []TypeOK` |
| `OutcomesAreBacked` | `Spec => []OutcomeEvidence` |
| `BacklogNeverHolds` | `Spec => []BacklogCannotHold` |
| `TailAlwaysCapped` | `Spec => []TailIsCapped` |
| `StallIsNeverTheWriters` | `Spec => []StallIsTheStreams` |
| `Implementation` | `Spec => ImplementsContract`, that is `Contract!Spec` under the mapping of `PumpRefinement` |

None of the properties is inductive. `OutcomeEvidence` needs to know where units
can be: `Ledger` (the units counted, in transit and still in the backlog are at most those the session
accepted and the backlog there was, the writer's position agrees with where it is suspended, and the
offer stamp is set exactly when it has ended) and `Stamps` (the arrival
times are ordered, and zero until something arrived). The timing properties need when the
reader last asked the rule: `Asked` is a lower bound derived from `due`, and
`Cadence` says that a live reader was told to go on when it last asked, hence
within each budget *then*, and that its next step is due a poll later and at most
`Lag` overdue; `Slack` = `Poll` + 2·`Lag` is what that sums to. `StallIsTheStreams` needs `Gaps`:
no gap so far, the one the reader stopped in included, exceeds
`Patience` + `Slack`. `PumpInv` is the conjunction of these with `TypeOK` and
`OutcomeEvidence`; TLC checked it before it was proved.

The pump's proof has one lemma per action of the reader, the clock and the session, and
one for the writer's moves, all of which only touch `Ledger`, the offer stamp and the schedule. What
`stop_reason` means is stated once (`StopReasonJustified`, `VerdictMeaning`): the
verdict is none exactly if every budget still holds, and each outcome implies its
evidence. `NextInv` combines the lemmas by the disjuncts of `Next`; the temporal
theorems follow by PTL. `ContractStep` maps each step to `Offer`,
`Return`, `Conclude` or a stutter.

### The attribution of records

The second half of `PumpProofs` is about `Scan`, for every frame of at least a record, any two tags, any
number of records and any read size (`ScanAssumption`; nothing else is assumed):

| theorem | statement |
|---|---|
| `ReadsNeverMatter` | `ScanSpec => []ReadsDoNotMatter` |
| `HolesCostOneEach` | `ScanSpec => []OneRecordPerHole` |
| `DigestMeansWhole` | `ScanSpec => []CompleteMeansWhole` |

`ScanIs` unfolds the recursive function once; what it computes on the whole buffer is then shown by going
down from the buffer's end (`Downward`: a set of positions that has the last ones, and with all behind a position that
position too, has them all). `ScanResumes` says that a scan may stop where no record fits and go on from
there when more has come; `ScannedInv` is that and the types. For the second theorem,
`Behind` are the intact records a scan from a position still has to find, `Torn` the holes it still has to
meet: a step over what is no intact record passes at least as many holes as records it misses.
For the third, `StreamInv` says what is in the buffer and on its way: the words in the order they were
sent, cut at frames only. A record the scan takes is then four words that may straddle a hole
(`WindowIs`), and one whose values are those of the payload's record `j` holds the index word of record `j`,
unless it is the first: that can be a torn record of the earlier phase, but then stands where nothing of
record 1 can follow. So every index has been read (`IndicesAreRead`).
A frame is at least as long as a record, so each lost frame would have held an index or the end (`LastIsRead`, `GoesBack`).

### The profile and the relay-loss scenario

`RelayLossProofs` proves, for every geometry, window, choice of knobs,
topology and bound (`ProfileAssumption`, `ScenarioAssumption`):

| theorem | statement |
|---|---|
| `ProfileAdmits`, `ProfilePays`, `ProfileTracks` | whatever the knobs say, the Session's quota is in the Exit's window, a cycle's price below the Entry's ceiling, and the Entry's tracking time within the Exit's deadline |
| `ProfileStarts` | the deadline finishes the widest quota, if that needs no fill above what a Session is taken to carry |
| `ProfileDrains` | a recovered cycle's queue drains, if `max_served` is not overridden |
| `LossInvariant` | `Spec => []LossInv` |
| `BurstAlwaysSurvived` | `Spec => []BurstSurvived` |
| `ProfileNeverRefused` | `Spec => []NeverRefused`, under the premise of `ProfileStarts` for each run |
| `KillIsOfACarrier` | `Spec => KillRemovesACarrier` |
| `PassIsSurvival` | `Spec => []PassMeansSurvived` |

The profile's theorems are arithmetic: rounded-up division covers what it divides (`CeilCovers`), and the
window's two ends lie around the quota for each surplus (`WindowAroundQuota`, which also has the case
of a surplus above the threshold). `LossInv` is `RunInv` (the run is one of `Runs`, the stage and the
verdict agree), `ShareInv` (lost shares were emitted) and
`SampleInv` (a sample of a relayer lies between its past and its past plus what it carried for the
Session, and the first sample is not below its past). The burst rule itself is about positions: within a block the shares of a polynomial
are those with the same rest modulo the window, so a run of window times surplus shares, even one
that spans two blocks, has at most surplus of each. A relayer with
progress between the samples is one that carried (`ProgressIsCarried`), and two relayers with a real share leave one
beside the victim.

`PassIsSurvival` goes from the counters to what they count. `CycleInv` says which states of a cycle exclude each other,
`BaseInv` that the baseline, read before the traffic, has none of them, `EndInv` that nothing has a verdict before the end
and that at the end a relayer is dead. A count of cycles above zero is a cycle (the folds of `Counters` over the finitely many
series add up as sums do), so the assertions that passed say that none failed and one was recovered and paid; and since the
cycle in flight is the first to be recovered and the only one that can fail, it is that one.

### The payment scenarios

`PixPaymentProofs` proves, for every price, target, budget, number of cycles and funds
(`PaymentAssumption`):

| theorem | statement |
|---|---|
| `TypeCorrect` | `Spec => []TypeOK`, the budget included |
| `PassIsPaid` | `Spec => []PassMeansPaid` |
| `AccountsAlwaysReconcile` | `Spec => []AccountsReconcile`, if two cycles may be in flight (`InFlight >= 2`) and the budgeted cycles are a plausible number (`Budgeted <= Plausible`) |
| `BudgetAlwaysBinds` | `Spec => []BudgetBinds` |

`PassMeansPaid` needs three things the property does not say. `StepInv`: the steps left are the
last ones of `Order`, and behind the third the Exit's Safe has been read, as a natural number; so the
judgement has a baseline. `PaidInv`: a sweep that brought something was of a mined deposit and a
recovered key, and stays so, since cycles are recovered in order and a deposit is asked for again
only before the cycle has one. `PassInv`: a verdict is the last thing there is. At the judgement the Exit's Safe is the price times the cycles that paid; what `completed_cycles` divides
out of the difference to the baseline cannot be more (`PaidReally`).

The other two are about who is blamed, and for that the readings have to be tied to the moments they were taken:
`CalmInv` says that until the pump only the first cycle is asked for and nothing comes back, `BaseInv` that
the baselines therefore read whole Safes and untouched counters (but for the confirmation the happy scenario's late baseline
may hide), `StrainInv` what a Session that is not strained keeps (keys behind deposits, no empty
sweep, no cycle asked for before all but the one in front of it are swept), `EndInv` how the last readings lie between the first and the
end. Nothing more is asked of the state at the judgement. The two premises of `AccountsAlwaysReconcile` hold of the source's
constants (2 in flight; 20 cycles budgeted, 100 000 plausible).

### The survival scenario

`SurvivalProofs` proves, for all loads, budgets and
read sizes that the static assertions of `return_path.rs` admit (`BudgetAssumption`):

| theorem | statement |
|---|---|
| `RoomToRecover` | `Spec => []GivesRoomToRecover` |
| `RecoveryIsInTime` | `Spec => []RecoveredInTime` |
| `NeverStandsStill` | `Spec => []NeverStoodStill` |

The first speaks of `log`, the history, and the rule of `lastMineAt`, so `LogInv` relates them: the log is as long as the survival
pump's clock, no own unit in it is later than `lastMineAt`, and while the pump has none the log has none. What the
rule's answers say is `StopReasonSays`; an `Idle` is then a silence of the idle budget, which the
static assertion puts above settle and deadline together, a `NeverStarted` one of at least that from the start or a tail without a unit,
a `TailGraceExpired` that of the tail.

The other two compare what `assert_recovered` computes from `progress` with the log. `ReadsInv` says that
`progress` is the log's reads in order, each with what was back by then (`Tracks`), and that a baseline is such a curve
too. A window of `progress` that carries half the healthy rate is then a window of the log (`time_to_sustain`), and the
longest stall is at least the gap between any two reads with none between them (`longest_stall`); both are shown from what maxima and
minima of finite sets are, not from how they are computed.

### The Exit's trace

`ExitTraceProofs` proves, for any number of samples, scenarios and shares and whatever earlier Sessions
left behind:

| theorem | statement |
|---|---|
| `RunIsAlwaysOwn` | `Spec => []RunIsOwn`, if `Tolerance` is 0, which is the source's `SURPLUS_RUN_USEFUL_TOLERANCE` |
| `FragmentedIsAlwaysOwn` | `Spec => []FragmentedIsOwn` |

A trace of samples says something of a Session's shares only where the reading at both ends counted this Session
alone. `Counted` says that the counters never go back under a trace, `Attributed` that behind such a reading all surplus is the
Session's, `RunInv` that what the trace has standing and what came since is one run of the Session's own, `EdgeInv` the
converse: as long as no step is foreign the trace misses no more than the run's two edges. `AfterInv` is for a trace that goes on when
its own Session has ended: what it has standing is then the run of those left behind (`orphan`), or the
Session's own with nobody left to add to it. `StandingInv` and `VerdictInv`
(the trace is not touched behind its verdict) complete them. The recursive run of a trace is
unfolded at its last sample, the only place a step changes it.

### The boots

`EdgliBootProofs` proves, for any sizes, peers, binaries and boots, on either network
(`SizeAssumption`):

| theorem | statement |
|---|---|
| `PortIsAlwaysFree` | `Spec => []PortIsFree` |
| `GateAlwaysUsable` | `Spec => []GateMeansUsable` |
| `TargetsAlwaysLive` | `Spec => []TargetsAreLive` |
| `StrategyNeverCloses` | `Spec => NeverCloses` |

`PortInv` says that ports in use lie between the largest cluster and the next boot's port. `ChannelInv` is
what the other three need: while the strategy runs, every open channel is to a node of the
cluster or was counted as genesis, because the peers it was counted against were nodes and the strategy opens
to peers only. Counting then does the rest: one more than genesis is a channel to a running node
(`LargerHasMore`), and there are never more than nodes and genesis together, the floor
(`NothingAboveFloor`). The latter holds whatever disconnects between the reading of the peers and the scenario.

### The suites

`SuiteProofs` proves, for any binaries, sizes and clusters (`SizeAssumption`, `BinariesAssumption`):

| theorem | statement |
|---|---|
| `EverySuiteCleansUp` | `Spec => []SuiteCleansUp` |
| `EveryNodeIsReady` | `Spec => []EveryNodeWasReady` |

The first rests on tee, which ends only when nobody can write, a localcluster never (`WriterInv`), and on the order of the two
`pkill`s: from the first on every localcluster alive was told to go, so a node is late or was up at the
second (`ToldInv`). It asks nothing of how fast anything obeys, nor of which nodes hold the FIFO. The second needs `SizeInv` (every localcluster of the binary has the size in effect: a first ask comes
before the first of them or never) and `PollInv` (what each passed poll has left
in `answered`, and that a shared cluster is the last one started).

### The run

`RunnerProofs` proves, for any requests, any number of signals and any behaviour of the chain's
programs (`RequestsAssumption`, `ScenariosAssumption`, `SignalsAssumption`: what a request consists of, that the
scenarios are finitely many names, and that the number of signals is one):

| theorem | statement |
|---|---|
| `ManifestIsRestored` | `Spec => []ManifestRestored` |
| `SuitesOnTheirLine` | `Spec => []SuiteOnItsLine` |
| `NoChainIsLeft` | `Spec => []NoChainLeft` |
| `GreenMeansAllRan` | `Spec => []GreenIsGreen` |
| `TypesAlwaysOK` | `Spec => []TypeOK` |

`FilesInv` says which files a call of `restore_manifest` has put back so far, that a call which was cut
short starts over, and that the backup goes last. `ProgramsInv` says that every program was sent its SIGTERM, is of the running wrapper's
generation, or of one of the two exceptions. The EXIT trap of the wrapper kills nothing, so this needs both halves of
`chain_stop`: a wrapper that was signalled starts no anvil any more unless its trap ran early, so the pkill finds the one
there is; and a bloklid it starts afterwards is what it then waits for, and `chain_stop` for it. `RanInv` relates the suites that ran and those still to run to the groups the request asks for, line by
line of the script; `SaidInv` says that status and summary agree with them. The types rest on `ChainInv` (a wrapper is of a chain that
was started), `FileTypes` and, for the three commands of a restore, `FilesInv` and `BackupTypes`.

### What is left to TLC

Liveness under fairness (`Returns`, `ReachesVerdict`, `TraceIsCollected`, `SetupEnds`, `SuitesEnd`, `RunEnds`,
`ScenarioEnds`), since the prover does not handle ENABLED. The two statements of `MCPixPayment` about the parsers and the profile
at its real sizes, which TLC evaluates as assumptions. And the three statements of the repository that do not hold.

Every safety invariant and action property of the runs has a theorem. Those that rest on recursive functions or on folds
(`Scan`, `ExitTrace`, `Counters`, the maxima of `TransferStats`) are proved without an induction
theorem over operators: a set of numbers stands in the place of the predicate (`SetInduction`, `Downward`), and its least
element comes from the well-foundedness of finite sets under inclusion. That a maximum of a set is in it and not below any
member is proved once, for finite sets.

## What is not modelled

PROJECT.json has a line for each component. In short: parsing of metrics
and summaries, logging, telemetry, latency profiles, the resolution of versions
before a run, CI workflows (declarative), the relayer-spread scenario (a ratio
over a random draw), session opening other than of a PIX session, the k6 load tests
(an older generator the suites do not use). `attach_external` starts and stops nothing.
`origination.rs` and `session_metrics.rs` are parsers and differences of the same kind as
`Counters`, of figures that are only asserted to be positive.

Of what is modelled, the models leave out: the relay-loss scenario's two-hop topology, which kills one of three relayers (the same
module with longer paths, and too large to run; the theorems cover it); `writer`'s final flush, which has no deadline and is taken to return; the ceilings of spending in the cluster's
YAML, since no node of the cluster pays; and shares of the cycles behind the first.

What is taken for granted: `Edgli::new`, each single check of a gate and each read of channels return, and a reading of channels is
current (`env.rs:837-840` says the connector may lag right after boot). A suite, a build and a deployment end, and a `cp`
that restores the manifest succeeds. A suite is one pass or fail to `Runner`; that a run which ends in its second `chain_start` prints no
summary is what the code does, and `GreenIsGreen` does not forbid it. A node is its port to `Cluster`, so `EveryNodeWasReady` does
not say whose nodes answered. `OneRecordPerHole` counts what the scan found as this phase's, torn records that it misread
included. `Survival` counts a unit for the phase the scan attributes it to.

Two hazards have no property: `chain_start` of `lib.sh` takes any answer on the GraphQL port for
its own chain's (`Runner` has the interleaving, and nothing in the code excludes it), and the
writer's final flush in the relay-loss scenario has no deadline (`ScenarioEnds` takes it to return).

## The plan

Done, in this order, most important first: the pump and its contract, with proofs;
the survival scenarios; the scan; the Exit trace; the boots; the cluster and its
suite; the chain and the run; the readings, the payment scenarios, the profile and the
relay-loss scenario, with proofs.

Next:

1. An abstract specification of a scenario (phases, one verdict, no credit for
   another phase's units), implemented by `Survival`.
2. Proofs: every safety property of the runs is proved. What is left is the abstract scenario of item 1, once stated,
   with its refinement.
3. The spread scenario of `return_path.rs` over `Relayers`, and the readings of `origination.rs` and
   `session_metrics.rs` over `Counters`.
