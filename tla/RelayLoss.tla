------------------------------ MODULE RelayLoss ------------------------------
(***************************************************************************)
(* The relay-loss scenario of tests/pix_relay_loss.rs: a profile is        *)
(* installed, a cluster and an Entry are brought up on it and a PIX        *)
(* Session is opened; once a quarter of a funded cycle is behind the Exit, *)
(* the return relayer that carried most is killed, and the scenario asks   *)
(* whether the very cycle in flight is still recovered, swept and paid.    *)
(*                                                                         *)
(* Entry and Exit are external: shares are emitted round-robin over blocks *)
(* of Window polynomials, each bound to a SURB and its return path when    *)
(* minted, held in the Exit's store first in first out, and delivered when *)
(* a reply spends the SURB over a path that lives.  Only the first cycle's *)
(* shares are followed one by one.                                         *)
(***************************************************************************)
EXTENDS PixProfile, Counters, Relayers, Sequences

CONSTANTS
  Runs,         \* records [knobs, topology]: what HOPRD_PIX_* says, and the
                \* Session's hops and the relayers, [forward, return, relays]
  KillPercent,  \* KILL_AT_FRACTION
  MinShare,     \* MIN_RELAYER_SHARE, per cent
  Lifetime,     \* what each node forwarded before the Session opened
  MaxScrapes,   \* bound: relayer scrapes that fail
  MaxEvictions, \* bound: SURBs evicted for capacity
  MaxWipes,     \* bound: generations the Entry advances
  MaxEarly,     \* bound: shares emitted before the kill
  MaxBlind,     \* bound: SURBs minted over the dead relayer before it is avoided
  MaxCycles     \* bound: cycles one Session asks for

ASSUME ScenarioAssumption ==
  /\ \A run \in Runs : /\ run.knobs \in Knobs
                      /\ run.topology.forward \in Nat
                      /\ run.topology.return \in 1 .. run.topology.relays
                      /\ \A r \in 1 .. run.topology.relays : Lifetime[r] \in Nat
  /\ {KillPercent, MinShare} \subseteq 0 .. 100
  /\ {MaxScrapes, MaxEvictions, MaxWipes, MaxEarly, MaxBlind} \subseteq Nat
  /\ MaxCycles \in Nat \ {0}

VARIABLES
  knobs, topology, \* the run's environment and shape
  stage,           \* what the test does next
  verdict,         \* how it ended
  before, after,   \* the two samples of the relayers
  unasked,         \* relayers the sample in progress has still to ask
  failing,         \* how many scrapes have failed
  base,            \* the gate's reading before the traffic
  claim,           \* the sweeps counted when the wait for them ended
  emitted,         \* shares of the first cycle minted
  store,           \* the Exit's SURBs: <<share, path>>, oldest first
  lost,            \* shares that will never arrive
  evicted,         \* SURBs the store gave up for capacity
  wipes,           \* how often the Entry re-planned around the dead relayer
  blind,           \* SURBs it minted over the dead relayer
  carried,         \* what each node has forwarded for the Session
  dead,            \* the relayers killed
  funding, key, sweep, \* of each cycle: its deposit, its key, its sweep
  closed,          \* the Exit has closed the Session
  writer, reader   \* the two halves of the stream

runVars     == <<knobs, topology>>
sampleVars  == <<before, after, unasked, failing>>
streamVars  == <<emitted, store, lost, evicted, wipes, blind>>
relayVars   == <<carried, dead>>
cycleVars   == <<funding, key, sweep, closed>>
trafficVars == <<writer, reader>>
vars == <<runVars, stage, verdict, sampleVars, base, claim, streamVars, relayVars, cycleVars,
          trafficVars>>

Relays == 1 .. topology.relays

Cycles == 1 .. MaxCycles

-----------------------------------------------------------------------------
(* Shares *)

PerPoly == Shares(knobs) + AdditionalShares(knobs)

Emission == CyclePackets(knobs)

(* Blocks of Window polynomials advance in lockstep; the last one may be   *)
(* narrower.                                                               *)
PolyOf(n) ==
  LET block == n \div (Window * PerPoly)
      width == AtMost(Window, Polys(knobs) - block * Window)
  IN  block * Window + ((n - block * Window * PerPoly) % width)

Stored == {store[i][1] : i \in DOMAIN store}

Delivered == (0 .. emitted - 1) \ (lost \cup Stored)

DeliveredOf(p) == Cardinality({n \in Delivered : PolyOf(n) = p})

LostOf(p) == Cardinality({n \in lost : PolyOf(n) = p})

PolySet == 0 .. Polys(knobs) - 1

Reconstructed == \A p \in PolySet : DeliveredOf(p) >= Shares(knobs)

Starved == \E p \in PolySet : LostOf(p) > AdditionalShares(knobs)

(* The simple paths over the relayers, as far as the topology's hops go. *)
Paths == {path \in [1 .. topology.return -> Relays] :
            \A i, j \in 1 .. topology.return : i # j => path[i] # path[j]}

Alive(path) == \A i \in DOMAIN path : path[i] \notin dead

-----------------------------------------------------------------------------
(* What the Exit exposes *)

Counted(name, label, value, n) ==
  IF n = 0 THEN {}
  ELSE {[name |-> name, suffix |-> "total", labels |-> [l \in {label} |-> value], value |-> n]}

Event(event, n) == Counted("cycles", "event", event, n)

HowMany(f, states) == Cardinality({c \in Cycles : f[c] \in states})

GateBody ==
  Event("requested", HowMany(funding, {"asked", "funded", "timeout"}))
  \cup Event("funded", HowMany(funding, {"funded"}))
  \cup Event("recovered", HowMany(key, {"recovered"}))
  \cup Event("failed", HowMany(key, {"failed"}))
  \cup Counted("shares", "kind", "useful", Cardinality(Delivered))
  \cup Counted("closures", "reason", "recovery_idle", IF closed THEN 1 ELSE 0)
  \cup (IF evicted = 0 THEN {}
        ELSE {[name |-> Evictions, suffix |-> "count", labels |-> [cache |-> "ring_share"],
               value |-> evicted]})

Gate == ReadExit(GateBody)

SharesAccepted(t) ==
  At(t.counters, Series("shares", "kind", "useful"))
  + At(t.counters, Series("shares", "kind", "surplus"))

(* A key swept against an address no deposit has reached counts too. *)
Sweeps == HowMany(sweep, {"paid", "empty"})

Paid == HowMany(sweep, {"paid"})

-----------------------------------------------------------------------------
All(v) == [c \in Cycles |-> v]

None == -1

(* The request functions remember the first call, and one process runs one *)
(* scenario: what it installs is what everyone reads.                      *)
Init ==
  /\ \E run \in Runs : knobs = run.knobs /\ topology = run.topology
  /\ stage = "install" /\ verdict = "none"
  /\ before = <<>> /\ after = <<>> /\ unasked = {} /\ failing = 0
  /\ base = <<>> /\ claim = None
  /\ emitted = 0 /\ store = <<>> /\ lost = {} /\ evicted = 0 /\ wipes = 0 /\ blind = 0
  /\ carried = [r \in Relays |-> 0] /\ dead = {}
  /\ funding = All("none") /\ key = All("none") /\ sweep = All("no") /\ closed = FALSE
  /\ writer = "idle" /\ reader = "idle"

(* The scenario is over and its cluster is taken down with what it held. *)
Ends(how) ==
  /\ stage' = "over" /\ verdict' = how
  /\ before' = <<>> /\ after' = <<>> /\ unasked' = {} /\ base' = <<>> /\ claim' = None
  /\ writer' = "idle" /\ reader' = "idle"
  /\ emitted' = 0 /\ store' = <<>> /\ lost' = {} /\ carried' = [r \in Relays |-> 0] /\ wipes' = 0
  /\ blind' = 0 /\ failing' = 0
  /\ UNCHANGED <<runVars, evicted, dead, cycleVars>>

-----------------------------------------------------------------------------
(* Setting up *)

(* The nodes start on the geometry installed, the Entry boots with the     *)
(* settlement configuration and opens; the Exit asks for the first cycle.  *)
Open ==
  /\ stage = "install"
  /\ IF ~Starts(ClusterPix(knobs)) THEN Ends("not started")
     ELSE IF ~Admits(ClusterPix(knobs), EntryDimensions(knobs)) THEN Ends("refused")
     ELSE /\ stage' = "baseline" /\ funding' = [funding EXCEPT ![1] = "asked"]
          /\ UNCHANGED <<runVars, verdict, sampleVars, base, claim, streamVars, relayVars, key,
                         sweep, closed, trafficVars>>

(* The gate's counters are read, then the halves of the stream and the     *)
(* driver of the outage are joined, which samples the relayers first.      *)
Baseline ==
  /\ stage = "baseline"
  /\ stage' = "sample before" /\ base' = Gate /\ unasked' = Relays
  /\ writer' = "writing" /\ reader' = "reading"
  /\ UNCHANGED <<runVars, verdict, before, after, failing, claim, streamVars, relayVars, cycleVars>>

-----------------------------------------------------------------------------
(* The driver of the outage *)

Reading(sample, r) ==
  [n \in DOMAIN sample \cup {r} |-> IF n = r THEN Lifetime[r] + carried[r] ELSE sample[n]]

(* The relayers are asked at once and answer, or fail to, one by one. *)
Scraped(r) ==
  /\ r \in unasked /\ unasked' = unasked \ {r}
  /\ \/ /\ stage = "sample before"
        /\ before' = Reading(before, r) /\ after' = after /\ failing' = failing
     \/ /\ stage = "sample after"
        /\ after' = Reading(after, r) /\ before' = before /\ failing' = failing
     \/ /\ failing < MaxScrapes /\ failing' = failing + 1
        /\ UNCHANGED <<before, after>>
  /\ UNCHANGED <<runVars, stage, verdict, base, claim, streamVars, relayVars, cycleVars, trafficVars>>

Sampled ==
  /\ stage = "sample before" /\ unasked = {} /\ stage' = "warm up"
  /\ UNCHANGED <<runVars, verdict, sampleVars, base, claim, streamVars, relayVars, cycleVars, trafficVars>>

(* Funded is read absolutely: the deposit may be confirmed before base. *)
WarmedUp ==
  /\ stage = "warm up" /\ stage' = "sample after" /\ unasked' = Relays
  /\ At(Gate.counters, Series("cycles", "event", "funded")) >= 1
  /\ SharesAccepted(ExitSince(base, Gate)) * 100 >= KillPercent * Emission
  /\ UNCHANGED <<runVars, verdict, before, after, failing, base, claim, streamVars, relayVars,
                 cycleVars, trafficVars>>

(* What the two samples say of the warm-up. *)
Observed == Spread(before, after)

Concentrated ==
  \/ Total(Observed) = 0
  \/ Cardinality(ActiveRelayers(Observed, MinShare)) < 2

(* Two relayers at least have a real share; the busiest is killed.  What   *)
(* the relayers forward from now on nobody reads.                          *)
Kill ==
  /\ stage = "sample after" /\ unasked = {} /\ stage' = "sweeps"
  /\ ~Concentrated
  /\ \E victim \in Relays : IsBusiest(Observed, victim) /\ dead' = {victim}
  /\ before' = <<>> /\ after' = <<>> /\ failing' = 0
  /\ carried' = [r \in Relays |-> 0]
  /\ UNCHANGED <<runVars, verdict, unasked, base, claim, streamVars, cycleVars, trafficVars>>

(* Any of the driver's failures: the warm-up's deadline, a concentrated    *)
(* stream, a scrape of the Exit that errs.  The join still waits for both  *)
(* halves.                                                                 *)
DriverFails ==
  /\ \/ stage \in {"warm up", "sweeps"}
     \/ (stage = "sample after" /\ unasked = {} /\ Concentrated)
  /\ stage' = "join failed"
  /\ UNCHANGED <<runVars, verdict, sampleVars, base, claim, streamVars, relayVars, cycleVars, trafficVars>>

(* await_sweeps: a sweep is counted, or the deadline has passed. *)
SweepsAwaited ==
  /\ stage = "sweeps" /\ stage' = "join" /\ claim' = Sweeps
  /\ UNCHANGED <<runVars, verdict, sampleVars, base, streamVars, relayVars, cycleVars, trafficVars>>

-----------------------------------------------------------------------------
(* The halves of the stream, which the driver stops on its way out *)

Stopped == stage \in {"join", "join failed"}

(* Mutant: a write in progress is waited for. *)
WriterStopsBetween ==
  /\ writer = "writing" /\ Stopped /\ writer' = "done"
  /\ UNCHANGED <<runVars, stage, verdict, sampleVars, base, claim, streamVars, relayVars, cycleVars, reader>>

(* Every write is given ten seconds: one that is stuck does not keep the   *)
(* half from seeing the flag.  The flush behind the loop has no deadline   *)
(* and is taken to return.                                                 *)
WriterStops ==
  /\ writer \in {"writing", "stuck"} /\ Stopped /\ writer' = "done"
  /\ UNCHANGED <<runVars, stage, verdict, sampleVars, base, claim, streamVars, relayVars, cycleVars, reader>>

(* A write errs and the half ends on its own, or it blocks. *)
WriterTroubles ==
  /\ writer = "writing" /\ stage \in {"warm up", "sweeps"} /\ writer' \in {"done", "stuck"}
  /\ UNCHANGED <<runVars, stage, verdict, sampleVars, base, claim, streamVars, relayVars, cycleVars, reader>>

ReaderStops ==
  /\ reader = "reading" /\ (Stopped \/ closed)
  /\ reader' = "done"
  /\ UNCHANGED <<runVars, stage, verdict, sampleVars, base, claim, streamVars, relayVars, cycleVars, writer>>

Joined == writer = "done" /\ reader = "done"

JoinedFailed == stage = "join failed" /\ Joined /\ Ends("setup failed")

-----------------------------------------------------------------------------
(* Judging *)

(* Mutant: the cycle in flight is not asked about. *)
CyclesAsExpectedUnfailed(gate) ==
  /\ CycleEvents(gate, "requested") = 1 /\ CycleEvents(gate, "recovered") = 1

CyclesAsExpected(gate) ==
  /\ CycleEvents(gate, "requested") = 1 /\ CycleEvents(gate, "recovered") = 1
  /\ CycleEvents(gate, "failed") = 0

Assertions ==
  LET gate == ExitSince(base, Gate) IN
  <<<<"closed",     ClosureReasons(gate) = {}>>,
    <<"evicted",    RingShareEvictions(gate) = 0>>,
    <<"timed out",  HowMany(funding, {"timeout"}) = 0>>,
    <<"not swept",  claim >= 1>>,
    <<"not in flight", CyclesAsExpected(gate)>>,
    <<"unpaid",     Paid >= 1>>>>

(* The gate is read once more behind the join; the Safe is watched until   *)
(* it has risen or the time for it is up.  The deposit timeouts were       *)
(* counted with the sweeps: a later one closes the Session, which the      *)
(* first assertion sees.                                                   *)
Judge ==
  /\ stage = "join" /\ Joined
  /\ \E assertions \in {Assertions} :
       \/ (\A i \in DOMAIN assertions : assertions[i][2]) /\ Ends("pass")
       \/ \E i \in DOMAIN assertions :
            /\ ~assertions[i][2] /\ \A j \in 1 .. i - 1 : assertions[j][2]
            /\ Ends(assertions[i][1])

(* Before the join or behind it, a scrape of the Exit or a balance fails. *)
Errs == (stage = "baseline" \/ (stage = "join" /\ Joined)) /\ Ends("error")

-----------------------------------------------------------------------------
(* The stream (external) *)

Live == stage \notin {"install", "baseline", "over"} /\ ~closed

InFlight == Live /\ key[1] = "none"

(* A written chunk carries a SURB with the next share.  The planner avoids *)
(* the dead relayer once it re-planned; a forward path over it loses the   *)
(* chunk.  Past the target the store gives up its oldest SURB.             *)
Mint ==
  /\ InFlight /\ writer = "writing"
  /\ emitted < Emission /\ (dead = {} => emitted < MaxEarly)
  /\ emitted' = emitted + 1
  /\ \E path \in Paths :
       /\ ~Alive(path) => wipes = 0 /\ blind < MaxBlind
       /\ blind' = blind + IF Alive(path) THEN 0 ELSE 1
       /\ \/ /\ Len(store) < SurbBufferTarget(knobs)
             /\ store' = Append(store, <<emitted, path>>) /\ UNCHANGED <<lost, evicted>>
          \/ /\ Len(store) = SurbBufferTarget(knobs) /\ store # <<>> /\ evicted < MaxEvictions
             /\ store' = Append(Tail(store), <<emitted, path>>)
             /\ lost' = lost \cup {Head(store)[1]} /\ evicted' = evicted + 1
          \/ /\ topology.forward > 0 /\ ~Alive(path)
             /\ lost' = lost \cup {emitted} /\ UNCHANGED <<store, evicted>>
  /\ UNCHANGED <<runVars, stage, verdict, sampleVars, base, claim, wipes, relayVars, cycleVars, trafficVars>>

(* A reply spends the oldest SURB, over its path's relayers. *)
Spend ==
  /\ InFlight /\ store # <<>>
  /\ store' = Tail(store)
  /\ IF Alive(Head(store)[2])
     THEN /\ lost' = lost
          /\ carried' = [r \in Relays |-> carried[r] +
                           IF dead = {} /\ \E i \in DOMAIN Head(store)[2] : Head(store)[2][i] = r
                           THEN 1 ELSE 0]
     ELSE lost' = lost \cup {Head(store)[1]} /\ carried' = carried
  /\ UNCHANGED <<runVars, stage, verdict, sampleVars, base, claim, emitted, evicted, wipes,
                 blind, dead, cycleVars, trafficVars>>

(* The Entry re-plans and advances the generation; the first SURB of the   *)
(* new one clears the Exit's whole store.                                  *)
Wipe ==
  /\ InFlight /\ dead # {} /\ wipes < MaxWipes
  /\ wipes' = wipes + 1 /\ store' = <<>> /\ lost' = lost \cup Stored
  /\ UNCHANGED <<runVars, stage, verdict, sampleVars, base, claim, emitted, evicted, blind, relayVars,
                 cycleVars, trafficVars>>

-----------------------------------------------------------------------------
(* The cycles (external) *)

(* The first cycle is decided: its shares are followed no further. *)
Decided(how) ==
  /\ key' = [key EXCEPT ![1] = how]
  /\ emitted' = 0 /\ store' = <<>> /\ lost' = {} /\ wipes' = 0 /\ blind' = 0 /\ evicted' = evicted

Keep == UNCHANGED <<runVars, stage, verdict, sampleVars, base, claim, relayVars, trafficVars>>

(* The deposit arrives in time, or does not. *)
Deposited(c) ==
  /\ Live /\ funding[c] = "asked"
  /\ \/ /\ Pays(EntryConfig(knobs), EntryDimensions(knobs))
        /\ funding' = [funding EXCEPT ![c] = "funded"] /\ closed' = closed
     \/ funding' = [funding EXCEPT ![c] = "timeout"] /\ closed' = TRUE
  /\ UNCHANGED <<key, sweep, streamVars>> /\ Keep

(* Past the early-recovery threshold of the cycle before it, or when that  *)
(* one failed, the next cycle is asked for.                                *)
Asks(c) ==
  /\ Live /\ c > 1 /\ funding[c] = "none" /\ funding[c - 1] # "none"
  /\ \/ key[c - 1] # "none"
     \/ c = 2 /\ Cardinality(Delivered) * 100 >= 85 * Emission
  /\ funding' = [funding EXCEPT ![c] = "asked"]
  /\ UNCHANGED <<key, sweep, closed, streamVars>> /\ Keep

(* The key of the first cycle is the sum of all its polynomials'. *)
RecoversFirst ==
  /\ InFlight /\ Reconstructed /\ Decided("recovered")
  /\ UNCHANGED <<funding, sweep, closed>> /\ Keep

(* No share comes any more: the cycle fails.  The Session closes with it,  *)
(* or a successor takes over.                                              *)
RecoveryIdle ==
  /\ InFlight /\ store = <<>> /\ ~Reconstructed
  /\ emitted = Emission \/ writer # "writing"
  /\ Decided("failed") /\ closed' \in BOOLEAN
  /\ UNCHANGED <<funding, sweep>> /\ Keep

(* The shares of a successor are not followed. *)
Recovers(c) ==
  /\ Live /\ c > 1 /\ funding[c] # "none" /\ key[c] = "none" /\ key[c - 1] # "none"
  /\ key' = [key EXCEPT ![c] = "recovered"]
  /\ UNCHANGED <<funding, sweep, closed, streamVars>> /\ Keep

(* What is recovered is swept, paid if its deposit is there. *)
SweepsKey(c) ==
  /\ stage \notin {"install", "baseline", "over"}
  /\ key[c] = "recovered" /\ sweep[c] = "no"
  /\ sweep' = [sweep EXCEPT ![c] = IF funding[c] = "funded" THEN "paid" ELSE "empty"]
  /\ UNCHANGED <<funding, key, closed, streamVars>> /\ Keep

Over == stage = "over" /\ UNCHANGED vars

-----------------------------------------------------------------------------
Test ==
  \/ DriverFails \/ Errs
  \/ Open \/ Baseline \/ Sampled \/ WarmedUp \/ Kill \/ SweepsAwaited
  \/ JoinedFailed \/ Judge
  \/ \E r \in Relays : Scraped(r)

Network ==
  \/ Mint \/ Spend \/ Wipe \/ RecoversFirst \/ RecoveryIdle
  \/ \E c \in Cycles : Deposited(c) \/ Asks(c) \/ Recovers(c) \/ SweepsKey(c)

Next == Test \/ WriterStops \/ WriterTroubles \/ ReaderStops \/ Network \/ Over

(* Every step of the test has a deadline or a timeout of its own. *)
Fairness == WF_vars(Test) /\ WF_vars(WriterStops) /\ WF_vars(ReaderStops)

Spec == Init /\ [][Next]_vars /\ Fairness

-----------------------------------------------------------------------------
(* Properties *)

(* Whatever the environment asks for, the profile is never what ends a     *)
(* scenario: the nodes start on it, the Session is admitted and a deposit  *)
(* is never over the ceiling.                                              *)
NeverRefused ==
  /\ verdict \notin {"not started", "refused"}
  /\ stage # "install" => Pays(EntryConfig(knobs), EntryDimensions(knobs))

(* The design rule: losses that lie within one run of window x surplus     *)
(* shares starve no polynomial, when the window divides the polynomials.   *)
BurstSurvived ==
  /\ Polys(knobs) % Window = 0
  /\ \E first \in 0 .. Emission : lost \subseteq first .. first + ToleratedBurst(knobs) - 1
  => ~Starved

(* The scenario passes only if a relayer was killed and the cycle that was *)
(* in flight then was recovered, swept and paid, no share of it having     *)
(* been lost to a full store: not a successor's recovery in its place.     *)
PassMeansSurvived ==
  verdict = "pass" => /\ dead # {} /\ key[1] = "recovered" /\ sweep[1] = "paid"
                      /\ evicted = 0 /\ ~closed

(* The relayer that is killed carried traffic of this Session, and did not *)
(* carry it alone.                                                         *)
KillRemovesACarrier ==
  [][dead' # dead => /\ \A r \in dead' : carried[r] > 0
                     /\ \E r \in Relays \ dead' : carried[r] > 0]_vars

(* Whatever the network does, the scenario ends: no write, read or wait    *)
(* outlives the driver for ever.                                           *)
ScenarioEnds == <>(stage = "over")
=============================================================================
