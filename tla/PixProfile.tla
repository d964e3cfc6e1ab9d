----------------------------- MODULE PixProfile -----------------------------
(***************************************************************************)
(* The two PIX geometries the scenarios install, relay_loss.rs and         *)
(* shapes.rs: what the environment's knobs make of them, what the Exit and *)
(* the Entry are each configured with, and the loss model the first one is *)
(* sized by.  A knob k holds what the process's environment says, NotSet   *)
(* where it says nothing.  Quotas and amounts are in shares: the bytes a   *)
(* share is priced at and the price are the same factor on both sides.     *)
(***************************************************************************)
EXTENDS Integers

CONSTANTS
  Window,         \* SHARE_EMISSION_WINDOW
  PixPolys,       \* relay_loss::PIX_POLYS
  PixShares,      \* relay_loss::PIX_SHARES
  DefaultSurplus, \* DEFAULT_ADDITIONAL_SHARES
  MinSurplus,     \* MIN_ADDITIONAL_SHARES
  FieldMax,       \* u8::MAX, what the surplus's field holds
  TargetRate      \* TARGET_PACKET_RATE, packets a second

ASSUME ProfileAssumption ==
  /\ {Window, PixPolys, PixShares, TargetRate} \subseteq Nat \ {0}
  /\ {DefaultSurplus, MinSurplus, FieldMax} \subseteq Nat
  /\ MinSurplus <= DefaultSurplus /\ DefaultSurplus <= PixShares /\ PixShares <= FieldMax

NotSet == -1

Settings == Nat \cup {NotSet}

Knobs == [polys : Settings, threshold : Settings, surplus : Settings, rate : Settings,
          buffer : Settings, served : Settings]

(* env_or *)
Or(setting, default) == IF setting = NotSet THEN default ELSE setting

AtLeast(a, b) == IF a >= b THEN a ELSE b

AtMost(a, b) == IF a <= b THEN a ELSE b

CeilDiv(a, b) == (a + b - 1) \div b

-----------------------------------------------------------------------------
(* The relay-loss profile *)

Polys(k) == Or(k.polys, PixPolys)

Shares(k) == Or(k.threshold, PixShares)

TargetPacketRate(k) == AtLeast(Or(k.rate, TargetRate), 1)

MaxSurbsPerSec(k) == 4 * TargetPacketRate(k)

AdditionalShares(k) == AtMost(AtLeast(Or(k.surplus, DefaultSurplus), MinSurplus), FieldMax)

CyclePackets(k) == Polys(k) * (Shares(k) + AdditionalShares(k))

QuotaRangeMin(k) == Polys(k) * (Shares(k) + MinSurplus)

(* Mutant: the window's top is the sweep's and does not follow the surplus. *)
QuotaRangeMaxFixed(k) == Polys(k) * (Shares(k) + Shares(k))

QuotaRangeMax(k) == Polys(k) * (Shares(k) + AtLeast(AdditionalShares(k), Shares(k)))

NominalCycleSecs(k) == CyclePackets(k) \div TargetPacketRate(k)

MaxRecoveryTime(k) == AtLeast(900, 2 * NominalCycleSecs(k))

(* Fill has to finish the widest quota in 0.6 of the recovery time, with   *)
(* five per cent to spare.                                                 *)
FillMaxRate(k) == AtLeast(250, CeilDiv(QuotaRangeMax(k) * 105, MaxRecoveryTime(k) * 60))

SurbBufferTarget(k) == Or(k.buffer, 16 * TargetPacketRate(k))

FreeCredit(k) == Polys(k) * AdditionalShares(k)

MaxServedWithoutProgress(k) ==
  Or(k.served, IF SurbBufferTarget(k) > FreeCredit(k)
               THEN SurbBufferTarget(k) - FreeCredit(k) + TargetPacketRate(k)
               ELSE 2048)

-----------------------------------------------------------------------------
(* The loss model *)

DetectionSecs == 8

ExpectedBurst(surbs, rate) == surbs + (rate * DetectionSecs) \div 2

(* Mutant: the surplus of the whole cycle, not that of one block. *)
ToleratedBurstOfCycle(k) == Polys(k) * AdditionalShares(k)

ToleratedBurst(k) == Window * AdditionalShares(k)

(* required_surplus for a margin of whole numbers *)
RequiredSurplus(surbs, rate, margin) == CeilDiv(margin * ExpectedBurst(surbs, rate), Window)

(* burst_margin >= margin *)
Clears(k, margin) ==
  LET burst == ExpectedBurst(SurbBufferTarget(k), TargetPacketRate(k))
  IN ToleratedBurst(k) >= margin * AtLeast(burst, 1)

-----------------------------------------------------------------------------
(* What the two sides are configured with.  entry_config and               *)
(* entry_dimensions go to the Entry's own process, cluster_pix_yaml to the *)
(* cluster's nodes: of that what an Exit goes by, and not the ceilings by  *)
(* which a node would itself pay.                                          *)

BudgetedCycles == 12

EntryDimensions(k) ==
  [polys |-> Polys(k), threshold |-> Shares(k), surplus |-> AdditionalShares(k)]

(* Both ceilings are priced against the widest quota, so that they do not  *)
(* move with the surplus.                                                  *)
EntryConfig(k) ==
  [maxAllocation |-> 2 * QuotaRangeMax(k),
   maxSpend      |-> BudgetedCycles * CyclePackets(k),
   trackingTime  |-> 40]

ClusterPix(k) ==
  [dimensions   |-> EntryDimensions(k),
   quotaMin     |-> QuotaRangeMin(k),      quotaMax   |-> QuotaRangeMax(k),
   delivery     |-> 20,                    deposit    |-> 30,
   recovery     |-> MaxRecoveryTime(k),    served     |-> MaxServedWithoutProgress(k),
   fill         |-> TRUE,                  fillRate   |-> FillMaxRate(k)]

SurbBalancer(k) == [target |-> SurbBufferTarget(k), rate |-> MaxSurbsPerSec(k)]

-----------------------------------------------------------------------------
(* The traffic-shape profile: one geometry, three knobs. *)

ShapeDimensions == [polys |-> 1024, threshold |-> 32, surplus |-> 8]

ShapeCycle == 1024 * (32 + 8)

ShapeRate == 150

ShapeBuffer(k) == Or(k.buffer, 16 * ShapeRate)

ShapeFreeCredit == 1024 * 8

ShapeMaxServed(k) ==
  Or(k.served, IF ShapeBuffer(k) > ShapeFreeCredit
               THEN ShapeBuffer(k) - ShapeFreeCredit + ShapeRate
               ELSE 2048)

ShapeClusterPix(k, fill) ==
  [dimensions   |-> ShapeDimensions,
   quotaMin     |-> 29000,           quotaMax   |-> 48000,
   delivery     |-> 20,              deposit    |-> 30,
   recovery     |-> 900,             served     |-> ShapeMaxServed(k),
   fill         |-> fill,            fillRate   |-> 250]

ShapeEntryConfig ==
  [maxAllocation |-> 2 * ShapeCycle, maxSpend |-> BudgetedCycles * ShapeCycle, trackingTime |-> 40]

ShapeSurbBalancer(k) == [target |-> ShapeBuffer(k), rate |-> 4 * ShapeRate]

-----------------------------------------------------------------------------
(* What the nodes make of it (external) *)

Quota(d) == d.polys * (d.threshold + d.surplus)

(* The fastest a Session is taken to carry, packets a second. *)
AssumedRate == 5000

(* validate_incoming_session_pix_config: fill, as far as a Session carries *)
(* it, or without it a Session at full rate finishes the widest quota in   *)
(* time.                                                                   *)
Starts(exit) ==
  IF exit.fill THEN AtMost(exit.fillRate, AssumedRate) * exit.recovery * 60 >= 105 * exit.quotaMax
  ELSE exit.recovery >= CeilDiv(exit.quotaMax, AssumedRate)

Admits(exit, dimensions) == Quota(dimensions) \in exit.quotaMin .. exit.quotaMax

(* The Entry deposits one cycle's price unless that is over the ceiling.   *)
Pays(entry, dimensions) == Quota(dimensions) <= entry.maxAllocation

(* It polls for the deposit's arrival for less time than the Exit waits.   *)
Tracks(entry, exit) == entry.trackingTime < exit.delivery + exit.deposit

(* A recovered cycle's queue drains without the egress gate closing: what  *)
(* the credit does not cover is served without progress.                   *)
Drains(buffer, credit, exit) == buffer <= credit + exit.served

(* The build's own assertions: a cycle outlasts three deposit round trips  *)
(* and twice the SURB pipeline, the deadline covers the widest quota and   *)
(* the one offered is in the window.                                       *)
ShapeGuards ==
  /\ ShapeCycle >= 3 * 30 * ShapeRate /\ ShapeCycle >= 2 * 16 * ShapeRate
  /\ 900 >= CeilDiv(48000, AssumedRate)
  /\ ShapeCycle \in 29000 .. 48000
=============================================================================
