--------------------------- MODULE RelayLossProofs ---------------------------
(***************************************************************************)
(* The relay-loss scenario for every profile, topology, window and bound:  *)
(* the profile never refuses a run, losses within the tolerated burst      *)
(* starve no polynomial, the relayer killed is one that carried, and a     *)
(* pass means that the cycle in flight survived it.                        *)
(***************************************************************************)
EXTENDS RelayLoss, FiniteSetTheorems, TLAPS

-----------------------------------------------------------------------------
(* The profile: what relay_loss.rs derives for the cluster and for the     *)
(* Entry, each on its own, agrees, for every setting of its knobs.         *)

(* Multiplying by a natural number keeps the order. *)
LEMMA Monotone ==
  ASSUME NEW a \in Nat, NEW b \in Nat, NEW c \in Nat, b <= c
  PROVE  a * b \in Nat /\ a * b <= a * c
  BY Z3

(* What is rounded up covers what was divided. *)
LEMMA CeilCovers ==
  ASSUME NEW a \in Nat, NEW b \in Nat \ {0}
  PROVE  CeilDiv(a, b) \in Nat /\ CeilDiv(a, b) * b >= a
  BY Z3 DEF CeilDiv

(* The settings are the environment's or the defaults, and the surplus is  *)
(* never below the least one.                                              *)
LEMMA SettingsType ==
  ASSUME NEW k \in Knobs
  PROVE  /\ Polys(k) \in Nat /\ Shares(k) \in Nat
         /\ AdditionalShares(k) \in Nat /\ AdditionalShares(k) >= MinSurplus
         /\ TargetPacketRate(k) \in Nat \ {0}
         /\ k.buffer # NotSet => k.buffer \in Nat
  BY ProfileAssumption
  DEF Knobs, Settings, Polys, Shares, AdditionalShares, TargetPacketRate, Or, NotSet, AtLeast, AtMost

(* The ends of the quota window are ordered around the quota offered. *)
LEMMA WindowAroundQuota ==
  ASSUME NEW k \in Knobs
  PROVE  /\ CyclePackets(k) \in Nat /\ QuotaRangeMin(k) \in Nat /\ QuotaRangeMax(k) \in Nat
         /\ QuotaRangeMin(k) <= CyclePackets(k) /\ CyclePackets(k) <= QuotaRangeMax(k)
<1>1. /\ Polys(k) \in Nat /\ Shares(k) + MinSurplus \in Nat
      /\ Shares(k) + AdditionalShares(k) \in Nat
      /\ Shares(k) + AtLeast(AdditionalShares(k), Shares(k)) \in Nat
      /\ Shares(k) + MinSurplus <= Shares(k) + AdditionalShares(k)
      /\ Shares(k) + AdditionalShares(k) <= Shares(k) + AtLeast(AdditionalShares(k), Shares(k))
  BY SettingsType, ProfileAssumption DEF AtLeast
<1> QED  BY <1>1, Monotone DEF CyclePackets, QuotaRangeMin, QuotaRangeMax

(* The quota the Entry offers lies in the window the Exit is given         *)
(* (quota_range_min, quota_range_max), also when the surplus exceeds the   *)
(* threshold: the Session is never refused for its geometry.               *)
THEOREM ProfileAdmits ==
  ASSUME NEW k \in Knobs
  PROVE  Admits(ClusterPix(k), EntryDimensions(k))
<1>1. Quota(EntryDimensions(k)) = CyclePackets(k)
  BY DEF Quota, EntryDimensions, CyclePackets
<1>2. ClusterPix(k).quotaMin = QuotaRangeMin(k) /\ ClusterPix(k).quotaMax = QuotaRangeMax(k)
  BY DEF ClusterPix
<1> QED  BY <1>1, <1>2, WindowAroundQuota DEF Admits

(* One cycle's price is never above the Entry's ceiling for a deposit      *)
(* (entry_config's max_ssa_allocation).                                    *)
THEOREM ProfilePays ==
  ASSUME NEW k \in Knobs
  PROVE  Pays(EntryConfig(k), EntryDimensions(k))
<1>1. Quota(EntryDimensions(k)) = CyclePackets(k)
  BY DEF Quota, EntryDimensions, CyclePackets
<1>2. EntryConfig(k).maxAllocation = 2 * QuotaRangeMax(k)
  BY DEF EntryConfig
<1> QED  BY <1>1, <1>2, WindowAroundQuota DEF Pays

(* The Entry gives up on a deposit before the Exit does (the tracking time *)
(* against delivery and deposit deadline).                                 *)
THEOREM ProfileTracks ==
  ASSUME NEW k \in Knobs
  PROVE  Tracks(EntryConfig(k), ClusterPix(k))
  BY DEF Tracks, EntryConfig, ClusterPix

(* The recovery deadline and the fill rate are derived from the widest     *)
(* quota, and together they always finish it in time: the nodes start      *)
(* unless the rate that needs is faster than a Session is taken to carry.  *)
THEOREM ProfileStarts ==
  ASSUME NEW k \in Knobs, FillMaxRate(k) <= AssumedRate
  PROVE  Starts(ClusterPix(k))
<1> DEFINE top == QuotaRangeMax(k) * 105
           fit == MaxRecoveryTime(k) * 60
<1>1. MaxRecoveryTime(k) \in Nat \ {0}
  <2>1. NominalCycleSecs(k) \in Nat
    <3>1. CyclePackets(k) \in Nat /\ TargetPacketRate(k) \in Nat \ {0}
      BY WindowAroundQuota, SettingsType
    <3> QED  BY <3>1, Z3 DEF NominalCycleSecs
  <2> QED  BY <2>1 DEF MaxRecoveryTime, AtLeast
<1>2. top \in Nat /\ fit \in Nat \ {0}
  BY <1>1, WindowAroundQuota
<1>3. CeilDiv(top, fit) \in Nat /\ CeilDiv(top, fit) * fit >= top
  BY <1>2, CeilCovers
<1>4. FillMaxRate(k) \in Nat /\ CeilDiv(top, fit) <= FillMaxRate(k)
  BY <1>3 DEF FillMaxRate, AtLeast
<1>5. fit * CeilDiv(top, fit) <= fit * FillMaxRate(k)
  BY <1>2, <1>3, <1>4, Monotone
<1>6. FillMaxRate(k) * fit >= top
  BY <1>2, <1>3, <1>4, <1>5
<1>7. /\ ClusterPix(k).fill = TRUE /\ ClusterPix(k).fillRate = FillMaxRate(k)
      /\ ClusterPix(k).recovery = MaxRecoveryTime(k) /\ ClusterPix(k).quotaMax = QuotaRangeMax(k)
  BY DEF ClusterPix
<1>8. AtMost(FillMaxRate(k), AssumedRate) = FillMaxRate(k)
  BY DEF AtMost
<1> QED
  <2>1. FillMaxRate(k) * MaxRecoveryTime(k) * 60 >= 105 * QuotaRangeMax(k)
    BY <1>1, <1>4, <1>6, WindowAroundQuota
  <2> QED  BY <2>1, <1>7, <1>8 DEF Starts

(* Whatever buffer is asked for, a recovered cycle's queue drains: what    *)
(* the free credit does not cover is covered by max_served, unless that is *)
(* overridden.                                                             *)
THEOREM ProfileDrains ==
  ASSUME NEW k \in Knobs, k.served = NotSet
  PROVE  Drains(SurbBalancer(k).target, FreeCredit(k), ClusterPix(k))
<1>1. FreeCredit(k) \in Nat
  BY SettingsType DEF FreeCredit
<1>2. SurbBufferTarget(k) \in Nat /\ TargetPacketRate(k) \in Nat
  BY SettingsType DEF SurbBufferTarget, Or
<1>3. SurbBufferTarget(k) <= FreeCredit(k) + MaxServedWithoutProgress(k)
  BY <1>1, <1>2 DEF MaxServedWithoutProgress, Or
<1>4. ClusterPix(k).served = MaxServedWithoutProgress(k)
  BY DEF ClusterPix
<1>5. SurbBalancer(k).target = SurbBufferTarget(k)
  BY DEF SurbBalancer
<1> QED  BY <1>3, <1>4, <1>5 DEF Drains

-----------------------------------------------------------------------------
(* The burst rule *)

(* n is q blocks of w and a rest. *)
LEMMA Division ==
  ASSUME NEW n \in Nat, NEW w \in Nat \ {0}
  PROVE  /\ n \div w \in Nat /\ n % w \in 0 .. w - 1
         /\ n = (n \div w) * w + (n % w)
  BY Z3

(* What is a number of whole blocks away leaves the same rest. *)
LEMMA SameRest ==
  ASSUME NEW w \in Nat \ {0}, NEW r \in Nat, NEW q \in Nat
  PROVE  (q * w + r) % w = r % w
<1>1. /\ (r \div w) \in Nat /\ r % w \in 0 .. w - 1
      /\ r = (r \div w) * w + (r % w)
  BY Division
<1>2. q * w + r = (q + (r \div w)) * w + (r % w)
  BY <1>1, Z3
<1>3. /\ q * w + r \in Nat /\ (q * w + r) \div w \in Nat /\ (q * w + r) % w \in 0 .. w - 1
      /\ q * w + r = ((q * w + r) \div w) * w + ((q * w + r) % w)
  <2>1. q * w + r \in Nat
    BY Z3
  <2> QED  BY <2>1, Division
<1>4. ASSUME NEW a \in Nat, NEW b \in Nat, NEW x \in 0 .. w - 1, NEW y \in 0 .. w - 1,
             a * w + x = b * w + y
      PROVE  x = y
  <2>1. CASE a = b
    BY <2>1, <1>4, Z3
  <2>2. CASE a < b
    <3>1. w * (a + 1) <= w * b
      BY <2>2, Monotone
    <3> QED  BY <3>1, <1>4, Z3
  <2>3. CASE b < a
    <3>1. w * (b + 1) <= w * a
      BY <2>3, Monotone
    <3> QED  BY <3>1, <1>4, Z3
  <2> QED  BY <2>1, <2>2, <2>3
<1> QED
  <2> DEFINE a == (q * w + r) \div w
             b == q + (r \div w)
             x == (q * w + r) % w
             y == r % w
  <2>1. a \in Nat /\ b \in Nat /\ x \in 0 .. w - 1 /\ y \in 0 .. w - 1
    BY <1>1, <1>3
  <2>2. a * w + x = b * w + y
    BY <1>2, <1>3
  <2> HIDE DEF a, b, x, y
  <2>3. x = y
    BY <2>1, <2>2, <1>4
  <2> QED  BY <2>3 DEF x, y

(* Fewer than w, a number is its own rest. *)
LEMMA OwnRest ==
  ASSUME NEW w \in Nat \ {0}, NEW r \in 0 .. w - 1
  PROVE  r % w = r /\ r \div w = 0
  BY Z3

(* An order of products of a positive number is one of the other factors. *)
LEMMA Cancel ==
  ASSUME NEW w \in Nat \ {0}, NEW a \in Int, NEW b \in Int, w * a < w * b
  PROVE  a < b
  BY Z3

(* Of count * w successive numbers at most count leave the same rest. *)
LEMMA RestClass ==
  ASSUME NEW w \in Nat \ {0}, NEW count \in Nat, NEW first \in Nat, NEW c \in 0 .. w - 1,
         NEW S, S \subseteq {n \in first .. first + w * count - 1 : n % w = c}
  PROVE  IsFiniteSet(S) /\ Cardinality(S) <= count
<1> DEFINE least == (first - c + (w - 1)) \div w
           places == least .. least + count - 1
           f == [n \in S |-> n \div w]
<1>1. first - c + (w - 1) \in Nat
  OBVIOUS
<1>2. least \in Nat /\ w * least < first - c + w /\ first - c <= w * least
  <2>1. /\ least \in Nat
        /\ first - c + (w - 1) = least * w + ((first - c + (w - 1)) % w)
        /\ (first - c + (w - 1)) % w \in 0 .. w - 1
    BY <1>1, Division
  <2>2. least * w = w * least
    BY <2>1, Z3
  <2> QED
    <3> DEFINE r == (first - c + (w - 1)) % w
    <3> HIDE DEF least, r
    <3> QED  BY <2>1, <2>2, Z3 DEF r
<1> HIDE DEF least
<1>3. ASSUME NEW n \in S
      PROVE  n \div w \in places /\ n = w * (n \div w) + c
  <2> DEFINE q == n \div w
  <2>1. n \in Nat /\ first <= n /\ n <= first + w * count - 1 /\ n % w = c
    <3>1. w * count \in Nat
      BY Z3
    <3> QED  BY <3>1, <1>3
  <2>2. q \in Nat /\ n = w * q + c
    <3>1. q \in Nat /\ n = q * w + c
      BY <2>1, Division
    <3> QED  BY <3>1, Z3
  <2> HIDE DEF q
  <2>3. w * (least - 1) < w * q
    <3>1. w * (least - 1) = w * least - w
      BY <1>2, Z3
    <3>2. w * least \in Int /\ w * q \in Int
      BY <1>2, <2>2, Z3
    <3> QED  BY <3>1, <3>2, <1>2, <2>1, <2>2
  <2>4. w * q < w * (least + count)
    <3>1. w * (least + count) = w * least + w * count
      BY <1>2, Z3
    <3>2. w * least \in Int /\ w * q \in Int /\ w * count \in Int
      BY <1>2, <2>2, Z3
    <3> QED  BY <3>1, <3>2, <1>2, <2>1, <2>2
  <2>5. least - 1 < q /\ q < least + count
    <3>1. least - 1 \in Int /\ least + count \in Int /\ q \in Int
      BY <1>2, <2>2
    <3> QED  BY <3>1, <2>3, <2>4, Cancel
  <2>6. q \in places
    BY <1>2, <2>2, <2>5
  <2> QED  BY <2>2, <2>6 DEF q
<1>4. f \in Injection(S, places)
  <2>1. f \in [S -> places]
    BY <1>3
  <2>2. ASSUME NEW m \in S, NEW n \in S, f[m] = f[n]
        PROVE  m = n
    <3>1. m \div w = n \div w
      BY <2>2
    <3>2. m = w * (m \div w) + c /\ n = w * (n \div w) + c
      BY <1>3
    <3> QED  BY <3>1, <3>2
  <2> QED  BY <2>1, <2>2 DEF Injection, IsInjective
<1>5. IsFiniteSet(places) /\ Cardinality(places) = count
  <2>1. least \in Int /\ least + count - 1 \in Int
    BY <1>2
  <2> QED  BY <2>1, <1>2, FS_Interval
<1> QED
  <2> HIDE DEF f, places
  <2> QED  BY <1>4, <1>5, FS_Injection

(* The settings of the run, as the shares depend on them. *)
LEMMA RunSettings ==
  ASSUME knobs \in Knobs
  PROVE  /\ Window \in Nat \ {0} /\ Polys(knobs) \in Nat
         /\ AdditionalShares(knobs) \in Nat /\ PerPoly \in Nat
         /\ Emission = Polys(knobs) * PerPoly /\ Emission \in Nat
         /\ ToleratedBurst(knobs) = Window * AdditionalShares(knobs)
<1>1. /\ Polys(knobs) \in Nat /\ AdditionalShares(knobs) \in Nat /\ PerPoly \in Nat
  BY SettingsType DEF PerPoly
<1>2. Polys(knobs) * PerPoly \in Nat
  BY <1>1, Z3
<1> QED  BY <1>1, <1>2, ProfileAssumption DEF Emission, CyclePackets, PerPoly, ToleratedBurst

(* The emission order visits the polynomials of a block in turn, so a      *)
(* share and its polynomial leave the same rest by the window.             *)
LEMMA PolyRest ==
  ASSUME knobs \in Knobs, Polys(knobs) % Window = 0, NEW n \in 0 .. Emission - 1
  PROVE  PolyOf(n) % Window = n % Window
<1> DEFINE w == Window
           per == PerPoly
           polys == Polys(knobs)
           blocks == polys \div w
           whole == w * per
           block == n \div whole
           r == n % whole
<1>1. /\ w \in Nat \ {0} /\ per \in Nat /\ polys \in Nat /\ n \in Nat
      /\ polys % w = 0 /\ n < polys * per
  BY RunSettings
<1>2. PolyOf(n) = block * w + ((n - block * w * per) % AtMost(w, polys - block * w))
  BY DEF PolyOf
<1> HIDE DEF w, per, polys
<1>3. blocks \in Nat /\ polys = blocks * w
  <2>1. blocks \in Nat /\ polys = blocks * w + (polys % w)
    BY <1>1, Division
  <2>2. blocks * w \in Nat
    BY <1>1, <2>1, Z3
  <2> QED  BY <1>1, <2>1, <2>2
<1> HIDE DEF blocks
<1>4. whole \in Nat \ {0}
  <2>1. per # 0
    <3>1. per = 0 => polys * per = 0
      BY <1>1, Z3
    <3> QED  BY <3>1, <1>1
  <2> QED  BY <2>1, <1>1, Z3
<1>5. block \in Nat /\ r \in 0 .. whole - 1 /\ n = block * whole + r
  BY <1>1, <1>4, Division
<1>6. n = (block * per) * w + r /\ n - block * w * per = r /\ block * per \in Nat
  <2> HIDE DEF block, r
  <2>1. block * whole = (block * per) * w /\ block * whole = block * w * per
    BY <1>1, <1>5, Z3
  <2>2. block * whole \in Nat /\ block * per \in Nat
    BY <1>1, <1>4, <1>5, Z3
  <2> HIDE DEF whole
  <2> QED  BY <1>5, <2>1, <2>2
<1>7. AtMost(w, polys - block * w) = w
  <2> HIDE DEF block, r
  <2>1. polys * per = whole * blocks
    BY <1>1, <1>3, Z3
  <2>2. whole * block < whole * blocks
    <3>1. whole * block = block * whole /\ whole * block \in Nat
      BY <1>4, <1>5, Z3
    <3> HIDE DEF whole
    <3>2. r >= 0
      BY <1>5, <1>4
    <3> QED  BY <1>1, <1>4, <1>5, <2>1, <3>1, <3>2
  <2>3. block + 1 <= blocks
    <3> HIDE DEF whole
    <3> QED  BY <1>3, <1>4, <1>5, <2>2, Cancel
  <2>4. w * (block + 1) <= w * blocks
    BY <1>1, <1>3, <1>5, <2>3, Monotone
  <2>5. polys - block * w >= w /\ polys - block * w \in Int
    BY <1>1, <1>3, <1>5, <2>4, Z3
  <2> QED  BY <1>1, <2>5 DEF AtMost
<1>8. PolyOf(n) = block * w + (r % w)
  BY <1>2, <1>6, <1>7
<1> HIDE DEF block
<1>9. r \in Nat
  BY <1>4, <1>5
<1> HIDE DEF r, whole
<1>10. r % w \in 0 .. w - 1 /\ r % w \in Nat
  BY <1>1, <1>9, Division
<1>11. (block * w + (r % w)) % w = r % w
  <2>1. (block * w + (r % w)) % w = (r % w) % w
    BY <1>1, <1>5, <1>10, SameRest
  <2>2. (r % w) % w = r % w
    BY <1>1, <1>10, OwnRest
  <2> QED  BY <2>1, <2>2
<1>12. n % w = r % w
  BY <1>1, <1>6, <1>9, SameRest
<1>13. PolyOf(n) % w = n % w
  BY <1>8, <1>11, <1>12
<1> QED  BY <1>13 DEF w

-----------------------------------------------------------------------------
(* What the steps keep *)

RunInv == \E run \in Runs : knobs = run.knobs /\ topology = run.topology

(* Every share lost or held is one of the first cycle's. *)
ShareInv ==
  /\ emitted \in 0 .. Emission
  /\ store \in Seq((0 .. Emission - 1) \X Paths)
  /\ lost \subseteq 0 .. Emission - 1

(* A reading of the first sample is at least the node's past, and one of   *)
(* the second at most that and what it carried for the Session.            *)
SampleInv ==
  /\ carried \in [Relays -> Nat] /\ unasked \subseteq Relays
  /\ DOMAIN before \subseteq Relays /\ DOMAIN after \subseteq Relays
  /\ \A r \in DOMAIN before : before[r] \in Nat /\ before[r] >= Lifetime[r]
  /\ \A r \in DOMAIN after : after[r] \in Nat /\ after[r] <= Lifetime[r] + carried[r]

(* A run has knobs and a topology, and its relayers have a past. *)
LEMMA RunType ==
  ASSUME RunInv
  PROVE  /\ knobs \in Knobs
         /\ topology.forward \in Nat /\ topology.return \in 1 .. topology.relays
         /\ \A r \in Relays : Lifetime[r] \in Nat
  BY ScenarioAssumption DEF RunInv, Relays

(* The end of a scenario leaves nothing behind. *)
LEMMA EndsKeep ==
  ASSUME RunInv, ShareInv, SampleInv, NEW how, Ends(how)
  PROVE  ShareInv' /\ SampleInv'
<1>1. knobs' = knobs /\ topology' = topology
  BY DEF Ends, runVars
<1>2. Emission' = Emission /\ Paths' = Paths /\ Relays' = Relays
  BY <1>1 DEF Emission, Paths, Relays
<1>3. Emission \in Nat
  BY RunType, RunSettings
<1>4. ShareInv'
  BY <1>2, <1>3 DEF ShareInv, Ends
<1>5. SampleInv'
  BY <1>2 DEF SampleInv, Ends
<1> QED  BY <1>4, <1>5

(* No step changes what run it is. *)
LEMMA RunStep ==
  ASSUME RunInv, [Next]_vars
  PROVE  RunInv' /\ knobs' = knobs /\ topology' = topology
<1>1. knobs' = knobs /\ topology' = topology
  <2>1. CASE Test
    BY <2>1 DEF Test, DriverFails, Errs, Open, Baseline, Sampled, WarmedUp, Kill, SweepsAwaited,
                JoinedFailed, Judge, Scraped, Ends, runVars
  <2>2. CASE WriterStops \/ WriterTroubles \/ ReaderStops
    BY <2>2 DEF WriterStops, WriterTroubles, ReaderStops, runVars
  <2>3. CASE Network
    BY <2>3 DEF Network, Mint, Spend, Wipe, RecoversFirst, RecoveryIdle, Deposited, Asks,
                Recovers, SweepsKey, Keep, runVars
  <2>4. CASE Over \/ UNCHANGED vars
    BY <2>4 DEF Over, vars, runVars
  <2> QED  BY <2>1, <2>2, <2>3, <2>4 DEF Next
<1> QED  BY <1>1 DEF RunInv

(* What is minted joins the store or is lost, what is spent leaves it.     *)
LEMMA ShareStep ==
  ASSUME RunInv, ShareInv, SampleInv, [Next]_vars
  PROVE  ShareInv'
<1>1. Emission' = Emission /\ Paths' = Paths
  BY RunStep DEF Emission, Paths, Relays
<1>2. Emission \in Nat
  BY RunType, RunSettings
<1> DEFINE Shared == (0 .. Emission - 1) \X Paths
<1>3. CASE UNCHANGED <<emitted, store, lost>>
  BY <1>1, <1>3 DEF ShareInv
<1>4. CASE emitted' = 0 /\ store' = <<>> /\ lost' = {}
  BY <1>1, <1>2, <1>4 DEF ShareInv
<1>5. ASSUME NEW how, Ends(how)
      PROVE  ShareInv'
  BY <1>5, EndsKeep
<1>6. CASE Mint
  <2>1. emitted' = emitted + 1 /\ emitted \in 0 .. Emission - 1
    BY <1>2, <1>6 DEF Mint, ShareInv
  <2>2. PICK path \in Paths :
          \/ store' = Append(store, <<emitted, path>>) /\ lost' = lost
          \/ /\ store # <<>>
             /\ store' = Append(Tail(store), <<emitted, path>>)
             /\ lost' = lost \cup {Head(store)[1]}
          \/ lost' = lost \cup {emitted} /\ store' = store
    BY <1>6 DEF Mint
  <2>3. <<emitted, path>> \in Shared
    BY <2>1
  <2>4. CASE store' = Append(store, <<emitted, path>>) /\ lost' = lost
    BY <1>1, <1>2, <2>1, <2>3, <2>4 DEF ShareInv
  <2>5. CASE lost' = lost \cup {emitted} /\ store' = store
    BY <1>1, <1>2, <2>1, <2>5 DEF ShareInv
  <2>6. CASE /\ store' = Append(Tail(store), <<emitted, path>>)
             /\ lost' = lost \cup {Head(store)[1]} /\ store # <<>>
    <3>1. Tail(store) \in Seq(Shared) /\ Head(store) \in Shared
      BY <2>6 DEF ShareInv
    <3>2. Append(Tail(store), <<emitted, path>>) \in Seq(Shared)
      BY <2>3, <3>1
    <3>3. Head(store)[1] \in 0 .. Emission - 1
      BY <3>1
    <3>4. lost' \subseteq 0 .. Emission - 1
      BY <2>6, <3>3 DEF ShareInv
    <3>5. store' \in Seq(Shared)
      BY <2>6, <3>2
    <3>6. emitted' \in 0 .. Emission
      BY <1>2, <2>1
    <3> QED  BY <1>1, <3>4, <3>5, <3>6 DEF ShareInv
  <2> QED
    BY <2>2, <2>4, <2>5, <2>6
<1>7. CASE Spend
  <2>1. store # <<>> /\ store' = Tail(store) /\ emitted' = emitted
        /\ (lost' = lost \/ lost' = lost \cup {Head(store)[1]})
    BY <1>7 DEF Spend
  <2>2. Tail(store) \in Seq(Shared) /\ Head(store) \in Shared
    BY <2>1 DEF ShareInv
  <2> QED  BY <1>1, <2>1, <2>2 DEF ShareInv
<1>8. CASE Wipe
  <2>1. store' = <<>> /\ lost' = lost \cup Stored /\ emitted' = emitted
    BY <1>8 DEF Wipe
  <2>2. Stored \subseteq 0 .. Emission - 1
    BY DEF Stored, ShareInv
  <2> QED  BY <1>1, <2>1, <2>2 DEF ShareInv
<1>9. CASE Test
  <2>1. CASE Open
    BY <1>3, <1>5, <2>1 DEF Open, streamVars
  <2>2. CASE Judge
    BY <1>5, <2>2 DEF Judge
  <2>3. CASE Errs \/ JoinedFailed
    BY <1>5, <2>3 DEF Errs, JoinedFailed
  <2>4. CASE DriverFails \/ Baseline \/ Sampled \/ WarmedUp \/ Kill \/ SweepsAwaited
             \/ \E r \in Relays : Scraped(r)
    BY <1>3, <2>4 DEF DriverFails, Baseline, Sampled, WarmedUp, Kill, SweepsAwaited, Scraped,
                      streamVars
  <2> QED  BY <1>9, <2>1, <2>2, <2>3, <2>4 DEF Test
<1>10. CASE WriterStops \/ WriterTroubles \/ ReaderStops
  BY <1>3, <1>10 DEF WriterStops, WriterTroubles, ReaderStops, streamVars
<1>11. CASE RecoversFirst \/ RecoveryIdle
  BY <1>4, <1>11 DEF RecoversFirst, RecoveryIdle, Decided
<1>12. CASE \E c \in Cycles : Deposited(c) \/ Asks(c) \/ Recovers(c) \/ SweepsKey(c)
  BY <1>3, <1>12 DEF Deposited, Asks, Recovers, SweepsKey, streamVars
<1>13. CASE Over \/ UNCHANGED vars
  BY <1>3, <1>13 DEF Over, vars, streamVars
<1> QED  BY <1>6, <1>7, <1>8, <1>9, <1>10, <1>11, <1>12, <1>13 DEF Next, Network

(* A sample's reading is taken of what the node has carried so far, which  *)
(* from then on only grows, until the kill forgets samples and traffic.    *)
LEMMA SampleStep ==
  ASSUME RunInv, ShareInv, SampleInv, [Next]_vars
  PROVE  SampleInv'
<1>1. Relays' = Relays
  BY RunStep DEF Relays
<1>2. CASE UNCHANGED <<before, after, unasked, carried>>
  BY <1>1, <1>2 DEF SampleInv
<1>3. ASSUME NEW how, Ends(how)
      PROVE  SampleInv'
  BY <1>3, EndsKeep
<1>4. ASSUME NEW r \in Relays, Scraped(r)
      PROVE  SampleInv'
  <2>1. carried' = carried /\ unasked' = unasked \ {r}
    BY <1>4 DEF Scraped, relayVars
  <2>2. /\ Lifetime[r] \in Nat /\ carried[r] \in Nat
        /\ Lifetime[r] + carried[r] \in Nat /\ Lifetime[r] + carried[r] >= Lifetime[r]
    BY RunType DEF SampleInv
  <2>3. ASSUME NEW sample
        PROVE  /\ DOMAIN Reading(sample, r) = DOMAIN sample \cup {r}
               /\ Reading(sample, r)[r] = Lifetime[r] + carried[r]
               /\ \A q \in DOMAIN sample \ {r} : Reading(sample, r)[q] = sample[q]
    BY DEF Reading
  <2>4. CASE before' = Reading(before, r) /\ after' = after
    BY <1>1, <2>1, <2>2, <2>3, <2>4 DEF SampleInv
  <2>5. CASE after' = Reading(after, r) /\ before' = before
    <3> DEFINE next == Reading(after, r)
    <3>1. /\ DOMAIN next = DOMAIN after \cup {r} /\ next[r] = Lifetime[r] + carried[r]
          /\ \A q \in DOMAIN after \ {r} : next[q] = after[q]
      BY <2>3
    <3>2. after' = next
      BY <2>5
    <3> HIDE DEF next
    <3>3. DOMAIN after' \subseteq Relays
      BY <3>1, <3>2 DEF SampleInv
    <3>4. ASSUME NEW q \in DOMAIN after'
          PROVE  after'[q] \in Nat /\ after'[q] <= Lifetime[q] + carried[q]
      <4>1. CASE q = r
        BY <2>2, <3>1, <3>2, <4>1
      <4>2. CASE q # r
        <5>1. q \in DOMAIN after \ {r} /\ after'[q] = after[q]
          BY <3>1, <3>2, <3>4, <4>2
        <5> QED  BY <5>1 DEF SampleInv
      <4> QED  BY <4>1, <4>2
    <3> QED  BY <1>1, <2>1, <2>5, <3>3, <3>4 DEF SampleInv
  <2>6. CASE UNCHANGED <<before, after>>
    BY <1>1, <2>1, <2>6 DEF SampleInv
  <2> QED  BY <1>4, <2>4, <2>5, <2>6 DEF Scraped
<1>5. CASE Baseline
  BY <1>1, <1>5 DEF Baseline, SampleInv, relayVars
<1>6. CASE WarmedUp
  BY <1>1, <1>6 DEF WarmedUp, SampleInv, relayVars
<1>7. CASE Kill
  <2>1. /\ before' = <<>> /\ after' = <<>> /\ unasked' = unasked
        /\ carried' = [r \in Relays |-> 0]
    BY <1>7 DEF Kill
  <2> QED  BY <1>1, <2>1 DEF SampleInv
<1>8. CASE Spend
  <2>1. before' = before /\ after' = after /\ unasked' = unasked
    BY <1>8 DEF Spend, sampleVars
  <2>2. carried' \in [Relays -> Nat] /\ \A r \in Relays : carried'[r] >= carried[r]
    <3>1. CASE carried' = carried
      BY <3>1 DEF SampleInv
    <3>2. CASE carried' # carried
      <4> DEFINE more(r) == IF dead = {} /\ \E i \in DOMAIN Head(store)[2] : Head(store)[2][i] = r
                            THEN 1 ELSE 0
      <4>1. carried' = [r \in Relays |-> carried[r] + more(r)]
        BY <1>8, <3>2 DEF Spend
      <4>2. \A r \in Relays : more(r) \in Nat
        OBVIOUS
      <4> HIDE DEF more
      <4> QED  BY <4>1, <4>2 DEF SampleInv
    <3> QED  BY <3>1, <3>2
  <2>3. ASSUME NEW r \in DOMAIN after
        PROVE  after[r] <= Lifetime[r] + carried'[r]
    <3>1. r \in Relays /\ after[r] \in Nat /\ after[r] <= Lifetime[r] + carried[r]
      BY DEF SampleInv
    <3> QED  BY <2>2, <3>1, RunType DEF SampleInv
  <2> QED  BY <1>1, <2>1, <2>2, <2>3 DEF SampleInv
<1>9. CASE Test
  <2>1. CASE Open
    BY <1>2, <1>3, <2>1 DEF Open, sampleVars, relayVars
  <2>2. CASE Judge
    BY <1>3, <2>2 DEF Judge
  <2>3. CASE Errs \/ JoinedFailed
    BY <1>3, <2>3 DEF Errs, JoinedFailed
  <2>4. CASE DriverFails \/ Sampled \/ SweepsAwaited
    BY <1>2, <2>4 DEF DriverFails, Sampled, SweepsAwaited, sampleVars, relayVars
  <2> QED  BY <1>4, <1>5, <1>6, <1>7, <1>9, <2>1, <2>2, <2>3, <2>4 DEF Test
<1>10. CASE WriterStops \/ WriterTroubles \/ ReaderStops
  BY <1>2, <1>10 DEF WriterStops, WriterTroubles, ReaderStops, sampleVars, relayVars
<1>11. CASE Mint \/ Wipe
  BY <1>2, <1>11 DEF Mint, Wipe, sampleVars, relayVars
<1>12. CASE RecoversFirst \/ RecoveryIdle
  BY <1>2, <1>12 DEF RecoversFirst, RecoveryIdle, Keep, sampleVars, relayVars
<1>13. CASE \E c \in Cycles : Deposited(c) \/ Asks(c) \/ Recovers(c) \/ SweepsKey(c)
  BY <1>2, <1>13 DEF Deposited, Asks, Recovers, SweepsKey, Keep, sampleVars, relayVars
<1>14. CASE Over \/ UNCHANGED vars
  BY <1>2, <1>14 DEF Over, vars, sampleVars, relayVars
<1> QED  BY <1>8, <1>9, <1>10, <1>11, <1>12, <1>13, <1>14 DEF Next, Network

-----------------------------------------------------------------------------
(* The theorems *)

LossInv == RunInv /\ ShareInv /\ SampleInv

(* LossInv holds of every state of the scenario. *)
THEOREM LossInvariant == Spec => []LossInv
<1>1. Init => LossInv
  <2> SUFFICES ASSUME Init PROVE LossInv
    OBVIOUS
  <2>1. RunInv
    BY DEF Init, RunInv
  <2>2. Emission \in Nat
    BY <2>1, RunType, RunSettings
  <2>3. ShareInv
    BY <2>2 DEF Init, ShareInv
  <2>4. SampleInv
    BY DEF Init, SampleInv
  <2> QED  BY <2>1, <2>3, <2>4 DEF LossInv
<1>2. LossInv /\ [Next]_vars => LossInv'
  BY RunStep, ShareStep, SampleStep DEF LossInv
<1> QED  BY <1>1, <1>2, PTL DEF Spec

(* relay_loss.rs sizes the surplus by window x surplus (tolerated_burst):  *)
(* whatever the window, the geometry and the paths, losses that lie within *)
(* one such run leave every polynomial enough shares.                      *)
THEOREM BurstAlwaysSurvived == Spec => []BurstSurvived
<1>1. LossInv => BurstSurvived
  <2> SUFFICES ASSUME LossInv, Polys(knobs) % Window = 0,
                      NEW first \in 0 .. Emission,
                      lost \subseteq first .. first + ToleratedBurst(knobs) - 1,
                      NEW p \in PolySet
               PROVE  ~(LostOf(p) > AdditionalShares(knobs))
    BY DEF BurstSurvived, Starved
  <2>1. knobs \in Knobs
    BY RunType DEF LossInv
  <2>2. /\ Window \in Nat \ {0} /\ AdditionalShares(knobs) \in Nat /\ Emission \in Nat
        /\ Polys(knobs) \in Nat /\ ToleratedBurst(knobs) = Window * AdditionalShares(knobs)
    BY <2>1, RunSettings
  <2>3. p \in Nat /\ p % Window \in 0 .. Window - 1
    BY <2>2, Division DEF PolySet
  <2> DEFINE own == {n \in lost : PolyOf(n) = p}
  <2>4. own \subseteq {n \in first .. first + Window * AdditionalShares(knobs) - 1 :
                      n % Window = p % Window}
    <3>1. ASSUME NEW n \in own
          PROVE  n % Window = p % Window
      <4>1. n \in 0 .. Emission - 1 /\ PolyOf(n) = p
        BY DEF LossInv, ShareInv
      <4> QED  BY <2>1, <4>1, PolyRest
    <3> QED  BY <2>2, <3>1
  <2>5. first \in Nat
    BY <2>2
  <2>6. IsFiniteSet(own) /\ Cardinality(own) <= AdditionalShares(knobs)
    <3> HIDE DEF own
    <3> QED  BY <2>2, <2>3, <2>4, <2>5, RestClass
  <2>7. Cardinality(own) \in Nat
    BY <2>6, FS_CardinalityType
  <2> QED  BY <2>2, <2>6, <2>7 DEF LostOf
<1> QED  BY <1>1, LossInvariant, PTL

(* Each of six pairs begins with one of their six beginnings. *)
LEMMA SixPairs ==
  ASSUME NEW a, NEW b, NEW c, NEW d, NEW e, NEW f, NEW g, NEW h, NEW i, NEW j, NEW k, NEW l
  PROVE  \A n \in DOMAIN <<<<a, b>>, <<c, d>>, <<e, f>>, <<g, h>>, <<i, j>>, <<k, l>>>> :
           <<<<a, b>>, <<c, d>>, <<e, f>>, <<g, h>>, <<i, j>>, <<k, l>>>>[n][1] \in {a, c, e, g, i, k}
  OBVIOUS

(* Six named checks have their six names, whatever they check. *)
LEMMA SixNames ==
  ASSUME NEW b, NEW d, NEW f, NEW h, NEW j, NEW l, NEW t,
         t = <<<<"closed", b>>, <<"evicted", d>>, <<"timed out", f>>,
               <<"not swept", h>>, <<"not in flight", j>>, <<"unpaid", l>>>>
  PROVE  \A n \in DOMAIN t :
           t[n][1] \in {"closed", "evicted", "timed out", "not swept", "not in flight", "unpaid"}
<1>1. \A n \in DOMAIN <<<<"closed", b>>, <<"evicted", d>>, <<"timed out", f>>,
                        <<"not swept", h>>, <<"not in flight", j>>, <<"unpaid", l>>>> :
        <<<<"closed", b>>, <<"evicted", d>>, <<"timed out", f>>,
          <<"not swept", h>>, <<"not in flight", j>>, <<"unpaid", l>>>>[n][1]
        \in {"closed", "evicted", "timed out", "not swept", "not in flight", "unpaid"}
  BY SixPairs, ZenonT(60)
<1> QED  BY <1>1, Zenon

(* No assertion is named for the profile, or for the pass it is not. *)
LEMMA AssertionNames ==
  \A n \in DOMAIN Assertions : Assertions[n][1] \notin {"not started", "refused", "pass"}
<1>1. PICK b, d, f, h, j, l :
        Assertions = <<<<"closed", b>>, <<"evicted", d>>, <<"timed out", f>>,
                       <<"not swept", h>>, <<"not in flight", j>>, <<"unpaid", l>>>>
  BY Zenon DEF Assertions
<1>2. \A n \in DOMAIN Assertions :
        Assertions[n][1] \in {"closed", "evicted", "timed out", "not swept", "not in flight", "unpaid"}
  BY <1>1, SixNames, Zenon
<1> QED  BY <1>2

(* Provided no run needs a fill rate faster than a Session is taken to     *)
(* carry, no scenario ends because of its own profile.                     *)
THEOREM ProfileNeverRefused ==
  ASSUME \A run \in Runs : FillMaxRate(run.knobs) <= AssumedRate
  PROVE  Spec => []NeverRefused
<1> DEFINE Never == verdict \notin {"not started", "refused"}
<1>1. RunInv => Starts(ClusterPix(knobs)) /\ Admits(ClusterPix(knobs), EntryDimensions(knobs))
                /\ Pays(EntryConfig(knobs), EntryDimensions(knobs))
  BY RunType, ProfileStarts, ProfileAdmits, ProfilePays DEF RunInv
<1>2. Init => Never
  BY DEF Init
<1>3. LossInv /\ Never /\ [Next]_vars => Never'
  <2> SUFFICES ASSUME LossInv, Never, [Next]_vars
               PROVE  Never'
    OBVIOUS
  <2>1. CASE verdict' = verdict
    BY <2>1
  <2>2. CASE Open
    BY <1>1, <2>1, <2>2 DEF LossInv, Open
  <2>3. CASE Judge
    <3>1. PICK how \in {"pass"} \cup {Assertions[i][1] : i \in DOMAIN Assertions} : Ends(how)
      BY <2>3 DEF Judge
    <3>2. how \notin {"not started", "refused"}
      BY <3>1, AssertionNames
    <3> QED  BY <3>1, <3>2 DEF Ends
  <2>4. CASE Errs \/ JoinedFailed
    BY <2>4 DEF Errs, JoinedFailed, Ends
  <2>5. CASE DriverFails \/ Baseline \/ Sampled \/ WarmedUp \/ Kill \/ SweepsAwaited
             \/ \E r \in Relays : Scraped(r)
    BY <2>1, <2>5 DEF DriverFails, Baseline, Sampled, WarmedUp, Kill, SweepsAwaited, Scraped
  <2>6. CASE WriterStops \/ WriterTroubles \/ ReaderStops
    BY <2>1, <2>6 DEF WriterStops, WriterTroubles, ReaderStops
  <2>7. CASE Network
    BY <2>1, <2>7 DEF Network, Mint, Spend, Wipe, RecoversFirst, RecoveryIdle, Deposited, Asks,
                      Recovers, SweepsKey, Keep
  <2>8. CASE Over \/ UNCHANGED vars
    BY <2>1, <2>8 DEF Over, vars
  <2> QED  BY <2>2, <2>3, <2>4, <2>5, <2>6, <2>7, <2>8 DEF Next, Test
<1>4. LossInv /\ Never => NeverRefused
  BY <1>1 DEF LossInv, NeverRefused
<1> QED  BY <1>2, <1>3, <1>4, LossInvariant, PTL DEF Spec

(* A node with progress between the samples has carried for the Session.   *)
LEMMA ProgressIsCarried ==
  ASSUME RunInv, SampleInv, NEW r \in DOMAIN Observed
  PROVE  r \in Relays /\ carried[r] > 0
<1>1. r \in DOMAIN before /\ Progress(before, after, r) > 0
  BY DEF Observed, Spread
<1>2. r \in Relays /\ before[r] \in Nat /\ before[r] >= Lifetime[r]
      /\ carried[r] \in Nat /\ Lifetime[r] \in Nat
  BY <1>1, RunType DEF SampleInv
<1>3. r \in DOMAIN after /\ after[r] > before[r]
  BY <1>1, <1>2 DEF Progress
<1>4. after[r] \in Nat /\ after[r] <= Lifetime[r] + carried[r]
  BY <1>3 DEF SampleInv
<1> QED  BY <1>2, <1>3, <1>4

(* spread and busiest (relayers.rs) name a victim that carried traffic of  *)
(* this Session, whichever scrapes failed and whatever the nodes did       *)
(* before it, and one that did not carry it alone.                         *)
THEOREM KillIsOfACarrier == Spec => KillRemovesACarrier
<1> DEFINE Removes == dead' # dead => /\ \A r \in dead' : carried[r] > 0
                                      /\ \E r \in Relays \ dead' : carried[r] > 0
<1>1. LossInv /\ [Next]_vars => [Removes]_vars
  <2> SUFFICES ASSUME LossInv, Next PROVE Removes
    OBVIOUS
  <2>1. CASE dead' = dead
    BY <2>1
  <2>2. CASE Kill
    <3>1. PICK victim \in Relays : IsBusiest(Observed, victim) /\ dead' = {victim}
      BY <2>2 DEF Kill
    <3> DEFINE Active == ActiveRelayers(Observed, MinShare)
    <3>2. ~(Cardinality(Active) < 2)
      BY <2>2 DEF Kill, Concentrated
    <3>3. victim \in DOMAIN Observed /\ Active \subseteq DOMAIN Observed
      BY <3>1 DEF IsBusiest, ActiveRelayers
    <3>4. DOMAIN Observed \subseteq Relays /\ \A r \in DOMAIN Observed : carried[r] > 0
      BY ProgressIsCarried DEF LossInv
    <3> HIDE DEF Active
    <3>5. ~(Active \subseteq {victim})
      <4>1. IsFiniteSet({victim}) /\ Cardinality({victim}) = 1
        BY FS_Singleton
      <4>2. Active \subseteq {victim} => Cardinality(Active) \in Nat /\ Cardinality(Active) <= 1
        BY <4>1, FS_Subset, FS_CardinalityType
      <4> QED  BY <3>2, <4>2
    <3>6. PICK other \in Active : other # victim
      BY <3>5
    <3> QED  BY <3>1, <3>3, <3>4, <3>6
  <2>3. CASE Test /\ ~Kill
    BY <2>1, <2>3 DEF Test, DriverFails, Errs, Open, Baseline, Sampled, WarmedUp, SweepsAwaited,
                      JoinedFailed, Judge, Scraped, Ends, relayVars
  <2>4. CASE WriterStops \/ WriterTroubles \/ ReaderStops \/ Over
    BY <2>1, <2>4 DEF WriterStops, WriterTroubles, ReaderStops, Over, vars, relayVars
  <2>5. CASE Network
    BY <2>1, <2>5 DEF Network, Mint, Spend, Wipe, RecoversFirst, RecoveryIdle, Deposited, Asks,
                      Recovers, SweepsKey, Keep, relayVars
  <2> QED  BY <2>2, <2>3, <2>4, <2>5 DEF Next
<1> QED  BY <1>1, LossInvariant, PTL DEF Spec, KillRemovesACarrier

-----------------------------------------------------------------------------
(* What a reading says of the series it was made of *)

(* A sum over one series is its number. *)
LEMMA OneSeries ==
  ASSUME NEW x, Number(x) \in Nat
  PROVE  MapThenSumSet(Number, {x}) = Number(x)
<1> DEFINE F(g) == [s \in SUBSET {x} |->
                      IF s = {} THEN 0
                      ELSE Number(CHOOSE z \in s : TRUE) + g[s \ {CHOOSE z \in s : TRUE}]]
           iter == CHOOSE g : g = F(g)
           h == [s \in SUBSET {x} |-> IF s = {} THEN 0 ELSE Number(x)]
<1>1. MapThenSumSet(Number, {x}) = iter[{x}]
  BY DEF MapThenSumSet, MapThenFoldSet
<1>2. {x} # {} /\ (CHOOSE z \in {x} : TRUE) = x /\ {x} \ {x} = {}
  OBVIOUS
<1>3. h = F(h)
  <2>1. ASSUME NEW s \in SUBSET {x} PROVE h[s] = F(h)[s]
    <3>1. CASE s = {}
      BY <3>1
    <3>2. CASE s # {}
      <4>1. s = {x}
        BY <3>2
      <4>2. h[s] = Number(x) /\ h[{}] = 0
        BY <3>2
      <4>3. F(h)[s] = Number(x) + h[{}]
        BY <1>2, <4>1
      <4> QED
        BY <4>2, <4>3
    <3> QED
      BY <3>1, <3>2
  <2> QED
    BY <2>1
<1>4. iter = F(iter)
  <2> HIDE DEF F, h
  <2> QED
    BY <1>3
<1>5. iter[{x}] = F(iter)[{x}] /\ iter[{}] = F(iter)[{}]
  <2> HIDE DEF F, iter
  <2> QED
    BY <1>4
<1> HIDE DEF iter
<1>6. iter[{}] = 0
  BY <1>5
<1>7. iter[{x}] = Number(x) + iter[{}]
  BY <1>2, <1>5
<1> QED
  BY <1>1, <1>6, <1>7

(* A counter of an exposition is read as its value, and one that is not    *)
(* rendered as nothing.                                                    *)
LEMMA ReadsCounter ==
  ASSUME NEW B, NEW k, NEW n \in Nat, NEW x,
         SeriesKey(x) = k, x.name \in Aggregates, Kind(x) = "counter", x.value = n,
         x \in B <=> n # 0,
         \A s \in B : IsAggregate(s) /\ SeriesKey(s) = k => s = x
  PROVE  /\ At(ReadExit(B).counters, k) = n
         /\ k \in DOMAIN ReadExit(B).counters <=> n # 0
         /\ n # 0 => ReadExit(B).counters[k] = n
<1> DEFINE f == [s \in OfKind(B, "counter") |-> SeriesKey(s)]
           S == {s \in DOMAIN f : f[s] = k}
<1>1. ReadExit(B).counters = Summed(f)
  BY DEF ReadExit
<1>2. DOMAIN f = OfKind(B, "counter") /\ \A s \in DOMAIN f : f[s] = SeriesKey(s)
  OBVIOUS
<1>3. /\ DOMAIN Summed(f) = {f[s] : s \in DOMAIN f}
      /\ \A j \in DOMAIN Summed(f) : Summed(f)[j] = MapThenSumSet(Number, {s \in DOMAIN f : f[s] = j})
  <2> HIDE DEF f
  <2> QED
    BY DEF Summed, Range
<1>4. \A s \in OfKind(B, "counter") : s \in B /\ IsAggregate(s)
  BY DEF OfKind, Rendered
<1>5. x \in OfKind(B, "counter") <=> n # 0
  <2>1. x.value # Unset
    BY DEF Unset
  <2> QED
    BY <2>1 DEF OfKind, Rendered, IsAggregate
<1>6. S = IF n # 0 THEN {x} ELSE {}
  <2> HIDE DEF f
  <2>1. \A s \in S : s = x
    BY <1>2, <1>4
  <2> QED
    BY <1>2, <1>5, <2>1
<1>7. k \in DOMAIN Summed(f) <=> n # 0
  <2> HIDE DEF f
  <2> QED
    BY <1>3, <1>6
<1>8. Number(x) = n
  BY DEF Number, Unset
<1>9. n # 0 => Summed(f)[k] = n
  <2> HIDE DEF f
  <2>1. n # 0 => Summed(f)[k] = MapThenSumSet(Number, S)
    BY <1>3, <1>7
  <2> HIDE DEF S
  <2>2. n # 0 => S = {x}
    BY <1>6
  <2> QED
    BY <1>8, <2>1, <2>2, OneSeries
<1> HIDE DEF f
<1> QED
  BY <1>1, <1>7, <1>9 DEF At

(* A series is known by its name, its one label and the label's value.     *)
LEMMA SeriesIs ==
  ASSUME NEW a, NEW b, NEW c, NEW d, NEW e, NEW f, Series(a, b, c) = Series(d, e, f)
  PROVE  a = d /\ b = e /\ c = f
<1>1. a = d /\ [l \in {b} |-> c] = [l \in {e} |-> f]
  BY DEF Series
<1>2. DOMAIN [l \in {b} |-> c] = {b} /\ DOMAIN [l \in {e} |-> f] = {e}
  OBVIOUS
<1>3. b = e
  BY <1>1, <1>2
<1>4. [l \in {b} |-> c][b] = c /\ [l \in {e} |-> f][e] = f
  OBVIOUS
<1> QED
  BY <1>1, <1>3, <1>4

(* The record of a counter of the gate. *)
Counter(name, label, value, n) ==
  [name |-> name, suffix |-> "total", labels |-> [l \in {label} |-> value], value |-> n]

(* A counter is read under its name and label. *)
LEMMA CounterIs ==
  ASSUME NEW name, NEW label, label # "le", NEW value, NEW n
  PROVE  /\ SeriesKey(Counter(name, label, value, n)) = Series(name, label, value)
         /\ Counter(name, label, value, n).name = name
         /\ Kind(Counter(name, label, value, n)) = "counter"
         /\ Counter(name, label, value, n).value = n
<1> DEFINE x == Counter(name, label, value, n)
           ls == [l \in {label} |-> value]
<1>1. x.name = name /\ x.suffix = "total" /\ x.labels = ls /\ x.value = n
  BY DEF Counter
<1>2. WithoutLe(ls) = ls
  <2>1. DOMAIN ls = {label} /\ DOMAIN ls \ {"le"} = {label} /\ ls[label] = value
    OBVIOUS
  <2>2. Restrict(ls, {label}) = [l \in {label} |-> ls[l]]
    BY DEF Restrict
  <2> HIDE DEF ls
  <2>3. [l \in {label} |-> ls[l]] = [l \in {label} |-> value]
    BY <2>1
  <2> QED
    BY <2>1, <2>2, <2>3 DEF WithoutLe, ls
<1>3. SeriesKey(x) = <<name, ls>>
  <2> HIDE DEF x, ls
  <2> QED
    BY <1>1, <1>2 DEF SeriesKey
<1>4. Kind(x) = "counter"
  <2> HIDE DEF x
  <2> QED
    BY <1>1 DEF Kind
<1> QED
  BY <1>1, <1>3, <1>4 DEF Series

(* What Exit's counters are, by name, label and value. *)
Tally ==
  {<<"cycles", "event", "requested", HowMany(funding, {"asked", "funded", "timeout"})>>,
   <<"cycles", "event", "funded", HowMany(funding, {"funded"})>>,
   <<"cycles", "event", "recovered", HowMany(key, {"recovered"})>>,
   <<"cycles", "event", "failed", HowMany(key, {"failed"})>>,
   <<"shares", "kind", "useful", Cardinality(Delivered)>>,
   <<"closures", "reason", "recovery_idle", IF closed THEN 1 ELSE 0>>}

CounterOf(q) == Counter(q[1], q[2], q[3], q[4])

(* The evictions of SURBs with a share. *)
Evicted ==
  [name |-> Evictions, suffix |-> "count", labels |-> [cache |-> "ring_share"], value |-> evicted]

(* The gate's aggregates are the counters that count anything, and besides *)
(* them there are only the evictions.                                      *)
LEMMA GateIs ==
  /\ \A s \in GateBody : IsAggregate(s) => \E q \in Tally : s = CounterOf(q) /\ q[4] # 0
  /\ \A q \in Tally : q[4] # 0 => CounterOf(q) \in GateBody
  /\ \A s \in GateBody : s.name = Evictions => s = Evicted /\ evicted # 0
  /\ evicted # 0 => Evicted \in GateBody
<1> DEFINE Told(q) == IF q[4] = 0 THEN {} ELSE {CounterOf(q)}
           Gone == IF evicted = 0 THEN {} ELSE {Evicted}
<1>1. ASSUME NEW a, NEW b, NEW c, NEW n PROVE Counted(a, b, c, n) = Told(<<a, b, c, n>>)
  BY DEF Counted, CounterOf, Counter
<1>2. ASSUME NEW c, NEW n PROVE Event(c, n) = Told(<<"cycles", "event", c, n>>)
  BY <1>1 DEF Event
<1> HIDE DEF Told
<1>3. GateBody = (UNION {Told(q) : q \in Tally}) \cup Gone
  <2> DEFINE a == HowMany(funding, {"asked", "funded", "timeout"})
             b == HowMany(funding, {"funded"})
             c == HowMany(key, {"recovered"})
             d == HowMany(key, {"failed"})
             e == Cardinality(Delivered)
             f == IF closed THEN 1 ELSE 0
  <2> HIDE DEF a, b, c, d, e, f, Gone
  <2>1. GateBody = Event("requested", a) \cup Event("funded", b) \cup Event("recovered", c)
                    \cup Event("failed", d) \cup Counted("shares", "kind", "useful", e)
                    \cup Counted("closures", "reason", "recovery_idle", f) \cup Gone
    BY DEF GateBody, a, b, c, d, e, f, Gone, Evicted
  <2>2. Tally = {<<"cycles", "event", "requested", a>>, <<"cycles", "event", "funded", b>>,
                 <<"cycles", "event", "recovered", c>>, <<"cycles", "event", "failed", d>>,
                 <<"shares", "kind", "useful", e>>, <<"closures", "reason", "recovery_idle", f>>}
    BY DEF Tally, a, b, c, d, e, f
  <2>3. UNION {Told(q) : q \in Tally} =
          Told(<<"cycles", "event", "requested", a>>) \cup Told(<<"cycles", "event", "funded", b>>)
          \cup Told(<<"cycles", "event", "recovered", c>>) \cup Told(<<"cycles", "event", "failed", d>>)
          \cup Told(<<"shares", "kind", "useful", e>>)
          \cup Told(<<"closures", "reason", "recovery_idle", f>>)
    BY <2>2, Zenon
  <2> QED
    BY <1>1, <1>2, <2>1, <2>3
<1>4. \A s \in Gone : s = Evicted /\ s.name = Evictions /\ evicted # 0
  BY DEF Evicted
<1>5. Evictions \notin Aggregates
  BY DEF Evictions, Aggregates
<1>8. evicted # 0 => Evicted \in GateBody
  BY <1>3
<1> HIDE DEF Gone
<1>6. ASSUME NEW s \in GateBody, IsAggregate(s) PROVE \E q \in Tally : s = CounterOf(q) /\ q[4] # 0
  <2>1. s \notin Gone
    BY <1>4, <1>5, <1>6 DEF IsAggregate
  <2>2. PICK q \in Tally : s \in Told(q)
    BY <1>3, <2>1
  <2> QED
    BY <2>2 DEF Told
<1>7. ASSUME NEW q \in Tally, q[4] # 0 PROVE CounterOf(q) \in GateBody
  <2>1. CounterOf(q) \in Told(q)
    BY <1>7 DEF Told
  <2> QED
    BY <1>3, <2>1
<1>9. ASSUME NEW s \in GateBody, s.name = Evictions PROVE s = Evicted /\ evicted # 0
  <2>1. CASE s \in Gone
    BY <1>4, <2>1
  <2>2. CASE s \notin Gone
    <3>1. PICK q \in Tally : s \in Told(q)
      BY <1>3, <2>2
    <3>2. s = CounterOf(q) /\ q[1] \in {"cycles", "shares", "closures"}
      BY <3>1 DEF Told, Tally
    <3> QED
      BY <1>9, <3>2 DEF CounterOf, Counter, Evictions
  <2> QED
    BY <2>1, <2>2
<1> QED
  BY <1>6, <1>7, <1>8, <1>9

(* Each counter of the tally is read as what it counts. *)
LEMMA GateReads ==
  ASSUME NEW q \in Tally, q[4] \in Nat
  PROVE  LET k == Series(q[1], q[2], q[3])
         IN  /\ At(Gate.counters, k) = q[4]
             /\ k \in DOMAIN Gate.counters <=> q[4] # 0
             /\ q[4] # 0 => Gate.counters[k] = q[4]
<1>1. /\ \A p \in Tally : p = <<p[1], p[2], p[3], p[4]>> /\ p[1] \in Aggregates /\ p[2] # "le"
      /\ \A p, r \in Tally : p[2] = r[2] /\ p[3] = r[3] => p = r
  <2> DEFINE a == HowMany(funding, {"asked", "funded", "timeout"})
             b == HowMany(funding, {"funded"})
             c == HowMany(key, {"recovered"})
             d == HowMany(key, {"failed"})
             e == Cardinality(Delivered)
             f == IF closed THEN 1 ELSE 0
  <2> HIDE DEF a, b, c, d, e, f
  <2>1. Tally = {<<"cycles", "event", "requested", a>>, <<"cycles", "event", "funded", b>>,
                 <<"cycles", "event", "recovered", c>>, <<"cycles", "event", "failed", d>>,
                 <<"shares", "kind", "useful", e>>, <<"closures", "reason", "recovery_idle", f>>}
    BY DEF Tally, a, b, c, d, e, f
  <2> QED
    BY <2>1 DEF Aggregates
<1> DEFINE x == CounterOf(q)
           k == Series(q[1], q[2], q[3])
<1>2. SeriesKey(x) = k /\ x.name \in Aggregates /\ Kind(x) = "counter" /\ x.value = q[4]
  BY <1>1, CounterIs DEF CounterOf
<1>3. ASSUME NEW s \in GateBody, IsAggregate(s), SeriesKey(s) = k PROVE s = x /\ q[4] # 0
  <2>1. PICK p \in Tally : s = CounterOf(p) /\ p[4] # 0
    BY <1>3, GateIs
  <2>2. SeriesKey(s) = Series(p[1], p[2], p[3])
    BY <1>1, <2>1, CounterIs DEF CounterOf
  <2>3. Series(p[1], p[2], p[3]) = Series(q[1], q[2], q[3])
    BY <1>3, <2>2
  <2>4. p[2] = q[2] /\ p[3] = q[3]
    BY <2>3, SeriesIs
  <2> QED
    BY <1>1, <2>1, <2>4
<1>4. x \in GateBody <=> q[4] # 0
  <2>1. IsAggregate(x)
    BY <1>2 DEF IsAggregate
  <2> QED
    BY <1>2, <1>3, <2>1, GateIs
<1> HIDE DEF x, k
<1>5. /\ At(ReadExit(GateBody).counters, k) = q[4]
      /\ k \in DOMAIN ReadExit(GateBody).counters <=> q[4] # 0
      /\ q[4] # 0 => ReadExit(GateBody).counters[k] = q[4]
  <2> DEFINE n == q[4]
  <2>1. n \in Nat /\ x.value = n /\ (x \in GateBody <=> n # 0)
    BY <1>2, <1>4
  <2> HIDE DEF n
  <2>2. /\ At(ReadExit(GateBody).counters, k) = n
        /\ k \in DOMAIN ReadExit(GateBody).counters <=> n # 0
        /\ n # 0 => ReadExit(GateBody).counters[k] = n
    BY <1>2, <1>3, <2>1, ReadsCounter
  <2> QED
    BY <2>2 DEF n
<1> QED
  BY <1>5 DEF Gate, k

(* What the evictions are read under. *)
RingShare == Series(Evictions, "cache", "ring_share")

(* The evictions are read under their one key, and not at all before the   *)
(* first.                                                                  *)
LEMMA EvictionsRead ==
  ASSUME evicted \in Nat
  PROVE  /\ DOMAIN Gate.evictions = (IF evicted = 0 THEN {} ELSE {RingShare})
         /\ evicted # 0 => Gate.evictions[RingShare] = evicted
<1> DEFINE all == {t \in Rendered(GateBody) : IsEviction(t)}
           f == [s \in all |-> SeriesKey(s)]
<1>1. /\ Evicted.name = Evictions /\ Evicted.suffix = "count" /\ Evicted.value = evicted
      /\ Evicted.labels = [cache |-> "ring_share"]
  BY DEF Evicted
<1>2. SeriesKey(Evicted) = RingShare
  <2> DEFINE ls == [cache |-> "ring_share"]
  <2>1. DOMAIN ls = {"cache"} /\ DOMAIN ls \ {"le"} = {"cache"} /\ ls["cache"] = "ring_share"
    OBVIOUS
  <2>2. Restrict(ls, {"cache"}) = [l \in {"cache"} |-> ls[l]]
    BY DEF Restrict
  <2>3. [l \in {"cache"} |-> ls[l]] = [l \in {"cache"} |-> "ring_share"]
    BY <2>1
  <2>4. WithoutLe(ls) = [l \in {"cache"} |-> "ring_share"]
    BY <2>1, <2>2, <2>3 DEF WithoutLe
  <2> HIDE DEF ls
  <2> QED
    BY <1>1, <2>4 DEF SeriesKey, RingShare, Series, ls
<1>3. all = IF evicted = 0 THEN {} ELSE {Evicted}
  <2>1. \A s \in all : s = Evicted /\ evicted # 0
    BY GateIs DEF IsEviction, Rendered
  <2>2. evicted # 0 => Evicted \in all
    BY <1>1, GateIs DEF IsEviction, Rendered, Unset
  <2> HIDE DEF all
  <2> QED
    BY <2>1, <2>2
<1>4. Gate.evictions = Summed(f)
  BY DEF Gate, ReadExit
<1> HIDE DEF all
<1>5. DOMAIN f = all /\ \A s \in all : f[s] = SeriesKey(s)
  OBVIOUS
<1> HIDE DEF f
<1>6. /\ DOMAIN Summed(f) = {f[s] : s \in all}
      /\ \A k \in DOMAIN Summed(f) : Summed(f)[k] = MapThenSumSet(Number, {s \in all : f[s] = k})
  BY <1>5 DEF Summed, Range
<1>7. DOMAIN Summed(f) = IF evicted = 0 THEN {} ELSE {RingShare}
  BY <1>2, <1>3, <1>5, <1>6
<1>8. evicted # 0 => Summed(f)[RingShare] = evicted
  <2> SUFFICES ASSUME evicted # 0 PROVE Summed(f)[RingShare] = evicted
    OBVIOUS
  <2>1. {s \in all : f[s] = RingShare} = {Evicted}
    BY <1>2, <1>3, <1>5
  <2>2. Summed(f)[RingShare] = MapThenSumSet(Number, {Evicted})
    BY <1>6, <1>7, <2>1
  <2>3. Number(Evicted) = evicted
    BY <1>1 DEF Number, Unset
  <2> QED
    BY <2>2, <2>3, OneSeries
<1> QED
  BY <1>4, <1>7, <1>8

(* Evictions read under one key are that key's. *)
LEMMA OneEviction ==
  ASSUME NEW t, NEW k, DOMAIN t.evictions = {k}, k[2].cache = "ring_share", t.evictions[k] \in Nat
  PROVE  RingShareEvictions(t) = t.evictions[k]
<1> DEFINE S == {j \in DOMAIN t.evictions : j[2].cache = "ring_share"}
           v == t.evictions[k]
           F(g) == [s \in SUBSET S |->
                      IF s = {} THEN 0
                      ELSE t.evictions[CHOOSE z \in s : TRUE] + g[s \ {CHOOSE z \in s : TRUE}]]
           iter == CHOOSE g : g = F(g)
           h == [s \in SUBSET S |-> IF s = {} THEN 0 ELSE v]
<1>1. RingShareEvictions(t) = iter[S]
  BY DEF RingShareEvictions, MapThenSumSet, MapThenFoldSet
<1>2. S = {k} /\ (CHOOSE z \in {k} : TRUE) = k /\ {k} \ {k} = {}
  OBVIOUS
<1> HIDE DEF S
<1>3. h = F(h)
  <2>1. ASSUME NEW s \in SUBSET S PROVE h[s] = F(h)[s]
    <3>1. CASE s = {}
      BY <3>1
    <3>2. CASE s # {}
      <4>1. s = {k}
        BY <1>2, <3>2
      <4>2. h[s] = v /\ h[{}] = 0
        BY <3>2
      <4>3. F(h)[s] = v + h[{}]
        BY <1>2, <4>1
      <4> QED
        BY <4>2, <4>3
    <3> QED
      BY <3>1, <3>2
  <2> QED
    BY <2>1
<1>4. iter = F(iter)
  <2> HIDE DEF F, h
  <2> QED
    BY <1>3
<1>5. iter[S] = F(iter)[S] /\ iter[{}] = F(iter)[{}]
  <2> HIDE DEF F, iter
  <2> QED
    BY <1>4
<1> HIDE DEF iter
<1>6. iter[{}] = 0
  BY <1>5
<1>7. iter[S] = v + iter[{}]
  BY <1>2, <1>5
<1> QED
  BY <1>1, <1>6, <1>7

-----------------------------------------------------------------------------
(* What a pass says *)

(* The gate read nothing before the traffic but the first cycle's request. *)
BaseInv ==
  stage \notin {"install", "baseline", "over"} =>
    /\ At(base.counters, Series("cycles", "event", "recovered")) = 0
    /\ At(base.counters, Series("cycles", "event", "failed")) = 0
    /\ At(base.counters, Series("closures", "reason", "recovery_idle")) = 0
    /\ DOMAIN base.evictions = {}

(* A cycle is recovered only behind the one before it, and paid only once  *)
(* recovered; nothing of it happens before the traffic.                    *)
CycleInv ==
  /\ key \in [Cycles -> {"none", "recovered", "failed"}]
  /\ sweep \in [Cycles -> {"no", "paid", "empty"}]
  /\ evicted \in Nat /\ closed \in BOOLEAN
  /\ \A c \in Cycles : /\ key[c] = "failed" => c = 1
                       /\ key[c] # "none" => key[1] # "none"
                       /\ sweep[c] = "paid" => key[c] = "recovered"
  /\ stage \in {"install", "baseline"} =>
       key = All("none") /\ sweep = All("no") /\ evicted = 0 /\ ~closed

(* Behind the kill a relayer is dead, and only the end has a verdict. *)
EndInv ==
  /\ stage \in {"sweeps", "join"} => dead # {}
  /\ stage # "over" => verdict = "none"
  /\ PassMeansSurvived

(* How many cycles are so is a number. *)
LEMMA HowManyType ==
  ASSUME NEW f, NEW states
  PROVE  HowMany(f, states) \in Nat
<1> DEFINE S == {c \in Cycles : f[c] \in states}
<1>1. MaxCycles \in Nat
  BY ScenarioAssumption
<1>2. IsFiniteSet(Cycles)
  BY <1>1, FS_Interval DEF Cycles
<1>3. IsFiniteSet(S)
  BY <1>2, FS_Subset
<1> QED
  BY <1>3, FS_CardinalityType DEF HowMany

(* The gate's difference at the end. *)
LEMMA JudgeReads ==
  ASSUME CycleInv, BaseInv, stage = "join"
  PROVE  LET gate == ExitSince(base, Gate)
         IN  /\ CycleEvents(gate, "recovered") = HowMany(key, {"recovered"})
             /\ CycleEvents(gate, "failed") = HowMany(key, {"failed"})
             /\ ClosureReasons(gate) = {} => ~closed
             /\ RingShareEvictions(gate) = 0 => evicted = 0
<1> DEFINE gate == ExitSince(base, Gate)
           kr == Series("cycles", "event", "recovered")
           kf == Series("cycles", "event", "failed")
           kc == Series("closures", "reason", "recovery_idle")
           nr == HowMany(key, {"recovered"})
           nf == HowMany(key, {"failed"})
           nc == IF closed THEN 1 ELSE 0
<1>1. /\ At(base.counters, kr) = 0 /\ At(base.counters, kf) = 0 /\ At(base.counters, kc) = 0
      /\ DOMAIN base.evictions = {}
  BY DEF BaseInv
<1>2. nr \in Nat /\ nf \in Nat /\ nc \in Nat
  <2>1. nc \in Nat
    OBVIOUS
  <2> QED
    BY <2>1, HowManyType
<1>3. gate.counters = Since(base.counters, Gate.counters)
      /\ gate.evictions = Since(base.evictions, Gate.evictions)
  BY DEF ExitSince
<1>4. /\ At(Gate.counters, kr) = nr
      /\ At(Gate.counters, kf) = nf
      /\ nc # 0 => kc \in DOMAIN Gate.counters /\ Gate.counters[kc] = nc
  <2>1. ASSUME NEW a, NEW b, NEW c, NEW n \in Nat, <<a, b, c, n>> \in Tally
        PROVE  /\ At(Gate.counters, Series(a, b, c)) = n
               /\ n # 0 => Series(a, b, c) \in DOMAIN Gate.counters /\ Gate.counters[Series(a, b, c)] = n
    <3> DEFINE q == <<a, b, c, n>>
    <3>1. q[1] = a /\ q[2] = b /\ q[3] = c /\ q[4] = n /\ q \in Tally
      BY <2>1
    <3> HIDE DEF q
    <3> QED
      BY <3>1, GateReads
  <2>2. /\ <<"cycles", "event", "recovered", nr>> \in Tally
        /\ <<"cycles", "event", "failed", nf>> \in Tally
        /\ <<"closures", "reason", "recovery_idle", nc>> \in Tally
    BY DEF Tally
  <2> HIDE DEF nr, nf, nc
  <2> QED
    BY <1>2, <2>1, <2>2
<1> HIDE DEF nr, nf
<1>5. ASSUME NEW b, NEW l, NEW k PROVE At(Since(b, l), k) = IF k \in DOMAIN l THEN SafeSub(l[k], At(b, k)) ELSE 0
  BY DEF At, Since
<1>6. At(gate.counters, kr) = nr /\ At(gate.counters, kf) = nf
  <2> HIDE DEF gate, kr, kf
  <2> QED
    BY <1>1, <1>2, <1>3, <1>4, <1>5 DEF SafeSub, At
<1>7. closed => ClosureReasons(gate) # {}
  <2> SUFFICES ASSUME closed PROVE ClosureReasons(gate) # {}
    OBVIOUS
  <2>1. kc[1] = "closures"
    BY DEF Series
  <2>2. kc \in DOMAIN Gate.counters /\ Gate.counters[kc] = 1
    BY <1>4
  <2> HIDE DEF kc, gate
  <2>3. kc \in DOMAIN gate.counters /\ gate.counters[kc] = 1
    BY <1>1, <1>3, <2>2 DEF Since, SafeSub
  <2>4. gate.counters[kc] > 0
    BY <2>3
  <2>5. <<kc[2].reason, gate.counters[kc]>> \in ClosureReasons(gate)
    BY <2>1, <2>3, <2>4, Zenon DEF ClosureReasons
  <2> QED
    BY <2>5
<1>8. evicted # 0 => RingShareEvictions(gate) # 0
  <2> SUFFICES ASSUME evicted # 0 PROVE RingShareEvictions(gate) # 0
    OBVIOUS
  <2>1. evicted \in Nat /\ DOMAIN Gate.evictions = {RingShare} /\ Gate.evictions[RingShare] = evicted
    BY EvictionsRead DEF CycleInv
  <2>2. RingShare[2].cache = "ring_share"
    BY DEF RingShare, Series
  <2> HIDE DEF gate
  <2>3. DOMAIN gate.evictions = {RingShare} /\ gate.evictions[RingShare] = evicted
    BY <1>1, <1>3, <2>1 DEF Since, SafeSub, At
  <2>4. RingShareEvictions(gate) = evicted
    BY <2>1, <2>2, <2>3, OneEviction
  <2> QED
    BY <2>4
<1> HIDE DEF gate
<1>9. CycleEvents(gate, "recovered") = nr /\ CycleEvents(gate, "failed") = nf
  BY <1>6 DEF CycleEvents
<1> QED
  BY <1>7, <1>8, <1>9 DEF gate, nr, nf

(* No cycle is in a state that none is in. *)
LEMMA HowManyNone ==
  ASSUME NEW f, NEW states, \A c \in Cycles : f[c] \notin states
  PROVE  HowMany(f, states) = 0
<1>1. {c \in Cycles : f[c] \in states} = {}
  OBVIOUS
<1> QED
  BY <1>1, FS_EmptySet DEF HowMany

(* The gate reads nothing of what did not happen yet. *)
LEMMA BaseStep ==
  ASSUME CycleInv, BaseInv, [Next]_vars
  PROVE  BaseInv'
<1>1. CASE base' = base /\ (stage' = stage \/ stage \notin {"install", "baseline", "over"} \/ stage' \in {"install", "baseline", "over"})
  BY <1>1 DEF BaseInv
<1>2. CASE stage' = "over"
  BY <1>2 DEF BaseInv
<1>3. CASE Baseline
  <2>1. key = All("none") /\ evicted = 0 /\ ~closed /\ stage = "baseline"
    BY <1>3 DEF CycleInv, Baseline
  <2>2. HowMany(key, {"recovered"}) = 0 /\ HowMany(key, {"failed"}) = 0
    <3>1. \A c \in Cycles : key[c] = "none"
      BY <2>1 DEF All
    <3> QED
      BY <3>1, HowManyNone
  <2>3. ASSUME NEW a, NEW b, NEW c, <<a, b, c, 0>> \in Tally
        PROVE  At(Gate.counters, Series(a, b, c)) = 0
    <3> DEFINE q == <<a, b, c, 0>>
    <3>1. q[1] = a /\ q[2] = b /\ q[3] = c /\ q[4] = 0 /\ q \in Tally
      BY <2>3
    <3> HIDE DEF q
    <3> QED
      BY <3>1, GateReads
  <2>4. /\ <<"cycles", "event", "recovered", 0>> \in Tally
        /\ <<"cycles", "event", "failed", 0>> \in Tally
        /\ <<"closures", "reason", "recovery_idle", 0>> \in Tally
    BY <2>1, <2>2 DEF Tally
  <2>5. DOMAIN Gate.evictions = {}
    BY <2>1, EvictionsRead
  <2>6. base' = Gate
    BY <1>3 DEF Baseline
  <2> HIDE DEF Tally
  <2> QED
    BY <2>3, <2>4, <2>5, <2>6 DEF BaseInv
<1>4. CASE Test /\ ~Baseline
  <2>1. CASE Open
    BY <1>1, <1>2, <2>1 DEF Open, Ends
  <2>2. CASE Errs \/ JoinedFailed \/ Judge
    BY <1>2, <2>2 DEF Errs, JoinedFailed, Judge, Ends
  <2>3. CASE DriverFails \/ Sampled \/ WarmedUp \/ Kill \/ SweepsAwaited \/ \E r \in Relays : Scraped(r)
    BY <1>1, <2>3 DEF DriverFails, Sampled, WarmedUp, Kill, SweepsAwaited, Scraped
  <2> QED
    BY <1>4, <2>1, <2>2, <2>3 DEF Test
<1>5. CASE WriterStops \/ WriterTroubles \/ ReaderStops
  BY <1>1, <1>5 DEF WriterStops, WriterTroubles, ReaderStops
<1>6. CASE Network
  BY <1>1, <1>6 DEF Network, Mint, Spend, Wipe, RecoversFirst, RecoveryIdle, Deposited, Asks,
                    Recovers, SweepsKey, Keep
<1>7. CASE Over \/ UNCHANGED vars
  BY <1>1, <1>7 DEF Over, vars
<1> QED
  BY <1>3, <1>4, <1>5, <1>6, <1>7 DEF Next

(* The cycles' own steps. *)
LEMMA CycleStep ==
  ASSUME CycleInv, [Next]_vars
  PROVE  CycleInv'
<1> DEFINE Settled(k, s) ==
             \A c \in Cycles : /\ k[c] = "failed" => c = 1
                               /\ k[c] # "none" => k[1] # "none"
                               /\ s[c] = "paid" => k[c] = "recovered"
           Busy == stage' \notin {"install", "baseline"}
<1>0. 1 \in Cycles
  BY ScenarioAssumption DEF Cycles
<1>1. CASE /\ UNCHANGED <<key, sweep, evicted, closed>>
           /\ stage' \in {"install", "baseline"} => stage \in {"install", "baseline"}
  BY <1>1, Zenon DEF CycleInv
<1>2. CASE Mint
  <2>1. UNCHANGED <<key, sweep, closed, stage>> /\ evicted' \in Nat
    BY <1>2 DEF Mint, cycleVars, CycleInv
  <2>2. stage \notin {"install", "baseline"}
    BY <1>2 DEF Mint, InFlight, Live
  <2> QED
    BY <2>1, <2>2 DEF CycleInv
<1>3. CASE RecoversFirst \/ RecoveryIdle
  <2>1. PICK how \in {"recovered", "failed"} : Decided(how)
    BY <1>3 DEF RecoversFirst, RecoveryIdle
  <2>2. /\ stage' = stage /\ stage \notin {"install", "baseline"} /\ key[1] = "none"
        /\ UNCHANGED <<sweep, evicted>>
    BY <1>3 DEF RecoversFirst, RecoveryIdle, Decided, InFlight, Live, Keep
  <2>3. closed' \in BOOLEAN
    BY <1>3, Zenon DEF RecoversFirst, RecoveryIdle, CycleInv
  <2>4. key' = [key EXCEPT ![1] = how]
    BY <2>1 DEF Decided
  <2>5. key' \in [Cycles -> {"none", "recovered", "failed"}] /\ key'[1] = how
        /\ \A c \in Cycles \ {1} : key'[c] = key[c]
    BY <1>0, <2>4 DEF CycleInv
  <2>6. Settled(key', sweep)
    BY <2>2, <2>5 DEF CycleInv
  <2>7. sweep' \in [Cycles -> {"no", "paid", "empty"}] /\ evicted' \in Nat
    BY <2>2 DEF CycleInv
  <2> HIDE DEF Settled
  <2>8. Settled(key, sweep)'
    BY <2>2, <2>6 DEF Settled
  <2> QED
    BY <2>2, <2>3, <2>5, <2>7, <2>8 DEF CycleInv, Settled
<1>4. ASSUME NEW c \in Cycles, Recovers(c)
      PROVE  CycleInv'
  <2>1. /\ stage' = stage /\ stage \notin {"install", "baseline"} /\ key[c] = "none"
        /\ c > 1 /\ key[c - 1] # "none" /\ key' = [key EXCEPT ![c] = "recovered"]
        /\ UNCHANGED <<sweep, evicted, closed>>
    BY <1>4 DEF Recovers, Live, Keep, streamVars
  <2>2. c - 1 \in Cycles /\ c # 1
    BY <2>1, ScenarioAssumption DEF Cycles
  <2>3. key[1] # "none"
    BY <2>1, <2>2 DEF CycleInv
  <2>4. key' \in [Cycles -> {"none", "recovered", "failed"}] /\ key'[c] = "recovered"
        /\ \A d \in Cycles \ {c} : key'[d] = key[d]
    BY <2>1 DEF CycleInv
  <2>5. key'[1] # "none"
    BY <1>0, <2>2, <2>3, <2>4
  <2>6. Settled(key', sweep)
    BY <2>1, <2>2, <2>4, <2>5 DEF CycleInv
  <2>7. sweep' \in [Cycles -> {"no", "paid", "empty"}] /\ evicted' \in Nat /\ closed' \in BOOLEAN
    BY <2>1, Zenon DEF CycleInv
  <2> HIDE DEF Settled
  <2>8. Settled(key, sweep)'
    BY <2>1, <2>6 DEF Settled
  <2> QED
    BY <2>1, <2>4, <2>7, <2>8 DEF CycleInv, Settled
<1>5. ASSUME NEW c \in Cycles, SweepsKey(c)
      PROVE  CycleInv'
  <2>1. /\ stage' = stage /\ stage \notin {"install", "baseline"} /\ key[c] = "recovered"
        /\ UNCHANGED <<key, evicted, closed>>
    BY <1>5 DEF SweepsKey, Keep, streamVars
  <2>2. PICK how \in {"paid", "empty"} : sweep' = [sweep EXCEPT ![c] = how]
    BY <1>5 DEF SweepsKey
  <2>3. sweep' \in [Cycles -> {"no", "paid", "empty"}]
        /\ \A d \in Cycles \ {c} : sweep'[d] = sweep[d]
    BY <2>2 DEF CycleInv
  <2>4. Settled(key, sweep')
    BY <2>1, <2>3 DEF CycleInv
  <2>5. key' \in [Cycles -> {"none", "recovered", "failed"}] /\ evicted' \in Nat /\ closed' \in BOOLEAN
    BY <2>1, Zenon DEF CycleInv
  <2> HIDE DEF Settled
  <2>6. Settled(key, sweep)'
    BY <2>1, <2>4 DEF Settled
  <2> QED
    BY <2>1, <2>3, <2>5, <2>6 DEF CycleInv, Settled
<1>6. ASSUME NEW c \in Cycles, Deposited(c) \/ Asks(c)
      PROVE  CycleInv'
  <2>1. /\ stage' = stage /\ stage \notin {"install", "baseline"}
        /\ UNCHANGED <<key, sweep, evicted>>
    BY <1>6 DEF Deposited, Asks, Live, Keep, streamVars
  <2>2. closed' \in BOOLEAN
    BY <1>6, Zenon DEF Deposited, Asks, CycleInv
  <2> QED
    BY <2>1, <2>2 DEF CycleInv
<1>7. CASE Test
  <2>1. CASE Open
    BY <1>1, <2>1 DEF Open, Ends, streamVars, cycleVars
  <2>2. CASE Errs \/ JoinedFailed \/ Judge
    BY <1>1, <2>2 DEF Errs, JoinedFailed, Judge, Ends, cycleVars
  <2>3. CASE Baseline \/ DriverFails \/ Sampled \/ WarmedUp \/ Kill \/ SweepsAwaited
             \/ \E r \in Relays : Scraped(r)
    BY <1>1, <2>3 DEF Baseline, DriverFails, Sampled, WarmedUp, Kill, SweepsAwaited, Scraped,
                      streamVars, cycleVars
  <2> QED
    BY <1>7, <2>1, <2>2, <2>3 DEF Test
<1>8. CASE WriterStops \/ WriterTroubles \/ ReaderStops
  BY <1>1, <1>8 DEF WriterStops, WriterTroubles, ReaderStops, streamVars, cycleVars
<1>9. CASE Spend \/ Wipe
  BY <1>1, <1>9 DEF Spend, Wipe, cycleVars
<1>10. CASE Over \/ UNCHANGED vars
  BY <1>1, <1>10 DEF Over, vars, streamVars, cycleVars
<1> QED
  BY <1>2, <1>3, <1>4, <1>5, <1>6, <1>7, <1>8, <1>9, <1>10 DEF Next, Network

(* Six things in a row are where they are. *)
LEMMA SixPlaces ==
  ASSUME NEW p, NEW q, NEW r, NEW s, NEW t, NEW u
  PROVE  LET all == <<p, q, r, s, t, u>>
         IN  /\ 1 \in DOMAIN all /\ 2 \in DOMAIN all /\ 5 \in DOMAIN all /\ 6 \in DOMAIN all
             /\ all[1] = p /\ all[2] = q /\ all[5] = t /\ all[6] = u
  OBVIOUS

(* What the assertions say when all of them hold. *)
LEMMA AllAsserted ==
  ASSUME \A n \in DOMAIN Assertions : Assertions[n][2]
  PROVE  LET gate == ExitSince(base, Gate)
         IN  ClosureReasons(gate) = {} /\ RingShareEvictions(gate) = 0 /\ CyclesAsExpected(gate) /\ Paid >= 1
<1> DEFINE gate == ExitSince(base, Gate)
           b == ClosureReasons(gate) = {}
           d == RingShareEvictions(gate) = 0
           j == CyclesAsExpected(gate)
           l == Paid >= 1
<1>1. /\ 1 \in DOMAIN Assertions /\ 2 \in DOMAIN Assertions
      /\ 5 \in DOMAIN Assertions /\ 6 \in DOMAIN Assertions
      /\ Assertions[1] = <<"closed", b>> /\ Assertions[2] = <<"evicted", d>>
      /\ Assertions[5] = <<"not in flight", j>> /\ Assertions[6] = <<"unpaid", l>>
  <2> DEFINE p == <<"closed", b>>
             q == <<"evicted", d>>
             r == <<"timed out", HowMany(funding, {"timeout"}) = 0>>
             s == <<"not swept", claim >= 1>>
             t == <<"not in flight", j>>
             u == <<"unpaid", l>>
  <2>1. Assertions = <<p, q, r, s, t, u>>
    BY Zenon DEF Assertions
  <2> HIDE DEF p, q, r, s, t, u
  <2>2. /\ 1 \in DOMAIN Assertions /\ 2 \in DOMAIN Assertions
        /\ 5 \in DOMAIN Assertions /\ 6 \in DOMAIN Assertions
        /\ Assertions[1] = p /\ Assertions[2] = q /\ Assertions[5] = t /\ Assertions[6] = u
    BY <2>1, SixPlaces
  <2> QED
    BY <2>2, Zenon DEF p, q, t, u
<1> HIDE DEF b, d, j, l
<1>2. Assertions[1][2] /\ Assertions[2][2] /\ Assertions[5][2] /\ Assertions[6][2]
  BY <1>1, Zenon
<1>3. b /\ d /\ j /\ l
  <2>1. Assertions[1][2] = b
    <3>1. <<"closed", b>>[2] = b
      OBVIOUS
    <3>2. Assertions[1] = <<"closed", b>>
      BY <1>1
    <3> QED
      BY <3>1, <3>2, Zenon
  <2>2. Assertions[2][2] = d
    <3>1. <<"evicted", d>>[2] = d
      OBVIOUS
    <3>2. Assertions[2] = <<"evicted", d>>
      BY <1>1
    <3> QED
      BY <3>1, <3>2, Zenon
  <2>3. Assertions[5][2] = j
    <3>1. <<"not in flight", j>>[2] = j
      OBVIOUS
    <3>2. Assertions[5] = <<"not in flight", j>>
      BY <1>1
    <3> QED
      BY <3>1, <3>2, Zenon
  <2>4. Assertions[6][2] = l
    <3>1. <<"unpaid", l>>[2] = l
      OBVIOUS
    <3>2. Assertions[6] = <<"unpaid", l>>
      BY <1>1
    <3> QED
      BY <3>1, <3>2, Zenon
  <2> QED
    BY <1>2, <2>1, <2>2, <2>3, <2>4, Zenon
<1> QED
  BY <1>3, Zenon DEF b, d, j, l

(* With one cycle recovered, none failed and one paid, it is the first.    *)
LEMMA FirstIsIt ==
  ASSUME CycleInv, HowMany(key, {"recovered"}) = 1, HowMany(key, {"failed"}) = 0, Paid >= 1
  PROVE  key[1] = "recovered" /\ sweep[1] = "paid"
<1> DEFINE R == {c \in Cycles : key[c] \in {"recovered"}}
           G == {c \in Cycles : key[c] \in {"failed"}}
           P == {c \in Cycles : sweep[c] \in {"paid"}}
<1>0. 1 \in Cycles /\ IsFiniteSet(Cycles)
  BY ScenarioAssumption, FS_Interval DEF Cycles
<1>1. IsFiniteSet(R) /\ IsFiniteSet(G) /\ IsFiniteSet(P)
  BY <1>0, FS_Subset
<1>2. Cardinality(R) = 1 /\ Cardinality(G) = 0 /\ Cardinality(P) >= 1
  BY DEF HowMany, Paid
<1>3. G = {}
  <2> HIDE DEF G
  <2> QED
    BY <1>1, <1>2, FS_EmptySet
<1>4. PICK p \in Cycles : sweep[p] = "paid"
  <2>1. P # {}
    <3> HIDE DEF P
    <3> QED
      BY <1>2, FS_EmptySet
  <2> QED
    BY <2>1
<1>5. key[p] = "recovered" /\ key[1] # "none"
  BY <1>4 DEF CycleInv
<1>6. key[1] = "recovered"
  BY <1>0, <1>3, <1>5 DEF CycleInv
<1>7. p = 1
  <2>1. p \in R /\ 1 \in R
    BY <1>0, <1>5, <1>6
  <2> HIDE DEF R
  <2>2. \E x : R = {x}
    BY <1>1, <1>2, FS_Singleton
  <2> QED
    BY <2>1, <2>2
<1> QED
  BY <1>4, <1>6, <1>7

(* The verdict is the only step towards a pass. *)
LEMMA EndStep ==
  ASSUME CycleInv, BaseInv, EndInv, [Next]_vars
  PROVE  EndInv'
<1>1. CASE /\ stage' # "over" /\ verdict' = verdict /\ stage # "over"
           /\ stage' \in {"sweeps", "join"} => dead' # {}
  BY <1>1 DEF EndInv, PassMeansSurvived
<1>2. ASSUME NEW how, Ends(how), how # "pass"
      PROVE  EndInv'
  BY <1>2 DEF Ends, EndInv, PassMeansSurvived
<1>3. CASE stage # "over" /\ stage' = stage /\ verdict' = verdict /\ dead' = dead
  BY <1>1, <1>3 DEF EndInv
<1>4. CASE Judge
  <2>1. PICK how : /\ Ends(how)
                   /\ \/ how = "pass" /\ \A i \in DOMAIN Assertions : Assertions[i][2]
                      \/ \E i \in DOMAIN Assertions : how = Assertions[i][1]
    BY <1>4 DEF Judge
  <2>2. CASE how # "pass"
    BY <1>2, <2>1, <2>2
  <2>3. CASE how = "pass"
    <3>1. "pass" \notin {Assertions[i][1] : i \in DOMAIN Assertions}
      BY AssertionNames
    <3>2. \A i \in DOMAIN Assertions : Assertions[i][2]
      BY <2>1, <2>3, <3>1
    <3> DEFINE gate == ExitSince(base, Gate)
    <3>3. stage = "join"
      BY <1>4 DEF Judge
    <3>4. /\ ClosureReasons(gate) = {} /\ RingShareEvictions(gate) = 0
          /\ CyclesAsExpected(gate) /\ Paid >= 1
      BY <3>2, AllAsserted
    <3>5. /\ CycleEvents(gate, "recovered") = HowMany(key, {"recovered"})
          /\ CycleEvents(gate, "failed") = HowMany(key, {"failed"})
          /\ ~closed /\ evicted = 0
      BY <3>3, <3>4, JudgeReads
    <3> HIDE DEF gate
    <3>6. key[1] = "recovered" /\ sweep[1] = "paid"
      BY <3>4, <3>5, FirstIsIt DEF CyclesAsExpected
    <3>7. dead # {}
      BY <3>3 DEF EndInv
    <3>8. stage' = "over" /\ UNCHANGED <<evicted, dead, key, sweep, closed>>
      BY <2>1 DEF Ends, cycleVars
    <3>9. PassMeansSurvived'
      BY <3>5, <3>6, <3>7, <3>8 DEF PassMeansSurvived
    <3> QED
      BY <3>8, <3>9 DEF EndInv
  <2> QED
    BY <2>2, <2>3
<1>5. CASE Open
  <2>1. CASE \E how \in {"not started", "refused"} : Ends(how)
    BY <1>2, <2>1
  <2>2. CASE stage' = "baseline" /\ verdict' = verdict
    BY <1>1, <1>5, <2>2 DEF Open
  <2> QED
    BY <1>5, <2>1, <2>2 DEF Open
<1>6. CASE Errs \/ JoinedFailed
  BY <1>2, <1>6 DEF Errs, JoinedFailed
<1>7. CASE Kill
  BY <1>1, <1>7 DEF Kill
<1>8. CASE Baseline \/ DriverFails \/ Sampled \/ WarmedUp
  BY <1>1, <1>8 DEF Baseline, DriverFails, Sampled, WarmedUp
<1>9. CASE SweepsAwaited
  <2>1. dead # {} /\ dead' = dead /\ stage = "sweeps" /\ stage' = "join" /\ verdict' = verdict
    BY <1>9 DEF SweepsAwaited, EndInv, relayVars
  <2> QED
    BY <1>1, <2>1
<1>10. CASE \E r \in Relays : Scraped(r)
  <2>1. UNCHANGED <<stage, verdict, dead>>
    BY <1>10 DEF Scraped, relayVars
  <2>2. CASE stage = "over"
    BY <2>1, <2>2, <1>10 DEF Scraped, cycleVars, streamVars, EndInv, PassMeansSurvived
  <2> QED
    BY <1>3, <2>1, <2>2
<1>11. CASE Network
  <2>1. stage # "over" /\ stage' = stage /\ verdict' = verdict /\ dead' = dead
    BY <1>11 DEF Network, Mint, Spend, Wipe, RecoversFirst, RecoveryIdle, Deposited, Asks,
                 Recovers, SweepsKey, Keep, InFlight, Live, relayVars
  <2> QED
    BY <1>3, <2>1
<1>12. CASE WriterStops \/ WriterTroubles \/ ReaderStops \/ Over \/ UNCHANGED vars
  <2>1. UNCHANGED <<stage, verdict, dead, evicted, key, sweep, closed>>
    BY <1>12 DEF WriterStops, WriterTroubles, ReaderStops, Over, vars, streamVars, relayVars, cycleVars
  <2> QED
    BY <2>1 DEF EndInv, PassMeansSurvived
<1> QED
  BY <1>4, <1>5, <1>6, <1>7, <1>8, <1>9, <1>10, <1>11, <1>12 DEF Next, Test

(* A scenario passes only if a relayer was killed and the very cycle in    *)
(* flight was recovered, swept and paid, with no share of it evicted and   *)
(* the Session open: what the two readings of the gate (ExitTelemetry's    *)
(* since, cycle_events, ring_share_evictions and closure_reasons) and the  *)
(* ensure!s of pix_relay_loss.rs say together.                             *)
THEOREM PassIsSurvival == Spec => []PassMeansSurvived
<1>1. Init => CycleInv /\ BaseInv /\ EndInv
  <2> SUFFICES ASSUME Init PROVE CycleInv /\ BaseInv /\ EndInv
    OBVIOUS
  <2>1. \A v : All(v) \in [Cycles -> {v}]
    BY DEF All
  <2>2. key = All("none") /\ sweep = All("no") /\ evicted = 0 /\ closed = FALSE /\ stage = "install"
    BY DEF Init
  <2>3. CycleInv
    BY <2>1, <2>2 DEF CycleInv, All
  <2> QED
    BY <2>3 DEF Init, BaseInv, EndInv, PassMeansSurvived
<1>2. CycleInv /\ BaseInv /\ EndInv /\ [Next]_vars => (CycleInv /\ BaseInv /\ EndInv)'
  BY CycleStep, BaseStep, EndStep
<1>3. EndInv => PassMeansSurvived
  BY DEF EndInv
<1> QED
  BY <1>1, <1>2, <1>3, PTL DEF Spec
=============================================================================
