---------------------------- MODULE MCPixPayment ----------------------------
(* TLC: a Session of up to four cycles, of which the happy scenario wants  *)
(* one and budgets four, and the exhaustion scenario budgets two; the      *)
(* smaller funds cover neither.  The readings and the profiles, which have *)
(* no behaviour of their own, are evaluated here.                          *)
EXTENDS PixPayment

-----------------------------------------------------------------------------
(* The readings against what was observed: how often each value was.       *)

Values == 1 .. 3

Observed == [Values -> 0 .. 2]

Upto(o, v) == MapThenSumSet(LAMBDA w : o[w], 1 .. v)

(* The exposition of a histogram bounded at 1 and 2. *)
HistogramBody(o) ==
  {[name |-> "cycle_accepted", suffix |-> "bucket", labels |-> [le |-> b], value |-> Upto(o, b)] : b \in {1, 2}}
  \cup {[name |-> "cycle_accepted", suffix |-> "sum", labels |-> <<>>,
         value |-> MapThenSumSet(LAMBDA v : v * o[v], Values)],
        [name |-> "cycle_accepted", suffix |-> "count", labels |-> <<>>, value |-> Upto(o, 3)]}

ReadHistogram(o) == ReadExit(HistogramBody(o)).hists[<<"cycle_accepted", <<>>>>]

(* What two readings of a histogram differ by is the histogram of what was *)
(* observed between them, and what is above a bound of it are exactly the  *)
(* larger values; a bound it was not given says nothing.                   *)
ASSUME HistogramsDiffer ==
  \A o, p \in Observed :
    LET between == HistogramSince(ReadHistogram(o), ReadHistogram([v \in Values |-> o[v] + p[v]]))
    IN  /\ between = ReadHistogram(p)
        /\ Above(between, 1) = p[2] + p[3] /\ Above(between, 2) = p[3]
        /\ Above(between, 3) = Nothing

Plains == [name : {"cycles", "sessions_active"}, suffix : {"total", "none"},
           labels : {<<>>, [gate_mode |-> "off"], [gate_mode |-> "on"]}, value : {0, 2, Unset}]

(* A registered series without a count reads zero and one that was never   *)
(* registered is absent; a census is read as it stands whatever it was;    *)
(* evictions alone do not make an Exit observable.                         *)
ASSUME ReadingsKeepAbsence ==
  /\ \A a, b \in Plains :
       LET before  == ReadExit({a})
           since   == ExitSince(before, ReadExit({a, b}))
           census  == {s \in {a, b} : /\ s.name = "sessions_active" /\ s.suffix = "none"
                                      /\ s.value # Unset}
       IN  (SeriesKey(a) = SeriesKey(b) /\ a.suffix = b.suffix => a = b) =>
           /\ Observable(before) <=> a.value # Unset
           /\ since.gauges = ReadExit({a, b}).gauges
           /\ SessionsActive(since) =
                IF census = {} THEN Nothing ELSE MapThenSumSet(Number, census)
           /\ (b.suffix = "total" /\ b.value # Unset) =>
                At(since.counters, SeriesKey(b)) =
                  (IF b = a \/ b.value = 0 THEN 0 ELSE b.value)
  /\ ~Observable(ReadExit({[name |-> Evictions, suffix |-> "count", labels |-> <<>>, value |-> 2]}))
-----------------------------------------------------------------------------
(* The profiles at their real size. *)

Real == INSTANCE PixProfile WITH Window <- 512, PixPolys <- 512, PixShares <- 64,
  DefaultSurplus <- 32, MinSurplus <- 4, FieldMax <- 255, TargetRate <- 150

NotSet == Real!NotSet

Setting(surplus, buffer, rate) ==
  [polys |-> NotSet, threshold |-> NotSet, surplus |-> surplus, rate |-> rate,
   buffer |-> buffer, served |-> NotSet]

Default == Setting(NotSet, NotSet, NotSet)

(* What tests/pix_relay_loss.rs and the profile's documentation count on:  *)
(* the default surplus clears its burst twice over, the control does not   *)
(* cover one buffer, and production's 79 do cover a deployed one.          *)
ASSUME ProfileFigures ==
  /\ Real!CyclePackets(Default) = 49152 /\ Real!NominalCycleSecs(Default) = 327
  /\ Real!FreeCredit(Default) = 16384 /\ Real!SurbBufferTarget(Default) = 2400
  /\ Real!Clears(Default, 2)
  /\ Real!ToleratedBurst(Setting(4, NotSet, NotSet)) < Real!SurbBufferTarget(Default)
  /\ Real!RequiredSurplus(19264, 0, 1) = 79 - 41 /\ Real!RequiredSurplus(19264, 400, 1) = 41
  /\ Real!ShapeCycle = 40960 /\ Real!ShapeGuards

(* Over a sweep of the knobs both profiles are ones the nodes start on and *)
(* the two sides agree on.                                                 *)
ASSUME ProfilesFit ==
  \A surplus \in {NotSet, 0, 8, 64, 79, 300}, buffer \in {NotSet, 0, 20000}, rate \in {NotSet, 50, 3000} :
    LET k    == Setting(surplus, buffer, rate)
        exit == Real!ClusterPix(k)
    IN  /\ Real!Starts(exit) /\ Real!Admits(exit, Real!EntryDimensions(k))
        /\ Real!Pays(Real!EntryConfig(k), Real!EntryDimensions(k))
        /\ Real!Tracks(Real!EntryConfig(k), exit)
        /\ Real!Drains(Real!SurbBalancer(k).target, Real!FreeCredit(k), exit)
        /\ \A fill \in BOOLEAN :
             LET shape == Real!ShapeClusterPix(k, fill) IN
             /\ Real!Starts(shape) /\ Real!Admits(shape, Real!ShapeDimensions)
             /\ Real!Pays(Real!ShapeEntryConfig, Real!ShapeDimensions)
             /\ Real!Tracks(Real!ShapeEntryConfig, shape)
             /\ Real!Drains(Real!ShapeSurbBalancer(k).target, Real!ShapeFreeCredit, shape)
=============================================================================
