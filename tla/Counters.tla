------------------------------ MODULE Counters ------------------------------
(***************************************************************************)
(* The readings the PIX scenarios judge by: the settlement counters of     *)
(* pix.rs (PixCounters) and the Exit's aggregates of pix_exit.rs           *)
(* (ExitTelemetry), parsed out of a node's Prometheus exposition.          *)
(*                                                                         *)
(* An exposition is a set of series [name, suffix, labels, value]; labels  *)
(* is a function from label names to values, and a value that is no        *)
(* non-negative number is Unset.  A reading is a function from keys to     *)
(* counts, so that absent and zero stay apart: a key outside the domain    *)
(* was never registered.                                                   *)
(***************************************************************************)
EXTENDS Integers, FiniteSetsExt, Functions

(* No finite number; counts are never negative. *)
Unset == -1

Settlement == {"tracking", "keys", "sweeps", "deposits", "failed", "rejected", "over_budget"}

Aggregates == {"shares", "cycles", "closures", "sessions_active", "cycle_accepted"}

Evictions == "surb_store_evictions"

(* hopr_pix_ and hopr_strategy_pix_ do not match one another's series. *)
IsSettlement(s) == s.name \in Settlement

IsAggregate(s) == s.name \in Aggregates

IsEviction(s) == s.name = Evictions /\ s.suffix \in {"count", "count_total"}

Number(s) == IF s.value = Unset THEN 0 ELSE s.value

-----------------------------------------------------------------------------
(* Reading and differencing, common to both families *)

(* u64::saturating_sub *)
SafeSub(a, b) == IF a > b THEN a - b ELSE 0

(* get(key).unwrap_or(0) *)
At(reading, key) == IF key \in DOMAIN reading THEN reading[key] ELSE 0

(* The series that share a key are added up; key has one for each series. *)
Summed(key) ==
  [k \in Range(key) |-> MapThenSumSet(Number, {s \in DOMAIN key : key[s] = k})]

(* What was counted between two readings, for the keys of the later one;   *)
(* a counter that was reset in between reads as nothing.                   *)
Since(before, later) == [k \in DOMAIN later |-> SafeSub(later[k], At(before, k))]

-----------------------------------------------------------------------------
(* PixCounters *)

(* A labelled series goes by its outcome whatever other labels it has, and *)
(* by all of them when it has none.                                        *)
PixKey(s) ==
  <<s.name, IF "outcome" \in DOMAIN s.labels THEN s.labels.outcome ELSE s.labels>>

(* An unlabelled family. *)
Plain(name) == <<name, <<>>>>

Tracking(outcome) == <<"tracking", outcome>>

ReadPix(body) == Summed([s \in {t \in body : IsSettlement(t)} |-> PixKey(s)])

Registered(reading) == DOMAIN reading # {}

-----------------------------------------------------------------------------
(* ExitTelemetry *)

(* The labels of a series but for the bound of a histogram's bucket. *)
WithoutLe(labels) == Restrict(labels, DOMAIN labels \ {"le"})

SeriesKey(s) == <<s.name, WithoutLe(s.labels)>>

(* The instrument a rendered name belongs to, its suffixes tried in the    *)
(* order of classify.                                                      *)
Kind(s) ==
  CASE s.suffix \in {"bucket", "sum", "count"} -> "histogram"
    [] s.suffix = "total" -> "counter"
    [] OTHER -> "gauge"

(* A series whose value is no number is not read at all. *)
Rendered(body) == {s \in body : s.value # Unset}

OfKind(body, kind) == {s \in Rendered(body) : IsAggregate(s) /\ Kind(s) = kind}

(* The value of the one series of a histogram with that suffix and bound. *)
Part(series, key, suffix) ==
  MapThenSumSet(Number, {s \in series : SeriesKey(s) = key /\ s.suffix = suffix})

Bounds(series, key) ==
  {s.labels.le : s \in {t \in series : SeriesKey(t) = key /\ t.suffix = "bucket"}}

Bucket(series, key, le) ==
  Part({s \in series : s.suffix = "bucket" /\ s.labels.le = le}, key, "bucket")

Histogram(series, key) ==
  [buckets |-> [le \in Bounds(series, key) |-> Bucket(series, key, le)],
   sum     |-> Part(series, key, "sum"),
   count   |-> Part(series, key, "count")]

NoHistogram == [buckets |-> <<>>, sum |-> 0, count |-> 0]

(* The evictions are no hopr_pix_ series: folded into the counters they    *)
(* would make an Exit without aggregates look observable.                  *)
ReadExit(body) ==
  LET hists == OfKind(body, "histogram") IN
  [counters  |-> Summed([s \in OfKind(body, "counter") |-> SeriesKey(s)]),
   gauges    |-> Summed([s \in OfKind(body, "gauge") |-> SeriesKey(s)]),
   hists     |-> [k \in {SeriesKey(s) : s \in hists} |-> Histogram(hists, k)],
   evictions |-> Summed([s \in {t \in Rendered(body) : IsEviction(t)} |-> SeriesKey(s)])]

(* Buckets are cumulative, so their differences are again a histogram. *)
HistogramSince(before, later) ==
  [buckets |-> Since(before.buckets, later.buckets),
   sum     |-> SafeSub(later.sum, before.sum),
   count   |-> SafeSub(later.count, before.count)]

(* Gauges are a census and are read as they stand, never differenced. *)
ExitSince(before, later) ==
  [counters  |-> Since(before.counters, later.counters),
   gauges    |-> later.gauges,
   hists     |-> [k \in DOMAIN later.hists |->
                    HistogramSince(IF k \in DOMAIN before.hists THEN before.hists[k] ELSE NoHistogram,
                                   later.hists[k])],
   evictions |-> Since(before.evictions, later.evictions)]

Observable(t) == \E part \in {t.counters, t.gauges, t.hists} : DOMAIN part # {}

Nothing == -1

(* Observations strictly above a bound; Nothing if there is no such bound. *)
Above(h, le) == IF le \in DOMAIN h.buckets THEN SafeSub(h.count, h.buckets[le]) ELSE Nothing

Series(name, label, value) == <<name, [l \in {label} |-> value]>>

CycleEvents(t, event) == At(t.counters, Series("cycles", "event", event))

(* Every reason a Session was closed for, with how often. *)
ClosureReasons(t) ==
  {<<k[2].reason, t.counters[k]>> :
     k \in {c \in DOMAIN t.counters : c[1] = "closures" /\ t.counters[c] > 0}}

(* Evicted SURBs that carried a share, for whatever cause. *)
RingShareEvictions(t) ==
  MapThenSumSet(LAMBDA k : t.evictions[k], {k \in DOMAIN t.evictions : k[2].cache = "ring_share"})

(* The supervised Sessions over every gate mode; Nothing before the first. *)
SessionsActive(t) ==
  LET census == {k \in DOMAIN t.gauges : k[1] = "sessions_active"} IN
  IF census = {} THEN Nothing ELSE MapThenSumSet(LAMBDA k : t.gauges[k], census)
=============================================================================
