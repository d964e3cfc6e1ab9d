-------------------------- MODULE ExitTraceProofs --------------------------
(***************************************************************************)
(* The Exit's trace for every cadence of scrapes, every number of samples, *)
(* every Session left behind and every ceiling: what the trace calls a run *)
(* is never longer than the Session's own, and a run it calls fragmented   *)
(* was short.                                                              *)
(***************************************************************************)
EXTENDS ExitTrace, FiniteSetTheorems, WellFoundedInduction, TLAPS

-----------------------------------------------------------------------------
(* Induction over the natural numbers, in the form the provers can take: a *)
(* set of numbers in the place of a predicate.                             *)

(* A set of natural numbers has a least one. *)
LEMMA NatLeast ==
  ASSUME NEW S, S \subseteq Nat, S # {}
  PROVE  \E m \in S : \A k \in S : m <= k
<1> DEFINE Below == {0 .. n : n \in S}
<1>1. Below \subseteq FiniteSubsetsOf(Nat)
  <2>1. ASSUME NEW n \in S PROVE 0 .. n \in SUBSET Nat /\ IsFiniteSet(0 .. n)
    <3>1. n \in Int /\ 0 \in Int
      OBVIOUS
    <3> QED
      BY <3>1, FS_Interval
  <2> QED
    BY <2>1 DEF FiniteSubsetsOf
<1>2. IsWellFoundedOn(StrictSubsetOrdering(Nat), FiniteSubsetsOf(Nat))
  BY FS_StrictSubsetOrderingWellFounded
<1>3. \E x \in Below : \A y \in Below : <<y, x>> \notin StrictSubsetOrdering(Nat)
  <2>1. Below # {}
    OBVIOUS
  <2> HIDE DEF Below
  <2> QED
    BY <1>1, <1>2, <2>1, WFMin
<1>4. PICK m \in S : \A k \in S : <<0 .. k, 0 .. m>> \notin StrictSubsetOrdering(Nat)
  BY <1>3
<1>5. ASSUME NEW k \in S, ~(m <= k) PROVE FALSE
  <2>1. k \in Nat /\ m \in Nat /\ k < m
    BY <1>5
  <2>2. 0 .. k \in SUBSET Nat /\ 0 .. m \in SUBSET Nat /\ 0 .. k \subseteq 0 .. m /\ 0 .. k # 0 .. m
    BY <2>1
  <2> QED
    BY <1>4, <2>2 DEF StrictSubsetOrdering
<1> QED
  BY <1>5

(* A set that has 0 and with each number the next has them all. *)
LEMMA SetInduction ==
  ASSUME NEW S, 0 \in S, \A n \in Nat : n \in S => n + 1 \in S
  PROVE  Nat \subseteq S
<1> SUFFICES ASSUME Nat \ S # {} PROVE FALSE
  OBVIOUS
<1>1. PICK m \in Nat \ S : \A k \in Nat \ S : m <= k
  BY NatLeast
<1>2. m - 1 \in Nat /\ ~(m <= m - 1)
  BY <1>1
<1>3. m - 1 \in S
  BY <1>1, <1>2
<1> QED
  BY <1>1, <1>2, <1>3

(* The values of a function on an interval have a greatest one. *)
LEMMA Greatest ==
  ASSUME NEW n \in Nat, NEW f \in [0 .. n -> Int]
  PROVE  /\ Max({f[i] : i \in 0 .. n}) \in {f[i] : i \in 0 .. n}
         /\ \A i \in 0 .. n : f[i] <= Max({f[j] : j \in 0 .. n})
<1> DEFINE S == {m \in Nat : m <= n => \E k \in 0 .. m : \A i \in 0 .. m : f[i] <= f[k]}
<1>1. 0 \in S
  OBVIOUS
<1>2. ASSUME NEW m \in Nat, m \in S PROVE m + 1 \in S
  <2> SUFFICES ASSUME m + 1 <= n PROVE \E k \in 0 .. m + 1 : \A i \in 0 .. m + 1 : f[i] <= f[k]
    OBVIOUS
  <2>1. PICK k \in 0 .. m : \A i \in 0 .. m : f[i] <= f[k]
    BY <1>2
  <2>2. f[k] \in Int /\ f[m + 1] \in Int /\ \A i \in 0 .. m + 1 : f[i] \in Int /\ (i \in 0 .. m \/ i = m + 1)
    OBVIOUS
  <2>3. CASE f[m + 1] <= f[k]
    BY <2>1, <2>2, <2>3
  <2>4. CASE f[k] <= f[m + 1]
    <3>1. ASSUME NEW i \in 0 .. m + 1 PROVE f[i] <= f[m + 1]
      BY <2>1, <2>2, <2>4
    <3> QED
      BY <3>1
  <2> QED
    BY <2>2, <2>3, <2>4
<1>3. Nat \subseteq S
  <2> HIDE DEF S
  <2> QED
    BY <1>1, <1>2, SetInduction
<1>4. \E k \in 0 .. n : \A i \in 0 .. n : f[i] <= f[k]
  <2>1. n \in S
    <3> HIDE DEF S
    <3> QED
      BY <1>3
  <2> QED
    BY <2>1
<1>5. \E x \in {f[i] : i \in 0 .. n} : \A y \in {f[i] : i \in 0 .. n} : x >= y
  BY <1>4
<1> QED
  BY <1>5 DEF Max

-----------------------------------------------------------------------------
(* The trace's longest run as a function of its samples *)

Reading == [useful : Nat, surplus : Nat, active : Nat]

(* The i-th step of a trace s ends its run; what it adds to it otherwise.  *)
Cut(s, i)  == \/ s[i + 1]["useful"] - s[i]["useful"] > Tolerance
              \/ s[i].active > 1 \/ s[i + 1].active > 1
Gain(s, i) == s[i + 1]["surplus"] - s[i]["surplus"]

(* The run behind the i-th step, of one that was x before it. *)
RunStep(s, i, x) == IF i \notin 1 .. Len(s) - 1 THEN 0 ELSE IF Cut(s, i) THEN 0 ELSE x + Gain(s, i)

IsRun(run, s) ==
  run = [i \in 0 .. Len(s) |-> IF i = 0 \/ i \notin 1 .. Len(s) - 1 THEN 0
                               ELSE IF Cut(s, i) THEN 0 ELSE run[i - 1] + Gain(s, i)]

RunOf(s) == CHOOSE run : IsRun(run, s)

(* What is stepped along a trace of readings is a number. *)
LEMMA StepType ==
  ASSUME NEW s \in Seq(Reading), NEW i \in Nat, NEW x \in Int
  PROVE  /\ RunStep(s, i, x) \in Int
         /\ i \in 1 .. Len(s) - 1 => Gain(s, i) \in Int
<1>1. ASSUME i \in 1 .. Len(s) - 1 PROVE Gain(s, i) \in Int
  <2>1. Len(s) \in Nat /\ i \in 1 .. Len(s) /\ i + 1 \in 1 .. Len(s)
    BY <1>1
  <2>2. s[i] \in Reading /\ s[i + 1] \in Reading
    BY <2>1
  <2>3. s[i].surplus \in Nat /\ s[i + 1].surplus \in Nat
    BY <2>2 DEF Reading
  <2> QED
    BY <2>3 DEF Gain
<1>2. i \in 1 .. Len(s) - 1 => x + Gain(s, i) \in Int
  BY <1>1
<1> QED
  BY <1>1, <1>2 DEF RunStep

(* A run satisfies its recursion step by step, and only a run does.        *)
LEMMA RunUnfolds ==
  ASSUME NEW s \in Seq(Reading), NEW run
  PROVE  IsRun(run, s) <=> /\ run = [i \in 0 .. Len(s) |-> run[i]]
                           /\ run[0] = 0
                           /\ \A i \in 1 .. Len(s) : run[i] = RunStep(s, i, run[i - 1])
<1>1. Len(s) \in Nat
  OBVIOUS
<1>2. ASSUME IsRun(run, s)
      PROVE  /\ run = [i \in 0 .. Len(s) |-> run[i]]
             /\ run[0] = 0
             /\ \A i \in 1 .. Len(s) : run[i] = RunStep(s, i, run[i - 1])
  BY <1>1, <1>2 DEF IsRun, RunStep
<1>3. ASSUME /\ run = [i \in 0 .. Len(s) |-> run[i]]
             /\ run[0] = 0
             /\ \A i \in 1 .. Len(s) : run[i] = RunStep(s, i, run[i - 1])
      PROVE  IsRun(run, s)
  <2>1. ASSUME NEW i \in 0 .. Len(s)
        PROVE  run[i] = IF i = 0 \/ i \notin 1 .. Len(s) - 1 THEN 0
                        ELSE IF Cut(s, i) THEN 0 ELSE run[i - 1] + Gain(s, i)
    <3>1. i = 0 \/ i \in 1 .. Len(s)
      BY <1>1
    <3> QED
      BY <1>3, <3>1 DEF RunStep
  <2> QED
    BY <1>3, <2>1 DEF IsRun
<1> QED
  BY <1>2, <1>3

(* Every trace has its run, and its values are numbers. *)
LEMMA RunExists ==
  ASSUME NEW s \in Seq(Reading)
  PROVE  RunOf(s) \in [0 .. Len(s) -> Int] /\ IsRun(RunOf(s), s)
<1> DEFINE Upto(n) == {f \in [0 .. n -> Int] : f[0] = 0 /\ \A i \in 1 .. n : f[i] = RunStep(s, i, f[i - 1])}
           S == {n \in Nat : n <= Len(s) => Upto(n) # {}}
<1>0. Len(s) \in Nat
  OBVIOUS
<1>1. 0 \in S
  <2>1. [i \in 0 .. 0 |-> 0] \in Upto(0)
    OBVIOUS
  <2> QED
    BY <2>1
<1>2. ASSUME NEW n \in Nat, n \in S PROVE n + 1 \in S
  <2> SUFFICES ASSUME n + 1 <= Len(s) PROVE Upto(n + 1) # {}
    OBVIOUS
  <2>1. PICK f \in Upto(n) : TRUE
    BY <1>0, <1>2
  <2> DEFINE g == [i \in 0 .. n + 1 |-> IF i = n + 1 THEN RunStep(s, n + 1, f[n]) ELSE f[i]]
  <2>2. f \in [0 .. n -> Int] /\ f[0] = 0 /\ \A i \in 1 .. n : f[i] = RunStep(s, i, f[i - 1])
    BY <2>1
  <2>3. RunStep(s, n + 1, f[n]) \in Int
    BY <2>2, StepType
  <2>4. g \in [0 .. n + 1 -> Int] /\ g[0] = 0
    BY <2>2, <2>3
  <2>5. ASSUME NEW i \in 1 .. n + 1 PROVE g[i] = RunStep(s, i, g[i - 1])
    <3>1. CASE i = n + 1
      BY <3>1
    <3>2. CASE i \in 1 .. n
      BY <2>2, <3>2
    <3> QED
      BY <3>1, <3>2
  <2> HIDE DEF g
  <2> QED
    BY <2>4, <2>5
<1>3. Len(s) \in S
  <2> HIDE DEF S
  <2> QED
    BY <1>0, <1>1, <1>2, SetInduction
<1>4. PICK f \in [0 .. Len(s) -> Int] : f[0] = 0 /\ \A i \in 1 .. Len(s) : f[i] = RunStep(s, i, f[i - 1])
  BY <1>0, <1>3
<1>5. IsRun(f, s)
  BY <1>4, RunUnfolds
<1>6. IsRun(RunOf(s), s)
  BY <1>5 DEF RunOf
<1> DEFINE r == RunOf(s)
<1>7. r = [i \in 0 .. Len(s) |-> r[i]] /\ r[0] = 0 /\ \A i \in 1 .. Len(s) : r[i] = RunStep(s, i, r[i - 1])
  BY <1>6, RunUnfolds
<1>8. \A i \in 0 .. Len(s) : r[i] \in Int
  <2> DEFINE Z == {n \in Nat : n <= Len(s) => r[n] \in Int}
  <2> HIDE DEF r
  <2>1. 0 \in Z
    BY <1>7
  <2>2. ASSUME NEW n \in Nat, n \in Z PROVE n + 1 \in Z
    <3> SUFFICES ASSUME n + 1 <= Len(s) PROVE r[n + 1] \in Int
      OBVIOUS
    <3>1. r[n] \in Int
      BY <1>0, <2>2
    <3>2. n + 1 \in 1 .. Len(s) /\ (n + 1) - 1 = n /\ n + 1 \in Nat
      BY <1>0
    <3>3. r[n + 1] = RunStep(s, n + 1, r[n])
      BY <1>7, <3>2
    <3> QED
      BY <3>1, <3>2, <3>3, StepType
  <2>3. Nat \subseteq Z
    <3> HIDE DEF Z
    <3> QED
      BY <2>1, <2>2, SetInduction
  <2>4. ASSUME NEW i \in 0 .. Len(s) PROVE r[i] \in Int
    BY <1>0, <2>3
  <2> QED
    BY <2>4
<1> QED
  BY <1>6, <1>7, <1>8

(* The trace's current run is the one its samples define. *)
LEMMA CurrentIs == Current = RunOf(samples) /\ Current' = RunOf(samples')
  BY DEF Current, RunOf, IsRun, Steps, EndsRun, ForeignStep, Delta, Cut, Gain

(* A further reading leaves the steps before it as they were, and adds one.*)
LEMMA RunGrows ==
  ASSUME NEW s \in Seq(Reading), NEW e \in Reading
  PROVE  LET t == Append(s, e)
             n == Len(s)
         IN
         /\ \A i \in 0 .. n - 1 : RunOf(t)[i] = RunOf(s)[i]
         /\ RunOf(s)[0] = 0 /\ RunOf(t)[0] = 0 /\ RunOf(s)[n] = 0 /\ RunOf(t)[n + 1] = 0
         /\ n # 0 => RunOf(t)[n] = IF Cut(t, n) THEN 0 ELSE RunOf(s)[n - 1] + Gain(t, n)
<1> DEFINE t == Append(s, e)
           n == Len(s)
           f == RunOf(s)
           g == RunOf(t)
<1>1. /\ n \in Nat /\ n = Len(s) /\ t \in Seq(Reading) /\ Len(t) = n + 1
      /\ \A i \in 1 .. n : t[i] = s[i]
  OBVIOUS
<1> HIDE DEF t, n
<1>2. /\ f[0] = 0 /\ \A i \in 1 .. n : f[i] = RunStep(s, i, f[i - 1])
      /\ g[0] = 0 /\ \A i \in 1 .. n + 1 : g[i] = RunStep(t, i, g[i - 1])
  <2>1. IsRun(f, s) /\ IsRun(g, t)
    BY <1>1, RunExists
  <2> HIDE DEF f, g
  <2>2. f[0] = 0 /\ \A i \in 1 .. n : f[i] = RunStep(s, i, f[i - 1])
    BY <2>1, RunUnfolds
  <2>3. g[0] = 0 /\ \A i \in 1 .. n + 1 : g[i] = RunStep(t, i, g[i - 1])
    BY <1>1, <2>1, RunUnfolds
  <2> QED
    BY <2>2, <2>3
<1> HIDE DEF f, g
<1>3. \A i \in 1 .. n - 1 : \A x : RunStep(t, i, x) = RunStep(s, i, x)
  BY <1>1 DEF RunStep, Cut, Gain
<1>4. \A i \in 0 .. n - 1 : g[i] = f[i]
  <2> DEFINE Z == {m \in Nat : m <= n - 1 => g[m] = f[m]}
  <2>1. 0 \in Z
    BY <1>2
  <2>2. ASSUME NEW m \in Nat, m \in Z PROVE m + 1 \in Z
    <3> SUFFICES ASSUME m + 1 <= n - 1 PROVE g[m + 1] = f[m + 1]
      OBVIOUS
    <3>1. /\ m + 1 \in 1 .. n - 1 /\ m + 1 \in 1 .. n /\ m + 1 \in 1 .. n + 1
          /\ (m + 1) - 1 = m /\ g[m] = f[m]
      BY <1>1, <2>2
    <3>2. g[m + 1] = RunStep(t, m + 1, g[m]) /\ f[m + 1] = RunStep(s, m + 1, f[m])
      BY <1>2, <3>1
    <3> QED
      BY <1>3, <3>1, <3>2
  <2>3. Nat \subseteq Z
    <3> HIDE DEF Z
    <3> QED
      BY <2>1, <2>2, SetInduction
  <2>4. ASSUME NEW i \in 0 .. n - 1 PROVE g[i] = f[i]
    BY <1>1, <2>3
  <2> QED
    BY <2>4
<1>5. f[n] = 0 /\ g[n + 1] = 0
  BY <1>1, <1>2 DEF RunStep
<1>6. ASSUME n # 0 PROVE g[n] = IF Cut(t, n) THEN 0 ELSE f[n - 1] + Gain(t, n)
  <2>1. n \in 1 .. Len(t) - 1 /\ n \in 1 .. n + 1 /\ n - 1 \in 0 .. n - 1
    BY <1>1, <1>6
  <2> QED
    BY <1>2, <1>4, <2>1 DEF RunStep
<1> QED
  BY <1>2, <1>4, <1>5, <1>6 DEF f, g, t, n

(* The run that stands behind the trace's last step. *)
Standing == IF samples = <<>> THEN 0 ELSE Current[Len(samples) - 1]

(* The longest run is that of some step and no step's is longer. *)
LEMMA LongestIs ==
  ASSUME samples \in Seq(Reading)
  PROVE  /\ LongestSurplusOnlyRun \in Int /\ Standing \in Int
         /\ 0 <= LongestSurplusOnlyRun /\ Standing <= LongestSurplusOnlyRun
         /\ samples = <<>> => LongestSurplusOnlyRun = 0
<1> DEFINE f == RunOf(samples)
           n == Len(samples)
<1>1. n \in Nat /\ f \in [0 .. n -> Int] /\ f[0] = 0
  BY RunExists, RunUnfolds
<1>2. LongestSurplusOnlyRun = Max({f[i] : i \in 0 .. n})
  BY CurrentIs DEF LongestSurplusOnlyRun
<1>3. Standing = IF n = 0 THEN 0 ELSE f[n - 1]
  BY CurrentIs DEF Standing
<1> HIDE DEF f, n
<1>4. /\ LongestSurplusOnlyRun \in {f[i] : i \in 0 .. n}
      /\ \A i \in 0 .. n : f[i] <= LongestSurplusOnlyRun
  BY <1>1, <1>2, Greatest
<1>5. n # 0 => n - 1 \in 0 .. n
  BY <1>1
<1>6. samples = <<>> => n = 0
  BY DEF n
<1> QED
  BY <1>1, <1>3, <1>4, <1>5, <1>6

(* The same of the trace as a step leaves it. *)
LEMMA LongestNext ==
  ASSUME samples' \in Seq(Reading)
  PROVE  LongestSurplusOnlyRun' \in Int
<1> DEFINE g == RunOf(samples')
           n == Len(samples')
<1>1. n \in Nat /\ g \in [0 .. n -> Int]
  BY RunExists
<1>2. LongestSurplusOnlyRun' = Max({g[i] : i \in 0 .. n})
  BY CurrentIs DEF LongestSurplusOnlyRun
<1> HIDE DEF g, n
<1> QED
  BY <1>1, <1>2, Greatest

(* A trace that begins anew has no run. *)
LEMMA LongestStart ==
  ASSUME samples' = <<>>
  PROVE  LongestSurplusOnlyRun' = 0 /\ Standing' = 0
<1>1. samples' \in Seq(Reading)
  OBVIOUS
<1>2. RunOf(samples') \in [0 .. 0 -> Int] /\ RunOf(samples')[0] = 0
  BY <1>1, RunExists, RunUnfolds
<1>3. LongestSurplusOnlyRun' = Max({RunOf(samples')[i] : i \in 0 .. 0})
  BY CurrentIs DEF LongestSurplusOnlyRun
<1>4. LongestSurplusOnlyRun' \in {RunOf(samples')[i] : i \in 0 .. 0}
  BY <1>2, <1>3, Greatest
<1> QED
  BY <1>2, <1>4 DEF Standing

(* What a scrape does to both. *)
LEMMA ScrapeGrows ==
  ASSUME samples \in Seq(Reading), NEW e \in Reading, samples' = Append(samples, e)
  PROVE  LET n == Len(samples) IN
         /\ Standing' = IF n = 0 \/ Cut(samples', n) THEN 0 ELSE Standing + Gain(samples', n)
         /\ LongestSurplusOnlyRun' \in Int /\ Standing' \in Int
         /\ LongestSurplusOnlyRun <= LongestSurplusOnlyRun'
         /\ LongestSurplusOnlyRun' \in {LongestSurplusOnlyRun, Standing'}
<1> DEFINE f == RunOf(samples)
           t == samples'
           g == RunOf(t)
           n == Len(samples)
<1>1. n \in Nat /\ t \in Seq(Reading) /\ Len(t) = n + 1 /\ samples' # <<>>
  OBVIOUS
<1>2. f \in [0 .. n -> Int] /\ g \in [0 .. n + 1 -> Int]
  BY <1>1, RunExists
<1>3. /\ LongestSurplusOnlyRun = Max({f[i] : i \in 0 .. n})
      /\ LongestSurplusOnlyRun' = Max({g[i] : i \in 0 .. n + 1})
  BY <1>1, CurrentIs DEF LongestSurplusOnlyRun
<1>4. /\ Standing = IF n = 0 THEN 0 ELSE f[n - 1]
      /\ Standing' = g[n]
  BY <1>1, CurrentIs DEF Standing
<1>5. /\ \A i \in 0 .. n - 1 : g[i] = f[i]
      /\ f[0] = 0 /\ g[0] = 0 /\ f[n] = 0 /\ g[n + 1] = 0
      /\ n # 0 => g[n] = IF Cut(t, n) THEN 0 ELSE f[n - 1] + Gain(t, n)
  <2>1. t = Append(samples, e) /\ n = Len(samples)
    OBVIOUS
  <2> HIDE DEF t, n
  <2> QED
    BY <2>1, RunGrows
<1> HIDE DEF f, g, t, n
<1>6. /\ LongestSurplusOnlyRun \in {f[i] : i \in 0 .. n}
      /\ \A i \in 0 .. n : f[i] <= LongestSurplusOnlyRun
  BY <1>1, <1>2, <1>3, Greatest
<1>7. /\ LongestSurplusOnlyRun' \in {g[i] : i \in 0 .. n + 1}
      /\ \A i \in 0 .. n + 1 : g[i] <= LongestSurplusOnlyRun'
  <2>1. n + 1 \in Nat
    BY <1>1
  <2> QED
    BY <1>2, <1>3, <2>1, Greatest
<1>8. LongestSurplusOnlyRun \in Int /\ LongestSurplusOnlyRun' \in Int /\ Standing' \in Int
  BY <1>1, <1>2, <1>4, <1>6, <1>7
<1>9. 0 <= LongestSurplusOnlyRun /\ 0 <= LongestSurplusOnlyRun' /\ Standing' <= LongestSurplusOnlyRun'
  BY <1>1, <1>4, <1>5, <1>6, <1>7
<1>10. LongestSurplusOnlyRun <= LongestSurplusOnlyRun'
  <2>1. PICK k \in 0 .. n : LongestSurplusOnlyRun = f[k]
    BY <1>6
  <2>2. CASE k = n
    BY <1>5, <1>9, <2>1, <2>2
  <2>3. CASE k # n
    <3>1. k \in 0 .. n - 1 /\ k \in 0 .. n + 1
      BY <1>1, <2>3
    <3> QED
      BY <1>5, <1>7, <2>1, <3>1
  <2> QED
    BY <2>2, <2>3
<1>11. LongestSurplusOnlyRun' \in {LongestSurplusOnlyRun, Standing'}
  <2>1. PICK k \in 0 .. n + 1 : LongestSurplusOnlyRun' = g[k]
    BY <1>7
  <2>2. CASE k = n
    BY <1>4, <2>1, <2>2
  <2>3. CASE k = n + 1
    BY <1>5, <1>8, <1>9, <1>10, <2>1, <2>3
  <2>4. CASE k \in 0 .. n - 1
    <3>1. k \in 0 .. n
      BY <1>1, <2>4
    <3>2. LongestSurplusOnlyRun' <= LongestSurplusOnlyRun
      BY <1>5, <1>6, <2>1, <2>4, <3>1
    <3> QED
      BY <1>8, <1>10, <3>2
  <2> QED
    BY <1>1, <2>2, <2>3, <2>4
<1>12. Standing' = IF n = 0 \/ Cut(t, n) THEN 0 ELSE Standing + Gain(t, n)
  BY <1>4, <1>5
<1> QED
  BY <1>8, <1>10, <1>11, <1>12 DEF n, t

-----------------------------------------------------------------------------
(* The invariants *)

(* Counters are numbers that only grow while a trace is taken, and each    *)
(* history variable is within its own maximum.                             *)
Counted ==
  /\ samples \in Seq(Reading) /\ own \in BOOLEAN
  /\ useful \in Nat /\ surplus \in Nat /\ leftover \in Nat
  /\ ownRun \in Nat /\ ownLongest \in Nat /\ ownRun <= ownLongest
  /\ edge \in Nat /\ worstEdge \in Nat /\ edge <= worstEdge /\ orphan \in Nat
  /\ samples # <<>> => Last(samples).useful <= useful /\ Last(samples).surplus <= surplus

(* Behind a reading that counted this Session alone, every surplus share   *)
(* is this Session's: no other one joins a scenario that has begun.        *)
Attributed ==
  Serving /\ own =>
    /\ samples = <<>> => ownRun <= edge
    /\ samples # <<>> /\ Last(samples).active <= 1 =>
         /\ leftover = 0 /\ surplus - Last(samples).surplus = edge
         /\ useful > Last(samples).useful => ownRun <= edge

(* What the trace has standing, and what came since, is one run of the     *)
(* Session's own as long as no useful share came in between.               *)
RunInv ==
  Serving /\ own =>
    /\ LongestSurplusOnlyRun <= ownLongest
    /\ samples # <<>> /\ Last(samples).active <= 1 /\ useful = Last(samples).useful => Standing + edge <= ownRun

(* Once the Session has ended, what the trace has standing and what came   *)
(* since is either the run of Sessions left behind, or the Session's own   *)
(* and nobody is left to add to it.                                        *)
AfterInv ==
  /\ RunIsOwn
  /\ Serving /\ ~own /\ samples # <<>> /\ Last(samples).active <= 1 /\ useful = Last(samples).useful =>
       \/ Standing + (surplus - Last(samples).surplus) <= orphan
       \/ leftover = 0 /\ Standing + (surplus - Last(samples).surplus) <= ownLongest

(* As long as no step is foreign, the trace misses of the Session's run no *)
(* more than what came before its first reading and since its last.        *)
EdgeInv ==
  ForeignSteps = {} =>
    /\ Serving /\ own => ownRun <= worstEdge + Standing + edge
    /\ Serving \/ phase = "closing" => ownLongest <= LongestSurplusOnlyRun + 2 * worstEdge

(* The trace is not touched between its verdict and the scenario's end.    *)
VerdictInv ==
  phase = "closing" =>
    /\ sampler = "done"
    /\ verdict = "fragmented" => ForeignSteps = {} /\ LongestSurplusOnlyRun < Ceiling

(* The larger of two numbers. *)
LEMMA MaxOfTwo ==
  ASSUME NEW a \in Nat, NEW b \in Nat
  PROVE  Max({a, b}) \in {a, b} /\ a <= Max({a, b}) /\ b <= Max({a, b})
<1>1. \E x \in {a, b} : \A y \in {a, b} : x >= y
  OBVIOUS
<1> QED
  BY <1>1 DEF Max

(* A bound of a number and two edges grows with each of them. *)
LEMMA Widens ==
  ASSUME NEW l \in Int, NEW m \in Int, NEW a \in Nat, NEW b \in Nat, NEW x \in Nat,
         x <= l + 2 * a, l <= m, a <= b
  PROVE  x <= m + 2 * b
<1>1. 2 * a = a + a /\ 2 * b = b + b
  BY Z3
<1> QED
  BY <1>1

(* What the trace says of itself rests on its samples alone. *)
LEMMA TraceKept ==
  ASSUME UNCHANGED samples
  PROVE  UNCHANGED <<LongestSurplusOnlyRun, Standing, ForeignSteps>>
<1>1. UNCHANGED Current
  BY CurrentIs
<1> QED
  BY <1>1 DEF LongestSurplusOnlyRun, Standing, ForeignSteps, ForeignStep, Steps

(* What a scrape appends, and what the steps that end in it say. *)
LEMMA Scraped ==
  ASSUME Counted, Scrape
  PROVE  LET n == Len(samples)
             r == [useful |-> useful, surplus |-> surplus, active |-> Active]
         IN
         /\ r \in Reading /\ samples' = Append(samples, r)
         /\ samples' \in Seq(Reading) /\ samples' # <<>> /\ Last(samples)' = r
         /\ n # 0 => /\ Cut(samples', n) <=> \/ useful - Last(samples).useful > Tolerance
                                             \/ Last(samples).active > 1 \/ Active > 1
                     /\ Gain(samples', n) = surplus - Last(samples).surplus
         /\ ForeignSteps' = {} => /\ ForeignSteps = {}
                                  /\ n # 0 => Last(samples).active <= 1 /\ Active <= 1
<1> DEFINE n == Len(samples)
           r == [useful |-> useful, surplus |-> surplus, active |-> Active]
<1>1. Active \in Nat
  BY DEF Counted, Active
<1>2. r \in Reading /\ samples' = Append(samples, r) /\ samples \in Seq(Reading)
  BY <1>1 DEF Counted, Scrape, Reading
<1>3. /\ n \in Nat /\ samples' \in Seq(Reading) /\ Len(samples') = n + 1 /\ samples' # <<>>
      /\ \A i \in 1 .. n : samples'[i] = samples[i]
      /\ samples'[n + 1] = r
  <2> HIDE DEF r
  <2> QED
    BY <1>2
<1>4. Last(samples)' = r
  BY <1>3 DEF Last
<1>5. ASSUME n # 0
      PROVE  /\ Cut(samples', n) <=> \/ useful - Last(samples).useful > Tolerance
                                     \/ Last(samples).active > 1 \/ Active > 1
             /\ Gain(samples', n) = surplus - Last(samples).surplus
  <2>1. samples'[n] = Last(samples) /\ samples'[n + 1] = r
    BY <1>3, <1>5 DEF Last
  <2> HIDE DEF n
  <2> QED
    BY <2>1 DEF Cut, Gain
<1>6. ASSUME ForeignSteps' = {}
      PROVE  ForeignSteps = {} /\ (n # 0 => Last(samples).active <= 1 /\ Active <= 1)
  <2>1. \A i \in 1 .. n : ~(samples'[i].active > 1 \/ samples'[i + 1].active > 1)
    BY <1>3, <1>6 DEF ForeignSteps, ForeignStep, Steps
  <2>2. \A i \in 1 .. n - 1 : ~(samples[i].active > 1 \/ samples[i + 1].active > 1)
    <3> SUFFICES ASSUME NEW i \in 1 .. n - 1 PROVE ~(samples[i].active > 1 \/ samples[i + 1].active > 1)
      OBVIOUS
    <3>1. i \in 1 .. n /\ i + 1 \in 1 .. n
      BY <1>3
    <3> QED
      BY <1>3, <2>1, <3>1
  <2>3. ASSUME n # 0 PROVE Last(samples).active <= 1 /\ Active <= 1
    <3>1. n \in 1 .. n /\ samples'[n] = Last(samples) /\ samples'[n + 1].active = Active
      BY <1>3, <2>3 DEF Last
    <3>2. ~(Last(samples).active > 1) /\ ~(Active > 1)
      BY <2>1, <3>1
    <3>3. Last(samples) \in Reading
      BY <1>2, <1>3, <2>3 DEF Last
    <3> QED
      BY <1>1, <3>2, <3>3 DEF Reading
  <2> QED
    BY <2>2, <2>3 DEF ForeignSteps, ForeignStep, Steps
<1> QED
  BY <1>2, <1>3, <1>4, <1>5, <1>6

(* Every step counts on. *)
LEMMA CountedStep == Counted /\ [Next]_vars => Counted'
<1> SUFFICES ASSUME Counted, [Next]_vars PROVE Counted'
  OBVIOUS
<1> USE DEF exitVars, traceVars, history
<1>1. CASE Open
  BY <1>1 DEF Open, Counted
<1>2. CASE Fails \/ Ends
  <2>1. leftover' = leftover + Mine /\ own' = FALSE /\ UNCHANGED <<samples, useful, surplus, history>>
    BY <1>2 DEF Fails, Ends, Leave
  <2>2. leftover' \in Nat
    BY <2>1 DEF Counted, Mine
  <2> QED
    BY <2>1, <2>2 DEF Counted, Last
<1>3. CASE Finish \/ Finished \/ LoopHead \/ ScrapeFails \/ SleepEnds
  <2>1. UNCHANGED <<own, leftover, useful, surplus, samples, ownRun, ownLongest, edge, worstEdge, orphan>>
    BY <1>3 DEF Finish, Finished, LoopHead, ScrapeFails, SleepEnds
  <2> QED
    BY <2>1 DEF Counted, Last
<1>4. CASE Scrape
  <2>1. samples' \in Seq(Reading) /\ Last(samples)' = [useful |-> useful, surplus |-> surplus, active |-> Active]
    BY <1>4, Scraped
  <2>2. /\ UNCHANGED <<own, leftover, useful, surplus, ownRun, ownLongest, worstEdge, orphan>> /\ edge' = 0
    BY <1>4 DEF Scrape
  <2> QED
    BY <2>1, <2>2 DEF Counted
<1>5. CASE OwnUseful
  <2>1. useful' = useful + 1 /\ ownRun' = 0
        /\ UNCHANGED <<own, leftover, surplus, samples, ownLongest, edge, worstEdge, orphan>>
    BY <1>5 DEF OwnUseful
  <2>2. samples # <<>> => Last(samples) \in Reading
    BY DEF Counted, Last
  <2> QED
    BY <2>1, <2>2 DEF Counted, Last, Reading
<1>6. CASE OwnSurplus
  <2>1. /\ surplus' = surplus + 1 /\ ownRun' = ownRun + 1 /\ edge' = edge + 1
        /\ ownLongest' = Max({ownLongest, ownRun'}) /\ worstEdge' = Max({worstEdge, edge'})
        /\ UNCHANGED <<own, leftover, useful, samples, orphan>>
    BY <1>6 DEF OwnSurplus
  <2>2. /\ ownRun' \in Nat /\ ownLongest' \in Nat /\ ownRun' <= ownLongest'
        /\ edge' \in Nat /\ worstEdge' \in Nat /\ edge' <= worstEdge'
    BY <2>1, MaxOfTwo DEF Counted
  <2>3. samples # <<>> => Last(samples) \in Reading
    BY DEF Counted, Last
  <2> QED
    BY <2>1, <2>2, <2>3 DEF Counted, Last, Reading
<1>7. CASE LeftoverShare
  <2>1. /\ useful' \in Nat /\ useful <= useful' /\ surplus' \in Nat /\ surplus <= surplus'
        /\ orphan' \in Nat
        /\ UNCHANGED <<own, leftover, samples, ownRun, ownLongest, edge, worstEdge>>
    BY <1>7 DEF LeftoverShare, Counted
  <2>2. samples # <<>> => Last(samples) \in Reading
    BY DEF Counted, Last
  <2> QED
    BY <2>1, <2>2 DEF Counted, Last, Reading
<1>8. CASE LeftoverEnds \/ OwnEnds
  <2>1. (leftover > 0 /\ leftover' = leftover - 1 /\ own' = own) \/ (leftover' = leftover /\ own' = FALSE)
    BY <1>8 DEF LeftoverEnds, OwnEnds
  <2>2. leftover' \in Nat
    BY <2>1 DEF Counted
  <2>3. own' \in BOOLEAN
    BY <2>1, Zenon DEF Counted
  <2>4. UNCHANGED <<useful, surplus, samples, ownRun, ownLongest, edge, worstEdge, orphan>>
    BY <1>8 DEF LeftoverEnds, OwnEnds
  <2> QED
    BY <2>2, <2>3, <2>4 DEF Counted, Last
<1>9. CASE UNCHANGED vars
  BY <1>9 DEF vars, Counted, Last
<1> QED
  BY <1>1, <1>2, <1>3, <1>4, <1>5, <1>6, <1>7, <1>8, <1>9 DEF Next, Over

(* Every step keeps the shares attributed. *)
LEMMA AttributedStep == Counted /\ Attributed /\ [Next]_vars => Attributed'
<1> SUFFICES ASSUME Counted, Attributed, [Next]_vars, Serving', own' PROVE
      /\ samples' = <<>> => ownRun' <= edge'
      /\ samples' # <<>> /\ Last(samples)'.active <= 1 =>
           /\ leftover' = 0 /\ surplus' - Last(samples)'.surplus = edge'
           /\ useful' > Last(samples)'.useful => ownRun' <= edge'
  BY DEF Attributed
<1> USE DEF exitVars, traceVars, history
<1>0. samples # <<>> => Last(samples) \in Reading
  BY DEF Counted, Last
<1>1. CASE Open
  BY <1>1 DEF Open
<1>2. CASE Fails \/ Ends \/ OwnEnds
  BY <1>2 DEF Fails, Ends, Leave, OwnEnds
<1>3. CASE Finish \/ LoopHead \/ ScrapeFails \/ SleepEnds
  <2>1. /\ UNCHANGED <<own, leftover, useful, surplus, samples, ownRun, ownLongest, edge, worstEdge>>
        /\ Serving
    BY <1>3 DEF Finish, LoopHead, ScrapeFails, SleepEnds, Serving
  <2> QED
    BY <2>1 DEF Attributed, Last
<1>4. CASE Finished
  BY <1>4 DEF Finished, Serving
<1>5. CASE Scrape
  <2>1. samples' # <<>> /\ Last(samples)' = [useful |-> useful, surplus |-> surplus, active |-> Active]
    BY <1>5, Scraped
  <2>2. UNCHANGED <<own, leftover, useful, surplus>> /\ edge' = 0
    BY <1>5 DEF Scrape
  <2>3. Active <= 1 => leftover = 0
    BY <2>2 DEF Active, Counted
  <2> QED
    BY <2>1, <2>2, <2>3 DEF Counted
<1>6. CASE OwnUseful
  <2>1. ownRun' = 0 /\ Serving /\ own /\ UNCHANGED <<leftover, surplus, samples, edge>>
    BY <1>6 DEF OwnUseful, Serving
  <2> QED
    BY <2>1 DEF Attributed, Counted, Last
<1>7. CASE OwnSurplus
  <2>1. /\ surplus' = surplus + 1 /\ ownRun' = ownRun + 1 /\ edge' = edge + 1 /\ Serving /\ own
        /\ UNCHANGED <<leftover, useful, samples>>
    BY <1>7 DEF OwnSurplus, Serving
  <2> QED
    BY <1>0, <2>1 DEF Attributed, Counted, Last, Reading
<1>8. CASE LeftoverShare
  <2>1. leftover > 0 /\ Serving /\ own /\ UNCHANGED <<leftover, samples, ownRun, edge>>
    BY <1>8 DEF LeftoverShare, Serving
  <2> QED
    BY <2>1 DEF Attributed, Counted, Last
<1>9. CASE LeftoverEnds
  <2>1. leftover > 0 /\ Serving /\ own /\ UNCHANGED <<useful, surplus, samples, ownRun, edge>>
    BY <1>9 DEF LeftoverEnds, Serving
  <2> QED
    BY <2>1 DEF Attributed, Counted, Last
<1>10. CASE UNCHANGED vars
  BY <1>10 DEF vars, Attributed, Last, Serving
<1> QED
  BY <1>1, <1>2, <1>3, <1>4, <1>5, <1>6, <1>7, <1>8, <1>9, <1>10 DEF Next, Over

(* Every step keeps the run the Session's own, at the tolerance of the     *)
(* source: none.                                                           *)
LEMMA RunInvStep ==
  ASSUME Tolerance = 0
  PROVE  Counted /\ Attributed /\ RunInv /\ [Next]_vars => RunInv'
<1> SUFFICES ASSUME Counted, Attributed, RunInv, [Next]_vars, Serving', own' PROVE
      /\ LongestSurplusOnlyRun' <= ownLongest'
      /\ samples' # <<>> /\ Last(samples)'.active <= 1 /\ useful' = Last(samples)'.useful =>
           Standing' + edge' <= ownRun'
  BY DEF RunInv
<1> USE DEF exitVars, traceVars, history
<1>0. /\ LongestSurplusOnlyRun \in Int /\ Standing \in Int /\ 0 <= LongestSurplusOnlyRun
      /\ samples # <<>> => Last(samples) \in Reading
  BY LongestIs DEF Counted, Last
<1>1. CASE Open
  <2>1. samples' = <<>> /\ ownLongest' = 0
    BY <1>1 DEF Open
  <2>2. LongestSurplusOnlyRun' = 0
    BY <2>1, LongestStart
  <2> QED
    BY <2>1, <2>2
<1>2. CASE Fails \/ Ends \/ OwnEnds
  BY <1>2 DEF Fails, Ends, Leave, OwnEnds
<1>3. CASE Finish \/ LoopHead \/ ScrapeFails \/ SleepEnds
  <2>1. /\ UNCHANGED <<own, leftover, useful, surplus, samples, ownRun, ownLongest, edge, worstEdge>>
        /\ Serving
    BY <1>3 DEF Finish, LoopHead, ScrapeFails, SleepEnds, Serving
  <2>2. UNCHANGED <<LongestSurplusOnlyRun, Standing>>
    BY <2>1, TraceKept
  <2> QED
    BY <2>1, <2>2 DEF RunInv, Last
<1>4. CASE Finished
  BY <1>4 DEF Finished, Serving
<1>5. CASE Scrape
  <2> DEFINE n == Len(samples)
             r == [useful |-> useful, surplus |-> surplus, active |-> Active]
  <2>1. /\ r \in Reading /\ samples' = Append(samples, r) /\ Last(samples)' = r
        /\ n # 0 => /\ Cut(samples', n) <=> \/ useful - Last(samples).useful > Tolerance
                                            \/ Last(samples).active > 1 \/ Active > 1
                    /\ Gain(samples', n) = surplus - Last(samples).surplus
    BY <1>5, Scraped
  <2>2. UNCHANGED <<own, leftover, useful, surplus, ownRun, ownLongest>> /\ edge' = 0 /\ Serving
    BY <1>5 DEF Scrape, Serving
  <2>3. samples \in Seq(Reading)
    BY DEF Counted
  <2>4. /\ Standing' = IF n = 0 \/ Cut(samples', n) THEN 0 ELSE Standing + Gain(samples', n)
        /\ LongestSurplusOnlyRun' \in {LongestSurplusOnlyRun, Standing'}
    <3> HIDE DEF r
    <3> QED
      BY <2>1, <2>3, ScrapeGrows
  <2>5. Standing' <= ownRun
    <3>1. CASE n = 0 \/ Cut(samples', n)
      BY <2>4, <3>1 DEF Counted
    <3>2. CASE n # 0 /\ ~Cut(samples', n)
      <4>1. samples # <<>> /\ Last(samples) \in Reading
        BY <1>0, <3>2
      <4>2. ~(useful - Last(samples).useful > 0) /\ ~(Last(samples).active > 1)
        BY <2>1, <3>2
      <4>3. useful = Last(samples).useful /\ Last(samples).active <= 1
        BY <4>1, <4>2 DEF Counted, Reading
      <4>4. surplus - Last(samples).surplus = edge /\ Standing + edge <= ownRun
        BY <2>2, <4>1, <4>3 DEF Attributed, RunInv
      <4> QED
        BY <2>1, <2>4, <3>2, <4>4
    <3> QED
      BY <3>1, <3>2
  <2>6. Standing' \in Int
    BY <1>0, <2>1, <2>3, <2>4, ScrapeGrows
  <2>7. LongestSurplusOnlyRun' <= ownLongest
    BY <1>0, <2>2, <2>4, <2>5, <2>6 DEF Counted, RunInv
  <2>8. Standing' + edge' <= ownRun'
    BY <2>2, <2>5, <2>6
  <2> QED
    BY <2>2, <2>7, <2>8
<1>6. CASE OwnUseful
  <2>1. useful' = useful + 1 /\ Serving /\ own /\ UNCHANGED <<samples, ownLongest>>
    BY <1>6 DEF OwnUseful, Serving
  <2>2. UNCHANGED <<LongestSurplusOnlyRun, Standing>>
    BY <2>1, TraceKept
  <2> QED
    BY <1>0, <2>1, <2>2 DEF RunInv, Counted, Last, Reading
<1>7. CASE OwnSurplus
  <2>1. /\ ownRun' = ownRun + 1 /\ edge' = edge + 1 /\ ownLongest' = Max({ownLongest, ownRun'})
        /\ Serving /\ own /\ UNCHANGED <<useful, samples>>
    BY <1>7 DEF OwnSurplus, Serving
  <2>2. UNCHANGED <<LongestSurplusOnlyRun, Standing>>
    BY <2>1, TraceKept
  <2>3. ownLongest' \in Nat /\ ownLongest <= ownLongest'
    BY <2>1, MaxOfTwo DEF Counted
  <2> QED
    BY <1>0, <2>1, <2>2, <2>3 DEF RunInv, Counted, Last
<1>8. CASE LeftoverShare
  <2>1. leftover > 0 /\ Serving /\ own /\ UNCHANGED <<leftover, samples, ownRun, ownLongest, edge>>
    BY <1>8 DEF LeftoverShare, Serving
  <2>2. UNCHANGED <<LongestSurplusOnlyRun, Standing>>
    BY <2>1, TraceKept
  <2> QED
    BY <2>1, <2>2 DEF RunInv, Attributed, Counted, Last
<1>9. CASE LeftoverEnds
  <2>1. Serving /\ own /\ UNCHANGED <<useful, surplus, samples, ownRun, ownLongest, edge>>
    BY <1>9 DEF LeftoverEnds, Serving
  <2>2. UNCHANGED <<LongestSurplusOnlyRun, Standing>>
    BY <2>1, TraceKept
  <2> QED
    BY <2>1, <2>2 DEF RunInv, Last
<1>10. CASE UNCHANGED vars
  <2>1. UNCHANGED <<LongestSurplusOnlyRun, Standing>>
    BY <1>10, TraceKept DEF vars
  <2> QED
    BY <1>10, <2>1 DEF vars, RunInv, Last, Serving
<1> QED
  BY <1>1, <1>2, <1>3, <1>4, <1>5, <1>6, <1>7, <1>8, <1>9, <1>10 DEF Next, Over

(* Every step keeps what follows the Session's end apart from its own run. *)
LEMMA AfterStep ==
  ASSUME Tolerance = 0
  PROVE  Counted /\ Attributed /\ RunInv /\ VerdictInv /\ AfterInv /\ [Next]_vars => AfterInv'
<1> SUFFICES ASSUME Counted, Counted', Attributed, RunInv, RunInv', VerdictInv, AfterInv, [Next]_vars,
                    (Serving \/ phase = "closing")'
             PROVE
      /\ LongestSurplusOnlyRun' <= Max({ownLongest', orphan'})
      /\ Serving' /\ ~own' /\ samples' # <<>> /\ Last(samples)'.active <= 1
             /\ useful' = Last(samples)'.useful =>
           \/ Standing' + (surplus' - Last(samples)'.surplus) <= orphan'
           \/ leftover' = 0 /\ Standing' + (surplus' - Last(samples)'.surplus) <= ownLongest'
  BY CountedStep, RunInvStep DEF AfterInv, RunIsOwn
<1> USE DEF exitVars, traceVars, history
<1>0. /\ LongestSurplusOnlyRun \in Int /\ Standing \in Int /\ 0 <= LongestSurplusOnlyRun
      /\ samples # <<>> => Last(samples) \in Reading
      /\ useful \in Nat /\ surplus \in Nat /\ leftover \in Nat
      /\ ownRun \in Nat /\ ownLongest \in Nat /\ ownRun <= ownLongest /\ orphan \in Nat
  BY LongestIs DEF Counted, Last
<1>a. Max({ownLongest, orphan}) \in Nat /\ ownLongest <= Max({ownLongest, orphan})
        /\ orphan <= Max({ownLongest, orphan})
  BY <1>0, MaxOfTwo
<1>b. ownLongest' \in Nat /\ ownLongest' <= Max({ownLongest', orphan'})
        /\ Max({ownLongest', orphan'}) \in Nat /\ orphan' <= Max({ownLongest', orphan'})
        /\ orphan' \in Nat /\ LongestSurplusOnlyRun' \in Int
  <2>1. ownLongest' \in Nat /\ orphan' \in Nat /\ samples' \in Seq(Reading)
    BY DEF Counted
  <2>2. LongestSurplusOnlyRun' \in Int
    BY <2>1, LongestNext
  <2> QED
    BY <2>1, <2>2, MaxOfTwo
<1>1. CASE Serving' /\ own'
  <2>1. LongestSurplusOnlyRun' <= ownLongest'
    BY <1>1 DEF RunInv
  <2> QED
    BY <1>1, <1>b, <2>1
<1>2. CASE Open
  BY <1>1, <1>2 DEF Open, Serving
<1>3. CASE Fails \/ Ends
  BY <1>3 DEF Fails, Ends, Leave, Serving
<1>4. CASE Finish \/ Finished \/ LoopHead \/ ScrapeFails \/ SleepEnds
  <2>1. /\ UNCHANGED <<own, leftover, useful, surplus, samples, ownLongest, orphan>>
        /\ Serving' => Serving
        /\ Serving \/ phase = "closing"
    BY <1>4 DEF Finish, Finished, LoopHead, ScrapeFails, SleepEnds, Serving
  <2>2. UNCHANGED <<LongestSurplusOnlyRun, Standing>>
    BY <2>1, TraceKept
  <2> QED
    BY <2>1, <2>2 DEF AfterInv, RunIsOwn, Last
<1>5. CASE Scrape /\ ~own
  <2> DEFINE n == Len(samples)
             r == [useful |-> useful, surplus |-> surplus, active |-> Active]
  <2>1. /\ r \in Reading /\ samples' = Append(samples, r) /\ Last(samples)' = r
        /\ n # 0 => /\ Cut(samples', n) <=> \/ useful - Last(samples).useful > Tolerance
                                            \/ Last(samples).active > 1 \/ Active > 1
                    /\ Gain(samples', n) = surplus - Last(samples).surplus
    BY <1>5, Scraped
  <2>2. UNCHANGED <<own, leftover, useful, surplus, ownLongest, orphan>>
        /\ Serving /\ LongestSurplusOnlyRun <= Max({ownLongest, orphan})
    BY <1>5 DEF Scrape, Serving, VerdictInv, AfterInv, RunIsOwn
  <2>3. samples \in Seq(Reading)
    BY DEF Counted
  <2>4. /\ Standing' = IF n = 0 \/ Cut(samples', n) THEN 0 ELSE Standing + Gain(samples', n)
        /\ LongestSurplusOnlyRun' \in {LongestSurplusOnlyRun, Standing'} /\ Standing' \in Int
    <3> HIDE DEF r
    <3> QED
      BY <2>1, <2>3, ScrapeGrows
  <2>5. Standing' <= orphan \/ (leftover = 0 /\ Standing' <= ownLongest)
    <3>1. CASE n = 0 \/ Cut(samples', n)
      BY <1>0, <2>4, <3>1
    <3>2. CASE n # 0 /\ ~Cut(samples', n)
      <4>1. samples # <<>> /\ Last(samples) \in Reading
        BY <1>0, <3>2
      <4>2. ~(useful - Last(samples).useful > 0) /\ ~(Last(samples).active > 1)
        BY <2>1, <3>2
      <4>3. useful = Last(samples).useful /\ Last(samples).active <= 1
        <5>1. Last(samples).useful <= useful
          BY <4>1 DEF Counted
        <5>2. Last(samples).useful \in Nat /\ Last(samples).active \in Nat
          BY <4>1 DEF Reading
        <5> QED
          BY <1>0, <4>2, <5>1, <5>2
      <4>4. \/ Standing + (surplus - Last(samples).surplus) <= orphan
            \/ leftover = 0 /\ Standing + (surplus - Last(samples).surplus) <= ownLongest
        BY <1>5, <2>2, <4>1, <4>3 DEF AfterInv
      <4> QED
        BY <2>1, <2>4, <3>2, <4>4
    <3> QED
      BY <3>1, <3>2
  <2>6. LongestSurplusOnlyRun' <= Max({ownLongest', orphan'})
    BY <1>0, <1>a, <2>2, <2>4, <2>5
  <2>7. surplus' - Last(samples)'.surplus = 0
    BY <1>0, <2>1, <2>2
  <2> QED
    BY <2>2, <2>4, <2>5, <2>6, <2>7
<1>6. CASE LeftoverShare /\ ~own
  <2>1. /\ leftover > 0 /\ Serving /\ UNCHANGED <<own, leftover, samples, ownLongest>>
        /\ \/ useful' = useful + 1 /\ UNCHANGED <<surplus, orphan>>
           \/ surplus' = surplus + 1 /\ orphan' = orphan + 1 /\ UNCHANGED useful
        /\ Last(samples)' = Last(samples)
    BY <1>6 DEF LeftoverShare, Serving, Last
  <2>2. UNCHANGED <<LongestSurplusOnlyRun, Standing>>
    BY <2>1, TraceKept
  <2>3. LongestSurplusOnlyRun' <= Max({ownLongest', orphan'})
    <3>1. LongestSurplusOnlyRun <= Max({ownLongest, orphan})
      BY <2>1 DEF AfterInv, RunIsOwn
    <3>2. LongestSurplusOnlyRun <= ownLongest \/ LongestSurplusOnlyRun <= orphan
      BY <1>0, <3>1, MaxOfTwo
    <3> QED
      BY <1>0, <1>b, <2>1, <2>2, <3>2
  <2>4. ASSUME samples # <<>>, Last(samples).active <= 1, useful' = Last(samples).useful
        PROVE  Standing' + (surplus' - Last(samples).surplus) <= orphan'
    <3>1. Last(samples).useful \in Nat /\ Last(samples).useful <= useful /\ Last(samples).surplus \in Nat
      BY <1>0, <2>4 DEF Counted, Reading
    <3>2. surplus' = surplus + 1 /\ orphan' = orphan + 1 /\ useful = Last(samples).useful
      BY <1>0, <2>1, <2>4, <3>1
    <3>3. Standing + (surplus - Last(samples).surplus) <= orphan
      BY <1>0, <1>6, <2>1, <2>4, <3>2 DEF AfterInv
    <3> QED
      BY <1>0, <2>2, <3>1, <3>2, <3>3
  <2> QED
    BY <2>1, <2>3, <2>4
<1>7. CASE LeftoverEnds /\ ~(Serving' /\ own')
  <2>1. /\ leftover > 0 /\ UNCHANGED <<phase, own, useful, surplus, samples, ownLongest, orphan>>
        /\ Last(samples)' = Last(samples)
    BY <1>7 DEF LeftoverEnds, Last
  <2>2. UNCHANGED <<LongestSurplusOnlyRun, Standing>>
    BY <2>1, TraceKept
  <2> QED
    BY <1>0, <2>1, <2>2 DEF AfterInv, RunIsOwn, Serving
<1>8. CASE OwnEnds
  <2>1. /\ own /\ UNCHANGED <<phase, leftover, useful, surplus, samples, ownLongest, orphan>>
        /\ Last(samples)' = Last(samples) /\ (Serving' <=> Serving)
    BY <1>8 DEF OwnEnds, Last, Serving
  <2>2. UNCHANGED <<LongestSurplusOnlyRun, Standing>>
    BY <2>1, TraceKept
  <2>3. ASSUME Serving, samples # <<>>, Last(samples).active <= 1, useful = Last(samples).useful
        PROVE  leftover = 0 /\ Standing + (surplus - Last(samples).surplus) <= ownLongest
    <3>1. leftover = 0 /\ surplus - Last(samples).surplus = edge /\ Standing + edge <= ownRun
      BY <2>1, <2>3 DEF Attributed, RunInv
    <3>2. edge \in Nat
      BY DEF Counted
    <3> QED
      BY <1>0, <3>1, <3>2
  <2>4. LongestSurplusOnlyRun <= Max({ownLongest, orphan})
    BY <2>1 DEF AfterInv, RunIsOwn, Serving
  <2> QED
    BY <2>1, <2>2, <2>3, <2>4
<1>9. CASE OwnUseful \/ OwnSurplus \/ ((Scrape \/ LeftoverShare) /\ own)
  <2>1. own' /\ (Serving \/ phase = "closing") /\ UNCHANGED phase
    BY <1>9 DEF OwnUseful, OwnSurplus, Scrape, LeftoverShare, Serving
  <2>2. Serving
    BY <1>9, <2>1 DEF OwnUseful, OwnSurplus, Scrape, LeftoverShare, VerdictInv
  <2> QED
    BY <1>1, <2>1, <2>2 DEF Serving
<1>10. CASE UNCHANGED vars
  <2>1. UNCHANGED <<LongestSurplusOnlyRun, Standing>>
    BY <1>10, TraceKept DEF vars
  <2> QED
    BY <1>10, <2>1 DEF vars, AfterInv, RunIsOwn, Last, Serving
<1> QED
  BY <1>1, <1>2, <1>3, <1>4, <1>5, <1>6, <1>7, <1>8, <1>9, <1>10 DEF Next, Over, Counted

(* What stands is never negative: no counter of the Exit is ever reset     *)
(* while a trace is taken.                                                 *)
StandingInv == 0 <= Standing

(* Every step keeps it so. *)
LEMMA StandingStep == Counted /\ StandingInv /\ [Next]_vars => StandingInv'
<1> SUFFICES ASSUME Counted, StandingInv, [Next]_vars PROVE 0 <= Standing'
  BY DEF StandingInv
<1>1. CASE Open
  BY <1>1, LongestStart DEF Open
<1>2. CASE Scrape
  <2> DEFINE n == Len(samples)
             r == [useful |-> useful, surplus |-> surplus, active |-> Active]
  <2>1. /\ r \in Reading /\ samples' = Append(samples, r)
        /\ n # 0 => Gain(samples', n) = surplus - Last(samples).surplus
    BY <1>2, Scraped
  <2>2. samples \in Seq(Reading) /\ (n # 0 => samples # <<>>)
    BY DEF Counted
  <2>3. Standing' = IF n = 0 \/ Cut(samples', n) THEN 0 ELSE Standing + Gain(samples', n)
    <3> HIDE DEF r
    <3> QED
      BY <2>1, <2>2, ScrapeGrows
  <2>4. ASSUME n # 0 PROVE surplus - Last(samples).surplus \in Nat /\ Standing \in Int
    <3>1. Last(samples) \in Reading
      BY <2>2, <2>4 DEF Last
    <3>2. Last(samples).surplus \in Nat
      BY <3>1 DEF Reading
    <3> QED
      BY <2>2, <2>4, <3>2, LongestIs DEF Counted
  <2>5. CASE n = 0 \/ Cut(samples', n)
    BY <2>3, <2>5
  <2>6. CASE n # 0 /\ ~Cut(samples', n)
    BY <2>1, <2>3, <2>4, <2>6 DEF StandingInv
  <2> QED
    BY <2>5, <2>6
<1>3. CASE ~Open /\ ~Scrape
  <2>1. UNCHANGED samples
    BY <1>3 DEF Next, Over, vars, Fails, Finish, Finished, Ends, Leave, LoopHead, ScrapeFails,
      SleepEnds, OwnUseful, OwnSurplus, LeftoverShare, LeftoverEnds, OwnEnds, traceVars
  <2> QED
    BY <2>1, TraceKept DEF StandingInv
<1> QED
  BY <1>1, <1>2, <1>3

(* A step that ends the trace's run means the Session's own ended in it,   *)
(* so what a scrape does not have standing came before the first reading.  *)
LEMMA EdgeScrape ==
  ASSUME Counted, Attributed, EdgeInv, Scrape, ForeignSteps' = {}
  PROVE  /\ Serving /\ own => ownRun <= worstEdge + Standing'
         /\ LongestSurplusOnlyRun <= LongestSurplusOnlyRun'
         /\ LongestSurplusOnlyRun' \in Int
<1> DEFINE n == Len(samples)
           r == [useful |-> useful, surplus |-> surplus, active |-> Active]
<1>1. /\ r \in Reading /\ samples' = Append(samples, r)
      /\ n # 0 => /\ Cut(samples', n) <=> \/ useful - Last(samples).useful > Tolerance
                                          \/ Last(samples).active > 1 \/ Active > 1
                  /\ Gain(samples', n) = surplus - Last(samples).surplus
      /\ ForeignSteps = {}
      /\ n # 0 => Last(samples).active <= 1 /\ Active <= 1
  BY Scraped
<1>2. samples \in Seq(Reading) /\ (samples # <<>> => Last(samples) \in Reading) /\ Active \in Nat
  BY DEF Counted, Last, Active
<1>3. /\ Standing' = IF n = 0 \/ Cut(samples', n) THEN 0 ELSE Standing + Gain(samples', n)
      /\ LongestSurplusOnlyRun' \in Int /\ Standing' \in Int
      /\ LongestSurplusOnlyRun <= LongestSurplusOnlyRun'
  <2> HIDE DEF r
  <2> QED
    BY <1>1, <1>2, ScrapeGrows
<1>4. ASSUME Serving, own PROVE ownRun <= worstEdge + Standing'
  <2>1. ownRun \in Nat /\ edge \in Nat /\ worstEdge \in Nat /\ edge <= worstEdge
    BY DEF Counted
  <2>2. Standing \in Int /\ ownRun <= worstEdge + Standing + edge
    BY <1>1, <1>2, <1>4, LongestIs DEF EdgeInv
  <2>3. CASE n = 0
    <3>1. samples = <<>>
      BY <1>2, <2>3
    <3>2. ownRun <= edge
      BY <1>4, <3>1 DEF Attributed
    <3> QED
      BY <1>3, <2>1, <2>3, <3>2
  <2>4. CASE n # 0
    <3>1. samples # <<>> /\ Last(samples).active <= 1
      BY <1>1, <2>4
    <3>2. edge = surplus - Last(samples).surplus /\ (useful > Last(samples).useful => ownRun <= edge)
      BY <1>4, <3>1 DEF Attributed
    <3>3. CASE Cut(samples', n)
      <4>1. useful - Last(samples).useful > Tolerance
        <5>1. ~(Last(samples).active > 1) /\ ~(Active > 1)
          BY <1>1, <1>2, <2>4, <3>1 DEF Reading
        <5> QED
          BY <1>1, <2>4, <3>3, <5>1
      <4>2. useful > Last(samples).useful
        BY <1>2, <3>1, <4>1, TraceAssumption DEF Counted, Reading
      <4> QED
        BY <1>3, <2>1, <3>2, <3>3, <4>2
    <3>4. CASE ~Cut(samples', n)
      <4>1. Standing' = Standing + edge
        BY <1>1, <1>3, <2>4, <3>2, <3>4
      <4> QED
        BY <2>1, <2>2, <4>1
    <3> QED
      BY <3>3, <3>4
  <2> QED
    BY <2>3, <2>4
<1> QED
  BY <1>3, <1>4

(* Every step keeps the edges as all the trace can miss. *)
LEMMA EdgeStep ==
  Counted /\ StandingInv /\ Attributed /\ EdgeInv /\ [Next]_vars => EdgeInv'
<1> SUFFICES ASSUME Counted, StandingInv, Attributed, EdgeInv, [Next]_vars, ForeignSteps' = {} PROVE
      /\ (Serving /\ own)' => ownRun' <= worstEdge' + Standing' + edge'
      /\ (Serving \/ phase = "closing")' => ownLongest' <= LongestSurplusOnlyRun' + 2 * worstEdge'
  BY DEF EdgeInv
<1> USE DEF exitVars, traceVars, history
<1>0. LongestSurplusOnlyRun \in Int /\ Standing \in Int /\ Standing <= LongestSurplusOnlyRun
  BY LongestIs DEF Counted
<1>1. CASE Open
  <2>1. samples' = <<>> /\ ownLongest' = 0 /\ ownRun' = 0 /\ edge' = 0 /\ worstEdge' = 0
    BY <1>1 DEF Open
  <2>2. LongestSurplusOnlyRun' = 0 /\ Standing' = 0
    BY <2>1, LongestStart
  <2> QED
    BY <2>1, <2>2
<1>2. CASE Fails \/ Ends
  <2>1. phase' \in {"opening", "over"}
    BY <1>2 DEF Fails, Ends, Leave
  <2> QED
    BY <2>1 DEF Serving
<1>3. CASE Finish \/ LoopHead \/ ScrapeFails \/ SleepEnds \/ Finished \/ LeftoverShare \/ LeftoverEnds \/ UNCHANGED vars
  <2>1. /\ UNCHANGED <<own, samples, ownRun, ownLongest, edge, worstEdge>>
        /\ (Serving \/ phase = "closing")' => Serving \/ phase = "closing"
        /\ Serving' => Serving
    BY <1>3 DEF Finish, LoopHead, ScrapeFails, SleepEnds, Finished, LeftoverShare, LeftoverEnds, Serving, vars
  <2>2. UNCHANGED <<LongestSurplusOnlyRun, Standing, ForeignSteps>>
    BY <2>1, TraceKept
  <2> QED
    BY <2>1, <2>2 DEF EdgeInv
<1>4. CASE Scrape
  <2>1. UNCHANGED <<phase, own, ownRun, ownLongest, worstEdge>> /\ edge' = 0 /\ sampler = "scraping"
    BY <1>4 DEF Scrape
  <2>2. /\ Serving /\ own => ownRun <= worstEdge + Standing'
        /\ LongestSurplusOnlyRun <= LongestSurplusOnlyRun' /\ LongestSurplusOnlyRun' \in Int
    BY <1>4, EdgeScrape
  <2>3. Standing' \in Int /\ ForeignSteps = {}
    <3>1. samples \in Seq(Reading)
      BY DEF Counted
    <3>2. /\ [useful |-> useful, surplus |-> surplus, active |-> Active] \in Reading
          /\ samples' = Append(samples, [useful |-> useful, surplus |-> surplus, active |-> Active])
          /\ ForeignSteps = {}
      BY <1>4, Scraped
    <3> QED
      BY <3>1, <3>2, ScrapeGrows
  <2>4. (Serving /\ own)' => ownRun' <= worstEdge' + Standing' + edge'
    <3> SUFFICES ASSUME Serving', own' PROVE ownRun <= worstEdge + Standing' + 0
      BY <2>1
    <3>1. Serving /\ own
      BY <2>1 DEF Serving
    <3>2. ownRun <= worstEdge + Standing' /\ worstEdge \in Nat
      BY <2>2, <3>1 DEF Counted
    <3> QED
      BY <2>3, <3>2
  <2>5. Serving \/ phase = "closing" => ownLongest <= LongestSurplusOnlyRun + 2 * worstEdge
    BY <2>3 DEF EdgeInv
  <2>6. (Serving \/ phase = "closing")' => ownLongest' <= LongestSurplusOnlyRun' + 2 * worstEdge'
    <3> SUFFICES ASSUME Serving' \/ phase' = "closing" PROVE ownLongest <= LongestSurplusOnlyRun' + 2 * worstEdge
      BY <2>1
    <3>1. ownLongest <= LongestSurplusOnlyRun + 2 * worstEdge
      BY <2>1, <2>5 DEF Serving
    <3>2. ownLongest \in Nat /\ worstEdge \in Nat
      BY DEF Counted
    <3>3. /\ LongestSurplusOnlyRun \in Int /\ LongestSurplusOnlyRun' \in Int
          /\ LongestSurplusOnlyRun <= LongestSurplusOnlyRun' /\ worstEdge <= worstEdge
      BY <1>0, <2>2, <3>2
    <3> QED
      BY <3>1, <3>2, <3>3, Widens
  <2> QED
    BY <2>4, <2>6
<1>5. CASE OwnUseful
  <2>1. /\ ownRun' = 0 /\ Serving /\ own /\ UNCHANGED <<phase, own, samples, ownLongest, edge, worstEdge>>
    BY <1>5 DEF OwnUseful
  <2>2. UNCHANGED <<LongestSurplusOnlyRun, Standing, ForeignSteps>>
    BY <2>1, TraceKept
  <2> QED
    BY <1>0, <2>1, <2>2 DEF EdgeInv, StandingInv, Counted
<1>6. CASE OwnSurplus
  <2>1. /\ ownRun' = ownRun + 1 /\ edge' = edge + 1 /\ ownLongest' = Max({ownLongest, ownRun'})
        /\ worstEdge' = Max({worstEdge, edge'}) /\ Serving /\ own /\ UNCHANGED <<phase, own, samples>>
    BY <1>6 DEF OwnSurplus
  <2>2. UNCHANGED <<LongestSurplusOnlyRun, Standing, ForeignSteps>>
    BY <2>1, TraceKept
  <2>3. /\ ownLongest' \in {ownLongest, ownRun'}
        /\ worstEdge' \in Nat /\ worstEdge <= worstEdge' /\ edge' <= worstEdge'
    BY <2>1, MaxOfTwo DEF Counted
  <2>4. /\ ownRun <= worstEdge + Standing + edge
        /\ ownLongest <= LongestSurplusOnlyRun + 2 * worstEdge
    BY <2>1, <2>2 DEF EdgeInv
  <2>5. /\ ownRun \in Nat /\ ownLongest \in Nat /\ edge \in Nat /\ worstEdge \in Nat
    BY DEF Counted
  <2>6. ownRun' <= worstEdge' + Standing + edge'
    BY <1>0, <2>1, <2>3, <2>4, <2>5
  <2>7. ownRun' <= LongestSurplusOnlyRun + 2 * worstEdge'
    BY <1>0, <2>1, <2>3, <2>5, <2>6
  <2>8. ownLongest' <= LongestSurplusOnlyRun + 2 * worstEdge'
    <3>2. CASE ownLongest' = ownLongest
      <4>1. LongestSurplusOnlyRun <= LongestSurplusOnlyRun
        BY <1>0
      <4> QED
        BY <1>0, <2>3, <2>4, <2>5, <3>2, <4>1, Widens
    <3>3. CASE ownLongest' = ownRun'
      BY <2>7, <3>3
    <3> QED
      BY <2>3, <3>2, <3>3
  <2> QED
    BY <2>2, <2>6, <2>8
<1>7. CASE OwnEnds
  <2>1. own' = FALSE /\ UNCHANGED <<phase, samples, ownLongest, worstEdge>>
    BY <1>7 DEF OwnEnds
  <2>2. UNCHANGED <<LongestSurplusOnlyRun, Standing, ForeignSteps>>
    BY <2>1, TraceKept
  <2> QED
    BY <2>1, <2>2 DEF EdgeInv, Serving
<1> QED
  BY <1>1, <1>2, <1>3, <1>4, <1>5, <1>6, <1>7 DEF Next, Over

(* The verdict is on the trace as it was collected. *)
LEMMA VerdictStep == Counted /\ VerdictInv /\ [Next]_vars => VerdictInv'
<1> SUFFICES ASSUME Counted, VerdictInv, [Next]_vars, phase' = "closing" PROVE
      /\ sampler' = "done"
      /\ verdict' = "fragmented" => ForeignSteps' = {} /\ LongestSurplusOnlyRun' < Ceiling
  BY DEF VerdictInv
<1> USE DEF exitVars, traceVars, history
<1>1. CASE Finished
  <2>1. sampler' = "done" /\ samples' = samples /\ verdict' = RunVerdict
    BY <1>1 DEF Finished
  <2>2. UNCHANGED <<LongestSurplusOnlyRun, ForeignSteps>>
    BY <2>1, TraceKept
  <2>3. LongestSurplusOnlyRun \in Int /\ Ceiling \in Int
    BY LongestIs, TraceAssumption DEF Counted
  <2>4. RunVerdict = "fragmented" => ForeignSteps = {} /\ LongestSurplusOnlyRun < Ceiling
    <3>1. CASE LongestSurplusOnlyRun >= Ceiling
      BY <3>1 DEF RunVerdict
    <3>2. CASE LongestSurplusOnlyRun < Ceiling /\ ForeignSteps # {}
      BY <2>3, <3>2 DEF RunVerdict
    <3> QED
      BY <2>3, <3>1, <3>2
  <2> QED
    BY <2>1, <2>2, <2>4
<1>2. CASE ~Finished
  <2>1. phase = "closing" /\ UNCHANGED <<samples, sampler, verdict>>
    BY <1>2 DEF Next, Over, vars, VerdictInv, Open, Fails, Finish, Ends, Leave, LoopHead, Scrape,
      ScrapeFails, SleepEnds, OwnUseful, OwnSurplus, LeftoverShare, LeftoverEnds, OwnEnds, Serving
  <2>2. UNCHANGED <<LongestSurplusOnlyRun, ForeignSteps>>
    BY <2>1, TraceKept
  <2> QED
    BY <2>1, <2>2 DEF VerdictInv
<1> QED
  BY <1>1, <1>2

(* The scenarios start with nothing served, sampled or judged. *)
LEMMA TraceInit ==
  Init => Counted /\ StandingInv /\ Attributed /\ RunInv /\ AfterInv /\ EdgeInv /\ VerdictInv
<1> SUFFICES ASSUME Init
             PROVE  Counted /\ StandingInv /\ Attributed /\ RunInv /\ AfterInv /\ EdgeInv /\ VerdictInv
  OBVIOUS
<1>1. Counted
  <2>1. samples = <<>> /\ samples \in Seq(Reading)
    BY DEF Init
  <2>2. own \in BOOLEAN
    BY DEF Init
  <2> QED
    BY <2>1, <2>2 DEF Init, Counted
<1> QED
  BY <1>1, LongestIs DEF Init, StandingInv, Standing, Attributed, RunInv, AfterInv, RunIsOwn, EdgeInv, VerdictInv, Serving

(* With the source's tolerance of no useful share, the trace never reports *)
(* a longer surplus-only run than the Session itself had                   *)
(* (Trace::longest_surplus_only_run: "never long"), whatever an earlier    *)
(* scenario left on the Exit and however the scrapes fall; unless Sessions *)
(* left behind revealed that many surplus shares after this one had ended. *)
THEOREM RunIsAlwaysOwn ==
  ASSUME Tolerance = 0
  PROVE  Spec => []RunIsOwn
<1>1. AfterInv => RunIsOwn
  BY DEF AfterInv
<1>2. Counted /\ Attributed /\ RunInv /\ [Next]_vars => RunInv'
  BY RunInvStep
<1>3. Counted /\ Attributed /\ RunInv /\ VerdictInv /\ AfterInv /\ [Next]_vars => AfterInv'
  BY AfterStep
<1> QED
  BY <1>1, <1>2, <1>3, TraceInit, CountedStep, AttributedStep, VerdictStep, PTL DEF Spec

(* For every tolerance and every ceiling: a scenario is failed for a       *)
(* fragmented run only if its Session's own longest run was short of the   *)
(* ceiling, up to what the sampling can hide before the run's first        *)
(* reading and behind its last.                                            *)
THEOREM FragmentedIsAlwaysOwn == Spec => []FragmentedIsOwn
<1>1. Counted /\ EdgeInv /\ VerdictInv => FragmentedIsOwn
  <2> SUFFICES ASSUME Counted, EdgeInv, VerdictInv, phase = "closing", verdict = "fragmented"
               PROVE  ownLongest < Ceiling + 2 * worstEdge
    BY DEF FragmentedIsOwn
  <2>1. ForeignSteps = {} /\ LongestSurplusOnlyRun < Ceiling
    BY DEF VerdictInv
  <2>2. ownLongest <= LongestSurplusOnlyRun + 2 * worstEdge
    BY <2>1 DEF EdgeInv
  <2>3. LongestSurplusOnlyRun \in Int /\ Ceiling \in Int
    BY LongestIs, TraceAssumption DEF Counted
  <2> QED
    BY <2>1, <2>2, <2>3 DEF Counted
<1> QED
  BY <1>1, TraceInit, CountedStep, StandingStep, AttributedStep, EdgeStep, VerdictStep, PTL DEF Spec
=============================================================================
