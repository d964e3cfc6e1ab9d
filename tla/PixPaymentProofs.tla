-------------------------- MODULE PixPaymentProofs --------------------------
(***************************************************************************)
(* Paying for a PIX Session, for every price, target, budget and number of *)
(* cycles: the Entry stays within its budget; the happy scenario of        *)
(* tests/pix.rs passes only if its target of cycles was really paid, and   *)
(* blames its bookkeeping for nothing that did not happen; the exhaustion  *)
(* scenario passes only on a budget that was spent and bound.              *)
(***************************************************************************)
EXTENDS PixPayment, FiniteSetTheorems, TLAPS

-----------------------------------------------------------------------------
(* Counting cycles *)

(* Multiplying by a natural number keeps the order. *)
LEMMA Scaled ==
  ASSUME NEW a \in Nat, NEW b \in Nat, NEW c \in Nat, b <= c
  PROVE  a * b \in Nat /\ a * b <= a * c
  BY Z3

(* Cycles are finitely many. *)
LEMMA CountType ==
  ASSUME NEW f, NEW states
  PROVE  IsFiniteSet(With(f, states)) /\ Count(f, states) \in Nat
<1>1. IsFiniteSet(Cycles)
  BY PaymentAssumption, FS_Interval DEF Cycles
<1>2. With(f, states) \in SUBSET Cycles
  BY DEF With
<1> QED  BY <1>1, <1>2, FS_Subset, FS_CardinalityType DEF Count

(* More cycles in the states asked about count for more. *)
LEMMA CountMonotone ==
  ASSUME NEW f, NEW g, NEW s, NEW t, With(f, s) \subseteq With(g, t)
  PROVE  Count(f, s) <= Count(g, t)
<1>1. IsFiniteSet(With(g, t)) /\ With(f, s) \in SUBSET With(g, t)
  BY CountType
<1> QED  BY <1>1, FS_Subset DEF Count

(* One more cycle counts for one more. *)
LEMMA CountAdded ==
  ASSUME NEW f, NEW g, NEW states, NEW c, With(g, states) \subseteq With(f, states) \cup {c}
  PROVE  Count(g, states) <= Count(f, states) + 1
<1>1. IsFiniteSet(With(f, states)) /\ Cardinality(With(f, states)) \in Nat
  BY CountType DEF Count
<1>2. /\ IsFiniteSet(With(f, states) \cup {c})
      /\ Cardinality(With(f, states) \cup {c}) <= Cardinality(With(f, states)) + 1
      /\ Cardinality(With(f, states) \cup {c}) \in Nat
  BY <1>1, FS_AddElement
<1>3. Cardinality(With(g, states)) <= Cardinality(With(f, states) \cup {c})
  BY <1>2, FS_Subset
<1>4. Cardinality(With(g, states)) \in Nat
  BY CountType DEF Count
<1> QED  BY <1>1, <1>2, <1>3, <1>4 DEF Count

-----------------------------------------------------------------------------
(* Types and the budget *)

WithinType == PerCycle * Count(deposit, Made) <= Budget

(* A budget is a number of whole cycles. *)
LEMMA BudgetType == BudgetCycles \in Nat /\ Budget \in Nat /\ Budget = PerCycle * BudgetCycles
<1>1. BudgetCycles \in Nat /\ PerCycle \in Nat
  BY PaymentAssumption DEF BudgetCycles
<1> QED  BY <1>1, Scaled DEF Budget

(* Fewer deposits stay within the budget. *)
LEMMA BudgetKept ==
  ASSUME WithinType, scenario' = scenario,
         With(deposit', Made) \subseteq With(deposit, Made)
  PROVE  WithinType'
<1>1. Count(deposit', Made) \in Nat /\ Count(deposit, Made) \in Nat
      /\ Count(deposit', Made) <= Count(deposit, Made)
  BY CountType, CountMonotone
<1>2. PerCycle * Count(deposit', Made) <= PerCycle * Count(deposit, Made)
      /\ PerCycle * Count(deposit', Made) \in Nat /\ PerCycle * Count(deposit, Made) \in Nat
  BY <1>1, Scaled, PaymentAssumption
<1>3. Budget' = Budget
  BY DEF Budget, BudgetCycles
<1>4. Made' = Made /\ Count(deposit, Made)' = Count(deposit', Made)
  BY DEF Made, Count, With, Cycles
<1> QED  BY <1>2, <1>3, <1>4, BudgetType DEF WithinType

(* Asking for cycles makes no deposit. *)
LEMMA AsksType ==
  ASSUME TypeOK, NEW cs \in SUBSET Cycles, Asks(cs), scenario' = scenario
  PROVE  /\ deposit' \in [Cycles -> {"none", "asked", "sent", "mined", "refused", "failed"}]
         /\ tracking' \in [Cycles -> {"none", "waiting", "confirmed", "timeout"}]
         /\ WithinType'
<1>1. /\ deposit' \in [Cycles -> {"none", "asked", "sent", "mined", "refused", "failed"}]
      /\ tracking' \in [Cycles -> {"none", "waiting", "confirmed", "timeout"}]
  BY DEF TypeOK, Asks
<1>2. With(deposit', Made) \subseteq With(deposit, Made)
  BY DEF TypeOK, Asks, With, Made
<1> QED  BY <1>1, <1>2, BudgetKept DEF TypeOK, WithinType

(* A decision other than to deposit makes none; one to deposit is within   *)
(* the budget, the deposit itself included.                                *)
LEMMA DecidesType ==
  ASSUME TypeOK, NEW c \in Cycles, NEW how \in {"sent", "refused", "failed"},
         Decides(c, how), how = "sent" => WithinBudget
  PROVE  TypeOK'
<1>1. /\ deposit' = [deposit EXCEPT ![c] = how]
      /\ UNCHANGED <<scenario, telemetry, funds, stake, tracking, shares, swept, closed, strained>>
  BY DEF Decides, exitVars
<1>2. CASE how # "sent"
  <2>1. With(deposit', Made) \subseteq With(deposit, Made)
    BY <1>1, <1>2 DEF TypeOK, With, Made
  <2>2. WithinType'
    BY <1>1, <2>1, BudgetKept DEF TypeOK, WithinType
  <2> QED  BY <1>1, <2>2 DEF TypeOK, WithinType, Cycles
<1>3. CASE how = "sent"
  <2>1. With(deposit', Made) \subseteq With(deposit, Made) \cup {c}
    BY <1>1 DEF TypeOK, With
  <2>2. /\ Count(deposit', Made) <= Count(deposit, Made) + 1
        /\ Count(deposit', Made) \in Nat /\ Count(deposit, Made) + 1 \in Nat
    BY <2>1, CountAdded, CountType
  <2>3. /\ PerCycle * Count(deposit', Made) <= PerCycle * (Count(deposit, Made) + 1)
        /\ PerCycle * Count(deposit', Made) \in Nat
        /\ PerCycle * (Count(deposit, Made) + 1) \in Nat
    BY <2>2, Scaled, PaymentAssumption
  <2>4. PerCycle * (Count(deposit, Made) + 1) <= Budget
    BY <1>3 DEF WithinBudget
  <2>5. Budget' = Budget /\ Count(deposit, Made)' = Count(deposit', Made)
    BY <1>1 DEF Budget, BudgetCycles, Count, With, Made, Cycles
  <2>6. WithinType'
    BY <2>3, <2>4, <2>5, BudgetType DEF WithinType
  <2> QED  BY <1>1, <2>6 DEF TypeOK, WithinType, Cycles
<1> QED  BY <1>2, <1>3

(* The type invariant, with the Entry's deposits within its budget. *)
LEMMA TypeStep ==
  ASSUME TypeOK, [Next]_vars
  PROVE  TypeOK'
<1>1. ASSUME UNCHANGED <<scenario, telemetry, funds, stake, deposit>>,
             tracking' \in [Cycles -> {"none", "waiting", "confirmed", "timeout"}],
             shares' \in [Cycles -> {"none", "early", "recovered"}],
             swept' \in [Cycles -> {"no", "paid", "empty"}],
             closed' \in BOOLEAN, strained' \in BOOLEAN
      PROVE  TypeOK'
  <2>1. WithinType'
    BY <1>1, BudgetKept DEF TypeOK, WithinType
  <2> QED  BY <1>1, <2>1 DEF TypeOK, WithinType, Cycles
<1>2. ASSUME NEW step, NEW reading, Reads(step, reading)
      PROVE  TypeOK'
  BY <1>1, <1>2 DEF Reads, entryVars, exitVars, TypeOK
<1>3. ASSUME NEW how, Dropped(how)
      PROVE  TypeOK'
  <2>1. With(deposit', Made) \subseteq With(deposit, Made)
    BY <1>3 DEF Dropped, All, With, Made
  <2>2. WithinType'
    BY <1>3, <2>1, BudgetKept DEF Dropped, TypeOK, WithinType
  <2>3. MaxStake \in Nat
    BY PaymentAssumption
  <2>4. /\ deposit' \in [Cycles -> {"none", "asked", "sent", "mined", "refused", "failed"}]
        /\ tracking' \in [Cycles -> {"none", "waiting", "confirmed", "timeout"}]
        /\ shares' \in [Cycles -> {"none", "early", "recovered"}]
        /\ swept' \in [Cycles -> {"no", "paid", "empty"}]
    BY <1>3 DEF Dropped, All
  <2>5. /\ scenario' = scenario /\ telemetry' = telemetry /\ funds' = funds
        /\ stake' \in 0 .. MaxStake
    BY <1>3, <2>3 DEF Dropped
  <2>6. closed' \in BOOLEAN /\ strained' \in BOOLEAN
    BY <1>3, Zenon DEF Dropped
  <2> QED  BY <2>2, <2>4, <2>5, <2>6 DEF TypeOK, WithinType, Cycles
<1>4. CASE EntryBefore \/ OpenReturns \/ ExitSafeBefore \/ ExitCountersBefore \/ Funded
           \/ PumpEnds \/ SweepsAwaited \/ EntryCounters
  BY <1>2, <1>4 DEF EntryBefore, OpenReturns, ExitSafeBefore, ExitCountersBefore, Funded, PumpEnds,
                    SweepsAwaited, EntryCounters
<1>5. CASE NotFunded \/ Errs
  BY <1>3, <1>5 DEF NotFunded, Errs
<1>6. CASE Judge
  BY <1>1, <1>6 DEF Judge, entryVars, exitVars, TypeOK
<1>7. CASE AskFirst
  <2>1. 1 \in Cycles
    BY PaymentAssumption DEF Cycles
  <2>2. Asks({1}) /\ UNCHANGED <<scenario, telemetry, funds, stake, shares, swept, closed, strained>>
    BY <1>7 DEF AskFirst
  <2> QED  BY <2>1, <2>2, AsksType DEF TypeOK, WithinType, Cycles
<1>8. CASE StakesChannel
  <2>1. stake' = stake + 1 /\ stake < MaxStake
        /\ UNCHANGED <<scenario, telemetry, funds, deposit, tracking, shares, swept, closed, strained>>
    BY <1>8 DEF StakesChannel, exitVars
  <2>2. WithinType'
    BY <2>1, BudgetKept DEF TypeOK, WithinType
  <2>3. stake' \in 0 .. MaxStake
    BY <2>1, PaymentAssumption DEF TypeOK
  <2> QED  BY <2>1, <2>2, <2>3 DEF TypeOK, WithinType, Cycles
<1>9. ASSUME NEW c \in Cycles,
             Deposits(c) \/ Refuses(c) \/ DepositFails(c)
      PROVE  TypeOK'
  BY <1>9, DecidesType DEF Deposits, Refuses, DepositFails
<1>10. ASSUME NEW c \in Cycles, Mined(c)
       PROVE  TypeOK'
  <2>1. /\ deposit' = [deposit EXCEPT ![c] = "mined"] /\ deposit[c] = "sent"
        /\ UNCHANGED <<scenario, telemetry, funds, stake, tracking, shares, swept, closed, strained>>
    BY <1>10 DEF Mined, exitVars
  <2>2. With(deposit', Made) \subseteq With(deposit, Made)
    BY <2>1 DEF TypeOK, With, Made
  <2>3. WithinType'
    BY <2>1, <2>2, BudgetKept DEF TypeOK, WithinType
  <2> QED  BY <2>1, <2>3 DEF TypeOK, WithinType, Cycles
<1>11. ASSUME NEW c \in Cycles, EarlyRecovery(c)
       PROVE  TypeOK'
  <2>1. /\ Asks({c + 1} \cap Cycles) /\ shares' = [shares EXCEPT ![c] = "early"]
        /\ strained' \in BOOLEAN
        /\ UNCHANGED <<scenario, telemetry, funds, stake, swept, closed>>
    BY <1>11 DEF EarlyRecovery, TypeOK
  <2>2. {c + 1} \cap Cycles \in SUBSET Cycles
    OBVIOUS
  <2> QED  BY <2>1, <2>2, AsksType DEF TypeOK, WithinType, Cycles
<1>12. ASSUME NEW c \in Cycles, Confirms(c) \/ TimesOut(c) \/ RecoversKey(c) \/ Sweeps(c)
       PROVE  TypeOK'
  BY <1>1, <1>12 DEF Confirms, TimesOut, RecoversKey, Sweeps, entryVars, TypeOK
<1>13. CASE Over \/ UNCHANGED vars
  BY <1>1, <1>13 DEF Over, vars, entryVars, exitVars, TypeOK
<1> QED  BY <1>4, <1>5, <1>6, <1>7, <1>8, <1>9, <1>10, <1>11, <1>12, <1>13 DEF Next

(* The Entry's deposits never exceed its window's budget, whatever is      *)
(* asked, breaks or is mined when.                                         *)
THEOREM TypeCorrect == Spec => []TypeOK
<1>1. Init => TypeOK
  <2> SUFFICES ASSUME Init PROVE TypeOK
    OBVIOUS
  <2>1. With(deposit, Made) = {}
    BY DEF Init, All, With, Made
  <2>2. Count(deposit, Made) = 0
    BY <2>1, FS_EmptySet DEF Count
  <2>3. PerCycle * 0 = 0
    BY PaymentAssumption
  <2>4. funds \in Nat /\ telemetry \subseteq {"exit", "entry"} /\ stake \in 0 .. MaxStake
    BY PaymentAssumption DEF Init
  <2>5. WithinType
    BY <2>2, <2>3, BudgetType DEF WithinType
  <2>6. /\ deposit \in [Cycles -> {"none", "asked", "sent", "mined", "refused", "failed"}]
        /\ tracking \in [Cycles -> {"none", "waiting", "confirmed", "timeout"}]
        /\ shares \in [Cycles -> {"none", "early", "recovered"}]
        /\ swept \in [Cycles -> {"no", "paid", "empty"}]
    BY DEF Init, All
  <2>7. scenario \in {"happy", "exhaustion"} /\ closed \in BOOLEAN /\ strained \in BOOLEAN
    BY DEF Init
  <2> QED  BY <2>4, <2>5, <2>6, <2>7, Zenon DEF TypeOK, WithinType
<1> QED  BY <1>1, TypeStep, PTL DEF Spec

-----------------------------------------------------------------------------
(* What a pass rests on *)

(* The steps the test still has to take are the last ones of Order, and    *)
(* behind the third a reading k has been taken, in the event the Exit's    *)
(* Safe.                                                                   *)
Steps == {Order[j] : j \in 1 .. 9}

Has(reading, k) == k \in DOMAIN reading /\ reading[k] \in Nat

StepOf(k) ==
  /\ todo \in Seq(Steps) /\ Len(todo) <= 9
  /\ \A j \in 1 .. Len(todo) : todo[j] = Order[9 - Len(todo) + j]
  /\ Len(todo) \in 1 .. 6 => Has(read, k)

StepInv == StepOf("exitSafe")

(* A cycle swept for its price was deposited for and recovered, and the    *)
(* cycles are recovered one after another.                                 *)
PaidInv ==
  /\ \A c \in Cycles : swept[c] = "paid" => deposit[c] = "mined" /\ shares[c] = "recovered"
  /\ \A c \in Cycles : shares[c] = "recovered" => \A d \in 1 .. c - 1 : shares[d] = "recovered"

Really == {c \in Cycles : deposit[c] = "mined" /\ shares[c] = "recovered" /\ swept[c] = "paid"}

PassInv == /\ verdict # "none" => todo = <<>>
           /\ PassMeansPaid

(* Every step keeps it: a deposit only moves on, and a cycle is asked for  *)
(* again only before it has one.                                           *)
LEMMA PaidStep ==
  ASSUME TypeOK, PaidInv, [Next]_vars
  PROVE  PaidInv'
<1>1. CASE UNCHANGED <<deposit, shares, swept>>
  BY <1>1 DEF PaidInv, Cycles
<1>2. ASSUME NEW how, Dropped(how)
      PROVE  PaidInv'
  BY <1>2 DEF Dropped, All, PaidInv, Cycles
<1>3. CASE EntryBefore \/ OpenReturns \/ ExitSafeBefore \/ ExitCountersBefore \/ Funded
           \/ PumpEnds \/ SweepsAwaited \/ EntryCounters
  BY <1>1, <1>3 DEF EntryBefore, OpenReturns, ExitSafeBefore, ExitCountersBefore, Funded, PumpEnds,
                    SweepsAwaited, EntryCounters, Reads, entryVars, exitVars
<1>4. CASE NotFunded \/ Errs
  BY <1>2, <1>4 DEF NotFunded, Errs
<1>5. CASE Judge
  BY <1>1, <1>5 DEF Judge, entryVars, exitVars
<1>6. CASE AskFirst
  <2>1. deposit[1] = "none" /\ shares' = shares /\ swept' = swept
        /\ \A c \in Cycles : c # 1 => deposit'[c] = deposit[c]
    BY <1>6 DEF AskFirst, Asks
  <2> QED  BY <2>1 DEF PaidInv, Cycles
<1>7. CASE StakesChannel
  BY <1>1, <1>7 DEF StakesChannel, exitVars
<1>8. ASSUME NEW c \in Cycles, NEW how, Decides(c, how)
      PROVE  PaidInv'
  <2>1. deposit[c] = "asked" /\ shares' = shares /\ swept' = swept
        /\ \A d \in Cycles : d # c => deposit'[d] = deposit[d]
    BY <1>8 DEF Decides, exitVars, TypeOK
  <2> QED  BY <2>1 DEF PaidInv, Cycles
<1>9. ASSUME NEW c \in Cycles, Deposits(c) \/ Refuses(c) \/ DepositFails(c)
      PROVE  PaidInv'
  BY <1>8, <1>9 DEF Deposits, Refuses, DepositFails
<1>10. ASSUME NEW c \in Cycles, Mined(c)
       PROVE  PaidInv'
  <2>1. deposit[c] = "sent" /\ shares' = shares /\ swept' = swept
        /\ \A d \in Cycles : d # c => deposit'[d] = deposit[d]
    BY <1>10 DEF Mined, exitVars, TypeOK
  <2> QED  BY <2>1 DEF PaidInv, Cycles
<1>11. ASSUME NEW c \in Cycles, Confirms(c) \/ TimesOut(c)
       PROVE  PaidInv'
  BY <1>1, <1>11 DEF Confirms, TimesOut, entryVars
<1>12. ASSUME NEW c \in Cycles, EarlyRecovery(c)
       PROVE  PaidInv'
  <2>1. /\ shares[c] = "none" /\ swept' = swept
        /\ shares' = [shares EXCEPT ![c] = "early"]
        /\ deposit' = [d \in Cycles |-> IF d \in {c + 1} \cap Cycles THEN "asked" ELSE deposit[d]]
    BY <1>12 DEF EarlyRecovery, Asks
  <2>2. ASSUME NEW d \in Cycles, swept'[d] = "paid"
        PROVE  deposit'[d] = "mined" /\ shares'[d] = "recovered"
    <3>1. deposit[d] = "mined" /\ shares[d] = "recovered"
      BY <2>1, <2>2 DEF PaidInv
    <3>2. d # c + 1
      <4>1. d = c + 1 => c \in 1 .. d - 1
        BY PaymentAssumption DEF Cycles
      <4> QED  BY <2>1, <3>1, <4>1 DEF PaidInv
    <3>3. d # c
      BY <2>1, <3>1
    <3> QED  BY <2>1, <3>1, <3>2, <3>3 DEF TypeOK
  <2>3. ASSUME NEW d \in Cycles, shares'[d] = "recovered", NEW e \in 1 .. d - 1
        PROVE  shares'[e] = "recovered"
    <3>1. e \in Cycles
      BY PaymentAssumption DEF Cycles
    <3>2. shares[d] = "recovered" /\ d # c
      BY <2>1, <2>3 DEF TypeOK
    <3>3. shares[e] = "recovered"
      BY <3>2 DEF PaidInv
    <3> QED  BY <2>1, <3>1, <3>3 DEF TypeOK
  <2> QED  BY <2>2, <2>3 DEF PaidInv, Cycles
<1>13. ASSUME NEW c \in Cycles, RecoversKey(c)
       PROVE  PaidInv'
  <2>1. /\ \A d \in 1 .. c - 1 : shares[d] = "recovered"
        /\ shares' = [shares EXCEPT ![c] = "recovered"]
        /\ deposit' = deposit /\ swept' = swept
    BY <1>13 DEF RecoversKey, AtFront, entryVars
  <2>2. \A d \in Cycles : shares'[d] = IF d = c THEN "recovered" ELSE shares[d]
    BY <2>1 DEF TypeOK
  <2>3. ASSUME NEW d \in Cycles, shares'[d] = "recovered", NEW e \in 1 .. d - 1
        PROVE  shares'[e] = "recovered"
    <3>1. e \in Cycles
      BY PaymentAssumption DEF Cycles
    <3> QED  BY <2>1, <2>2, <2>3, <3>1 DEF PaidInv
  <2> QED  BY <2>1, <2>2, <2>3 DEF PaidInv, Cycles
<1>14. ASSUME NEW c \in Cycles, Sweeps(c)
       PROVE  PaidInv'
  <2>1. /\ shares[c] = "recovered" /\ deposit' = deposit /\ shares' = shares
        /\ swept' = [swept EXCEPT ![c] = IF deposit[c] = "mined" THEN "paid" ELSE "empty"]
    BY <1>14 DEF Sweeps, entryVars
  <2>2. \A d \in Cycles : swept'[d] = "paid" => swept[d] = "paid" \/ (d = c /\ deposit[c] = "mined")
    BY <2>1 DEF TypeOK
  <2> QED  BY <2>1, <2>2 DEF PaidInv, Cycles
<1>15. CASE Over \/ UNCHANGED vars
  BY <1>1, <1>15 DEF Over, vars, entryVars, exitVars
<1> QED  BY <1>3, <1>4, <1>5, <1>6, <1>7, <1>9, <1>10, <1>11, <1>12, <1>13, <1>14, <1>15 DEF Next

(* The order of the test's steps: the third reads the Exit's Safe and the  *)
(* last is the judgement.                                                  *)
LEMMA OrderSteps ==
  /\ Order[3] = "exit safe" /\ Order[9] = "safes after" /\ Len(Order) = 9
  /\ \A j \in 1 .. 9 : /\ Order[j] = "exit safe" => j = 3
                       /\ Order[j] = "safes after" => j = 9
<1>1. /\ Order[1] = "entry before" /\ Order[2] = "open" /\ Order[3] = "exit safe"
      /\ Order[4] = "exit counters" /\ Order[5] = "funded" /\ Order[6] = "pump"
      /\ Order[7] = "sweeps" /\ Order[8] = "entry counters" /\ Order[9] = "safes after"
      /\ Len(Order) = 9
  BY DEF Order
<1>2. \A j \in 1 .. 9 : \/ j = 1 \/ j = 2 \/ j = 3 \/ j = 4 \/ j = 5
                        \/ j = 6 \/ j = 7 \/ j = 8 \/ j = 9
  OBVIOUS
<1> QED  BY <1>1, <1>2

(* What the head and the tail of a sequence are. *)
LEMMA TailElements ==
  ASSUME NEW S, NEW t \in Seq(S), t # <<>>, NEW n \in Nat, Len(t) <= n
  PROVE  /\ Tail(t) \in Seq(S) /\ Len(Tail(t)) = Len(t) - 1 /\ Len(t) \in 1 .. n
         /\ \A j \in 1 .. Len(Tail(t)) : Tail(t)[j] = t[j + 1]
         /\ Head(t) = t[1]
OBVIOUS

(* Nine elements of a set are a sequence of nine. *)
LEMMA NineElements ==
  ASSUME NEW S, NEW a \in S, NEW b \in S, NEW c \in S, NEW d \in S, NEW e \in S,
         NEW f \in S, NEW g \in S, NEW h \in S, NEW i \in S
  PROVE  <<a, b, c, d, e, f, g, h, i>> \in Seq(S) /\ Len(<<a, b, c, d, e, f, g, h, i>>) = 9
OBVIOUS

(* Of nine steps, the n-th last is one of them, and the ninth is the last. *)
LEMMA FromTheEnd ==
  ASSUME NEW n \in 1 .. 9
  PROVE  10 - n \in 1 .. 9 /\ (10 - n = 9 => n = 1)
OBVIOUS

(* The rest of the last steps of an order are its last steps. *)
LEMMA TailSteps ==
  ASSUME NEW S, NEW t \in Seq(S), t # <<>>, Len(t) <= 9, NEW order,
         \A j \in 1 .. Len(t) : t[j] = order[9 - Len(t) + j]
  PROVE  /\ Tail(t) \in Seq(S) /\ Len(Tail(t)) = Len(t) - 1 /\ Len(t) \in 1 .. 9
         /\ \A j \in 1 .. Len(Tail(t)) : Tail(t)[j] = order[9 - Len(Tail(t)) + j]
         /\ Head(t) = order[10 - Len(t)]
<1>1. /\ Tail(t) \in Seq(S) /\ Len(Tail(t)) = Len(t) - 1 /\ Len(t) \in 1 .. 9
      /\ \A j \in 1 .. Len(Tail(t)) : Tail(t)[j] = t[j + 1]
      /\ Head(t) = t[1]
  <2>1. 9 \in Nat
    OBVIOUS
  <2> QED  BY <2>1, TailElements, Zenon
<1>2. ASSUME NEW j \in 1 .. Len(Tail(t))
      PROVE  Tail(t)[j] = order[9 - Len(Tail(t)) + j]
  <2>1. /\ Tail(t)[j] = t[j + 1] /\ j + 1 \in 1 .. Len(t)
        /\ 9 - Len(t) + (j + 1) = 9 - Len(Tail(t)) + j
    BY <1>1
  <2> QED  BY <2>1
<1>3. 1 \in 1 .. Len(t) /\ 9 - Len(t) + 1 = 10 - Len(t)
  BY <1>1
<1> QED  BY <1>1, <1>2, <1>3

(* A new reading comes before an old one, and loses none. *)
LEMMA Merged ==
  ASSUME NEW r, NEW s, NEW k
  PROVE  LET m == [x \in DOMAIN r \cup DOMAIN s |-> IF x \in DOMAIN r THEN r[x] ELSE s[x]]
         IN  /\ Has(r, k) => Has(m, k)
             /\ k \notin DOMAIN r /\ Has(s, k) => Has(m, k)
BY DEF Has

(* A reading moves the test one step on. *)
LEMMA ReadStep ==
  ASSUME NEW k, StepOf(k), NEW step, NEW reading, Reads(step, reading),
         Has(reading, k) \/ (k \notin DOMAIN reading /\ step # Order[3])
  PROVE  StepOf(k)'
<1>1. todo # <<>> /\ Head(todo) = step /\ todo' = Tail(todo)
  BY DEF Reads, Doing
<1>2. read' = [r \in DOMAIN reading \cup DOMAIN read |->
                 IF r \in DOMAIN reading THEN reading[r] ELSE read[r]]
  BY DEF Reads
<1>3. /\ todo \in Seq(Steps) /\ Len(todo) <= 9
      /\ \A j \in 1 .. Len(todo) : todo[j] = Order[9 - Len(todo) + j]
  BY DEF StepOf
<1>4. /\ todo' \in Seq(Steps) /\ Len(todo') = Len(todo) - 1 /\ Len(todo) \in 1 .. 9
      /\ \A j \in 1 .. Len(todo') : todo'[j] = Order[9 - Len(todo') + j]
      /\ step = Order[10 - Len(todo)]
  BY <1>1, <1>3, TailSteps
<1>5. ASSUME Len(todo') \in 1 .. 6
      PROVE  Has(read', k)
  <2>1. CASE Has(reading, k)
    BY <1>2, <2>1, Merged
  <2>2. CASE k \notin DOMAIN reading /\ step # Order[3]
    <3>1. Len(todo) # 7
      <4> SUFFICES ASSUME Len(todo) = 7 PROVE FALSE
        OBVIOUS
      <4>1. 10 - Len(todo) = 3
        OBVIOUS
      <4>2. step = Order[3]
        BY <1>4, <4>1, Zenon
      <4> QED  BY <2>2, <4>2
    <3>2. Len(todo) \in 1 .. 6
      <4>1. PICK n \in 1 .. 9 : n = Len(todo) /\ n - 1 = Len(todo')
        BY <1>4, Zenon
      <4>2. n # 7 /\ n - 1 \in 1 .. 6
        BY <1>5, <3>1, <4>1, Zenon
      <4>3. n \in 1 .. 6
        BY <4>2
      <4> QED  BY <4>1, <4>3
    <3>3. Has(read, k)
      BY <3>2 DEF StepOf
    <3> QED  BY <1>2, <2>2, <3>3, Merged
  <2> QED  BY <2>1, <2>2
<1>6. Order' = Order /\ Steps' = Steps
  BY DEF Order, Steps
<1>7. Has(read, k)' = Has(read', k)
  BY DEF Has
<1>8. Len(todo') <= 9
  <2>1. Len(todo) \in 1 .. 9 /\ Len(todo') = Len(todo) - 1
    BY <1>4, Zenon
  <2> QED  BY <2>1
<1> QED  BY <1>4, <1>5, <1>6, <1>7, <1>8 DEF StepOf

(* What the test keeps of its order. *)
LEMMA StepStep ==
  ASSUME TypeOK, StepInv, [Next]_vars
  PROVE  StepInv'
<1>1. CASE UNCHANGED <<todo, read>>
  BY <1>1 DEF StepInv, StepOf, Steps, Order, Has
<1>2. ASSUME todo' = <<>>
      PROVE  StepInv'
  BY <1>2 DEF StepInv, StepOf
<1>3. CASE ExitSafeBefore
  <2>1. ExitSafe \in Nat
    BY CountType, Scaled, PaymentAssumption DEF ExitSafe
  <2>2. Reads("exit safe", [exitSafe |-> ExitSafe])
    BY <1>3 DEF ExitSafeBefore
  <2>3. DOMAIN [exitSafe |-> ExitSafe] = {"exitSafe"} /\ [exitSafe |-> ExitSafe]["exitSafe"] = ExitSafe
    OBVIOUS
  <2>4. Has([exitSafe |-> ExitSafe], "exitSafe")
    BY <2>1, <2>3 DEF Has
  <2> QED  BY <2>2, <2>4, ReadStep DEF StepInv
<1>4. ASSUME NEW step, NEW reading, Reads(step, reading),
             "exitSafe" \notin DOMAIN reading, step # "exit safe"
      PROVE  StepInv'
  BY <1>4, ReadStep, OrderSteps DEF StepInv
<1>5. CASE EntryBefore
  <2>1. "exitSafe" \notin DOMAIN [entryBefore |-> EntrySafe, entryCounters |-> ReadPix(EntryBody)]
    OBVIOUS
  <2> QED  BY <1>4, <1>5, <2>1 DEF EntryBefore
<1>6. CASE OpenReturns \/ Funded
  <2>1. "exitSafe" \notin DOMAIN <<>>
    OBVIOUS
  <2> QED  BY <1>4, <1>6, <2>1 DEF OpenReturns, Funded
<1>7. CASE ExitCountersBefore \/ SweepsAwaited
  <2>1. \A v : "exitSafe" \notin DOMAIN [exitCounters |-> v]
    OBVIOUS
  <2> QED  BY <1>4, <1>7, <2>1 DEF ExitCountersBefore, SweepsAwaited
<1>8. CASE EntryCounters
  <2>1. \A v : "exitSafe" \notin DOMAIN [entryCounters |-> v]
    OBVIOUS
  <2> QED  BY <1>4, <1>8, <2>1 DEF EntryCounters
<1>9. CASE PumpEnds
  <2>1. \A v, w : "exitSafe" \notin DOMAIN [arrived |-> v, complete |-> w]
    OBVIOUS
  <2> QED  BY <1>4, <1>9, <2>1 DEF PumpEnds
<1>10. CASE NotFunded \/ Errs \/ Judge
  BY <1>2, <1>10 DEF NotFunded, Errs, Judge, Dropped, Ends
<1>11. CASE AskFirst \/ StakesChannel \/ Over \/ UNCHANGED vars
  BY <1>1, <1>11 DEF AskFirst, StakesChannel, Over, vars, testVars
<1>12. CASE \E c \in Cycles :
              \/ Deposits(c) \/ Refuses(c) \/ DepositFails(c) \/ Mined(c)
              \/ Confirms(c) \/ TimesOut(c) \/ EarlyRecovery(c) \/ RecoversKey(c) \/ Sweeps(c)
  BY <1>1, <1>12 DEF Deposits, Refuses, DepositFails, Decides, Mined, Confirms, TimesOut,
                     EarlyRecovery, RecoversKey, Sweeps, testVars
<1> QED  BY <1>3, <1>5, <1>6, <1>7, <1>8, <1>9, <1>10, <1>11, <1>12 DEF Next

-----------------------------------------------------------------------------
(* The assertions by name *)

(* Twelve things in a row are where they are. *)
LEMMA TwelvePlaces ==
  ASSUME NEW a, NEW b, NEW c, NEW d, NEW e, NEW f, NEW g, NEW h, NEW i, NEW j, NEW k, NEW l
  PROVE  LET t == <<a, b, c, d, e, f, g, h, i, j, k, l>>
         IN  /\ DOMAIN t = 1 .. 12
             /\ t[1] = a /\ t[2] = b /\ t[3] = c /\ t[4] = d /\ t[5] = e /\ t[6] = f
             /\ t[7] = g /\ t[8] = h /\ t[9] = i /\ t[10] = j /\ t[11] = k /\ t[12] = l
OBVIOUS

(* So are eight. *)
LEMMA EightPlaces ==
  ASSUME NEW a, NEW b, NEW c, NEW d, NEW e, NEW f, NEW g, NEW h
  PROVE  LET t == <<a, b, c, d, e, f, g, h>>
         IN  /\ DOMAIN t = 1 .. 8
             /\ t[1] = a /\ t[2] = b /\ t[3] = c /\ t[4] = d
             /\ t[5] = e /\ t[6] = f /\ t[7] = g /\ t[8] = h
OBVIOUS

(* There are twelve numbers up to twelve. *)
LEMMA UpToTwelve ==
  \A n \in 1 .. 12 : \/ n = 1 \/ n = 2 \/ n = 3 \/ n = 4 \/ n = 5 \/ n = 6
                     \/ n = 7 \/ n = 8 \/ n = 9 \/ n = 10 \/ n = 11 \/ n = 12
OBVIOUS

(* There are eight numbers up to eight. *)
LEMMA UpToEight ==
  \A n \in 1 .. 8 : \/ n = 1 \/ n = 2 \/ n = 3 \/ n = 4 \/ n = 5 \/ n = 6 \/ n = 7 \/ n = 8
OBVIOUS

(* The assertions of the happy scenario, by their names. *)
LEMMA HappyIs ==
  /\ DOMAIN HappyChecks = 1 .. 12
  /\ HappyChecks[2][2] = (Registered(read.exitCounters))
  /\ HappyChecks[4][2] = (OfExit(Tracking("confirmed")) >= Target)
  /\ HappyChecks[6][2] = (PaidCycles # None)
  /\ HappyChecks[7][2] = (PaidCycles >= Target)
  /\ HappyChecks[8][2] = (Plain("deposits") \in DOMAIN read.entryCounters)
  /\ HappyChecks[9][2] = (OfEntry("deposits") \in PaidCycles .. PaidCycles + InFlight)
  /\ HappyChecks[10][2] = (SafeDrop >= Recovered)
  /\ HappyChecks[1][1] = "carried nothing" /\ HappyChecks[2][1] = "no telemetry"
  /\ HappyChecks[3][1] = "timed out" /\ HappyChecks[4][1] = "unconfirmed"
  /\ HappyChecks[5][1] = "unrecovered" /\ HappyChecks[6][1] = "not a multiple"
  /\ HappyChecks[7][1] = "too few" /\ HappyChecks[8][1] = "no telemetry"
  /\ HappyChecks[9][1] = "deposits" /\ HappyChecks[10][1] = "not conserved"
  /\ HappyChecks[11][1] = "failed" /\ HappyChecks[12][1] = "over budget"
<1> DEFINE b1 == read.arrived
           b2 == Registered(read.exitCounters)
           b3 == OfExit(Tracking("timeout")) = 0
           b4 == OfExit(Tracking("confirmed")) >= Target
           b5 == OfExit(Plain("keys")) >= Target /\ OfExit(Plain("sweeps")) >= Target
           b6 == PaidCycles # None
           b7 == PaidCycles >= Target
           b8 == Plain("deposits") \in DOMAIN read.entryCounters
           b9 == OfEntry("deposits") \in PaidCycles .. PaidCycles + InFlight
           b10 == SafeDrop >= Recovered
           b11 == OfEntry("failed") = 0
           b12 == OfEntry("over_budget") = 0
           p1 == <<"carried nothing", b1>>
           p2 == <<"no telemetry", b2>>
           p3 == <<"timed out", b3>>
           p4 == <<"unconfirmed", b4>>
           p5 == <<"unrecovered", b5>>
           p6 == <<"not a multiple", b6>>
           p7 == <<"too few", b7>>
           p8 == <<"no telemetry", b8>>
           p9 == <<"deposits", b9>>
           p10 == <<"not conserved", b10>>
           p11 == <<"failed", b11>>
           p12 == <<"over budget", b12>>
<1>1. HappyChecks = <<p1, p2, p3, p4, p5, p6, p7, p8, p9, p10, p11, p12>>
  BY Zenon DEF HappyChecks
<1> HIDE DEF b1, b2, b3, b4, b5, b6, b7, b8, b9, b10, b11, b12
<1>2. p1[1] = "carried nothing" /\ p1[2] = b1
  OBVIOUS
<1>3. p2[1] = "no telemetry" /\ p2[2] = b2
  OBVIOUS
<1>4. p3[1] = "timed out" /\ p3[2] = b3
  OBVIOUS
<1>5. p4[1] = "unconfirmed" /\ p4[2] = b4
  OBVIOUS
<1>6. p5[1] = "unrecovered" /\ p5[2] = b5
  OBVIOUS
<1>7. p6[1] = "not a multiple" /\ p6[2] = b6
  OBVIOUS
<1>8. p7[1] = "too few" /\ p7[2] = b7
  OBVIOUS
<1>9. p8[1] = "no telemetry" /\ p8[2] = b8
  OBVIOUS
<1>10. p9[1] = "deposits" /\ p9[2] = b9
  OBVIOUS
<1>11. p10[1] = "not conserved" /\ p10[2] = b10
  OBVIOUS
<1>12. p11[1] = "failed" /\ p11[2] = b11
  OBVIOUS
<1>13. p12[1] = "over budget" /\ p12[2] = b12
  OBVIOUS
<1> HIDE DEF p1, p2, p3, p4, p5, p6, p7, p8, p9, p10, p11, p12
<1>14. /\ DOMAIN HappyChecks = 1 .. 12
      /\ HappyChecks[1] = p1 /\ HappyChecks[2] = p2 /\ HappyChecks[3] = p3 /\ HappyChecks[4] = p4
      /\ HappyChecks[5] = p5 /\ HappyChecks[6] = p6 /\ HappyChecks[7] = p7 /\ HappyChecks[8] = p8
      /\ HappyChecks[9] = p9 /\ HappyChecks[10] = p10 /\ HappyChecks[11] = p11 /\ HappyChecks[12] = p12
  BY <1>1, TwelvePlaces
<1> QED  BY <1>2, <1>3, <1>4, <1>5, <1>6, <1>7, <1>8, <1>9, <1>10, <1>11, <1>12, <1>13, <1>14, ZenonT(60)
         DEF b2, b4, b6, b7, b8, b9, b10

(* The assertions of the exhaustion scenario, by their names. *)
LEMMA ExhaustionIs ==
  /\ DOMAIN ExhaustionChecks = 1 .. 8
  /\ ExhaustionChecks[2][2] = (OfEntry("deposits") = Exhaustion)
  /\ ExhaustionChecks[3][2] = (OfEntry("over_budget") >= 1)
  /\ ExhaustionChecks[4][2] = (OfEntry("failed") = 0)
  /\ ExhaustionChecks[6][2] = (OfExit(Tracking("timeout")) >= 1)
  /\ ExhaustionChecks[7][2] = (PaidCycles # None)
  /\ ExhaustionChecks[8][2] = (PaidCycles \in 1 .. Exhaustion)
  /\ ExhaustionChecks[1][1] = "carried nothing" /\ ExhaustionChecks[2][1] = "deposits"
  /\ ExhaustionChecks[3][1] = "never refused" /\ ExhaustionChecks[4][1] = "failed"
  /\ ExhaustionChecks[5][1] = "served unpaid" /\ ExhaustionChecks[6][1] = "never timed out"
  /\ ExhaustionChecks[7][1] = "not a multiple" /\ ExhaustionChecks[8][1] = "swept"
<1> DEFINE b1 == read.arrived
           b2 == OfEntry("deposits") = Exhaustion
           b3 == OfEntry("over_budget") >= 1
           b4 == OfEntry("failed") = 0
           b5 == ~read.complete
           b6 == OfExit(Tracking("timeout")) >= 1
           b7 == PaidCycles # None
           b8 == PaidCycles \in 1 .. Exhaustion
           p1 == <<"carried nothing", b1>>
           p2 == <<"deposits", b2>>
           p3 == <<"never refused", b3>>
           p4 == <<"failed", b4>>
           p5 == <<"served unpaid", b5>>
           p6 == <<"never timed out", b6>>
           p7 == <<"not a multiple", b7>>
           p8 == <<"swept", b8>>
<1>1. ExhaustionChecks = <<p1, p2, p3, p4, p5, p6, p7, p8>>
  BY Zenon DEF ExhaustionChecks
<1> HIDE DEF b1, b2, b3, b4, b5, b6, b7, b8
<1>2. p1[1] = "carried nothing" /\ p1[2] = b1
  OBVIOUS
<1>3. p2[1] = "deposits" /\ p2[2] = b2
  OBVIOUS
<1>4. p3[1] = "never refused" /\ p3[2] = b3
  OBVIOUS
<1>5. p4[1] = "failed" /\ p4[2] = b4
  OBVIOUS
<1>6. p5[1] = "served unpaid" /\ p5[2] = b5
  OBVIOUS
<1>7. p6[1] = "never timed out" /\ p6[2] = b6
  OBVIOUS
<1>8. p7[1] = "not a multiple" /\ p7[2] = b7
  OBVIOUS
<1>9. p8[1] = "swept" /\ p8[2] = b8
  OBVIOUS
<1> HIDE DEF p1, p2, p3, p4, p5, p6, p7, p8
<1>10. /\ DOMAIN ExhaustionChecks = 1 .. 8
      /\ ExhaustionChecks[1] = p1 /\ ExhaustionChecks[2] = p2 /\ ExhaustionChecks[3] = p3 /\ ExhaustionChecks[4] = p4
      /\ ExhaustionChecks[5] = p5 /\ ExhaustionChecks[6] = p6 /\ ExhaustionChecks[7] = p7 /\ ExhaustionChecks[8] = p8
  BY <1>1, EightPlaces
<1> QED  BY <1>2, <1>3, <1>4, <1>5, <1>6, <1>7, <1>8, <1>9, <1>10, ZenonT(60)
         DEF b2, b3, b4, b6, b7, b8

(* No assertion of the happy scenario is named for the pass, and one of    *)
(* them is that Target cycles were paid for.                               *)
LEMMA HappyNames ==
  /\ 7 \in DOMAIN HappyChecks /\ HappyChecks[7][2] = (PaidCycles >= Target)
  /\ \A n \in DOMAIN HappyChecks : HappyChecks[n][1] # "pass"
<1>1. 7 \in 1 .. 12
  OBVIOUS
<1>2. ASSUME NEW n \in 1 .. 12 PROVE HappyChecks[n][1] # "pass"
  BY HappyIs, UpToTwelve, ZenonT(60)
<1> QED  BY <1>1, <1>2, HappyIs, Zenon

-----------------------------------------------------------------------------
(* A pass is paid *)

(* What the Exit's Safe gained was swept for a price, and the price is for *)
(* cycles that were deposited for and recovered.                           *)
LEMMA PaidReally ==
  ASSUME PaidInv, Has(read, "exitSafe"), PaidCycles >= Target
  PROVE  Cardinality(Really) >= Target
<1> DEFINE n == Recovered \div PerCycle
           m == Count(swept, {"paid"})
<1>1. read.exitSafe \in Nat /\ m \in Nat /\ PerCycle \in Nat \ {0} /\ Target \in Nat \ {0}
  BY CountType, PaymentAssumption DEF Has
<1>2. ExitSafe = PerCycle * m /\ PerCycle * m \in Nat
  BY <1>1, Scaled DEF ExitSafe
<1>3. Recovered = PerCycle * m - read.exitSafe /\ Recovered \in Int
  BY <1>1, <1>2 DEF Recovered
<1>4. n \in Int /\ n >= Target /\ PerCycle * n = Recovered
  BY <1>1, <1>3 DEF PaidCycles, CompletedCycles, None
<1>5. m >= n
  <2> HIDE DEF n, m
  <2>1. PerCycle * n <= PerCycle * m
    BY <1>1, <1>2, <1>3, <1>4
  <2>2. CASE m < n
    <3>1. m + 1 \in Nat /\ n \in Nat /\ m + 1 <= n
      BY <1>1, <1>4, <2>2
    <3>2. PerCycle * (m + 1) <= PerCycle * n
      BY <1>1, <3>1, Scaled
    <3>3. PerCycle * (m + 1) = PerCycle * m + PerCycle
      BY <1>1
    <3> QED  BY <1>1, <1>2, <2>1, <3>1, <3>2, <3>3
  <2> QED  BY <1>1, <1>4, <2>2
<1>6. Really = With(swept, {"paid"})
  BY DEF PaidInv, Really, With
<1> QED  BY <1>1, <1>4, <1>5, <1>6 DEF Count

(* A verdict is the last thing of a test, and a pass is a paid one. *)
LEMMA PassStep ==
  ASSUME TypeOK, StepInv, PaidInv, PassInv, [Next]_vars
  PROVE  PassInv'
<1>1. ASSUME todo # <<>>, verdict' = verdict
      PROVE  PassInv'
  BY <1>1 DEF PassInv, PassMeansPaid
<1>2. ASSUME UNCHANGED vars
      PROVE  PassInv'
  BY <1>2 DEF PassInv, PassMeansPaid, vars, testVars, entryVars, exitVars, Cycles
<1>3. CASE NotFunded \/ Errs
  BY <1>3 DEF NotFunded, Errs, Dropped, Ends, PassInv, PassMeansPaid
<1>4. CASE Judge
  <2>1. todo' = <<>> /\ UNCHANGED <<scenario, deposit, shares, swept>>
    BY <1>4 DEF Judge, Ends, entryVars, exitVars
  <2>2. ASSUME scenario = "happy", verdict' = "pass"
        PROVE  Cardinality(Really) >= Target
    <3>1. \/ \A i \in DOMAIN HappyChecks : HappyChecks[i][2]
          \/ \E i \in DOMAIN HappyChecks : verdict' = HappyChecks[i][1]
      BY <1>4, <2>2, Zenon DEF Judge, Ends, Checks
    <3>2. HappyChecks[7][2]
      BY <2>2, <3>1, HappyNames, Zenon
    <3>3. PaidCycles >= Target
      BY <3>2, HappyNames, Zenon
    <3>4. Len(todo) = 1
      <4>1. /\ todo # <<>> /\ Head(todo) = "safes after" /\ todo \in Seq(Steps) /\ Len(todo) <= 9
            /\ \A j \in 1 .. Len(todo) : todo[j] = Order[9 - Len(todo) + j]
        BY <1>4 DEF Judge, Doing, StepInv, StepOf
      <4>2. Len(todo) \in 1 .. 9 /\ Order[10 - Len(todo)] = "safes after"
        BY <4>1, TailSteps, Zenon
      <4>3. Len(todo) \in 1 .. 9
        BY <4>2, Zenon
      <4>4. 10 - Len(todo) = 9
        BY <4>2, <4>3, FromTheEnd, OrderSteps, Zenon
      <4> QED  BY <4>3, <4>4, FromTheEnd, Zenon
    <3>5. Has(read, "exitSafe")
      BY <3>4 DEF StepInv, StepOf
    <3> QED  BY <3>3, <3>5, PaidReally
  <2>3. Cardinality(Really)' = Cardinality(Really)
    BY <2>1 DEF Really, Cycles
  <2> QED  BY <2>1, <2>2, <2>3 DEF PassInv, PassMeansPaid, Really
<1>5. CASE \/ EntryBefore \/ AskFirst \/ OpenReturns \/ ExitSafeBefore \/ ExitCountersBefore \/ Funded
           \/ PumpEnds \/ SweepsAwaited \/ EntryCounters \/ StakesChannel
  BY <1>1, <1>5 DEF EntryBefore, AskFirst, OpenReturns, ExitSafeBefore, ExitCountersBefore, Funded,
                    PumpEnds, SweepsAwaited, EntryCounters, StakesChannel, Reads, Doing, testVars
<1>6. CASE \E c \in Cycles :
             \/ Deposits(c) \/ Refuses(c) \/ DepositFails(c) \/ Mined(c)
             \/ EarlyRecovery(c) \/ RecoversKey(c) \/ Sweeps(c)
  BY <1>1, <1>6 DEF Deposits, Refuses, DepositFails, Decides, Mined, EarlyRecovery, RecoversKey,
                    AtFront, Doing, Sweeps, testVars
<1>7. CASE \E c \in Cycles : Confirms(c) \/ TimesOut(c)
  <2>1. todo # <<>> /\ verdict' = verdict
    BY <1>7 DEF Confirms, TimesOut, Counted, testVars
  <2> QED  BY <1>1, <2>1
<1>8. CASE Over \/ UNCHANGED vars
  BY <1>2, <1>8 DEF Over
<1> QED  BY <1>3, <1>4, <1>5, <1>6, <1>7, <1>8 DEF Next

-----------------------------------------------------------------------------
(* What a reading says of the series it was made of *)

(* A sum over one series is its number. *)
LEMMA OneSeries ==
  ASSUME NEW x, Number(x) \in Nat
  PROVE  MapThenSumSet(Number, {x}) = Number(x)
<1> DEFINE F(g) == [s \in SUBSET {x} |->
                      IF s = {} THEN 0
                      ELSE Number(CHOOSE z \in s : TRUE) + g[s \ {CHOOSE z \in s : TRUE}]]
           iter == CHOOSE g : g = F(g)
           h == [s \in SUBSET {x} |-> IF s = {} THEN 0 ELSE Number(x)]
<1>1. MapThenSumSet(Number, {x}) = iter[{x}]
  BY DEF MapThenSumSet, MapThenFoldSet
<1>2. {x} # {} /\ (CHOOSE z \in {x} : TRUE) = x /\ {x} \ {x} = {}
  OBVIOUS
<1>3. h = F(h)
  <2>1. ASSUME NEW s \in SUBSET {x} PROVE h[s] = F(h)[s]
    <3>1. CASE s = {}
      BY <3>1
    <3>2. CASE s # {}
      <4>1. s = {x}
        BY <3>2
      <4>2. h[s] = Number(x) /\ h[{}] = 0
        BY <3>2
      <4>3. F(h)[s] = Number(x) + h[{}]
        BY <1>2, <4>1
      <4> QED
        BY <4>2, <4>3
    <3> QED
      BY <3>1, <3>2
  <2> QED
    BY <2>1
<1>4. iter = F(iter)
  <2> HIDE DEF F, h
  <2> QED
    BY <1>3
<1>5. iter[{x}] = F(iter)[{x}] /\ iter[{}] = F(iter)[{}]
  <2> HIDE DEF F, iter
  <2> QED
    BY <1>4
<1> HIDE DEF iter
<1>6. iter[{}] = 0
  BY <1>5
<1>7. iter[{x}] = Number(x) + iter[{}]
  BY <1>2, <1>5
<1> QED
  BY <1>1, <1>6, <1>7

(* The keys of a reading are those of the settlement series it was made of.*)
LEMMA Keys ==
  ASSUME NEW B
  PROVE  /\ DOMAIN ReadPix(B) = {PixKey(s) : s \in {t \in B : IsSettlement(t)}}
         /\ \A k \in DOMAIN ReadPix(B) :
              ReadPix(B)[k] = MapThenSumSet(Number, {s \in {t \in B : IsSettlement(t)} : PixKey(s) = k})
<1> DEFINE D == {t \in B : IsSettlement(t)}
           f == [s \in D |-> PixKey(s)]
<1>1. DOMAIN f = D /\ \A s \in D : f[s] = PixKey(s)
  OBVIOUS
<1>2. ReadPix(B) = Summed(f)
  BY DEF ReadPix
<1>3. /\ DOMAIN Summed(f) = {f[s] : s \in DOMAIN f}
      /\ \A k \in DOMAIN Summed(f) : Summed(f)[k] = MapThenSumSet(Number, {s \in DOMAIN f : f[s] = k})
  <2> HIDE DEF f
  <2> QED  BY DEF Summed, Range
<1>4. {f[s] : s \in DOMAIN f} = {PixKey(s) : s \in D}
  <2> HIDE DEF f, D
  <2> QED  BY <1>1
<1>5. ASSUME NEW k PROVE {s \in DOMAIN f : f[s] = k} = {s \in D : PixKey(s) = k}
  <2> HIDE DEF f, D
  <2> QED  BY <1>1
<1> QED  BY <1>2, <1>3, <1>4, <1>5

(* A series that shares its key with no other is read as its value. *)
LEMMA ReadsOne ==
  ASSUME NEW B, NEW x \in B, IsSettlement(x), x.value \in Nat,
         \A s \in B : PixKey(s) = PixKey(x) => s = x
  PROVE  PixKey(x) \in DOMAIN ReadPix(B) /\ ReadPix(B)[PixKey(x)] = x.value
<1>1. PixKey(x) \in DOMAIN ReadPix(B)
  BY Keys
<1>2. {s \in {t \in B : IsSettlement(t)} : PixKey(s) = PixKey(x)} = {x}
  OBVIOUS
<1>3. Number(x) = x.value
  BY DEF Number, Unset
<1> QED  BY <1>1, <1>2, <1>3, Keys, OneSeries

(* A key no series has is not read. *)
LEMMA ReadsNone ==
  ASSUME NEW B, NEW k, \A s \in B : PixKey(s) # k
  PROVE  k \notin DOMAIN ReadPix(B)
<1>1. k \notin {PixKey(s) : s \in {t \in B : IsSettlement(t)}}
  OBVIOUS
<1> QED  BY <1>1, Keys, Zenon

(* The series of the two ends, under the keys they are read by. *)
LEMMA PlainIs ==
  ASSUME NEW name, NEW n
  PROVE  /\ PixKey(PlainSeries(name, n)) = Plain(name) /\ PlainSeries(name, n).value = n
         /\ name \in Settlement => IsSettlement(PlainSeries(name, n))
<1>1. "outcome" \notin DOMAIN <<>>
  OBVIOUS
<1> QED  BY <1>1 DEF PixKey, PlainSeries, Plain, IsSettlement

Outcome(outcome, n) ==
  [name |-> "tracking", suffix |-> "total", labels |-> [outcome |-> outcome], value |-> n]

(* It is read by its outcome, and exists from its first count on. *)
LEMMA OutcomeIs ==
  ASSUME NEW outcome, NEW n
  PROVE  /\ PixKey(Outcome(outcome, n)) = Tracking(outcome) /\ Outcome(outcome, n).value = n
         /\ IsSettlement(Outcome(outcome, n))
         /\ TrackingSeries(outcome, n) = IF n = 0 THEN {} ELSE {Outcome(outcome, n)}
<1>1. PixKey(Outcome(outcome, n)) = Tracking(outcome)
  BY DEF PixKey, Outcome, Tracking
<1>2. Outcome(outcome, n).value = n /\ IsSettlement(Outcome(outcome, n))
  BY DEF Outcome, IsSettlement, Settlement
<1>3. TrackingSeries(outcome, n) = IF n = 0 THEN {} ELSE {Outcome(outcome, n)}
  BY DEF TrackingSeries, Outcome
<1> QED  BY <1>1, <1>2, <1>3

(* What the Entry's counters are read as. *)
EntrySays(r) ==
  /\ "entry" \notin telemetry => DOMAIN r = {}
  /\ "entry" \in telemetry =>
       /\ {Plain("deposits"), Plain("failed"), Plain("over_budget")} \subseteq DOMAIN r
       /\ r[Plain("deposits")] = Earlier + Count(deposit, Made)
       /\ r[Plain("failed")] = Count(deposit, {"failed"})
       /\ r[Plain("over_budget")] = Count(deposit, {"refused"})

(* A reading of the Entry's counters says what the Entry has counted. *)
LEMMA EntryIs == EntrySays(ReadPix(EntryBody))
<1> DEFINE a == PlainSeries("deposits", Earlier + Count(deposit, Made))
           b == PlainSeries("failed", Count(deposit, {"failed"}))
           c == PlainSeries("over_budget", Count(deposit, {"refused"}))
<1>1. CASE "entry" \notin telemetry
  <2>1. EntryBody = {}
    BY <1>1 DEF EntryBody
  <2>2. DOMAIN ReadPix(EntryBody) = {}
    <3>1. {PixKey(s) : s \in {t \in {} : IsSettlement(t)}} = {}
      OBVIOUS
    <3> QED  BY <2>1, <3>1, Keys, Zenon
  <2> QED  BY <1>1, <2>2 DEF EntrySays
<1>2. CASE "entry" \in telemetry
  <2>1. EntryBody = {a, b, c}
    BY <1>2 DEF EntryBody
  <2>2. /\ PixKey(a) = Plain("deposits") /\ PixKey(b) = Plain("failed") /\ PixKey(c) = Plain("over_budget")
        /\ a.value = Earlier + Count(deposit, Made) /\ b.value = Count(deposit, {"failed"})
        /\ c.value = Count(deposit, {"refused"})
        /\ IsSettlement(a) /\ IsSettlement(b) /\ IsSettlement(c)
    BY PlainIs DEF Settlement
  <2>3. a.value \in Nat /\ b.value \in Nat /\ c.value \in Nat
    BY <2>2, CountType, PaymentAssumption
  <2>4. /\ Plain("deposits") # Plain("failed") /\ Plain("deposits") # Plain("over_budget")
        /\ Plain("failed") # Plain("over_budget")
    BY DEF Plain
  <2> HIDE DEF a, b, c
  <2>5. a \in {a, b, c} /\ b \in {a, b, c} /\ c \in {a, b, c}
    OBVIOUS
  <2>6. /\ PixKey(a) \in DOMAIN ReadPix({a, b, c}) /\ ReadPix({a, b, c})[PixKey(a)] = a.value
        /\ PixKey(b) \in DOMAIN ReadPix({a, b, c}) /\ ReadPix({a, b, c})[PixKey(b)] = b.value
        /\ PixKey(c) \in DOMAIN ReadPix({a, b, c}) /\ ReadPix({a, b, c})[PixKey(c)] = c.value
    <3>1. ASSUME NEW x \in {a, b, c}
          PROVE  PixKey(x) \in DOMAIN ReadPix({a, b, c}) /\ ReadPix({a, b, c})[PixKey(x)] = x.value
      <4>1. \A s \in {a, b, c} : PixKey(s) = PixKey(x) => s = x
        BY <2>2, <2>4
      <4>2. IsSettlement(x) /\ x.value \in Nat
        BY <2>2, <2>3
      <4> QED  BY <4>1, <4>2, ReadsOne
    <3> QED  BY <2>5, <3>1
  <2> QED  BY <1>2, <2>1, <2>2, <2>6, ZenonT(60) DEF EntrySays
<1> QED  BY <1>1, <1>2

(* What the Exit's counters are read as. *)
ExitSays(r) ==
  /\ "exit" \notin telemetry => DOMAIN r = {}
  /\ "exit" \in telemetry =>
       /\ At(r, Tracking("confirmed")) = Count(tracking, {"confirmed"})
       /\ At(r, Tracking("timeout")) = Count(tracking, {"timeout"})

(* A reading of the Exit's says what the Exit has counted. *)
LEMMA ExitIs == ExitSays(ReadPix(ExitBody))
<1> DEFINE m == Count(tracking, {"confirmed"})
           n == Count(tracking, {"timeout"})
           a == PlainSeries("keys", Count(shares, {"recovered"}))
           b == PlainSeries("sweeps", Count(swept, {"paid", "empty"}))
           c == Outcome("confirmed", m)
           d == Outcome("timeout", n)
<1>1. CASE "exit" \notin telemetry
  <2>1. ExitBody = {}
    BY <1>1 DEF ExitBody
  <2>2. DOMAIN ReadPix(ExitBody) = {}
    <3>1. {PixKey(s) : s \in {t \in {} : IsSettlement(t)}} = {}
      OBVIOUS
    <3> QED  BY <2>1, <3>1, Keys, Zenon
  <2> QED  BY <1>1, <2>2 DEF ExitSays
<1>2. CASE "exit" \in telemetry
  <2>1. ExitBody = {a, b} \cup (IF m = 0 THEN {} ELSE {c}) \cup (IF n = 0 THEN {} ELSE {d})
    BY <1>2, OutcomeIs DEF ExitBody
  <2>2. /\ PixKey(a) = Plain("keys") /\ PixKey(b) = Plain("sweeps") /\ IsSettlement(a)
        /\ PixKey(c) = Tracking("confirmed") /\ PixKey(d) = Tracking("timeout")
        /\ c.value = m /\ d.value = n /\ IsSettlement(c) /\ IsSettlement(d)
    BY PlainIs, OutcomeIs DEF Settlement
  <2>3. m \in Nat /\ n \in Nat
    BY CountType
  <2>4. /\ Plain("keys") # Tracking("confirmed") /\ Plain("keys") # Tracking("timeout")
        /\ Plain("sweeps") # Tracking("confirmed") /\ Plain("sweeps") # Tracking("timeout")
        /\ Tracking("confirmed") # Tracking("timeout")
    BY DEF Plain, Tracking
  <2> HIDE DEF a, b, c, d, m, n
  <2> DEFINE B == {a, b} \cup (IF m = 0 THEN {} ELSE {c}) \cup (IF n = 0 THEN {} ELSE {d})
  <2>5. At(ReadPix(B), Tracking("confirmed")) = m
    <3>1. CASE m = 0
      <4>1. \A s \in B : PixKey(s) # Tracking("confirmed")
        BY <2>2, <2>4, <3>1
      <4> HIDE DEF B
      <4> QED  BY <3>1, <4>1, ReadsNone DEF At
    <3>2. CASE m # 0
      <4>1. c \in B /\ \A s \in B : PixKey(s) = PixKey(c) => s = c
        BY <2>2, <2>4, <3>2
      <4> HIDE DEF B
      <4> QED  BY <2>2, <2>3, <4>1, ReadsOne DEF At
    <3> QED  BY <3>1, <3>2
  <2>6. At(ReadPix(B), Tracking("timeout")) = n
    <3>1. CASE n = 0
      <4>1. \A s \in B : PixKey(s) # Tracking("timeout")
        BY <2>2, <2>4, <3>1
      <4> HIDE DEF B
      <4> QED  BY <3>1, <4>1, ReadsNone DEF At
    <3>2. CASE n # 0
      <4>1. d \in B /\ \A s \in B : PixKey(s) = PixKey(d) => s = d
        BY <2>2, <2>4, <3>2
      <4> HIDE DEF B
      <4> QED  BY <2>2, <2>3, <4>1, ReadsOne DEF At
    <3> QED  BY <3>1, <3>2
  <2>7. ExitBody = B
    BY <2>1
  <2>8. m = Count(tracking, {"confirmed"}) /\ n = Count(tracking, {"timeout"})
    BY DEF m, n
  <2> HIDE DEF B
  <2> QED  BY <1>2, <2>5, <2>6, <2>7, <2>8, Zenon DEF ExitSays
<1> QED  BY <1>1, <1>2

-----------------------------------------------------------------------------
(* Where the test is in its order *)

(* No two steps of the order are one. *)
LEMMA OrderIs ==
  /\ Order[1] = "entry before" /\ Order[2] = "open" /\ Order[3] = "exit safe"
  /\ Order[4] = "exit counters" /\ Order[5] = "funded" /\ Order[6] = "pump"
  /\ Order[7] = "sweeps" /\ Order[8] = "entry counters" /\ Order[9] = "safes after"
  /\ \A i, j \in 1 .. 9 : Order[i] = Order[j] => i = j
<1>1. /\ Order[1] = "entry before" /\ Order[2] = "open" /\ Order[3] = "exit safe"
      /\ Order[4] = "exit counters" /\ Order[5] = "funded" /\ Order[6] = "pump"
      /\ Order[7] = "sweeps" /\ Order[8] = "entry counters" /\ Order[9] = "safes after"
  BY DEF Order
<1>2. \A j \in 1 .. 9 : \/ j = 1 \/ j = 2 \/ j = 3 \/ j = 4 \/ j = 5
                        \/ j = 6 \/ j = 7 \/ j = 8 \/ j = 9
  OBVIOUS
<1> QED  BY <1>1, <1>2

(* The step the test is at says how many are left. *)
LEMMA StageIs ==
  ASSUME StepInv, NEW j \in 1 .. 9, Doing(Order[j])
  PROVE  Len(todo) = 10 - j /\ Len(Tail(todo)) = 9 - j
<1>1. /\ todo # <<>> /\ Head(todo) = Order[j] /\ todo \in Seq(Steps) /\ Len(todo) <= 9
      /\ \A i \in 1 .. Len(todo) : todo[i] = Order[9 - Len(todo) + i]
  BY DEF Doing, StepInv, StepOf
<1>2. Len(todo) \in 1 .. 9 /\ Len(Tail(todo)) = Len(todo) - 1 /\ Order[10 - Len(todo)] = Order[j]
  BY <1>1, TailSteps, Zenon
<1>3. PICK n \in 1 .. 9 : n = Len(todo)
  BY <1>2, Zenon
<1>4. 10 - n = j
  <2>1. 10 - n \in 1 .. 9
    OBVIOUS
  <2> QED  BY <1>2, <1>3, <2>1, OrderIs, Zenon
<1>5. n = 10 - j /\ n - 1 = 9 - j
  BY <1>4
<1> QED  BY <1>2, <1>3, <1>5, Zenon

(* Each step of the test, by the number of steps left at it and behind it. *)
LEMMA Stages ==
  ASSUME StepInv
  PROVE  /\ Doing("entry before") => Len(todo) = 9 /\ Len(Tail(todo)) = 8
         /\ Doing("open") => Len(todo) = 8 /\ Len(Tail(todo)) = 7
         /\ Doing("exit safe") => Len(todo) = 7 /\ Len(Tail(todo)) = 6
         /\ Doing("exit counters") => Len(todo) = 6 /\ Len(Tail(todo)) = 5
         /\ Doing("funded") => Len(todo) = 5 /\ Len(Tail(todo)) = 4
         /\ Doing("pump") => Len(todo) = 4 /\ Len(Tail(todo)) = 3
         /\ Doing("sweeps") => Len(todo) = 3 /\ Len(Tail(todo)) = 2
         /\ Doing("entry counters") => Len(todo) = 2 /\ Len(Tail(todo)) = 1
         /\ Doing("safes after") => Len(todo) = 1 /\ Len(Tail(todo)) = 0
<1>1. ASSUME NEW n \in 1 .. 9, NEW m \in 0 .. 8, NEW j \in 1 .. 9, j = 10 - n, m = n - 1, Doing(Order[j])
      PROVE  Len(todo) = n /\ Len(Tail(todo)) = m
  <2>1. 10 - j = n /\ 9 - j = m
    BY <1>1
  <2> QED  BY <1>1, <2>1, StageIs
<1>2. ASSUME NEW j \in 1 .. 9, Doing(Order[j])
      PROVE  Len(todo) = 10 - j /\ Len(Tail(todo)) = 9 - j
  BY <1>2, StageIs
<1>3. /\ 10 - 1 = 9 /\ 10 - 2 = 8 /\ 10 - 3 = 7 /\ 10 - 4 = 6 /\ 10 - 5 = 5 /\ 10 - 6 = 4
      /\ 10 - 7 = 3 /\ 10 - 8 = 2 /\ 10 - 9 = 1
      /\ 9 - 1 = 8 /\ 9 - 2 = 7 /\ 9 - 3 = 6 /\ 9 - 4 = 5 /\ 9 - 5 = 4 /\ 9 - 6 = 3
      /\ 9 - 7 = 2 /\ 9 - 8 = 1 /\ 9 - 9 = 0
      /\ \A j \in {1, 2, 3, 4, 5, 6, 7, 8, 9} : j \in 1 .. 9
  OBVIOUS
<1>4. ASSUME Doing(Order[1]) PROVE Len(todo) = 9 /\ Len(Tail(todo)) = 8
  BY <1>2, <1>3, <1>4
<1>5. ASSUME Doing(Order[2]) PROVE Len(todo) = 8 /\ Len(Tail(todo)) = 7
  BY <1>2, <1>3, <1>5
<1>6. ASSUME Doing(Order[3]) PROVE Len(todo) = 7 /\ Len(Tail(todo)) = 6
  BY <1>2, <1>3, <1>6
<1>7. ASSUME Doing(Order[4]) PROVE Len(todo) = 6 /\ Len(Tail(todo)) = 5
  BY <1>2, <1>3, <1>7
<1>8. ASSUME Doing(Order[5]) PROVE Len(todo) = 5 /\ Len(Tail(todo)) = 4
  BY <1>2, <1>3, <1>8
<1>9. ASSUME Doing(Order[6]) PROVE Len(todo) = 4 /\ Len(Tail(todo)) = 3
  BY <1>2, <1>3, <1>9
<1>10. ASSUME Doing(Order[7]) PROVE Len(todo) = 3 /\ Len(Tail(todo)) = 2
  BY <1>2, <1>3, <1>10
<1>11. ASSUME Doing(Order[8]) PROVE Len(todo) = 2 /\ Len(Tail(todo)) = 1
  BY <1>2, <1>3, <1>11
<1>12. ASSUME Doing(Order[9]) PROVE Len(todo) = 1 /\ Len(Tail(todo)) = 0
  BY <1>2, <1>3, <1>12
<1> QED  BY <1>4, <1>5, <1>6, <1>7, <1>8, <1>9, <1>10, <1>11, <1>12, OrderIs, Zenon

(* While the Exit's waits are followed, its counters are yet to be read. *)
LEMMA CountedIs ==
  ASSUME StepInv, Counted
  PROVE  Len(todo) \in 3 .. 9 /\ todo # <<>>
<1>1. PICK i \in DOMAIN todo : todo[i] = "sweeps"
  BY DEF Counted
<1>2. /\ todo \in Seq(Steps) /\ Len(todo) <= 9
      /\ \A k \in 1 .. Len(todo) : todo[k] = Order[9 - Len(todo) + k]
  BY DEF StepInv, StepOf
<1>3. i \in 1 .. Len(todo) /\ Len(todo) \in Nat /\ DOMAIN todo = 1 .. Len(todo)
  BY <1>2
<1>4. PICK n \in Nat : n = Len(todo)
  BY <1>3
<1>5. 9 - n + i \in 1 .. 9 /\ Order[9 - n + i] = "sweeps"
  <2>1. Order[9 - n + i] = "sweeps"
    BY <1>1, <1>2, <1>3, <1>4
  <2>2. 9 - n + i \in 1 .. 9
    BY <1>2, <1>3, <1>4
  <2> QED  BY <2>1, <2>2
<1>6. 9 - n + i = 7
  <2>1. 7 \in 1 .. 9
    OBVIOUS
  <2> QED  BY <1>5, <2>1, OrderIs, Zenon
<1>7. n \in 3 .. 9
  <2>1. i \in 1 .. n /\ n <= 9
    BY <1>2, <1>3, <1>4, Zenon
  <2> QED  BY <1>6, <2>1
<1>8. todo # <<>>
  <2>1. DOMAIN todo # {}
    BY <1>1
  <2>2. DOMAIN <<>> = {}
    OBVIOUS
  <2> QED  BY <2>1, <2>2, Zenon
<1> QED  BY <1>4, <1>7, <1>8, Zenon

(* The readings behind a step: those it took, and all others. *)
LEMMA ReadsIs ==
  ASSUME NEW step, NEW reading, Reads(step, reading), NEW k
  PROVE  /\ k \in DOMAIN reading => k \in DOMAIN read' /\ read'[k] = reading[k]
         /\ k \notin DOMAIN reading /\ k \in DOMAIN read => k \in DOMAIN read' /\ read'[k] = read[k]
BY DEF Reads

-----------------------------------------------------------------------------
(* What happens before the traffic, and what an unstrained Session keeps *)

(* Until the pump nothing is staked, recovered or swept, and only the      *)
(* first cycle is waited for; and one timeout closes the Session.          *)
CalmInv ==
  /\ Len(todo) \in 5 .. 9 =>
       /\ stake = 0
       /\ \A c \in Cycles : shares[c] = "none" /\ swept[c] = "no"
       /\ \A c \in Cycles : c # 1 => tracking[c] = "none"
  /\ Len(todo) = 9 => \A c \in Cycles : deposit[c] = "none"
  /\ \A c \in Cycles : tracking[c] = "timeout" => closed

(* Before the pump only the first cycle is asked for, and nothing comes    *)
(* back.                                                                   *)
LEMMA CalmStep ==
  ASSUME TypeOK, StepInv, CalmInv, [Next]_vars
  PROVE  CalmInv'
<1>1. ASSUME UNCHANGED <<stake, shares, swept, tracking, deposit, closed>>,
             \/ todo' = todo \/ todo' = <<>>
             \/ \E step : Doing(step) /\ todo' = Tail(todo)
      PROVE  CalmInv'
  <2>1. \/ Len(todo') = Len(todo) \/ Len(todo') = 0
        \/ Len(todo) \in 1 .. 9 /\ Len(todo') = Len(todo) - 1
    <3>1. CASE todo' = todo \/ todo' = <<>>
      BY <3>1
    <3>2. ASSUME NEW step, Doing(step), todo' = Tail(todo)
          PROVE  Len(todo) \in 1 .. 9 /\ Len(todo') = Len(todo) - 1
      <4>1. /\ todo # <<>> /\ todo \in Seq(Steps) /\ Len(todo) <= 9
            /\ \A i \in 1 .. Len(todo) : todo[i] = Order[9 - Len(todo) + i]
        BY <3>2 DEF Doing, StepInv, StepOf
      <4> QED  BY <3>2, <4>1, TailSteps, Zenon
    <3> QED  BY <1>1, <3>1, <3>2
  <2>2. (Len(todo') \in 5 .. 9 => Len(todo) \in 5 .. 9) /\ (Len(todo') = 9 => Len(todo) = 9)
    <3>1. CASE Len(todo') = Len(todo)
      BY <3>1, Zenon
    <3>2. CASE Len(todo') = 0
      <4>1. 0 \notin 5 .. 9 /\ 0 # 9
        OBVIOUS
      <4> QED  BY <3>2, <4>1, Zenon
    <3>3. ASSUME NEW n \in 1 .. 9, Len(todo) = n, Len(todo') = n - 1
          PROVE  (Len(todo') \in 5 .. 9 => Len(todo) \in 5 .. 9) /\ Len(todo') # 9
      BY <3>3
    <3> QED  BY <2>1, <3>1, <3>2, <3>3, Zenon
  <2> QED  BY <1>1, <2>2 DEF CalmInv, Cycles
<1>2. CASE EntryBefore \/ OpenReturns \/ ExitSafeBefore \/ ExitCountersBefore \/ Funded
           \/ PumpEnds \/ SweepsAwaited \/ EntryCounters
  BY <1>1, <1>2 DEF EntryBefore, OpenReturns, ExitSafeBefore, ExitCountersBefore, Funded, PumpEnds,
                    SweepsAwaited, EntryCounters, Reads, entryVars, exitVars
<1>3. CASE NotFunded \/ Errs
  <2>1. todo' = <<>> /\ tracking' = All("none")
    BY <1>3 DEF NotFunded, Errs, Dropped, Ends
  <2> QED  BY <2>1 DEF CalmInv, All, Cycles
<1>4. CASE Judge
  BY <1>1, <1>4 DEF Judge, Ends, entryVars, exitVars
<1>5. CASE AskFirst
  <2>1. Len(todo) = 8
    BY <1>5, Stages DEF AskFirst
  <2>2. /\ todo' = todo /\ UNCHANGED <<stake, shares, swept, closed>>
        /\ \A c \in Cycles : tracking'[c] = IF c = 1 THEN "waiting" ELSE tracking[c]
    BY <1>5 DEF AskFirst, Asks, testVars
  <2> QED  BY <2>1, <2>2 DEF CalmInv, Cycles
<1>6. CASE StakesChannel
  <2>1. Len(todo) = 4 /\ todo' = todo /\ UNCHANGED <<tracking, closed>>
    BY <1>6, Stages DEF StakesChannel, testVars, exitVars
  <2> QED  BY <2>1 DEF CalmInv, Cycles
<1>7. ASSUME NEW c \in Cycles, deposit[c] # "none",
             UNCHANGED <<todo, stake, shares, swept, tracking, closed>>
      PROVE  CalmInv'
  BY <1>7 DEF CalmInv, Cycles
<1>8. ASSUME NEW c \in Cycles, Deposits(c) \/ Refuses(c) \/ DepositFails(c) \/ Mined(c)
      PROVE  CalmInv'
  BY <1>7, <1>8 DEF Deposits, Refuses, DepositFails, Decides, Mined, testVars, exitVars
<1>9. ASSUME NEW c \in Cycles, Confirms(c)
      PROVE  CalmInv'
  <2>1. /\ tracking[c] = "waiting" /\ UNCHANGED <<todo, stake, shares, swept, deposit, closed>>
        /\ \A d \in Cycles : tracking'[d] = IF d = c THEN "confirmed" ELSE tracking[d]
    BY <1>9 DEF Confirms, testVars, entryVars, TypeOK
  <2> QED  BY <2>1 DEF CalmInv, Cycles
<1>10. ASSUME NEW c \in Cycles, TimesOut(c)
       PROVE  CalmInv'
  <2>1. /\ tracking[c] = "waiting" /\ UNCHANGED <<todo, stake, shares, swept, deposit>> /\ closed'
        /\ \A d \in Cycles : tracking'[d] = IF d = c THEN "timeout" ELSE tracking[d]
    BY <1>10 DEF TimesOut, testVars, entryVars, TypeOK
  <2> QED  BY <2>1 DEF CalmInv, Cycles
<1>11. ASSUME NEW c \in Cycles, EarlyRecovery(c) \/ RecoversKey(c)
       PROVE  CalmInv'
  <2>1. Len(todo) = 4
    BY <1>11, Stages DEF EarlyRecovery, RecoversKey, AtFront
  <2>2. /\ todo' = todo /\ closed' = closed
        /\ \A d \in Cycles : tracking'[d] # "timeout" \/ tracking'[d] = tracking[d]
    BY <1>11 DEF EarlyRecovery, RecoversKey, Asks, testVars
  <2> QED  BY <2>1, <2>2 DEF CalmInv, Cycles
<1>12. ASSUME NEW c \in Cycles, Sweeps(c)
       PROVE  CalmInv'
  <2>1. /\ shares[c] = "recovered" /\ UNCHANGED <<todo, stake, shares, deposit, tracking, closed>>
    BY <1>12 DEF Sweeps, testVars, entryVars
  <2> QED  BY <2>1 DEF CalmInv, Cycles
<1>13. CASE Over \/ UNCHANGED vars
  BY <1>1, <1>13 DEF Over, vars, testVars, entryVars, exitVars
<1> QED  BY <1>2, <1>3, <1>4, <1>5, <1>6, <1>8, <1>9, <1>10, <1>11, <1>12, <1>13 DEF Next

(* Unless strained, a Session's keys are recovered behind their deposits,  *)
(* so every sweep pays, and a cycle is asked for when all but the one in   *)
(* front of it are swept.                                                  *)
StrainInv ==
  ~strained =>
    /\ \A c \in Cycles : shares[c] = "recovered" => deposit[c] = "mined"
    /\ \A c \in Cycles : swept[c] # "empty"
    /\ \A c \in Cycles : deposit[c] # "none" => \A d \in 1 .. c - 2 : swept[d] = "paid"

(* A step that would break it is what straining is. *)
LEMMA StrainStep ==
  ASSUME TypeOK, PaidInv, StrainInv, [Next]_vars
  PROVE  StrainInv'
<1>1. CASE UNCHANGED <<strained, deposit, shares, swept>>
  BY <1>1 DEF StrainInv, Cycles
<1>2. CASE EntryBefore \/ OpenReturns \/ ExitSafeBefore \/ ExitCountersBefore \/ Funded
           \/ PumpEnds \/ SweepsAwaited \/ EntryCounters
  BY <1>1, <1>2 DEF EntryBefore, OpenReturns, ExitSafeBefore, ExitCountersBefore, Funded, PumpEnds,
                    SweepsAwaited, EntryCounters, Reads, entryVars, exitVars
<1>3. CASE NotFunded \/ Errs
  <2>1. deposit' = All("none") /\ shares' = All("none") /\ swept' = All("no")
    BY <1>3 DEF NotFunded, Errs, Dropped
  <2> QED  BY <2>1 DEF StrainInv, All, Cycles
<1>4. CASE Judge
  BY <1>1, <1>4 DEF Judge, entryVars, exitVars
<1>5. CASE AskFirst
  <2>1. /\ deposit[1] = "none" /\ UNCHANGED <<shares, swept, strained>>
        /\ \A c \in Cycles : deposit'[c] = IF c = 1 THEN "asked" ELSE deposit[c]
    BY <1>5 DEF AskFirst, Asks
  <2>2. 1 .. 1 - 2 = {}
    OBVIOUS
  <2> QED  BY <2>1, <2>2 DEF StrainInv, Cycles
<1>6. CASE StakesChannel
  BY <1>1, <1>6 DEF StakesChannel, exitVars
<1>7. ASSUME NEW c \in Cycles, NEW how, deposit[c] \in {"asked", "sent"},
             deposit' = [deposit EXCEPT ![c] = how], UNCHANGED <<shares, swept, strained>>
      PROVE  StrainInv'
  <2>1. \A d \in Cycles : deposit'[d] = IF d = c THEN how ELSE deposit[d]
    BY <1>7 DEF TypeOK
  <2> QED  BY <1>7, <2>1 DEF StrainInv, Cycles
<1>8. ASSUME NEW c \in Cycles, Deposits(c) \/ Refuses(c) \/ DepositFails(c) \/ Mined(c)
      PROVE  StrainInv'
  BY <1>7, <1>8 DEF Deposits, Refuses, DepositFails, Decides, Mined, exitVars
<1>9. ASSUME NEW c \in Cycles, Confirms(c) \/ TimesOut(c)
      PROVE  StrainInv'
  BY <1>1, <1>9 DEF Confirms, TimesOut, entryVars
<1>10. ASSUME NEW c \in Cycles, EarlyRecovery(c), ~strained'
       PROVE  StrainInv'
  <2>1. /\ ~strained /\ \A d \in 1 .. c - 1 : swept[d] # "no"
        /\ swept' = swept /\ shares[c] = "none"
        /\ \A d \in Cycles : shares'[d] = IF d = c THEN "early" ELSE shares[d]
        /\ \A d \in Cycles : deposit'[d] = IF d = c + 1 THEN "asked" ELSE deposit[d]
    BY <1>10 DEF EarlyRecovery, Asks, TypeOK
  <2>2. \A d \in 1 .. c - 1 : swept[d] = "paid"
    <3>1. \A d \in 1 .. c - 1 : d \in Cycles
      BY PaymentAssumption DEF Cycles
    <3> QED  BY <2>1, <3>1 DEF StrainInv, TypeOK
  <2>3. 1 .. (c + 1) - 2 = 1 .. c - 1
    BY DEF Cycles
  <2>4. ASSUME NEW d \in Cycles, d = c + 1 PROVE shares[d] # "recovered"
    <3>1. c \in 1 .. d - 1
      BY <2>4, PaymentAssumption DEF Cycles
    <3> QED  BY <2>1, <3>1 DEF PaidInv
  <2>5. \A d \in Cycles : shares'[d] = "recovered" => deposit'[d] = "mined"
    BY <2>1, <2>4 DEF StrainInv
  <2>6. \A d \in Cycles : swept'[d] # "empty"
    BY <2>1 DEF StrainInv
  <2>7. \A d \in Cycles : deposit'[d] # "none" => \A e \in 1 .. d - 2 : swept'[e] = "paid"
    BY <2>1, <2>2, <2>3 DEF StrainInv
  <2> QED  BY <2>5, <2>6, <2>7 DEF StrainInv, Cycles
<1>11. ASSUME NEW c \in Cycles, RecoversKey(c), ~strained'
       PROVE  StrainInv'
  <2>1. /\ ~strained /\ deposit[c] = "mined" /\ deposit' = deposit /\ swept' = swept
        /\ \A d \in Cycles : shares'[d] = IF d = c THEN "recovered" ELSE shares[d]
    BY <1>11 DEF RecoversKey, entryVars, TypeOK
  <2> QED  BY <2>1 DEF StrainInv, Cycles
<1>12. ASSUME NEW c \in Cycles, Sweeps(c)
       PROVE  StrainInv'
  <2>1. /\ shares[c] = "recovered" /\ UNCHANGED <<strained, deposit, shares>>
        /\ \A d \in Cycles : swept'[d] = IF d = c THEN IF deposit[c] = "mined" THEN "paid" ELSE "empty" ELSE swept[d]
    BY <1>12 DEF Sweeps, entryVars, TypeOK
  <2>2. ASSUME NEW d \in Cycles, NEW e \in 1 .. d - 2 PROVE e \in Cycles
    BY PaymentAssumption DEF Cycles
  <2> QED  BY <2>1, <2>2 DEF StrainInv, Cycles
<1>13. CASE Over \/ UNCHANGED vars
  BY <1>1, <1>13 DEF Over, vars, entryVars, exitVars
<1>14. CASE strained'
  BY <1>14 DEF StrainInv
<1> QED  BY <1>2, <1>3, <1>4, <1>5, <1>6, <1>8, <1>9, <1>10, <1>11, <1>12, <1>13, <1>14 DEF Next

-----------------------------------------------------------------------------
(* What the baselines say *)

EntryBase(r) ==
  At(r, Plain("deposits")) = Earlier /\ At(r, Plain("failed")) = 0 /\ At(r, Plain("over_budget")) = 0

ExitBase(r) == At(r, Tracking("confirmed")) \in 0 .. 1 /\ At(r, Tracking("timeout")) \in Nat

(* The baselines: the Entry's Safe whole and its strategy without a        *)
(* deposit, the Exit's Safe empty; its counters may have the first         *)
(* confirmation already.                                                   *)
BaseInv ==
  /\ Len(todo) \in 1 .. 8 => /\ {"entryBefore", "entryCounters"} \subseteq DOMAIN read
                             /\ read["entryBefore"] = funds
  /\ Len(todo) \in 1 .. 6 => "exitSafe" \in DOMAIN read /\ read["exitSafe"] = 0
  /\ Len(todo) \in 2 .. 8 /\ "entry" \in telemetry => EntryBase(read["entryCounters"])
  /\ Len(todo) \in 1 .. 5 => "exitCounters" \in DOMAIN read
  /\ Len(todo) \in 3 .. 5 => ExitBase(read["exitCounters"])

(* No cycle is in states none of them is in. *)
LEMMA CountNone ==
  ASSUME NEW f, NEW states, \A c \in Cycles : f[c] \notin states
  PROVE  Count(f, states) = 0
<1>1. With(f, states) = {}
  BY DEF With
<1> QED  BY <1>1, FS_EmptySet DEF Count

(* At most one is if only the first may be. *)
LEMMA CountFirst ==
  ASSUME NEW f, NEW states, \A c \in Cycles : c # 1 => f[c] \notin states
  PROVE  Count(f, states) \in 0 .. 1
<1>1. With(f, states) \subseteq {1}
  BY DEF With
<1>2. IsFiniteSet({1}) /\ Cardinality({1}) = 1
  BY FS_Singleton
<1>3. Cardinality(With(f, states)) <= 1
  BY <1>1, <1>2, FS_Subset
<1> QED  BY <1>3, CountType DEF Count

(* A price for no cycle is none. *)
LEMMA NoPrice == PerCycle * 0 = 0
  BY PaymentAssumption

(* Before anything is swept, staked or deposited for, the Safes are as     *)
(* they were.                                                              *)
LEMMA SafesBefore ==
  ASSUME TypeOK, CalmInv
  PROVE  /\ Len(todo) \in 5 .. 9 => ExitSafe = 0
         /\ Len(todo) = 9 => EntrySafe = funds
<1>1. ASSUME Len(todo) \in 5 .. 9 PROVE ExitSafe = 0
  <2>1. \A c \in Cycles : swept[c] \notin {"paid"}
    BY <1>1 DEF CalmInv
  <2> QED  BY <2>1, CountNone, NoPrice DEF ExitSafe
<1>2. ASSUME Len(todo) = 9 PROVE EntrySafe = funds
  <2>1. \A c \in Cycles : deposit[c] \notin {"mined"}
    BY <1>2 DEF CalmInv
  <2>2. Count(deposit, {"mined"}) = 0 /\ stake = 0
    <3>1. Len(todo) \in 5 .. 9
      BY <1>2
    <3> QED  BY <2>1, <3>1, CountNone DEF CalmInv
  <2> QED  BY <2>2, NoPrice DEF EntrySafe, TypeOK
<1> QED  BY <1>1, <1>2

(* A step that leaves the baselines alone keeps them. *)
Same(k) == k \in DOMAIN read => k \in DOMAIN read' /\ read'[k] = read[k]

(* Such a step is one of those that read no baseline. *)
LEMMA BaseKept ==
  ASSUME BaseInv, UNCHANGED <<telemetry, funds>>,
         Same("entryBefore"), Same("entryCounters"), Same("exitSafe"), Same("exitCounters"),
         NEW n \in {4, 5, 8}, Len(todo) = n, Len(todo') = n - 1
  PROVE  BaseInv'
BY DEF BaseInv, Same

(* Each baseline is read where it belongs, and no later step writes over   *)
(* it before it is used.                                                   *)
LEMMA BaseStep ==
  ASSUME TypeOK, StepInv, CalmInv, BaseInv, [Next]_vars
  PROVE  BaseInv'
<1>1. ASSUME UNCHANGED <<todo, read, telemetry, funds>>
      PROVE  BaseInv'
  BY <1>1 DEF BaseInv
<1>2. ASSUME todo' = <<>>
      PROVE  BaseInv'
  BY <1>2 DEF BaseInv
<1>3. ASSUME NEW step, NEW reading, Reads(step, reading)
      PROVE  /\ UNCHANGED <<telemetry, funds>> /\ Doing(step) /\ todo' = Tail(todo)
             /\ \A k : k \notin DOMAIN reading => Same(k)
  BY <1>3, ReadsIs DEF Reads, entryVars, Same
<1>4. CASE EntryBefore
  <2> DEFINE r == ReadPix(EntryBody)
             reading == [entryBefore |-> EntrySafe, entryCounters |-> r]
  <2>1. Reads("entry before", reading)
    BY <1>4 DEF EntryBefore
  <2>2. DOMAIN reading = {"entryBefore", "entryCounters"}
        /\ reading["entryBefore"] = EntrySafe /\ reading["entryCounters"] = r
    OBVIOUS
  <2> HIDE DEF reading
  <2>3. Len(todo) = 9 /\ Len(todo') = 8 /\ UNCHANGED <<telemetry, funds>>
    BY <1>3, <2>1, Stages
  <2>4. /\ {"entryBefore", "entryCounters"} \subseteq DOMAIN read'
        /\ read'["entryBefore"] = EntrySafe /\ read'["entryCounters"] = r
    BY <2>1, <2>2, ReadsIs
  <2>5. EntrySafe = funds
    BY <2>3, SafesBefore
  <2>6. "entry" \in telemetry => EntryBase(r)
    <3>1. \A c \in Cycles : deposit[c] \notin Made /\ deposit[c] \notin {"failed"} /\ deposit[c] \notin {"refused"}
      BY <2>3 DEF CalmInv, Made
    <3>2. Count(deposit, Made) = 0 /\ Count(deposit, {"failed"}) = 0 /\ Count(deposit, {"refused"}) = 0
      BY <3>1, CountNone
    <3>3. Earlier + 0 = Earlier
      BY PaymentAssumption
    <3>4. EntrySays(r)
      BY EntryIs
    <3> HIDE DEF r
    <3> QED  BY <3>2, <3>3, <3>4 DEF EntrySays, EntryBase, At
  <2> HIDE DEF r
  <2>7. "entry" \in telemetry => EntryBase(read'["entryCounters"])
    BY <2>4, <2>6
  <2> QED  BY <2>3, <2>4, <2>5, <2>7 DEF BaseInv
<1>5. CASE OpenReturns
  <2>1. Reads("open", <<>>)
    BY <1>5 DEF OpenReturns
  <2>2. Len(todo) = 8 /\ Len(todo') = 8 - 1 /\ 8 \in {4, 5, 8}
    <3>1. 8 - 1 = 7
      OBVIOUS
    <3> QED  BY <1>3, <2>1, <3>1, Stages
  <2>3. \A k \in {"entryBefore", "entryCounters", "exitSafe", "exitCounters"} : k \notin DOMAIN <<>>
    OBVIOUS
  <2> QED  BY <1>3, <2>1, <2>2, <2>3, BaseKept
<1>6. CASE Funded
  <2>1. Reads("funded", <<>>)
    BY <1>6 DEF Funded
  <2>2. Len(todo) = 5 /\ Len(todo') = 5 - 1 /\ 5 \in {4, 5, 8}
    <3>1. 5 - 1 = 4
      OBVIOUS
    <3> QED  BY <1>3, <2>1, <3>1, Stages
  <2>3. \A k \in {"entryBefore", "entryCounters", "exitSafe", "exitCounters"} : k \notin DOMAIN <<>>
    OBVIOUS
  <2> QED  BY <1>3, <2>1, <2>2, <2>3, BaseKept
<1>7. CASE PumpEnds
  <2>1. PICK v, w : Reads("pump", [arrived |-> v, complete |-> w])
    BY <1>7 DEF PumpEnds
  <2>2. Len(todo) = 4 /\ Len(todo') = 4 - 1 /\ 4 \in {4, 5, 8}
    <3>1. 4 - 1 = 3
      OBVIOUS
    <3> QED  BY <1>3, <2>1, <3>1, Stages
  <2>3. \A k \in {"entryBefore", "entryCounters", "exitSafe", "exitCounters"} :
           k \notin DOMAIN [arrived |-> v, complete |-> w]
    OBVIOUS
  <2> QED  BY <1>3, <2>1, <2>2, <2>3, BaseKept
<1>8. CASE ExitSafeBefore
  <2> DEFINE reading == [exitSafe |-> ExitSafe]
  <2>1. Reads("exit safe", reading)
    BY <1>8 DEF ExitSafeBefore
  <2>2. DOMAIN reading = {"exitSafe"} /\ reading["exitSafe"] = ExitSafe
    OBVIOUS
  <2> HIDE DEF reading
  <2>3. Len(todo) = 7 /\ Len(todo') = 6 /\ UNCHANGED <<telemetry, funds>>
    BY <1>3, <2>1, Stages
  <2>4. "exitSafe" \in DOMAIN read' /\ read'["exitSafe"] = ExitSafe
    BY <2>1, <2>2, ReadsIs
  <2>5. ExitSafe = 0
    BY <2>3, SafesBefore
  <2>6. Same("entryBefore") /\ Same("entryCounters")
    <3>1. "entryBefore" \notin DOMAIN reading /\ "entryCounters" \notin DOMAIN reading
      BY <2>2
    <3> QED  BY <1>3, <2>1, <3>1, Zenon
  <2> QED  BY <2>3, <2>4, <2>5, <2>6 DEF BaseInv, Same
<1>9. CASE ExitCountersBefore
  <2> DEFINE r == ReadPix(ExitBody)
             reading == [exitCounters |-> r]
  <2>1. Reads("exit counters", reading)
    BY <1>9 DEF ExitCountersBefore
  <2>2. DOMAIN reading = {"exitCounters"} /\ reading["exitCounters"] = r
    OBVIOUS
  <2> HIDE DEF reading
  <2>3. Len(todo) = 6 /\ Len(todo') = 5 /\ UNCHANGED <<telemetry, funds>>
    BY <1>3, <2>1, Stages
  <2>4. "exitCounters" \in DOMAIN read' /\ read'["exitCounters"] = r
    BY <2>1, <2>2, ReadsIs
  <2>5. Same("entryBefore") /\ Same("entryCounters") /\ Same("exitSafe")
    <3>1. /\ "entryBefore" \notin DOMAIN reading /\ "entryCounters" \notin DOMAIN reading
          /\ "exitSafe" \notin DOMAIN reading
      BY <2>2
    <3> QED  BY <1>3, <2>1, <3>1, Zenon
  <2>6. ExitBase(r)
    <3>1. \A c \in Cycles : c # 1 => tracking[c] \notin {"confirmed"}
      BY <2>3 DEF CalmInv
    <3>2. Count(tracking, {"confirmed"}) \in 0 .. 1 /\ Count(tracking, {"timeout"}) \in Nat
      BY <3>1, CountFirst, CountType
    <3>3. ExitSays(r)
      BY ExitIs
    <3>4. "exit" \notin telemetry => DOMAIN r = {}
      BY <3>3 DEF ExitSays
    <3> HIDE DEF r
    <3>5. CASE "exit" \in telemetry
      BY <3>2, <3>3, <3>5 DEF ExitSays, ExitBase
    <3>6. CASE "exit" \notin telemetry
      BY <3>4, <3>6 DEF ExitBase, At
    <3> QED  BY <3>5, <3>6
  <2> HIDE DEF r
  <2>7. ExitBase(read'["exitCounters"])
    BY <2>4, <2>6
  <2> QED  BY <2>3, <2>4, <2>5, <2>7 DEF BaseInv, Same
<1>10. CASE SweepsAwaited
  <2>1. PICK r : Reads("sweeps", [exitCounters |-> r])
    BY <1>10 DEF SweepsAwaited
  <2>2. DOMAIN [exitCounters |-> r] = {"exitCounters"}
    OBVIOUS
  <2>3. Len(todo) = 3 /\ Len(todo') = 2 /\ UNCHANGED <<telemetry, funds>>
    BY <1>3, <2>1, Stages
  <2>4. "exitCounters" \in DOMAIN read' /\ Same("entryBefore") /\ Same("entryCounters") /\ Same("exitSafe")
    BY <1>3, <2>1, <2>2, ReadsIs
  <2> QED  BY <2>3, <2>4 DEF BaseInv, Same
<1>11. CASE EntryCounters
  <2>1. PICK r : Reads("entry counters", [entryCounters |-> r])
    BY <1>11 DEF EntryCounters
  <2>2. DOMAIN [entryCounters |-> r] = {"entryCounters"}
    OBVIOUS
  <2>3. Len(todo) = 2 /\ Len(todo') = 1 /\ UNCHANGED <<telemetry, funds>>
    BY <1>3, <2>1, Stages
  <2>4. "entryCounters" \in DOMAIN read' /\ Same("entryBefore") /\ Same("exitCounters") /\ Same("exitSafe")
    BY <1>3, <2>1, <2>2, ReadsIs
  <2> QED  BY <2>3, <2>4 DEF BaseInv, Same
<1>12. CASE NotFunded \/ Errs \/ Judge
  BY <1>2, <1>12 DEF NotFunded, Errs, Judge, Dropped, Ends
<1>13. CASE AskFirst \/ StakesChannel \/ Over \/ UNCHANGED vars
  BY <1>1, <1>13 DEF AskFirst, StakesChannel, Over, vars, testVars, entryVars
<1>14. CASE \E c \in Cycles :
              \/ Deposits(c) \/ Refuses(c) \/ DepositFails(c) \/ Mined(c)
              \/ Confirms(c) \/ TimesOut(c) \/ EarlyRecovery(c) \/ RecoversKey(c) \/ Sweeps(c)
  BY <1>1, <1>14 DEF Deposits, Refuses, DepositFails, Decides, Mined, Confirms, TimesOut,
                     EarlyRecovery, RecoversKey, Sweeps, testVars, entryVars
<1> QED  BY <1>4, <1>5, <1>6, <1>7, <1>8, <1>9, <1>10, <1>11, <1>12, <1>13, <1>14 DEF Next

-----------------------------------------------------------------------------
(* What the differences say *)

ExitRead == read["exitCounters"]

EntryRead == read["entryCounters"]

Confirmed == At(ExitRead, Tracking("confirmed"))
TimedOut  == At(ExitRead, Tracking("timeout"))
Deposited == At(EntryRead, Plain("deposits"))
Broken    == At(EntryRead, Plain("failed"))
Refused   == At(EntryRead, Plain("over_budget"))

(* The Exit's: all confirmations but at most the first, and a timeout only *)
(* of a Session that was closed for it.                                    *)
ExitEnd ==
  /\ "exit" \notin telemetry => DOMAIN ExitRead = {}
  /\ "exit" \in telemetry => Confirmed \in Nat /\ Count(tracking, {"confirmed"}) <= Confirmed + 1
  /\ TimedOut >= 1 => closed

(* The Entry's: no deposit or refusal that was not made; once the budget   *)
(* is spent nothing breaks any more; and unless strained every key was     *)
(* recovered behind one of the deposits counted.                           *)
EntryEnd ==
  /\ "entry" \notin telemetry => DOMAIN EntryRead = {}
  /\ "entry" \in telemetry =>
       /\ Deposited \in Nat /\ Deposited <= Count(deposit, Made)
       /\ Refused \in Nat /\ Refused <= Count(deposit, {"refused"})
       /\ Deposited >= BudgetCycles => Count(deposit, {"failed"}) = Broken
       /\ ~strained => Count(shares, {"recovered"}) <= Deposited

EndInv ==
  /\ Len(todo) \in 1 .. 2 => ExitEnd
  /\ Len(todo) = 1 => EntryEnd

(* What was counted between two readings. *)
LEMMA SinceIs ==
  ASSUME NEW b, NEW r, NEW k, At(b, k) \in Nat
  PROVE  DOMAIN Since(b, r) = DOMAIN r /\ At(Since(b, r), k) = SafeSub(At(r, k), At(b, k))
<1>1. DOMAIN Since(b, r) = DOMAIN r /\ \A j \in DOMAIN r : Since(b, r)[j] = SafeSub(r[j], At(b, j))
  BY DEF Since
<1>2. CASE k \in DOMAIN r
  BY <1>1, <1>2 DEF At
<1>3. CASE k \notin DOMAIN r
  <2>1. SafeSub(0, At(b, k)) = 0
    BY DEF SafeSub
  <2>2. At(r, k) = 0 /\ At(Since(b, r), k) = 0
    BY <1>1, <1>3 DEF At
  <2> QED  BY <1>1, <2>1, <2>2
<1> QED  BY <1>2, <1>3

(* The counts of the next state are those of its variables. *)
LEMMA CountsThen ==
  /\ Count(deposit, Made)' = Count(deposit', Made)
  /\ BudgetCycles' = IF scenario' = "happy" THEN Budgeted ELSE Exhaustion
  /\ Count(deposit, {"refused"})' = Count(deposit', {"refused"})
  /\ Count(deposit, {"failed"})' = Count(deposit', {"failed"})
  /\ Count(shares, {"recovered"})' = Count(shares', {"recovered"})
  /\ Count(tracking, {"confirmed"})' = Count(tracking', {"confirmed"})
BY DEF Count, With, Made, Cycles, BudgetCycles

(* The Exit's last reading. *)
LEMMA ExitEnds ==
  ASSUME StepInv, CalmInv, BaseInv, SweepsAwaited
  PROVE  Len(todo') = 2 /\ ExitEnd'
<1> DEFINE b == read["exitCounters"]
           r == ReadPix(ExitBody)
           m == Count(tracking, {"confirmed"})
           n == Count(tracking, {"timeout"})
<1>1. Reads("sweeps", [exitCounters |-> Since(b, r)])
  BY DEF SweepsAwaited
<1>2. Len(todo) = 3 /\ Len(todo') = 2 /\ UNCHANGED <<telemetry, tracking, closed>>
  BY <1>1, Stages DEF Reads, exitVars
<1>3. DOMAIN [exitCounters |-> Since(b, r)] = {"exitCounters"}
      /\ [exitCounters |-> Since(b, r)]["exitCounters"] = Since(b, r)
  OBVIOUS
<1>4. read'["exitCounters"] = Since(b, r)
  BY <1>1, <1>3, ReadsIs
<1>5. At(b, Tracking("confirmed")) \in 0 .. 1 /\ At(b, Tracking("timeout")) \in Nat
  BY <1>2 DEF BaseInv, ExitBase
<1>6. m \in Nat /\ n \in Nat /\ ExitSays(r)
  BY CountType, ExitIs
<1>7. n >= 1 => closed
  <2>1. CASE \A c \in Cycles : tracking[c] \notin {"timeout"}
    <3>1. n = 0
      BY <2>1, CountNone
    <3> QED  BY <3>1
  <2>2. CASE \E c \in Cycles : tracking[c] = "timeout"
    BY <2>2 DEF CalmInv
  <2> QED  BY <2>1, <2>2
<1> DEFINE x == At(Since(b, r), Tracking("confirmed"))
           y == At(Since(b, r), Tracking("timeout"))
<1>8. /\ ExitRead' = Since(b, r) /\ Confirmed' = x /\ TimedOut' = y
      /\ Count(tracking, {"confirmed"})' = m
  BY <1>2, <1>4, CountsThen DEF ExitRead, Confirmed, TimedOut
<1>9. /\ DOMAIN Since(b, r) = DOMAIN r
      /\ x = SafeSub(At(r, Tracking("confirmed")), At(b, Tracking("confirmed")))
      /\ y = SafeSub(At(r, Tracking("timeout")), At(b, Tracking("timeout")))
  BY <1>5, SinceIs
<1>10. CASE "exit" \notin telemetry
  <2>1. DOMAIN r = {}
    BY <1>6, <1>10 DEF ExitSays
  <2>2. At(r, Tracking("timeout")) = 0
    BY <2>1 DEF At
  <2> HIDE DEF b, r, x, y
  <2>3. y = 0
    BY <1>5, <1>9, <2>2 DEF SafeSub
  <2>4. ~(y >= 1)
    BY <2>3
  <2>5. DOMAIN (ExitRead') = {} /\ ~(TimedOut' >= 1) /\ "exit" \notin telemetry'
    BY <1>2, <1>8, <1>9, <1>10, <2>1, <2>4, Zenon
  <2> QED  BY <1>2, <2>5, Zenon DEF ExitEnd
<1>11. CASE "exit" \in telemetry
  <2>1. At(r, Tracking("confirmed")) = m /\ At(r, Tracking("timeout")) = n
    BY <1>6, <1>11 DEF ExitSays
  <2> HIDE DEF b, r, x, y, m, n
  <2>2. x \in Nat /\ m <= x + 1 /\ (y >= 1 => n >= 1)
    BY <1>5, <1>6, <1>9, <2>1 DEF SafeSub
  <2>3. Confirmed' \in Nat /\ Count(tracking, {"confirmed"})' <= Confirmed' + 1
    BY <1>8, <2>2, Zenon
  <2>4. TimedOut' >= 1 => closed'
    BY <1>2, <1>7, <1>8, <2>2, Zenon
  <2> QED  BY <1>2, <1>11, <2>3, <2>4, Zenon DEF ExitEnd
<1> QED  BY <1>2, <1>10, <1>11

(* The Entry's last reading. *)
LEMMA EntryEnds ==
  ASSUME StepInv, BaseInv, StrainInv, EntryCounters
  PROVE  Len(todo') = 1 /\ EntryEnd'
<1> DEFINE b == read["entryCounters"]
           r == ReadPix(EntryBody)
           m == Count(deposit, Made)
           f == Count(deposit, {"failed"})
           o == Count(deposit, {"refused"})
<1>1. Reads("entry counters", [entryCounters |-> Since(b, r)])
  BY DEF EntryCounters
<1>2. Len(todo) = 2 /\ Len(todo') = 1 /\ UNCHANGED <<scenario, telemetry, deposit, shares, strained>>
  BY <1>1, Stages DEF Reads, exitVars, entryVars
<1>3. DOMAIN [entryCounters |-> Since(b, r)] = {"entryCounters"}
      /\ [entryCounters |-> Since(b, r)]["entryCounters"] = Since(b, r)
  OBVIOUS
<1>4. EntryRead' = Since(b, r)
  BY <1>1, <1>3, ReadsIs DEF EntryRead
<1>5. m \in Nat /\ f \in Nat /\ o \in Nat /\ Earlier \in Nat /\ EntrySays(r)
  BY CountType, EntryIs, PaymentAssumption
<1>6. CASE "entry" \notin telemetry
  <2>1. DOMAIN r = {}
    BY <1>5, <1>6 DEF EntrySays
  <2>2. DOMAIN Since(b, r) = DOMAIN r
    BY DEF Since
  <2> HIDE DEF b, r
  <2>3. DOMAIN (EntryRead') = {}
    BY <1>4, <2>1, <2>2
  <2> QED  BY <1>2, <1>6, <2>3, Zenon DEF EntryEnd
<1>7. CASE "entry" \in telemetry
  <2>1. /\ At(r, Plain("deposits")) = Earlier + m /\ At(r, Plain("failed")) = f
        /\ At(r, Plain("over_budget")) = o
    BY <1>5, <1>7 DEF EntrySays, At
  <2>2. /\ At(b, Plain("deposits")) = Earlier /\ At(b, Plain("failed")) = 0
        /\ At(b, Plain("over_budget")) = 0
    BY <1>2, <1>7 DEF BaseInv, EntryBase
  <2>3. /\ At(Since(b, r), Plain("deposits")) = SafeSub(Earlier + m, Earlier)
        /\ At(Since(b, r), Plain("failed")) = SafeSub(f, 0)
        /\ At(Since(b, r), Plain("over_budget")) = SafeSub(o, 0)
    <3>1. 0 \in Nat
      OBVIOUS
    <3> HIDE DEF b, r
    <3> QED  BY <1>5, <2>1, <2>2, <3>1, SinceIs
  <2> HIDE DEF b, r, m, f, o
  <2>4. SafeSub(Earlier + m, Earlier) = m /\ SafeSub(f, 0) = f /\ SafeSub(o, 0) = o
    BY <1>5 DEF SafeSub
  <2>5. Deposited' = m /\ Broken' = f /\ Refused' = o
    BY <1>4, <2>3, <2>4 DEF Deposited, Broken, Refused
  <2>6. Count(deposit, Made)' = m /\ Count(deposit, {"failed"})' = f /\ Count(deposit, {"refused"})' = o
    BY <1>2, CountsThen DEF m, f, o
  <2>7. ~strained => Count(shares, {"recovered"}) <= m
    <3>1. ~strained => With(shares, {"recovered"}) \subseteq With(deposit, Made)
      BY DEF StrainInv, With, Made
    <3> QED  BY <3>1, CountMonotone DEF m
  <2>8. ~strained' => Count(shares, {"recovered"})' <= m
    BY <1>2, <2>7, CountsThen
  <2>9. m <= m /\ o <= o
    BY <1>5
  <2> QED  BY <1>2, <1>5, <1>7, <2>5, <2>6, <2>8, <2>9, ZenonT(60) DEF EntryEnd
<1> QED  BY <1>2, <1>6, <1>7

(* Behind the Entry's reading deposits are only decided and mined, and     *)
(* nothing breaks where there is no budget left to try.                    *)
LEMMA EntryKept ==
  ASSUME TypeOK, EntryEnd, UNCHANGED <<scenario, telemetry, read, shares, strained>>,
         NEW c \in Cycles, NEW how \in {"sent", "mined", "refused", "failed"},
         deposit' = [deposit EXCEPT ![c] = how],
         deposit[c] = IF how = "mined" THEN "sent" ELSE "asked",
         how = "failed" => WithinBudget
  PROVE  EntryEnd'
<1>1. \A d \in Cycles : deposit'[d] = IF d = c THEN how ELSE deposit[d]
  BY DEF TypeOK
<1>2. /\ With(deposit, Made) \subseteq With(deposit', Made)
      /\ With(deposit, {"refused"}) \subseteq With(deposit', {"refused"})
      /\ how # "failed" => With(deposit', {"failed"}) = With(deposit, {"failed"})
  BY <1>1 DEF With, Made
<1>3. /\ Count(deposit, Made) <= Count(deposit', Made)
      /\ Count(deposit, {"refused"}) <= Count(deposit', {"refused"})
      /\ how # "failed" => Count(deposit', {"failed"}) = Count(deposit, {"failed"})
  BY <1>2, CountMonotone DEF Count
<1>4. ASSUME how = "failed", "entry" \in telemetry, Deposited >= BudgetCycles
      PROVE  FALSE
  <2>1. PerCycle * (Count(deposit, Made) + 1) <= PerCycle * BudgetCycles
    BY <1>4, BudgetType DEF WithinBudget
  <2>2. PICK m \in Nat : m = Count(deposit, Made)
    BY CountType
  <2>3. PICK n \in Nat : n = BudgetCycles
    BY BudgetType
  <2>4. n <= m
    BY <1>4, <2>2, <2>3 DEF EntryEnd
  <2>5. PerCycle * n <= PerCycle * m /\ PerCycle * n \in Nat
    BY <2>4, Scaled, PaymentAssumption
  <2>6. PerCycle * (m + 1) = PerCycle * m + PerCycle /\ PerCycle \in Nat \ {0} /\ PerCycle * m \in Nat
    BY PaymentAssumption, Scaled
  <2>7. PerCycle * (m + 1) <= PerCycle * n
    BY <2>1, <2>2, <2>3
  <2> QED  BY <2>5, <2>6, <2>7
<1>5. /\ Deposited' = Deposited /\ Broken' = Broken /\ Refused' = Refused /\ EntryRead' = EntryRead
      /\ BudgetCycles' = BudgetCycles
  BY DEF Deposited, Broken, Refused, EntryRead, BudgetCycles
<1>6. /\ Count(deposit, Made) \in Nat /\ Count(deposit', Made) \in Nat
      /\ Count(deposit, {"refused"}) \in Nat /\ Count(deposit', {"refused"}) \in Nat
  BY CountType
<1>7. "entry" \in telemetry => Deposited <= Count(deposit', Made) /\ Refused <= Count(deposit', {"refused"})
  BY <1>3, <1>6 DEF EntryEnd
<1>8. "entry" \in telemetry /\ Deposited >= BudgetCycles => Count(deposit', {"failed"}) = Broken
  BY <1>3, <1>4, Zenon DEF EntryEnd
<1>9. Count(shares, {"recovered"})' = Count(shares, {"recovered"})
  BY CountsThen
<1> QED  BY <1>5, <1>7, <1>8, <1>9, CountsThen, ZenonT(60) DEF EntryEnd

(* There are seven numbers from three to nine. *)
LEMMA ThreeToNine == \A n \in {8, 7, 6, 5, 4, 3} : n \in 3 .. 9
OBVIOUS

(* What the differences say stays true of whatever happens behind them.    *)
LEMMA EndStep ==
  ASSUME TypeOK, StepInv, CalmInv, BaseInv, StrainInv, EndInv, [Next]_vars
  PROVE  EndInv'
<1>1. CASE UNCHANGED <<scenario, telemetry, todo, read, deposit, tracking, shares, closed, strained>>
  <2>1. ExitEnd' = ExitEnd /\ EntryEnd' = EntryEnd
    <3>1. /\ Deposited' = Deposited /\ Broken' = Broken /\ Refused' = Refused /\ EntryRead' = EntryRead
          /\ Confirmed' = Confirmed /\ TimedOut' = TimedOut /\ ExitRead' = ExitRead
          /\ BudgetCycles' = BudgetCycles
      BY <1>1 DEF Deposited, Broken, Refused, EntryRead, BudgetCycles, Confirmed, TimedOut, ExitRead
    <3>2. /\ Count(deposit, Made)' = Count(deposit, Made)
          /\ Count(deposit, {"refused"})' = Count(deposit, {"refused"})
          /\ Count(deposit, {"failed"})' = Count(deposit, {"failed"})
          /\ Count(shares, {"recovered"})' = Count(shares, {"recovered"})
          /\ Count(tracking, {"confirmed"})' = Count(tracking, {"confirmed"})
      BY <1>1, CountsThen
    <3> QED  BY <1>1, <3>1, <3>2, ZenonT(60) DEF ExitEnd, EntryEnd
  <2> QED  BY <1>1, <2>1, Zenon DEF EndInv
<1>2. ASSUME Len(todo') \notin 1 .. 2
      PROVE  EndInv'
  <2>1. 1 \in 1 .. 2
    OBVIOUS
  <2> QED  BY <1>2, <2>1, Zenon DEF EndInv
<1>3. ASSUME NEW n \in 3 .. 9, Len(todo') = n
      PROVE  EndInv'
  BY <1>2, <1>3
<1>4. CASE EntryBefore \/ OpenReturns \/ ExitSafeBefore \/ ExitCountersBefore \/ Funded \/ PumpEnds
  <2>1. PICK step \in {"entry before", "open", "exit safe", "exit counters", "funded", "pump"} :
          \E reading : Reads(step, reading)
    BY <1>4, Zenon DEF EntryBefore, OpenReturns, ExitSafeBefore, ExitCountersBefore, Funded, PumpEnds
  <2>2. Doing(step) /\ todo' = Tail(todo)
    BY <2>1 DEF Reads
  <2>3. Len(todo') \in {8, 7, 6, 5, 4, 3}
    BY <2>2, Stages, Zenon
  <2> QED  BY <1>3, <2>3, ThreeToNine, Zenon
<1>5. CASE SweepsAwaited
  <2>1. Len(todo') = 2 /\ ExitEnd'
    BY <1>5, ExitEnds
  <2> QED  BY <2>1 DEF EndInv
<1>6. CASE EntryCounters
  <2>1. Len(todo') = 1 /\ EntryEnd'
    BY <1>6, EntryEnds
  <2>2. PICK r : Reads("entry counters", [entryCounters |-> r])
    BY <1>6 DEF EntryCounters
  <2>3. "exitCounters" \notin DOMAIN [entryCounters |-> r]
    OBVIOUS
  <2>4. Len(todo) = 2 /\ UNCHANGED <<telemetry, tracking, closed>>
    BY <2>2, Stages DEF Reads, exitVars
  <2>5. "exitCounters" \in DOMAIN read
    BY <2>4 DEF BaseInv
  <2>6. ExitRead' = ExitRead
    BY <2>2, <2>3, <2>5, ReadsIs DEF ExitRead
  <2>7. ExitEnd
    BY <2>4 DEF EndInv
  <2>8. Count(tracking, {"confirmed"})' = Count(tracking, {"confirmed"})
    BY <2>4, CountsThen
  <2>9. ExitEnd'
    BY <2>4, <2>6, <2>7, <2>8, Zenon DEF ExitEnd, Confirmed, TimedOut
  <2> QED  BY <2>1, <2>9, Zenon DEF EndInv
<1>7. CASE NotFunded \/ Errs \/ Judge
  <2>1. todo' = <<>>
    BY <1>7 DEF NotFunded, Errs, Judge, Dropped, Ends
  <2>2. Len(todo') \notin 1 .. 2
    BY <2>1
  <2> QED  BY <1>2, <2>2
<1>8. CASE AskFirst \/ StakesChannel
  <2>1. Len(todo') \in {4, 8}
    BY <1>8, Stages, Zenon DEF AskFirst, StakesChannel, testVars
  <2> QED  BY <1>3, <2>1
<1>9. ASSUME NEW c \in Cycles, EarlyRecovery(c) \/ RecoversKey(c)
      PROVE  EndInv'
  <2>1. Len(todo') = 4
    <3>1. Doing("pump") /\ todo' = todo
      BY <1>9 DEF EarlyRecovery, RecoversKey, AtFront, testVars
    <3> QED  BY <3>1, Stages, Zenon
  <2> QED  BY <1>3, <2>1
<1>10. ASSUME NEW c \in Cycles, Confirms(c) \/ TimesOut(c)
       PROVE  EndInv'
  <2>1. Counted /\ todo' = todo
    BY <1>10, Zenon DEF Confirms, TimesOut, testVars
  <2>2. Len(todo') \in 3 .. 9
    BY <2>1, CountedIs, Zenon
  <2> QED  BY <1>3, <2>2
<1>11. ASSUME NEW c \in Cycles, Sweeps(c)
       PROVE  EndInv'
  BY <1>1, <1>11 DEF Sweeps, testVars, entryVars
<1>12. ASSUME NEW c \in Cycles, Deposits(c) \/ Refuses(c) \/ DepositFails(c) \/ Mined(c)
       PROVE  EndInv'
  <2>1. PICK how \in {"sent", "mined", "refused", "failed"} :
           /\ deposit' = [deposit EXCEPT ![c] = how]
           /\ deposit[c] = IF how = "mined" THEN "sent" ELSE "asked"
           /\ how = "failed" => WithinBudget
    BY <1>12 DEF Deposits, Refuses, DepositFails, Decides, Mined
  <2>2. UNCHANGED <<scenario, telemetry, todo, read, tracking, shares, closed, strained>>
    BY <1>12 DEF Deposits, Refuses, DepositFails, Decides, Mined, testVars, exitVars
  <2>3. EntryEnd => EntryEnd'
    BY <2>1, <2>2, EntryKept
  <2>4. ExitEnd => ExitEnd'
    BY <2>2, CountsThen, Zenon DEF ExitEnd, Confirmed, TimedOut, ExitRead
  <2> QED  BY <2>2, <2>3, <2>4, Zenon DEF EndInv
<1>13. CASE Over \/ UNCHANGED vars
  BY <1>1, <1>13 DEF Over, vars, testVars, entryVars, exitVars
<1> QED  BY <1>4, <1>5, <1>6, <1>7, <1>8, <1>9, <1>10, <1>11, <1>12, <1>13 DEF Next

-----------------------------------------------------------------------------
(* What the accounts come to *)

(* A factor is cancelled. *)
LEMMA Cancelled ==
  ASSUME NEW a \in Nat \ {0}, NEW x \in Nat, NEW y \in Nat, a * x <= a * y
  PROVE  x <= y
<1> SUFFICES ASSUME y + 1 <= x PROVE FALSE
  OBVIOUS
<1>1. a * (y + 1) <= a * x
  BY Scaled
<1>2. a * (y + 1) = a * y + a
  OBVIOUS
<1>3. a * x \in Nat /\ a * y \in Nat
  BY Scaled
<1> QED  BY <1>1, <1>2, <1>3

(* A product divided by a factor is the other. *)
LEMMA DividedOut ==
  ASSUME NEW a \in Nat \ {0}, NEW x \in Nat
  PROVE  (a * x) \div a = x
  BY Z3

(* No more is deposited than was budgeted for. *)
LEMMA MadeInBudget ==
  ASSUME TypeOK
  PROVE  Count(deposit, Made) <= BudgetCycles
<1>1. PerCycle * Count(deposit, Made) <= PerCycle * BudgetCycles
  BY BudgetType DEF TypeOK
<1> QED  BY <1>1, BudgetType, CountType, Cancelled, PaymentAssumption

(* The Exit was paid for deposits that were mined, behind keys that were   *)
(* recovered.                                                              *)
LEMMA PaidIsMined ==
  ASSUME PaidInv
  PROVE  /\ Count(swept, {"paid"}) <= Count(deposit, {"mined"})
         /\ Count(deposit, {"mined"}) <= Count(deposit, Made)
         /\ Count(swept, {"paid"}) <= Count(shares, {"recovered"})
<1>1. /\ With(swept, {"paid"}) \subseteq With(deposit, {"mined"})
      /\ With(swept, {"paid"}) \subseteq With(shares, {"recovered"})
      /\ With(deposit, {"mined"}) \subseteq With(deposit, Made)
  BY DEF PaidInv, With, Made
<1> QED  BY <1>1, CountMonotone

(* With the Exit's Safe empty before the traffic, the cycles divided out   *)
(* of what it gained are those it was paid for.                            *)
LEMMA PaidCyclesIs ==
  ASSUME TypeOK, PaidInv, BaseInv, Len(todo) = 1
  PROVE  /\ Recovered = PerCycle * Count(swept, {"paid"})
         /\ PaidCycles # None => PaidCycles = Count(swept, {"paid"})
         /\ BudgetCycles <= Plausible => PaidCycles # None
<1>1. PICK m \in Nat : m = Count(swept, {"paid"})
  BY CountType
<1>2. Recovered = PerCycle * m
  <2>1. read.exitSafe = 0
    <3>1. 1 \in 1 .. 6
      OBVIOUS
    <3>2. read["exitSafe"] = 0
      BY <3>1, Zenon DEF BaseInv
    <3> QED  BY <3>2
  <2>2. PerCycle * m \in Nat
    BY Scaled, PaymentAssumption
  <2> QED  BY <1>1, <2>1, <2>2 DEF Recovered, ExitSafe
<1>3. (PerCycle * m) \div PerCycle = m /\ PerCycle * m >= 0
  BY DividedOut, Scaled, PaymentAssumption
<1>4. PaidCycles = IF m <= Plausible THEN m ELSE None
  BY <1>2, <1>3 DEF PaidCycles, CompletedCycles
<1>5. m <= BudgetCycles
  <2>1. /\ m <= Count(deposit, {"mined"}) /\ Count(deposit, {"mined"}) <= Count(deposit, Made)
        /\ Count(deposit, Made) <= BudgetCycles
    BY <1>1, PaidIsMined, MadeInBudget
  <2> QED  BY <2>1, CountType, BudgetType
<1>6. BudgetCycles <= Plausible => m <= Plausible
  BY <1>5, BudgetType, PaymentAssumption
<1>7. m # None
  BY DEF None
<1> QED  BY <1>1, <1>2, <1>4, <1>6, <1>7

(* What the Entry's Safe lost covers what the Exit's gained. *)
LEMMA Conserved ==
  ASSUME TypeOK, PaidInv, BaseInv, Len(todo) = 1
  PROVE  SafeDrop >= Recovered
<1>1. PICK m \in Nat : m = Count(swept, {"paid"})
  BY CountType
<1>2. PICK n \in Nat : n = Count(deposit, {"mined"})
  BY CountType
<1>3. m <= n
  BY <1>1, <1>2, PaidIsMined
<1>4. PerCycle * m <= PerCycle * n /\ PerCycle * m \in Nat /\ PerCycle * n \in Nat
  BY <1>3, Scaled, PaymentAssumption
<1>5. read.entryBefore = funds
  <2>1. 1 \in 1 .. 8
    OBVIOUS
  <2>2. read["entryBefore"] = funds
    BY <2>1, Zenon DEF BaseInv
  <2> QED  BY <2>2
<1>6. funds \in Nat /\ stake \in Nat
  BY PaymentAssumption DEF TypeOK
<1>7. SafeDrop = stake + PerCycle * n
  BY <1>2, <1>4, <1>5, <1>6 DEF SafeDrop, EntrySafe
<1>8. Recovered = PerCycle * m
  BY <1>1, PaidCyclesIs
<1> QED  BY <1>4, <1>6, <1>7, <1>8

(* Unless strained, at most the two cycles in front are deposited for and  *)
(* not paid.                                                               *)
LEMMA TwoInFlight ==
  ASSUME TypeOK, StrainInv, ~strained
  PROVE  Count(deposit, Made) <= Count(swept, {"paid"}) + 2
<1> DEFINE P == With(swept, {"paid"})
           M == With(deposit, Made)
<1>1. ASSUME NEW c \in M \ P, NEW d \in M \ P
      PROVE  c <= d + 1 /\ c \in Int /\ d \in Int
  <2>1. c \in Cycles /\ d \in Cycles /\ deposit[c] # "none" /\ swept[d] # "paid"
    BY DEF With, Made
  <2>2. d \notin 1 .. c - 2
    BY <2>1 DEF StrainInv
  <2> QED  BY <2>1, <2>2, PaymentAssumption DEF Cycles
<1>2. \E x, y : M \subseteq P \cup {x} \cup {y}
  <2>1. CASE M \subseteq P
    BY <2>1
  <2>2. ASSUME NEW x \in M \ P
        PROVE  \E y : M \subseteq P \cup {x} \cup {y}
    <3>1. CASE M \ P \subseteq {x}
      BY <3>1
    <3>2. ASSUME NEW y \in M \ P, y # x
          PROVE  M \subseteq P \cup {x} \cup {y}
      <4>1. ASSUME NEW z \in M \ P PROVE z = x \/ z = y
        <5> HIDE DEF M, P
        <5> QED  BY <1>1, <2>2, <3>2, <4>1
      <4> QED  BY <4>1
    <3> QED  BY <3>1, <3>2
  <2> QED  BY <2>1, <2>2
<1>3. PICK x, y : M \subseteq P \cup {x} \cup {y}
  BY <1>2
<1>4. IsFiniteSet(P) /\ Cardinality(P) \in Nat
  BY CountType DEF Count
<1> HIDE DEF P, M
<1>5. /\ IsFiniteSet(P \cup {x}) /\ Cardinality(P \cup {x}) <= Cardinality(P) + 1
      /\ Cardinality(P \cup {x}) \in Nat
  BY <1>4, FS_AddElement
<1>6. /\ IsFiniteSet((P \cup {x}) \cup {y}) /\ Cardinality((P \cup {x}) \cup {y}) <= Cardinality(P \cup {x}) + 1
      /\ Cardinality((P \cup {x}) \cup {y}) \in Nat
  BY <1>5, FS_AddElement
<1>7. Cardinality(M) <= Cardinality((P \cup {x}) \cup {y}) /\ Cardinality(M) \in Nat
  BY <1>3, <1>6, FS_Subset, FS_CardinalityType
<1>8. Cardinality(M) <= Cardinality(P) + 2
  BY <1>4, <1>5, <1>6, <1>7
<1> QED  BY <1>8 DEF M, P, Count

-----------------------------------------------------------------------------
(* The verdicts *)

(* The verdict of the last step is a pass with every assertion, or the     *)
(* name of the first that does not hold.                                   *)
LEMMA JudgeIs ==
  ASSUME StepInv, Judge
  PROVE  /\ Len(todo) = 1 /\ todo' = <<>>
         /\ UNCHANGED <<scenario, telemetry, deposit, tracking, shares, swept, closed, strained>>
         /\ \/ verdict' = "pass" /\ \A i \in DOMAIN Checks : Checks[i][2]
            \/ \E i \in DOMAIN Checks : /\ verdict' = Checks[i][1] /\ ~Checks[i][2]
                                        /\ \A j \in 1 .. i - 1 : Checks[j][2]
<1>1. Len(todo) = 1
  BY Stages DEF Judge
<1>2. \/ verdict' = "pass" /\ \A i \in DOMAIN Checks : Checks[i][2]
      \/ \E i \in DOMAIN Checks : /\ verdict' = Checks[i][1] /\ ~Checks[i][2]
                                  /\ \A j \in 1 .. i - 1 : Checks[j][2]
  BY Zenon DEF Judge, Ends
<1>3. todo' = <<>> /\ UNCHANGED <<scenario, telemetry, deposit, tracking, shares, swept, closed, strained>>
  BY DEF Judge, Ends, entryVars, exitVars
<1> QED  BY <1>1, <1>2, <1>3

(* What the last readings are called. *)
LEMMA LastReadings ==
  /\ read.exitCounters = ExitRead /\ read.entryCounters = EntryRead
  /\ OfExit(Tracking("confirmed")) = Confirmed /\ OfExit(Tracking("timeout")) = TimedOut
  /\ OfEntry("deposits") = Deposited /\ OfEntry("failed") = Broken /\ OfEntry("over_budget") = Refused
<1>1. read.exitCounters = ExitRead /\ read.entryCounters = EntryRead
  BY DEF ExitRead, EntryRead
<1> QED  BY <1>1, Zenon DEF OfExit, OfEntry, Confirmed, TimedOut, Deposited, Broken, Refused

(* What is blamed on the bookkeeping of the happy scenario. *)
LEMMA HappyVerdict ==
  ASSUME InFlight >= 2, Budgeted <= Plausible,
         TypeOK, StepInv, PaidInv, BaseInv, StrainInv, EndInv, Judge
  PROVE  AccountsReconcile'
<1> SUFFICES ASSUME scenario = "happy"
             PROVE  /\ verdict' \in {"deposits", "not a multiple", "not conserved"} => strained
                    /\ verdict' = "unconfirmed" => Count(tracking, {"confirmed"}) <= Target
  BY JudgeIs, CountsThen, Zenon DEF AccountsReconcile
<1>1. Len(todo) = 1 /\ Checks = HappyChecks /\ BudgetCycles <= Plausible
  BY JudgeIs DEF Checks, BudgetCycles
<1>2. ExitEnd /\ EntryEnd
  <2>1. 1 \in 1 .. 2
    OBVIOUS
  <2> QED  BY <1>1, <2>1, Zenon DEF EndInv
<1>3. ASSUME NEW name, verdict' = name, name # "pass"
      PROVE  \E i \in 1 .. 12 : /\ HappyChecks[i][1] = name /\ ~HappyChecks[i][2]
                                /\ \A j \in 1 .. i - 1 : HappyChecks[j][2]
  BY <1>1, <1>3, JudgeIs, HappyIs, Zenon
<1>4. verdict' # "not a multiple"
  <2> SUFFICES ASSUME verdict' = "not a multiple" PROVE FALSE
    OBVIOUS
  <2>1. ~HappyChecks[6][2]
    <3>1. PICK i \in 1 .. 12 : HappyChecks[i][1] = "not a multiple" /\ ~HappyChecks[i][2]
      BY <1>3, Zenon
    <3>2. i = 6
      BY <3>1, HappyIs, UpToTwelve, ZenonT(60)
    <3> QED  BY <3>1, <3>2, Zenon
  <2>2. PaidCycles # None
    BY <1>1, PaidCyclesIs
  <2> QED  BY <2>1, <2>2, HappyIs, Zenon
<1>5. verdict' # "not conserved"
  <2> SUFFICES ASSUME verdict' = "not conserved" PROVE FALSE
    OBVIOUS
  <2>1. ~HappyChecks[10][2]
    <3>1. PICK i \in 1 .. 12 : HappyChecks[i][1] = "not conserved" /\ ~HappyChecks[i][2]
      BY <1>3, Zenon
    <3>2. i = 10
      BY <3>1, HappyIs, UpToTwelve, ZenonT(60)
    <3> QED  BY <3>1, <3>2, Zenon
  <2>2. SafeDrop >= Recovered
    BY <1>1, Conserved
  <2> QED  BY <2>1, <2>2, HappyIs, Zenon
<1>6. ASSUME verdict' = "deposits", ~strained PROVE FALSE
  <2>1. ~HappyChecks[9][2] /\ HappyChecks[8][2]
    <3>1. PICK i \in 1 .. 12 : /\ HappyChecks[i][1] = "deposits" /\ ~HappyChecks[i][2]
                               /\ \A j \in 1 .. i - 1 : HappyChecks[j][2]
      BY <1>3, <1>6, Zenon
    <3>2. i = 9
      BY <3>1, HappyIs, UpToTwelve, ZenonT(60)
    <3>3. 8 \in 1 .. 9 - 1
      OBVIOUS
    <3> QED  BY <3>1, <3>2, <3>3, Zenon
  <2>2. "entry" \in telemetry
    <3>1. Plain("deposits") \in DOMAIN EntryRead
      BY <2>1, HappyIs, LastReadings, Zenon
    <3> QED  BY <1>2, <3>1 DEF EntryEnd
  <2>3. PaidCycles = Count(swept, {"paid"})
    BY <1>1, PaidCyclesIs
  <2>4. PICK m \in Nat : m = Count(swept, {"paid"})
    BY CountType
  <2>5. PICK n \in Nat : n = Deposited
    BY <1>2, <2>2 DEF EntryEnd
  <2>6. m <= n
    <3>1. m <= Count(shares, {"recovered"}) /\ Count(shares, {"recovered"}) <= n
      BY <1>2, <1>6, <2>2, <2>4, <2>5, PaidIsMined DEF EntryEnd
    <3> QED  BY <3>1, CountType
  <2>7. n <= m + 2
    <3>1. n <= Count(deposit, Made) /\ Count(deposit, Made) <= m + 2
      BY <1>2, <1>6, <2>2, <2>4, <2>5, TwoInFlight DEF EntryEnd
    <3> QED  BY <3>1, CountType
  <2>8. n \in m .. m + InFlight
    BY <2>6, <2>7, PaymentAssumption
  <2>9. OfEntry("deposits") \in PaidCycles .. PaidCycles + InFlight
    BY <2>3, <2>4, <2>5, <2>8, LastReadings, Zenon
  <2> QED  BY <2>1, <2>9, HappyIs, Zenon
<1>7. ASSUME verdict' = "unconfirmed" PROVE Count(tracking, {"confirmed"}) <= Target
  <2>1. ~HappyChecks[4][2] /\ HappyChecks[2][2]
    <3>1. PICK i \in 1 .. 12 : /\ HappyChecks[i][1] = "unconfirmed" /\ ~HappyChecks[i][2]
                               /\ \A j \in 1 .. i - 1 : HappyChecks[j][2]
      BY <1>3, <1>7, Zenon
    <3>2. i = 4
      BY <3>1, HappyIs, UpToTwelve, ZenonT(60)
    <3>3. 2 \in 1 .. 4 - 1
      OBVIOUS
    <3> QED  BY <3>1, <3>2, <3>3, Zenon
  <2>2. "exit" \in telemetry
    <3>1. Registered(ExitRead)
      BY <2>1, HappyIs, LastReadings, Zenon
    <3> QED  BY <1>2, <3>1 DEF ExitEnd, Registered
  <2>3. PICK n \in Nat : n = Confirmed
    BY <1>2, <2>2 DEF ExitEnd
  <2>4. ~(n >= Target)
    BY <2>1, <2>3, HappyIs, LastReadings, Zenon
  <2>5. Count(tracking, {"confirmed"}) <= n + 1
    BY <1>2, <2>2, <2>3 DEF ExitEnd
  <2> QED  BY <2>4, <2>5, CountType, PaymentAssumption
<1> QED  BY <1>4, <1>5, <1>6, <1>7

(* What a pass of the exhaustion scenario means. *)
LEMMA ExhaustionVerdict ==
  ASSUME TypeOK, StepInv, PaidInv, BaseInv, EndInv, Judge
  PROVE  BudgetBinds'
<1> SUFFICES ASSUME scenario = "exhaustion", verdict' = "pass"
             PROVE  /\ Count(deposit, Made) = Exhaustion
                    /\ Count(deposit, {"refused"}) >= 1 /\ Count(deposit, {"failed"}) = 0
                    /\ closed /\ Count(swept, {"paid"}) \in 1 .. Exhaustion
  <2>1. Count(swept, {"paid"})' = Count(swept', {"paid"})
    BY DEF Count, With, Cycles
  <2> QED  BY <2>1, JudgeIs, CountsThen, Zenon DEF BudgetBinds
<1>1. Len(todo) = 1 /\ Checks = ExhaustionChecks /\ BudgetCycles = Exhaustion
  BY JudgeIs DEF Checks, BudgetCycles
<1>2. ExitEnd /\ EntryEnd
  <2>1. 1 \in 1 .. 2
    OBVIOUS
  <2> QED  BY <1>1, <2>1, Zenon DEF EndInv
<1>3. \A i \in DOMAIN ExhaustionChecks : ExhaustionChecks[i][2]
  <2>1. ASSUME NEW i \in DOMAIN ExhaustionChecks PROVE ExhaustionChecks[i][1] # "pass"
    <3>1. i \in 1 .. 8
      BY <2>1, ExhaustionIs, Zenon
    <3> QED  BY <3>1, ExhaustionIs, UpToEight, ZenonT(60)
  <2> QED  BY <1>1, <2>1, JudgeIs, Zenon
<1>4. /\ Deposited = Exhaustion /\ Refused >= 1 /\ Broken = 0 /\ TimedOut >= 1
      /\ PaidCycles # None /\ PaidCycles \in 1 .. Exhaustion
  <2>1. 2 \in 1 .. 8 /\ 3 \in 1 .. 8 /\ 4 \in 1 .. 8 /\ 6 \in 1 .. 8 /\ 7 \in 1 .. 8 /\ 8 \in 1 .. 8
    OBVIOUS
  <2>2. /\ ExhaustionChecks[2][2] /\ ExhaustionChecks[3][2] /\ ExhaustionChecks[4][2]
        /\ ExhaustionChecks[6][2] /\ ExhaustionChecks[7][2] /\ ExhaustionChecks[8][2]
    BY <1>3, <2>1, ExhaustionIs, Zenon
  <2> QED  BY <2>2, ExhaustionIs, LastReadings, ZenonT(60)
<1>5. "entry" \in telemetry
  <2> SUFFICES ASSUME "entry" \notin telemetry PROVE FALSE
    OBVIOUS
  <2>1. Refused = 0
    BY <1>2 DEF EntryEnd, Refused, At
  <2> QED  BY <1>4, <2>1
<1>6. Count(deposit, Made) = Exhaustion
  <2>1. Exhaustion <= Count(deposit, Made) /\ Count(deposit, Made) <= Exhaustion
    BY <1>1, <1>2, <1>4, <1>5, MadeInBudget DEF EntryEnd
  <2> QED  BY <2>1, CountType, PaymentAssumption
<1>7. Count(deposit, {"refused"}) >= 1
  <2>1. Refused \in Nat /\ Refused <= Count(deposit, {"refused"})
    BY <1>2, <1>5 DEF EntryEnd
  <2> QED  BY <1>4, <2>1, CountType
<1>8. Count(deposit, {"failed"}) = 0
  <2>1. Deposited >= BudgetCycles
    BY <1>1, <1>4, PaymentAssumption
  <2> QED  BY <1>2, <1>4, <1>5, <2>1 DEF EntryEnd
<1>9. closed
  BY <1>2, <1>4 DEF ExitEnd
<1>10. Count(swept, {"paid"}) \in 1 .. Exhaustion
  BY <1>1, <1>4, PaidCyclesIs
<1> QED  BY <1>6, <1>7, <1>8, <1>9, <1>10

(* A step judges, ends the test early or leaves it without a verdict: once *)
(* there is one nothing moves.                                             *)
LEMMA VerdictStep ==
  ASSUME TypeOK, StepInv, PassInv, [Next]_vars
  PROVE  \/ Judge
         \/ UNCHANGED vars
         \/ verdict' \in {"none", "error", "underfunded"}
<1>1. CASE NotFunded \/ Errs
  BY <1>1 DEF NotFunded, Errs, Dropped, Ends
<1>2. ASSUME todo # <<>>, verdict' = verdict
      PROVE  verdict' \in {"none", "error", "underfunded"}
  BY <1>2 DEF PassInv
<1>3. CASE \/ EntryBefore \/ AskFirst \/ OpenReturns \/ ExitSafeBefore \/ ExitCountersBefore \/ Funded
           \/ PumpEnds \/ SweepsAwaited \/ EntryCounters \/ StakesChannel
  BY <1>2, <1>3 DEF EntryBefore, AskFirst, OpenReturns, ExitSafeBefore, ExitCountersBefore, Funded,
                    PumpEnds, SweepsAwaited, EntryCounters, StakesChannel, Reads, Doing, testVars
<1>4. CASE \E c \in Cycles :
             \/ Deposits(c) \/ Refuses(c) \/ DepositFails(c) \/ Mined(c)
             \/ EarlyRecovery(c) \/ RecoversKey(c) \/ Sweeps(c)
  BY <1>2, <1>4 DEF Deposits, Refuses, DepositFails, Decides, Mined, EarlyRecovery, RecoversKey,
                    AtFront, Doing, Sweeps, testVars
<1>5. CASE \E c \in Cycles : Confirms(c) \/ TimesOut(c)
  <2>1. todo # <<>> /\ verdict' = verdict
    BY <1>5 DEF Confirms, TimesOut, Counted, testVars
  <2> QED  BY <1>2, <2>1
<1> QED  BY <1>1, <1>3, <1>4, <1>5 DEF Next, Over

(* The state every scenario starts in, as the lemmas above want it. *)
LEMMA BooksInit ==
  ASSUME Init
  PROVE  StepInv /\ PaidInv /\ PassInv /\ CalmInv /\ StrainInv /\ BaseInv /\ EndInv
<1>1. todo = Order /\ verdict = "none" /\ stake = 0
  BY DEF Init
<1>2. Order \in Seq(Steps) /\ Len(Order) = 9
  <2>1. \A j \in 1 .. 9 : Order[j] \in Steps
    BY DEF Steps
  <2>2. /\ Order[1] \in Steps /\ Order[2] \in Steps /\ Order[3] \in Steps
        /\ Order[4] \in Steps /\ Order[5] \in Steps /\ Order[6] \in Steps
        /\ Order[7] \in Steps /\ Order[8] \in Steps /\ Order[9] \in Steps
    BY <2>1
  <2>3. Order = <<Order[1], Order[2], Order[3], Order[4], Order[5], Order[6], Order[7], Order[8], Order[9]>>
    BY DEF Order
  <2>4. PICK a \in Steps, b \in Steps, c \in Steps, d \in Steps, e \in Steps,
             f \in Steps, g \in Steps, h \in Steps, i \in Steps : Order = <<a, b, c, d, e, f, g, h, i>>
    BY <2>2, <2>3, ZenonT(60)
  <2>5. <<a, b, c, d, e, f, g, h, i>> \in Seq(Steps)
    BY NineElements, ZenonT(60)
  <2> QED  BY <2>4, <2>5, OrderSteps, Zenon
<1>3. StepInv
  <2>1. \A j \in 1 .. 9 : 9 - 9 + j = j
    OBVIOUS
  <2> QED  BY <1>1, <1>2, <2>1 DEF StepInv, StepOf
<1>4. PaidInv /\ CalmInv /\ StrainInv
  BY DEF Init, All, PaidInv, CalmInv, StrainInv
<1>5. PassInv
  BY <1>1 DEF PassInv, PassMeansPaid
<1>6. BaseInv /\ EndInv
  <2>1. Len(todo) = 9
    BY <1>1, <1>2
  <2> QED  BY <2>1 DEF BaseInv, EndInv
<1> QED  BY <1>3, <1>4, <1>5, <1>6

(* The happy scenario's pass is never for less than its target of cycles   *)
(* really paid: the Exit's baseline is one of its own Safe, taken before   *)
(* the traffic, and the Safe moves for nothing but a sweep of a mined      *)
(* deposit with a recovered key.                                           *)
THEOREM PassIsPaid == Spec => []PassMeansPaid
<1>1. Init => StepInv /\ PaidInv /\ PassInv
  BY BooksInit
<1>2. TypeOK /\ StepInv /\ PaidInv /\ PassInv /\ [Next]_vars => (StepInv /\ PaidInv /\ PassInv)'
  BY StepStep, PaidStep, PassStep
<1>3. PassInv => PassMeansPaid
  BY DEF PassInv
<1> QED  BY <1>1, <1>2, <1>3, TypeCorrect, PTL DEF Spec

(* The bookkeeping of the happy scenario, with the room for two cycles in  *)
(* flight the source gives it, is blamed for nothing that did not happen;  *)
(* and a deposit that is lost between the readings does not exist.         *)
THEOREM AccountsAlwaysReconcile ==
  ASSUME InFlight >= 2, Budgeted <= Plausible
  PROVE  Spec => []AccountsReconcile
<1>1. Init => StepInv /\ PaidInv /\ PassInv /\ CalmInv /\ StrainInv /\ BaseInv /\ EndInv /\ AccountsReconcile
  <2> SUFFICES ASSUME Init PROVE AccountsReconcile
    BY BooksInit
  <2> QED  BY DEF Init, AccountsReconcile
<1>2. TypeOK /\ StepInv /\ PaidInv /\ PassInv /\ CalmInv /\ StrainInv /\ BaseInv /\ EndInv
      /\ AccountsReconcile /\ [Next]_vars
      => (StepInv /\ PaidInv /\ PassInv /\ CalmInv /\ StrainInv /\ BaseInv /\ EndInv /\ AccountsReconcile)'
  <2> SUFFICES ASSUME TypeOK, StepInv, PaidInv, PassInv, CalmInv, StrainInv, BaseInv, EndInv,
                      AccountsReconcile, [Next]_vars
               PROVE  AccountsReconcile'
    BY StepStep, PaidStep, PassStep, CalmStep, StrainStep, BaseStep, EndStep
  <2>1. CASE Judge
    BY <2>1, HappyVerdict
  <2>2. CASE UNCHANGED vars
    BY <2>2, CountsThen DEF AccountsReconcile, vars, testVars, entryVars, exitVars, Cycles
  <2>3. CASE verdict' \in {"none", "error", "underfunded"}
    BY <2>3 DEF AccountsReconcile
  <2> QED  BY <2>1, <2>2, <2>3, VerdictStep
<1> QED  BY <1>1, <1>2, TypeCorrect, PTL DEF Spec

(* The exhaustion scenario's pass is one of a budget that was spent to the *)
(* last cycle and then refused, with nothing broken, and of an Exit that   *)
(* closed over it and was paid for deposits only.                          *)
THEOREM BudgetAlwaysBinds == Spec => []BudgetBinds
<1>1. Init => StepInv /\ PaidInv /\ PassInv /\ CalmInv /\ StrainInv /\ BaseInv /\ EndInv /\ BudgetBinds
  <2> SUFFICES ASSUME Init PROVE BudgetBinds
    BY BooksInit
  <2> QED  BY DEF Init, BudgetBinds
<1>2. TypeOK /\ StepInv /\ PaidInv /\ PassInv /\ CalmInv /\ StrainInv /\ BaseInv /\ EndInv
      /\ BudgetBinds /\ [Next]_vars
      => (StepInv /\ PaidInv /\ PassInv /\ CalmInv /\ StrainInv /\ BaseInv /\ EndInv /\ BudgetBinds)'
  <2> SUFFICES ASSUME TypeOK, StepInv, PaidInv, PassInv, CalmInv, StrainInv, BaseInv, EndInv,
                      BudgetBinds, [Next]_vars
               PROVE  BudgetBinds'
    BY StepStep, PaidStep, PassStep, CalmStep, StrainStep, BaseStep, EndStep
  <2>1. CASE Judge
    BY <2>1, ExhaustionVerdict
  <2>2. CASE UNCHANGED vars
    <3>1. Count(swept, {"paid"})' = Count(swept, {"paid"})
      BY <2>2 DEF Count, With, Cycles, vars, exitVars
    <3> QED  BY <2>2, <3>1, CountsThen, Zenon DEF BudgetBinds, vars, testVars, entryVars, exitVars
  <2>3. CASE verdict' \in {"none", "error", "underfunded"}
    BY <2>3 DEF BudgetBinds
  <2> QED  BY <2>1, <2>2, <2>3, VerdictStep
<1> QED  BY <1>1, <1>2, TypeCorrect, PTL DEF Spec
=============================================================================
