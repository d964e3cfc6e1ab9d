--------------------------- MODULE SurvivalProofs ---------------------------
(***************************************************************************)
(* The relayer-loss scenario for every value of its constants that the     *)
(* static assertions of return_path.rs admit: the survival pump is never   *)
(* what cuts a recovery short, and its verdict is a pass only for a stream *)
(* that came back in time and never stood still for longer.                *)
(***************************************************************************)
EXTENDS Survival, FiniteSetTheorems, WellFoundedInduction, TLAPS

(* A second of the log. *)
Record == [own : Nat, other : Nat, back : Nat]

(* What each answer of stop_reason says of the numbers it was given. *)
LEMMA StopReasonSays ==
  ASSUME NEW received \in Nat, NEW sinceLast \in Nat, NEW sinceStart \in Nat,
         NEW idle \in Nat, NEW firstByte \in Nat, NEW deadline \in Nat, NEW tail,
         NEW v, v = StopReason(received, sinceLast, sinceStart, deadline, idle, firstByte, tail)
  PROVE  /\ v = "Idle" => received # 0 /\ sinceLast >= idle
         /\ v = "NeverStarted" =>
              received = 0 /\ (TailExpired(tail) \/ sinceStart >= Larger(idle, firstByte))
         /\ v = "TailGraceExpired" => TailExpired(tail)
<1>1. CASE sinceStart >= deadline
  BY <1>1 DEF StopReason
<1>2. CASE sinceStart < deadline /\ TailExpired(tail)
  BY <1>2 DEF StopReason
<1>3. CASE sinceStart < deadline /\ ~TailExpired(tail)
  BY <1>3 DEF StopReason, Waiting
<1> QED
  BY <1>1, <1>2, <1>3

(* The log knows the survival pump second by second, and lastMineAt is     *)
(* behind the last unit of the phase in it; between pumps the counters are *)
(* at rest, and before the survival pump there is neither log nor Transfer.*)
LogInv ==
  /\ stage \in Drains \cup {"settle"} => mine = 0 /\ lastMineAt = 0
  /\ stage \notin Ends \cup {"survival"} => log = <<>> /\ after = NoTransfer
  /\ stage = "survival" =>
       /\ after = NoTransfer
       /\ clock \in Nat /\ mine \in Nat /\ lastMineAt \in 0 .. clock
       /\ log \in Seq(Record) /\ Len(log) = clock
       /\ \A i \in 1 .. clock : log[i].own > 0 => i <= lastMineAt /\ mine > 0
  /\ GivesRoomToRecover

(* The scenario starts with nothing measured. *)
LEMMA LogInit == Init => LogInv
  BY DEF Init, LogInv, Drains, Ends, GivesRoomToRecover

(* What is logged of a second is a record of it. *)
LEMMA LoggedType ==
  ASSUME log \in Seq(Record), NEW own \in Nat, NEW other \in Nat
  PROVE  Logged(own, other) \in Record /\ Logged(own, other).own = own /\ Logged(own, other).other = other
         /\ Logged(own, other).back = Back(Len(log)) + own
<1>1. Back(Len(log)) \in Nat
  <2>1. CASE log = <<>>
    BY <2>1 DEF Back
  <2>2. CASE log # <<>>
    <3>1. log[Len(log)] \in Record
      BY <2>2
    <3> QED
      BY <3>1 DEF Back, Record
  <2> QED
    BY <2>1, <2>2
<1> QED
  BY <1>1 DEF Logged, Record

(* A second of the survival pump that does not end it. *)
LEMMA SecondGoesOn ==
  ASSUME LogInv, stage = "survival", NEW own \in Nat, NEW other \in Nat,
         Second(own, other), stage' = "survival"
  PROVE  LogInv'
<1>1. /\ clock' = clock + 1 /\ mine' = mine + own
      /\ lastMineAt' = (IF own > 0 THEN clock + 1 ELSE lastMineAt)
      /\ log' = Append(log, Logged(own, other))
      /\ UNCHANGED after
  BY DEF Second, PumpReturns, StageAfter
<1>2. log' \in Seq(Record) /\ Len(log') = clock'
  BY <1>1, LoggedType DEF LogInv
<1>3. ASSUME NEW i \in 1 .. clock', log'[i].own > 0
      PROVE  i <= lastMineAt' /\ mine' > 0
  <2>1. CASE i = clock + 1
    <3>1. log'[i].own = own
      BY <1>1, <2>1, LoggedType DEF LogInv
    <3> QED
      BY <1>1, <1>3, <2>1, <3>1 DEF LogInv
  <2>2. CASE i \in 1 .. clock
    <3>1. log'[i] = log[i]
      BY <1>1, <2>2 DEF LogInv
    <3>2. i <= lastMineAt /\ mine > 0
      BY <1>3, <2>2, <3>1 DEF LogInv
    <3> QED
      BY <1>1, <2>2, <3>2 DEF LogInv
  <2> QED
    BY <1>1, <2>1, <2>2 DEF LogInv
<1>4. clock' \in Nat /\ mine' \in Nat /\ lastMineAt' \in 0 .. clock' /\ after' = NoTransfer
  BY <1>1 DEF LogInv
<1> QED
  BY <1>2, <1>3, <1>4 DEF LogInv, Drains, Ends, GivesRoomToRecover

(* The second that does: the verdict was given on numbers the log has.     *)
LEMMA SecondEnds ==
  ASSUME LogInv, stage = "survival", NEW own \in Nat, NEW other \in Nat,
         Second(own, other), stage' # "survival"
  PROVE  GivesRoomToRecover'
<1> DEFINE now   == clock + 1
           since == IF own > 0 THEN 0 ELSE now - lastMineAt
           rule  == StopReason(mine + own, since, now, Timeout, IdleBudget, FirstByte,
                               TailOf("survival", now))
<1>1. /\ after'.outcome = (IF mine + own >= Load THEN "Complete" ELSE rule)
      /\ after'.wall = now /\ after'.offerEnd = OfferEnd("survival", now)
      /\ log' = Append(log, Logged(own, other))
  BY DEF Second, PumpReturns, IdleOf, LoadOf
<1>2. /\ clock \in Nat /\ mine \in Nat /\ lastMineAt \in 0 .. clock
      /\ log \in Seq(Record) /\ Len(log) = clock
      /\ \A i \in 1 .. clock : log[i].own > 0 => i <= lastMineAt /\ mine > 0
  BY DEF LogInv
<1>3. /\ DOMAIN log' = 1 .. now
      /\ log'[now].own = own
      /\ \A i \in 1 .. clock : log'[i] = log[i]
  BY <1>1, <1>2, LoggedType
<1>4. since \in Nat /\ now \in Nat /\ mine + own \in Nat
  BY <1>2
<1>5. /\ rule = "Idle" => mine + own # 0 /\ since >= IdleBudget
      /\ rule = "NeverStarted" =>
           /\ mine + own = 0
           /\ TailExpired(TailOf("survival", now)) \/ now >= Larger(IdleBudget, FirstByte)
      /\ rule = "TailGraceExpired" => TailExpired(TailOf("survival", now))
  <2>1. IdleBudget \in Nat /\ FirstByte \in Nat /\ Timeout \in Nat
    BY BudgetAssumption
  <2> HIDE DEF since, now
  <2> QED
    BY <1>4, <2>1, StopReasonSays
<1>0. /\ Settle \in Nat /\ Deadline \in Nat
      /\ IdleBudget \in Nat /\ IdleBudget > Settle + Deadline
      /\ TailGrace \in Nat /\ TailGrace > Settle + Deadline
  BY BudgetAssumption
<1>9. ASSUME TailExpired(TailOf("survival", now))
      PROVE  \E at \in OfferEnd("survival", now) : now - at > Settle + Deadline
  <2>1. \E at \in OfferEnd("survival", now) : now - at >= TailGrace
    BY <1>9 DEF TailExpired, TailOf, TailWindow, GraceOf
  <2>2. OfferEnd("survival", now) \subseteq Nat
    BY BudgetAssumption DEF OfferEnd, LoadOf, Paced
  <2> QED
    BY <1>0, <1>2, <2>1, <2>2
<1>6. CASE after'.outcome = "Idle"
  <2>1. since >= IdleBudget
    BY <1>1, <1>5, <1>6
  <2>2. own = 0 /\ now - lastMineAt > Settle + Deadline /\ now > Settle + Deadline
    BY <1>0, <1>2, <2>1
  <2>3. ASSUME NEW i \in DOMAIN log', log'[i].own > 0 PROVE now - i > Settle + Deadline
    <3>1. i \in 1 .. clock
      BY <1>2, <1>3, <2>2, <2>3
    <3>2. i <= lastMineAt
      BY <1>2, <1>3, <2>3, <3>1
    <3> QED
      BY <1>0, <1>2, <2>2, <3>1, <3>2
  <2> QED
    BY <1>1, <2>2, <2>3 DEF GivesRoomToRecover
<1>7. CASE after'.outcome = "NeverStarted"
  <2>1. mine + own = 0
    BY <1>1, <1>5, <1>7
  <2>2. mine = 0 /\ own = 0
    BY <1>2, <2>1
  <2>3. \A i \in DOMAIN log' : ~(log'[i].own > 0)
    BY <1>2, <1>3, <2>2
  <2>4. CASE TailExpired(TailOf("survival", now))
    BY <1>1, <1>9, <2>4 DEF GivesRoomToRecover
  <2>5. CASE now >= Larger(IdleBudget, FirstByte)
    <3>1. FirstByte \in Nat /\ now \in Nat
      BY <1>4, BudgetAssumption
    <3>2. now >= IdleBudget
      BY <1>0, <2>5, <3>1 DEF Larger
    <3>3. now > Settle + Deadline
      BY <1>0, <3>1, <3>2
    <3> QED
      BY <1>1, <2>3, <3>3 DEF GivesRoomToRecover
  <2> QED
    BY <1>1, <1>5, <1>7, <2>4, <2>5
<1>8. CASE after'.outcome = "TailGraceExpired"
  <2>1. TailExpired(TailOf("survival", now))
    BY <1>1, <1>5, <1>8
  <2> QED
    BY <1>1, <1>9, <2>1 DEF GivesRoomToRecover
<1> QED
  BY <1>6, <1>7, <1>8 DEF GivesRoomToRecover

(* A pump that returns leaves its counters at rest, and is followed by     *)
(* another stage than its own.                                             *)
LEMMA Returns ==
  ASSUME NEW t, PumpReturns(t), stage \in Pumps
  PROVE  /\ stage' \in Drains \cup {"settle"} \cup Ends
         /\ stage = "survival" => stage' \in Ends
         /\ mine' = 0 /\ lastMineAt' = 0
         /\ stage # "survival" => after' = after
         /\ stage = "survival" => after' = t
  BY DEF PumpReturns, FreshPump, StageAfter, Pumps, Drains, Ends

(* Any second of a pump. *)
LEMMA SecondStep ==
  ASSUME LogInv, NEW own \in Nat, NEW other \in Nat, Second(own, other)
  PROVE  LogInv'
<1>1. stage \in Pumps
  BY DEF Second
<1>2. CASE stage = "survival" /\ stage' = "survival"
  BY <1>2, SecondGoesOn
<1>3. CASE stage = "survival" /\ stage' # "survival"
  <2>1. stage' \in Ends
    BY <1>1, <1>3, Returns DEF Second
  <2> QED
    BY <1>3, <2>1, SecondEnds DEF LogInv, Drains, Ends
<1>4. CASE stage # "survival"
  <2>1. UNCHANGED log
    BY <1>4 DEF Second
  <2>2. \/ UNCHANGED <<stage, after>>
        \/ stage' \in Drains \cup {"settle"} \cup Ends /\ mine' = 0 /\ lastMineAt' = 0 /\ UNCHANGED after
    BY <1>1, <1>4, Returns DEF Second
  <2> QED
    BY <1>1, <1>4, <2>1, <2>2 DEF LogInv, Pumps, Drains, Ends, GivesRoomToRecover
<1> QED
  BY <1>2, <1>3, <1>4

(* Between the pumps nothing is measured, and the survival pump starts     *)
(* fresh.                                                                  *)
LEMMA BetweenStep ==
  ASSUME LogInv, stage \in Drains \cup {"settle"}, UNCHANGED <<mine, lastMineAt, after, log>>,
         \/ UNCHANGED stage
         \/ clock' = 0 /\ stage' \in {"baseline", "outage", "settle", "survival", "failed"} \cup Drains
  PROVE  LogInv'
<1>1. mine = 0 /\ lastMineAt = 0 /\ log = <<>> /\ after = NoTransfer
  BY DEF LogInv, Drains, Ends
<1>2. mine' = 0 /\ lastMineAt' = 0 /\ log' = <<>> /\ after' = NoTransfer
  BY <1>1
<1>3. CASE stage' = "survival"
  <2>1. clock' = 0
    BY <1>3 DEF Drains
  <2>2. log' \in Seq(Record) /\ Len(log') = 0
    BY <1>2
  <2> QED
    BY <1>2, <1>3, <2>1, <2>2 DEF LogInv, Drains, Ends, GivesRoomToRecover
<1>4. CASE stage' # "survival"
  BY <1>2, <1>4 DEF LogInv, GivesRoomToRecover
<1> QED
  BY <1>3, <1>4

(* A drain that returns is followed by a fresh second of another stage.    *)
LEMMA DrainStage ==
  ASSUME NEW n \in Nat, DrainReturns(n), stage \in Drains
  PROVE  clock' = 0 /\ stage' \in {"baseline", "outage", "settle", "survival", "failed"}
<1>1. stage' = StageAfterDrain(n) /\ clock' = 0
  BY DEF DrainReturns
<1>2. CASE stage = "outageDrain"
  BY <1>1, <1>2 DEF StageAfterDrain
<1>3. CASE stage # "outageDrain" /\ n > MaxLeftover
  BY <1>1, <1>3 DEF StageAfterDrain
<1>4. CASE stage # "outageDrain" /\ ~(n > MaxLeftover)
  <2>1. n <= MaxLeftover
    BY <1>4, BudgetAssumption
  <2> QED
    BY <1>1, <1>4, <2>1 DEF StageAfterDrain, Drains
<1> QED
  BY <1>1, <1>2, <1>3, <1>4

(* What a drain has thrown away is a number. *)
Counted == discarded \in Nat

(* A drain counts from nothing. *)
LEMMA DiscardedStep == Counted /\ [Next]_vars => Counted'
<1> SUFFICES ASSUME discarded \in Nat, [Next]_vars PROVE discarded' \in Nat
  BY DEF Counted
<1>1. CASE \E own, other \in 0 .. MaxRead : own + other <= MaxRead /\ Second(own, other)
  BY <1>1 DEF Second
<1>2. CASE \E read \in 0 .. MaxRead : DrainSecond(read)
  BY <1>2 DEF DrainSecond, DrainReturns
<1>3. CASE Closes \/ ReadFails \/ DrainBreaks \/ SettleEnds \/ FaultFails
  BY <1>3 DEF Closes, ReadFails, DrainBreaks, DrainReturns, SettleEnds, FaultFails
<1>4. CASE UNCHANGED vars
  BY <1>4 DEF vars
<1> QED
  BY <1>1, <1>2, <1>3, <1>4 DEF Next, Over

(* Every step keeps it. *)
LEMMA LogStep == LogInv /\ Counted /\ [Next]_vars => LogInv'
<1> SUFFICES ASSUME LogInv, discarded \in Nat, [Next]_vars PROVE LogInv'
  BY DEF Counted
<1>1. CASE \E own, other \in 0 .. MaxRead : own + other <= MaxRead /\ Second(own, other)
  <2> PICK own \in 0 .. MaxRead, other \in 0 .. MaxRead : Second(own, other)
    BY <1>1
  <2>1. own \in Nat /\ other \in Nat
    OBVIOUS
  <2> QED
    BY <2>1, SecondStep
<1>2. CASE \E read \in 0 .. MaxRead : DrainSecond(read)
  <2> PICK read \in 0 .. MaxRead : DrainSecond(read)
    BY <1>2
  <2>1. stage \in Drains /\ UNCHANGED <<mine, lastMineAt, after, log>>
    BY DEF DrainSecond, pumpVars
  <2>2. (UNCHANGED stage \/ DrainReturns(discarded + read)) /\ discarded + read \in Nat
    BY DEF DrainSecond
  <2> QED
    BY <2>1, <2>2, DrainStage, BetweenStep
<1>3. CASE DrainBreaks
  <2>1. stage \in Drains /\ DrainReturns(discarded) /\ UNCHANGED <<mine, lastMineAt, after, log>>
    BY <1>3 DEF DrainBreaks, pumpVars
  <2> QED
    BY <2>1, DrainStage, BetweenStep
<1>4. CASE SettleEnds \/ FaultFails
  <2>1. CASE stage = "outage"
    <3>1. stage' = "failed" /\ UNCHANGED <<after, log>>
      BY <1>4, <2>1 DEF SettleEnds, FaultFails
    <3> QED
      BY <2>1, <3>1 DEF LogInv, Drains, Ends, GivesRoomToRecover
  <2>2. CASE stage # "outage"
    BY <1>4, <2>2, BetweenStep DEF SettleEnds, FaultFails, pumpVars, Drains
  <2> QED
    BY <2>1, <2>2
<1>5. CASE Closes
  <2>1. CASE stage = "survival"
    <3>1. after'.outcome = "SessionClosed" /\ stage' \in Ends
      BY <1>5, <2>1, Returns DEF Closes
    <3> QED
      BY <3>1 DEF LogInv, Ends, Drains, GivesRoomToRecover
  <2>2. CASE stage # "survival"
    BY <1>5, <2>2, Returns DEF Closes, LogInv, Pumps, Drains, Ends, GivesRoomToRecover
  <2> QED
    BY <2>1, <2>2
<1>6. CASE ReadFails
  BY <1>6 DEF ReadFails, FreshPump, LogInv, Pumps, Drains, Ends, GivesRoomToRecover
<1>7. CASE UNCHANGED vars
  BY <1>7 DEF vars, pumpVars, LogInv, GivesRoomToRecover
<1> QED
  BY <1>1, <1>2, <1>3, <1>4, <1>5, <1>6, <1>7 DEF Next, Over

(* The survival pump gives up only after a silence, or a tail, longer than *)
(* the kill may take to settle and the session to recover: that is what    *)
(* the static assertions on SURVIVAL_IDLE_BUDGET and SURVIVAL_TAIL_GRACE     *)
(* are for.                                                                *)
THEOREM RoomToRecover == Spec => []GivesRoomToRecover
<1>1. LogInv => GivesRoomToRecover
  BY DEF LogInv
<1>2. Init => Counted
  BY DEF Init, Counted
<1> QED
  BY <1>1, <1>2, LogInit, LogStep, DiscardedStep, PTL DEF Spec

-----------------------------------------------------------------------------
(* What a scenario reads in a Transfer *)

(* A set of natural numbers has a least one. *)
LEMMA NatLeast ==
  ASSUME NEW S, S \subseteq Nat, S # {}
  PROVE  \E m \in S : \A k \in S : m <= k
<1> DEFINE Below == {0 .. n : n \in S}
<1>1. Below \subseteq FiniteSubsetsOf(Nat)
  <2>1. ASSUME NEW n \in S PROVE 0 .. n \in SUBSET Nat /\ IsFiniteSet(0 .. n)
    <3>1. n \in Int /\ 0 \in Int
      OBVIOUS
    <3> QED
      BY <3>1, FS_Interval
  <2> QED
    BY <2>1 DEF FiniteSubsetsOf
<1>2. IsWellFoundedOn(StrictSubsetOrdering(Nat), FiniteSubsetsOf(Nat))
  BY FS_StrictSubsetOrderingWellFounded
<1>3. \E x \in Below : \A y \in Below : <<y, x>> \notin StrictSubsetOrdering(Nat)
  <2>1. Below # {}
    OBVIOUS
  <2> HIDE DEF Below
  <2> QED
    BY <1>1, <1>2, <2>1, WFMin
<1>4. PICK m \in S : \A k \in S : <<0 .. k, 0 .. m>> \notin StrictSubsetOrdering(Nat)
  BY <1>3
<1>5. ASSUME NEW k \in S, ~(m <= k) PROVE FALSE
  <2>1. k \in Nat /\ m \in Nat /\ k < m
    BY <1>5
  <2>2. 0 .. k \in SUBSET Nat /\ 0 .. m \in SUBSET Nat /\ 0 .. k \subseteq 0 .. m /\ 0 .. k # 0 .. m
    BY <2>1
  <2> QED
    BY <1>4, <2>2 DEF StrictSubsetOrdering
<1> QED
  BY <1>5

(* ... which is what Min picks. *)
LEMMA MinIs ==
  ASSUME NEW S, S \subseteq Nat, S # {}
  PROVE  Min(S) \in S /\ \A x \in S : Min(S) <= x
<1>1. \E m \in S : \A k \in S : m <= k
  BY NatLeast
<1> QED
  BY <1>1 DEF Min

(* Bounded integers have a greatest one, which is what Max picks. *)
LEMMA MaxIs ==
  ASSUME NEW S, S \subseteq Int, S # {}, NEW b \in Int, \A x \in S : x <= b
  PROVE  Max(S) \in S /\ \A x \in S : x <= Max(S)
<1> DEFINE D == {b - x : x \in S}
<1>1. D \subseteq Nat /\ D # {}
  <2>1. ASSUME NEW x \in S PROVE b - x \in Nat
    <3>1. x \in Int /\ x <= b
      OBVIOUS
    <3> QED
      BY <3>1
  <2> QED
    BY <2>1
<1>2. PICK d \in D : \A k \in D : d <= k
  <2> HIDE DEF D
  <2> QED
    BY <1>1, NatLeast
<1>3. PICK m \in S : d = b - m
  BY <1>2
<1>4. ASSUME NEW x \in S PROVE m >= x
  <2>1. b - m <= b - x
    BY <1>2, <1>3
  <2> QED
    BY <2>1
<1>5. \E m1 \in S : \A x \in S : m1 >= x
  BY <1>4
<1>6. Max(S) \in S /\ \A x \in S : Max(S) >= x
  BY <1>5 DEF Max
<1> QED
  BY <1>6

Read == [at : Nat, units : Nat]

(* Reads, one a second at most, in the first n seconds. *)
Ordered(p, n) ==
  /\ p \in Seq(Read) /\ n \in Nat
  /\ \A i \in 1 .. Len(p) : p[i].at \in 1 .. n
  /\ \A i, j \in 1 .. Len(p) : i < j => p[i].at < p[j].at

(* A read in a further second keeps them so. *)
LEMMA OrderedGrows ==
  ASSUME NEW p, NEW n, Ordered(p, n), NEW u \in Nat
  PROVE  Ordered(Append(p, [at |-> n + 1, units |-> u]), n + 1) /\ Ordered(p, n + 1)
<1> DEFINE r == [at |-> n + 1, units |-> u]
           q == Append(p, r)
<1>1. p \in Seq(Read) /\ n \in Nat /\ r \in Read
  BY DEF Ordered, Read
<1>2. /\ q \in Seq(Read) /\ Len(q) = Len(p) + 1 /\ q[Len(p) + 1] = r
      /\ \A i \in 1 .. Len(p) : q[i] = p[i]
  <2> HIDE DEF r
  <2> QED
    BY <1>1
<1>3. ASSUME NEW i \in 1 .. Len(q) PROVE q[i].at \in 1 .. n + 1
  BY <1>1, <1>2 DEF Ordered
<1>4. ASSUME NEW i \in 1 .. Len(q), NEW j \in 1 .. Len(q), i < j PROVE q[i].at < q[j].at
  <2>1. i \in 1 .. Len(p)
    BY <1>1, <1>2, <1>4
  <2>2. CASE j = Len(p) + 1
    <3>1. q[i].at = p[i].at /\ p[i].at \in 1 .. n /\ q[j].at = n + 1
      BY <1>2, <2>1, <2>2 DEF Ordered
    <3> QED
      BY <1>1, <3>1
  <2>3. CASE j \in 1 .. Len(p)
    BY <1>2, <1>4, <2>1, <2>3 DEF Ordered
  <2> QED
    BY <1>2, <2>2, <2>3
<1>5. Ordered(p, n + 1)
  BY <1>1 DEF Ordered
<1> HIDE DEF q
<1>6. Ordered(q, n + 1)
  BY <1>1, <1>2, <1>3, <1>4 DEF Ordered
<1> QED
  BY <1>5, <1>6 DEF q

(* The rate num/den had held for a window at a read at s: counted from an  *)
(* earlier read inside it.                                                 *)
Sustained(p, num, den, window, s) ==
  \E m, e \in 1 .. Len(p) :
    /\ s = p[m].at /\ s >= window
    /\ p[e].at >= s - window
    /\ (p[m].units - p[e].units) * den >= num * window

(* What time_to_sustain answers is a read at which the rate had held, its  *)
(* window counted from an earlier read inside it.                          *)
LEMMA SustainIs ==
  ASSUME NEW t, NEW n, Ordered(t.progress, n), NEW num \in Int, NEW den \in Int,
         NEW window \in Nat, NEW s \in TimeToSustain(t, num, den, window)
  PROVE  Sustained(t.progress, num, den, window, s)
<1> DEFINE p == t.progress
           held == {i \in DOMAIN t.progress :
                      /\ t.wall >= window /\ t.progress[i].at >= window
                      /\ \E j \in 1 .. i - 1 : t.progress[j].at >= t.progress[i].at - window
                      /\ ArrivedWithin(t, window, i) * den >= num * window}
<1>1. DOMAIN p = 1 .. Len(p) /\ Len(p) \in Nat
  BY DEF Ordered
<1>2. held # {} /\ s = p[Min(held)].at
  BY DEF TimeToSustain
<1>3. Min(held) \in held
  <2>1. held \subseteq Nat
    BY <1>1
  <2> HIDE DEF held
  <2> QED
    BY <1>2, <2>1, MinIs
<1> DEFINE m == Min(held)
           inside == {j \in DOMAIN p : p[j].at >= p[m].at - window}
<1>4. /\ m \in 1 .. Len(p) /\ s = p[m].at /\ s >= window
      /\ \E j \in 1 .. m - 1 : p[j].at >= p[m].at - window
      /\ ArrivedWithin(t, window, m) * den >= num * window
  <2> HIDE DEF p
  <2>1. m \in held
    BY <1>3
  <2> QED
    BY <1>1, <1>2, <2>1 DEF p
<1> HIDE DEF m, held
<1>5. inside # {} /\ inside \subseteq Nat
  BY <1>1, <1>4
<1>6. Min(inside) \in inside
  <2> HIDE DEF inside
  <2> QED
    BY <1>5, MinIs
<1>7. ArrivedWithin(t, window, m) = p[m].units - p[Min(inside)].units
  BY DEF ArrivedWithin
<1> DEFINE e == Min(inside)
<1>8. e \in 1 .. Len(p) /\ p[e].at >= s - window
  BY <1>1, <1>4, <1>6
<1> HIDE DEF e, inside
<1>9. (p[m].units - p[e].units) * den >= num * window
  BY <1>4, <1>7 DEF e
<1> QED
  BY <1>4, <1>8, <1>9 DEF Sustained

(* No wait between two reads, and none for the first, is longer than the   *)
(* longest stall.                                                          *)
LEMMA StallBounds ==
  ASSUME NEW t, NEW n, Ordered(t.progress, n), t.wall \in Nat, t.offerEnd \subseteq Nat
  PROVE  /\ LongestStall(t) \in Int
         /\ \A i \in 1 .. Len(t.progress) :
              t.progress[i].at - (IF i = 1 THEN 0 ELSE t.progress[i - 1].at) <= LongestStall(t)
<1> DEFINE p == t.progress
           S == Waits(t) \cup {0, TrailingSilence(t)}
<1>1. /\ DOMAIN p = 1 .. Len(p) /\ Len(p) \in Nat /\ n \in Nat
      /\ \A i \in 1 .. Len(p) : p[i].at \in 1 .. n
  BY DEF Ordered
<1>2. ASSUME NEW i \in 1 .. Len(p)
      PROVE  /\ p[i].at - (IF i = 1 THEN 0 ELSE p[i - 1].at) \in Int
             /\ p[i].at - (IF i = 1 THEN 0 ELSE p[i - 1].at) <= n
  <2>1. CASE i = 1
    BY <1>1, <2>1
  <2>2. CASE i # 1
    <3>1. i - 1 \in 1 .. Len(p)
      BY <1>1, <2>2
    <3>2. p[i].at \in 1 .. n /\ p[i - 1].at \in 1 .. n
      BY <1>1, <3>1
    <3> QED
      BY <1>1, <2>2, <3>2
  <2> QED
    BY <2>1, <2>2
<1>3. LastRead(t) \in Nat
  <2>1. CASE p = <<>>
    BY <2>1 DEF LastRead
  <2>2. CASE p # <<>>
    <3>1. p \in Seq(Read)
      BY DEF Ordered
    <3>2. Len(p) \in 1 .. Len(p)
      BY <1>1, <2>2, <3>1
    <3> QED
      BY <1>1, <2>2, <3>2 DEF LastRead
  <2> QED
    BY <2>1, <2>2
<1>4. TrailingSilence(t) \in Int
  <2>1. Min(t.offerEnd \cup {t.wall}) \in Nat
    <3>1. t.offerEnd \cup {t.wall} \subseteq Nat /\ t.offerEnd \cup {t.wall} # {}
      OBVIOUS
    <3> QED
      BY <3>1, MinIs
  <2>2. CASE t.outcome = "Idle"
    BY <2>2 DEF TrailingSilence
  <2>3. CASE t.outcome = "TailGraceExpired"
    BY <1>3, <2>1, <2>3 DEF TrailingSilence
  <2>4. CASE t.outcome \notin {"Idle", "TailGraceExpired"}
    BY <1>3, <2>4 DEF TrailingSilence
  <2> QED
    BY <2>2, <2>3, <2>4
<1>5. \E b \in Int : b >= n /\ b >= 0 /\ b >= TrailingSilence(t)
  <2>1. CASE TrailingSilence(t) <= n
    BY <1>1, <2>1
  <2>2. CASE ~(TrailingSilence(t) <= n)
    BY <1>1, <1>4, <2>2
  <2> QED
    BY <2>1, <2>2
<1>6. PICK b \in Int : b >= n /\ b >= 0 /\ b >= TrailingSilence(t)
  BY <1>5
<1>7. Waits(t) \subseteq Int /\ \A x \in Waits(t) : x <= b
  <2> SUFFICES ASSUME NEW x \in Waits(t) PROVE x \in Int /\ x <= b
    OBVIOUS
  <2>1. PICK i \in 1 .. Len(p) : x = p[i].at - (IF i = 1 THEN 0 ELSE p[i - 1].at)
    BY <1>1 DEF Waits
  <2>2. x \in Int /\ x <= n
    BY <1>2, <2>1
  <2> QED
    BY <1>1, <1>6, <2>2
<1>8. S \subseteq Int /\ S # {} /\ \A x \in S : x <= b
  BY <1>4, <1>6, <1>7
<1>9. Max(S) \in S /\ \A x \in S : x <= Max(S)
  <2> HIDE DEF S
  <2> QED
    BY <1>8, MaxIs
<1>10. LongestStall(t) \in Int /\ \A x \in Waits(t) : x <= LongestStall(t)
  BY <1>8, <1>9 DEF LongestStall
<1> QED
  BY <1>1, <1>10 DEF Waits

-----------------------------------------------------------------------------
(* The reads of the survival pump and its log *)

BackOf(l, i) == IF i = 0 THEN 0 ELSE l[i].back

(* The reads are those of the log: one in each second something came, with *)
(* the phase's own units so far, which never fall.                         *)
Tracks(p, l) ==
  /\ l \in Seq(Record) /\ Ordered(p, Len(l))
  /\ \A i \in 1 .. Len(l) : l[i].own + l[i].other > 0 => \E k \in 1 .. Len(p) : p[k].at = i
  /\ \A k \in 1 .. Len(p) : /\ p[k].units = BackOf(l, p[k].at)
                            /\ l[p[k].at].own + l[p[k].at].other > 0
  /\ \A i, j \in 0 .. Len(l) : i <= j => BackOf(l, i) <= BackOf(l, j)

(* What is back by a second of the log is a number. *)
LEMMA BackType ==
  ASSUME NEW l \in Seq(Record), NEW i \in 0 .. Len(l)
  PROVE  BackOf(l, i) \in Nat
<1>1. i # 0 => l[i] \in Record
  OBVIOUS
<1> QED
  BY <1>1 DEF BackOf, Record

(* Another second, and the read of it if there is one. *)
LEMMA TracksGrow ==
  ASSUME NEW p, NEW l, Tracks(p, l), NEW own \in Nat, NEW other \in Nat,
         NEW r \in Record, r.own = own, r.other = other, r.back = BackOf(l, Len(l)) + own
  PROVE  Tracks(IF own + other > 0
                THEN Append(p, [at |-> Len(l) + 1, units |-> BackOf(l, Len(l)) + own])
                ELSE p, Append(l, r))
<1> DEFINE n == Len(l)
           m == Append(l, r)
           x == [at |-> n + 1, units |-> BackOf(l, n) + own]
           q == IF own + other > 0 THEN Append(p, x) ELSE p
<1>1. n \in Nat /\ l \in Seq(Record) /\ p \in Seq(Read) /\ Ordered(p, n) /\ BackOf(l, n) \in Nat
  BY BackType DEF Tracks, Ordered
<1>2. /\ m \in Seq(Record) /\ Len(m) = n + 1 /\ m[n + 1] = r
      /\ \A i \in 1 .. n : m[i] = l[i]
  BY <1>1
<1>3. BackOf(l, n) + own \in Nat
  BY <1>1
<1>4. Ordered(q, n + 1)
  BY <1>1, <1>3, OrderedGrows
<1>5. x.at = n + 1 /\ x.units = BackOf(l, n) + own /\ x \in Read
  BY <1>1 DEF Read
<1> HIDE DEF m, x
<1>6. /\ own + other > 0 => Len(q) = Len(p) + 1 /\ q[Len(p) + 1] = x
      /\ ~(own + other > 0) => Len(q) = Len(p)
      /\ \A k \in 1 .. Len(p) : q[k] = p[k]
      /\ Len(p) \in Nat
  BY <1>1, <1>5
<1> HIDE DEF q, n
<1>7. /\ BackOf(m, n + 1) = BackOf(l, n) + own
      /\ \A i \in 0 .. n : BackOf(m, i) = BackOf(l, i)
  <2>1. n + 1 # 0
    BY <1>1
  <2>2. BackOf(m, n + 1) = BackOf(l, n) + own
    BY <1>2, <2>1 DEF BackOf, n
  <2>3. ASSUME NEW i \in 0 .. n PROVE BackOf(m, i) = BackOf(l, i)
    <3>1. i = 0 \/ i \in 1 .. n
      BY <1>1
    <3> QED
      BY <1>2, <3>1 DEF BackOf
  <2> QED
    BY <2>2, <2>3
<1>8. ASSUME NEW i \in 1 .. n + 1, m[i].own + m[i].other > 0
      PROVE  \E k \in 1 .. Len(q) : q[k].at = i
  <2>1. CASE i = n + 1
    BY <1>2, <1>5, <1>6, <1>8, <2>1
  <2>2. CASE i \in 1 .. n
    <3>1. PICK k \in 1 .. Len(p) : p[k].at = i
      BY <1>2, <1>8, <2>2 DEF Tracks, n
    <3>2. k \in 1 .. Len(q) /\ q[k].at = i
      BY <1>6, <3>1
    <3> QED
      BY <3>2
  <2> QED
    BY <1>1, <2>1, <2>2
<1>9. ASSUME NEW k \in 1 .. Len(q)
      PROVE  q[k].units = BackOf(m, q[k].at) /\ m[q[k].at].own + m[q[k].at].other > 0
  <2>1. CASE k \in 1 .. Len(p)
    <3>1. /\ q[k].units = BackOf(l, p[k].at) /\ q[k].at = p[k].at
          /\ l[p[k].at].own + l[p[k].at].other > 0
      BY <1>6, <2>1 DEF Tracks
    <3>2. p[k].at \in 0 .. n /\ p[k].at \in 1 .. n
      BY <1>1, <2>1 DEF Ordered
    <3> QED
      BY <1>2, <1>7, <3>1, <3>2
  <2>2. CASE k \notin 1 .. Len(p)
    <3>1. q[k] = x /\ own + other > 0
      BY <1>6, <2>2
    <3> QED
      BY <1>2, <1>5, <1>7, <3>1
  <2> QED
    BY <2>1, <2>2
<1>10. ASSUME NEW i \in 0 .. n + 1, NEW j \in 0 .. n + 1, i <= j
       PROVE  BackOf(m, i) <= BackOf(m, j)
  <2>1. CASE j \in 0 .. n
    <3>1. i \in 0 .. n
      BY <1>1, <1>10, <2>1
    <3> QED
      BY <1>7, <1>10, <2>1, <3>1 DEF Tracks, n
  <2>2. CASE j = n + 1 /\ i \in 0 .. n
    <3>1. BackOf(l, i) <= BackOf(l, n)
      BY <1>1, <2>2 DEF Tracks, n
    <3>2. BackOf(l, i) \in Nat
      BY <1>1, <2>2, BackType DEF n
    <3> QED
      BY <1>1, <1>7, <2>2, <3>1, <3>2
  <2>3. CASE j = n + 1 /\ i = n + 1
    BY <1>1, <1>7, <2>3
  <2> QED
    BY <1>1, <1>10, <2>1, <2>2, <2>3
<1> QED
  <2>1. Tracks(q, m)
    BY <1>2, <1>4, <1>8, <1>9, <1>10 DEF Tracks
  <2> QED
    BY <2>1 DEF q, m, x, n

(* What assert_recovered makes of the longest stall: no silence longer     *)
(* than the deadline while anything of the phase was yet to come.          *)
LEMMA StallSays ==
  ASSUME NEW t, NEW l, Tracks(t.progress, l), t.wall \in Nat, t.offerEnd \subseteq Nat,
         LongestStall(t) <= Deadline,
         NEW i \in 1 .. Len(l), NEW later \in i + Deadline .. Len(l), l[later].own > 0
  PROVE  \E k \in i .. i + Deadline - 1 : l[k].own + l[k].other > 0
<1> SUFFICES ASSUME \A k \in i .. i + Deadline - 1 : ~(l[k].own + l[k].other > 0) PROVE FALSE
  OBVIOUS
<1> DEFINE p == t.progress
           past == {k \in 1 .. Len(p) : p[k].at >= i}
<1>1. /\ Deadline \in Nat /\ Len(l) \in Nat /\ i \in Nat /\ later \in 1 .. Len(l)
      /\ l \in Seq(Record) /\ Ordered(p, Len(l)) /\ Len(p) \in Nat
  <2>1. Deadline \in Nat
    BY BudgetAssumption
  <2>2. l \in Seq(Record) /\ Ordered(p, Len(l))
    BY DEF Tracks
  <2>3. Len(l) \in Nat /\ Len(p) \in Nat
    BY <2>2 DEF Ordered
  <2>4. i \in Nat /\ later \in 1 .. Len(l)
    BY <2>1, <2>3
  <2> QED
    BY <2>1, <2>2, <2>3, <2>4
<1>2. \E k \in 1 .. Len(p) : p[k].at = later
  <2>1. l[later] \in Record
    BY <1>1
  <2>2. l[later].own + l[later].other > 0
    BY <2>1 DEF Record
  <2> QED
    BY <1>1, <2>2 DEF Tracks
<1>3. past # {} /\ past \subseteq Nat
  BY <1>1, <1>2
<1>4. PICK k \in past : \A j \in past : k <= j
  <2> HIDE DEF past
  <2> QED
    BY <1>3, NatLeast
<1>5. k \in 1 .. Len(p) /\ p[k].at \in 1 .. Len(l) /\ p[k].at >= i /\ p[k] \in Read
  BY <1>1, <1>4 DEF Ordered
<1>6. p[k].at >= i + Deadline
  <2>1. l[p[k].at].own + l[p[k].at].other > 0
    BY <1>5 DEF Tracks
  <2>2. p[k].at \notin i .. i + Deadline - 1
    BY <2>1
  <2> QED
    BY <1>1, <1>5, <2>2
<1>7. CASE k = 1
  <2>1. p[k].at - 0 <= LongestStall(t) /\ LongestStall(t) \in Int
    BY <1>1, <1>5, <1>7, StallBounds
  <2> QED
    BY <1>1, <1>5, <1>6, <2>1
<1>8. CASE k # 1
  <2>1. k - 1 \in 1 .. Len(p) /\ ~(k <= k - 1)
    BY <1>1, <1>5, <1>8
  <2>2. p[k - 1].at \in 1 .. Len(l) /\ ~(p[k - 1].at >= i)
    BY <1>1, <1>4, <2>1 DEF Ordered
  <2>3. p[k].at - p[k - 1].at <= LongestStall(t) /\ LongestStall(t) \in Int
    BY <1>1, <1>5, <1>8, StallBounds
  <2>4. p[k].at - p[k - 1].at <= Deadline
    <3>1. p[k].at \in Int /\ p[k - 1].at \in Int
      BY <1>1, <1>5, <2>2
    <3>2. LongestStall(t) <= Deadline /\ Deadline \in Int /\ LongestStall(t) \in Int
      BY <1>1, <2>3
    <3> HIDE DEF p
    <3> QED
      BY <2>3, <3>1, <3>2
  <2> QED
    <3>1. p[k].at \in Int /\ p[k - 1].at \in Int /\ p[k - 1].at < i
      BY <1>1, <1>5, <2>2
    <3> QED
      BY <1>1, <1>6, <2>4, <3>1
<1> QED
  BY <1>7, <1>8

(* A rate that held, held a fortiori over a window that carried no less.   *)
LEMMA MoreHolds ==
  ASSUME NEW a \in Int, NEW b \in Int, NEW c \in Nat, NEW d \in Int, a >= b, b * (2 * c) >= d
  PROVE  a * 2 * c >= d
<1>1. 2 * c \in Nat /\ (a - b) \in Nat
  OBVIOUS
<1>2. \A x, y \in Nat : x * y >= 0
  BY Z3
<1>3. (a - b) * (2 * c) >= 0
  BY <1>1, <1>2
<1>4. (a - b) * (2 * c) = a * 2 * c - b * (2 * c)
  BY Z3
<1> QED
  BY <1>3, <1>4, Z3

(* What assert_recovered makes of time_to_sustain: a window that carried   *)
(* half the healthy rate, not too late.                                    *)
LEMMA Recovers ==
  ASSUME NEW t, NEW l, Tracks(t.progress, l), NEW back \in Nat, NEW secs \in Nat,
         NEW s \in TimeToSustain(t, back, 2 * secs, Window), NEW r \in Nat,
         Larger(s - r, 0) <= Deadline
  PROVE  \E end \in Window .. Len(l) :
           /\ end <= r + Deadline
           /\ (BackOf(l, end) - BackOf(l, end - Window)) * 2 * secs >= back * Window
<1> DEFINE p == t.progress
<1>1. Window \in Nat /\ Deadline \in Nat
  BY BudgetAssumption
<1>2. l \in Seq(Record) /\ Ordered(p, Len(l)) /\ Len(l) \in Nat
  BY DEF Tracks
<1>3. PICK m \in 1 .. Len(p), e \in 1 .. Len(p) :
        /\ s = p[m].at /\ s >= Window
        /\ p[e].at >= s - Window
        /\ (p[m].units - p[e].units) * (2 * secs) >= back * Window
  <2> DEFINE den == 2 * secs
  <2>1. den \in Int /\ back \in Int /\ s \in TimeToSustain(t, back, den, Window)
    OBVIOUS
  <2> HIDE DEF den
  <2>2. Sustained(t.progress, back, den, Window, s)
    BY <1>1, <1>2, <2>1, SustainIs
  <2> QED
    BY <2>2 DEF den, Sustained
<1>4. s \in 1 .. Len(l) /\ p[e].at \in 1 .. Len(l) /\ s - Window \in 0 .. Len(l)
  <2>1. p[m].at \in 1 .. Len(l) /\ p[e].at \in 1 .. Len(l)
    BY <1>2 DEF Ordered
  <2>2. s \in 1 .. Len(l) /\ s >= Window
    BY <1>3, <2>1
  <2>3. s - Window \in 0 .. Len(l)
    BY <1>1, <1>2, <2>2
  <2> QED
    BY <2>1, <2>2, <2>3
<1>5. p[m].units = BackOf(l, s) /\ p[e].units = BackOf(l, p[e].at)
  BY <1>3 DEF Tracks
<1>6. BackOf(l, s - Window) <= BackOf(l, p[e].at)
  <2>1. s - Window <= p[e].at
    BY <1>1, <1>3, <1>4
  <2>2. p[e].at \in 0 .. Len(l)
    BY <1>2, <1>4
  <2> QED
    BY <1>4, <2>1, <2>2 DEF Tracks
<1>7. /\ BackOf(l, s) \in Nat /\ BackOf(l, s - Window) \in Nat /\ BackOf(l, p[e].at) \in Nat
  <2>1. s \in 0 .. Len(l) /\ p[e].at \in 0 .. Len(l)
    BY <1>2, <1>4
  <2> QED
    BY <1>2, <1>4, <2>1, BackType
<1>8. (BackOf(l, s) - BackOf(l, s - Window)) * 2 * secs >= back * Window
  <2> DEFINE a == BackOf(l, s) - BackOf(l, s - Window)
             b == BackOf(l, s) - BackOf(l, p[e].at)
             d == back * Window
  <2>1. a \in Int /\ b \in Int /\ a >= b
    BY <1>6, <1>7
  <2>2. d \in Int
    BY <1>1
  <2>3. b * (2 * secs) >= d
    BY <1>3, <1>5
  <2> HIDE DEF a, b, d
  <2>4. a * 2 * secs >= d
    BY <2>1, <2>2, <2>3, MoreHolds
  <2> QED
    BY <2>4 DEF a, d
<1>9. s <= r + Deadline
  <2>1. s \in Int /\ r \in Int
    BY <1>4
  <2> QED
    BY <1>1, <2>1 DEF Larger
<1>10. s \in Window .. Len(l)
  BY <1>1, <1>2, <1>3, <1>4
<1> QED
  BY <1>8, <1>9, <1>10

-----------------------------------------------------------------------------
(* The verdict of the scenario *)

(* What the assertion reads of the baseline are numbers. *)
Measured(b) == b.back \in Nat /\ b.seconds \in Nat /\ b.ramp \subseteq Nat

(* ... whenever its reads were in order. *)
LEMMA BaselineMeasured ==
  ASSUME NEW t, NEW n, Ordered(t.progress, n), t.mine \in Nat
  PROVE  Measured(BaselineOf(t))
<1> DEFINE p == t.progress
           span == IF p = <<>> THEN 0 ELSE LastRead(t) - p[1].at
           ramp == IF span = 0 THEN {} ELSE TimeToSustain(t, t.mine, 2 * span, Window)
<1>1. BaselineOf(t) = [back |-> t.mine, seconds |-> span, ramp |-> ramp]
  BY DEF BaselineOf
<1>2. p \in Seq(Read) /\ Len(p) \in Nat
  BY DEF Ordered
<1>3. span \in Nat
  <2>1. CASE p = <<>>
    BY <2>1
  <2>2. CASE p # <<>>
    <3>1. 1 \in 1 .. Len(p) /\ Len(p) \in 1 .. Len(p)
      BY <1>2, <2>2
    <3>2. p[1].at \in 1 .. n /\ p[Len(p)].at \in 1 .. n /\ n \in Nat
      BY <3>1 DEF Ordered
    <3>3. PICK k \in Nat : k = Len(p)
      BY <1>2
    <3>4. p[1].at <= p[Len(p)].at
      <4>1. k = 1 \/ 1 < k
        <5>1. k >= 1
          BY <3>1, <3>3
        <5> QED
          BY <5>1
      <4>2. CASE 1 < k
        <5>1. p[1].at < p[Len(p)].at
          BY <3>1, <3>3, <4>2 DEF Ordered
        <5> QED
          BY <3>2, <5>1
      <4>3. CASE k = 1
        BY <3>2, <3>3, <4>3
      <4> QED
        BY <4>1, <4>2, <4>3
    <3>5. span = p[Len(p)].at - p[1].at
      BY <2>2 DEF LastRead
    <3> QED
      BY <3>2, <3>4, <3>5
  <2> QED
    BY <2>1, <2>2
<1>4. ASSUME NEW s \in TimeToSustain(t, t.mine, 2 * span, Window) PROVE s \in Nat
  <2> DEFINE den == 2 * span
  <2>1. den \in Int /\ t.mine \in Int /\ Window \in Nat
    <3> HIDE DEF span
    <3> QED
      BY <1>3, BudgetAssumption
  <2>2. s \in TimeToSustain(t, t.mine, den, Window)
    BY <1>4
  <2> HIDE DEF den, span
  <2>3. Sustained(t.progress, t.mine, den, Window, s)
    BY <2>1, <2>2, SustainIs
  <2>4. PICK m \in 1 .. Len(p) : s = p[m].at
    BY <2>3 DEF Sustained
  <2>5. p[m].at \in 1 .. n /\ n \in Nat
    BY DEF Ordered
  <2> QED
    BY <2>4, <2>5
<1>5. ramp \subseteq Nat
  BY <1>4
<1> HIDE DEF span, ramp
<1> QED
  BY <1>1, <1>3, <1>5 DEF Measured

(* The reads of the survival pump are those of its log, its own units what *)
(* is back by now; between pumps nothing has been read; and a verdict of   *)
(* "passed" says what the two properties say.                              *)
ReadsInv ==
  /\ Measured(baseline)
  /\ stage \in Drains \cup {"settle"} => mine = 0 /\ progress = <<>>
  /\ stage \notin Ends \cup {"survival"} => log = <<>>
  /\ stage = "baseline" => clock \in Nat /\ mine \in Nat /\ Ordered(progress, clock)
  /\ stage = "survival" =>
       Tracks(progress, log) /\ Len(log) = clock /\ mine = BackOf(log, Len(log))
  /\ RecoveredInTime
  /\ NeverStoodStill

(* The verdict on reads that are those of the log. *)
LEMMA VerdictHolds ==
  ASSUME NEW t, NEW shaOk, Tracks(t.progress, log'), t.wall \in Nat, t.offerEnd \subseteq Nat,
         Measured(baseline), AssertRecovered(t, shaOk), UNCHANGED baseline
  PROVE  RecoveredInTime' /\ NeverStoodStill'
<1>1. RecoveredInTime'
  <2>1. PICK x \in Recovery(t) : x <= Deadline
    BY DEF AssertRecovered
  <2>2. PICK s \in TimeToSustain(t, baseline.back, 2 * baseline.seconds, Window), r \in baseline.ramp :
          x = Larger(s - r, 0)
    BY DEF Recovery
  <2> DEFINE back == baseline.back
             secs == baseline.seconds
  <2>3. back \in Nat /\ secs \in Nat /\ r \in Nat
    BY DEF Measured
  <2>4. s \in TimeToSustain(t, back, 2 * secs, Window) /\ Larger(s - r, 0) <= Deadline
    BY <2>1, <2>2
  <2> HIDE DEF back, secs
  <2>5. \E end \in Window .. Len(log') :
           /\ end <= r + Deadline
           /\ (BackOf(log', end) - BackOf(log', end - Window)) * 2 * secs >= back * Window
    BY <2>3, <2>4, Recovers
  <2>6. \A j : Back(j)' = BackOf(log', j)
    BY DEF Back, BackOf
  <2> QED
    BY <2>5, <2>6 DEF RecoveredInTime, OwnBetween, back, secs
<1>2. NeverStoodStill'
  <2> SUFFICES ASSUME NEW i \in DOMAIN log', NEW later \in i + Deadline .. Len(log'),
                      log'[later].own > 0
               PROVE  \E k \in i .. i + Deadline - 1 : log'[k].own + log'[k].other > 0
    BY DEF NeverStoodStill
  <2>1. i \in 1 .. Len(log')
    BY DEF Tracks
  <2>2. LongestStall(t) <= Deadline
    BY DEF AssertRecovered
  <2> QED
    BY <2>1, <2>2, StallSays
<1> QED
  BY <1>1, <1>2

(* The scenario starts with nothing read. *)
LEMMA ReadsInit == Init => ReadsInv
  BY DEF Init, ReadsInv, Measured, NoBaseline, Drains, Ends, RecoveredInTime, NeverStoodStill

(* A step that leaves the verdict where it was, if there was one, keeps    *)
(* what a verdict says.                                                    *)
LEMMA NoVerdict ==
  ASSUME stage' # "passed"
  PROVE  RecoveredInTime' /\ NeverStoodStill'
  BY DEF RecoveredInTime, NeverStoodStill

(* When the offer was complete is a number. *)
LEMMA OfferEndIs ==
  ASSUME NEW now \in Nat, NEW s \in Pumps
  PROVE  OfferEnd(s, now) \subseteq Nat
<1>1. LoadOf(s) \in Nat
  BY BudgetAssumption DEF LoadOf, Pumps
<1> QED
  BY <1>1 DEF OfferEnd

(* What a second of the survival pump adds to its reads, it adds to the    *)
(* log as well.                                                            *)
LEMMA ReadsLogged ==
  ASSUME ReadsInv, stage = "survival", NEW own \in Nat, NEW other \in Nat,
         log' = Append(log, Logged(own, other))
  PROVE  /\ Tracks(IF own + other > 0
                   THEN Append(progress, [at |-> clock + 1, units |-> mine + own])
                   ELSE progress, log')
         /\ Len(log') = clock + 1 /\ mine + own = BackOf(log', Len(log'))
         /\ clock \in Nat /\ mine \in Nat
<1>1. /\ Tracks(progress, log) /\ Len(log) = clock /\ mine = BackOf(log, Len(log))
      /\ log \in Seq(Record)
  BY DEF ReadsInv, Tracks
<1>2. clock \in Nat /\ Len(log) \in Nat /\ mine \in Nat
  <2>1. Len(log) \in 0 .. Len(log) /\ Len(log) \in Nat
    BY <1>1
  <2> QED
    BY <1>1, <2>1, BackType
<1>3. Back(Len(log)) = BackOf(log, Len(log))
  BY DEF Back, BackOf
<1> DEFINE r == Logged(own, other)
<1>4. r \in Record /\ r.own = own /\ r.other = other /\ r.back = mine + own
  BY <1>1, <1>3, LoggedType
<1> HIDE DEF r
<1>5. log' = Append(log, r)
  BY DEF r
<1>6. Tracks(IF own + other > 0
             THEN Append(progress, [at |-> clock + 1, units |-> mine + own])
             ELSE progress, log')
  BY <1>1, <1>4, <1>5, TracksGrow
<1>7. Len(log') = clock + 1 /\ log'[clock + 1] = r
  BY <1>1, <1>4, <1>5
<1>8. BackOf(log', Len(log')) = mine + own
  BY <1>2, <1>4, <1>7 DEF BackOf
<1> QED
  BY <1>2, <1>6, <1>7, <1>8

(* A second of a pump: it goes on, or it returns with what was read.       *)
LEMMA SecondSays ==
  ASSUME NEW own, NEW other, Second(own, other)
  PROVE  LET read == IF own + other > 0 /\ stage \in {"baseline", "survival"}
                     THEN Append(progress, [at |-> clock + 1, units |-> mine + own])
                     ELSE progress
         IN \/ /\ stage' = stage /\ clock' = clock + 1 /\ mine' = mine + own
               /\ progress' = read /\ baseline' = baseline
            \/ \E t : /\ PumpReturns(t)
                      /\ t.progress = read /\ t.wall = clock + 1 /\ t.mine = mine + own
                      /\ t.offerEnd = OfferEnd(stage, clock + 1)
<1> DEFINE now   == clock + 1
           since == IF own > 0 THEN 0 ELSE now - lastMineAt
           read  == IF own + other > 0 /\ stage \in {"baseline", "survival"}
                    THEN Append(progress, [at |-> now, units |-> mine + own])
                    ELSE progress
           rule  == StopReason(mine + own, since, now, Timeout, IdleOf(stage), FirstByte,
                               TailOf(stage, now))
           stop  == IF mine + own >= LoadOf(stage) THEN "Complete" ELSE rule
           t     == [outcome |-> stop, mine |-> mine + own, foreign |-> foreign + other,
                     progress |-> read, wall |-> now, offerEnd |-> OfferEnd(stage, now)]
<1>1. \/ /\ stage' = stage /\ clock' = now /\ mine' = mine + own
         /\ progress' = read /\ baseline' = baseline
      \/ PumpReturns(t)
  BY DEF Second, Attributed
<1>2. /\ t.progress = read /\ t.wall = now /\ t.mine = mine + own
      /\ t.offerEnd = OfferEnd(stage, now)
  <2> HIDE DEF stop, read, now
  <2> QED
    OBVIOUS
<1> HIDE DEF t, read, now
<1>3. \/ /\ stage' = stage /\ clock' = now /\ mine' = mine + own
         /\ progress' = read /\ baseline' = baseline
      \/ \E u : /\ PumpReturns(u)
                /\ u.progress = read /\ u.wall = now /\ u.mine = mine + own
                /\ u.offerEnd = OfferEnd(stage, now)
  BY <1>1, <1>2
<1> QED
  BY <1>3 DEF read, now

(* A second of the survival pump.                                          *)
LEMMA ReadsSurvival ==
  ASSUME ReadsInv, stage = "survival", NEW own \in Nat, NEW other \in Nat, Second(own, other)
  PROVE  ReadsInv'
<1> DEFINE read == IF own + other > 0
                   THEN Append(progress, [at |-> clock + 1, units |-> mine + own])
                   ELSE progress
<1>1. log' = Append(log, Logged(own, other))
  BY DEF Second
<1>2. /\ Tracks(read, log') /\ Len(log') = clock + 1 /\ mine + own = BackOf(log', Len(log'))
      /\ clock \in Nat /\ mine \in Nat
  BY <1>1, ReadsLogged
<1>3. Measured(baseline)
  BY DEF ReadsInv
<1>4. \/ /\ stage' = "survival" /\ clock' = clock + 1 /\ mine' = mine + own
         /\ progress' = read /\ baseline' = baseline
      \/ \E t : /\ PumpReturns(t)
                /\ t.progress = read /\ t.wall = clock + 1
                /\ t.offerEnd = OfferEnd("survival", clock + 1)
  BY SecondSays
<1> HIDE DEF read
<1>5. CASE /\ stage' = "survival" /\ clock' = clock + 1 /\ mine' = mine + own
           /\ progress' = read /\ baseline' = baseline
  <2>1. RecoveredInTime' /\ NeverStoodStill'
    BY <1>5, NoVerdict
  <2> QED
    BY <1>2, <1>3, <1>5, <2>1 DEF ReadsInv, Measured, Drains, Ends
<1>6. ASSUME NEW t, PumpReturns(t), t.progress = read, t.wall = clock + 1,
             t.offerEnd = OfferEnd("survival", clock + 1)
      PROVE  ReadsInv'
  <2>1. PICK shaOk \in BOOLEAN : stage' = (IF AssertRecovered(t, shaOk) THEN "passed" ELSE "failed")
    BY <1>6 DEF PumpReturns, StageAfter
  <2>4. baseline' = baseline
    BY <1>6 DEF PumpReturns
  <2>2. Measured(baseline')
    BY <1>3, <2>4
  <2>3. RecoveredInTime' /\ NeverStoodStill'
    <3>1. CASE AssertRecovered(t, shaOk)
      <4>1. t.wall \in Nat /\ t.offerEnd \subseteq Nat
        <5>1. clock + 1 \in Nat /\ "survival" \in Pumps
          BY <1>2 DEF Pumps
        <5> QED
          BY <1>6, <5>1, OfferEndIs
      <4>2. Tracks(t.progress, log')
        BY <1>2, <1>6
      <4> QED
        BY <1>3, <2>4, <3>1, <4>1, <4>2, VerdictHolds
    <3>2. CASE ~AssertRecovered(t, shaOk)
      BY <2>1, <3>2, NoVerdict
    <3> QED
      BY <3>1, <3>2
  <2> QED
    BY <2>1, <2>2, <2>3 DEF ReadsInv, Measured, Drains, Ends
<1> QED
  BY <1>4, <1>5, <1>6

(* A pump other than the survival pump returns.                            *)
LEMMA ReadsReturn ==
  ASSUME ReadsInv, stage \in Pumps, stage # "survival", NEW t, PumpReturns(t), UNCHANGED log,
         stage = "baseline" => t.mine \in Nat /\ \E n \in Nat : Ordered(t.progress, n)
  PROVE  ReadsInv'
<1>1. stage' \in Drains \cup {"settle", "failed"} /\ mine' = 0 /\ progress' = <<>>
  BY DEF PumpReturns, FreshPump, StageAfter, Pumps, Drains
<1>2. Measured(baseline')
  <2>1. CASE stage = "baseline"
    <3>1. baseline' = BaselineOf(t)
      BY <2>1 DEF PumpReturns
    <3> QED
      BY <2>1, <3>1, BaselineMeasured
  <2>2. CASE stage # "baseline"
    BY <2>2 DEF PumpReturns, ReadsInv
  <2> QED
    BY <2>1, <2>2
<1>3. log = <<>>
  BY DEF ReadsInv, Pumps, Ends
<1>4. RecoveredInTime' /\ NeverStoodStill'
  BY <1>1, NoVerdict DEF Drains
<1> QED
  BY <1>1, <1>2, <1>3, <1>4 DEF ReadsInv, Measured, Drains, Ends

(* A second of any other pump.                                             *)
LEMMA ReadsSecond ==
  ASSUME ReadsInv, stage # "survival", NEW own \in Nat, NEW other \in Nat, Second(own, other)
  PROVE  ReadsInv'
<1> DEFINE read == IF own + other > 0 /\ stage \in {"baseline", "survival"}
                   THEN Append(progress, [at |-> clock + 1, units |-> mine + own])
                   ELSE progress
<1>1. stage \in Pumps /\ UNCHANGED log
  BY DEF Second
<1>2. \/ /\ stage' = stage /\ clock' = clock + 1 /\ mine' = mine + own
         /\ progress' = read /\ baseline' = baseline
      \/ \E t : PumpReturns(t) /\ t.progress = read /\ t.mine = mine + own
  BY SecondSays
<1>3. stage = "baseline" => /\ clock + 1 \in Nat /\ mine + own \in Nat
                            /\ Ordered(read, clock + 1)
  <2> SUFFICES ASSUME stage = "baseline"
               PROVE  clock + 1 \in Nat /\ mine + own \in Nat /\ Ordered(read, clock + 1)
    OBVIOUS
  <2>1. clock \in Nat /\ mine \in Nat /\ Ordered(progress, clock)
    BY DEF ReadsInv
  <2>2. mine + own \in Nat /\ clock + 1 \in Nat
    BY <2>1
  <2>3. /\ Ordered(Append(progress, [at |-> clock + 1, units |-> mine + own]), clock + 1)
        /\ Ordered(progress, clock + 1)
    BY <2>1, <2>2, OrderedGrows
  <2> QED
    BY <2>2, <2>3
<1> HIDE DEF read
<1>4. CASE /\ stage' = stage /\ clock' = clock + 1 /\ mine' = mine + own
           /\ progress' = read /\ baseline' = baseline
  <2>1. RecoveredInTime' /\ NeverStoodStill'
    <3>1. stage' # "passed"
      BY <1>1, <1>4 DEF Pumps
    <3> QED
      BY <3>1, NoVerdict
  <2>2. stage \notin Drains \cup {"settle"}
    BY <1>1 DEF Pumps, Drains
  <2> QED
    BY <1>1, <1>3, <1>4, <2>1, <2>2 DEF ReadsInv, Measured
<1>5. ASSUME NEW t, PumpReturns(t), t.progress = read, t.mine = mine + own PROVE ReadsInv'
  BY <1>1, <1>3, <1>5, ReadsReturn
<1> QED
  BY <1>2, <1>4, <1>5

(* Between the pumps nothing is read, and the next one starts with no read.*)
LEMMA ReadsBetween ==
  ASSUME ReadsInv, stage \in Drains \cup {"settle"}, UNCHANGED <<mine, progress, baseline, log>>,
         \/ UNCHANGED stage
         \/ clock' = 0 /\ stage' \in {"baseline", "outage", "settle", "survival", "failed"} \cup Drains
  PROVE  ReadsInv'
<1>1. Measured(baseline)' /\ mine' = 0 /\ progress' = <<>> /\ log' = <<>>
  BY DEF ReadsInv, Measured, Drains, Ends
<1>2. stage' # "passed"
  BY DEF Drains
<1>3. Ordered(<<>>, 0)
  BY DEF Ordered, Read
<1>4. Tracks(<<>>, <<>>) /\ Len(<<>>) = 0 /\ BackOf(<<>>, Len(<<>>)) = 0
  <2>1. BackOf(<<>>, 0) = 0 /\ Len(<<>>) = 0
    BY DEF BackOf
  <2>2. \A i, j \in 0 .. 0 : i <= j => BackOf(<<>>, i) <= BackOf(<<>>, j)
    BY <2>1
  <2>3. <<>> \in Seq(Record)
    OBVIOUS
  <2> QED
    BY <1>3, <2>1, <2>2, <2>3 DEF Tracks
<1>5. RecoveredInTime' /\ NeverStoodStill'
  BY <1>2, NoVerdict
<1>6. stage' \in {"baseline", "survival"} => clock' = 0
  BY DEF Drains
<1> QED
  BY <1>1, <1>3, <1>4, <1>5, <1>6 DEF ReadsInv

(* The session closes under a pump.                                        *)
LEMMA ReadsClosed ==
  ASSUME ReadsInv, Closes
  PROVE  ReadsInv'
<1> DEFINE t == [outcome |-> "SessionClosed", mine |-> mine, foreign |-> foreign,
                 progress |-> progress, wall |-> clock, offerEnd |-> OfferEnd(stage, clock)]
<1>1. stage \in Pumps /\ PumpReturns(t) /\ UNCHANGED log
  BY DEF Closes
<1>2. /\ t.progress = progress /\ t.mine = mine /\ t.wall = clock
      /\ t.offerEnd = OfferEnd(stage, clock)
  OBVIOUS
<1> HIDE DEF t
<1>3. CASE stage = "survival"
  <2>1. /\ Tracks(progress, log) /\ Len(log) = clock /\ Measured(baseline)
    BY <1>3 DEF ReadsInv
  <2>2. clock \in Nat
    BY <2>1 DEF Tracks
  <2>3. PICK shaOk \in BOOLEAN : stage' = (IF AssertRecovered(t, shaOk) THEN "passed" ELSE "failed")
    BY <1>1, <1>3 DEF PumpReturns, StageAfter
  <2>6. baseline' = baseline
    BY <1>1, <1>3 DEF PumpReturns
  <2>4. RecoveredInTime' /\ NeverStoodStill'
    <3>1. CASE AssertRecovered(t, shaOk)
      <4>1. Tracks(t.progress, log') /\ t.wall \in Nat /\ t.offerEnd \subseteq Nat
        BY <1>1, <1>2, <2>1, <2>2, OfferEndIs
      <4> QED
        BY <2>1, <2>6, <3>1, <4>1, VerdictHolds
    <3>2. CASE ~AssertRecovered(t, shaOk)
      BY <2>3, <3>2, NoVerdict
    <3> QED
      BY <3>1, <3>2
  <2>5. Measured(baseline')
    BY <2>1, <2>6
  <2> QED
    BY <2>3, <2>4, <2>5 DEF ReadsInv, Measured, Drains, Ends
<1>4. CASE stage # "survival"
  <2>1. stage = "baseline" => t.mine \in Nat /\ \E n \in Nat : Ordered(t.progress, n)
    <3> SUFFICES ASSUME stage = "baseline"
                 PROVE  t.mine \in Nat /\ \E n \in Nat : Ordered(t.progress, n)
      OBVIOUS
    <3>1. clock \in Nat /\ mine \in Nat /\ Ordered(progress, clock)
      BY DEF ReadsInv
    <3> QED
      BY <1>2, <3>1
  <2> QED
    BY <1>1, <1>4, <2>1, ReadsReturn
<1> QED
  BY <1>3, <1>4

(* Every step keeps it. *)
LEMMA ReadsStep == ReadsInv /\ Counted /\ [Next]_vars => ReadsInv'
<1> SUFFICES ASSUME ReadsInv, discarded \in Nat, [Next]_vars PROVE ReadsInv'
  BY DEF Counted
<1>1. CASE \E own, other \in 0 .. MaxRead : own + other <= MaxRead /\ Second(own, other)
  <2> PICK own \in 0 .. MaxRead, other \in 0 .. MaxRead : Second(own, other)
    BY <1>1
  <2>1. own \in Nat /\ other \in Nat
    OBVIOUS
  <2> QED
    BY <2>1, ReadsSurvival, ReadsSecond
<1>2. CASE \E read \in 0 .. MaxRead : DrainSecond(read)
  <2> PICK read \in 0 .. MaxRead : DrainSecond(read)
    BY <1>2
  <2>1. stage \in Drains /\ UNCHANGED <<mine, progress, baseline, log>>
    BY DEF DrainSecond, pumpVars
  <2>2. (UNCHANGED stage \/ DrainReturns(discarded + read)) /\ discarded + read \in Nat
    BY DEF DrainSecond
  <2> QED
    BY <2>1, <2>2, DrainStage, ReadsBetween
<1>3. CASE DrainBreaks
  <2>1. stage \in Drains /\ DrainReturns(discarded) /\ UNCHANGED <<mine, progress, baseline, log>>
    BY <1>3 DEF DrainBreaks, pumpVars
  <2> QED
    BY <2>1, DrainStage, ReadsBetween
<1>4. CASE SettleEnds \/ FaultFails
  <2>1. CASE stage = "outage"
    <3>1. stage' = "failed" /\ UNCHANGED baseline
      BY <1>4, <2>1 DEF SettleEnds, FaultFails
    <3> QED
      BY <3>1, NoVerdict DEF ReadsInv, Measured, Drains, Ends
  <2>2. CASE stage # "outage"
    BY <1>4, <2>2, ReadsBetween DEF SettleEnds, FaultFails, pumpVars, Drains
  <2> QED
    BY <2>1, <2>2
<1>5. CASE Closes
  BY <1>5, ReadsClosed
<1>6. CASE ReadFails
  <2>1. stage' = "failed" /\ UNCHANGED baseline
    BY <1>6 DEF ReadFails
  <2> QED
    BY <2>1, NoVerdict DEF ReadsInv, Measured, Drains, Ends
<1>7. CASE UNCHANGED vars
  <2>1. UNCHANGED <<stage, clock, mine, progress, baseline, log>>
    BY <1>7 DEF vars, pumpVars
  <2>2. UNCHANGED <<RecoveredInTime, NeverStoodStill>>
    BY <2>1 DEF RecoveredInTime, NeverStoodStill, OwnBetween, Back
  <2> QED
    BY <2>1, <2>2 DEF ReadsInv, Measured
<1> QED
  BY <1>1, <1>2, <1>3, <1>4, <1>5, <1>6, <1>7 DEF Next, Over

(* A scenario passes only if some window, ending no more than the deadline *)
(* later than the healthy session needed, carried half the healthy rate in *)
(* units of the surviving phase itself: what assert_recovered reads of the *)
(* two Transfers says so of the seconds themselves.                        *)
THEOREM RecoveryIsInTime == Spec => []RecoveredInTime
<1>1. ReadsInv => RecoveredInTime
  BY DEF ReadsInv
<1>2. Init => Counted
  BY DEF Init, Counted
<1> QED
  BY <1>1, <1>2, ReadsInit, ReadsStep, DiscardedStep, PTL DEF Spec

(* ... and only if the session never stood still for longer than the       *)
(* deadline while anything was yet to come.                                *)
THEOREM NeverStandsStill == Spec => []NeverStoodStill
<1>1. ReadsInv => NeverStoodStill
  BY DEF ReadsInv
<1>2. Init => Counted
  BY DEF Init, Counted
<1> QED
  BY <1>1, <1>2, ReadsInit, ReadsStep, DiscardedStep, PTL DEF Spec
=============================================================================
