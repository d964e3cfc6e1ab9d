----------------------------- MODULE PumpProofs -----------------------------
(***************************************************************************)
(* For every set of calls, every budget and every executor lag: the pump's *)
(* outcomes are backed by evidence, its reader ends on time, its stall     *)
(* statistic is the stream's own, and it implements PumpContract.  All of  *)
(* it rests on PumpInv being inductive.  At the end, of its attribution of *)
(* records: what it does not depend on, what a hole in the stream costs    *)
(* it, and that a right digest means the whole payload was read.           *)
(***************************************************************************)
EXTENDS PumpRefinement, Scan, FiniteSetTheorems, SequenceTheorems, WellFoundedInduction, TLAPS

(* The fields of a call have the types the caller can give them, and only  *)
(* a phased call meets a backlog.                                          *)
LEMMA OptsType ==
  ASSUME NEW o \in Opts
  PROVE  /\ o.total \in Nat /\ o.chunk \in Nat /\ o.chunk > 0 /\ o.pace \in Nat
         /\ o.shape \in {"Constant", "Burst", "Keepalive"}
         /\ o.on \in Nat /\ o.gap \in Nat /\ o.timeout \in Nat /\ o.idle \in Nat
         /\ o.grace \in SUBSET Nat /\ o.phased \in BOOLEAN /\ o.backlog \in Nat
         /\ o.phased \/ o.backlog = 0
  BY OptsAssumption DEF PumpOpts

(* The tail cap fires exactly when the offer is complete and some grace    *)
(* has run out since (stop_reason's second clause).                        *)
LEMMA TailMeaning ==
  ASSUME now \in Nat, offerDone \in Nat \cup {OfferInFlight},
         opts.grace \in SUBSET Nat
  PROVE  TailExpired(OfferTail) <=>
           offerDone # OfferInFlight /\ \E g \in opts.grace : now - offerDone >= g
<1>1. CASE offerDone = OfferInFlight
  BY <1>1 DEF TailExpired, OfferTail, NoTail
<1>2. CASE offerDone # OfferInFlight
  <2>1. OfferTail = UNION {TailWindow(now - offerDone, g) : g \in opts.grace}
    BY <1>2 DEF OfferTail
  <2>2. \A t : t \in OfferTail <=>
          \E g \in opts.grace : t = [since |-> now - offerDone, grace |-> g]
    BY <2>1 DEF TailWindow
  <2>3. ASSUME NEW g \in opts.grace, now - offerDone >= g
        PROVE  TailExpired(OfferTail)
    <3>1. [since |-> now - offerDone, grace |-> g] \in OfferTail
      BY <2>2
    <3> QED  BY <2>3, <3>1 DEF TailExpired
  <2>4. ASSUME NEW t \in OfferTail, t.since >= t.grace
        PROVE  \E g \in opts.grace : now - offerDone >= g
    <3>1. PICK g \in opts.grace : t = [since |-> now - offerDone, grace |-> g]
      BY <2>2
    <3> QED  BY <2>4, <3>1
  <2> QED  BY <1>2, <2>3, <2>4 DEF TailExpired
<1> QED  BY <1>1, <1>2

(* What an answer v of stop_reason says about the rule's arguments. *)
Justified(v, got, sinceLast, sinceStart, deadline, idle, firstByte, tail) ==
  /\ v \in {Waiting, "DeadlineExceeded", "TailGraceExpired", "NeverStarted", "Idle"}
  /\ v = Waiting =>
       /\ sinceStart < deadline /\ ~TailExpired(tail)
       /\ got = 0 => sinceStart < Larger(idle, firstByte)
       /\ got # 0 => sinceLast < idle
  /\ v = "DeadlineExceeded" => sinceStart >= deadline
  /\ v = "TailGraceExpired" => got # 0 /\ TailExpired(tail)
  /\ v = "NeverStarted" =>
       got = 0 /\ (TailExpired(tail) \/ sinceStart >= Larger(idle, firstByte))
  /\ v = "Idle" => got # 0 /\ sinceLast >= idle

(* stop_reason's answer is justified by the arguments it was given.        *)
LEMMA StopReasonJustified ==
  ASSUME NEW got \in Nat, NEW sinceLast \in Int, NEW sinceStart \in Nat,
         NEW deadline \in Nat, NEW idle \in Nat, NEW firstByte \in Nat, NEW tail
  PROVE  Justified(StopReason(got, sinceLast, sinceStart, deadline, idle, firstByte, tail),
                   got, sinceLast, sinceStart, deadline, idle, firstByte, tail)
<1> DEFINE v == StopReason(got, sinceLast, sinceStart, deadline, idle, firstByte, tail)
<1> SUFFICES Justified(v, got, sinceLast, sinceStart, deadline, idle, firstByte, tail)
  OBVIOUS
<1> DEFINE P == Larger(idle, firstByte)  X == TailExpired(tail)
<1>0. P \in Nat
  BY DEF Larger
<1> HIDE DEF P, X, v
<1>1. v = CASE sinceStart >= deadline -> "DeadlineExceeded"
            [] sinceStart < deadline /\ X ->
                 IF got = 0 THEN "NeverStarted" ELSE "TailGraceExpired"
            [] sinceStart < deadline /\ ~X /\ got = 0 /\ sinceStart >= P -> "NeverStarted"
            [] sinceStart < deadline /\ ~X /\ got # 0 /\ sinceLast >= idle -> "Idle"
            [] OTHER -> Waiting
  BY DEF P, X, v, StopReason
<1>2. CASE sinceStart >= deadline
  <2>1. v = "DeadlineExceeded"
    BY <1>0, <1>1, <1>2
  <2> QED  BY <1>2, <2>1 DEF Waiting, Justified
<1>3. CASE sinceStart < deadline /\ X
  <2>1. v = IF got = 0 THEN "NeverStarted" ELSE "TailGraceExpired"
    BY <1>0, <1>1, <1>3
  <2> QED  BY <1>3, <2>1 DEF Waiting, X, Justified
<1>4. CASE sinceStart < deadline /\ ~X /\ got = 0 /\ sinceStart >= P
  <2>1. v = "NeverStarted"
    BY <1>0, <1>1, <1>4
  <2> QED  BY <1>4, <2>1 DEF Waiting, X, P, Justified
<1>5. CASE sinceStart < deadline /\ ~X /\ got # 0 /\ sinceLast >= idle
  <2>1. v = "Idle"
    BY <1>0, <1>1, <1>5
  <2> QED  BY <1>5, <2>1 DEF Waiting, X, P, Justified
<1>6. CASE /\ sinceStart < deadline /\ ~X
           /\ ~(got = 0 /\ sinceStart >= P) /\ ~(got # 0 /\ sinceLast >= idle)
  <2>1. v = Waiting
    BY <1>0, <1>1, <1>6
  <2> QED  BY <1>0, <1>6, <2>1 DEF Waiting, X, P, Justified
<1> QED  BY <1>2, <1>3, <1>4, <1>5, <1>6

-----------------------------------------------------------------------------
(* What the reader's own verdict says, in the units and stamps of this phase *)
LEMMA VerdictMeaning ==
  ASSUME PumpInv
  PROVE  /\ Live = mine /\ SinceLive = now - lastMineAt
         /\ Verdict \in {Waiting, "DeadlineExceeded", "TailGraceExpired", "NeverStarted", "Idle"}
         /\ Verdict = Waiting =>
              /\ now < opts.timeout /\ now < lastMineAt + Budget
              /\ offerDone # OfferInFlight => \A g \in opts.grace : now < offerDone + g
         /\ Verdict = "DeadlineExceeded" => now >= opts.timeout
         /\ Verdict = "TailGraceExpired" =>
              /\ mine # 0 /\ offerDone # OfferInFlight
              /\ \E g \in opts.grace : now - offerDone >= g
         /\ Verdict = "NeverStarted" =>
              /\ mine = 0
              /\ \/ now >= Patience
                 \/ offerDone # OfferInFlight /\ \E g \in opts.grace : now - offerDone >= g
         /\ Verdict = "Idle" => mine # 0 /\ now - lastMineAt >= opts.idle
<1>0. /\ opts.timeout \in Nat /\ opts.idle \in Nat /\ opts.grace \in SUBSET Nat
      /\ opts.backlog \in Nat /\ (opts.phased \/ opts.backlog = 0)
      /\ now \in Nat /\ mine \in Nat /\ foreign \in Nat /\ backlog \in Nat
      /\ lastMineAt \in Nat /\ lastAt \in Nat
      /\ offerDone \in Nat \cup {OfferInFlight}
  BY OptsType DEF PumpInv, TypeOK
<1>1. Live = mine /\ SinceLive = now - lastMineAt
  BY <1>0 DEF PumpInv, Ledger, Stamps, Live, SinceLive
<1>2. TailExpired(OfferTail) <=>
        offerDone # OfferInFlight /\ \E g \in opts.grace : now - offerDone >= g
  BY <1>0, TailMeaning
<1>3. FirstByte \in Nat
  BY TimingAssumption
<1>4. Verdict = StopReason(mine, now - lastMineAt, now, opts.timeout, opts.idle,
                           FirstByte, OfferTail)
  BY <1>1 DEF Verdict
<1>5. now - lastMineAt \in Int
  BY <1>0
<1>6. Justified(Verdict, mine, now - lastMineAt, now, opts.timeout, opts.idle, FirstByte,
                OfferTail)
  BY <1>0, <1>3, <1>4, <1>5, StopReasonJustified
<1>7. Patience \in Nat
  BY <1>0, <1>3 DEF Patience, Larger
<1>8. ASSUME Verdict = Waiting
      PROVE  /\ now < opts.timeout /\ now < lastMineAt + Budget
             /\ offerDone # OfferInFlight => \A g \in opts.grace : now < offerDone + g
  BY <1>0, <1>2, <1>6, <1>7, <1>8 DEF Justified, Budget, Patience, PumpInv, Stamps
<1>9. /\ Verdict = "TailGraceExpired" =>
           /\ mine # 0 /\ offerDone # OfferInFlight
           /\ \E g \in opts.grace : now - offerDone >= g
      /\ Verdict = "NeverStarted" =>
           /\ mine = 0
           /\ \/ now >= Patience
              \/ offerDone # OfferInFlight /\ \E g \in opts.grace : now - offerDone >= g
  BY <1>2, <1>6 DEF Justified, Patience
<1>10. /\ Verdict \in {Waiting, "DeadlineExceeded", "TailGraceExpired", "NeverStarted", "Idle"}
       /\ Verdict = "DeadlineExceeded" => now >= opts.timeout
       /\ Verdict = "Idle" => mine # 0 /\ now - lastMineAt >= opts.idle
  BY <1>6 DEF Justified
<1> QED  BY <1>1, <1>8, <1>9, <1>10

-----------------------------------------------------------------------------
(* PumpInv is inductive *)

(* The types PumpInv gives the variables, with a call's fields unfolded.   *)
Typed ==
  /\ opts.total \in Nat /\ opts.chunk \in Nat /\ opts.chunk > 0 /\ opts.pace \in Nat
  /\ opts.on \in Nat /\ opts.gap \in Nat /\ opts.timeout \in Nat /\ opts.idle \in Nat
  /\ opts.grace \in SUBSET Nat /\ opts.backlog \in Nat
  /\ opts.phased \/ opts.backlog = 0
  /\ FirstByte \in Nat /\ Poll \in Nat /\ Poll > 0 /\ Lag \in Nat
  /\ Patience \in Nat /\ opts.idle <= Patience /\ FirstByte <= Patience
  /\ Slack \in Nat /\ Slack = Poll + 2 * Lag
  /\ Budget \in Nat /\ Budget = (IF mine = 0 THEN Patience ELSE opts.idle)
  /\ ChunkEnd \in Nat /\ ChunkEnd <= opts.total
  /\ offset < opts.total => ChunkEnd > offset

(* The inductive invariant contains the bounds the typing rests on. *)
LEMMA InvTyped == ASSUME PumpInv PROVE Typed
<1>1. opts \in Opts /\ offset \in 0 .. opts.total
  BY DEF PumpInv, TypeOK
<1>2. FirstByte \in Nat /\ Poll \in Nat /\ Poll > 0 /\ Lag \in Nat
  BY TimingAssumption
<1>3. Patience \in Nat /\ opts.idle <= Patience /\ FirstByte <= Patience
  BY <1>1, <1>2, OptsType DEF Patience, Larger
<1> QED
  BY <1>1, <1>2, <1>3, OptsType DEF Typed, Slack, Budget, ChunkEnd, Smaller

(* The pump's first state satisfies the invariant. *)
LEMMA InitInv == ASSUME Init PROVE PumpInv
<1>1. /\ opts \in Opts /\ opts.total \in Nat /\ opts.chunk \in Nat /\ opts.chunk > 0
      /\ opts.timeout \in Nat /\ opts.idle \in Nat /\ opts.grace \in SUBSET Nat
      /\ opts.backlog \in Nat
  BY OptsType DEF Init
<1>2. FirstByte \in Nat /\ Poll \in Nat /\ Lag \in Nat
  BY TimingAssumption
<1>3. Patience \in Nat
  BY <1>1, <1>2 DEF Patience, Larger
<1>4. TypeOK
  <2>1. wpc \in WriterLive \cup WriterEnd /\ rpc \in ReaderLive \cup ReaderEnd
    BY DEF Init, WriterLive, WriterEnd, ReaderLive, ReaderEnd
  <2>2. open \in BOOLEAN /\ returned \in BOOLEAN
    BY DEF Init
  <2>3. outcome \in PumpOutcome \cup {Waiting, "ReadError"}
    BY DEF Init
  <2> QED  BY <1>1, <2>1, <2>2, <2>3 DEF Init, TypeOK
<1>5. Ledger
  BY <1>1 DEF Init, Ledger, ChunkEnd, Smaller
<1>6. Stamps
  BY DEF Init, Stamps, OfferInFlight
<1>7. Cadence
  BY <1>1, <1>2, <1>3 DEF Init, Cadence, ReaderLive, Asked, Budget
<1>8. Gaps
  BY <1>1, <1>2, <1>3 DEF Init, Gaps, Slack
<1>9. OutcomeEvidence
  BY DEF Init, OutcomeEvidence, Waiting
<1> QED  BY <1>4, <1>5, <1>6, <1>7, <1>8, <1>9 DEF PumpInv

(* A live reader's next question is due soon enough after its last that it *)
(* outlasts no budget by more than Slack.                                  *)
LEMMA InvTimely == ASSUME PumpInv PROVE BacklogCannotHold /\ TailIsCapped
<1>1. Typed
  BY InvTyped
<1> QED
  BY <1>1 DEF Typed, PumpInv, TypeOK, Cadence, Asked, BacklogCannotHold, TailIsCapped,
     ReaderLive, OfferInFlight

(* Every gap up to now is within what the rule tolerates.                  *)
LEMMA InvSilence ==
  ASSUME PumpInv, rpc \in ReaderLive
  PROVE  now - lastAt <= Patience + Slack
<1>1. Typed
  BY InvTyped
<1> QED
  BY <1>1, InvTimely DEF Typed, PumpInv, TypeOK, Stamps, BacklogCannotHold

(* A flush before a pause, a wake-up, an error and the writer's timeout     *)
(* move only the writer's place.                                           *)
LEMMA WriterMovesInv ==
  ASSUME PumpInv, FlushAndPause \/ Wake \/ WriterFails \/ WriterCut
  PROVE  PumpInv'
<1>0. Typed
  BY InvTyped
<1>1. TypeOK'
  BY <1>0 DEF PumpInv, TypeOK, FlushAndPause, Wake, WriterFails, WriterCut, readerVars, netVars, WriterLive,
     WriterEnd, LoopHead, Typed
<1>2. Ledger'
  BY <1>0 DEF PumpInv, TypeOK, Ledger, FlushAndPause, Wake, WriterFails, WriterCut, readerVars, netVars, ChunkEnd,
     Smaller, LoopHead, OfferInFlight, WriterLive, Typed
<1>3. Stamps'
  BY <1>0 DEF PumpInv, TypeOK, Stamps, FlushAndPause, Wake, WriterFails, WriterCut, readerVars, netVars,
     OfferInFlight, Typed
<1>4. Cadence'
  BY <1>0 DEF PumpInv, TypeOK, Cadence, Ledger, Stamps, FlushAndPause, Wake, WriterFails, WriterCut, readerVars,
     netVars, Asked, Budget, Patience, Larger, OfferInFlight, ReaderLive, Typed
<1>5. Gaps'
  BY <1>0 DEF PumpInv, TypeOK, Gaps, FlushAndPause, Wake, WriterFails, WriterCut, readerVars, netVars, Patience,
     Larger, Slack, Typed
<1>6. OutcomeEvidence'
  <2>1. UNCHANGED <<opts, accepted, offerDone, netVars, readerVars>>
    BY DEF FlushAndPause, Wake, WriterFails, WriterCut
  <2> QED
    BY <2>1 DEF PumpInv, OutcomeEvidence, Patience, netVars, readerVars
<1> QED  BY <1>1, <1>2, <1>3, <1>4, <1>5, <1>6 DEF PumpInv

(* The final flush stamps the offer; no grace can have run out before it. *)
LEMMA FinalFlushInv ==
  ASSUME PumpInv, FinalFlush
  PROVE  PumpInv'
<1>0. Typed
  BY InvTyped
<1>1. TypeOK'
  BY <1>0 DEF PumpInv, TypeOK, FinalFlush, readerVars, netVars, WriterLive, WriterEnd,
     LoopHead, Typed
<1>2. Ledger'
  BY <1>0 DEF PumpInv, TypeOK, Ledger, FinalFlush, readerVars, netVars, ChunkEnd,
     Smaller, LoopHead, OfferInFlight, WriterLive, Typed
<1>3. Stamps'
  BY <1>0 DEF PumpInv, TypeOK, Stamps, FinalFlush, readerVars, netVars, OfferInFlight,
     Typed
<1>4. Cadence'
  BY <1>0 DEF PumpInv, TypeOK, Cadence, Ledger, Stamps, FinalFlush, readerVars,
     netVars, Asked, Budget, Patience, Larger, OfferInFlight, ReaderLive, Typed
<1>5. Gaps'
  BY <1>0 DEF PumpInv, TypeOK, Gaps, FinalFlush, readerVars, netVars, Patience,
     Larger, Slack, Typed
<1>6. OutcomeEvidence'
  BY <1>0 DEF PumpInv, TypeOK, OutcomeEvidence, Ledger, FinalFlush, readerVars,
     netVars, Patience, Larger, OfferInFlight, Typed
<1> QED  BY <1>1, <1>2, <1>3, <1>4, <1>5, <1>6 DEF PumpInv

(* A poll that expires changes only the cadence. *)
LEMMA PollExpiresInv ==
  ASSUME PumpInv, PollExpires
  PROVE  PumpInv'
<1>0. Typed
  BY InvTyped
<1>1. TypeOK'
  BY <1>0 DEF PumpInv, TypeOK, PollExpires, writerVars, netVars, ReaderLive,
     ReaderEnd, PumpOutcome, Waiting, Typed
<1>2. Ledger'
  BY <1>0 DEF PumpInv, TypeOK, Ledger, PollExpires, writerVars, netVars, ChunkEnd,
     Smaller, Typed
<1>3. Stamps'
  BY <1>0 DEF PumpInv, TypeOK, Stamps, PollExpires, writerVars, netVars,
     OfferInFlight, Typed
<1>4. Cadence'
  BY <1>0 DEF PumpInv, TypeOK, Cadence, Ledger, Stamps, PollExpires, writerVars,
     netVars, Asked, Budget, Patience, Larger, OfferInFlight, ReaderLive, PumpOutcome,
     Waiting, Typed
<1>5. Gaps'
  BY <1>0 DEF PumpInv, TypeOK, Gaps, PollExpires, writerVars, netVars, Patience,
     Larger, Slack, Typed
<1>6. OutcomeEvidence'
  BY <1>0 DEF PumpInv, TypeOK, OutcomeEvidence, Ledger, PollExpires, writerVars,
     netVars, Patience, Larger, OfferInFlight, Waiting, Typed
<1> QED  BY <1>1, <1>2, <1>3, <1>4, <1>5, <1>6 DEF PumpInv

(* A close is a verdict of its own. *)
LEMMA ReadEofInv ==
  ASSUME PumpInv, ReadEof
  PROVE  PumpInv'
<1>0. Typed
  BY InvTyped
<1>a. now - lastAt <= Patience + Slack
  BY InvSilence DEF ReadEof, ReaderLive
<1>1. TypeOK'
  BY <1>0, <1>a DEF PumpInv, TypeOK, ReadEof, writerVars, netVars, StopReading,
     Cadence, ReaderLive, ReaderEnd, PumpOutcome, Waiting, Typed
<1>2. Ledger'
  BY <1>0, <1>a DEF PumpInv, TypeOK, Ledger, ReadEof, writerVars, netVars,
     StopReading, Cadence, ReaderLive, ChunkEnd, Smaller, Typed
<1>3. Stamps'
  BY <1>0, <1>a DEF PumpInv, TypeOK, Stamps, ReadEof, writerVars, netVars,
     StopReading, Cadence, ReaderLive, OfferInFlight, Typed
<1>4. Cadence'
  BY <1>0, <1>a DEF PumpInv, TypeOK, Cadence, Ledger, Stamps, ReadEof, writerVars,
     netVars, StopReading, ReaderLive, Asked, Budget, Patience, Larger, OfferInFlight,
     PumpOutcome, Waiting, Typed
<1>5. Gaps'
  BY <1>0, <1>a DEF PumpInv, TypeOK, Gaps, ReadEof, writerVars, netVars, StopReading,
     Cadence, ReaderLive, Patience, Larger, Slack, Typed
<1>6. OutcomeEvidence'
  BY <1>0, <1>a DEF PumpInv, TypeOK, OutcomeEvidence, Ledger, ReadEof, writerVars,
     netVars, StopReading, Cadence, ReaderLive, Patience, Larger, OfferInFlight,
     Waiting, Typed
<1> QED  BY <1>1, <1>2, <1>3, <1>4, <1>5, <1>6 DEF PumpInv

(* A read error is recorded as one. *)
LEMMA ReadFailsInv ==
  ASSUME PumpInv, ReadFails
  PROVE  PumpInv'
<1>0. Typed
  BY InvTyped
<1>1. TypeOK'
  BY <1>0 DEF PumpInv, TypeOK, ReadFails, writerVars, netVars, ReaderLive, ReaderEnd,
     PumpOutcome, Waiting, Typed
<1>2. Ledger'
  BY <1>0 DEF PumpInv, TypeOK, Ledger, ReadFails, writerVars, netVars, ChunkEnd,
     Smaller, Typed
<1>3. Stamps'
  BY <1>0 DEF PumpInv, TypeOK, Stamps, ReadFails, writerVars, netVars, OfferInFlight,
     Typed
<1>4. Cadence'
  BY <1>0 DEF PumpInv, TypeOK, Cadence, Ledger, Stamps, ReadFails, writerVars,
     netVars, Asked, Budget, Patience, Larger, OfferInFlight, ReaderLive, PumpOutcome,
     Waiting, Typed
<1>5. Gaps'
  BY <1>0 DEF PumpInv, TypeOK, Gaps, ReadFails, writerVars, netVars, Patience, Larger,
     Slack, Typed
<1>6. OutcomeEvidence'
  BY <1>0 DEF PumpInv, TypeOK, OutcomeEvidence, Ledger, ReadFails, writerVars,
     netVars, Patience, Larger, OfferInFlight, Waiting, Typed
<1> QED  BY <1>1, <1>2, <1>3, <1>4, <1>5, <1>6 DEF PumpInv

(* A read moves units from the session to the ledger and stamps them. *)
LEMMA ReadInv ==
  ASSUME PumpInv, NEW own \in 0 .. transit, NEW other \in 0 .. backlog,
         NEW a \in 0 .. own + other, NEW b \in 0 .. own + other, Read(own, other, a, b)
  PROVE  PumpInv'
<1>0. Typed
  BY InvTyped
<1>a. now - lastAt <= Patience + Slack
  BY InvSilence DEF Read, ReaderLive
<1>1. TypeOK'
  <2>1. rpc' \in ReaderLive \cup ReaderEnd
    BY DEF Read, ReaderLive, ReaderEnd
  <2>2. mine' \in 0 .. opts.total + opts.backlog /\ foreign' \in 0 .. opts.total + opts.backlog
    BY <1>0 DEF PumpInv, TypeOK, Ledger, Read, Typed
  <2>3. transit' \in 0 .. opts.total /\ backlog' \in 0 .. opts.backlog
    BY <1>0 DEF PumpInv, TypeOK, Read, Typed
  <2>4. lastAt' \in Nat /\ lastMineAt' \in Nat /\ worstGap' \in Nat /\ due' \in Nat
    BY <1>0 DEF PumpInv, TypeOK, Stamps, Read, Larger
  <2> QED  BY <2>1, <2>2, <2>3, <2>4 DEF PumpInv, TypeOK, Read, writerVars
<1>2. Ledger'
  BY <1>0, <1>a DEF PumpInv, TypeOK, Ledger, Read, writerVars, Cadence, ReaderLive,
     ChunkEnd, Smaller, Typed
<1>3. Stamps'
  BY <1>0, <1>a DEF PumpInv, TypeOK, Stamps, Read, writerVars, Ledger, Cadence,
     ReaderLive, OfferInFlight, Typed
<1>4. Cadence'
  BY <1>0, <1>a DEF PumpInv, TypeOK, Cadence, Ledger, Stamps, Read, writerVars,
     ReaderLive, Asked, Budget, Patience, Larger, OfferInFlight, PumpOutcome, Waiting,
     Typed
<1>5. Gaps'
  BY <1>0, <1>a DEF PumpInv, TypeOK, Gaps, Read, writerVars, Ledger, Cadence,
     ReaderLive, Patience, Larger, Slack, Typed
<1>6. OutcomeEvidence'
  BY <1>0, <1>a DEF PumpInv, TypeOK, OutcomeEvidence, Ledger, Read, writerVars,
     Cadence, ReaderLive, Patience, Larger, OfferInFlight, Waiting, Typed
<1> QED  BY <1>1, <1>2, <1>3, <1>4, <1>5, <1>6 DEF PumpInv

(* Losing a unit and closing touch only the session.                       *)
LEMMA SessionInv ==
  ASSUME PumpInv, Lose \/ Close
  PROVE  PumpInv'
<1>0. Typed
  BY InvTyped
<1>1. TypeOK'
  <2>1. CASE Lose
    BY <1>0, <2>1 DEF PumpInv, TypeOK, Lose, writerVars, readerVars, Typed
  <2>2. CASE Close
    BY <2>2 DEF PumpInv, TypeOK, Close, writerVars, readerVars
  <2> QED  BY <2>1, <2>2
<1>2. Ledger'
  BY <1>0 DEF PumpInv, TypeOK, Ledger, Lose, Close, writerVars, readerVars, ChunkEnd,
     Smaller, Typed
<1>3. Stamps'
  BY <1>0 DEF PumpInv, TypeOK, Stamps, Lose, Close, writerVars, readerVars, OfferInFlight,
     Typed
<1>4. Cadence'
  BY <1>0 DEF PumpInv, TypeOK, Cadence, Ledger, Stamps, Lose, Close, writerVars, readerVars,
     Asked, Budget, Patience, Larger, OfferInFlight, ReaderLive, PumpOutcome, Waiting,
     Typed
<1>5. Gaps'
  BY <1>0 DEF PumpInv, TypeOK, Gaps, Lose, Close, writerVars, readerVars, Patience, Larger,
     Slack, Typed
<1>6. OutcomeEvidence'
  BY <1>0 DEF PumpInv, TypeOK, OutcomeEvidence, Ledger, Lose, Close, writerVars, readerVars,
     Patience, Larger, OfferInFlight, Waiting, Typed
<1> QED  BY <1>1, <1>2, <1>3, <1>4, <1>5, <1>6 DEF PumpInv

(* Time passes only while no future is overdue. *)
LEMMA TickInv ==
  ASSUME PumpInv, Tick
  PROVE  PumpInv'
<1>0. Typed
  BY InvTyped
<1>1. TypeOK'
  BY <1>0 DEF PumpInv, TypeOK, Tick, writerVars, netVars, readerVars, WriterLive,
     ReaderLive, ReaderEnd, PumpOutcome, Waiting, Typed
<1>2. Ledger'
  BY <1>0 DEF PumpInv, TypeOK, Ledger, Tick, writerVars, netVars, readerVars,
     WriterLive, ChunkEnd, Smaller, Typed
<1>3. Stamps'
  BY <1>0 DEF PumpInv, TypeOK, Stamps, Tick, writerVars, netVars, readerVars,
     WriterLive, OfferInFlight, Typed
<1>4. Cadence'
  BY <1>0 DEF PumpInv, TypeOK, Cadence, Ledger, Stamps, Tick, writerVars, netVars,
     readerVars, WriterLive, Asked, Budget, Patience, Larger, OfferInFlight,
     ReaderLive, PumpOutcome, Waiting, Typed
<1>5. Gaps'
  BY <1>0 DEF PumpInv, TypeOK, Gaps, Tick, writerVars, netVars, readerVars,
     WriterLive, Patience, Larger, Slack, Typed
<1>6. OutcomeEvidence'
  BY <1>0 DEF PumpInv, TypeOK, OutcomeEvidence, Ledger, Tick, writerVars, netVars,
     readerVars, WriterLive, Patience, Larger, OfferInFlight, Waiting, Typed
<1> QED  BY <1>1, <1>2, <1>3, <1>4, <1>5, <1>6 DEF PumpInv

(* Concluding: the reader leaves with a verdict its evidence supports.     *)
LEMMA StopInv ==
  ASSUME PumpInv, rpc = "check", NEW why, StopReading(why),
         UNCHANGED <<opts, now, writerVars, netVars, returned, wall>>,
         \/ why = "Complete" /\ Done
         \/ why = Verdict /\ Verdict # Waiting /\ ~Done
  PROVE  PumpInv'
<1>0. Typed /\ Live = mine
  BY InvTyped, VerdictMeaning
<1>1. now - lastAt <= Patience + Slack /\ ~returned
  BY InvSilence DEF PumpInv, Cadence, ReaderLive
<1>2. why \in {"Complete", "DeadlineExceeded", "TailGraceExpired", "NeverStarted", "Idle"}
  BY VerdictMeaning
<1>3. TypeOK'
  <2>1. rpc' \in ReaderLive \cup ReaderEnd
    BY DEF StopReading, ReaderEnd
  <2>2. outcome' \in PumpOutcome \cup {Waiting, "ReadError"}
    BY <1>2 DEF StopReading, PumpOutcome
  <2> QED  BY <2>1, <2>2 DEF PumpInv, TypeOK, StopReading, writerVars, netVars
<1>4. Ledger'
  BY DEF PumpInv, TypeOK, Ledger, ChunkEnd, StopReading, writerVars, netVars
<1>5. Stamps'
  BY <1>0 DEF PumpInv, TypeOK, Stamps, StopReading, writerVars, netVars, OfferInFlight
<1>6. Cadence'
  BY <1>2 DEF Cadence, StopReading, ReaderLive, PumpOutcome
<1>7. Gaps'
  BY <1>0, <1>1 DEF PumpInv, TypeOK, Gaps, Patience, Slack, StopReading
<1>8. OutcomeEvidence'
  <2>1. CASE why = "Complete" /\ Done
    BY <1>0, <2>1 DEF PumpInv, TypeOK, Ledger, Done, Typed, StopReading, OutcomeEvidence,
       writerVars, netVars
  <2>2. CASE why = Verdict /\ Verdict # Waiting /\ ~Done
    <3>1. mine < opts.total
      BY <1>0, <2>2 DEF PumpInv, TypeOK, Done, Typed
    <3>2. /\ why = "DeadlineExceeded" => now >= opts.timeout
          /\ why = "TailGraceExpired" =>
               /\ mine # 0 /\ offerDone # OfferInFlight
               /\ \E g \in opts.grace : now - offerDone >= g
          /\ why = "NeverStarted" =>
               /\ mine = 0
               /\ \/ now >= Patience
                  \/ offerDone # OfferInFlight /\ \E g \in opts.grace : now - offerDone >= g
          /\ why = "Idle" => mine # 0 /\ now - lastMineAt >= opts.idle
      BY <2>2, VerdictMeaning
    <3>3. /\ outcome' = why /\ stoppedAt' = now /\ mine' = mine /\ lastMineAt' = lastMineAt
          /\ opts' = opts /\ offerDone' = offerDone /\ accepted' = accepted
          /\ Patience' = Patience
      BY DEF StopReading, writerVars, Patience
    <3>4. why = "TailGraceExpired" => accepted = opts.total
      BY <3>2 DEF PumpInv, Ledger
    <3>5. why # "Complete" /\ why # "SessionClosed"
      BY <2>2, VerdictMeaning, <1>2
    <3> QED  BY <1>0, <3>1, <3>2, <3>3, <3>4, <3>5 DEF OutcomeEvidence, PumpInv,
       TypeOK
  <2> QED  BY <2>1, <2>2
<1> QED  BY <1>3, <1>4, <1>5, <1>6, <1>7, <1>8 DEF PumpInv

(* Being told to go on is what the cadence records.                        *)
LEMMA GoOnInv ==
  ASSUME PumpInv, rpc = "check", ~Done, Verdict = Waiting,
         rpc' = "reading", due' = now + Poll,
         UNCHANGED <<mine, foreign, lastAt, lastMineAt, worstGap, outcome, stoppedAt>>,
         UNCHANGED <<opts, now, writerVars, netVars, returned, wall>>
  PROVE  PumpInv'
<1>0. Typed /\ Live = mine
  BY InvTyped, VerdictMeaning
<1>1. TypeOK'
  BY <1>0 DEF PumpInv, TypeOK, ReaderLive, ReaderEnd, writerVars, netVars, Typed
<1>2. Ledger'
  BY DEF PumpInv, TypeOK, Ledger, ChunkEnd, writerVars, netVars
<1>3. Stamps'
  BY DEF PumpInv, TypeOK, Stamps, writerVars, netVars
<1>4. Cadence'
  <2>1. /\ now < opts.timeout /\ now < lastMineAt + Budget
        /\ offerDone # OfferInFlight => \A g \in opts.grace : now < offerDone + g
    BY VerdictMeaning
  <2>2. Budget' = Budget /\ Asked' = now /\ mine < opts.total
    BY <1>0 DEF Budget, Patience, Asked, Typed, PumpInv, TypeOK, Done
  <2> QED
    BY <1>0, <2>1, <2>2 DEF PumpInv, TypeOK, Cadence, ReaderLive, writerVars, Typed,
       OfferInFlight
<1>5. Gaps'
  BY DEF PumpInv, Gaps, Patience, Slack
<1>6. OutcomeEvidence'
  BY DEF PumpInv, Cadence, ReaderLive, OutcomeEvidence, Waiting
<1> QED  BY <1>1, <1>2, <1>3, <1>4, <1>5, <1>6 DEF PumpInv

(* A turn of the reader's loop concludes or goes on, and either keeps the  *)
(* invariant.                                                              *)
LEMMA CheckInv ==
  ASSUME PumpInv, Check
  PROVE  PumpInv'
  BY StopInv, GoOnInv DEF Check

(* Returning fixes the wall clock at the reader's stop.                    *)
LEMMA JoinInv ==
  ASSUME PumpInv, Join
  PROVE  PumpInv'
<1>1. TypeOK'
  BY DEF PumpInv, TypeOK, Join, writerVars, netVars, readerVars
<1>2. Ledger' /\ Stamps' /\ OutcomeEvidence'
  BY DEF PumpInv, Ledger, ChunkEnd, Stamps, OutcomeEvidence, Patience, Join, writerVars,
     netVars, readerVars
<1>3. Cadence'
  BY DEF PumpInv, Cadence, Join, ReaderLive, ReaderEnd, readerVars
<1>4. Gaps'
  BY DEF PumpInv, Gaps, Patience, Slack, Join, readerVars
<1> QED  BY <1>1, <1>2, <1>3, <1>4 DEF PumpInv

(* What the shape does behind a whole chunk leaves the writer at a place   *)
(* its loop can be in.                                                     *)
LEMMA AfterChunkMoves ==
  ASSUME Typed, offset \in Nat, sincePause \in Nat, wake \in Nat, now \in Nat,
         AfterChunk(ChunkEnd - offset), offset <= ChunkEnd, opts \in Opts
  PROVE  /\ wpc' \in {"writing", "flushing", "sleeping", "finalFlush"}
         /\ wpc' = "writing" => ChunkEnd < opts.total
         /\ wpc' = "finalFlush" => ChunkEnd = opts.total
         /\ sincePause' \in Nat /\ wake' \in Nat
<1>1. ASSUME NEW d \in Nat, Rest(d, ChunkEnd)
      PROVE  /\ wpc' \in {"writing", "sleeping", "finalFlush"} /\ wake' \in Nat
             /\ wpc' = "writing" => ChunkEnd < opts.total
             /\ wpc' = "finalFlush" => ChunkEnd = opts.total
  BY <1>1 DEF Rest, LoopHead, Typed
<1>2. opts.pace \in Nat
  BY DEF Typed
<1> QED  BY <1>1, <1>2 DEF AfterChunk, Typed

(* Handing units to the session advances the offer, never past the chunk.  *)
LEMMA WriteInv ==
  ASSUME PumpInv, NEW n \in 1 .. opts.chunk, Write(n)
  PROVE  PumpInv'
<1>0. Typed /\ n \in Nat /\ opts \in Opts /\ ChunkEnd' = Smaller(offset' + opts.chunk, opts.total)
  BY InvTyped DEF PumpInv, TypeOK, Typed, Write, ChunkEnd
<1>1. /\ accepted' = accepted + n /\ accepted' <= ChunkEnd /\ transit' = transit + n
      /\ \/ accepted' < ChunkEnd /\ UNCHANGED <<wpc, offset, sincePause, wake>>
         \/ accepted' = ChunkEnd /\ offset' = ChunkEnd /\ AfterChunk(ChunkEnd - offset)
  BY DEF Write
<1>2. /\ wpc' \in {"writing", "flushing", "sleeping", "finalFlush"}
      /\ wpc' = "writing" => offset' < opts.total
      /\ wpc' = "finalFlush" => offset' = opts.total
      /\ wpc' # "writing" => accepted' = offset'
      /\ sincePause' \in Nat /\ wake' \in Nat
      /\ offset' \in Nat /\ offset' <= accepted' /\ offset' <= opts.total
  BY <1>0, <1>1, AfterChunkMoves DEF PumpInv, TypeOK, Ledger, Write, Typed
<1>3. offerDone = OfferInFlight /\ offerDone' = OfferInFlight
  BY DEF PumpInv, Ledger, Write
<1>4. TypeOK'
  <2>1. wpc' \in WriterLive \cup WriterEnd
    BY <1>2 DEF WriterLive
  <2> QED
    BY <1>0, <1>1, <1>2, <1>3, <2>1 DEF PumpInv, TypeOK, Ledger, Write, readerVars,
       Typed
<1>5. Ledger'
  <2>1. accepted' <= ChunkEnd'
    BY <1>0, <1>1, <1>2 DEF PumpInv, TypeOK, ChunkEnd, Smaller, Typed
  <2> QED
    BY <1>0, <1>1, <1>2, <1>3, <2>1 DEF PumpInv, TypeOK, Ledger, Write, readerVars,
       Typed
<1>6. Stamps' /\ Gaps' /\ Cadence'
  BY DEF PumpInv, Stamps, Gaps, Cadence, Asked, Budget, Patience, Slack, Write,
     readerVars
<1>7. OutcomeEvidence'
  <2>1. accepted # opts.total
    BY <1>0, <1>1 DEF PumpInv, TypeOK, Typed
  <2>2. accepted' - transit' = accepted - transit
    BY <1>0, <1>1 DEF PumpInv, TypeOK
  <2> QED
    BY <1>0, <1>3, <2>1, <2>2 DEF PumpInv, OutcomeEvidence, Patience, Write, readerVars
<1> QED  BY <1>4, <1>5, <1>6, <1>7 DEF PumpInv

(* Every step keeps the invariant.                                         *)
LEMMA NextInv == ASSUME PumpInv, [Next]_vars PROVE PumpInv'
<1>1. CASE UNCHANGED vars
  BY <1>1 DEF PumpInv, TypeOK, Ledger, Stamps, Cadence, Gaps, OutcomeEvidence, ChunkEnd,
     Asked, Budget, Patience, vars, writerVars, netVars, readerVars
<1>2. CASE Finished
  BY <1>1, <1>2 DEF Finished
<1>3. CASE \E n \in 1 .. opts.chunk : Write(n)
  BY <1>3, WriteInv
<1>4. CASE FlushAndPause \/ Wake \/ WriterFails \/ WriterCut
  BY <1>4, WriterMovesInv
<1>5. CASE FinalFlush
  BY <1>5, FinalFlushInv
<1>6. CASE Check
  BY <1>6, CheckInv
<1>7. CASE \E own \in 0 .. transit, other \in 0 .. backlog :
             \E a, b \in 0 .. own + other : Read(own, other, a, b)
  BY <1>7, ReadInv
<1>8. CASE PollExpires
  BY <1>8, PollExpiresInv
<1>9. CASE ReadEof
  BY <1>9, ReadEofInv
<1>10. CASE ReadFails
  BY <1>10, ReadFailsInv
<1>11. CASE Join
  BY <1>11, JoinInv
<1>12. CASE Lose \/ Close
  BY <1>12, SessionInv
<1>13. CASE Tick
  BY <1>13, TickInv
<1> QED
  BY <1>1, <1>2, <1>3, <1>4, <1>5, <1>6, <1>7, <1>8, <1>9, <1>10, <1>11, <1>12, <1>13
     DEF Next

(* The inductive invariant holds of every behaviour.                       *)
THEOREM Invariant == Spec => []PumpInv
  BY InitInv, NextInv, PTL DEF Spec

-----------------------------------------------------------------------------
(* What the invariant gives *)

(* Every variable stays within its type.                                   *)
THEOREM TypeCorrect == Spec => []TypeOK
<1>1. PumpInv => TypeOK
  BY DEF PumpInv
<1> QED  BY <1>1, Invariant, PTL

(* Whatever the schedule and however records were torn, a verdict is       *)
(* backed by what the reader counted, and Complete by as many units read:  *)
(* by the whole payload where no earlier phase left anything.              *)
THEOREM OutcomesAreBacked == Spec => []OutcomeEvidence
<1>1. PumpInv => OutcomeEvidence
  BY DEF PumpInv
<1> QED  BY <1>1, Invariant, PTL

(* No backlog of an earlier phase keeps a reader past its own budget.      *)
THEOREM BacklogNeverHolds == Spec => []BacklogCannotHold
<1>1. PumpInv => BacklogCannotHold
  BY InvTimely
<1> QED  BY <1>1, Invariant, PTL

(* No trickle keeps a reader past the tail grace.                          *)
THEOREM TailAlwaysCapped == Spec => []TailIsCapped
<1>1. PumpInv => TailIsCapped
  BY InvTimely
<1> QED  BY <1>1, Invariant, PTL

(* The reported stall is never the writer's.                               *)
THEOREM StallIsNeverTheWriters == Spec => []StallIsTheStreams
<1>1. ASSUME PumpInv, returned, rpc = "stopped"
      PROVE  LongestStall <= Patience + Slack
  <2>1. Typed /\ wall = stoppedAt
    BY <1>1, InvTyped DEF PumpInv, Gaps
  <2>2. worstGap <= Patience + Slack /\ wall - lastAt <= Patience + Slack
    BY <1>1, <2>1 DEF PumpInv, Gaps
  <2>3. /\ wall \in Nat /\ lastAt \in Nat /\ worstGap \in Nat
        /\ offerDone \in Nat \cup {OfferInFlight} /\ Patience + Slack \in Nat
    BY <1>1, <2>1 DEF PumpInv, TypeOK, Typed
  <2> DEFINE offerEnd == IF offerDone = OfferInFlight THEN wall ELSE offerDone
  <2>4. Smaller(offerEnd, wall) <= wall /\ Smaller(offerEnd, wall) \in Nat
    BY <2>3 DEF Smaller
  <2>5. LongestStall \in {worstGap, Larger(worstGap, Smaller(offerEnd, wall) - lastAt),
                          Larger(worstGap, wall - lastAt)}
    BY DEF LongestStall
  <2>6. \A x \in Int : x <= wall => Larger(worstGap, x - lastAt) <= Patience + Slack
    BY <2>2, <2>3 DEF Larger
  <2> QED  BY <2>2, <2>3, <2>4, <2>5, <2>6
<1>2. PumpInv => StallIsTheStreams
  BY <1>1 DEF StallIsTheStreams
<1> QED  BY <1>2, Invariant, PTL

-----------------------------------------------------------------------------
(* Pump implements PumpContract *)

(* The first state is the contract's.                                      *)
LEMMA ContractInit == ASSUME Init PROVE Contract!Init
  BY OptsType DEF Init, Contract!Init, Waiting

(* Every step of the pump is a step of the contract or invisible to it.    *)
LEMMA ContractStep ==
  ASSUME PumpInv, PumpInv', [Next]_vars
  PROVE  [Contract!Next]_Contract!contractVars
<1>0. Typed /\ mine \in Nat /\ accepted \in Nat /\ accepted <= opts.total
  BY InvTyped DEF PumpInv, TypeOK, Typed
<1>1. CASE UNCHANGED <<opts, accepted, mine, outcome>>
  BY <1>1 DEF Contract!contractVars
<1>2. CASE \E n \in 1 .. opts.chunk : Write(n)
  <2>1. accepted' \in accepted .. opts.total /\ UNCHANGED <<opts, mine, outcome>>
    BY <1>0, <1>2 DEF PumpInv, TypeOK, Write, readerVars, Typed
  <2> QED  BY <2>1 DEF Contract!Next, Contract!Offer
<1>3. CASE \E own \in 0 .. transit, other \in 0 .. backlog :
             \E a, b \in 0 .. own + other : Read(own, other, a, b)
  <2>1. /\ mine' \in mine .. accepted + opts.backlog /\ UNCHANGED <<opts, accepted, outcome>>
        /\ outcome = Waiting
    BY <1>0, <1>3 DEF PumpInv, TypeOK, Ledger, Cadence, ReaderLive, Read, writerVars,
       Typed
  <2> QED  BY <2>1 DEF Contract!Next, Contract!Return, Waiting
<1>4. CASE Check \/ ReadEof \/ ReadFails
  <2>1. UNCHANGED <<opts, accepted, mine>> /\ outcome = Waiting
    BY <1>4 DEF Check, ReadEof, ReadFails, StopReading, writerVars, PumpInv, Cadence,
       ReaderLive
  <2>2. CASE outcome' = Waiting
    BY <2>1, <2>2 DEF Contract!contractVars
  <2>3. CASE outcome' # Waiting
    <3>1. outcome' \in Contract!Verdicts
      BY <2>3 DEF PumpInv, TypeOK, PumpOutcome, Waiting, Contract!Verdicts
    <3>2. Contract!Supported(outcome', mine, opts.total)
      <4>1. /\ outcome' = "NeverStarted" => mine = 0
            /\ outcome' \in {"Idle", "TailGraceExpired"} => mine > 0
        BY <2>1 DEF PumpInv, OutcomeEvidence
      <4>2. outcome' = "Complete" => mine >= opts.total
        BY <2>1 DEF PumpInv, OutcomeEvidence
      <4>3. CASE Check
        BY <1>0, <4>1, <4>2, <4>3, <2>1, <2>3, VerdictMeaning
           DEF Check, StopReading, Done, Contract!Supported, Typed
      <4>4. CASE ReadEof \/ ReadFails
        BY <1>0, <4>1, <4>2, <4>4 DEF ReadEof, ReadFails, StopReading, PumpInv, Cadence,
           Contract!Supported, Typed
      <4> QED  BY <1>4, <4>3, <4>4
    <3> QED
      BY <2>1, <3>1, <3>2 DEF Contract!Next, Contract!Conclude, Waiting
  <2> QED  BY <2>2, <2>3
<1>5. CASE \/ FlushAndPause \/ Wake \/ FinalFlush \/ WriterFails \/ WriterCut \/ PollExpires
           \/ Join \/ Lose \/ Close \/ Tick \/ Finished \/ UNCHANGED vars
  <2>1. UNCHANGED <<opts, accepted, mine, outcome>>
    BY <1>5 DEF FlushAndPause, Wake, FinalFlush, WriterFails, WriterCut, PollExpires, Join,
       Lose, Close, Tick, Finished, vars, writerVars, readerVars
  <2> QED  BY <1>1, <2>1
<1> QED  BY <1>2, <1>3, <1>4, <1>5 DEF Next

(* The pump, with its clock, schedules and session, implements the contract. *)
THEOREM Implementation == Spec => ImplementsContract
<1>1. Init => Contract!Init
  BY ContractInit
<1>2. PumpInv /\ PumpInv' /\ [Next]_vars => [Contract!Next]_Contract!contractVars
  BY ContractStep
<1> QED
  BY <1>1, <1>2, Invariant, PTL DEF Spec, ImplementsContract, Contract!Spec

-----------------------------------------------------------------------------
(* Attribution: scan_records, by which the pump's read loop counts records *)
(* of its own phase and of others.                                         *)

(* A set of natural numbers has a least one. *)
LEMMA NatLeast ==
  ASSUME NEW S, S \subseteq Nat, S # {}
  PROVE  \E m \in S : \A k \in S : m <= k
<1> DEFINE Below == {0 .. n : n \in S}
<1>1. Below \subseteq FiniteSubsetsOf(Nat)
  <2>1. ASSUME NEW n \in S PROVE 0 .. n \in SUBSET Nat /\ IsFiniteSet(0 .. n)
    <3>1. n \in Int /\ 0 \in Int
      OBVIOUS
    <3> QED
      BY <3>1, FS_Interval
  <2> QED
    BY <2>1 DEF FiniteSubsetsOf
<1>2. IsWellFoundedOn(StrictSubsetOrdering(Nat), FiniteSubsetsOf(Nat))
  BY FS_StrictSubsetOrderingWellFounded
<1>3. \E x \in Below : \A y \in Below : <<y, x>> \notin StrictSubsetOrdering(Nat)
  <2>1. Below # {}
    OBVIOUS
  <2> HIDE DEF Below
  <2> QED
    BY <1>1, <1>2, <2>1, WFMin
<1>4. PICK m \in S : \A k \in S : <<0 .. k, 0 .. m>> \notin StrictSubsetOrdering(Nat)
  BY <1>3
<1>5. ASSUME NEW k \in S, ~(m <= k) PROVE FALSE
  <2>1. k \in Nat /\ m \in Nat /\ k < m
    BY <1>5
  <2>2. 0 .. k \in SUBSET Nat /\ 0 .. m \in SUBSET Nat /\ 0 .. k \subseteq 0 .. m /\ 0 .. k # 0 .. m
    BY <2>1
  <2> QED
    BY <1>4, <2>2 DEF StrictSubsetOrdering
<1> QED
  BY <1>5

(* A set of positions that has each one behind which it has all has them   *)
(* all: induction from the end of a received to its start.                   *)
LEMMA Downward ==
  ASSUME NEW n \in Nat, NEW S,
         \A at \in 0 .. n : (\A to \in at + 1 .. n : to \in S) => at \in S
  PROVE  \A at \in 0 .. n : at \in S
<1> DEFINE M == {k \in 0 .. n : n - k \notin S}
<1>1. SUFFICES ASSUME M # {} PROVE FALSE
  <2> SUFFICES ASSUME NEW at \in 0 .. n, at \notin S PROVE M # {}
    BY <1>1
  <2>1. n - at \in 0 .. n /\ n - (n - at) = at
    OBVIOUS
  <2> QED
    BY <2>1
<1>2. PICK k \in M : \A j \in M : k <= j
  <2>1. M \subseteq Nat
    OBVIOUS
  <2> HIDE DEF M
  <2> QED
    BY <1>1, <2>1, NatLeast
<1>3. ASSUME NEW to \in (n - k) + 1 .. n PROVE to \in S
  <2>1. n - to \in 0 .. n /\ n - (n - to) = to /\ ~(k <= n - to)
    OBVIOUS
  <2> QED
    BY <1>2, <2>1
<1>4. n - k \in 0 .. n /\ n - k \notin S
  OBVIOUS
<1> QED
  BY <1>3, <1>4

(* What the scan returns where no record fits any more, ... *)
Stop(at) == [at |-> at, mine |-> 0, foreign |-> 0, taken |-> <<>>]

(* ... and what a position adds to what is found behind it. *)
Ahead(b, at, rest) ==
  LET head   == b[at + 1].val = Magic
      tagged == head /\ TagByte(b[at + 2]) = Own
  IN  [at |-> rest.at,
       mine |-> rest.mine + (IF tagged THEN 1 ELSE 0),
       foreign |-> rest.foreign + (IF head /\ ~tagged THEN 1 ELSE 0),
       taken |-> IF tagged
                 THEN SubSeq(b, at + 1, Min({at + RecordSize, Len(b)})) \o rest.taken
                 ELSE rest.taken]

(* The function scan_records follows from `from` on. *)
IsScan(b, from, f) ==
  f = [at \in from .. Len(b) + RecordSize |->
         IF ~Fits(b, at) THEN Stop(at) ELSE Ahead(b, at, f[at + Stride(b, at)])]

(* scan_records returns what that function has for its start. *)
LEMMA ScanChosen ==
  ASSUME NEW b, NEW from
  PROVE  ScanRecords(b, from) = (CHOOSE f : IsScan(b, from, f))[from]
  BY DEF ScanRecords, IsScan, Ahead, Stop

(* It moves on by a record or by a word. *)
LEMMA Strides ==
  ASSUME NEW b, NEW at
  PROVE  Stride(b, at) \in {1, 4}
  BY DEF Stride, RecordSize

(* Behind the end of the received nothing fits, and a record that fits ends  *)
(* within it.                                                              *)
LEMMA FitsIs ==
  ASSUME NEW b, Len(b) \in Nat, NEW at \in Nat, Fits(b, at)
  PROVE  /\ at + 4 <= Len(b) /\ at + Stride(b, at) \in at + 1 .. Len(b)
         /\ Min({at + RecordSize, Len(b)}) = at + 4
<1>1. at + 4 <= Len(b)
  BY DEF Fits, RecordSize
<1>2. at + Stride(b, at) \in at + 1 .. Len(b)
  BY <1>1, Strides
<1>3. Min({at + RecordSize, Len(b)}) = at + 4
  <2> DEFINE S == {at + 4, Len(b)}
  <2>1. \A x \in S : (\A y \in S : x <= y) <=> x = at + 4
    BY <1>1
  <2>2. at + 4 \in S
    OBVIOUS
  <2>3. (CHOOSE x \in S : \A y \in S : x <= y) = at + 4
    <3> HIDE DEF S
    <3> QED
      BY <2>1, <2>2
  <2> QED
    BY <2>3 DEF Min, RecordSize
<1> QED
  BY <1>1, <1>2, <1>3

(* Whichever two functions follow the scan agree where both are defined. *)
LEMMA ScanUnique ==
  ASSUME NEW b, Len(b) \in Nat, NEW m \in Nat, NEW n \in Nat, NEW f, NEW g,
         IsScan(b, m, f), IsScan(b, n, g)
  PROVE  \A at \in Nat : at >= m /\ at >= n /\ at <= Len(b) + 4 => f[at] = g[at]
<1>1. PICK N \in Nat : N = Len(b) + 4 /\ N = Len(b) + RecordSize
  BY DEF RecordSize
<1> DEFINE S == {at \in Nat : at >= m /\ at >= n => f[at] = g[at]}
<1>2. ASSUME NEW at \in 0 .. N, \A to \in at + 1 .. N : to \in S PROVE at \in S
  <2> SUFFICES ASSUME at >= m, at >= n PROVE f[at] = g[at]
    BY DEF S
  <2>1. at \in Nat /\ at \in m .. N /\ at \in n .. N
    OBVIOUS
  <2>2. /\ f[at] = IF ~Fits(b, at) THEN Stop(at) ELSE Ahead(b, at, f[at + Stride(b, at)])
        /\ g[at] = IF ~Fits(b, at) THEN Stop(at) ELSE Ahead(b, at, g[at + Stride(b, at)])
    BY <1>1, <2>1 DEF IsScan
  <2>3. ASSUME Fits(b, at) PROVE f[at + Stride(b, at)] = g[at + Stride(b, at)]
    <3>1. at + Stride(b, at) \in at + 1 .. Len(b)
      BY <2>1, <2>3, FitsIs
    <3>2. PICK to \in at + 1 .. N : to = at + Stride(b, at) /\ to >= m /\ to >= n
      BY <1>1, <2>1, <3>1
    <3> QED
      BY <1>2, <3>2
  <2> QED
    BY <2>2, <2>3
<1>3. \A at \in 0 .. N : at \in S
  <2> HIDE DEF S
  <2> QED
    BY <1>2, Downward
<1> QED
  BY <1>1, <1>3

(* There is one from every position on. *)
LEMMA ScanExists ==
  ASSUME NEW b, Len(b) \in Nat, NEW from \in 0 .. Len(b)
  PROVE  \E f : IsScan(b, from, f)
<1>1. PICK N \in Nat : N = Len(b) + 4 /\ N = Len(b) + RecordSize
  BY DEF RecordSize
<1> DEFINE S == {m \in Nat : \E f : IsScan(b, m, f)}
<1>2. ASSUME NEW m \in 0 .. N, \A to \in m + 1 .. N : to \in S PROVE m \in S
  <2>1. PICK g : m < N => IsScan(b, m + 1, g)
    <3>1. CASE m < N
      <4>1. m + 1 \in m + 1 .. N
        BY <1>1, <3>1
      <4> QED
        BY <1>2, <4>1
    <3> QED
      BY <3>1
  <2> DEFINE f == [at \in m .. N |->
                     IF ~Fits(b, at) THEN Stop(at) ELSE Ahead(b, at, g[at + Stride(b, at)])]
  <2>2. ASSUME NEW at \in m + 1 .. N PROVE f[at] = g[at]
    <3>1. at \in m .. N /\ m < N
      OBVIOUS
    <3>2. f[at] = IF ~Fits(b, at) THEN Stop(at) ELSE Ahead(b, at, g[at + Stride(b, at)])
      BY <3>1
    <3>3. g[at] = IF ~Fits(b, at) THEN Stop(at) ELSE Ahead(b, at, g[at + Stride(b, at)])
      BY <1>1, <2>1, <3>1 DEF IsScan
    <3> QED
      BY <3>2, <3>3
  <2>3. ASSUME NEW at \in m .. N, Fits(b, at)
        PROVE  g[at + Stride(b, at)] = f[at + Stride(b, at)]
    <3>1. at \in Nat
      OBVIOUS
    <3>2. at + Stride(b, at) \in at + 1 .. Len(b)
      BY <2>3, <3>1, FitsIs
    <3>3. at + Stride(b, at) \in m + 1 .. N
      BY <1>1, <3>1, <3>2
    <3> QED
      BY <2>2, <3>3
  <2>4. f = [at \in m .. N |->
               IF ~Fits(b, at) THEN Stop(at) ELSE Ahead(b, at, f[at + Stride(b, at)])]
    <3>1. ASSUME NEW at \in m .. N
          PROVE  (IF ~Fits(b, at) THEN Stop(at) ELSE Ahead(b, at, g[at + Stride(b, at)]))
               = (IF ~Fits(b, at) THEN Stop(at) ELSE Ahead(b, at, f[at + Stride(b, at)]))
      BY <2>3
    <3> QED
      BY <3>1
  <2>5. IsScan(b, m, f)
    BY <1>1, <2>4 DEF IsScan
  <2>6. \E h : IsScan(b, m, h)
    <3> HIDE DEF f
    <3> QED
      BY <2>5
  <2> QED
    BY <2>6
<1>3. \A m \in 0 .. N : m \in S
  <2> HIDE DEF S
  <2> QED
    BY <1>2, Downward
<1>4. from \in 0 .. N
  BY <1>1
<1> QED
  BY <1>3, <1>4

(* So the scan takes one step and goes on from there. *)
LEMMA ScanIs ==
  ASSUME NEW b, Len(b) \in Nat, NEW at \in 0 .. Len(b)
  PROVE  /\ ~Fits(b, at) => ScanRecords(b, at) = Stop(at)
         /\ Fits(b, at) =>
              ScanRecords(b, at) = Ahead(b, at, ScanRecords(b, at + Stride(b, at)))
<1>1. PICK f : IsScan(b, at, f) /\ ScanRecords(b, at) = f[at]
  <2>1. IsScan(b, at, CHOOSE f : IsScan(b, at, f))
    BY ScanExists
  <2> QED
    BY <2>1, ScanChosen
<1>2. at \in at .. Len(b) + RecordSize /\ at \in Nat
  BY DEF RecordSize
<1>3. f[at] = IF ~Fits(b, at) THEN Stop(at) ELSE Ahead(b, at, f[at + Stride(b, at)])
  BY <1>1, <1>2 DEF IsScan
<1>4. ASSUME Fits(b, at)
      PROVE  f[at + Stride(b, at)] = ScanRecords(b, at + Stride(b, at))
  <2>0. at + Stride(b, at) \in at + 1 .. Len(b)
    BY <1>2, <1>4, FitsIs
  <2>1. PICK to \in Nat : to = at + Stride(b, at) /\ to \in at + 1 .. Len(b)
    BY <1>2, <2>0
  <2>2. to \in 0 .. Len(b) /\ to >= at /\ to <= Len(b) + 4
    BY <1>2, <2>1
  <2>3. PICK g : IsScan(b, to, g) /\ ScanRecords(b, to) = g[to]
    <3>1. IsScan(b, to, CHOOSE g : IsScan(b, to, g))
      BY <2>2, ScanExists
    <3> QED
      BY <3>1, ScanChosen
  <2>4. f[to] = g[to]
    <3>1. \A x \in Nat : x >= at /\ x >= to /\ x <= Len(b) + 4 => f[x] = g[x]
      BY <1>1, <1>2, <2>1, <2>3, ScanUnique
    <3> QED
      BY <2>2, <3>1
  <2> QED
    BY <2>1, <2>3, <2>4
<1> QED
  BY <1>1, <1>3, <1>4

(* What a scan of a received of length n can return. *)
Found(W, n) == [at: 0 .. n, mine: Nat, foreign: Nat, taken: Seq(W)]

(* One found behind the other. *)
After(r, q) == [at |-> q.at, mine |-> r.mine + q.mine, foreign |-> r.foreign + q.foreign,
                taken |-> r.taken \o q.taken]

(* A step of the scan keeps the type, and leaves what is found later later. *)
LEMMA AheadIs ==
  ASSUME NEW W, NEW b \in Seq(W), NEW at \in Nat, Fits(b, at), NEW n \in Nat, NEW m \in Nat,
         NEW r \in Found(W, n), NEW q \in Found(W, m)
  PROVE  /\ Ahead(b, at, r) \in Found(W, n)
         /\ Ahead(b, at, After(r, q)) = After(Ahead(b, at, r), q)
         /\ Ahead(b, at, r).at = r.at
<1> DEFINE head == b[at + 1].val = Magic
           tagged == head /\ TagByte(b[at + 2]) = Own
           piece == SubSeq(b, at + 1, at + 4)
<1>0. Len(b) \in Nat
  OBVIOUS
<1>1. piece \in Seq(W)
  <2>1. at + 4 <= Len(b)
    BY <1>0, FitsIs
  <2>2. \A i \in at + 1 .. at + 4 : b[i] \in W
    BY <2>1
  <2>3. at + 1 \in Int /\ at + 4 \in Int
    OBVIOUS
  <2> QED
    BY <2>2, <2>3, SubSeqProperties
<1>2. \A x : Ahead(b, at, x) =
         [at |-> x.at, mine |-> x.mine + (IF tagged THEN 1 ELSE 0),
          foreign |-> x.foreign + (IF head /\ ~tagged THEN 1 ELSE 0),
          taken |-> IF tagged THEN piece \o x.taken ELSE x.taken]
  <2>1. Min({at + RecordSize, Len(b)}) = at + 4
    BY <1>0, FitsIs
  <2> QED
    BY <2>1 DEF Ahead
<1> HIDE DEF piece, head
<1>3. /\ r.at \in 0 .. n /\ r.mine \in Nat /\ r.foreign \in Nat /\ r.taken \in Seq(W)
      /\ q.at \in 0 .. m /\ q.mine \in Nat /\ q.foreign \in Nat /\ q.taken \in Seq(W)
  BY DEF Found
<1>4. piece \o r.taken \in Seq(W)
  BY <1>1, <1>3, ConcatProperties
<1>5. (piece \o r.taken) \o q.taken = piece \o (r.taken \o q.taken)
  <2>1. PICK x \in Seq(W), y \in Seq(W), z \in Seq(W) : x = piece /\ y = r.taken /\ z = q.taken
    BY <1>1, <1>3
  <2>2. (x \o y) \o z = x \o (y \o z)
    OBVIOUS
  <2> QED
    BY <2>1, <2>2
<1>6. PICK k \in {0, 1} : k = IF tagged THEN 1 ELSE 0
  OBVIOUS
<1>7. PICK l \in {0, 1} : l = IF head /\ ~tagged THEN 1 ELSE 0
  OBVIOUS
<1>8. \A x : Ahead(b, at, x) = [at |-> x.at, mine |-> x.mine + k, foreign |-> x.foreign + l,
                                taken |-> IF tagged THEN piece \o x.taken ELSE x.taken]
  BY <1>2, <1>6, <1>7, Zenon
<1> HIDE DEF tagged
<1>9. /\ r.mine + k \in Nat /\ r.foreign + l \in Nat
      /\ (r.mine + q.mine) + k = (r.mine + k) + q.mine
      /\ (r.foreign + q.foreign) + l = (r.foreign + l) + q.foreign
  <2>1. PICK u \in Nat, v \in Nat : u = r.mine /\ v = q.mine
    BY <1>3
  <2>2. PICK y \in Nat, z \in Nat : y = r.foreign /\ z = q.foreign
    BY <1>3
  <2>3. k \in Nat /\ l \in Nat
    BY <1>6, <1>7
  <2>4. u + k \in Nat /\ (u + v) + k = (u + k) + v
    BY <2>1, <2>3
  <2>5. y + l \in Nat /\ (y + z) + l = (y + l) + z
    BY <2>2, <2>3
  <2> QED
    BY <2>1, <2>2, <2>4, <2>5, Zenon
<1>10. After(r, q) = [at |-> q.at, mine |-> r.mine + q.mine, foreign |-> r.foreign + q.foreign,
                      taken |-> r.taken \o q.taken]
  BY DEF After
<1>11. Ahead(b, at, r) = [at |-> r.at, mine |-> r.mine + k, foreign |-> r.foreign + l,
                          taken |-> IF tagged THEN piece \o r.taken ELSE r.taken]
  BY <1>8
<1>12. Ahead(b, at, After(r, q)) =
         [at |-> q.at, mine |-> (r.mine + q.mine) + k, foreign |-> (r.foreign + q.foreign) + l,
          taken |-> IF tagged THEN piece \o (r.taken \o q.taken) ELSE r.taken \o q.taken]
  <2>1. PICK x : x = After(r, q)
    OBVIOUS
  <2>2. /\ x.at = q.at /\ x.mine = r.mine + q.mine /\ x.foreign = r.foreign + q.foreign
        /\ x.taken = r.taken \o q.taken
    <3>1. PICK u, v : u = r.mine + q.mine /\ v = r.foreign + q.foreign
      OBVIOUS
    <3>2. PICK y : y = r.taken \o q.taken
      OBVIOUS
    <3>3. x = [at |-> q.at, mine |-> u, foreign |-> v, taken |-> y]
      BY <1>10, <2>1, <3>1, <3>2, Zenon
    <3>4. x.at = q.at /\ x.mine = u /\ x.foreign = v /\ x.taken = y
      BY <3>3
    <3> QED
      BY <3>1, <3>2, <3>4, Zenon
  <2> QED
    BY <1>8, <2>1, <2>2, Zenon
<1>13. After(Ahead(b, at, r), q) =
         [at |-> q.at, mine |-> (r.mine + k) + q.mine, foreign |-> (r.foreign + l) + q.foreign,
          taken |-> (IF tagged THEN piece \o r.taken ELSE r.taken) \o q.taken]
  BY <1>11 DEF After
<1>14. Ahead(b, at, r) \in Found(W, n) /\ Ahead(b, at, r).at = r.at
  BY <1>3, <1>4, <1>9, <1>11 DEF Found
<1>15. (IF tagged THEN piece \o (r.taken \o q.taken) ELSE r.taken \o q.taken)
         = (IF tagged THEN piece \o r.taken ELSE r.taken) \o q.taken
  BY <1>5
<1> QED
  BY <1>9, <1>12, <1>13, <1>14, <1>15, Zenon

(* Whatever the received holds, a scan of it ends within it. *)
LEMMA ScanTyped ==
  ASSUME NEW W, NEW b \in Seq(W), NEW at \in 0 .. Len(b)
  PROVE  ScanRecords(b, at) \in Found(W, Len(b))
<1>1. PICK n \in Nat : n = Len(b)
  OBVIOUS
<1> DEFINE S == {i \in Nat : ScanRecords(b, i) \in Found(W, n)}
<1>2. ASSUME NEW i \in 0 .. n, \A to \in i + 1 .. n : to \in S PROVE i \in S
  <2>1. i \in Nat /\ i \in 0 .. Len(b)
    BY <1>1
  <2>2. CASE ~Fits(b, i)
    <3>1. Stop(i) \in Found(W, n)
      BY DEF Stop, Found
    <3>2. ScanRecords(b, i) = Stop(i)
      BY <1>1, <2>1, <2>2, ScanIs
    <3> QED
      BY <2>1, <3>1, <3>2
  <2>3. CASE Fits(b, i)
    <3>0. i + Stride(b, i) \in i + 1 .. n
      BY <1>1, <2>1, <2>3, FitsIs
    <3>1. PICK q \in Found(W, n) : q = ScanRecords(b, i + Stride(b, i))
      BY <1>2, <3>0
    <3>2. Ahead(b, i, q) \in Found(W, n)
      BY <2>1, <2>3, AheadIs
    <3>3. ScanRecords(b, i) = Ahead(b, i, q)
      BY <1>1, <2>1, <2>3, <3>1, ScanIs
    <3> QED
      BY <2>1, <3>2, <3>3
  <2> QED
    BY <2>2, <2>3
<1>3. \A i \in 0 .. n : i \in S
  <2> HIDE DEF S
  <2> QED
    BY <1>2, Downward
<1> QED
  BY <1>1, <1>3

(* A scan that goes on where the one of the shorter received stopped finds   *)
(* what one scan of the longer finds (scan_records' resume position).      *)
LEMMA ScanResumes ==
  ASSUME NEW W, NEW b \in Seq(W), NEW s \in Seq(W), NEW from \in 0 .. Len(b)
  PROVE  ScanRecords(b \o s, from) =
           After(ScanRecords(b, from), ScanRecords(b \o s, ScanRecords(b, from).at))
<1> DEFINE c == b \o s
<1>1. PICK n \in Nat, m \in Nat : n = Len(b) /\ m = Len(s)
  OBVIOUS
<1>2. c \in Seq(W) /\ Len(c) = n + m /\ \A i \in 1 .. n : c[i] = b[i]
  BY <1>1, ConcatProperties
<1> DEFINE Resumes(i) == ScanRecords(c, i) =
             After(ScanRecords(b, i), ScanRecords(c, ScanRecords(b, i).at))
           S == {i \in Nat : Resumes(i)}
<1>3. ASSUME NEW i \in 0 .. n, \A to \in i + 1 .. n : to \in S PROVE i \in S
  <2>1. i \in Nat /\ i \in 0 .. Len(b) /\ i \in 0 .. Len(c)
    BY <1>1, <1>2
  <2>2. CASE ~Fits(b, i)
    <3>1. ScanRecords(b, i) = Stop(i)
      BY <1>1, <2>1, <2>2, ScanIs
    <3>2. PICK q \in Found(W, n + m) : q = ScanRecords(c, i)
      BY <1>2, <2>1, ScanTyped
    <3>3. /\ q = [at |-> q.at, mine |-> q.mine, foreign |-> q.foreign, taken |-> q.taken]
          /\ q.mine \in Nat /\ q.foreign \in Nat /\ q.taken \in Seq(W)
      BY DEF Found
    <3>4. After(Stop(i), q) = q
      <4>1. <<>> \o q.taken = q.taken
        BY <3>3, ConcatEmptySeq
      <4>2. 0 + q.mine = q.mine /\ 0 + q.foreign = q.foreign
        BY <3>3
      <4>3. After(Stop(i), q) = [at |-> q.at, mine |-> 0 + q.mine, foreign |-> 0 + q.foreign,
                                 taken |-> <<>> \o q.taken]
        BY DEF After, Stop
      <4> QED
        BY <3>3, <4>1, <4>2, <4>3
    <3>5. Stop(i).at = i
      BY DEF Stop
    <3> QED
      BY <2>1, <3>1, <3>2, <3>4, <3>5
  <2>3. CASE Fits(b, i)
    <3>1. i + 4 <= n /\ Fits(c, i)
      BY <1>1, <1>2, <2>3 DEF Fits, RecordSize
    <3>2. c[i + 1] = b[i + 1] /\ c[i + 2] = b[i + 2]
      BY <1>2, <2>1, <3>1
    <3>3. PICK to \in i + 1 .. n : to = i + Stride(b, i)
      <4>1. i + Stride(b, i) \in i + 1 .. n
        BY <1>1, <2>1, <2>3, FitsIs
      <4> QED
        BY <4>1
    <3>4. to = i + Stride(c, i) /\ to \in 0 .. Len(b) /\ to \in 0 .. Len(c)
      BY <1>1, <1>2, <2>1, <3>2, <3>3 DEF Stride
    <3>5. Resumes(to)
      BY <1>3
    <3>6. PICK r \in Found(W, n) : r = ScanRecords(b, to)
      BY <1>1, <3>4, ScanTyped
    <3>7. r.at \in 0 .. Len(c)
      BY <1>2, <3>6 DEF Found
    <3>8. PICK q \in Found(W, n + m) : q = ScanRecords(c, r.at)
      BY <1>2, <3>7, ScanTyped
    <3>9. ScanRecords(c, i) = Ahead(c, i, After(r, q))
      <4>1. ScanRecords(c, i) = Ahead(c, i, ScanRecords(c, i + Stride(c, i)))
        <5>1. Len(c) \in Nat
          BY <1>2
        <5> HIDE DEF c
        <5> QED
          BY <2>1, <3>1, <5>1, ScanIs
      <4>2. ScanRecords(c, i + Stride(c, i)) = After(r, q)
        BY <3>4, <3>5, <3>6, <3>8
      <4> QED
        BY <4>1, <4>2
    <3>10. Ahead(c, i, After(r, q)) = Ahead(b, i, After(r, q))
      <4>1. SubSeq(c, i + 1, i + 4) = SubSeq(b, i + 1, i + 4)
        <5>1. i + 1 \in 1 .. Len(b) /\ i + 4 \in 1 .. Len(b)
          BY <1>1, <2>1, <3>1
        <5> QED
          BY <5>1, SubSeqOfConcat1
      <4>2. /\ Min({i + RecordSize, Len(b)}) = i + 4
            /\ Min({i + RecordSize, Len(c)}) = i + 4
        <5>1. Len(c) \in Nat /\ Len(b) \in Nat
          BY <1>2
        <5> HIDE DEF c
        <5> QED
          BY <2>1, <2>3, <3>1, <5>1, FitsIs
      <4> QED
        BY <3>2, <4>1, <4>2 DEF Ahead
    <3>11. Ahead(b, i, After(r, q)) = After(Ahead(b, i, r), q) /\ Ahead(b, i, r).at = r.at
      BY <2>1, <2>3, <3>6, <3>8, AheadIs
    <3>12. ScanRecords(b, i) = Ahead(b, i, r)
      BY <1>1, <2>1, <2>3, <3>3, <3>6, ScanIs
    <3>13. Resumes(i)
      BY <3>8, <3>9, <3>10, <3>11, <3>12
    <3> QED
      BY <2>1, <3>13
  <2> QED
    BY <2>2, <2>3
<1>4. \A i \in 0 .. n : i \in S
  <2> HIDE DEF S
  <2> QED
    BY <1>3, Downward
<1> QED
  BY <1>1, <1>4

-----------------------------------------------------------------------------
(* Attribution over a run *)

(* The words of the two payloads, and of others as long as one likes. *)
Words == {Word(p, k) : p \in {Own, Foreign}, k \in Nat \ {0}}

(* The frames of a payload are pieces of it. *)
LEMMA FramesOfTyped ==
  ASSUME ScanParameters, NEW payload \in Seq(Words)
  PROVE  FramesOf(payload) \in Seq(Seq(Words))
<1>1. PICK n \in Nat : n = Len(payload)
  OBVIOUS
<1>2. Frame \in Nat /\ Frame >= 1
  BY DEF ScanParameters, RecordSize
<1>3. PICK m \in Nat : m = (n + Frame - 1) \div Frame
  BY <1>2
<1>4. ASSUME NEW f \in 1 .. m
      PROVE  SubSeq(payload, (f - 1) * Frame + 1, Min({f * Frame, n})) \in Seq(Words)
  <2>1. PICK lo \in Nat, hi \in Nat : lo = (f - 1) * Frame /\ hi = f * Frame
    <3>1. f - 1 \in Nat /\ f \in Nat
      OBVIOUS
    <3>2. \A x \in Nat : x * Frame \in Nat
      BY <1>2
    <3> QED
      BY <3>1, <3>2
  <2>2. PICK top \in Nat : top = Min({hi, n}) /\ top <= n
    <3>1. \E x \in {hi, n} : \A y \in {hi, n} : x <= y
      BY <2>1
    <3> DEFINE top == CHOOSE x \in {hi, n} : \A y \in {hi, n} : x <= y
    <3>2. top \in {hi, n} /\ \A y \in {hi, n} : top <= y
      BY <3>1
    <3>3. Min({hi, n}) = top
      BY DEF Min
    <3> HIDE DEF top
    <3> QED
      BY <2>1, <3>2, <3>3
  <2>3. \A i \in lo + 1 .. top : payload[i] \in Words
    <3> SUFFICES ASSUME NEW i \in lo + 1 .. top PROVE payload[i] \in Words
      OBVIOUS
    <3>1. i \in 1 .. n
      BY <2>1, <2>2
    <3> QED
      BY <1>1, <3>1
  <2>4. lo + 1 \in Int /\ top \in Int
    BY <2>1, <2>2
  <2>5. SubSeq(payload, lo + 1, top) \in Seq(Words)
    BY <2>3, <2>4, SubSeqProperties
  <2> QED
    BY <2>1, <2>2, <2>5
<1>5. FramesOf(payload) =
        [f \in 1 .. m |-> SubSeq(payload, (f - 1) * Frame + 1, Min({f * Frame, n}))]
  BY <1>1, <1>3 DEF FramesOf
<1>6. FramesOf(payload) \in [1 .. m -> Seq(Words)]
  BY <1>4, <1>5
<1>7. \A F \in [1 .. m -> Seq(Words)] : F \in Seq(Seq(Words))
  BY <1>3
<1> QED
  BY <1>6, <1>7

(* What the session takes up is sequences of words. *)
LEMMA FramesTyped ==
  ASSUME ScanParameters
  PROVE  Frames \in Seq(Seq(Words))
<1>1. ASSUME NEW p \in {Own, Foreign}, NEW r \in Nat
      PROVE  Payload(p, r) \in Seq(Words)
  <2>1. PICK n \in Nat : n = r * 4 /\ n = r * RecordSize
    BY DEF RecordSize
  <2>2. \A k \in 1 .. n : Word(p, k) \in Words
    BY DEF Words
  <2>3. Payload(p, r) = [k \in 1 .. n |-> Word(p, k)]
    BY <2>1 DEF Payload
  <2> QED
    BY <2>2, <2>3
<1>2. /\ FramesOf(Payload(Foreign, ForeignRecords)) \in Seq(Seq(Words))
      /\ FramesOf(Payload(Own, OwnRecords)) \in Seq(Seq(Words))
  BY <1>1, FramesOfTyped DEF ScanParameters
<1> QED
  BY <1>2, ConcatProperties DEF Frames

(* What has been read is words, and what was found of it is what one scan  *)
(* finds.                                                                  *)
ScannedInv ==
  /\ next \in Nat \ {0} /\ arrived \in Seq(Words) /\ received \in Seq(Words)
  /\ scanAt \in 0 .. Len(received)
  /\ ReadsDoNotMatter

(* Nothing read, nothing found. *)
LEMMA ScannedInit == ASSUME ScanParameters, ScanInit PROVE ScannedInv
<1>1. next = 1 /\ arrived = <<>> /\ received = <<>> /\ scanAt = 0 /\ mineFound = 0 /\ foreignFound = 0 /\ mineBuf = <<>>
  BY DEF ScanInit
<1>2. <<>> \in Seq(Words) /\ Len(<<>>) = 0 /\ 0 \in 0 .. 0
  OBVIOUS
<1>3. ~Fits(<<>>, 0)
  BY <1>2 DEF Fits, RecordSize
<1>4. ScanRecords(<<>>, 0) = Stop(0)
  BY <1>2, <1>3, ScanIs
<1>5. ReadsDoNotMatter
  BY <1>1, <1>4 DEF ReadsDoNotMatter, Stop
<1> QED
  BY <1>1, <1>2, <1>5 DEF ScannedInv

(* A read scans on from where the scan before stopped, and adds to what    *)
(* that one found.                                                         *)
LEMMA ScannedStep ==
  ASSUME ScanParameters, ScannedInv, [ScanNext]_scanVars
  PROVE  ScannedInv'
<1>1. CASE Deliver
  <2>1. /\ next <= Len(Frames) /\ arrived' = arrived \o Frames[next] /\ next' = next + 1
        /\ UNCHANGED <<received, scanAt, mineFound, foreignFound, mineBuf>>
    BY <1>1 DEF Deliver
  <2>2. Frames[next] \in Seq(Words)
    <3>1. PICK F \in Seq(Seq(Words)) : F = Frames
      BY FramesTyped
    <3>2. next \in 1 .. Len(F)
      BY <2>1, <3>1 DEF ScannedInv
    <3> QED
      BY <3>1, <3>2
  <2>3. arrived' \in Seq(Words)
    BY <2>1, <2>2, ConcatProperties DEF ScannedInv
  <2> QED
    BY <2>1, <2>3 DEF ScannedInv, ReadsDoNotMatter
<1>2. CASE Drop
  BY <1>2 DEF Drop, ScannedInv, ReadsDoNotMatter
<1>3. CASE \E n \in 1 .. MaxRead : Recv(n)
  <2>1. PICK n \in 1 .. MaxRead : Recv(n)
    BY <1>3
  <2>2. n \in Nat /\ n >= 1
    BY DEF ScanParameters
  <2>3. n <= Len(arrived) /\ received' = received \o SubSeq(arrived, 1, n)
        /\ arrived' = SubSeq(arrived, n + 1, Len(arrived)) /\ UNCHANGED next
    BY <2>1 DEF Recv
  <2>4. SubSeq(arrived, 1, n) \in Seq(Words) /\ arrived' \in Seq(Words)
    BY <2>2, <2>3 DEF ScannedInv
  <2>5. PICK s \in Seq(Words) : s = SubSeq(arrived, 1, n) /\ received' = received \o s
    BY <2>3, <2>4
  <2>6. PICK k \in Nat, l \in Nat : k = Len(received) /\ l = Len(received') /\ k <= l /\ received' \in Seq(Words)
    <3>1. Len(received) \in Nat /\ Len(s) \in Nat
      BY <2>5 DEF ScannedInv
    <3>2. received' \in Seq(Words) /\ Len(received') = Len(received) + Len(s)
      BY <2>5, ConcatProperties DEF ScannedInv
    <3> QED
      BY <3>1, <3>2
  <2>7. PICK r \in Found(Words, k) : r = ScanRecords(received, 0)
    <3>1. 0 \in 0 .. Len(received)
      BY <2>6
    <3> QED
      BY <2>6, <3>1, ScanTyped DEF ScannedInv
  <2>8. r.at = scanAt /\ r.mine = mineFound /\ r.foreign = foreignFound /\ r.taken = mineBuf
    BY <2>7 DEF ScannedInv, ReadsDoNotMatter
  <2>9. PICK q \in Found(Words, l) : q = ScanRecords(received', scanAt)
    <3>1. scanAt \in 0 .. Len(received')
      BY <2>6 DEF ScannedInv
    <3> QED
      BY <2>6, <3>1, ScanTyped
  <2>10. ScanRecords(received', 0) = After(r, q)
    <3>1. 0 \in 0 .. Len(received)
      BY <2>6
    <3> QED
      BY <2>5, <2>7, <2>8, <2>9, <3>1, ScanResumes DEF ScannedInv
  <2>11. scanAt' = q.at /\ mineFound' = mineFound + q.mine /\ foreignFound' = foreignFound + q.foreign
         /\ mineBuf' = mineBuf \o q.taken
    BY <2>1, <2>9 DEF Recv, Resume
  <2>12. ReadsDoNotMatter'
    <3>1. /\ After(r, q).at = q.at /\ After(r, q).mine = r.mine + q.mine
          /\ After(r, q).foreign = r.foreign + q.foreign /\ After(r, q).taken = r.taken \o q.taken
      BY DEF After
    <3> QED
      BY <2>8, <2>10, <2>11, <3>1 DEF ReadsDoNotMatter
  <2>13. scanAt' \in 0 .. Len(received')
    BY <2>6, <2>9, <2>11 DEF Found
  <2> QED
    BY <2>3, <2>4, <2>6, <2>12, <2>13 DEF ScannedInv
<1>4. CASE UNCHANGED scanVars
  BY <1>4 DEF scanVars, ScannedInv, ReadsDoNotMatter
<1> QED
  BY <1>1, <1>2, <1>3, <1>4 DEF ScanNext, Drained

(* However the bytes of a session fall into reads, whatever of them was    *)
(* lost: the records found and the place to go on from are those of one    *)
(* scan of the whole received (scan_records, called per read by pump_halves  *)
(* with the position it returned).                                         *)
THEOREM ReadsNeverMatter == ScanSpec => []ReadsDoNotMatter
<1> USE ScanAssumption
<1>1. ScanInit => ScannedInv
  BY ScannedInit
<1>2. ScannedInv /\ [ScanNext]_scanVars => ScannedInv'
  BY ScannedStep
<1>3. ScannedInv => ReadsDoNotMatter
  BY DEF ScannedInv
<1> QED
  BY <1>1, <1>2, <1>3, PTL DEF ScanSpec

-----------------------------------------------------------------------------
(* What a hole costs *)

(* A word tells where in its record it stood: only the first is MAGIC, and *)
(* the second is its phase.                                                *)
LEMMA WordIs ==
  ASSUME ScanParameters, NEW w \in Words
  PROVE  /\ w.at \in Nat /\ w.phase \in {Own, Foreign}
         /\ w.val = Magic <=> w.at % 4 = 1
         /\ w.at % 4 = 2 => w.val = w.phase
<1>1. PICK p \in {Own, Foreign}, k \in Nat \ {0} : w = Word(p, k)
  BY DEF Words
<1>2. p \in Nat
  BY <1>1 DEF ScanParameters
<1> DEFINE pos == (k - 1) % 4
           rec == (k - 1) \div 4
<1>3. /\ pos \in 0 .. 3 /\ rec \in Nat
      /\ pos = 0 <=> k % 4 = 1
      /\ k % 4 = 2 => pos = 1
  BY <1>1
<1>4. w = [val |-> CASE pos = 0 -> Magic [] pos = 1 -> p [] pos = 2 -> rec [] pos = 3 -> 0,
           phase |-> p, at |-> k]
  BY <1>1 DEF Word, RecordSize
<1> HIDE DEF pos, rec
<1>5. w.at = k /\ w.phase = p
      /\ w.val = CASE pos = 0 -> Magic [] pos = 1 -> p [] pos = 2 -> rec [] pos = 3 -> 0
  BY <1>4
<1>6. pos = 0 => w.val = Magic
  BY <1>3, <1>5
<1>7. pos = 1 => w.val = p
  BY <1>3, <1>5
<1>8. pos # 0 => w.val \in Nat
  BY <1>2, <1>3, <1>5
<1>9. Magic \notin Nat
  BY DEF Magic
<1> QED
  BY <1>1, <1>3, <1>5, <1>6, <1>7, <1>8, <1>9

(* Where no hole is, the words go on as they stand in their records: what  *)
(* ends a payload ends a record.                                           *)
LEMMA NoHole ==
  ASSUME ScanParameters, received \in Seq(Words), NEW i \in 1 .. Len(received) - 1,
         i \notin Holes
  PROVE  received[i + 1].at % 4 = (received[i].at + 1) % 4
<1>1. \/ received[i + 1].at = received[i].at + 1
      \/ received[i].at = ForeignRecords * RecordSize /\ received[i + 1].at = 1
  BY DEF Holes
<1>2. CASE received[i].at = ForeignRecords * RecordSize /\ received[i + 1].at = 1
  <2>1. PICK r \in Nat : r = ForeignRecords
    BY DEF ScanParameters
  <2>2. received[i].at = r * 4
    BY <1>2, <2>1 DEF RecordSize
  <2> QED
    BY <1>2, <2>2
<1> QED
  BY <1>1, <1>2

(* The places in a record, one after the other. *)
LEMMA Places ==
  ASSUME NEW x \in Nat
  PROVE  /\ x % 4 = 1 => (x + 1) % 4 = 2
         /\ x % 4 = 2 => (x + 1) % 4 = 3
         /\ x % 4 = 3 => (x + 1) % 4 = 0
  OBVIOUS

(* Two record starts less than a record apart have a hole between them.    *)
LEMMA HoleBetween ==
  ASSUME ScanParameters, received \in Seq(Words), NEW at \in Nat, NEW i \in at + 1 .. at + 3,
         i + 1 <= Len(received), received[at + 1].at % 4 = 1, received[i + 1].at % 4 = 1
  PROVE  \E h \in at + 1 .. i : h \in Holes
<1> SUFFICES ASSUME \A h \in at + 1 .. i : h \notin Holes PROVE FALSE
  OBVIOUS
<1>1. PICK n \in Nat : n = Len(received)
  OBVIOUS
<1>2. \A h \in 1 .. n : received[h].at \in Nat
  <2> SUFFICES ASSUME NEW h \in 1 .. n PROVE received[h].at \in Nat
    OBVIOUS
  <2>1. received[h] \in Words
    BY <1>1
  <2> QED
    BY <2>1, WordIs
<1>3. \A h \in at + 1 .. i : received[h + 1].at % 4 = (received[h].at + 1) % 4
  <2> SUFFICES ASSUME NEW h \in at + 1 .. i PROVE received[h + 1].at % 4 = (received[h].at + 1) % 4
    OBVIOUS
  <2>1. h \in 1 .. Len(received) - 1
    BY <1>1
  <2> QED
    BY <2>1, NoHole
<1>4. received[at + 1].at \in Nat /\ received[at + 2].at \in Nat /\ received[at + 2].at % 4 = 2
  <2>1. at + 1 \in 1 .. n /\ at + 2 \in 1 .. n /\ at + 1 \in at + 1 .. i /\ (at + 1) + 1 = at + 2
    BY <1>1
  <2>2. received[at + 2].at % 4 = (received[at + 1].at + 1) % 4
    BY <1>3, <2>1
  <2>3. received[at + 1].at \in Nat /\ received[at + 2].at \in Nat
    BY <1>2, <2>1
  <2> QED
    BY <2>2, <2>3, Places
<1>5. CASE i = at + 1
  BY <1>4, <1>5
<1>6. ASSUME i >= at + 2 PROVE received[at + 3].at \in Nat /\ received[at + 3].at % 4 = 3
  <2>1. at + 3 \in 1 .. n /\ at + 2 \in at + 1 .. i /\ (at + 2) + 1 = at + 3
    BY <1>1, <1>6
  <2>2. received[at + 3].at % 4 = (received[at + 2].at + 1) % 4
    BY <1>3, <2>1
  <2>3. received[at + 3].at \in Nat
    BY <1>2, <2>1
  <2> QED
    BY <1>4, <2>2, <2>3, Places
<1>7. CASE i = at + 2
  BY <1>6, <1>7
<1>8. CASE i = at + 3
  <2>1. at + 4 \in 1 .. n /\ at + 3 \in at + 1 .. i /\ (at + 3) + 1 = at + 4
    BY <1>1, <1>8
  <2>2. received[at + 4].at % 4 = (received[at + 3].at + 1) % 4
    BY <1>3, <2>1
  <2>3. received[at + 4].at \in Nat
    BY <1>2, <2>1
  <2>4. received[at + 4].at % 4 = 0
    <3>1. received[at + 3].at \in Nat /\ received[at + 3].at % 4 = 3
      BY <1>6, <1>8
    <3> QED
      BY <2>2, <3>1, Places
  <2> QED
    BY <1>8, <2>1, <2>4
<1> QED
  BY <1>5, <1>7, <1>8

(* A record that stands whole begins with MAGIC and its phase, is the      *)
(* only one to begin within its length, and fits.                          *)
LEMMA IntactIs ==
  ASSUME ScanParameters, received \in Seq(Words), NEW i \in Intact
  PROVE  /\ i \in Nat /\ i + 4 <= Len(received)
         /\ received[i + 1].at % 4 = 1 /\ received[i + 1].val = Magic
         /\ TagByte(received[i + 2]) = Own
         /\ \A d \in 2 .. 4 : received[i + d].at % 4 # 1
<1>1. PICK n \in Nat : n = Len(received)
  OBVIOUS
<1>2. i \in 0 .. n - 4 /\ \A d \in 1 .. 4 : /\ received[i + d].phase = Own
                                            /\ received[i + d].at % 4 = d % 4
  BY <1>1 DEF Intact, RecordSize
<1>3. i \in Nat /\ i + 4 <= n /\ i + 1 \in 1 .. n /\ i + 2 \in 1 .. n
  BY <1>2
<1>4. 1 \in 1 .. 4 /\ 2 \in 1 .. 4 /\ 1 % 4 = 1 /\ 2 % 4 = 2 /\ 3 % 4 = 3 /\ 4 % 4 = 0
  OBVIOUS
<1>5. /\ received[i + 1].at % 4 = 1
      /\ received[i + 2].at % 4 = 2 /\ received[i + 2].phase = Own
  BY <1>2, <1>4
<1>6. received[i + 1] \in Words /\ received[i + 2] \in Words
  BY <1>1, <1>3
<1>7. received[i + 1].val = Magic /\ TagByte(received[i + 2]) = Own
  <2>1. received[i + 1].val = Magic /\ received[i + 2].val = Own
    BY <1>5, <1>6, WordIs
  <2>2. Own # Magic /\ Own % 256 = Own
    <3>1. Own \in 0 .. 255
      BY DEF ScanParameters
    <3> QED
      BY <3>1 DEF Magic
  <2> QED
    BY <2>1, <2>2 DEF TagByte
<1>8. \A d \in 2 .. 4 : received[i + d].at % 4 # 1
  <2> SUFFICES ASSUME NEW d \in 2 .. 4 PROVE received[i + d].at % 4 # 1
    OBVIOUS
  <2>1. d \in 1 .. 4 /\ d % 4 # 1
    OBVIOUS
  <2> QED
    BY <1>2, <2>1
<1> QED
  BY <1>1, <1>3, <1>5, <1>7, <1>8

(* Two records that stand whole do not begin within each other. *)
LEMMA IntactApart ==
  ASSUME ScanParameters, received \in Seq(Words), NEW i \in Intact, NEW j \in Intact,
         i < j
  PROVE  i + 4 <= j
<1>1. i \in Nat /\ j \in Nat /\ received[j + 1].at % 4 = 1
      /\ \A d \in 2 .. 4 : received[i + d].at % 4 # 1
  BY IntactIs
<1> SUFFICES ASSUME j < i + 4 PROVE FALSE
  BY <1>1
<1>2. (j + 1) - i \in 2 .. 4 /\ i + ((j + 1) - i) = j + 1
  BY <1>1
<1> QED
  BY <1>1, <1>2

(* The records and the holes a scan from `at` on has to do with. *)
Behind(at) == {i \in Intact : i >= at}
Torn(at) == {h \in Holes : h > at}

(* There are finitely many of both. *)
LEMMA Finitely ==
  ASSUME received \in Seq(Words), NEW at
  PROVE  /\ IsFiniteSet(Behind(at)) /\ Cardinality(Behind(at)) \in Nat
         /\ IsFiniteSet(Torn(at)) /\ Cardinality(Torn(at)) \in Nat
<1>1. PICK n \in Nat : n = Len(received)
  OBVIOUS
<1>2. IsFiniteSet(0 .. n)
  <2>1. 0 \in Int /\ n \in Int
    OBVIOUS
  <2> QED
    BY <2>1, FS_Interval
<1>3. Behind(at) \in SUBSET (0 .. n)
  BY <1>1 DEF Behind, Intact, RecordSize
<1>4. Torn(at) \in SUBSET (0 .. n)
  BY <1>1 DEF Torn, Holes
<1> QED
  BY <1>2, <1>3, <1>4, FS_Subset, FS_CardinalityType

(* What is behind a position that no record begins at is behind the next.  *)
LEMMA NothingHere ==
  ASSUME ScanParameters, received \in Seq(Words), NEW at \in Nat, NEW to \in Nat, at < to,
         \A i \in Intact : i < at \/ i >= to
  PROVE  /\ Behind(at) = Behind(to)
         /\ Cardinality(Torn(to)) <= Cardinality(Torn(at))
<1>1. \A i \in Intact : i \in Nat
  BY IntactIs
<1>2. Behind(at) = Behind(to)
  BY <1>1 DEF Behind
<1>3. \A h \in Holes : h \in Nat
  <2>1. PICK n \in Nat : n = Len(received)
    OBVIOUS
  <2> QED
    BY <2>1 DEF Holes
<1>4. Torn(to) \in SUBSET Torn(at)
  BY <1>3 DEF Torn
<1> QED
  BY <1>2, <1>4, Finitely, FS_Subset

(* The sum of it: a record more, and one more counted or one more hole. *)
LEMMA Balance ==
  ASSUME NEW u \in Nat, NEW v \in Nat, NEW x \in Nat, NEW y \in Nat, NEW m \in Nat, NEW k \in Nat,
         u = x + 1, x <= m + y, k >= m, y <= v, k = m + 1 \/ y + 1 <= v
  PROVE  u <= k + v
  OBVIOUS

(* Of the records behind a position the scan from there misses at most one *)
(* per hole: it runs over one only from a MAGIC that a hole has brought    *)
(* within a record of it.                                                  *)
LEMMA OneEach ==
  ASSUME ScanParameters, received \in Seq(Words), NEW at \in 0 .. Len(received)
  PROVE  Cardinality(Behind(at)) <= ScanRecords(received, at).mine + Cardinality(Torn(at))
<1>1. PICK n \in Nat : n = Len(received)
  OBVIOUS
<1> DEFINE Holds(i) ==
             Cardinality(Behind(i)) <= ScanRecords(received, i).mine + Cardinality(Torn(i))
           S == {i \in Nat : Holds(i)}
<1>2. ASSUME NEW i \in 0 .. n, \A to \in i + 1 .. n : to \in S PROVE i \in S
  <2>1. i \in Nat /\ i \in 0 .. Len(received) /\ Len(received) \in Nat
    BY <1>1
  <2>2. PICK u \in Nat, v \in Nat : u = Cardinality(Behind(i)) /\ v = Cardinality(Torn(i))
    BY Finitely
  <2>3. CASE ~Fits(received, i)
    <3>1. ScanRecords(received, i).mine = 0
      BY <2>1, <2>3, ScanIs DEF Stop
    <3>2. Behind(i) = {}
      <4> SUFFICES ASSUME NEW j \in Intact, j >= i PROVE FALSE
        BY DEF Behind
      <4>1. j \in Nat /\ j + 4 <= n
        BY <1>1, IntactIs
      <4> QED
        BY <1>1, <2>1, <2>3, <4>1 DEF Fits, RecordSize
    <3>3. Cardinality(Behind(i)) = 0
      BY <3>2, FS_EmptySet
    <3> QED
      BY <2>1, <2>2, <3>1, <3>3
  <2>4. CASE Fits(received, i)
    <3>1. i + Stride(received, i) \in i + 1 .. n /\ i + 4 <= n
      BY <1>1, <2>1, <2>4, FitsIs
    <3>2. PICK to \in i + 1 .. n : to = i + Stride(received, i)
      BY <3>1
    <3>3. to \in Nat /\ to \in 0 .. Len(received)
      BY <1>1, <2>1
    <3>4. Holds(to)
      BY <1>2
    <3>5. PICK q \in Found(Words, n) : q = ScanRecords(received, to)
      BY <1>1, <3>3, ScanTyped
    <3>6. PICK x \in Nat, y \in Nat, m \in Nat :
            x = Cardinality(Behind(to)) /\ y = Cardinality(Torn(to)) /\ m = q.mine /\ x <= m + y
      <4>1. q.mine \in Nat
        BY <3>5 DEF Found
      <4> QED
        BY <3>4, <3>5, <4>1, Finitely
    <3>7. ScanRecords(received, i) = Ahead(received, i, q)
      BY <2>1, <2>4, <3>2, <3>5, ScanIs
    <3> DEFINE head == received[i + 1].val = Magic
               tagged == head /\ TagByte(received[i + 2]) = Own
    <3>8. ScanRecords(received, i).mine = q.mine + (IF tagged THEN 1 ELSE 0)
      BY <3>7 DEF Ahead
    <3>9. PICK k \in Nat : k = ScanRecords(received, i).mine /\ k >= m /\ (tagged => k = m + 1)
      <4>1. q.mine + 1 \in Nat /\ q.mine + 0 = q.mine
        BY <3>6
      <4>2. CASE tagged
        BY <3>6, <3>8, <4>1, <4>2
      <4>3. CASE ~tagged
        BY <3>6, <3>8, <4>1, <4>3
      <4> QED
        BY <4>2, <4>3
    <3>10. \A j \in Intact : j \in Nat
      BY IntactIs
    <3>11. received[i + 1] \in Words
      BY <1>1, <2>1, <3>1
    <3>12. CASE \A j \in Intact : j < i \/ j >= to
      <4>1. u = x /\ y <= v
        BY <2>1, <2>2, <3>2, <3>3, <3>6, <3>12, NothingHere
      <4>2. u <= k + v
        BY <3>6, <3>9, <4>1
      <4> QED
        BY <2>1, <2>2, <3>9, <4>2
    <3>13. CASE \E j \in Intact : ~(j < i \/ j >= to)
      <4>1. PICK j \in Intact : j \in Nat /\ j >= i /\ j < to
        BY <2>1, <3>3, <3>10, <3>13
      <4>2. received[j + 1].at % 4 = 1 /\ received[j + 1].val = Magic
            /\ TagByte(received[j + 2]) = Own
            /\ j + 4 <= n
        BY <1>1, IntactIs
      <4>3. head
        <5> SUFFICES ASSUME ~head PROVE FALSE
          OBVIOUS
        <5>1. to = i + 1
          BY <3>2 DEF Stride
        <5>2. j = i
          BY <2>1, <4>1, <5>1
        <5> QED
          BY <4>2, <5>2
      <4>4. to = i + 4
        BY <3>2, <4>3 DEF Stride, RecordSize
      <4>5. Behind(i) = Behind(to) \cup {j} /\ j \notin Behind(to)
        <5>1. ASSUME NEW l \in Intact, l >= i, l < to PROVE l = j
          <6>1. l \in Nat
            BY <3>10
          <6>2. l < j => l + 4 <= j
            BY IntactApart
          <6>3. j < l => j + 4 <= l
            BY IntactApart
          <6> QED
            BY <2>1, <4>1, <4>4, <5>1, <6>1, <6>2, <6>3
        <5>2. \A l \in Intact : l >= to => l >= i
          BY <2>1, <3>10, <4>4
        <5>3. ~(j >= to)
          BY <3>3, <4>1
        <5>4. \A l \in Intact : l < to \/ l >= to
          BY <3>3, <3>10
        <5> QED
          BY <4>1, <5>1, <5>2, <5>3, <5>4 DEF Behind
      <4>6. u = x + 1
        BY <2>2, <3>6, <4>5, Finitely, FS_AddElement
      <4>7. CASE j = i
        <5>1. k = m + 1
          BY <3>9, <4>2, <4>7
        <5>2. y <= v
          <6>1. Torn(to) \in SUBSET Torn(i)
            <7>1. \A h \in Holes : h \in Nat
              BY <1>1 DEF Holes
            <7> QED
              BY <2>1, <4>4, <7>1 DEF Torn
          <6> QED
            BY <2>2, <3>6, <6>1, Finitely, FS_Subset
        <5>3. u <= k + v
          BY <2>2, <3>6, <3>9, <4>6, <5>1, <5>2, Balance
        <5> QED
          BY <2>1, <2>2, <3>9, <5>3
      <4>8. CASE j # i
        <5>1. j \in i + 1 .. i + 3
          BY <2>1, <4>1, <4>4, <4>8
        <5>2. received[i + 1].at % 4 = 1
          BY <3>11, <4>3, WordIs
        <5>3. j + 1 <= Len(received)
          BY <1>1, <4>1, <4>2
        <5>4. PICK h \in i + 1 .. j : h \in Holes
          BY <2>1, <4>2, <5>1, <5>2, <5>3, HoleBetween
        <5>5. Torn(to) \cup {h} \in SUBSET Torn(i) /\ h \notin Torn(to)
          <6>1. \A l \in Holes : l \in Nat
            BY <1>1 DEF Holes
          <6>2. h > i /\ ~(h > to)
            BY <2>1, <4>1, <4>4, <5>1, <5>4
          <6>3. \A l \in Holes : l > to => l > i
            BY <2>1, <4>4, <6>1
          <6> QED
            BY <5>4, <6>2, <6>3 DEF Torn
        <5>6. Cardinality(Torn(to) \cup {h}) = y + 1 /\ Cardinality(Torn(to) \cup {h}) <= v
          BY <2>2, <3>6, <5>5, Finitely, FS_AddElement, FS_Subset
        <5>7. y + 1 <= v /\ y <= v
          BY <2>2, <3>6, <5>6
        <5>8. u <= k + v
          BY <2>2, <3>6, <3>9, <4>6, <5>7, Balance
        <5> QED
          BY <2>1, <2>2, <3>9, <5>8
      <4> QED
        BY <4>7, <4>8
    <3> QED
      BY <3>12, <3>13
  <2> QED
    BY <2>3, <2>4
<1>3. \A i \in 0 .. n : i \in S
  <2> HIDE DEF S
  <2> QED
    BY <1>2, Downward
<1> QED
  BY <1>1, <1>3

(* However many frames are lost, and wherever they tear the stream: of the *)
(* records that arrived whole at most one per hole is not counted, the one *)
(* a torn record's MAGIC made the scan run into (scan_records, which moves *)
(* on by a record behind each MAGIC).                                      *)
THEOREM HolesCostOneEach == ScanSpec => []OneRecordPerHole
<1> USE ScanAssumption
<1>1. ScanInit => ScannedInv
  BY ScannedInit
<1>2. ScannedInv /\ [ScanNext]_scanVars => ScannedInv'
  BY ScannedStep
<1>3. ASSUME ScannedInv PROVE OneRecordPerHole
  <2>1. PICK n \in Nat : n = Len(received)
    BY <1>3 DEF ScannedInv
  <2>2. 0 \in 0 .. Len(received) /\ received \in Seq(Words)
    BY <1>3, <2>1 DEF ScannedInv
  <2>3. Cardinality(Behind(0)) <= ScanRecords(received, 0).mine + Cardinality(Torn(0))
    BY <2>2, OneEach
  <2>4. ScanRecords(received, 0).mine = mineFound
    BY <1>3 DEF ScannedInv, ReadsDoNotMatter
  <2>5. Behind(0) = Intact
    <3>1. \A i \in Intact : i \in Nat
      BY <2>2, IntactIs
    <3> QED
      BY <3>1 DEF Behind
  <2>6. Torn(0) = Holes
    BY <2>1 DEF Torn, Holes
  <2>7. PICK r \in Found(Words, n) : r = ScanRecords(received, 0)
    BY <2>1, <2>2, ScanTyped
  <2>8. PICK x \in Nat, y \in Nat, m \in Nat :
          x = Cardinality(Behind(0)) /\ y = Cardinality(Torn(0)) /\ m = mineFound
    BY <2>2, <2>4, <2>7, Finitely DEF Found
  <2>9. x - m <= y
    BY <2>3, <2>4, <2>8
  <2>10. Cardinality(Intact) - mineFound <= Cardinality(Holes)
    <3>1. x = Cardinality(Intact) /\ y = Cardinality(Holes)
      BY <2>5, <2>6, <2>8
    <3> QED
      BY <2>8, <2>9, <3>1
  <2> QED
    BY <2>10 DEF OneRecordPerHole
<1> QED
  BY <1>1, <1>2, <1>3, PTL DEF ScanSpec

-----------------------------------------------------------------------------
(* A digest that is right *)

(* How many words a phase sends. *)
Size(p) == (IF p = Own THEN OwnRecords ELSE ForeignRecords) * 4

(* A word of one of the two payloads. *)
Sent(w) == \E p \in {Own, Foreign} : \E k \in 1 .. Size(p) : w = Word(p, k)

(* A word a frame can start or end with: the ends of the payload are ends  *)
(* of frames, too.                                                         *)
Starts(w) == \E c \in Nat : w.at = c * Frame + 1
Ends(w) == w.at = Size(w.phase) \/ \E c \in Nat : w.at = c * Frame

(* The order in which words are sent, ... *)
Before(v, w) == /\ v.phase = Own => w.phase = Own
                /\ v.phase = w.phase => v.at < w.at

(* ... and what comes next: the next word, or another frame. *)
Follows(v, w) == \/ w.phase = v.phase /\ w.at = v.at + 1
                 \/ Ends(v) /\ Starts(w)

(* A stream out of which whole frames are missing. *)
InOrder(s) ==
  /\ \A i \in 1 .. Len(s) : Sent(s[i])
  /\ \A i \in 1 .. Len(s) : \A j \in i + 1 .. Len(s) : Before(s[i], s[j])
  /\ Len(s) >= 1 => Starts(s[1])
  /\ \A i \in 1 .. Len(s) - 1 : Follows(s[i], s[i + 1])

(* It is over at the end of a frame. *)
AtEnd(s) == Len(s) >= 1 => Ends(s[Len(s)])

(* All of the one is sent before the other. *)
AllBefore(s, t) == \A i \in 1 .. Len(s) : \A j \in 1 .. Len(t) : Before(s[i], t[j])

(* Multiples of a frame's length are at least as far apart as it is long. *)
LEMMA Multiples ==
  ASSUME ScanParameters, NEW c \in Nat, NEW d \in Nat
  PROVE  /\ c * Frame \in Nat
         /\ c < d => c * Frame + Frame <= d * Frame
         /\ c * Frame < d * Frame => c * Frame + Frame <= d * Frame
         /\ Frame \in Nat /\ Frame >= 4
<1>1. PICK F \in Nat : F = Frame /\ F >= 4
  BY DEF ScanParameters, RecordSize
<1>2. \A x \in Nat : x * F \in Nat
  BY <1>1
<1>3. \A x \in Nat, y \in Nat : (x + y) * F = x * F + y * F /\ 1 * F = F
  BY <1>1
<1>4. ASSUME NEW x \in Nat, NEW y \in Nat, x < y PROVE x * F + F <= y * F
  <2>1. PICK z \in Nat : z = y - (x + 1) /\ y = (x + 1) + z
    BY <1>4
  <2>2. y * F = (x + 1) * F + z * F /\ (x + 1) * F = x * F + F
    BY <1>3, <2>1
  <2>3. x * F \in Nat /\ z * F \in Nat
    BY <1>2
  <2> QED
    BY <1>1, <2>2, <2>3
<1>5. CASE c < d
  <2>1. c * F + F <= d * F /\ c * F \in Nat
    BY <1>2, <1>4, <1>5
  <2> QED
    BY <1>1, <2>1
<1>6. CASE c = d
  BY <1>1, <1>2, <1>6
<1>7. CASE d < c
  <2>1. d * F + F <= c * F /\ c * F \in Nat /\ d * F \in Nat
    BY <1>2, <1>4, <1>7
  <2> QED
    BY <1>1, <1>7, <2>1
<1> QED
  BY <1>5, <1>6, <1>7

(* A stream that goes on with a later one is a stream. *)
LEMMA Joined ==
  ASSUME NEW s \in Seq(Words), NEW t \in Seq(Words), InOrder(s), InOrder(t), AtEnd(s),
         AllBefore(s, t)
  PROVE  InOrder(s \o t)
<1>1. PICK n \in Nat, m \in Nat : n = Len(s) /\ m = Len(t)
  OBVIOUS
<1>2. PICK u \in Seq(Words) : u = s \o t /\ Len(u) = n + m
        /\ (\A i \in 1 .. n : u[i] = s[i]) /\ (\A i \in n + 1 .. n + m : u[i] = t[i - n])
  <2>1. /\ s \o t \in Seq(Words) /\ Len(s \o t) = n + m
        /\ \A i \in 1 .. n + m : (s \o t)[i] = IF i <= n THEN s[i] ELSE t[i - n]
    BY <1>1, ConcatProperties
  <2>2. PICK u \in Seq(Words) : u = s \o t
    BY <2>1
  <2>3. \A i \in 1 .. n : i \in 1 .. n + m /\ i <= n
    BY <1>1
  <2>4. \A i \in n + 1 .. n + m : i \in 1 .. n + m /\ ~(i <= n)
    BY <1>1
  <2> QED
    BY <2>1, <2>2, <2>3, <2>4
<1>3. ASSUME NEW i \in 1 .. n + m PROVE Sent(u[i])
  <2>1. CASE i <= n
    <3>1. i \in 1 .. n
      BY <2>1
    <3> QED
      BY <1>1, <1>2, <3>1 DEF InOrder
  <2>2. CASE ~(i <= n)
    <3>1. i \in n + 1 .. n + m /\ i - n \in 1 .. m
      BY <2>2
    <3>2. Sent(t[i - n]) /\ u[i] = t[i - n]
      BY <1>1, <1>2, <3>1 DEF InOrder
    <3> QED
      BY <3>2
  <2> QED
    BY <2>1, <2>2
<1>4. ASSUME NEW i \in 1 .. n + m, NEW j \in i + 1 .. n + m PROVE Before(u[i], u[j])
  <2>1. CASE j <= n
    <3>1. i \in 1 .. n /\ j \in i + 1 .. n /\ j \in 1 .. n
      BY <2>1
    <3> QED
      BY <1>1, <1>2, <3>1 DEF InOrder
  <2>2. CASE i <= n /\ ~(j <= n)
    <3>1. i \in 1 .. n /\ j \in n + 1 .. n + m /\ j - n \in 1 .. m
      BY <2>2
    <3> QED
      BY <1>1, <1>2, <3>1 DEF AllBefore
  <2>3. CASE ~(i <= n)
    <3>1. i \in n + 1 .. n + m /\ j \in n + 1 .. n + m /\ i - n \in 1 .. m /\ j - n \in (i - n) + 1 .. m
      BY <2>3
    <3>2. Before(t[i - n], t[j - n])
      BY <1>1, <3>1 DEF InOrder
    <3> QED
      BY <1>2, <3>1, <3>2
  <2> QED
    BY <2>1, <2>2, <2>3
<1>5. ASSUME n + m >= 1 PROVE Starts(u[1])
  <2>1. CASE n >= 1
    <3>1. 1 \in 1 .. n
      BY <2>1
    <3> QED
      BY <1>1, <1>2, <2>1, <3>1 DEF InOrder
  <2>2. CASE n = 0
    <3>1. 1 \in n + 1 .. n + m /\ 1 - n = 1 /\ m >= 1
      BY <1>5, <2>2
    <3> QED
      BY <1>1, <1>2, <3>1 DEF InOrder
  <2> QED
    BY <2>1, <2>2
<1>6. ASSUME NEW i \in 1 .. (n + m) - 1 PROVE Follows(u[i], u[i + 1])
  <2>1. CASE i < n
    <3>1. i \in 1 .. n - 1 /\ i \in 1 .. n /\ i + 1 \in 1 .. n
      BY <2>1
    <3> QED
      BY <1>1, <1>2, <3>1 DEF InOrder
  <2>2. CASE i = n
    <3>1. n \in 1 .. n /\ i + 1 \in n + 1 .. n + m /\ (i + 1) - n = 1 /\ m >= 1
      BY <2>2
    <3>2. u[i] = s[n] /\ u[i + 1] = t[1]
      BY <1>2, <2>2, <3>1
    <3>3. Ends(s[n]) /\ Starts(t[1])
      BY <1>1, <3>1 DEF AtEnd, InOrder
    <3> QED
      BY <3>2, <3>3 DEF Follows
  <2>3. CASE i > n
    <3>1. /\ i \in n + 1 .. n + m /\ i + 1 \in n + 1 .. n + m
          /\ i - n \in 1 .. m - 1 /\ (i + 1) - n = (i - n) + 1
      BY <2>3
    <3>2. Follows(t[i - n], t[(i - n) + 1])
      BY <1>1, <3>1 DEF InOrder
    <3>3. u[i] = t[i - n] /\ u[i + 1] = t[(i - n) + 1]
      BY <1>2, <3>1
    <3> QED
      BY <3>2, <3>3
  <2> QED
    BY <2>1, <2>2, <2>3
<1> QED
  BY <1>2, <1>3, <1>4, <1>5, <1>6 DEF InOrder

(* The frames of a phase: what they hold, and that they follow each other. *)
LEMMA FramesOfAre ==
  ASSUME ScanParameters, NEW p \in {Own, Foreign}, NEW r \in Nat, Size(p) = r * 4
  PROVE  LET fs == FramesOf(Payload(p, r)) IN
         /\ \A f \in 1 .. Len(fs) :
              /\ fs[f] \in Seq(Words) /\ Len(fs[f]) >= 1 /\ InOrder(fs[f]) /\ AtEnd(fs[f])
              /\ \A i \in 1 .. Len(fs[f]) : fs[f][i].phase = p
         /\ \A f \in 1 .. Len(fs) : \A g \in f + 1 .. Len(fs) : AllBefore(fs[f], fs[g])
<1> DEFINE fs == FramesOf(Payload(p, r))
<1>1. PICK n \in Nat : n = r * 4 /\ n = r * RecordSize
  BY DEF RecordSize
<1>2. PICK F \in Nat : F = Frame /\ F >= 4
  BY DEF ScanParameters, RecordSize
<1>3. PICK m \in Nat : m = (n + F - 1) \div F
  BY <1>2
<1>4. m * F <= n + F - 1
  <2>1. PICK k \in Nat : k = n + F - 1
    BY <1>2
  <2>2. (k \div F) * F <= k
    BY <1>2, <2>1, SMTT(30)
  <2> QED
    BY <1>3, <2>1, <2>2
<1>5. PICK P \in Seq(Words) : P = Payload(p, r) /\ Len(P) = n
                              /\ \A k \in 1 .. n : P[k] = Word(p, k)
  <2>1. \A k \in 1 .. n : Word(p, k) \in Words
    BY DEF Words
  <2>2. Payload(p, r) = [k \in 1 .. n |-> Word(p, k)]
    BY <1>1 DEF Payload
  <2> QED
    BY <2>1, <2>2
<1>6. fs = [f \in 1 .. m |-> SubSeq(P, (f - 1) * F + 1, Min({f * F, n}))]
  BY <1>2, <1>3, <1>5 DEF FramesOf
<1>7. Len(fs) = m
  BY <1>6
<1>8. ASSUME NEW f \in 1 .. m
      PROVE  \E lo \in Nat, hi \in Nat :
               /\ lo = (f - 1) * F /\ hi <= f * F /\ lo < hi /\ hi <= n /\ (hi = n \/ hi = f * F)
               /\ fs[f] \in Seq(Words) /\ Len(fs[f]) = hi - lo
               /\ \A i \in 1 .. hi - lo : fs[f][i] = Word(p, lo + i)
  <2>1. PICK lo \in Nat, up \in Nat : lo = (f - 1) * F /\ up = f * F /\ up = lo + F
    <3>1. f - 1 \in Nat /\ f \in Nat /\ \A x \in Nat : x * F \in Nat /\ (x + 1) * F = x * F + F
      BY <1>2
    <3>2. PICK x \in Nat : x = f - 1 /\ f = x + 1
      BY <3>1
    <3> QED
      BY <3>1, <3>2
  <2>2. up <= n + F - 1
    <3>1. up <= m * F
      <4>1. PICK x \in Nat : m = f + x
        <5>1. m - f \in Nat /\ m = f + (m - f)
          OBVIOUS
        <5> QED
          BY <5>1
      <4>2. f \in Nat /\ \A y \in Nat, z \in Nat : (y + z) * F = y * F + z * F /\ z * F \in Nat
        BY <1>2
      <4> QED
        BY <2>1, <4>1, <4>2
    <3>2. PICK mf \in Nat : mf = m * F
      BY <1>2
    <3> QED
      BY <1>2, <1>4, <2>1, <3>1, <3>2
  <2>3. PICK hi \in Nat : hi = Min({up, n}) /\ hi <= up /\ hi <= n /\ (hi = up \/ hi = n)
    <3> DEFINE top == CHOOSE x \in {up, n} : \A y \in {up, n} : x <= y
    <3>1. PICK x \in {up, n} : \A y \in {up, n} : x <= y
      BY <2>1
    <3>2. top \in {up, n} /\ \A y \in {up, n} : top <= y
      BY <3>1
    <3>3. Min({up, n}) = top
      BY DEF Min
    <3> HIDE DEF top
    <3> QED
      BY <2>1, <3>2, <3>3
  <2>4. lo < hi
    BY <1>2, <2>1, <2>2, <2>3
  <2>5. fs[f] = SubSeq(P, lo + 1, hi)
    BY <1>6, <2>1, <2>3
  <2>6. \A i \in lo + 1 .. hi : i \in 1 .. n /\ P[i] \in Words /\ P[i] = Word(p, i)
    <3> SUFFICES ASSUME NEW i \in lo + 1 .. hi PROVE i \in 1 .. n /\ P[i] \in Words /\ P[i] = Word(p, i)
      OBVIOUS
    <3>1. i \in 1 .. n
      BY <2>3
    <3> QED
      BY <1>5, <3>1
  <2>7. /\ fs[f] \in Seq(Words) /\ Len(fs[f]) = hi - lo
        /\ \A i \in 1 .. hi - lo : fs[f][i] = P[lo + i]
    <3>1. lo + 1 \in Int /\ hi \in Int /\ lo + 1 <= hi /\ hi - (lo + 1) + 1 = hi - lo
      BY <2>4
    <3>2. /\ SubSeq(P, lo + 1, hi) \in Seq(Words)
          /\ Len(SubSeq(P, lo + 1, hi)) = hi - lo
          /\ \A i \in 1 .. hi - lo : SubSeq(P, lo + 1, hi)[i] = P[(lo + 1) + i - 1]
      BY <2>6, <3>1, SubSeqProperties
    <3>3. \A i \in 1 .. hi - lo : (lo + 1) + i - 1 = lo + i
      OBVIOUS
    <3> QED
      BY <2>5, <3>2, <3>3
  <2>8. \A i \in 1 .. hi - lo : lo + i \in lo + 1 .. hi
    OBVIOUS
  <2>9. \A i \in 1 .. hi - lo : fs[f][i] = Word(p, lo + i)
    BY <2>6, <2>7, <2>8
  <2>10. lo = (f - 1) * F /\ hi <= f * F /\ (hi = n \/ hi = f * F)
    BY <2>1, <2>3
  <2> HIDE DEF fs
  <2> QED
    BY <2>3, <2>4, <2>7, <2>9, <2>10, Zenon
<1> HIDE DEF fs
<1>9. \A k : Word(p, k).at = k /\ Word(p, k).phase = p
  BY DEF Word
<1>10. ASSUME NEW f \in 1 .. m
       PROVE  /\ fs[f] \in Seq(Words) /\ Len(fs[f]) >= 1 /\ InOrder(fs[f]) /\ AtEnd(fs[f])
              /\ \A i \in 1 .. Len(fs[f]) : fs[f][i].phase = p
  <2>1. PICK lo \in Nat, hi \in Nat :
               /\ lo = (f - 1) * F /\ hi <= f * F /\ lo < hi /\ hi <= n /\ (hi = n \/ hi = f * F)
               /\ fs[f] \in Seq(Words) /\ Len(fs[f]) = hi - lo
               /\ \A i \in 1 .. hi - lo : fs[f][i] = Word(p, lo + i)
    BY <1>8
  <2>2. PICK l \in Nat : l = hi - lo /\ l >= 1 /\ l = Len(fs[f])
    BY <2>1
  <2>3. \A i \in 1 .. l : fs[f][i] = Word(p, lo + i) /\ fs[f][i].at = lo + i /\ fs[f][i].phase = p
    BY <1>9, <2>1, <2>2
  <2>4. ASSUME NEW i \in 1 .. l PROVE Sent(fs[f][i])
    <3>1. lo + i \in 1 .. Size(p)
      BY <1>1, <2>1, <2>2
    <3> QED
      BY <2>3, <3>1 DEF Sent
  <2>5. ASSUME NEW i \in 1 .. l, NEW j \in i + 1 .. l PROVE Before(fs[f][i], fs[f][j])
    <3>1. j \in 1 .. l /\ lo + i < lo + j
      OBVIOUS
    <3> QED
      BY <2>3, <3>1 DEF Before
  <2>6. Starts(fs[f][1])
    <3>1. 1 \in 1 .. l /\ f - 1 \in Nat
      BY <2>2
    <3> QED
      BY <1>2, <2>1, <2>3, <3>1 DEF Starts
  <2>7. ASSUME NEW i \in 1 .. l - 1 PROVE Follows(fs[f][i], fs[f][i + 1])
    <3>1. i \in 1 .. l /\ i + 1 \in 1 .. l /\ lo + (i + 1) = (lo + i) + 1
      OBVIOUS
    <3> QED
      BY <2>3, <3>1 DEF Follows
  <2>8. Ends(fs[f][l])
    <3>1. l \in 1 .. l /\ f \in Nat
      BY <2>2
    <3>2. lo + l = hi
      BY <2>2
    <3>3. fs[f][l].at = hi /\ fs[f][l].phase = p
      BY <2>3, <3>1, <3>2
    <3> QED
      BY <1>1, <1>2, <2>1, <3>1, <3>3 DEF Ends
  <2> QED
    BY <2>1, <2>2, <2>3, <2>4, <2>5, <2>6, <2>7, <2>8 DEF InOrder, AtEnd
<1>11. ASSUME NEW f \in 1 .. m, NEW g \in f + 1 .. m PROVE AllBefore(fs[f], fs[g])
  <2>1. PICK lo \in Nat, hi \in Nat :
               /\ hi <= f * F /\ Len(fs[f]) = hi - lo /\ lo < hi
               /\ \A i \in 1 .. hi - lo : fs[f][i] = Word(p, lo + i)
    BY <1>8
  <2>2. g \in 1 .. m
    OBVIOUS
  <2>3. PICK lo2 \in Nat, hi2 \in Nat :
               /\ lo2 = (g - 1) * F /\ Len(fs[g]) = hi2 - lo2 /\ lo2 < hi2
               /\ \A i \in 1 .. hi2 - lo2 : fs[g][i] = Word(p, lo2 + i)
    BY <1>8, <2>2
  <2>4. hi <= lo2
    <3>1. PICK x \in Nat : g - 1 = f + x
      <4>1. (g - 1) - f \in Nat /\ g - 1 = f + ((g - 1) - f)
        OBVIOUS
      <4> QED
        BY <4>1
    <3>2. f \in Nat /\ \A y \in Nat, z \in Nat : (y + z) * F = y * F + z * F /\ z * F \in Nat
      BY <1>2
    <3>3. PICK y \in Nat, z \in Nat : y = f * F /\ z = x * F /\ lo2 = y + z
      BY <2>3, <3>1, <3>2
    <3> QED
      BY <2>1, <3>3
  <2>5. ASSUME NEW i \in 1 .. hi - lo, NEW j \in 1 .. hi2 - lo2 PROVE Before(fs[f][i], fs[g][j])
    <3>1. lo + i < lo2 + j
      BY <2>4
    <3> QED
      BY <1>9, <2>1, <2>3, <3>1 DEF Before
  <2> QED
    BY <2>1, <2>3, <2>5 DEF AllBefore
<1> QED
  BY <1>7, <1>10, <1>11 DEF fs

(* The session takes up the earlier phase's frames and then this phase's. *)
LEMMA FramesAre ==
  ASSUME ScanParameters
  PROVE  /\ Len(Frames) \in Nat
         /\ \A g \in 1 .. Len(Frames) :
              /\ Frames[g] \in Seq(Words) /\ Len(Frames[g]) >= 1
              /\ InOrder(Frames[g]) /\ AtEnd(Frames[g])
         /\ \A g \in 1 .. Len(Frames) : \A h \in g + 1 .. Len(Frames) :
              AllBefore(Frames[g], Frames[h])
<1> DEFINE FA == FramesOf(Payload(Foreign, ForeignRecords))
           FB == FramesOf(Payload(Own, OwnRecords))
           Good(fs, p) ==
             /\ \A f \in 1 .. Len(fs) :
                  /\ fs[f] \in Seq(Words) /\ Len(fs[f]) >= 1 /\ InOrder(fs[f]) /\ AtEnd(fs[f])
                  /\ \A i \in 1 .. Len(fs[f]) : fs[f][i].phase = p
             /\ \A f \in 1 .. Len(fs) : \A g \in f + 1 .. Len(fs) : AllBefore(fs[f], fs[g])
<1>1. Own # Foreign /\ OwnRecords \in Nat /\ ForeignRecords \in Nat
  BY DEF ScanParameters
<1>2. Good(FA, Foreign)
  <2>1. Size(Foreign) = ForeignRecords * 4
    BY <1>1 DEF Size
  <2> QED
    BY <1>1, <2>1, FramesOfAre
<1>3. Good(FB, Own)
  <2>1. Size(Own) = OwnRecords * 4
    BY DEF Size
  <2> QED
    BY <1>1, <2>1, FramesOfAre
<1>4. FA \in Seq(Seq(Words)) /\ FB \in Seq(Seq(Words))
  <2>1. \A p \in {Own, Foreign}, r \in Nat : Payload(p, r) \in Seq(Words)
    <3> SUFFICES ASSUME NEW p \in {Own, Foreign}, NEW r \in Nat PROVE Payload(p, r) \in Seq(Words)
      OBVIOUS
    <3>1. PICK n \in Nat : n = r * 4 /\ n = r * RecordSize
      BY DEF RecordSize
    <3>2. \A k \in 1 .. n : Word(p, k) \in Words
      BY DEF Words
    <3>3. Payload(p, r) = [k \in 1 .. n |-> Word(p, k)]
      BY <3>1 DEF Payload
    <3> QED
      BY <3>2, <3>3
  <2> QED
    BY <1>1, <2>1, FramesOfTyped
<1> HIDE DEF FA, FB
<1>5. PICK n \in Nat, m \in Nat : n = Len(FA) /\ m = Len(FB)
  BY <1>4
<1>6. PICK fs \in Seq(Seq(Words)) : fs = Frames /\ Len(fs) = n + m
        /\ (\A i \in 1 .. n : fs[i] = FA[i]) /\ (\A i \in n + 1 .. n + m : fs[i] = FB[i - n])
  <2>1. /\ FA \o FB \in Seq(Seq(Words)) /\ Len(FA \o FB) = n + m
        /\ \A i \in 1 .. n + m : (FA \o FB)[i] = IF i <= n THEN FA[i] ELSE FB[i - n]
    BY <1>4, <1>5, ConcatProperties
  <2>2. PICK fs \in Seq(Seq(Words)) : fs = FA \o FB
    BY <2>1
  <2>3. \A i \in 1 .. n : i \in 1 .. n + m /\ i <= n
    OBVIOUS
  <2>4. \A i \in n + 1 .. n + m : i \in 1 .. n + m /\ ~(i <= n)
    OBVIOUS
  <2> QED
    BY <2>1, <2>2, <2>3, <2>4 DEF Frames, FA, FB
<1>7. ASSUME NEW g \in 1 .. n + m
      PROVE  /\ fs[g] \in Seq(Words) /\ Len(fs[g]) >= 1 /\ InOrder(fs[g]) /\ AtEnd(fs[g])
             /\ \A i \in 1 .. Len(fs[g]) : fs[g][i].phase = (IF g <= n THEN Foreign ELSE Own)
  <2>1. CASE g <= n
    <3>1. g \in 1 .. n
      BY <2>1
    <3> QED
      BY <1>2, <1>5, <1>6, <2>1, <3>1
  <2>2. CASE ~(g <= n)
    <3>1. g \in n + 1 .. n + m /\ g - n \in 1 .. m
      BY <2>2
    <3> QED
      BY <1>3, <1>5, <1>6, <2>2, <3>1
  <2> QED
    BY <2>1, <2>2
<1>8. ASSUME NEW g \in 1 .. n + m, NEW h \in g + 1 .. n + m PROVE AllBefore(fs[g], fs[h])
  <2>1. CASE h <= n
    <3>1. g \in 1 .. n /\ h \in g + 1 .. n /\ h \in 1 .. n
      BY <2>1
    <3> QED
      BY <1>2, <1>5, <1>6, <3>1
  <2>2. CASE g <= n /\ ~(h <= n)
    <3>1. h \in 1 .. n + m
      OBVIOUS
    <3>2. /\ \A i \in 1 .. Len(fs[g]) : fs[g][i].phase = Foreign
          /\ \A i \in 1 .. Len(fs[h]) : fs[h][i].phase = Own
      BY <1>7, <2>2, <3>1
    <3> QED
      BY <1>1, <3>2 DEF AllBefore, Before
  <2>3. CASE ~(g <= n)
    <3>1. /\ g \in n + 1 .. n + m /\ h \in n + 1 .. n + m
          /\ g - n \in 1 .. m /\ h - n \in (g - n) + 1 .. m
      BY <2>3
    <3>2. AllBefore(FB[g - n], FB[h - n])
      BY <1>3, <1>5, <3>1
    <3> QED
      BY <1>6, <3>1, <3>2
  <2> QED
    BY <2>1, <2>2, <2>3
<1> QED
  BY <1>6, <1>7, <1>8

(* What was delivered is in order, and behind it only what comes later. *)
StreamInv ==
  /\ InOrder(received \o arrived) /\ AtEnd(received \o arrived)
  /\ \A g \in next .. Len(Frames) : AllBefore(received \o arrived, Frames[g])

(* Nothing delivered. *)
LEMMA StreamInit == ASSUME ScanParameters, ScanInit PROVE StreamInv
<1>1. arrived = <<>> /\ received = <<>> /\ <<>> \o <<>> = <<>> /\ Len(<<>>) = 0
  <2>1. <<>> \in Seq(Words)
    OBVIOUS
  <2> QED
    BY <2>1, ConcatEmptySeq DEF ScanInit
<1> QED
  BY <1>1 DEF StreamInv, InOrder, AtEnd, AllBefore

(* A frame is delivered or lost whole; a read only moves words. *)
LEMMA StreamStep ==
  ASSUME ScanParameters, ScannedInv, StreamInv, [ScanNext]_scanVars
  PROVE  StreamInv'
<1> DEFINE s == received \o arrived
<1>1. arrived \in Seq(Words) /\ received \in Seq(Words) /\ next \in Nat \ {0} /\ s \in Seq(Words)
  <2>1. arrived \in Seq(Words) /\ received \in Seq(Words) /\ next \in Nat \ {0}
    BY DEF ScannedInv
  <2> QED
    BY <2>1, ConcatProperties
<1>2. PICK l \in Nat : l = Len(Frames)
  BY FramesAre
<1>3. CASE Deliver
  <2>1. next <= l /\ arrived' = arrived \o Frames[next] /\ next' = next + 1 /\ received' = received
    BY <1>2, <1>3 DEF Deliver
  <2>2. next \in 1 .. l /\ next \in next .. l
    BY <1>1, <2>1
  <2>3. PICK t \in Seq(Words) : t = Frames[next] /\ InOrder(t) /\ AtEnd(t) /\ Len(t) >= 1
    BY <1>2, <2>2, FramesAre
  <2>4. received' \o arrived' = s \o t
    <3>1. PICK b \in Seq(Words), a \in Seq(Words) : b = received /\ a = arrived
      BY <1>1
    <3>2. (b \o a) \o t = b \o (a \o t)
      OBVIOUS
    <3> QED
      BY <2>1, <2>3, <3>1, <3>2
  <2>5. AllBefore(s, t)
    BY <1>2, <2>2, <2>3 DEF StreamInv
  <2>6. InOrder(s \o t)
    <3> HIDE DEF s
    <3>1. InOrder(s) /\ AtEnd(s)
      BY DEF s, StreamInv
    <3> QED
      BY <1>1, <2>3, <2>5, <3>1, Joined
  <2>7. PICK n \in Nat, m \in Nat : n = Len(s) /\ m = Len(t) /\ m >= 1
    BY <1>1, <2>3
  <2>8. PICK u \in Seq(Words) : u = s \o t /\ Len(u) = n + m
          /\ \A i \in 1 .. n + m : u[i] = IF i <= n THEN s[i] ELSE t[i - n]
    <3> HIDE DEF s
    <3>1. /\ s \o t \in Seq(Words) /\ Len(s \o t) = n + m
          /\ \A i \in 1 .. n + m : (s \o t)[i] = IF i <= n THEN s[i] ELSE t[i - n]
      BY <1>1, <2>3, <2>7, ConcatProperties
    <3>2. PICK u \in Seq(Words) : u = s \o t
      BY <3>1
    <3> QED
      BY <3>1, <3>2, Zenon
  <2>9. AtEnd(u)
    <3>1. n + m \in 1 .. n + m /\ ~(n + m <= n) /\ (n + m) - n = m
      BY <2>7
    <3>2. u[n + m] = t[m]
      BY <2>8, <3>1
    <3> QED
      BY <2>3, <2>7, <2>8, <3>2 DEF AtEnd
  <2>10. ASSUME NEW g \in next + 1 .. l PROVE AllBefore(u, Frames[g])
    <3>1. g \in next .. l /\ g \in 1 .. l
      BY <1>1
    <3>2. AllBefore(s, Frames[g])
      BY <1>2, <3>1 DEF StreamInv
    <3>3. AllBefore(t, Frames[g])
      BY <1>2, <2>2, <2>3, FramesAre
    <3>4. ASSUME NEW i \in 1 .. n + m, NEW j \in 1 .. Len(Frames[g])
          PROVE  Before(u[i], Frames[g][j])
      <4>1. CASE i <= n
        <5>1. i \in 1 .. n
          BY <4>1
        <5> QED
          BY <2>7, <2>8, <3>2, <4>1, <5>1 DEF AllBefore
      <4>2. CASE ~(i <= n)
        <5>1. i - n \in 1 .. m
          BY <4>2
        <5> QED
          BY <2>7, <2>8, <3>3, <4>2, <5>1 DEF AllBefore
      <4> QED
        BY <4>1, <4>2
    <3> QED
      BY <2>8, <3>4 DEF AllBefore
  <2>11. Frames' = Frames
    BY DEF Frames, FramesOf, Payload, Word, RecordSize, Min
  <2> QED
    BY <1>2, <2>1, <2>4, <2>6, <2>8, <2>9, <2>10, <2>11 DEF StreamInv
<1>4. CASE Drop
  <2>1. received' = received /\ arrived' = arrived /\ next' = next + 1
    BY <1>4 DEF Drop
  <2>2. \A g \in next + 1 .. l : g \in next .. l
    BY <1>1
  <2> QED
    BY <1>2, <2>1, <2>2 DEF StreamInv
<1>5. CASE \E n \in 1 .. MaxRead : Recv(n)
  <2>1. PICK n \in 1 .. MaxRead : Recv(n)
    BY <1>5
  <2>2. n \in Nat /\ n >= 1
    BY DEF ScanParameters
  <2>3. n <= Len(arrived) /\ received' = received \o SubSeq(arrived, 1, n)
        /\ arrived' = SubSeq(arrived, n + 1, Len(arrived)) /\ next' = next
    BY <2>1 DEF Recv
  <2>4. PICK k \in Nat : k = Len(arrived) /\ n <= k
    BY <1>1, <2>3
  <2>5. SubSeq(arrived, 1, n) \o SubSeq(arrived, n + 1, k) = arrived
    <3>1. 1 \in 1 .. Len(arrived) + 1 /\ n \in 1 - 1 .. Len(arrived) /\ k \in n .. Len(arrived)
      BY <2>2, <2>4
    <3>2. SubSeq(arrived, 1, k) = arrived
      BY <1>1, <2>4, SubSeqFull
    <3> QED
      BY <1>1, <3>1, <3>2, ConcatAdjacentSubSeq
  <2>6. SubSeq(arrived, 1, n) \in Seq(Words) /\ SubSeq(arrived, n + 1, k) \in Seq(Words)
    BY <1>1, <2>2, <2>4
  <2>7. received' \o arrived' = received \o arrived
    <3>1. PICK b \in Seq(Words), x \in Seq(Words), y \in Seq(Words) :
            b = received /\ x = SubSeq(arrived, 1, n) /\ y = SubSeq(arrived, n + 1, k)
      BY <1>1, <2>6
    <3>2. (b \o x) \o y = b \o (x \o y)
      OBVIOUS
    <3> QED
      BY <2>3, <2>4, <2>5, <3>1, <3>2
  <2> QED
    BY <2>3, <2>7 DEF StreamInv
<1>6. CASE UNCHANGED scanVars
  BY <1>6 DEF scanVars, StreamInv
<1> QED
  BY <1>3, <1>4, <1>5, <1>6 DEF ScanNext, Drained

(* What a word says of its place: MAGIC is the first of a record, the tag  *)
(* the second, the index the third, and the fourth is zero.                *)
LEMMA SentIs ==
  ASSUME ScanParameters, NEW w, Sent(w)
  PROVE  /\ w.phase \in {Own, Foreign} /\ w = Word(w.phase, w.at)
         /\ Size(w.phase) \in Nat /\ Size(w.phase) % 4 = 0 /\ w.at \in 1 .. Size(w.phase)
         /\ w.val = Magic <=> w.at % 4 = 1
         /\ w.at % 4 = 2 => w.val = w.phase
         /\ w.at % 4 = 3 => w.val \in Nat /\ w.at = 4 * w.val + 3
         /\ w.at % 4 = 0 => w.val = 0
<1>0. PICK p \in {Own, Foreign} : \E k \in 1 .. Size(p) : w = Word(p, k)
  BY DEF Sent
<1>1. PICK k \in 1 .. Size(p) : w = Word(p, k)
  BY <1>0
<1>2. p \in Nat /\ Size(p) \in Nat /\ Size(p) % 4 = 0
  <2>1. PICK r \in Nat : Size(p) = r * 4
    BY DEF ScanParameters, Size
  <2> QED
    BY <2>1 DEF ScanParameters
<1>3. k \in Nat /\ k >= 1
  BY <1>2
<1> DEFINE pos == (k - 1) % 4
           rec == (k - 1) \div 4
<1>4. /\ pos \in 0 .. 3 /\ rec \in Nat /\ k = 4 * rec + pos + 1
      /\ (pos = 0 <=> k % 4 = 1) /\ (pos = 1 <=> k % 4 = 2)
      /\ (pos = 2 <=> k % 4 = 3) /\ (pos = 3 <=> k % 4 = 0)
  BY <1>3
<1>5. w = [val |-> CASE pos = 0 -> Magic [] pos = 1 -> p [] pos = 2 -> rec [] pos = 3 -> 0,
           phase |-> p, at |-> k]
  BY <1>1 DEF Word, RecordSize
<1> HIDE DEF pos, rec
<1>6. w.at = k /\ w.phase = p
      /\ w.val = CASE pos = 0 -> Magic [] pos = 1 -> p [] pos = 2 -> rec [] pos = 3 -> 0
  BY <1>5
<1>7. /\ pos = 0 => w.val = Magic
      /\ pos = 1 => w.val = p
      /\ pos = 2 => w.val = rec
      /\ pos = 3 => w.val = 0
  BY <1>4, <1>6
<1>8. pos # 0 => w.val \in Nat
  BY <1>2, <1>4, <1>7
<1>9. Magic \notin Nat
  BY DEF Magic
<1>10. w.val = Magic <=> k % 4 = 1
  BY <1>4, <1>7, <1>8, <1>9
<1>11. k % 4 = 3 => w.val \in Nat /\ k = 4 * w.val + 3
  BY <1>4, <1>7
<1> QED
  BY <1>1, <1>2, <1>4, <1>6, <1>7, <1>10, <1>11

(* A frame is at least a record long, unless a payload ends with it.       *)
LEMMA FrameSpan ==
  ASSUME ScanParameters, NEW v, NEW w, Sent(v), Sent(w), Starts(v), Ends(w),
         w.phase = v.phase, w.at \in v.at .. v.at + 2
  PROVE  w.at = Size(w.phase)
<1> SUFFICES ASSUME w.at # Size(w.phase) PROVE FALSE
  OBVIOUS
<1>1. PICK c \in Nat : v.at = c * Frame + 1
  BY DEF Starts
<1>2. PICK d \in Nat : w.at = d * Frame
  BY DEF Ends
<1>3. PICK x \in Nat, y \in Nat, F \in Nat :
        x = c * Frame /\ y = d * Frame /\ F = Frame /\ F >= 4 /\ (x < y => x + F <= y)
  BY Multiples
<1> QED
  BY <1>1, <1>2, <1>3

(* What starts a frame other than the first is behind a frame's length. *)
LEMMA StartsBehind ==
  ASSUME ScanParameters, NEW w, Starts(w), w.at # 1
  PROVE  w.at \in Nat /\ w.at >= 5
<1>1. PICK c \in Nat : w.at = c * Frame + 1
  BY DEF Starts
<1>2. PICK F \in Nat : F = Frame /\ F >= 4
  BY Multiples
<1>3. c # 0
  BY <1>1, <1>2
<1>4. 0 * Frame = 0 /\ 0 * Frame + Frame <= c * Frame /\ c * Frame \in Nat
  <2>1. 0 \in Nat /\ 0 < c
    BY <1>3
  <2>2. 0 * Frame = 0
    BY <1>2
  <2> QED
    BY <2>1, <2>2, Multiples
<1>5. PICK x \in Nat : x = c * Frame /\ x >= F
  BY <1>2, <1>4
<1> QED
  BY <1>1, <1>2, <1>5

(* Four words that stand one behind the other and look like a record of    *)
(* this phase: their index is the record's own, whatever MAGIC they have,  *)
(* or they are the remains of the earlier phase and of a later frame,      *)
(* which look like record 0.                                               *)
LEMMA WindowIs ==
  ASSUME ScanParameters, NEW u, NEW v, NEW w, NEW x, NEW j \in Nat,
         Sent(u), Sent(v), Sent(w), Sent(x),
         u.val = Magic, v.val = Own, w.val = j, x.val = 0,
         Before(u, v), Before(v, w), Before(w, x),
         Follows(u, v), Follows(v, w), Follows(w, x)
  PROVE  \/ w.phase = Own /\ x.phase = Own /\ w.at = 4 * j + 3
         \/ j = 0 /\ w.phase = Foreign /\ x.phase = Own /\ x.at >= 8
<1>1. Own \in Nat /\ Own # Foreign /\ Magic \notin Nat
  BY DEF ScanParameters, Magic
<1>2. PICK a \in Nat, b \in Nat, c \in Nat, d \in Nat :
        /\ a = u.at /\ b = v.at /\ c = w.at /\ d = x.at
        /\ a % 4 = 1 /\ b % 4 # 1 /\ c % 4 # 1 /\ d % 4 # 1
        /\ a >= 1 /\ b >= 1 /\ c >= 1 /\ d >= 1
  <2>1. \A y \in {u, v, w, x} : y.at \in Nat /\ y.at >= 1
    <3>1. \A y \in {u, v, w, x} : Size(y.phase) \in Nat /\ y.at \in 1 .. Size(y.phase)
      BY SentIs
    <3> QED
      BY <3>1
  <2>2. u.at % 4 = 1 /\ v.at % 4 # 1 /\ w.at % 4 # 1 /\ x.at % 4 # 1
    BY <1>1, SentIs
  <2> QED
    BY <2>1, <2>2
<1>3. /\ v.phase \in {Own, Foreign} /\ w.phase \in {Own, Foreign} /\ x.phase \in {Own, Foreign}
      /\ u.phase \in {Own, Foreign}
  BY SentIs
<1>4. /\ b % 4 = 2 => v.phase = Own
      /\ b % 4 = 3 => b = 4 * Own + 3
      /\ b % 4 = 0 => Own = 0
      /\ c % 4 = 2 => w.phase = j
      /\ c % 4 = 3 => c = 4 * j + 3
      /\ c % 4 = 0 => j = 0
      /\ d % 4 = 2 => x.phase = 0
      /\ d % 4 = 3 => d = 3
  <2>1. d % 4 = 3 => d = 4 * 0 + 3
    BY <1>2, SentIs
  <2> QED
    BY <1>2, <2>1, SentIs
<1>5. /\ v.phase = Own => w.phase = Own
      /\ w.phase = Own => x.phase = Own
      /\ v.phase = w.phase => b < c
      /\ w.phase = x.phase => c < d
      /\ u.phase = Own => v.phase = Own
      /\ u.phase = v.phase => a < b
  BY <1>2 DEF Before
<1>6. /\ Starts(v) => b >= 5
      /\ Starts(w) => c >= 5
      /\ Starts(x) => d >= 5
  <2>1. b # 1 /\ c # 1 /\ d # 1
    BY <1>2
  <2> QED
    BY <1>2, <2>1, StartsBehind
  (* Nothing of a phase comes behind its last word. *)
<1>7. ASSUME NEW y, NEW z, Sent(y), Sent(z), Before(y, z), y.at = Size(y.phase)
      PROVE  y.phase = Foreign /\ z.phase = Own
  <2>1. y.phase \in {Own, Foreign} /\ z.phase \in {Own, Foreign}
    BY <1>7, SentIs
  <2>2. y.phase # z.phase
    <3> SUFFICES ASSUME y.phase = z.phase PROVE FALSE
      OBVIOUS
    <3>1. z.at \in 1 .. Size(z.phase) /\ Size(z.phase) \in Nat /\ y.at < z.at /\ y.at = Size(z.phase)
      BY <1>7, SentIs DEF Before
    <3> QED
      BY <3>1
  <2> QED
    BY <1>7, <2>1, <2>2 DEF Before
<1>8. CASE w.phase = v.phase /\ c = b + 1
  (* Tag and index stand together. *)
  <2>1. b % 4 \in {2, 3}
    BY <1>2, <1>8
  <2>2. CASE b % 4 = 2
    BY <1>2, <1>4, <1>5, <1>8, <2>2
  <2>3. CASE b % 4 = 3
    <3>1. c % 4 = 0 /\ j = 0
      BY <1>4, <1>8, <2>3
    <3>2. ~(x.phase = w.phase /\ d = c + 1)
      BY <1>2, <3>1
    <3>3. Ends(w) /\ Starts(x)
      BY <1>2, <3>2 DEF Follows
    <3>4. ~(v.phase = u.phase /\ b = a + 1)
      BY <1>2, <2>3
    <3>5. Ends(u) /\ Starts(v)
      BY <1>2, <3>4 DEF Follows
    <3>6. w.at = Size(w.phase)
      <4>1. w.at \in v.at .. v.at + 2
        BY <1>2, <1>8
      <4> QED
        BY <1>8, <3>3, <3>5, <4>1, FrameSpan
    <3>7. w.phase = Foreign /\ x.phase = Own
      BY <1>7, <3>6
    <3>8. CASE d % 4 = 0
      <4>1. d >= 8
        BY <1>6, <3>3, <3>8
      <4> QED
        BY <1>2, <3>1, <3>7, <4>1
    <3>9. CASE d % 4 = 2
      (* The tag of a later frame for the index's second half: that needs  *)
      (* tag 0, and an earlier phase of one record, which is one frame.    *)
      <4>1. Own = 0 /\ b = 3
        BY <1>4, <2>3, <3>7, <3>9
      <4>2. u.phase = Foreign /\ a < 3
        BY <1>3, <1>5, <1>8, <3>7, <4>1, <1>1
      <4>3. u.at = 1
        <5>1. a = 1
          BY <1>2, <4>2
        <5> QED
          BY <1>2, <5>1
      <4>4. u.at = Size(u.phase)
        <5> SUFFICES ASSUME u.at # Size(u.phase) PROVE FALSE
          OBVIOUS
        <5>1. PICK k \in Nat : u.at = k * Frame
          BY <3>5 DEF Ends
        <5>2. PICK F \in Nat : F = Frame /\ F >= 4
          BY Multiples
        <5>3. 0 * Frame = 0
          BY <5>2
        <5>4. k # 0
          <6> SUFFICES ASSUME k = 0 PROVE FALSE
            OBVIOUS
          <6>1. u.at = 0
            BY <5>1, <5>3
          <6> QED
            BY <4>3, <6>1
        <5>5. PICK y \in Nat : y = k * Frame /\ F <= y
          <6>1. 0 \in Nat /\ 0 < k
            BY <5>4
          <6>2. 0 * Frame + Frame <= k * Frame /\ k * Frame \in Nat
            BY <6>1, Multiples
          <6> QED
            BY <5>2, <5>3, <6>2
        <5> QED
          BY <4>3, <5>1, <5>2, <5>5
      <4>5. Size(u.phase) % 4 = 0
        BY SentIs
      <4> QED
        BY <4>3, <4>4, <4>5
    <3>10. CASE d % 4 = 3
      BY <1>4, <1>6, <3>3, <3>10
    <3> QED
      BY <1>2, <3>8, <3>9, <3>10
  <2> QED
    BY <2>1, <2>2, <2>3
<1>9. CASE ~(w.phase = v.phase /\ c = b + 1)
  (* The index is the first of its frame. *)
  <2>1. Ends(v) /\ Starts(w) /\ c >= 5
    BY <1>2, <1>6, <1>9 DEF Follows
  <2>2. v.phase = Own \/ (v.phase = Foreign /\ w.phase = Own)
    <3>1. CASE v.phase = u.phase /\ b = a + 1
      BY <1>2, <1>4, <3>1
    <3>2. CASE ~(v.phase = u.phase /\ b = a + 1)
      <4>1. Starts(v)
        BY <1>2, <3>2 DEF Follows
      <4>2. v.at \in v.at .. v.at + 2
        BY <1>2
      <4>3. v.at = Size(v.phase)
        BY <2>1, <4>1, <4>2, FrameSpan
      <4> QED
        BY <1>7, <4>3
    <3> QED
      BY <3>1, <3>2
  <2>3. w.phase = Own /\ x.phase = Own
    BY <1>5, <2>2
  <2>4. d = c + 1
    <3> SUFFICES ASSUME d # c + 1 PROVE FALSE
      OBVIOUS
    <3>1. Ends(w)
      BY <1>2 DEF Follows
    <3>2. w.at \in w.at .. w.at + 2
      BY <1>2
    <3>3. w.at = Size(w.phase)
      BY <2>1, <3>1, <3>2, FrameSpan
    <3> QED
      BY <1>1, <1>7, <2>3, <3>3
  <2>5. c % 4 \in {2, 3}
    BY <1>2, <2>4
  <2>6. c % 4 # 2
    BY <1>4, <2>1, <2>4
  <2> QED
    BY <1>2, <1>4, <2>3, <2>5, <2>6
<1> QED
  BY <1>8, <1>9

(* What was read of a stream is one, too. *)
LEMMA BufferInOrder ==
  ASSUME ScannedInv, StreamInv
  PROVE  InOrder(received)
<1>1. PICK n \in Nat, m \in Nat : n = Len(received) /\ m = Len(arrived)
  BY DEF ScannedInv
<1>2. PICK u \in Seq(Words) : u = received \o arrived /\ Len(u) = n + m
        /\ \A i \in 1 .. n : u[i] = received[i]
  <2>1. /\ received \o arrived \in Seq(Words) /\ Len(received \o arrived) = n + m
        /\ \A i \in 1 .. n + m : (received \o arrived)[i] = IF i <= n THEN received[i] ELSE arrived[i - n]
    BY <1>1, ConcatProperties DEF ScannedInv
  <2>2. PICK u \in Seq(Words) : u = received \o arrived
    BY <2>1
  <2>3. \A i \in 1 .. n : i \in 1 .. n + m /\ i <= n
    OBVIOUS
  <2> QED
    BY <2>1, <2>2, <2>3
<1>3. InOrder(u)
  BY <1>2 DEF StreamInv
<1>4. \A i \in 1 .. n : i \in 1 .. n + m /\ Sent(received[i])
  BY <1>2, <1>3 DEF InOrder
<1>5. ASSUME NEW i \in 1 .. n, NEW j \in i + 1 .. n PROVE Before(received[i], received[j])
  <2>1. i \in 1 .. n + m /\ j \in i + 1 .. n + m /\ j \in 1 .. n
    OBVIOUS
  <2> QED
    BY <1>2, <1>3, <2>1 DEF InOrder
<1>6. ASSUME n >= 1 PROVE Starts(received[1])
  <2>1. 1 \in 1 .. n /\ n + m >= 1
    BY <1>6
  <2> QED
    BY <1>2, <1>3, <2>1 DEF InOrder
<1>7. ASSUME NEW i \in 1 .. n - 1 PROVE Follows(received[i], received[i + 1])
  <2>1. i \in 1 .. (n + m) - 1 /\ i \in 1 .. n /\ i + 1 \in 1 .. n
    OBVIOUS
  <2> QED
    BY <1>2, <1>3, <2>1 DEF InOrder
<1> QED
  BY <1>1, <1>4, <1>5, <1>6, <1>7 DEF InOrder

(* What is collected is pieces of four words each that stand together in   *)
(* the received.                                                             *)
Pieces(b, t) ==
  \E m \in Nat :
    /\ Len(t) = 4 * m
    /\ \A k \in 0 .. m - 1 : \E q \in 0 .. Len(b) - 4 : \A d \in 1 .. 4 : t[4 * k + d] = b[q + d]

(* That holds of every scan. *)
LEMMA TakenIs ==
  ASSUME NEW W, NEW b \in Seq(W), NEW at \in 0 .. Len(b)
  PROVE  Pieces(b, ScanRecords(b, at).taken)
<1>1. PICK n \in Nat : n = Len(b)
  OBVIOUS
<1> DEFINE S == {i \in Nat : Pieces(b, ScanRecords(b, i).taken)}
<1>2. ASSUME NEW i \in 0 .. n, \A to \in i + 1 .. n : to \in S PROVE i \in S
  <2>1. i \in Nat /\ i \in 0 .. Len(b)
    BY <1>1
  <2>2. CASE ~Fits(b, i)
    <3>1. ScanRecords(b, i).taken = <<>>
      BY <1>1, <2>1, <2>2, ScanIs DEF Stop
    <3>2. Pieces(b, <<>>)
      <4>1. 0 \in Nat /\ Len(<<>>) = 4 * 0 /\ \A k : k \notin 0 .. 0 - 1
        OBVIOUS
      <4> QED
        BY <4>1 DEF Pieces
    <3> QED
      BY <2>1, <3>1, <3>2
  <2>3. CASE Fits(b, i)
    <3>1. i + 4 <= n /\ i + Stride(b, i) \in i + 1 .. n
          /\ Min({i + RecordSize, Len(b)}) = i + 4
      BY <1>1, <2>1, <2>3, FitsIs
    <3>2. PICK r \in Found(W, n) : r = ScanRecords(b, i + Stride(b, i)) /\ Pieces(b, r.taken)
      <4>1. i + Stride(b, i) \in 0 .. Len(b)
        BY <1>1, <3>1
      <4> QED
        BY <1>1, <1>2, <3>1, <4>1, ScanTyped
    <3>3. PICK t \in Seq(W) : t = r.taken
      BY DEF Found
    <3>4. ScanRecords(b, i) = Ahead(b, i, r)
      BY <1>1, <2>1, <2>3, <3>2, ScanIs
    <3>5. PICK p \in Seq(W) : p = SubSeq(b, i + 1, i + 4) /\ Len(p) = 4
            /\ \A d \in 1 .. 4 : p[d] = b[i + d]
      <4>1. \A d \in i + 1 .. i + 4 : b[d] \in W
        BY <1>1, <3>1
      <4>2. i + 1 \in Int /\ i + 4 \in Int /\ i + 1 <= i + 4 /\ (i + 4) - (i + 1) + 1 = 4
        OBVIOUS
      <4>3. /\ SubSeq(b, i + 1, i + 4) \in Seq(W) /\ Len(SubSeq(b, i + 1, i + 4)) = 4
            /\ \A d \in 1 .. 4 : SubSeq(b, i + 1, i + 4)[d] = b[(i + 1) + d - 1]
        BY <4>1, <4>2, SubSeqProperties
      <4>4. \A d \in 1 .. 4 : (i + 1) + d - 1 = i + d
        OBVIOUS
      <4> QED
        BY <4>3, <4>4
    <3>6. Ahead(b, i, r).taken \in {p \o t, t}
      BY <3>1, <3>3, <3>5 DEF Ahead
    <3>7. Pieces(b, p \o t)
      <4>1. PICK m \in Nat :
              /\ Len(t) = 4 * m
              /\ \A k \in 0 .. m - 1 :
                   \E q \in 0 .. Len(b) - 4 : \A d \in 1 .. 4 : t[4 * k + d] = b[q + d]
        BY <3>2, <3>3 DEF Pieces
      <4>2. PICK v \in Seq(W) : v = p \o t /\ Len(v) = 4 + 4 * m
              /\ \A x \in 1 .. 4 + 4 * m : v[x] = IF x <= 4 THEN p[x] ELSE t[x - 4]
        <5>1. /\ p \o t \in Seq(W) /\ Len(p \o t) = 4 + 4 * m
              /\ \A x \in 1 .. 4 + 4 * m : (p \o t)[x] = IF x <= 4 THEN p[x] ELSE t[x - 4]
          BY <3>5, <4>1, ConcatProperties
        <5>2. PICK v \in Seq(W) : v = p \o t
          BY <5>1
        <5> QED
          BY <5>1, <5>2, Zenon
      <4>3. ASSUME NEW k \in 0 .. (m + 1) - 1
            PROVE  \E q \in 0 .. Len(b) - 4 : \A d \in 1 .. 4 : v[4 * k + d] = b[q + d]
        <5>1. CASE k = 0
          <6>1. i \in 0 .. Len(b) - 4
            BY <1>1, <3>1
          <6>2. ASSUME NEW d \in 1 .. 4 PROVE v[4 * k + d] = b[i + d]
            <7>1. 4 * k + d = d /\ d \in 1 .. 4 + 4 * m /\ d <= 4
              BY <5>1
            <7> QED
              BY <3>5, <4>2, <7>1
          <6> QED
            BY <6>1, <6>2
        <5>2. CASE k # 0
          <6>1. k - 1 \in 0 .. m - 1
            BY <5>2
          <6>2. PICK q \in 0 .. Len(b) - 4 : \A d \in 1 .. 4 : t[4 * (k - 1) + d] = b[q + d]
            BY <4>1, <6>1
          <6>3. ASSUME NEW d \in 1 .. 4 PROVE v[4 * k + d] = b[q + d]
            <7>1. PICK x \in Nat : x = 4 * k + d
              OBVIOUS
            <7>2. x \in 1 .. 4 + 4 * m /\ ~(x <= 4) /\ x - 4 = 4 * (k - 1) + d
              BY <5>2, <7>1
            <7> QED
              BY <4>2, <6>2, <7>1, <7>2
          <6> QED
            BY <6>2, <6>3
        <5> QED
          BY <5>1, <5>2
      <4>4. m + 1 \in Nat /\ Len(v) = 4 * (m + 1)
        BY <4>2
      <4> QED
        BY <4>2, <4>3, <4>4 DEF Pieces
    <3>8. Pieces(b, ScanRecords(b, i).taken)
      BY <3>2, <3>3, <3>4, <3>6, <3>7
    <3> QED
      BY <2>1, <3>8
  <2> QED
    BY <2>2, <2>3
<1>3. \A i \in 0 .. n : i \in S
  <2> HIDE DEF S
  <2> QED
    BY <1>2, Downward
<1> QED
  BY <1>1, <1>3

(* The word has been read. *)
WasRead(k) == \E i \in 1 .. Len(received) : received[i] = Word(Own, k)

(* A digest that is right is of one piece of the received per record, which  *)
(* looks like it.                                                          *)
LEMMA DigestIs ==
  ASSUME ScanParameters, ScannedInv, StreamInv, ShaOk, NEW j \in 0 .. OwnRecords - 1
  PROVE  \E q \in 0 .. Len(received) - 4 :
           \/ /\ received[q + 3].phase = Own /\ received[q + 4].phase = Own
              /\ received[q + 3].at = 4 * j + 3
           \/ /\ j = 0 /\ received[q + 3].phase = Foreign /\ received[q + 4].phase = Own
              /\ received[q + 4].at >= 8
<1>1. PICK R \in Nat : R = OwnRecords /\ R >= 1
  BY DEF ScanParameters
<1>2. PICK n \in Nat : n = Len(received) /\ received \in Seq(Words)
  BY DEF ScannedInv
<1>3. Pieces(received, mineBuf)
  <2>1. 0 \in 0 .. Len(received)
    BY <1>2
  <2> QED
    BY <1>2, <2>1, TakenIs DEF ScannedInv, ReadsDoNotMatter
<1>4. Len(mineBuf) = 4 * R /\ \A k \in 1 .. 4 * R : mineBuf[k].val = Word(Own, k).val
  <2>1. OwnRecords * RecordSize = 4 * R
    BY <1>1 DEF RecordSize
  <2> QED
    BY <2>1 DEF ShaOk
<1>5. PICK m \in Nat :
        /\ Len(mineBuf) = 4 * m
        /\ \A k \in 0 .. m - 1 :
             \E q \in 0 .. Len(received) - 4 : \A d \in 1 .. 4 : mineBuf[4 * k + d] = received[q + d]
  BY <1>3 DEF Pieces
<1>6. m = R
  BY <1>4, <1>5
<1>7. PICK q \in 0 .. Len(received) - 4 : \A d \in 1 .. 4 : mineBuf[4 * j + d] = received[q + d]
  BY <1>1, <1>5, <1>6
<1>8. \A d \in 1 .. 4 : received[q + d].val = Word(Own, 4 * j + d).val
  <2> SUFFICES ASSUME NEW d \in 1 .. 4 PROVE received[q + d].val = Word(Own, 4 * j + d).val
    OBVIOUS
  <2>1. 4 * j + d \in 1 .. 4 * R
    BY <1>1
  <2> QED
    BY <1>4, <1>7, <2>1
<1>9. /\ Word(Own, 4 * j + 1).val = Magic /\ Word(Own, 4 * j + 2).val = Own
      /\ Word(Own, 4 * j + 3).val = j /\ Word(Own, 4 * j + 4).val = 0
  <2>1. \A k : Word(Own, k).at = k /\ Word(Own, k).phase = Own
    BY DEF Word
  <2>2. Size(Own) = 4 * R
    BY <1>1 DEF Size
  <2>3. ASSUME NEW d \in 1 .. 4 PROVE Sent(Word(Own, 4 * j + d))
    <3>1. 4 * j + d \in 1 .. 4 * R
      BY <1>1
    <3> QED
      BY <2>2, <3>1 DEF Sent
  <2>4. PICK a \in Nat, b \in Nat, c \in Nat, d \in Nat :
          /\ a = 4 * j + 1 /\ b = 4 * j + 2 /\ c = 4 * j + 3 /\ d = 4 * j + 4
          /\ a % 4 = 1 /\ b % 4 = 2 /\ c % 4 = 3 /\ d % 4 = 0
    BY <1>1
  <2>5. Sent(Word(Own, a)) /\ Sent(Word(Own, b)) /\ Sent(Word(Own, c))
        /\ Sent(Word(Own, d))
    BY <2>3, <2>4
  <2>6. PICK s, t, u, v : s = Word(Own, a) /\ t = Word(Own, b)
                          /\ u = Word(Own, c) /\ v = Word(Own, d)
    OBVIOUS
  <2>7. /\ Sent(s) /\ Sent(t) /\ Sent(u) /\ Sent(v) /\ t.phase = Own
        /\ s.at = a /\ t.at = b /\ u.at = c /\ v.at = d
    BY <2>1, <2>5, <2>6
  <2>8. s.val = Magic /\ t.val = Own /\ v.val = 0
    BY <2>4, <2>7, SentIs
  <2>9. u.val \in Nat /\ c = 4 * u.val + 3
    BY <2>4, <2>7, SentIs
  <2>10. u.val = j
    BY <1>1, <2>4, <2>9
  <2> QED
    BY <2>4, <2>6, <2>8, <2>10
<1>10. /\ q \in Nat /\ q + 1 \in 1 .. n /\ q + 2 \in 1 .. n /\ q + 3 \in 1 .. n /\ q + 4 \in 1 .. n
       /\ q + 1 \in 1 .. n - 1 /\ q + 2 \in 1 .. n - 1 /\ q + 3 \in 1 .. n - 1
       /\ q + 2 \in (q + 1) + 1 .. n /\ q + 3 \in (q + 2) + 1 .. n /\ q + 4 \in (q + 3) + 1 .. n
       /\ (q + 1) + 1 = q + 2 /\ (q + 2) + 1 = q + 3 /\ (q + 3) + 1 = q + 4
  BY <1>2
<1>11. received[q + 1].val = Magic /\ received[q + 2].val = Own /\ received[q + 3].val = j
       /\ received[q + 4].val = 0
  <2>1. 1 \in 1 .. 4 /\ 2 \in 1 .. 4 /\ 3 \in 1 .. 4 /\ 4 \in 1 .. 4
    OBVIOUS
  <2> QED
    BY <1>8, <1>9, <2>1
<1>12. InOrder(received)
  BY BufferInOrder
<1>13. /\ Sent(received[q + 1]) /\ Sent(received[q + 2]) /\ Sent(received[q + 3]) /\ Sent(received[q + 4])
  BY <1>2, <1>10, <1>12 DEF InOrder
<1>14. /\ Before(received[q + 1], received[q + 2]) /\ Before(received[q + 2], received[q + 3])
       /\ Before(received[q + 3], received[q + 4])
  BY <1>2, <1>10, <1>12 DEF InOrder
<1>15. /\ Follows(received[q + 1], received[q + 2]) /\ Follows(received[q + 2], received[q + 3])
       /\ Follows(received[q + 3], received[q + 4])
  <2>1. /\ Follows(received[q + 1], received[(q + 1) + 1]) /\ Follows(received[q + 2], received[(q + 2) + 1])
        /\ Follows(received[q + 3], received[(q + 3) + 1])
    BY <1>2, <1>10, <1>12 DEF InOrder
  <2> QED
    BY <1>10, <2>1
<1>16. j \in Nat
  BY <1>1
<1>17. \/ received[q + 3].phase = Own /\ received[q + 4].phase = Own /\ received[q + 3].at = 4 * j + 3
       \/ /\ j = 0 /\ received[q + 3].phase = Foreign /\ received[q + 4].phase = Own
          /\ received[q + 4].at >= 8
  BY <1>11, <1>13, <1>14, <1>15, <1>16, WindowIs
<1> QED
  BY <1>17, Zenon

(* So every record's index has been read: what could pass for record 0     *)
(* without it stands behind where record 1 has to be.                      *)
LEMMA IndicesAreRead ==
  ASSUME ScanParameters, ScannedInv, StreamInv, ShaOk, NEW j \in 0 .. OwnRecords - 1
  PROVE  WasRead(4 * j + 3)
<1>1. PICK R \in Nat : R = OwnRecords /\ R >= 1
  BY DEF ScanParameters
<1>2. PICK n \in Nat : n = Len(received) /\ received \in Seq(Words)
  BY DEF ScannedInv
<1>3. InOrder(received)
  BY BufferInOrder
<1>4. ASSUME NEW k \in 0 .. R - 1, NEW q \in 0 .. n - 4, received[q + 3].phase = Own,
             received[q + 3].at = 4 * k + 3
      PROVE  q + 3 \in 1 .. n /\ received[q + 3] = Word(Own, 4 * k + 3)
  <2>1. q + 3 \in 1 .. n
    OBVIOUS
  <2>2. Sent(received[q + 3])
    BY <1>2, <1>3, <2>1 DEF InOrder
  <2> QED
    BY <1>4, <2>1, <2>2, SentIs
<1>5. PICK q \in 0 .. n - 4 :
           \/ /\ received[q + 3].phase = Own /\ received[q + 4].phase = Own
              /\ received[q + 3].at = 4 * j + 3
           \/ /\ j = 0 /\ received[q + 3].phase = Foreign /\ received[q + 4].phase = Own
              /\ received[q + 4].at >= 8
  BY <1>2, DigestIs
<1>6. CASE received[q + 3].phase = Own /\ received[q + 3].at = 4 * j + 3
  BY <1>1, <1>2, <1>4, <1>6 DEF WasRead
<1>7. CASE /\ j = 0 /\ received[q + 3].phase = Foreign /\ received[q + 4].phase = Own
           /\ received[q + 4].at >= 8
  <2>1. q + 3 \in 1 .. n /\ q + 4 \in 1 .. n
    OBVIOUS
  <2>2. PICK a \in Nat : a = received[q + 4].at /\ a >= 8 /\ a <= 4 * R
    <3>1. Sent(received[q + 4])
      BY <1>2, <1>3, <2>1 DEF InOrder
    <3>2. Size(Own) = R * 4
      BY <1>1 DEF Size
    <3>3. received[q + 4].at \in 1 .. R * 4
      BY <1>7, <3>1, <3>2, SentIs
    <3> QED
      BY <1>7, <3>3
  <2>3. 1 \in 0 .. R - 1
    BY <2>2
  <2>4. PICK r \in 0 .. n - 4 : received[r + 3].phase = Own /\ received[r + 3].at = 7
    <3>1. \E r \in 0 .. n - 4 :
           \/ received[r + 3].phase = Own /\ received[r + 3].at = 4 * 1 + 3
           \/ 1 = 0
      BY <1>1, <1>2, <2>3, DigestIs
    <3> QED
      BY <3>1
  <2>5. r + 3 \in 1 .. n
    OBVIOUS
  <2>6. Own # Foreign
    BY DEF ScanParameters
  <2>7. CASE r < q
    <3>1. q + 3 \in (r + 3) + 1 .. n
      BY <2>7
    <3>2. Before(received[r + 3], received[q + 3])
      BY <1>2, <1>3, <2>5, <3>1 DEF InOrder
    <3> QED
      BY <1>7, <2>4, <2>6, <3>2 DEF Before
  <2>8. CASE r = q
    BY <1>7, <2>4, <2>6, <2>8
  <2>9. CASE r = q + 1
    <3>1. r + 3 = q + 4
      BY <2>9
    <3> QED
      BY <2>2, <2>4, <3>1
  <2>10. CASE r > q + 1
    <3>1. r + 3 \in (q + 4) + 1 .. n
      BY <2>10
    <3>2. Before(received[q + 4], received[r + 3])
      BY <1>2, <1>3, <2>1, <3>1 DEF InOrder
    <3>3. received[q + 4].at < 7
      BY <1>7, <2>4, <3>2 DEF Before
    <3> QED
      BY <2>2, <3>3
  <2> QED
    BY <2>7, <2>8, <2>9, <2>10
<1> QED
  BY <1>5, <1>6, <1>7

(* Where every index has been read, a word is read only behind the one it  *)
(* was sent behind: a frame lost before it would hold an index.            *)
LEMMA GoesBack ==
  ASSUME ScanParameters, ScannedInv, StreamInv, NEW k \in Nat, k >= 2,
         WasRead(k), \A l \in 1 .. k - 1 : l % 4 = 3 => WasRead(l)
  PROVE  WasRead(k - 1)
<1>1. PICK n \in Nat : n = Len(received) /\ received \in Seq(Words)
  BY DEF ScannedInv
<1>2. InOrder(received)
  BY BufferInOrder
<1>3. \A l : Word(Own, l).at = l /\ Word(Own, l).phase = Own
  BY DEF Word
<1>4. PICK i \in 1 .. n : received[i] = Word(Own, k)
  BY <1>1 DEF WasRead
<1>5. Sent(received[i]) /\ received[i].at = k /\ received[i].phase = Own
  BY <1>1, <1>2, <1>3, <1>4 DEF InOrder
<1>6. CASE i > 1 /\ received[i - 1].phase = Own /\ received[i - 1].at = k - 1
  <2>1. i - 1 \in 1 .. n
    BY <1>6
  <2>2. Sent(received[i - 1])
    BY <1>1, <1>2, <2>1 DEF InOrder
  <2>3. received[i - 1] = Word(Own, k - 1)
    BY <1>6, <2>2, SentIs
  <2> QED
    BY <1>1, <2>1, <2>3 DEF WasRead
<1>7. CASE ~(i > 1 /\ received[i - 1].phase = Own /\ received[i - 1].at = k - 1)
  <2>1. Starts(received[i]) /\ (i > 1 => Ends(received[i - 1]))
    <3>1. CASE i = 1
      <4>1. n >= 1
        BY <3>1
      <4> QED
        BY <1>1, <1>2, <3>1, <4>1 DEF InOrder
    <3>2. CASE i > 1
      <4>1. i - 1 \in 1 .. n - 1 /\ (i - 1) + 1 = i
        BY <3>2
      <4>2. Follows(received[i - 1], received[i])
        BY <1>1, <1>2, <4>1 DEF InOrder
      <4>3. ~(received[i].phase = received[i - 1].phase /\ received[i].at = received[i - 1].at + 1)
        <5> SUFFICES ASSUME received[i].phase = received[i - 1].phase, received[i].at = received[i - 1].at + 1
                     PROVE  FALSE
          OBVIOUS
        <5>1. i - 1 \in 1 .. n
          BY <4>1
        <5>2. Sent(received[i - 1])
          BY <1>1, <1>2, <5>1 DEF InOrder
        <5>3. received[i - 1].at \in 1 .. Size(received[i - 1].phase) /\ Size(received[i - 1].phase) \in Nat
          BY <5>2, SentIs
        <5>4. received[i - 1].at = k - 1
          BY <1>5, <5>3
        <5> QED
          BY <1>5, <1>7, <3>2, <5>4
      <4> QED
        BY <3>2, <4>2, <4>3 DEF Follows
    <3> QED
      BY <3>1, <3>2
  <2>2. k >= 5
    <3>1. received[i].at # 1
      BY <1>5
    <3> QED
      BY <1>5, <2>1, <3>1, StartsBehind
  <2>3. PICK l \in Nat : l \in k - 4 .. k - 1 /\ l % 4 = 3 /\ l \in 1 .. k - 1
    <3>1. PICK d \in 1 .. 4 : (k - d) % 4 = 3
      <4>1. /\ k % 4 = 0 => (k - 1) % 4 = 3
            /\ k % 4 = 1 => (k - 2) % 4 = 3
            /\ k % 4 = 2 => (k - 3) % 4 = 3
            /\ k % 4 = 3 => (k - 4) % 4 = 3
            /\ k % 4 \in 0 .. 3
        BY <2>2
      <4>2. 1 \in 1 .. 4 /\ 2 \in 1 .. 4 /\ 3 \in 1 .. 4 /\ 4 \in 1 .. 4
        OBVIOUS
      <4>3. k % 4 = 0 \/ k % 4 = 1 \/ k % 4 = 2 \/ k % 4 = 3
        BY <4>1
      <4> QED
        BY <4>1, <4>2, <4>3, Zenon
    <3>2. PICK l \in Nat : l = k - d
      BY <2>2
    <3>3. l \in k - 4 .. k - 1 /\ l \in 1 .. k - 1
      BY <2>2, <3>2
    <3> QED
      BY <3>1, <3>2, <3>3
  <2>4. PICK h \in 1 .. n : received[h] = Word(Own, l)
    BY <1>1, <2>3 DEF WasRead
  <2>5. received[h].at = l /\ received[h].phase = Own
    BY <1>3, <2>4
  <2>6. h < i
    <3>1. CASE h = i
      BY <1>5, <2>3, <2>5, <3>1
    <3>2. CASE h > i
      <4>1. h \in i + 1 .. n
        BY <3>2
      <4>2. Before(received[i], received[h])
        BY <1>1, <1>2, <4>1 DEF InOrder
      <4>3. k < l
        BY <1>5, <2>5, <4>2 DEF Before
      <4> QED
        BY <2>3, <4>3
    <3> QED
      BY <3>1, <3>2
  <2>7. i > 1 /\ i - 1 \in 1 .. n
    BY <2>6
  <2>8. received[i - 1].phase = Own /\ received[i - 1].at \in Nat /\ received[i - 1].at >= l
    <3>1. CASE h = i - 1
      BY <2>5, <3>1
    <3>2. CASE h < i - 1
      <4>1. i - 1 \in h + 1 .. n
        BY <3>2
      <4>2. Before(received[h], received[i - 1])
        BY <1>1, <1>2, <4>1 DEF InOrder
      <4>3. received[i - 1].phase = Own /\ l < received[i - 1].at
        BY <2>5, <4>2 DEF Before
      <4>4. Sent(received[i - 1])
        BY <1>1, <1>2, <2>7 DEF InOrder
      <4>5. received[i - 1].at \in 1 .. Size(Own) /\ Size(Own) \in Nat
        BY <4>3, <4>4, SentIs
      <4> QED
        BY <4>3, <4>5
    <3> QED
      BY <2>6, <3>1, <3>2
  <2>9. PICK a \in Nat : a = received[i - 1].at /\ l <= a /\ a < k
    <3>1. i \in (i - 1) + 1 .. n
      OBVIOUS
    <3>2. Before(received[i - 1], received[i])
      BY <1>1, <1>2, <2>7, <3>1 DEF InOrder
    <3>3. received[i - 1].at < k
      BY <1>5, <2>8, <3>2 DEF Before
    <3> QED
      BY <2>8, <3>3
  <2>10. a # Size(Own)
    <3>1. k \in 1 .. Size(Own) /\ Size(Own) \in Nat
      BY <1>5, SentIs
    <3> QED
      BY <2>9, <3>1
  <2>11. PICK d \in Nat : a = d * Frame
    BY <2>1, <2>7, <2>8, <2>9, <2>10 DEF Ends
  <2>12. PICK c \in Nat : k = c * Frame + 1
    BY <1>5, <2>1 DEF Starts
  <2>13. PICK x \in Nat, y \in Nat, F \in Nat :
           x = d * Frame /\ y = c * Frame /\ F = Frame /\ F >= 4 /\ (x < y => x + F <= y)
    BY Multiples
  <2>14. a = k - 1
    BY <2>3, <2>9, <2>11, <2>12, <2>13
  <2> QED
    BY <1>7, <2>7, <2>8, <2>9, <2>14
<1> QED
  BY <1>6, <1>7

(* The last word has been read: it stands behind the last index.           *)
LEMMA LastIsRead ==
  ASSUME ScanParameters, ScannedInv, StreamInv, ShaOk
  PROVE  WasRead(4 * OwnRecords)
<1>1. PICK R \in Nat : R = OwnRecords /\ R >= 1 /\ Size(Own) = 4 * R
  BY DEF ScanParameters, Size
<1>2. PICK n \in Nat : n = Len(received) /\ received \in Seq(Words)
  BY DEF ScannedInv
<1>3. InOrder(received)
  BY BufferInOrder
<1>4. R - 1 \in 0 .. R - 1 /\ 4 * (R - 1) + 3 = 4 * R - 1
  BY <1>1
<1>5. PICK q \in 0 .. n - 4 :
           \/ /\ received[q + 3].phase = Own /\ received[q + 4].phase = Own
              /\ received[q + 3].at = 4 * R - 1
           \/ /\ R = 1 /\ received[q + 4].phase = Own
              /\ received[q + 4].at >= 8
  <2>1. \E q \in 0 .. Len(received) - 4 :
           \/ /\ received[q + 3].phase = Own /\ received[q + 4].phase = Own
              /\ received[q + 3].at = 4 * (R - 1) + 3
           \/ /\ R - 1 = 0 /\ received[q + 3].phase = Foreign /\ received[q + 4].phase = Own
              /\ received[q + 4].at >= 8
    BY <1>1, <1>4, DigestIs
  <2>2. R - 1 = 0 => R = 1
    BY <1>1
  <2> QED
    BY <1>2, <1>4, <2>1, <2>2
<1>6. q + 3 \in 1 .. n /\ q + 4 \in 1 .. n /\ q + 4 \in (q + 3) + 1 .. n
  OBVIOUS
<1>7. Sent(received[q + 4]) /\ Before(received[q + 3], received[q + 4])
  BY <1>2, <1>3, <1>6 DEF InOrder
<1>8. received[q + 4].phase = Own
  BY <1>5
<1>9. received[q + 4].at \in 1 .. 4 * R
  BY <1>1, <1>7, <1>8, SentIs
<1>10. received[q + 4].at = 4 * R
  <2>1. CASE received[q + 3].phase = Own /\ received[q + 3].at = 4 * R - 1
    <3>1. 4 * R - 1 < received[q + 4].at
      BY <1>7, <1>8, <2>1 DEF Before
    <3> QED
      BY <1>1, <1>9, <3>1
  <2>2. CASE R = 1 /\ received[q + 4].at >= 8
    BY <1>9, <2>2
  <2> QED
    BY <1>5, <2>1, <2>2
<1>11. received[q + 4] = Word(Own, 4 * R)
  BY <1>7, <1>8, <1>10, SentIs
<1> QED
  BY <1>1, <1>2, <1>6, <1>11 DEF WasRead

(* Whichever frames were lost, of this phase or of an earlier one, and     *)
(* however torn records pass for this phase's: if what was collected has   *)
(* the length and the digest of the payload, every word of the payload has *)
(* been read (sha_ok, which a scenario's verdict on a phase rests on).     *)
THEOREM DigestMeansWhole == ScanSpec => []CompleteMeansWhole
<1> USE ScanAssumption
<1>1. ScanInit => ScannedInv /\ StreamInv
  BY ScannedInit, StreamInit
<1>2. ScannedInv /\ StreamInv /\ [ScanNext]_scanVars => (ScannedInv /\ StreamInv)'
  BY ScannedStep, StreamStep
<1>3. ASSUME ScannedInv, StreamInv PROVE CompleteMeansWhole
  <2>1. SUFFICES ASSUME ShaOk
                 PROVE  \A k \in 1 .. OwnRecords * RecordSize : WasRead(k)
    BY DEF CompleteMeansWhole, WasRead
  <2>2. PICK R \in Nat, N \in Nat : R = OwnRecords /\ R >= 1 /\ N = 4 * R
                                    /\ N = OwnRecords * RecordSize
    BY DEF ScanParameters, RecordSize
  <2>3. \A l \in 1 .. N : l % 4 = 3 => WasRead(l)
    <3> SUFFICES ASSUME NEW l \in 1 .. N, l % 4 = 3 PROVE WasRead(l)
      OBVIOUS
    <3>1. PICK j \in 0 .. R - 1 : l = 4 * j + 3
      <4>1. l \div 4 \in 0 .. R - 1 /\ l = 4 * (l \div 4) + 3
        BY <2>2
      <4> QED
        BY <4>1
    <3> QED
      BY <1>3, <2>1, <2>2, <3>1, IndicesAreRead
  <2> DEFINE S == {k \in Nat : k = 0 \/ WasRead(k)}
  <2>4. ASSUME NEW k \in 0 .. N, \A l \in k + 1 .. N : l \in S PROVE k \in S
    <3>1. CASE k = 0
      BY <3>1
    <3>2. CASE k = N /\ k # 0
      <4>1. WasRead(4 * OwnRecords)
        BY <1>3, <2>1, LastIsRead
      <4> QED
        BY <2>2, <3>2, <4>1
    <3>3. CASE k # 0 /\ k # N
      <4>1. k + 1 \in k + 1 .. N /\ k + 1 \in Nat /\ k + 1 >= 2 /\ k + 1 # 0 /\ (k + 1) - 1 = k
        BY <3>3
      <4>2. WasRead(k + 1)
        BY <2>4, <4>1
      <4>3. \A l \in 1 .. (k + 1) - 1 : l % 4 = 3 => WasRead(l)
        <5>1. \A l \in 1 .. (k + 1) - 1 : l \in 1 .. N
          OBVIOUS
        <5> QED
          BY <2>3, <5>1
      <4>4. WasRead((k + 1) - 1)
        BY <1>3, <4>1, <4>2, <4>3, GoesBack
      <4> QED
        BY <4>1, <4>4
    <3> QED
      BY <3>1, <3>2, <3>3
  <2>5. \A k \in 0 .. N : k \in S
    <3> HIDE DEF S
    <3> QED
      BY <2>4, Downward
  <2> QED
    BY <2>2, <2>5
<1> QED
  BY <1>1, <1>2, <1>3, PTL DEF ScanSpec
=============================================================================
