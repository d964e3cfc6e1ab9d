-------------------------------- MODULE Pump --------------------------------
(***************************************************************************)
(* pump_halves (integration/src/pump.rs): one transfer through a HOPR      *)
(* session to the exit's loopback and back.  A writer future offers the    *)
(* payload on a schedule, a reader loop counts what comes back and decides *)
(* when to stop asking, and the call returns when both have ended.  The    *)
(* session in between loses what it likes, closes when it likes and may    *)
(* still hold an earlier phase's backlog.                                  *)
(*                                                                         *)
(* Data is counted in units: a unit is one tagged record for a phased pump *)
(* and one arbitrary piece of payload otherwise.  Losses cut through       *)
(* records, so the reader may take a torn one for a record of either phase *)
(* or not see it at all (Scan models how that comes about in the bytes);   *)
(* what it cannot do is count more records than it has read heads of.      *)
(* Time is counted in ticks; Lag bounds how late the executor may run a    *)
(* future whose timer has fired.                                           *)
(***************************************************************************)
EXTENDS StopRule, FiniteSets

CONSTANTS
  Opts,       \* the calls under study: payload, timeout and PumpOpts together
  FirstByte,  \* NO_FIRST_BYTE_TIMEOUT
  Poll,       \* READ_POLL_INTERVAL
  Lag         \* bound: ticks a due future may wait for the executor

(***************************************************************************)
(* The arguments of one call.  `grace` is Option<Duration> as a set of at  *)
(* most one number; `backlog` is what an earlier phase left undelivered in *)
(* the session; `gap` is the `off` of a burst or the `every` of a          *)
(* keep-alive; a `pace` of 0 is None.                                      *)
(***************************************************************************)
PumpOpts ==
  [total: Nat, chunk: Nat \ {0}, pace: Nat, shape: {"Constant", "Burst", "Keepalive"},
   on: Nat, gap: Nat, timeout: Nat, idle: Nat, grace: SUBSET Nat,
   phased: BOOLEAN, backlog: Nat]

(* No caller pumps untagged bytes over a session that carried a phase      *)
(* before: pump_loopback and upload_survival use a fresh session, every    *)
(* scenario that reuses one tags its phases.                               *)
ASSUME OptsAssumption ==
  /\ Opts \subseteq PumpOpts
  /\ \A o \in Opts : o.phased \/ o.backlog = 0
ASSUME TimingAssumption == FirstByte \in Nat /\ Poll \in Nat \ {0} /\ Lag \in Nat

VARIABLES
  opts,        \* the call's arguments; never changes
  now,         \* ticks since pump_started
  wpc,         \* where the writer future is
  offset,      \* units write_all has confirmed
  accepted,    \* units the session has taken, a half-written chunk included
  sincePause,  \* since_pause: units since the last burst boundary
  wake,        \* when the writer's sleep ends
  offerDone,   \* offer_completed_ms, or OfferInFlight
  open,        \* the counterparty still serves the session
  transit,     \* own units taken by the session and neither lost nor read
  backlog,     \* earlier-phase units the session may still deliver
  rpc,         \* where the reader loop is
  due,         \* when the reader's current step is due to run
  mine, foreign,       \* units counted as this phase's and as another's
  lastAt, lastMineAt,  \* last_at, last_mine_at
  worstGap,    \* the longest gap between entries of `progress`, start included
  outcome,     \* PumpOutcome, "ReadError", or Waiting while the reader runs
  stoppedAt,   \* reader_stopped_at
  returned,    \* the join has completed
  wall         \* Transfer::wall_seconds

writerVars == <<wpc, offset, accepted, sincePause, wake, offerDone>>
netVars    == <<open, transit, backlog>>
readerVars == <<rpc, due, mine, foreign, lastAt, lastMineAt, worstGap,
                outcome, stoppedAt>>
vars == <<opts, now, writerVars, netVars, readerVars, returned, wall>>

OfferInFlight == -1
Smaller(a, b) == IF a <= b THEN a ELSE b

WriterLive == {"writing", "flushing", "sleeping", "finalFlush"}
WriterEnd  == {"offered", "failed", "cut"}
ReaderLive == {"check", "reading"}
ReaderEnd  == {"stopped", "error"}

-----------------------------------------------------------------------------
(* What the reader measures *)

(* Mutant: the raw stream decides, whoever sent it. *)
LiveUntagged == mine + foreign

(* Units that keep this pump alive: its own when phased, all otherwise.    *)
Live == IF opts.phased THEN mine ELSE mine + foreign

(* Mutant: any arrival is progress, so a backlog keeps the clock fresh. *)
SinceAnyArrival == now - lastAt

SinceLive == now - (IF opts.phased THEN lastMineAt ELSE lastAt)

Done == Live >= opts.total

(* Mutant: the grace starts over with every arrival. *)
TailSinceArrival == IF offerDone = OfferInFlight
                    THEN NoTail
                    ELSE UNION {TailWindow(now - Larger(offerDone, lastAt), g) : g \in opts.grace}

OfferTail == IF offerDone = OfferInFlight
        THEN NoTail
        ELSE UNION {TailWindow(now - offerDone, g) : g \in opts.grace}

Verdict == StopReason(Live, SinceLive, now, opts.timeout, opts.idle, FirstByte, OfferTail)

-----------------------------------------------------------------------------
Init ==
  /\ opts \in Opts
  /\ now = 0
  /\ wpc = IF opts.total = 0 THEN "finalFlush" ELSE "writing"
  /\ offset = 0 /\ accepted = 0 /\ sincePause = 0 /\ wake = 0
  /\ offerDone = OfferInFlight
  /\ open = TRUE /\ transit = 0 /\ backlog = opts.backlog
  /\ rpc = "check" /\ due = 0
  /\ mine = 0 /\ foreign = 0
  /\ lastAt = 0 /\ lastMineAt = 0 /\ worstGap = 0
  /\ outcome = Waiting /\ stoppedAt = 0
  /\ returned = FALSE /\ wall = 0

-----------------------------------------------------------------------------
(* The writer future *)

(* Mutant: the last chunk is not cut to the payload. *)
ChunkEndUnclamped == offset + opts.chunk

(* `end` of the chunk being written. *)
ChunkEnd == Smaller(offset + opts.chunk, opts.total)

(* The head of the writer's loop once `at` units are offered. *)
LoopHead(at) == IF at < opts.total THEN "writing" ELSE "finalFlush"

(* sleep(d), or straight back to the loop's head when there is no delay. *)
Rest(d, at) ==
  IF d = 0 THEN wpc' = LoopHead(at) /\ UNCHANGED wake
           ELSE wpc' = "sleeping" /\ wake' = now + d

(* The per-shape step after a whole chunk went out: pause, flush or go on. *)
AfterChunk(written) ==
  LET run == sincePause + written IN
  \/ /\ opts.shape = "Constant"
     /\ Rest(opts.pace, ChunkEnd) /\ UNCHANGED sincePause
  \/ /\ opts.shape = "Burst" /\ run >= opts.on
     /\ sincePause' = 0 /\ wpc' = "flushing" /\ UNCHANGED wake
  \/ /\ opts.shape = "Burst" /\ run < opts.on
     /\ sincePause' = run /\ Rest(opts.pace, ChunkEnd)
  \/ /\ opts.shape = "Keepalive"
     /\ wpc' = "flushing" /\ UNCHANGED <<sincePause, wake>>

(* The session takes the next n units of the chunk write_all is sending. *)
Write(n) ==
  /\ wpc = "writing"
  /\ accepted + n <= ChunkEnd
  /\ accepted' = accepted + n
  /\ transit' = transit + n
  /\ \/ /\ accepted + n < ChunkEnd
        /\ UNCHANGED <<wpc, offset, sincePause, wake>>
     \/ /\ accepted + n = ChunkEnd
        /\ offset' = ChunkEnd
        /\ AfterChunk(ChunkEnd - offset)
  /\ UNCHANGED <<opts, now, offerDone, open, backlog, readerVars, returned, wall>>

(* The flush at a burst boundary or behind a keep-alive, then the silence. *)
FlushAndPause ==
  /\ wpc = "flushing"
  /\ wpc' = "sleeping" /\ wake' = now + opts.gap
  /\ UNCHANGED <<opts, now, offset, accepted, sincePause, offerDone, netVars, readerVars,
                 returned, wall>>

Wake ==
  /\ wpc = "sleeping" /\ now >= wake
  /\ wpc' = LoopHead(offset)
  /\ UNCHANGED <<opts, now, offset, accepted, sincePause, wake, offerDone, netVars,
                 readerVars, returned, wall>>

(* The last flush, and the stamp the tail cap counts from. *)
FinalFlush ==
  /\ wpc = "finalFlush"
  /\ wpc' = "offered" /\ offerDone' = now
  /\ UNCHANGED <<opts, now, offset, accepted, sincePause, wake, netVars, readerVars,
                 returned, wall>>

(* A write or a flush returns an error; the pump only warns about it. *)
WriterFails ==
  /\ wpc \in {"writing", "flushing", "finalFlush"}
  /\ wpc' = "failed"
  /\ UNCHANGED <<opts, now, offset, accepted, sincePause, wake, offerDone, netVars,
                 readerVars, returned, wall>>

(* Mutant: the deadline is looked at only between writes. *)
WriterCutBetweenWrites ==
  /\ wpc = "sleeping" /\ now >= opts.timeout
  /\ wpc' = "cut"
  /\ UNCHANGED <<opts, now, offset, accepted, sincePause, wake, offerDone, netVars,
                 readerVars, returned, wall>>

(* timeout(timeout, send): a writer the session holds back is abandoned.   *)
WriterCut ==
  /\ wpc \in WriterLive /\ now >= opts.timeout
  /\ wpc' = "cut"
  /\ UNCHANGED <<opts, now, offset, accepted, sincePause, wake, offerDone, netVars,
                 readerVars, returned, wall>>

-----------------------------------------------------------------------------
(* The reader loop *)

StopReading(why) ==
  /\ outcome' = why
  /\ rpc' = "stopped" /\ stoppedAt' = now
  /\ UNCHANGED <<due, mine, foreign, lastAt, lastMineAt, worstGap>>

(* The head of the loop: finished, told to stop, or on to one polled read. *)
Check ==
  /\ rpc = "check"
  /\ \/ Done /\ StopReading("Complete")
     \/ ~Done /\ Verdict # Waiting /\ StopReading(Verdict)
     \/ /\ ~Done /\ Verdict = Waiting
        /\ rpc' = "reading" /\ due' = now + Poll
        /\ UNCHANGED <<mine, foreign, lastAt, lastMineAt, worstGap, outcome,
                       stoppedAt>>
  /\ UNCHANGED <<opts, now, writerVars, netVars, returned, wall>>

(* A read returns `own` units of this phase and `other` of an earlier one, *)
(* and scan_records counts `a` of them as this phase's and `b` as not; a   *)
(* pump without a phase takes all bytes for its own.                       *)
Read(own, other, a, b) ==
  /\ rpc = "reading"
  /\ own + other > 0 /\ own <= transit /\ other <= backlog
  /\ a + b <= own + other
  /\ ~opts.phased => a = own + other
  /\ transit' = transit - own /\ backlog' = backlog - other
  /\ mine' = mine + a /\ foreign' = foreign + b
  /\ lastAt' = now
  /\ worstGap' = Larger(worstGap, now - lastAt)
  /\ lastMineAt' = IF a > 0 THEN now ELSE lastMineAt
  /\ rpc' = "check" /\ due' = now
  /\ UNCHANGED <<opts, now, writerVars, open, outcome, stoppedAt, returned, wall>>

(* The poll interval passes with nothing to read: round the loop again. *)
PollExpires ==
  /\ rpc = "reading" /\ now >= due
  /\ rpc' = "check" /\ due' = now
  /\ UNCHANGED <<opts, now, writerVars, netVars, mine, foreign, lastAt, lastMineAt,
                 worstGap, outcome, stoppedAt, returned, wall>>

(* A read of zero bytes: the counterparty closed the session. *)
ReadEof ==
  /\ rpc = "reading" /\ ~open
  /\ StopReading("SessionClosed")
  /\ UNCHANGED <<opts, now, writerVars, netVars, returned, wall>>

(* A read error leaves the loop without a measurement; the join still      *)
(* waits for the writer.                                                   *)
ReadFails ==
  /\ rpc = "reading"
  /\ rpc' = "error" /\ outcome' = "ReadError"
  /\ UNCHANGED <<opts, now, writerVars, netVars, due, mine, foreign, lastAt, lastMineAt,
                 worstGap, stoppedAt, returned, wall>>

(* Mutant: the wall clock is read when the call returns. *)
JoinStampsNow ==
  /\ ~returned /\ rpc \in ReaderEnd /\ wpc \in WriterEnd
  /\ returned' = TRUE /\ wall' = now
  /\ UNCHANGED <<opts, now, writerVars, netVars, readerVars>>

(* tokio::join! of the two halves, and the Transfer built from them. *)
Join ==
  /\ ~returned /\ rpc \in ReaderEnd /\ wpc \in WriterEnd
  /\ returned' = TRUE
  /\ wall' = IF rpc = "stopped" THEN stoppedAt ELSE now
  /\ UNCHANGED <<opts, now, writerVars, netVars, readerVars>>

-----------------------------------------------------------------------------
(* The session and the clock.  What becomes of units after the reader has  *)
(* stopped is seen by nobody in this call, so it is not modelled.          *)

Lose ==
  /\ rpc \in ReaderLive /\ transit > 0
  /\ transit' = transit - 1
  /\ UNCHANGED <<opts, now, writerVars, open, backlog, readerVars, returned, wall>>

Close ==
  /\ rpc \in ReaderLive /\ open
  /\ open' = FALSE
  /\ UNCHANGED <<opts, now, writerVars, transit, backlog, readerVars, returned, wall>>

(* Time passes unless a future has been due for Lag ticks already. *)
Tick ==
  /\ rpc \in ReaderLive \/ wpc \in WriterLive
  /\ rpc \in ReaderLive => now < due + Lag
  /\ wpc \in WriterLive => now < opts.timeout + Lag
  /\ wpc = "sleeping" => now < wake + Lag
  /\ now' = now + 1
  /\ UNCHANGED <<opts, writerVars, netVars, readerVars, returned, wall>>

(* The call has returned: nothing of it is left running. *)
Finished == returned /\ UNCHANGED vars

Next ==
  \/ \E n \in 1 .. opts.chunk : Write(n)
  \/ FlushAndPause \/ Wake \/ FinalFlush \/ WriterFails \/ WriterCut
  \/ Check
  \/ \E own \in 0 .. transit, other \in 0 .. backlog :
       \E a, b \in 0 .. own + other : Read(own, other, a, b)
  \/ PollExpires \/ ReadEof \/ ReadFails \/ Join
  \/ Lose \/ Close \/ Tick \/ Finished

Spec == Init /\ [][Next]_vars

(* The executor runs due futures and the clock advances; the session owes  *)
(* nothing: it need not accept, deliver or close.                          *)
Fairness ==
  /\ WF_vars(Tick)
  /\ WF_vars(Check) /\ WF_vars(PollExpires)
  /\ WF_vars(Wake) /\ WF_vars(WriterCut)
  /\ WF_vars(Join)

FairSpec == Spec /\ Fairness

-----------------------------------------------------------------------------
(* Statistics of the Transfer *)

(* Transfer::longest_stall: the gaps of `progress` and, unless the idle    *)
(* rule ended the pump, the silence after the last arrival; under the tail *)
(* cap only the part of it before the offer was complete.                  *)
LongestStall ==
  LET offerEnd == IF offerDone = OfferInFlight THEN wall ELSE offerDone IN
  CASE outcome = "Idle" -> worstGap
    [] outcome = "TailGraceExpired" -> Larger(worstGap, Smaller(offerEnd, wall) - lastAt)
    [] OTHER -> Larger(worstGap, wall - lastAt)

-----------------------------------------------------------------------------
(* Properties *)

(* How much later than its own deadline a rule may be acted on: one poll   *)
(* interval, plus the executor's lag on waking the reader and on running   *)
(* the check that follows.                                                 *)
Slack == Poll + 2 * Lag

(* The longest silence the stopping rule tolerates. *)
Patience == Larger(opts.idle, FirstByte)

(* The budget the reader is on: the first byte's until this phase has one. *)
Budget == IF mine = 0 THEN Patience ELSE opts.idle

TypeOK ==
  /\ opts \in Opts /\ now \in Nat
  /\ wpc \in WriterLive \cup WriterEnd
  /\ offset \in 0 .. opts.total /\ accepted \in 0 .. opts.total
  /\ sincePause \in Nat /\ wake \in Nat
  /\ offerDone \in Nat \cup {OfferInFlight}
  /\ open \in BOOLEAN
  /\ transit \in 0 .. opts.total /\ backlog \in 0 .. opts.backlog
  /\ rpc \in ReaderLive \cup ReaderEnd /\ due \in Nat
  /\ mine \in 0 .. opts.total + opts.backlog /\ foreign \in 0 .. opts.total + opts.backlog
  /\ lastAt \in Nat /\ lastMineAt \in Nat /\ worstGap \in Nat
  /\ outcome \in PumpOutcome \cup {Waiting, "ReadError"}
  /\ stoppedAt \in Nat /\ returned \in BOOLEAN /\ wall \in Nat

(* Every outcome is backed by what the reader counted.  Complete means as  *)
(* many records counted as this phase's as the payload has, none of them   *)
(* out of nothing: at least that many were read, of this phase and of the  *)
(* backlog together; and on a session that owed no earlier phase anything  *)
(* the whole payload was handed over and came back, nothing of it lost,    *)
(* however the reader may have miscounted.  NeverStarted means that        *)
(* nothing was counted and the first-byte budget or the tail grace ran     *)
(* out; Idle that something was and then nothing for the idle budget;      *)
(* TailGraceExpired that the offer was complete and its grace over with    *)
(* something counted; SessionClosed a real close.                          *)
OutcomeEvidence ==
  /\ outcome = "Complete" =>
       /\ opts.total <= mine
       /\ opts.total <= (accepted - transit) + (opts.backlog - backlog)
       /\ opts.backlog = 0 =>
            mine = opts.total /\ foreign = 0 /\ accepted = opts.total /\ transit = 0
  /\ outcome = "NeverStarted" =>
       /\ mine = 0
       /\ \/ stoppedAt >= Patience
          \/ offerDone # OfferInFlight /\ \E g \in opts.grace : stoppedAt - offerDone >= g
  /\ outcome = "Idle" => mine > 0 /\ stoppedAt - lastMineAt >= opts.idle
  /\ outcome = "TailGraceExpired" =>
       /\ 0 < mine /\ mine < opts.total
       /\ accepted = opts.total /\ offerDone # OfferInFlight
       /\ \E g \in opts.grace : stoppedAt - offerDone >= g
  /\ outcome = "DeadlineExceeded" => stoppedAt >= opts.timeout /\ mine < opts.total
  /\ outcome = "SessionClosed" => ~open /\ mine < opts.total

(* An earlier phase's backlog cannot keep a pump waiting: the reader never *)
(* outlasts its budget counted from the last arrival it took for this      *)
(* phase's own, nor the overall deadline.                                  *)
BacklogCannotHold ==
  rpc \in ReaderLive => /\ now <= lastMineAt + Budget + Slack
                        /\ now <= opts.timeout + Slack

(* Once the payload is offered the reader is gone within the tail grace,   *)
(* however the stream trickles and whatever else is still arriving.        *)
TailIsCapped ==
  rpc \in ReaderLive /\ offerDone # OfferInFlight =>
    \A g \in opts.grace : now <= offerDone + g + Slack

(* The measurement belongs to the reader: a writer that outlives it by the *)
(* whole timeout adds nothing to the reported stall, which never exceeds   *)
(* what the stopping rule itself would have tolerated.                     *)
StallIsTheStreams == returned /\ rpc = "stopped" => LongestStall <= Patience + Slack

-----------------------------------------------------------------------------
(* The inductive invariant behind the properties above *)

(* Units are neither created nor counted twice, and the writer's position  *)
(* agrees with where its future is suspended.                              *)
Ledger ==
  /\ mine + foreign + transit + backlog <= accepted + opts.backlog
  /\ transit <= accepted
  /\ ~opts.phased => foreign = 0
  /\ offset <= accepted /\ accepted <= ChunkEnd
  /\ wpc = "writing" => offset < opts.total
  /\ wpc \in {"flushing", "sleeping", "finalFlush", "offered"} => accepted = offset
  /\ wpc \in {"finalFlush", "offered"} => offset = opts.total
  /\ offerDone # OfferInFlight <=> wpc = "offered"

(* The stamps are in order, and without a phase tag every arrival is ours. *)
Stamps ==
  /\ lastMineAt <= lastAt /\ lastAt <= now /\ offerDone <= now /\ stoppedAt <= now
  /\ mine = 0 => lastMineAt = 0
  /\ ~opts.phased => lastAt = lastMineAt

(* When the reader last evaluated the stopping rule, at the latest. *)
Asked == IF rpc = "reading" THEN due - Poll ELSE due - Poll - Lag

(* A live reader was told to go on when it last asked, and its next step   *)
(* is not overdue by more than Lag; one that ended holds an outcome.       *)
Cadence ==
  /\ rpc \in ReaderLive =>
       /\ outcome = Waiting /\ ~returned
       /\ now <= due + Lag
       /\ Asked <= opts.timeout
       /\ Asked <= lastMineAt + Budget
       /\ offerDone # OfferInFlight => \A g \in opts.grace : Asked <= offerDone + g
  /\ rpc = "check" => due <= now
  /\ rpc = "reading" => mine < opts.total /\ due <= now + Poll
  /\ rpc = "stopped" => outcome \in PumpOutcome
  /\ rpc = "error" => outcome = "ReadError"

(* No gap so far exceeds what the rule tolerates. *)
Gaps ==
  /\ worstGap <= Patience + Slack
  /\ rpc = "stopped" => stoppedAt - lastAt <= Patience + Slack
  /\ returned /\ rpc = "stopped" => wall = stoppedAt

PumpInv ==
  /\ TypeOK /\ Ledger /\ Stamps /\ Cadence /\ Gaps /\ OutcomeEvidence

(* The call always returns: a wedged sink, a silent session or an endless  *)
(* trickle of backlog ends in some outcome.                                *)
Returns == <>returned
=============================================================================
