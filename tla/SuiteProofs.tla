---------------------------- MODULE SuiteProofs ----------------------------
(***************************************************************************)
(* One suite after another for any binaries, any sizes their tests ask for *)
(* and any number of nodes: the cluster a test gets is the one its binary  *)
(* sized and polled, and when the next one starts the log is complete and  *)
(* whatever still runs has been told to go.                                *)
(***************************************************************************)
EXTENDS Suite, TLAPS

-----------------------------------------------------------------------------
(* What is left behind *)

(* tee stops reading only when nobody is left to write, and from then on   *)
(* nothing is started before the next binary; a node that inherits the     *)
(* FIFO has a localcluster to inherit it from.                             *)
WriterInv ==
  /\ ~tee /\ spc # "over" => alive = {} /\ up \cap held = {} /\ tpc \in {"none", "over"}
  /\ spc \in {"record", "start"} => ~tee
  /\ spc # "over" => (tpc = "none" => ~tee)

(* From the first pkill on no localcluster is left that was not told to    *)
(* go, so whatever one of them starts is a late node; the second one tells *)
(* all the others.                                                         *)
ToldInv ==
  /\ spc \in {"pkill", "pkillNodes", "reaping", "wait"} => tpc = "over"
  /\ spc \in {"pkillNodes", "reaping", "wait"} => alive \subseteq told
  /\ spc \in {"reaping", "wait", "record", "start"} => up \subseteq termed \cup late

LeftoverInv == WriterInv /\ ToldInv

(* Nothing runs before the first suite. *)
LEMMA LeftoverInit == Init => LeftoverInv
  BY DEF Init, ClusterInit, LeftoverInv, WriterInv, ToldInv

(* A localcluster that starts a node: one that was told to go makes the    *)
(* node a late one, and from the first pkill on there is no other.         *)
LEMMA SpawnStep ==
  ASSUME LeftoverInv, spc # "over", NEW k, NEW i, k \in alive, NodeSpawned(k, i)
  PROVE  LeftoverInv'
<1>1. /\ UNCHANGED <<spc, tee, told, tpc, alive>>
      /\ up' = up \cup {i} /\ termed' = termed \ {i}
      /\ late' = IF k \in told THEN late \cup {i} ELSE late \ {i}
  BY DEF NodeSpawned, NodeStarts, binaryVars
<1>2. tee /\ spc \notin {"record", "start"}
  BY DEF LeftoverInv, WriterInv
<1>3. WriterInv'
  BY <1>1, <1>2 DEF LeftoverInv, WriterInv
<1>4. ASSUME spc \in {"reaping", "wait"} PROVE up' \subseteq termed' \cup late'
  <2>1. k \in told /\ up \subseteq termed \cup late
    BY <1>4 DEF LeftoverInv, ToldInv
  <2> QED
    BY <1>1, <2>1
<1>5. ToldInv'
  BY <1>1, <1>2, <1>4 DEF LeftoverInv, ToldInv
<1> QED
  BY <1>3, <1>5 DEF LeftoverInv

(* Every step keeps it. *)
LEMMA LeftoverStep == LeftoverInv /\ [Next]_vars => LeftoverInv'
<1> SUFFICES ASSUME LeftoverInv, [Next]_vars PROVE LeftoverInv'
  OBVIOUS
<1> USE DEF LeftoverInv, WriterInv, ToldInv, clusterVars, processVars, binaryVars, scriptVars, nodeVars
<1>1. CASE StartSuite
  BY <1>1 DEF StartSuite, BinaryStarts
<1>2. CASE CargoReturns \/ Pkill \/ ReapingEnds
  BY <1>2 DEF CargoReturns, Pkill, ReapingEnds
<1>3. CASE WaitTee \/ Record
  BY <1>3 DEF WaitTee, Record
<1>4. CASE Interrupted
  BY <1>4 DEF Interrupted
<1>5. CASE TeeEnds
  BY <1>5 DEF TeeEnds, Writers
<1>6. CASE Tests /\ UNCHANGED scriptVars
  <2>1. CASE TestStarts \/ StatusRunning
    BY <1>6, <2>1 DEF TestStarts, StatusRunning
  <2>2. CASE StartFails
    BY <1>6, <2>2 DEF StartFails
  <2>3. CASE PollPasses \/ PollTimesOut
    BY <1>6, <2>3 DEF PollPasses, PollTimesOut, Polls, NextPhase
  <2>4. CASE TestEnds \/ BinaryEnds \/ BinaryKilled
    BY <1>6, <2>4 DEF TestEnds, BinaryEnds, BinaryKilled
  <2>5. CASE \E i \in Ports : Pause(i) \/ Resume(i)
    BY <1>6, <2>5 DEF Pause, Resume
  <2> QED
    BY <1>6, <2>1, <2>2, <2>3, <2>4, <2>5 DEF Tests
<1>7. ASSUME NEW new, spc # "over", StatusChanges(new), UNCHANGED scriptVars PROVE LeftoverInv'
  BY <1>7 DEF StatusChanges
<1>8. ASSUME NEW k, spc # "over", LocalclusterObeys(k) PROVE LeftoverInv'
  BY <1>8 DEF LocalclusterObeys, LocalclusterEnds
<1>9. ASSUME NEW i, spc # "over", NodeDies(i), UNCHANGED scriptVars PROVE LeftoverInv'
  BY <1>9 DEF NodeDies
<1>10. CASE UNCHANGED vars
  BY <1>10 DEF vars
<1>11. CASE spc # "over" /\ Processes
  BY <1>7, <1>8, <1>9, <1>11, SpawnStep DEF Processes
<1> QED
  BY <1>1, <1>2, <1>3, <1>4, <1>5, <1>6, <1>10, <1>11 DEF Next, Script, Over

(* When results are recorded, and when the next binary starts, nobody can  *)
(* write to the log any more, and each node still running was told to go   *)
(* since its start, or is the work of a localcluster that had been told    *)
(* before (reap_nodes and the wait for tee).                               *)
THEOREM EverySuiteCleansUp == Spec => []SuiteCleansUp
<1>1. LeftoverInv => SuiteCleansUp
  BY DEF LeftoverInv, WriterInv, ToldInv, SuiteCleansUp, Writers
<1> QED
  BY <1>1, LeftoverInit, LeftoverStep, PTL DEF Spec

-----------------------------------------------------------------------------
(* The size of the cluster *)

(* What is still to run asks as the assumption has it. *)
AsksInv ==
  /\ left \in Seq(Seq(SUBSET Nat)) /\ \A k \in DOMAIN left : AsksAlike(left[k])
  /\ asks \in Seq(SUBSET Nat) /\ AsksAlike(asks)

(* Every localcluster of the binary was started with the size that is in   *)
(* effect: either it has been asked for, or nobody will ask any more.      *)
SizeInv ==
  /\ requested \subseteq Nat /\ cur \in Nat /\ sizes \in Seq(Nat) /\ Len(sizes) = cur
  /\ \A k \in 1 .. cur : sizes[k] = ClusterSize
  /\ requested = {} /\ cur > 0 => \A i \in DOMAIN asks : asks[i] = {}
  /\ tpc \in Polls \cup {"status", "using"} => cur > 0

(* What the polls have answered for so far, and what was shared then. *)
PollInv ==
  /\ tpc \in Polls \cup {"status"} => shared = {}
  /\ tpc \in {"peers", "channels"} => {"readyz"} \X (0 .. ClusterSize - 1) \subseteq answered
  /\ tpc = "channels" => {"peers"} \X (0 .. ClusterSize - 1) \subseteq answered
  /\ shared # {} => cur > 0
  /\ \A k \in shared : k = cur /\ Polls \X (0 .. ClusterSize - 1) \subseteq answered

(* Clamping a natural number gives one. *)
LEMMA ClampType == ASSUME NEW n \in Nat PROVE Clamp(n) \in Nat
<1>1. Min({MaxSize, n}) \in {MaxSize, n}
  <2>1. CASE MaxSize <= n
    BY <2>1, SizeAssumption DEF Min
  <2>2. CASE n <= MaxSize
    BY <2>2, SizeAssumption DEF Min
  <2> QED
    BY <2>1, <2>2, SizeAssumption
<1> DEFINE m == Min({MaxSize, n})
<1>2. m \in Nat
  BY <1>1, SizeAssumption
<1> HIDE DEF m
<1>3. Max({MinSize, m}) \in {MinSize, m}
  <2>1. CASE MinSize <= m
    BY <1>2, <2>1, SizeAssumption DEF Max
  <2>2. CASE m <= MinSize
    BY <1>2, <2>2, SizeAssumption DEF Max
  <2> QED
    BY <1>2, <2>1, <2>2, SizeAssumption
<1> QED
  BY <1>2, <1>3, SizeAssumption DEF Clamp, m

(* The size in effect is a number, asked for or not. *)
LEMMA SizeType ==
  ASSUME NEW R, R \subseteq Nat
  PROVE  (IF R = {} THEN DefaultSize ELSE CHOOSE n \in R : TRUE) \in Nat
<1>1. CASE R = {}
  BY <1>1, SizeAssumption
<1>2. CASE R # {}
  <2>1. (CHOOSE n \in R : TRUE) \in R
    BY <1>2
  <2> QED
    BY <1>2, <2>1
<1> QED
  BY <1>1, <1>2

(* The rest of a sequence of tests asks as the whole did. *)
LEMMA TailAlike ==
  ASSUME NEW tests \in Seq(SUBSET Nat), AsksAlike(tests), tests # <<>>
  PROVE  Tail(tests) \in Seq(SUBSET Nat) /\ AsksAlike(Tail(tests))
  BY DEF AsksAlike

(* A fresh run satisfies all three. *)
LEMMA SizeInit == Init => AsksInv /\ SizeInv /\ PollInv
<1> SUFFICES ASSUME Init PROVE AsksInv /\ SizeInv /\ PollInv
  OBVIOUS
<1>1. AsksInv
  BY BinariesAssumption DEF Init, ClusterInit, AsksInv, AsksAlike
<1> QED
  BY <1>1 DEF Init, ClusterInit, SizeInv, PollInv, Polls

(* The steps that leave the binary's record of its cluster alone. *)
LEMMA SizeUntouched ==
  ASSUME AsksInv, SizeInv, PollInv,
         UNCHANGED <<left, asks, requested, cur, sizes, answered, shared>>,
         tpc' \in {tpc, "none", "between", "over"} \cup (IF tpc = "status" THEN {"readyz"} ELSE {})
  PROVE  AsksInv' /\ SizeInv' /\ PollInv'
<1>1. ClusterSize' = ClusterSize
  BY DEF ClusterSize
<1>2. AsksInv'
  BY DEF AsksInv, AsksAlike
<1>3. SizeInv'
  BY <1>1 DEF SizeInv, Polls
<1>4. PollInv'
  BY <1>1 DEF PollInv, Polls
<1> QED
  BY <1>2, <1>3, <1>4

(* A binary starts with nothing asked for, nothing started. *)
LEMMA BinaryStep ==
  ASSUME AsksInv, StartSuite
  PROVE  AsksInv' /\ SizeInv' /\ PollInv'
<1>1. Head(left) \in Seq(SUBSET Nat) /\ AsksAlike(Head(left))
  BY DEF AsksInv, StartSuite
<1>2. left' \in Seq(Seq(SUBSET Nat)) /\ \A k \in DOMAIN left' : AsksAlike(left'[k])
  BY DEF AsksInv, StartSuite
<1>3. asks' = Head(left)
  BY DEF StartSuite, BinaryStarts
<1>4. AsksInv'
  BY <1>1, <1>2, <1>3 DEF AsksInv, AsksAlike
<1> QED
  BY <1>4 DEF StartSuite, BinaryStarts, SizeInv, PollInv, Polls

(* A test's ask changes the size only while nothing was started with it. *)
LEMMA TestStep ==
  ASSUME AsksInv, SizeInv, PollInv, TestStarts, UNCHANGED left
  PROVE  AsksInv' /\ SizeInv' /\ PollInv'
<1>1. AsksInv'
  BY TailAlike DEF AsksInv, TestStarts, AsksAlike
<1>2. Head(asks) \subseteq Nat
  BY DEF AsksInv, TestStarts
<1>3. requested' \subseteq Nat
  BY <1>2, ClampType DEF TestStarts, RequestSize, SizeInv
<1>4. ClusterSize' \in Nat
  BY <1>3, SizeType DEF ClusterSize
<1>5. ASSUME cur > 0 PROVE requested' = requested
  <2>1. CASE requested = {}
    <3>1. Head(asks) = {}
      BY <1>5, <2>1 DEF SizeInv, AsksInv, TestStarts
    <3>2. requested' = {Clamp(n) : n \in {}}
      BY <2>1, <3>1 DEF TestStarts, RequestSize
    <3> QED
      BY <2>1, <3>2
  <2>2. CASE requested # {}
    BY <2>2 DEF TestStarts, RequestSize
  <2> QED
    BY <2>1, <2>2
<1>6. cur > 0 => ClusterSize' = ClusterSize
  BY <1>5 DEF ClusterSize
<1>7. requested' = {} => \A i \in DOMAIN asks' : asks'[i] = {}
  <2> SUFFICES ASSUME requested' = {} PROVE \A i \in DOMAIN asks' : asks'[i] = {}
    OBVIOUS
  <2>1. Head(asks) = {}
    BY DEF TestStarts, RequestSize
  <2>2. \A i \in DOMAIN asks : asks[i] = {}
    BY <2>1 DEF AsksInv, AsksAlike, TestStarts
  <2> QED
    BY <2>2 DEF AsksInv, TestStarts
<1>8. CASE shared # {}
  <2>1. /\ cur > 0 /\ tpc' = "using"
        /\ UNCHANGED <<cur, sizes, answered, shared>>
    BY <1>8 DEF TestStarts, PollInv
  <2>2. SizeInv'
    BY <1>3, <1>6, <1>7, <2>1 DEF SizeInv, Polls
  <2>3. PollInv'
    BY <1>6, <2>1 DEF PollInv, Polls
  <2> QED
    BY <1>1, <2>2, <2>3
<1>9. CASE shared = {}
  <2>1. /\ cur' = cur + 1 /\ sizes' = Append(sizes, ClusterSize')
        /\ tpc' = "status" /\ shared' = {}
    BY <1>9 DEF TestStarts
  <2>2. sizes' \in Seq(Nat) /\ Len(sizes') = cur' /\ cur' \in Nat /\ cur' > 0
    BY <1>4, <2>1 DEF SizeInv
  <2>3. ASSUME NEW k \in 1 .. cur' PROVE sizes'[k] = ClusterSize'
    BY <1>4, <1>6, <2>1 DEF SizeInv
  <2>4. SizeInv'
    BY <1>3, <1>7, <2>2, <2>3 DEF SizeInv
  <2> QED
    BY <1>1, <2>1, <2>4 DEF PollInv, Polls
<1> QED
  BY <1>8, <1>9

(* A poll that passes adds its own answers, the last one shares the        *)
(* cluster.                                                                *)
LEMMA PollStep ==
  ASSUME AsksInv, SizeInv, PollInv, PollPasses, UNCHANGED left
  PROVE  AsksInv' /\ SizeInv' /\ PollInv'
<1>1. ClusterSize' = ClusterSize
  BY DEF PollPasses, ClusterSize
<1>2. /\ UNCHANGED <<asks, requested, cur, sizes>>
      /\ tpc \in Polls /\ tpc' = NextPhase
      /\ shared' = IF tpc = "channels" THEN {cur} ELSE shared
      /\ answered' = answered \cup ({tpc} \X (0 .. ClusterSize - 1))
  BY DEF PollPasses, Nodes
<1>3. AsksInv'
  BY <1>2 DEF AsksInv, AsksAlike
<1>4. SizeInv'
  BY <1>1, <1>2 DEF SizeInv, Polls, NextPhase
<1>5. CASE tpc = "readyz"
  <2>1. tpc' = "peers" /\ UNCHANGED shared
    BY <1>2, <1>5 DEF NextPhase
  <2>2. {"readyz"} \X (0 .. ClusterSize - 1) \subseteq answered'
    BY <1>2, <1>5
  <2> QED
    BY <1>1, <1>2, <1>3, <1>4, <1>5, <2>1, <2>2 DEF PollInv, Polls
<1>6. CASE tpc = "peers"
  <2>1. tpc' = "channels" /\ UNCHANGED shared
    BY <1>2, <1>6 DEF NextPhase
  <2>2. {"readyz", "peers"} \X (0 .. ClusterSize - 1) \subseteq answered'
    BY <1>2, <1>6 DEF PollInv
  <2> QED
    BY <1>1, <1>2, <1>3, <1>4, <1>6, <2>1, <2>2 DEF PollInv, Polls
<1>7. CASE tpc = "channels"
  <2>1. tpc' = "using" /\ shared' = {cur} /\ cur > 0
    BY <1>2, <1>7 DEF NextPhase, SizeInv
  <2>2. Polls \X (0 .. ClusterSize - 1) \subseteq answered'
    BY <1>2, <1>7 DEF PollInv, Polls
  <2> QED
    BY <1>1, <1>2, <1>3, <1>4, <2>1, <2>2 DEF PollInv, Polls
<1> QED
  BY <1>2, <1>3, <1>4, <1>5, <1>6, <1>7 DEF Polls

(* Every step keeps all three. *)
LEMMA SizeStep ==
  AsksInv /\ SizeInv /\ PollInv /\ [Next]_vars => AsksInv' /\ SizeInv' /\ PollInv'
<1> SUFFICES ASSUME AsksInv, SizeInv, PollInv, [Next]_vars PROVE AsksInv' /\ SizeInv' /\ PollInv'
  OBVIOUS
<1> USE DEF clusterVars, processVars, binaryVars, scriptVars
<1>1. CASE StartSuite
  BY <1>1, BinaryStep
<1>2. CASE CargoReturns \/ Pkill \/ ReapingEnds \/ WaitTee \/ Record \/ Interrupted \/ TeeEnds
  BY <1>2, SizeUntouched DEF CargoReturns, Pkill, ReapingEnds, WaitTee, Record, Interrupted, TeeEnds
<1>3. CASE TestStarts /\ UNCHANGED scriptVars
  BY <1>3, TestStep
<1>4. CASE PollPasses /\ UNCHANGED scriptVars
  BY <1>4, PollStep
<1>5. CASE (StatusRunning \/ StartFails \/ PollTimesOut \/ TestEnds \/ BinaryEnds \/ BinaryKilled)
           /\ UNCHANGED scriptVars
  BY <1>5, SizeUntouched DEF StatusRunning, StartFails, PollTimesOut, TestEnds, BinaryEnds, BinaryKilled
<1>6. CASE (\E i \in Ports : Pause(i) \/ Resume(i)) /\ UNCHANGED scriptVars
  BY <1>6, SizeUntouched DEF Pause, Resume
<1>7. CASE Processes
  BY <1>7, SizeUntouched DEF Processes, StatusChanges, NodeSpawned, NodeStarts, LocalclusterObeys,
       LocalclusterEnds, NodeDies
<1>8. CASE UNCHANGED vars
  BY <1>8, SizeUntouched DEF vars
<1> QED
  BY <1>1, <1>2, <1>3, <1>4, <1>5, <1>6, <1>7, <1>8
  DEF Next, Script, Tests, Over

(* The polls wait for the size the cluster was started with, whatever the  *)
(* tests of a binary ask for, and a test is handed a cluster only when     *)
(* each node of it passed each poll (bring_up_shared).                     *)
THEOREM EveryNodeIsReady == Spec => []EveryNodeWasReady
<1>1. ASSUME SizeInv, PollInv PROVE EveryNodeWasReady
  <2>1. tpc \in Polls \cup {"using"} => ClusterSize = sizes[cur]
    BY <1>1 DEF SizeInv
  <2>2. shared # {} => sizes[cur] = ClusterSize
    BY <1>1 DEF SizeInv, PollInv
  <2> QED
    BY <1>1, <2>1, <2>2 DEF PollInv, EveryNodeWasReady
<1>2. Spec => [](AsksInv /\ SizeInv /\ PollInv)
  BY SizeInit, SizeStep, PTL DEF Spec
<1> QED
  BY <1>1, <1>2, PTL
=============================================================================
