-------------------------- MODULE EdgliBootProofs --------------------------
(***************************************************************************)
(* The boots of one identity for any number of binaries and tests, any     *)
(* cluster sizes and either network: its port is free, what a setup hands  *)
(* a test runs, and the strategy closes nothing under a local scenario.    *)
(***************************************************************************)
EXTENDS EdgliBoot, FiniteSetTheorems, TLAPS

-----------------------------------------------------------------------------
(* Ports *)

(* Every port this process has used lies behind every announced node, and  *)
(* below the one the next boot will take; the current one is the last of   *)
(* them.                                                                   *)
PortInv ==
  /\ size \in Sizes /\ boots \in Nat
  /\ announced \subseteq 0 .. MaxSize - 1
  /\ port # -1 => boots > 0 /\ port = MaxSize + boots - 1
  /\ \A p \in listening : p \in Int /\ p < MaxSize + boots /\ (port # -1 => p < port)
  /\ stage = "ready" => port = -1

(* A chain fresh from its snapshot satisfies it. *)
LEMMA PortInit == Init => PortInv
  BY SizeAssumption DEF Init, PortInv, Nodes

(* The first nodes are among the first of more nodes. *)
LEMMA Narrower ==
  ASSUME NEW a \in Nat, NEW b \in Nat, a <= b
  PROVE  0 .. a - 1 \subseteq 0 .. b - 1
  OBVIOUS

(* Every step keeps it: only a boot takes a port, only a test's end leaves *)
(* one behind, and a new process starts over with none.                    *)
LEMMA PortStep == PortInv /\ [Next]_vars => PortInv'
<1> SUFFICES ASSUME PortInv, [Next]_vars PROVE PortInv'
  OBVIOUS
<1> USE SizeAssumption DEF PortInv, testVars, binaryVars, chainVars, ports
<1>1. CASE Boot
  BY <1>1 DEF Boot, EdgePort
<1>2. CASE TestEnds
  BY <1>2 DEF TestEnds
<1>3. CASE NextBinary
  <2>1. size' \in Sizes /\ announced' = announced \cup 0 .. size' - 1
    BY <1>3 DEF NextBinary
  <2>2. size' \in Nat /\ size' <= MaxSize
    BY <2>1
  <2>3. 0 .. size' - 1 \subseteq 0 .. MaxSize - 1
    BY <2>2, Narrower
  <2>4. announced' \subseteq 0 .. MaxSize - 1
    BY <2>1, <2>3
  <2> QED
    BY <1>3, <2>4 DEF NextBinary
<1>4. CASE Setup \/ CallFails
  BY <1>4 DEF Setup, CallFails, PeersConnected, ListPeers, CountGenesis, GatePasses, ReadChannels,
       ReadPeers, Select, ExitReady, TimesOut
<1>5. CASE \E n \in Nodes : Connect(n) \/ Disconnect(n) \/ StrategyOpens(n)
  BY <1>5 DEF Connect, Disconnect, StrategyOpens
<1>6. CASE \E n \in open : StrategyCloses(n)
  BY <1>6 DEF StrategyCloses
<1>7. CASE \E p \in listening : ListenerGone(p)
  BY <1>7 DEF ListenerGone
<1>8. CASE Over \/ UNCHANGED vars
  BY <1>8 DEF Over, vars
<1> QED
  BY <1>1, <1>2, <1>3, <1>4, <1>5, <1>6, <1>7, <1>8 DEF Next

(* No boot ever binds a port the chain knows a node at, or one an earlier  *)
(* Edgli of its process may still hold (edge_p2p_port), however many boots *)
(* and whatever clusters came before.                                      *)
THEOREM PortIsAlwaysFree == Spec => []PortIsFree
<1>1. PortInv => PortIsFree
  BY SizeAssumption DEF PortInv, PortIsFree
<1> QED
  BY <1>1, PortInit, PortStep, PTL DEF Spec

-----------------------------------------------------------------------------
(* Channels *)

(* Whatever Edgli saw connected is a node of the running cluster, and      *)
(* while the strategy runs, a channel to anything else was counted as      *)
(* genesis: the strategy opens channels to peers only.                     *)
ChannelInv ==
  /\ size \in Sizes
  /\ IsFiniteSet(open) /\ IsFiniteSet(genesis)
  /\ connected \subseteq Nodes /\ peers \subseteq Nodes
  /\ \A live \in seenPeers : live \subseteq Nodes
  /\ \A t \in targets : t[1] \in Nodes /\ t[2] \in Nodes
  /\ stage = "ready" =>
       connected = {} /\ peers = {} /\ seenPeers = {} /\ targets = {} /\ ~reactor
  /\ stage \in {"gate", "targets"} => reactor
  /\ reactor => open \subseteq Nodes \cup genesis
  /\ stage = "targets" => Cardinality(open) >= GateCount

(* A set that is larger than another has something the other has not. *)
LEMMA LargerHasMore ==
  ASSUME NEW S, NEW T, IsFiniteSet(S), IsFiniteSet(T), Cardinality(S) > Cardinality(T)
  PROVE  \E x \in S : x \notin T
<1> SUFFICES ASSUME S \subseteq T PROVE FALSE
  OBVIOUS
<1>1. Cardinality(S) <= Cardinality(T)
  BY FS_Subset
<1>2. Cardinality(S) \in Nat /\ Cardinality(T) \in Nat
  BY FS_CardinalityType
<1> QED
  BY <1>1, <1>2

(* A cluster has as many nodes as its size. *)
LEMMA NodesCounted ==
  ASSUME size \in Sizes
  PROVE  IsFiniteSet(Nodes) /\ Cardinality(Nodes) = size /\ size \in Nat /\ size >= 2
  BY FS_Interval, SizeAssumption DEF Nodes

(* On a local cluster there is never a channel more than the strategy's    *)
(* floor, so its close pass finds nothing to close.                        *)
LEMMA NothingAboveFloor ==
  ASSUME ChannelInv, reactor, ~rotsee
  PROVE  ~(Cardinality(open) > MinOpenChannels)
<1>1. IsFiniteSet(Nodes \cup genesis)
      /\ Cardinality(Nodes \cup genesis)
           = Cardinality(Nodes) + Cardinality(genesis) - Cardinality(Nodes \cap genesis)
  BY NodesCounted, FS_Union DEF ChannelInv
<1>2. Cardinality(open) <= Cardinality(Nodes \cup genesis)
  BY <1>1, FS_Subset DEF ChannelInv
<1>3. IsFiniteSet(Nodes \cap genesis)
  BY NodesCounted, FS_Intersection DEF ChannelInv
<1>4. /\ Cardinality(open) \in Nat /\ Cardinality(genesis) \in Nat
      /\ Cardinality(Nodes \cap genesis) \in Nat
  BY <1>3, FS_CardinalityType DEF ChannelInv
<1> QED
  BY <1>1, <1>2, <1>4, NodesCounted DEF ChannelInv, MinOpenChannels, TargetChannels, Wanted

(* A fresh chain satisfies it. *)
LEMMA ChannelInit == Init => ChannelInv
  BY FS_EmptySet DEF Init, ChannelInv

(* The strategy closes nothing below the gate's count. *)
LEMMA ClosingKeepsGate ==
  ASSUME ChannelInv, NEW n \in open, StrategyCloses(n)
  PROVE  IsFiniteSet(open') /\ Cardinality(open') >= GateCount
<1>1. IsFiniteSet(open') /\ Cardinality(open') = Cardinality(open) - 1
  BY FS_RemoveElement DEF StrategyCloses, ChannelInv
<1>2. Cardinality(open) \in Nat /\ Cardinality(genesis) \in Nat
  BY FS_CardinalityType DEF ChannelInv
<1>3. Wanted \in Nat \ {0}
  BY NodesCounted, SizeAssumption DEF ChannelInv, Wanted
<1>4. Cardinality(open) > Wanted + Cardinality(genesis)
  BY DEF StrategyCloses, MinOpenChannels, TargetChannels
<1> QED
  BY <1>1, <1>2, <1>3, <1>4 DEF GateCount

(* Every step keeps it. *)
LEMMA ChannelStep == ChannelInv /\ [Next]_vars => ChannelInv'
<1> SUFFICES ASSUME ChannelInv, [Next]_vars PROVE ChannelInv'
  OBVIOUS
<1> USE DEF testVars, binaryVars, chainVars, bootVars, floorVars, readVars, Nodes
<1>1. CASE Boot
  BY <1>1 DEF Boot, ChannelInv, GateCount
<1>2. CASE PeersConnected
  BY <1>2 DEF PeersConnected, ChannelInv, GateCount
<1>3. CASE ListPeers
  BY <1>3 DEF ListPeers, ChannelInv, GateCount
<1>4. CASE CountGenesis
  <2>1. IsFiniteSet(open \ peers)
    BY FS_Subset DEF ChannelInv
  <2> QED
    BY <1>4, <2>1 DEF CountGenesis, ChannelInv, GateCount
<1>5. CASE GatePasses
  BY <1>5 DEF GatePasses, ChannelInv, GateCount
<1>6. CASE ReadChannels \/ ReadPeers
  BY <1>6 DEF ReadChannels, ReadPeers, ChannelInv, GateCount
<1>7. CASE Select
  BY <1>7 DEF Select, ZeroHop, ChannelInv, GateCount
<1>8. CASE ExitReady
  BY <1>8 DEF ExitReady, ChannelInv, GateCount
<1>9. CASE TimesOut \/ CallFails
  <2>1. /\ stage' = "failed"
        /\ UNCHANGED <<size, connected, open, peers, genesis, reactor, seenPeers, targets>>
    BY <1>9 DEF TimesOut, CallFails
  <2> QED
    BY <2>1 DEF ChannelInv
<1>10. CASE TestEnds
  BY <1>10, FS_EmptySet DEF TestEnds, ChannelInv
<1>11. CASE NextBinary
  BY <1>11 DEF NextBinary, ChannelInv
<1>12. CASE \E n \in Nodes : Connect(n) \/ Disconnect(n)
  <2>1. /\ connected' \subseteq Nodes /\ stage # "ready"
        /\ UNCHANGED <<size, stage, open, peers, genesis, reactor, seenPeers, targets>>
    BY <1>12 DEF Connect, Disconnect, ChannelInv, Running, Booting
  <2> QED
    BY <2>1 DEF ChannelInv, GateCount
<1>13. CASE \E n \in Nodes : StrategyOpens(n)
  <2> PICK n \in Nodes : StrategyOpens(n)
    BY <1>13
  <2>1. IsFiniteSet(open') /\ Cardinality(open') = Cardinality(open) + 1
    BY FS_AddElement DEF StrategyOpens, ChannelInv
  <2>2. Cardinality(open) \in Nat /\ Cardinality(genesis) \in Nat
    BY FS_CardinalityType DEF ChannelInv
  <2> QED
    BY <2>1, <2>2 DEF StrategyOpens, ChannelInv, GateCount
<1>14. CASE \E n \in open : StrategyCloses(n)
  <2> PICK n \in open : StrategyCloses(n)
    BY <1>14
  <2>1. IsFiniteSet(open') /\ Cardinality(open') >= GateCount
    BY ClosingKeepsGate
  <2> QED
    BY <2>1 DEF StrategyCloses, ChannelInv, GateCount
<1>15. CASE (\E p \in listening : ListenerGone(p)) \/ Over \/ UNCHANGED vars
  <2>1. UNCHANGED <<size, stage, connected, open, peers, genesis, reactor, seenPeers, targets>>
    BY <1>15 DEF ListenerGone, Over, vars
  <2> QED
    BY <2>1 DEF ChannelInv, GateCount
<1> QED
  BY <1>1, <1>2, <1>3, <1>4, <1>5, <1>6, <1>7, <1>8, <1>9, <1>10, <1>11, <1>12, <1>13, <1>14, <1>15
  DEF Next, Setup

(* The channel invariant holds in every state of every chain. *)
LEMMA ChannelsAlways == Spec => []ChannelInv
  BY ChannelInit, ChannelStep, PTL DEF Spec

(* A setup past its gate has a channel to a running node, however many the *)
(* identity has gathered to nodes that are gone (await_edgli_channels_open *)
(* waits for one more than those).                                         *)
THEOREM GateAlwaysUsable == Spec => []GateMeansUsable
<1>1. ASSUME ChannelInv PROVE GateMeansUsable
  <2> SUFFICES ASSUME stage = "targets" PROVE open \cap Nodes # {}
    BY DEF GateMeansUsable
  <2>1. Cardinality(genesis) \in Nat /\ Cardinality(open) \in Nat
    BY <1>1, FS_CardinalityType DEF ChannelInv
  <2>2. Cardinality(open) > Cardinality(genesis)
    BY <1>1, <2>1 DEF ChannelInv, GateCount
  <2>3. \E n \in open : n \notin genesis
    BY <1>1, <2>2, LargerHasMore DEF ChannelInv
  <2> QED
    BY <1>1, <2>3 DEF ChannelInv
<1> QED
  BY <1>1, ChannelsAlways, PTL

(* Sessions go to nodes that run (select_session_targets), on Rotsee to    *)
(* the configured exit once it was connected.                              *)
THEOREM TargetsAlwaysLive == Spec => []TargetsAreLive
<1>1. ChannelInv => TargetsAreLive
  BY DEF ChannelInv, TargetsAreLive
<1> QED
  BY <1>1, ChannelsAlways, PTL

(* No step of any boot on a local cluster closes a channel: the floor,     *)
(* sized from one reading of the peers, holds whatever comes and goes.     *)
THEOREM StrategyNeverCloses == Spec => NeverCloses
<1>1. ASSUME ChannelInv, [Next]_vars PROVE [~rotsee => open \subseteq open']_vars
  <2> SUFFICES ASSUME Next, ~rotsee PROVE open \subseteq open'
    BY <1>1
  <2> USE DEF testVars, binaryVars, chainVars, vars
  <2>1. CASE \E n \in open : StrategyCloses(n)
    <3>1. FALSE
      BY <1>1, <2>1, NothingAboveFloor DEF StrategyCloses
    <3> QED
      BY <3>1
  <2>2. CASE Boot \/ TestEnds \/ NextBinary \/ Over \/ CallFails
    BY <2>2 DEF Boot, TestEnds, NextBinary, Over, CallFails
  <2>3. CASE Setup
    BY <2>3 DEF Setup, PeersConnected, ListPeers, CountGenesis, GatePasses, ReadChannels,
         ReadPeers, Select, ExitReady, TimesOut
  <2>4. CASE (\E n \in Nodes : Connect(n) \/ Disconnect(n) \/ StrategyOpens(n))
             \/ \E p \in listening : ListenerGone(p)
    BY <2>4 DEF Connect, Disconnect, StrategyOpens, ListenerGone
  <2> QED
    BY <2>1, <2>2, <2>3, <2>4 DEF Next
<1> QED
  BY <1>1, ChannelsAlways, PTL DEF Spec, NeverCloses
=============================================================================
