----------------------------- MODULE EdgliBoot -----------------------------
(***************************************************************************)
(* IntegrationEnv::setup over and over on one chain (env.rs): every test   *)
(* boots the same funded Edgli identity against the cluster of its binary, *)
(* and what earlier boots left on the chain (channels, announcements) is   *)
(* still there.  A binary's cluster is brought up once; its nodes are the  *)
(* first `size` of the frozen identities, so a smaller cluster behind a    *)
(* larger one leaves channels to nodes that no longer run.  The Rotsee     *)
(* setup is the same boot on a public network, with a fixed target.        *)
(*                                                                         *)
(* Edgli itself (its peer set, its channel-lifecycle strategy, the chain)  *)
(* is outside this repository and does whatever its configuration allows.  *)
(***************************************************************************)
EXTENDS Integers, FiniteSets

CONSTANTS
  MaxSize,    \* MAX_CLUSTER_SIZE
  Sizes,      \* cluster sizes the binaries ask for
  MinPeers,   \* peers a boot waits for
  Networks,   \* of which networks: TRUE for Rotsee, FALSE for a local cluster
  RotseeTarget,  \* ROTSEE_TARGET_CHANNELS
  Exit,       \* the exit node a Rotsee setup is given
  Binaries,   \* bound: test binaries run on the chain
  Boots       \* bound: tests per binary

ASSUME SizeAssumption ==
  /\ MaxSize \in Nat /\ Sizes \subseteq 2 .. MaxSize /\ MinPeers \in Nat
  /\ Networks \subseteq BOOLEAN /\ RotseeTarget \in Nat \ {0} /\ Exit \in Nat
  /\ Binaries \in Nat \ {0} /\ Boots \in Nat \ {0}

VARIABLES
  rotsee,     \* the setups are setup_rotsee's: no cluster, `Nodes` is the network
  binary,     \* the test binary running
  size,       \* its cluster's size
  boots,      \* BOOTS: Edglis booted by this process
  stage,      \* where the current test's setup is
  connected,  \* Edgli's connected peers
  open,       \* accounts its identity has an Open outgoing channel to
  peers, genesis,      \* what boot_edgli read of the two
  reactor,    \* the channel-lifecycle strategy runs
  seenOpen, seenPeers, \* what select_session_targets read so far, as options
  targets,    \* (dest_zero_hop, dest_one_hop), as an option
  announced,  \* ports the chain knows a node at
  port,       \* this Edgli's P2P port
  listening   \* ports earlier Edglis of this process still listen on

chainVars == <<open, announced>>
readVars  == <<seenOpen, seenPeers, targets>>
floorVars == <<peers, genesis, reactor>>
bootVars  == <<floorVars, readVars>>
ports     == <<port, listening>>
binaryVars == <<rotsee, binary, size>>
testVars  == <<binaryVars, boots>>
vars == <<testVars, stage, connected, chainVars, bootVars, ports>>

Nodes    == 0 .. size - 1        \* the nodes of the running cluster; node i has port i
Booting  == {"connecting", "listing", "counting", "gate", "targets"}

-----------------------------------------------------------------------------
(* Mutant: the port behind the current cluster, as it once was. *)
EdgePortBehindCluster == size + boots

(* edge_p2p_port: behind the largest cluster, and one further every boot.  *)
EdgePort == MaxSize + boots

(* The channels a setup asks for: one per node of its cluster, or Rotsee's. *)
Wanted == IF rotsee THEN RotseeTarget ELSE size

(* target_channels + genesis_channels: the strategy's target and its floor. *)
TargetChannels == Wanted + Cardinality(genesis)

(* Mutant: the strategy may close channels down to one. *)
FloorOfOne == 1

MinOpenChannels == TargetChannels

Init ==
  /\ rotsee \in Networks
  /\ binary = 1 /\ size \in Sizes /\ boots = 0 /\ stage = "ready"
  /\ connected = {} /\ open = {}
  /\ peers = {} /\ genesis = {} /\ reactor = FALSE
  /\ seenOpen = {} /\ seenPeers = {} /\ targets = {}
  /\ announced = Nodes /\ port = -1 /\ listening = {}

-----------------------------------------------------------------------------
(* A test's setup *)

(* Edgli::new: the identity's next incarnation binds its port. *)
Boot ==
  /\ stage = "ready" /\ boots < Boots
  /\ stage' = "connecting"
  /\ port' = EdgePort /\ boots' = boots + 1
  /\ UNCHANGED <<binaryVars, connected, chainVars, bootVars, listening>>

(* await_edgli_peers_connected *)
PeersConnected ==
  /\ stage = "connecting" /\ Cardinality(connected) >= MinPeers
  /\ stage' = "listing"
  /\ UNCHANGED <<testVars, connected, chainVars, bootVars, ports>>

(* The peers are read once more, for the comparison below. *)
ListPeers ==
  /\ stage = "listing"
  /\ peers' = connected /\ stage' = "counting"
  /\ UNCHANGED <<testVars, connected, chainVars, genesis, reactor, readVars, ports>>

(* Open channels to accounts that are no peer are set aside, and the       *)
(* strategy is started with a target that makes up for them.               *)
CountGenesis ==
  /\ stage = "counting"
  /\ genesis' = open \ peers /\ reactor' = TRUE
  /\ stage' = "gate"
  /\ UNCHANGED <<testVars, connected, chainVars, peers, readVars, ports>>

(* Mutant: any open channel will do. *)
GateOnAny == 1

(* Channels the gate waits for. *)
GateCount == 1 + Cardinality(genesis)

(* await_edgli_channels_open *)
GatePasses ==
  /\ stage = "gate" /\ Cardinality(open) >= GateCount
  /\ stage' = "targets"
  /\ UNCHANGED <<testVars, connected, chainVars, bootVars, ports>>

(* select_session_targets joins two reads, which return in either order.   *)
ReadChannels ==
  /\ stage = "targets" /\ ~rotsee /\ seenOpen = {}
  /\ seenOpen' = {open}
  /\ UNCHANGED <<testVars, stage, connected, chainVars, floorVars, seenPeers, targets, ports>>

ReadPeers ==
  /\ stage = "targets" /\ ~rotsee /\ seenPeers = {}
  /\ seenPeers' = {connected}
  /\ UNCHANGED <<testVars, stage, connected, chainVars, floorVars, seenOpen, targets, ports>>

(* Mutant: the first open channel is taken, whoever is at its end. *)
ZeroHopAnyChannel(channels, live) == channels

(* Accounts a direct session may go to. *)
ZeroHop(channels, live) == channels \cap live

(* ... and, with both in hand, picks a direct and a relayed destination,   *)
(* or fails the setup.                                                     *)
Select ==
  /\ stage = "targets"
  /\ \E channels \in seenOpen, live \in seenPeers :
       \/ \E zero \in ZeroHop(channels, live), one \in live :
            /\ one # zero
            /\ targets' = {<<zero, one>>} /\ stage' = "serving"
       \/ /\ \A zero \in ZeroHop(channels, live), one \in live : one = zero
          /\ stage' = "failed" /\ UNCHANGED targets
  /\ UNCHANGED <<testVars, connected, chainVars, floorVars, seenOpen, seenPeers, ports>>

(* setup_rotsee waits for its configured exit instead                      *)
(* (await_edgli_exit_peer_ready).                                          *)
ExitReady ==
  /\ stage = "targets" /\ rotsee /\ Exit \in connected
  /\ targets' = {<<Exit, Exit>>} /\ stage' = "serving"
  /\ UNCHANGED <<testVars, connected, chainVars, floorVars, seenOpen, seenPeers, ports>>

(* Mutant: the gate waits for its channel as long as it takes. *)
TimesOutOnPeersOnly ==
  /\ stage = "connecting"
  /\ stage' = "failed"
  /\ UNCHANGED <<testVars, connected, chainVars, bootVars, ports>>

(* A poll_until runs into its deadline. *)
TimesOut ==
  /\ stage \in {"connecting", "gate"} \cup (IF rotsee THEN {"targets"} ELSE {})
  /\ stage' = "failed"
  /\ UNCHANGED <<testVars, connected, chainVars, bootVars, ports>>

(* Any call to Edgli fails: the `?` ends the setup. *)
CallFails ==
  /\ stage \in Booting
  /\ stage' = "failed"
  /\ UNCHANGED <<testVars, connected, chainVars, bootVars, ports>>

(* The test ends: Drop aborts the reactor before Edgli goes, a failed      *)
(* setup's is stopped with the test's runtime.  Its listener may linger.   *)
TestEnds ==
  /\ stage \in {"serving", "failed"}
  /\ stage' = "ready"
  /\ reactor' = FALSE /\ connected' = {}
  /\ listening' = listening \cup {port} /\ port' = -1
  /\ peers' = {} /\ genesis' = {} /\ seenOpen' = {} /\ seenPeers' = {} /\ targets' = {}
  /\ UNCHANGED <<testVars, chainVars>>

(* The next binary brings up a cluster of its own size on the same chain.  *)
NextBinary ==
  /\ stage = "ready" /\ binary < Binaries
  /\ binary' = binary + 1 /\ size' \in Sizes
  /\ announced' = announced \cup 0 .. size' - 1
  /\ boots' = 0 /\ listening' = {}
  /\ UNCHANGED <<rotsee, stage, connected, open, bootVars, port>>

Over == stage = "ready" /\ binary = Binaries /\ boots = Boots /\ UNCHANGED vars

-----------------------------------------------------------------------------
(* Edgli, the cluster and the chain *)

Running == stage \in Booting \cup {"serving"}

Connect(n) ==
  /\ Running /\ n \notin connected
  /\ connected' = connected \cup {n}
  /\ UNCHANGED <<testVars, stage, chainVars, bootVars, ports>>

Disconnect(n) ==
  /\ Running /\ n \in connected
  /\ connected' = connected \ {n}
  /\ UNCHANGED <<testVars, stage, chainVars, bootVars, ports>>

(* A strategy tick opens a channel to a peer, up to the target. *)
StrategyOpens(n) ==
  /\ reactor /\ n \in connected \ open /\ Cardinality(open) < TargetChannels
  /\ open' = open \cup {n}
  /\ UNCHANGED <<testVars, stage, connected, announced, bootVars, ports>>

(* Its close pass may close any channel while more than the floor is open. *)
StrategyCloses(n) ==
  /\ reactor /\ n \in open /\ Cardinality(open) > MinOpenChannels
  /\ open' = open \ {n}
  /\ UNCHANGED <<testVars, stage, connected, announced, bootVars, ports>>

ListenerGone(p) ==
  /\ p \in listening
  /\ listening' = listening \ {p}
  /\ UNCHANGED <<testVars, stage, connected, chainVars, bootVars, port>>

Setup ==
  \/ PeersConnected \/ ListPeers \/ CountGenesis \/ GatePasses
  \/ ReadChannels \/ ReadPeers \/ Select \/ ExitReady \/ TimesOut

Next ==
  \/ Boot \/ Setup \/ CallFails \/ TestEnds \/ NextBinary \/ Over
  \/ \E n \in Nodes : Connect(n) \/ Disconnect(n) \/ StrategyOpens(n)
  \/ \E n \in open : StrategyCloses(n)
  \/ \E p \in listening : ListenerGone(p)

Spec == Init /\ [][Next]_vars

(* The setup's own polls and reads run on and run out. *)
Fairness ==
  /\ WF_vars(ListPeers) /\ WF_vars(CountGenesis) /\ WF_vars(TimesOut)
  /\ WF_vars(ReadChannels) /\ WF_vars(ReadPeers) /\ WF_vars(Select)

FairSpec == Spec /\ Fairness

-----------------------------------------------------------------------------
(* Properties *)

(* Edgli never binds a port some node was ever announced at, nor one an    *)
(* earlier Edgli of the process may still be listening on, whatever the    *)
(* sizes of the clusters the chain has seen.                               *)
PortIsFree == port # -1 => port \notin announced /\ port \notin listening

(* A setup that passed the gate holds a channel to a node of the cluster   *)
(* that is running: channels to the dead accounts of earlier clusters,     *)
(* however many the identity has gathered, never open it alone.            *)
GateMeansUsable == stage = "targets" => open \cap Nodes # {}

(* The strategy's floor never lets it close a channel under a scenario on  *)
(* a local cluster, though the floor was set from a count read before      *)
(* peers came, went and came back over several boots.                      *)
NeverCloses == [][~rotsee => open \subseteq open']_vars

(* Sessions go to nodes of the cluster that is running: never to one an    *)
(* earlier, larger cluster left a channel to.                              *)
TargetsAreLive == \A t \in targets : stage = "serving" => t[1] \in Nodes /\ t[2] \in Nodes

(* Every setup ends, in a usable environment or an error. *)
SetupEnds == stage = "connecting" ~> stage \in {"serving", "failed"}
=============================================================================
