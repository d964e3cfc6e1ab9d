------------------------------ MODULE Cluster ------------------------------
(***************************************************************************)
(* bring_up_shared (integration/src/cluster.rs): the tests of one binary,  *)
(* one after another, ask for a size and for the cluster.  The first to    *)
(* get one leaks it for the others; one whose bring-up fails leaves the    *)
(* next to try again, over the same fixed ports.                           *)
(*                                                                         *)
(* hoprd-localcluster and the nodes are processes of their own: what they  *)
(* report and when they die is up to them.  A node is named by its index,  *)
(* that is by its port, which one process at a time can hold, whichever    *)
(* localcluster started it.  Managed mode only: attach_external has no     *)
(* process to start and none to leave behind.                              *)
(***************************************************************************)
EXTENDS Integers, Sequences, FiniteSetsExt

CONSTANTS
  DefaultSize,        \* HOPRD_CLUSTER_SIZE, or DEFAULT_CLUSTER_SIZE
  MinSize, MaxSize    \* MIN_CLUSTER_SIZE, MAX_CLUSTER_SIZE

ASSUME SizeAssumption ==
  /\ MinSize \in Nat \ {0} /\ MaxSize \in Nat
  /\ DefaultSize \in MinSize .. MaxSize

VARIABLES
  asks,       \* what each test still to come requests, a set of at most one size
  requested,  \* REQUESTED_SIZE, a set of at most one size
  shared,     \* SHARED, a set of at most one localcluster
  tpc,        \* what the current test is doing; "none" when no binary runs
  cur,        \* localclusters this binary has started; the last of them is its newest
  status,     \* what the newest one's `status` reports
  sizes,      \* --size of each
  answered,   \* history: nodes each poll of the newest bring-up found ready
  alive,      \* localclusters running
  up, frozen  \* nodes running, and those of them stopped by SIGSTOP

binaryVars  == <<asks, requested, shared, tpc, cur, status, sizes, answered>>
processVars == <<alive, up, frozen>>
clusterVars == <<binaryVars, processVars>>

Polls  == {"readyz", "peers", "channels"}
Ports  == 0 .. MaxSize - 1

-----------------------------------------------------------------------------
(* The size of the cluster *)

Clamp(n) == Max({MinSize, Min({MaxSize, n})})

(* Mutant: the size of the last test to ask. *)
RequestSizeLatest(ask) == IF ask = {} THEN requested ELSE {Clamp(n) : n \in ask}

(* request_cluster_size: the first call in a binary wins. *)
RequestSize(ask) == IF requested = {} THEN {Clamp(n) : n \in ask} ELSE requested

(* cluster_size, read anew wherever it is used. *)
ClusterSize == IF requested = {} THEN DefaultSize ELSE CHOOSE n \in requested : TRUE

-----------------------------------------------------------------------------
ClusterInit ==
  /\ asks = <<>> /\ requested = {} /\ shared = {} /\ tpc = "none"
  /\ cur = 0 /\ status = "Exited" /\ sizes = <<>> /\ answered = {}
  /\ alive = {} /\ up = {} /\ frozen = {}

(* The process starts: its statics are fresh. *)
BinaryStarts(tests) ==
  /\ asks' = tests /\ requested' = {} /\ shared' = {} /\ tpc' = "between"
  /\ cur' = 0 /\ status' = "Exited" /\ sizes' = <<>> /\ answered' = {}
  /\ UNCHANGED processVars

(* The test asks for its size, then takes the shared cluster or spawns one. *)
TestStarts ==
  /\ tpc = "between" /\ asks # <<>>
  /\ requested' = RequestSize(Head(asks))
  /\ asks' = Tail(asks)
  /\ \/ /\ shared # {} /\ tpc' = "using"
        /\ UNCHANGED <<cur, status, sizes, answered, alive>>
     \/ /\ shared = {} /\ tpc' = "status"
        /\ cur' = cur + 1 /\ alive' = alive \cup {cur + 1}
        /\ status' = "Starting" /\ answered' = {}
        /\ sizes' = Append(sizes, ClusterSize')
  /\ UNCHANGED <<shared, up, frozen>>

(* wait_status_running: `status` reports Running. *)
StatusRunning ==
  /\ tpc = "status" /\ status = "Running"
  /\ tpc' = "readyz"
  /\ UNCHANGED <<asks, requested, shared, cur, status, sizes, answered, processVars>>

(* ... or Failed, or the localcluster is gone, or the start times out: it  *)
(* gets SIGINT and SIGKILL at once, and takes along what nodes it could.   *)
StartFails ==
  /\ tpc = "status"
  /\ tpc' = "between" /\ alive' = alive \ {cur}
  /\ up' \in SUBSET up /\ frozen' = frozen \cap up'
  /\ UNCHANGED <<asks, requested, shared, cur, status, sizes, answered>>

(* The shared cluster's nodes: what is beyond them is none of the test's.  *)
Nodes == 0 .. ClusterSize - 1

(* A node that is frozen, or not there, answers no request. *)
Answers(i) == i \in up \ frozen

NextPhase == CASE tpc = "readyz" -> "peers" [] tpc = "peers" -> "channels" [] tpc = "channels" -> "using"

(* A round of poll_cluster_until finds every node ready; after the last    *)
(* poll the handle is leaked and shared.                                   *)
PollPasses ==
  /\ tpc \in Polls
  /\ \A i \in Nodes : Answers(i)
  /\ answered' = answered \cup {<<tpc, i>> : i \in Nodes}
  /\ tpc' = NextPhase
  /\ shared' = IF tpc = "channels" THEN {cur} ELSE shared
  /\ UNCHANGED <<asks, requested, cur, status, sizes, processVars>>

(* A poll runs into its deadline: the handle is dropped, which kills       *)
(* nothing, and the test fails.                                            *)
PollTimesOut ==
  /\ tpc \in Polls
  /\ tpc' = "between"
  /\ UNCHANGED <<asks, requested, shared, cur, status, sizes, answered, processVars>>

-----------------------------------------------------------------------------
(* What a test does to the nodes *)

(* NodeInfo::pause and NodeInfo::resume *)
Pause(i) ==
  /\ tpc = "using" /\ i \in (Nodes \cap up) \ frozen
  /\ frozen' = frozen \cup {i}
  /\ UNCHANGED <<binaryVars, alive, up>>

Resume(i) ==
  /\ tpc = "using" /\ i \in Nodes \cap frozen
  /\ frozen' = frozen \ {i}
  /\ UNCHANGED <<binaryVars, alive, up>>

(* The test returns or unwinds, and Thawed's drop resumes what it froze.   *)
TestEnds ==
  /\ tpc = "using"
  /\ tpc' = "between" /\ frozen' = frozen \ Nodes
  /\ UNCHANGED <<asks, requested, shared, cur, status, sizes, answered, alive, up>>

BinaryEnds ==
  /\ tpc = "between" /\ asks = <<>>
  /\ tpc' = "over"
  /\ UNCHANGED <<asks, requested, shared, cur, status, sizes, answered, processVars>>

(* The process is killed, unwinding nothing. *)
BinaryKilled ==
  /\ tpc \notin {"none", "over"}
  /\ tpc' = "over"
  /\ UNCHANGED <<asks, requested, shared, cur, status, sizes, answered, processVars>>

-----------------------------------------------------------------------------
(* The processes *)

StatusChanges(new) ==
  /\ status = "Starting" /\ cur \in alive
  /\ status' = new
  /\ alive' = IF new = "Exited" THEN alive \ {cur} ELSE alive
  /\ UNCHANGED <<asks, requested, shared, tpc, cur, sizes, answered, up, frozen>>

(* A localcluster starts one of its nodes, if nobody holds the port.       *)
NodeStarts(k, i) ==
  /\ k \in alive /\ i < sizes[k]
  /\ i \notin up
  /\ up' = up \cup {i}
  /\ UNCHANGED <<binaryVars, alive, frozen>>

(* A node crashes, or is killed. *)
NodeDies(i) ==
  /\ i \in up
  /\ up' = up \ {i} /\ frozen' = frozen \ {i}
  /\ UNCHANGED <<binaryVars, alive>>

Tests ==
  \/ TestStarts \/ StatusRunning \/ StartFails \/ PollPasses \/ PollTimesOut
  \/ TestEnds \/ BinaryEnds \/ BinaryKilled
  \/ \E i \in Ports : Pause(i) \/ Resume(i)

(* A localcluster ends on a signal, and takes along what nodes it could.   *)
LocalclusterEnds(k) ==
  /\ k \in alive
  /\ alive' = alive \ {k}
  /\ up' \in SUBSET up /\ frozen' = frozen \cap up'
  /\ UNCHANGED binaryVars

-----------------------------------------------------------------------------
(* Properties *)

(* Whatever sizes the tests of the binary ask for, if each of them asks or *)
(* none does: the size the polls wait for, and the size a test's setup     *)
(* plans its channels and its port by, is the one the cluster was started  *)
(* with, and each of that cluster's nodes has passed every poll before a   *)
(* test gets it.                                                           *)
EveryNodeWasReady ==
  /\ tpc \in Polls \cup {"using"} => ClusterSize = sizes[cur]
  /\ \A k \in shared : k = cur /\ Polls \X (0 .. sizes[k] - 1) \subseteq answered
=============================================================================
