------------------------------- MODULE Suite -------------------------------
(***************************************************************************)
(* run-binchain.sh: one test binary after another on a shared chain.  tee  *)
(* copies what the binary, and the cluster it leaks, write to a FIFO; the  *)
(* cluster is asked to go once the binary is gone, and the results are     *)
(* read from the log when tee has seen the end of it.                      *)
(*                                                                         *)
(* A localcluster inherits the binary's standard error and with it the     *)
(* FIFO (cluster.rs:717).  Whether a node does is up to hoprd-localcluster *)
(* and not shown by these sources: each node may hold the FIFO, or not.    *)
(***************************************************************************)
EXTENDS Cluster

CONSTANTS Binaries   \* the binaries of the run, each the sequence of its tests' asks

(* request_cluster_size is to be called before the first bring-up: in a    *)
(* binary either every test asks, or none does.                            *)
AsksAlike(tests) ==
  (\A i \in DOMAIN tests : tests[i] = {}) \/ (\A i \in DOMAIN tests : tests[i] # {})

ASSUME BinariesAssumption ==
  /\ Binaries \in Seq(Seq(SUBSET Nat))
  /\ \A k \in DOMAIN Binaries : AsksAlike(Binaries[k])

VARIABLES
  spc,      \* where the script is
  left,     \* binaries still to run
  tee,      \* tee is reading the FIFO
  told,     \* localclusters that were sent SIGTERM
  termed,   \* nodes that were sent SIGTERM
  held,     \* nodes that hold the FIFO's writing end
  late      \* history: nodes started by a localcluster after it was told to go

nodeVars   == <<termed, held, late>>
scriptVars == <<spc, left, tee, told, nodeVars>>
vars == <<clusterVars, scriptVars>>

Init ==
  /\ ClusterInit
  /\ spc = "start" /\ left = Binaries /\ tee = FALSE
  /\ told = {} /\ termed = {} /\ held = {} /\ late = {}

(* Processes that hold the FIFO's writing end. *)
Writers == (IF tpc \in {"none", "over"} THEN {} ELSE {<<"binary", 0>>})
             \cup {<<"localcluster", k>> : k \in alive} \cup {<<"node", i>> : i \in up \cap held}

-----------------------------------------------------------------------------
(* mkfifo, tee in the background, then the one cargo invocation. *)
StartSuite ==
  /\ spc = "start" /\ left # <<>>
  /\ spc' = "cargo" /\ left' = Tail(left) /\ tee' = TRUE /\ told' = {} /\ held' = {}
  /\ BinaryStarts(Head(left))
  /\ UNCHANGED <<termed, late>>

CargoReturns ==
  /\ spc = "cargo" /\ tpc = "over"
  /\ spc' = "pkill"
  /\ UNCHANGED <<clusterVars, left, tee, told, nodeVars>>

(* Mutant: the nodes are asked to go while a localcluster can still start one. *)
PkillLocalclusterAfter ==
  /\ spc \in {"pkill", "pkillNodes"}
  /\ \/ spc = "pkill" /\ termed' = up /\ spc' = "pkillNodes" /\ UNCHANGED told
     \/ spc = "pkillNodes" /\ told' = alive /\ spc' = "reaping" /\ UNCHANGED termed
  /\ UNCHANGED <<clusterVars, left, tee, held, late>>

(* reap_nodes: SIGTERM for the localclusters, then for the nodes. *)
Pkill ==
  /\ spc \in {"pkill", "pkillNodes"}
  /\ \/ spc = "pkill" /\ told' = alive /\ spc' = "pkillNodes" /\ UNCHANGED termed
     \/ spc = "pkillNodes" /\ termed' = up /\ spc' = "reaping" /\ UNCHANGED told
  /\ UNCHANGED <<clusterVars, left, tee, held, late>>

(* ... and a wait for all of them to be gone, given up after thirty tries. *)
ReapingEnds ==
  /\ spc = "reaping"
  /\ spc' = "wait"
  /\ UNCHANGED <<clusterVars, left, tee, told, nodeVars>>

(* Mutant: tee is left to itself. *)
WaitTeeNot ==
  /\ spc = "wait"
  /\ spc' = "record"
  /\ UNCHANGED <<clusterVars, left, tee, told, nodeVars>>

(* wait "${tee_pid}" *)
WaitTee ==
  /\ spc = "wait" /\ ~tee
  /\ spc' = "record"
  /\ UNCHANGED <<clusterVars, left, tee, told, nodeVars>>

(* record_results, and round the loop. *)
Record ==
  /\ spc = "record"
  /\ spc' = IF left = <<>> THEN "over" ELSE "start"
  /\ tpc' = "none"
  /\ UNCHANGED <<asks, requested, shared, cur, status, sizes, answered, processVars,
                 left, tee, told, nodeVars>>

(* A signal's handler exits: finish_run reaps no nodes. *)
Interrupted ==
  /\ spc \notin {"over", "start"}
  /\ spc' = "over" /\ tpc' = "over"
  /\ UNCHANGED <<asks, requested, shared, cur, status, sizes, answered, processVars,
                 left, tee, told, nodeVars>>

Over == spc = "over" /\ UNCHANGED vars

-----------------------------------------------------------------------------
(* Processes the script started or asked to go *)

(* tee reads on until nobody holds the writing end. *)
TeeEnds ==
  /\ tee /\ Writers = {}
  /\ tee' = FALSE
  /\ UNCHANGED <<clusterVars, spc, left, told, nodeVars>>

(* A localcluster starts a node, also between its SIGTERM and its end.     *)
NodeSpawned(k, i) ==
  /\ NodeStarts(k, i)
  /\ held' \in {held \ {i}, held \cup {i}}
  /\ late' = IF k \in told THEN late \cup {i} ELSE late \ {i}
  /\ termed' = termed \ {i}
  /\ UNCHANGED <<spc, left, tee, told>>

(* Its shutdown is asynchronous; a node that is frozen cannot obey. *)
LocalclusterObeys(k) ==
  spc # "over" /\ k \in told /\ LocalclusterEnds(k) /\ UNCHANGED scriptVars

NodeObeys(i) ==
  spc # "over" /\ i \in termed \ frozen /\ NodeDies(i) /\ UNCHANGED scriptVars

Script ==
  \/ StartSuite \/ CargoReturns \/ Pkill \/ ReapingEnds \/ WaitTee \/ Record

Processes ==
  \/ \E new \in {"Running", "Failed", "Exited"} : StatusChanges(new) /\ UNCHANGED scriptVars
  \/ \E k \in alive : (\E i \in Ports : NodeSpawned(k, i)) \/ LocalclusterObeys(k)
  \/ \E i \in Ports : NodeDies(i) /\ UNCHANGED scriptVars

Next ==
  \/ Script \/ Interrupted \/ Over \/ TeeEnds
  \/ Tests /\ UNCHANGED scriptVars
  \/ spc # "over" /\ Processes

Spec == Init /\ [][Next]_vars

(* The script and the test go on, a bring-up's polls run out, localclusters *)
(* obey a SIGTERM, and so do nodes that are not frozen; nobody is owed a    *)
(* Running or a ready node.                                                 *)
Fairness ==
  /\ WF_vars(Script) /\ WF_vars(TeeEnds)
  /\ WF_vars((TestStarts \/ StartFails \/ PollTimesOut \/ TestEnds \/ BinaryEnds)
               /\ UNCHANGED scriptVars)
  /\ WF_vars(\E k \in alive : LocalclusterObeys(k))
  /\ \A i \in Ports : WF_vars(NodeObeys(i))

FairSpec == Spec /\ Fairness

-----------------------------------------------------------------------------
(* Properties *)

(* When a binary's results are recorded, and until the next one starts,    *)
(* nobody can write to the log any more, and each node that is still       *)
(* running has been told to go since it was started, unless a localcluster *)
(* started it after it had been told to go itself: whatever failed         *)
(* bring-ups left behind, however slowly processes obey, and even where    *)
(* reap_nodes has given up waiting for them.                               *)
SuiteCleansUp ==
  spc \in {"record", "start"} => Writers = {} /\ up \subseteq termed \cup late

(* The script ends, unless tee is kept waiting for a node that holds the   *)
(* FIFO and that no SIGTERM ends: one left frozen by a test process that   *)
(* was killed, or one that a localcluster started after reap_nodes had     *)
(* asked all nodes to go.                                                  *)
SuitesEnd ==
  <>(spc = "over") \/ <>[](spc = "wait" /\ up \cap held \cap (frozen \cup (late \ termed)) # {})
=============================================================================
