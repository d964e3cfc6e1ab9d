------------------------------- MODULE Runner -------------------------------
(***************************************************************************)
(* scripts/integration/run.sh from its traps on, with run_tier of lib.sh:  *)
(* put the line's dependency set in place, build, pin edgli, start the     *)
(* chain, run the tier's suites one after another (return_path's on a new  *)
(* chain), print the summary.  A suite is one pass or fail here; module    *)
(* Suite has its inside.                                                   *)
(*                                                                         *)
(* Every step is a command; bash runs a signal's trap between two of them, *)
(* at once in a `wait`, and the EXIT trap when the script ends.  A handler *)
(* can be interrupted by the next signal, and so can the EXIT trap, which  *)
(* is not run twice.                                                       *)
(***************************************************************************)
EXTENDS Chain, FiniteSets, Sequences, SequencesExt

CONSTANTS
  Requests,     \* the runs: [line, tier, pix, pixConfig, returnPath]
  Scenarios,    \* what list_scenarios names in return_path
  TwoHop,       \* those held out of line v4
  Spread,       \* the scenario held out of both
  MaxSignals    \* bound: HUP, INT and TERM the script gets

ASSUME RequestsAssumption ==
  Requests \subseteq [line: {"v4", "v5"}, tier: {"pr", "nightly"}, pix: BOOLEAN,
                      pixConfig: BOOLEAN, returnPath: BOOLEAN]

ASSUME ScenariosAssumption == IsFiniteSet(Scenarios) /\ TwoHop \cup {Spread} \subseteq Scenarios

ASSUME SignalsAssumption == MaxSignals \in Nat

VARIABLES
  req,          \* this run's request
  pc,           \* where the script is
  toml, lock,   \* Cargo.toml and Cargo.lock: "orig", the "line" set's, or "pinned"
  backup,       \* MANIFEST_BACKUP exists
  restored,     \* files restore_manifest has copied back, in its current call
  exitTrap,     \* what the EXIT trap does
  todo,         \* suites still to run in this group
  rc,           \* run_tier's suite_rc is 1
  status,       \* exit status, -1 before there is one
  sigs,         \* signals so far
  cut,          \* a signal ended the EXIT trap
  ran,          \* history: suites run
  red,          \* history: a suite failed
  printed       \* the summary was printed

filesVars == <<toml, lock, backup, restored>>
runVars   == <<req, pc, filesVars, exitTrap, todo, rc, status, sigs, cut, ran, red, printed>>
vars      == <<chainVars, runVars>>

-----------------------------------------------------------------------------
(* The suites of a request *)

InTier(r, t) == r.line = "v4" \/ r.tier = t

MixedFirst(r)   == r.pix /\ r.pixConfig /\ InTier(r, "pr")
NightlyRest(r)  == r.pix /\ r.pixConfig /\ InTier(r, "nightly")

Wanted(r) ==
     (IF InTier(r, "pr") THEN {"integration"} ELSE {})
  \cup (IF InTier(r, "nightly") THEN {"exit_origination"} ELSE {})
  \cup (IF r.pix /\ InTier(r, "pr") THEN {"pix"} ELSE {})
  \cup (IF MixedFirst(r) THEN {"pix_shapes_mixed"} ELSE {})
  \cup (IF NightlyRest(r) THEN {"pix_shapes_rest"} ELSE {})

(* The suites of the first chain, in the order of run_tier. *)
FirstGroup(r) ==
  LET IfWanted(s) == IF s \in Wanted(r) THEN <<s>> ELSE <<>>
  IN  IfWanted("integration") \o IfWanted("exit_origination") \o IfWanted("pix")
        \o IfWanted("pix_shapes_mixed") \o IfWanted("pix_shapes_rest")

(* A localcluster that takes no --pix-config makes the run red as it is. *)
RedAlready(r) == r.pix /\ ~r.pixConfig

RestartsChain(r) == r.line = "v4" \/ (InTier(r, "nightly") /\ r.returnPath)

(* The scenarios of return_path that are not held out, one suite each. *)
Kept(r) == Scenarios \ ({Spread} \cup (IF r.line = "v4" THEN TwoHop ELSE {}))

Planned(r) == Wanted(r) \cup (IF RestartsChain(r) THEN Kept(r) ELSE {})

-----------------------------------------------------------------------------
(* Where run.sh sets its traps: both files are backed up. *)
Init ==
  /\ ChainInit
  /\ req \in Requests /\ pc = "swap"
  /\ toml = "orig" /\ lock = "orig" /\ backup = TRUE /\ restored = 0
  /\ exitTrap = "restore" /\ todo = <<>> /\ rc = FALSE /\ status = -1
  /\ sigs = 0 /\ cut = FALSE /\ ran = {} /\ red = FALSE /\ printed = FALSE

Goto(next) == pc' = next /\ UNCHANGED <<req, sigs, cut>>

(* A command fails, and `set -e` ends the script. *)
Fails == Goto("exit") /\ status' = 1 /\ restored' = 0

Swap ==
  /\ pc = "swap" /\ Goto("build")
  /\ IF req.line = "v5" THEN toml' = "line" /\ lock' = "line" ELSE UNCHANGED <<toml, lock>>
  /\ UNCHANGED <<chainVars, backup, restored, exitTrap, todo, rc, status, ran, red, printed>>

(* nix build of everything. *)
Build ==
  /\ pc = "build"
  /\ (Goto("pin") /\ UNCHANGED <<status, restored>>) \/ Fails
  /\ UNCHANGED <<chainVars, toml, lock, backup, exitTrap, todo, rc, ran, red, printed>>

(* pin_edgli: the manifest is rewritten, then cargo updates the lock. *)
Pin ==
  /\ pc = "pin"
  /\ \/ toml' = "pinned" /\ lock' = "pinned" /\ Goto("chain") /\ UNCHANGED <<status, restored>>
     \/ toml' \in {toml, "pinned"} /\ UNCHANGED lock /\ Fails
  /\ UNCHANGED <<chainVars, backup, exitTrap, todo, rc, ran, red, printed>>

(* chain_start, before the first group and before the second. *)
StartChain ==
  /\ \/ pc = "chain" /\ Goto("polling")
     \/ pc = "chainAgain" /\ Goto("pollingAgain")
  /\ ChainStart
  /\ UNCHANGED <<filesVars, exitTrap, todo, rc, status, ran, red, printed>>

(* It returns; only after the first does the EXIT trap stop a chain. *)
ChainReturns ==
  /\ \/ pc = "polling" /\ cpc = "started" /\ Goto("trap") /\ UNCHANGED <<status, restored>>
     \/ pc = "pollingAgain" /\ cpc = "started" /\ Goto("list") /\ UNCHANGED <<status, restored>>
     \/ pc \in {"polling", "pollingAgain"} /\ cpc = "failed" /\ Fails
  /\ UNCHANGED <<chainVars, toml, lock, backup, exitTrap, todo, rc, ran, red, printed>>

InstallTrap ==
  /\ pc = "trap" /\ Goto("suites")
  /\ exitTrap' = "restore and stop"
  /\ todo' = FirstGroup(req) /\ rc' = RedAlready(req) /\ red' = RedAlready(req)
  /\ UNCHANGED <<chainVars, filesVars, status, ran, printed>>

(* Mutant: the result is the last suite's. *)
RunSuiteLast ==
  /\ pc \in {"suites", "scenarios"} /\ todo # <<>>
  /\ \E ok \in BOOLEAN : rc' = ~ok /\ red' = (red \/ ~ok)
  /\ ran' = ran \cup {Head(todo)} /\ todo' = Tail(todo)
  /\ UNCHANGED <<chainVars, req, pc, filesVars, exitTrap, status, sigs, cut, printed>>

(* run_suite: a failure is remembered and stops nothing. *)
RunSuite ==
  /\ pc \in {"suites", "scenarios"} /\ todo # <<>>
  /\ \E ok \in BOOLEAN : rc' = (rc \/ ~ok) /\ red' = (red \/ ~ok)
  /\ ran' = ran \cup {Head(todo)} /\ todo' = Tail(todo)
  /\ UNCHANGED <<chainVars, req, pc, filesVars, exitTrap, status, sigs, cut, printed>>

GroupEnds ==
  /\ pc \in {"suites", "scenarios"} /\ todo = <<>>
  /\ IF pc = "suites" /\ RestartsChain(req) THEN ChainStop /\ Goto("stopping")
                                            ELSE Goto("summary") /\ UNCHANGED chainVars
  /\ UNCHANGED <<filesVars, exitTrap, todo, rc, status, ran, red, printed>>

ChainStopped ==
  /\ pc = "stopping" /\ cpc = "stopped" /\ Goto("chainAgain")
  /\ UNCHANGED <<chainVars, filesVars, exitTrap, todo, rc, status, ran, red, printed>>

(* Mutant: nothing is held out. *)
ListHoldsNothing ==
  /\ pc = "list"
  /\ \/ Goto("scenarios") /\ todo' = SetToSeq(Scenarios) /\ UNCHANGED <<status, restored>>
     \/ Fails /\ UNCHANGED todo
  /\ UNCHANGED <<chainVars, toml, lock, backup, exitTrap, rc, ran, red, printed>>

(* list_scenarios, which builds the test binary. *)
List ==
  /\ pc = "list"
  /\ \/ Goto("scenarios") /\ todo' = SetToSeq(Kept(req)) /\ UNCHANGED <<status, restored>>
     \/ Fails /\ UNCHANGED todo
  /\ UNCHANGED <<chainVars, toml, lock, backup, exitTrap, rc, ran, red, printed>>

(* print_summary, and run_tier returns suite_rc, the script's last status. *)
Summary ==
  /\ pc = "summary" /\ Goto("exit")
  /\ printed' = TRUE /\ status' = (IF rc THEN 1 ELSE 0) /\ restored' = 0
  /\ UNCHANGED <<chainVars, toml, lock, backup, exitTrap, todo, rc, ran, red>>

Main ==
  \/ Swap \/ Build \/ Pin \/ StartChain \/ ChainReturns \/ InstallTrap
  \/ RunSuite \/ GroupEnds \/ ChainStopped \/ List \/ Summary

-----------------------------------------------------------------------------
(* Traps *)

(* Mutant: the handler leaves the files to the EXIT trap. *)
SignalExitsOnly ==
  /\ pc \notin {"over", "last"} /\ sigs < MaxSignals
  /\ sigs' = sigs + 1 /\ restored' = 0 /\ status' = 143
  /\ IF pc \in {"exit", "stop"} THEN pc' = "over" /\ cut' = TRUE
                                ELSE pc' = "exit" /\ UNCHANGED cut
  /\ UNCHANGED <<chainVars, req, toml, lock, backup, exitTrap, todo, rc, ran, red, printed>>

(* A signal: its handler restores the files from the start, then exits. *)
Signal ==
  /\ pc # "over" /\ sigs < MaxSignals
  /\ sigs' = sigs + 1 /\ restored' = 0
  /\ pc' = IF pc \in {"exit", "stop", "last"} THEN "last" ELSE "handler"
  /\ cut' = (pc' = "last")
  /\ UNCHANGED <<chainVars, req, toml, lock, backup, exitTrap, todo, rc, status, ran, red, printed>>

(* Mutant: a handler that does not exit. *)
HandlerReturns ==
  /\ pc \in {"handler", "last"} /\ ~backup
  /\ pc' = (IF pc = "last" THEN "over" ELSE IF exitTrap = "restore" THEN "build" ELSE "suites")
  /\ status' = status /\ restored' = 0
  /\ UNCHANGED <<chainVars, req, toml, lock, backup, exitTrap, todo, rc, sigs, cut, ran, red,
                 printed>>

(* One command of restore_manifest: a file copied back, the backup removed. *)
Restore ==
  /\ pc \in {"handler", "exit", "last"} /\ backup
  /\ toml' = IF restored = 0 THEN "orig" ELSE toml
  /\ lock' = IF restored = 1 THEN "orig" ELSE lock
  /\ backup' = (restored < 2) /\ restored' = restored + 1
  /\ UNCHANGED <<chainVars, req, pc, exitTrap, todo, rc, status, sigs, cut, ran, red, printed>>

(* `exit 143` at the end of the handler: on to the EXIT trap, or, within   *)
(* that one, to the end.                                                   *)
HandlerExits ==
  /\ pc \in {"handler", "last"} /\ ~backup
  /\ pc' = (IF pc = "handler" THEN "exit" ELSE "over")
  /\ status' = 143 /\ restored' = 0
  /\ UNCHANGED <<chainVars, req, toml, lock, backup, exitTrap, todo, rc, sigs, cut, ran, red,
                 printed>>

(* The rest of the EXIT trap. *)
ExitTrap ==
  /\ \/ /\ pc = "exit" /\ ~backup
        /\ IF exitTrap = "restore" THEN Goto("over") /\ UNCHANGED chainVars
                                   ELSE Goto("stop") /\ ChainStop
     \/ pc = "stop" /\ cpc = "stopped" /\ Goto("over") /\ UNCHANGED chainVars
  /\ UNCHANGED <<filesVars, exitTrap, todo, rc, status, ran, red, printed>>

Traps == Restore \/ HandlerExits \/ ExitTrap

Over == pc = "over" /\ UNCHANGED vars

(* chain_start and chain_stop go on while the script is in them. *)
InCall == pc \in {"polling", "pollingAgain", "stopping", "stop"}

Next ==
  \/ Main \/ Traps \/ Signal \/ Over
  \/ InCall /\ Calls /\ UNCHANGED runVars
  \/ pc # "over" /\ Wrapper /\ UNCHANGED runVars
  \/ \E p \in procs : pc # "over" /\ (Serves(p) \/ Obeys(p) \/ Crashes(p)) /\ UNCHANGED runVars

Spec == Init /\ [][Next]_vars

(* Commands are taken to end: neither script bounds a build, a suite or    *)
(* the deployer.  A program obeys SIGTERM; none owes anybody an answer.    *)
Fairness ==
  /\ WF_vars(Main \/ Traps)
  /\ WF_vars(InCall /\ Calls /\ UNCHANGED runVars)
  /\ WF_vars(pc # "over" /\ Wrapper /\ UNCHANGED runVars)
  /\ WF_vars(\E p \in procs : pc # "over" /\ Obeys(p) /\ UNCHANGED runVars)

FairSpec == Spec /\ Fairness

-----------------------------------------------------------------------------
(* Properties *)

TypeOK ==
  /\ ChainTypeOK
  /\ req \in Requests
  /\ pc \in {"swap", "build", "pin", "chain", "polling", "trap", "suites", "stopping", "chainAgain",
             "pollingAgain", "list", "scenarios", "summary", "handler", "exit", "stop", "last",
             "over"}
  /\ {toml, lock} \subseteq {"orig", "line", "pinned"} /\ backup \in BOOLEAN /\ restored \in 0 .. 3
  /\ exitTrap \in {"restore", "restore and stop"} /\ status \in {-1, 0, 1, 143}
  /\ sigs \in 0 .. MaxSignals /\ ran \subseteq Planned(req)

(* Wherever the script fails and however many signals come, in its traps   *)
(* as well as in its commands: when it is over the checkout's manifest and *)
(* lock are what they were.                                                *)
ManifestRestored == pc = "over" => toml = "orig" /\ lock = "orig"

(* No suite runs against another dependency set than the one pinned, on a  *)
(* signal that comes while suites run included.                            *)
SuiteOnItsLine == pc \in {"suites", "list", "scenarios"} => toml = "pinned" /\ lock = "pinned"

(* Exit status 0 says that no signal came and that every suite the request *)
(* asks for ran and passed, the summary printed.                           *)
GreenIsGreen == pc = "over" /\ status = 0 => ran = Planned(req) /\ ~red /\ printed /\ sigs = 0

(* Once chain_stop is the EXIT trap's, and unless a signal cuts the trap   *)
(* short: the wrapper does not outlive the script, and nothing of either   *)
(* chain does that was not at least sent its SIGTERM - although the trap   *)
(* of the wrapper goes on with chain_up, and at EXIT kills nothing.  The   *)
(* code leaves two exceptions: a SIGTERM whose trap ran before there was   *)
(* an anvil, and a wrapper chain_start had no time to note the pid of.     *)
NoChainLeft ==
  pc = "over" /\ exitTrap = "restore and stop" /\ ~cut =>
    /\ wpc = "gone" \/ gen \in unsent
    /\ \A p \in procs \ dying : p[2] \in early \cup unsent

(* The script ends, unless it waits for a wrapper that ran its trap early  *)
(* and then started the bloklid it now waits for.                          *)
RunEnds == <>(pc = "over") \/ <>[](cpc = "wait" /\ wpc = "waiting" /\ ~term)
=============================================================================
