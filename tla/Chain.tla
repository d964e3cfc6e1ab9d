------------------------------- MODULE Chain -------------------------------
(***************************************************************************)
(* The local chain of scripts/integration/lib.sh.  chain_start puts a      *)
(* wrapper shell in the background, which runs chain_up: anvil, the        *)
(* contract deploy, bloklid; and polls GraphQL.  chain_stop signals the    *)
(* wrapper, kills both programs by their path and waits for the wrapper,   *)
(* not for them.                                                           *)
(*                                                                         *)
(* A program of the chain is <<kind, generation>>, the generation that of  *)
(* the chain_start behind it.  Both listen on fixed ports: one that finds  *)
(* its port taken exits at once.  SIGTERM asks a program to exit; when it  *)
(* does is up to it.  Bash runs a trap between commands, or at once in a   *)
(* `wait`; the wrapper's sees the pids only while chain_up, whose locals   *)
(* they are, has not returned.                                             *)
(***************************************************************************)
EXTENDS Integers

VARIABLES
  gen,      \* chain_starts so far
  wpc,      \* the wrapper: where it is in chain_up
  term,     \* the wrapper has a SIGTERM whose trap has not run
  pid,      \* CHAIN_PID, as the generation it names; 0 when empty
  procs,    \* programs alive
  serving,  \* bloklids that answer GraphQL
  dying,    \* programs that were sent SIGTERM
  cpc,      \* the caller: where it is in chain_start or chain_stop
  early,    \* history: generations whose trap ran before there was an anvil
  unsent    \* history: those a chain_stop found no CHAIN_PID for

history     == <<early, unsent>>
wrapperVars == <<gen, wpc, term, pid, procs, serving, dying, history>>
chainVars   == <<wrapperVars, cpc>>

Of(kind) == {p \in procs : p[1] = kind}

(* Where anvil_pid, and bloklid_pid, are set and in scope. *)
AnvilKnown   == {"anvilWait", "deploying", "failing", "deployed", "bloklidForked", "waiting"}
BloklidKnown == {"waiting"}

ChainInit ==
  /\ gen = 0 /\ wpc = "gone" /\ term = FALSE /\ pid = 0
  /\ procs = {} /\ serving = {} /\ dying = {} /\ cpc = "idle"
  /\ early = {} /\ unsent = {}

-----------------------------------------------------------------------------
(* chain_up, in the wrapper *)

(* A program started in the background, its port being free. *)
Starts(kind) == procs' = procs \cup (IF Of(kind) = {} THEN {<<kind, gen>>} ELSE {})

(* A binary is missing: there is no trap yet. *)
BinaryMissing ==
  /\ wpc = "check"
  /\ wpc' = "gone" /\ term' = FALSE
  /\ UNCHANGED <<gen, pid, procs, serving, dying, cpc, history>>

(* The binaries are there; the data directory is made and the trap set. *)
TrapSet ==
  /\ wpc = "check" /\ ~term
  /\ wpc' = "trapped"
  /\ UNCHANGED <<gen, term, pid, procs, serving, dying, cpc, history>>

AnvilStarts ==
  /\ wpc = "trapped" /\ ~term
  /\ Starts("anvil") /\ wpc' = "anvilForked"
  /\ UNCHANGED <<gen, term, pid, serving, dying, cpc, history>>

BloklidStarts ==
  /\ wpc = "deployed" /\ ~term
  /\ Starts("bloklid") /\ wpc' = "bloklidForked"
  /\ UNCHANGED <<gen, term, pid, serving, dying, cpc, history>>

(* anvil_pid=$!, bloklid_pid=$! *)
PidNoted ==
  /\ ~term
  /\ \/ wpc = "anvilForked" /\ wpc' = "anvilWait"
     \/ wpc = "bloklidForked" /\ wpc' = "waiting"
  /\ UNCHANGED <<gen, term, pid, procs, serving, dying, cpc, history>>

(* anvil answers, whichever anvil that is, or sixty tries are over. *)
AnvilWaited ==
  /\ wpc = "anvilWait" /\ ~term
  /\ wpc' = "deploying"
  /\ UNCHANGED <<gen, term, pid, procs, serving, dying, cpc, history>>

DeployEnds ==
  /\ wpc = "deploying"
  /\ wpc' \in (IF Of("anvil") = {} THEN {"failing"} ELSE {"failing", "deployed"})
  /\ UNCHANGED <<gen, term, pid, procs, serving, dying, cpc, history>>

WaitReturns ==
  /\ wpc = "waiting" /\ <<"bloklid", gen>> \notin procs
  /\ wpc' = "exit"
  /\ UNCHANGED <<gen, term, pid, procs, serving, dying, cpc, history>>

(* The deploy failed, and chain_up returns 1. *)
ReturnsFailed ==
  /\ wpc = "failing" /\ ~term
  /\ wpc' = "exit"
  /\ UNCHANGED <<gen, term, pid, procs, serving, dying, cpc, history>>

(* What chain_up_cleanup can name. *)
Named ==
  {p \in procs : /\ p[2] = gen
                 /\ \/ p[1] = "anvil" /\ wpc \in AnvilKnown
                    \/ p[1] = "bloklid" /\ wpc \in BloklidKnown}

(* chain_up_cleanup as the trap of SIGTERM: kills what was noted and goes  *)
(* on where it was, unless that was the `wait`, which returns.             *)
TermHandled ==
  /\ term /\ wpc \in AnvilKnown \cup {"trapped", "anvilForked"}
  /\ wpc # "deploying"                    \* the deployer is waited out first
  /\ term' = FALSE /\ dying' = dying \cup Named
  /\ wpc' = IF wpc = "waiting" THEN "exit" ELSE wpc
  /\ early' = IF wpc = "trapped" THEN early \cup {gen} ELSE early
  /\ UNCHANGED <<gen, pid, procs, serving, cpc, unsent>>

(* The signal comes before the trap is set. *)
TermUntrapped ==
  /\ term /\ wpc = "check"
  /\ term' = FALSE /\ wpc' = "gone"
  /\ UNCHANGED <<gen, pid, procs, serving, dying, cpc, history>>

(* ... and as the EXIT trap, chain_up having returned: it kills nothing.   *)
WrapperExits ==
  /\ wpc = "exit"
  /\ wpc' = "gone" /\ term' = FALSE
  /\ UNCHANGED <<gen, pid, procs, serving, dying, cpc, history>>

Wrapper ==
  \/ BinaryMissing \/ TrapSet \/ AnvilStarts \/ BloklidStarts \/ PidNoted
  \/ AnvilWaited \/ DeployEnds \/ WaitReturns \/ ReturnsFailed
  \/ TermHandled \/ TermUntrapped \/ WrapperExits

-----------------------------------------------------------------------------
(* The programs *)

Serves(p) ==
  /\ p \in procs \ (serving \cup dying) /\ p[1] = "bloklid" /\ Of("anvil") # {}
  /\ serving' = serving \cup {p}
  /\ UNCHANGED <<gen, wpc, term, pid, procs, dying, cpc, history>>

Gone(p) ==
  /\ procs' = procs \ {p} /\ serving' = serving \ {p} /\ dying' = dying \ {p}
  /\ UNCHANGED <<gen, wpc, term, pid, cpc, history>>

Obeys(p) == p \in dying /\ Gone(p)
Crashes(p) == p \in procs \ dying /\ Gone(p)

-----------------------------------------------------------------------------
(* chain_start and chain_stop, in the caller *)

ChainStart ==
  /\ gen' = gen + 1 /\ wpc' = "check" /\ term' = FALSE /\ cpc' = "forked"
  /\ UNCHANGED <<pid, procs, serving, dying, history>>

(* CHAIN_PID=$! *)
StartNotes ==
  /\ cpc = "forked"
  /\ cpc' = "polling" /\ pid' = gen
  /\ UNCHANGED <<gen, wpc, term, procs, serving, dying, history>>

(* Something answers GraphQL on the port. *)
PollAnswered ==
  /\ cpc = "polling" /\ serving # {}
  /\ cpc' = "started"
  /\ UNCHANGED wrapperVars

(* Mutant: the polls have no bound. *)
PollFailsDead ==
  /\ cpc = "polling" /\ wpc = "gone"
  /\ cpc' = "failed"
  /\ UNCHANGED wrapperVars

(* The wrapper is gone, or sixty tries are over: returns 1, stops nothing. *)
PollFails ==
  /\ cpc = "polling"
  /\ cpc' = "failed"
  /\ UNCHANGED wrapperVars

ChainStop ==
  /\ cpc' = "kill"
  /\ UNCHANGED wrapperVars

(* [ -n "${CHAIN_PID}" ] && kill "${CHAIN_PID}" *)
StopKill ==
  /\ cpc = "kill"
  /\ cpc' = "pkillBloklid"
  /\ term' = (wpc # "gone" /\ (term \/ pid = gen))
  /\ unsent' = IF pid = 0 /\ wpc # "gone" THEN unsent \cup {gen} ELSE unsent
  /\ UNCHANGED <<gen, wpc, pid, procs, serving, dying, early>>

StopPkill ==
  /\ cpc \in {"pkillBloklid", "pkillAnvil"}
  /\ \/ /\ cpc = "pkillBloklid" /\ cpc' = "pkillAnvil" /\ dying' = dying \cup Of("bloklid")
     \/ /\ cpc = "pkillAnvil" /\ cpc' = "wait" /\ dying' = dying \cup Of("anvil")
  /\ UNCHANGED <<gen, wpc, term, pid, procs, serving, history>>

(* Mutant: the wrapper is not waited for. *)
StopWaitNot ==
  /\ cpc = "wait"
  /\ cpc' = "stopped" /\ pid' = 0
  /\ UNCHANGED <<gen, wpc, term, procs, serving, dying, history>>

(* wait "${CHAIN_PID}", which returns at once when that is empty *)
StopWait ==
  /\ cpc = "wait" /\ (pid = gen => wpc = "gone")
  /\ cpc' = "stopped" /\ pid' = 0
  /\ UNCHANGED <<gen, wpc, term, procs, serving, dying, history>>

Calls == StartNotes \/ PollAnswered \/ PollFails \/ StopKill \/ StopPkill \/ StopWait

ChainTypeOK ==
  /\ gen \in Nat /\ term \in BOOLEAN /\ pid \in 0 .. gen
  /\ wpc \in {"gone", "check", "trapped", "anvilForked", "exit"} \cup AnvilKnown
  /\ cpc \in {"idle", "forked", "polling", "started", "failed", "kill", "pkillBloklid",
              "pkillAnvil", "wait", "stopped"}
  /\ procs \subseteq {"anvil", "bloklid"} \X (1 .. gen)
  /\ serving \subseteq Of("bloklid") /\ dying \subseteq procs
  /\ \A p, q \in procs : p[1] = q[1] => p = q
  /\ early \subseteq 1 .. gen /\ unsent \subseteq 1 .. gen
=============================================================================
