--------------------------- MODULE RunnerProofs ----------------------------
(***************************************************************************)
(* A run of run.sh for any requests, any number of signals at any command, *)
(* the traps' included, and any failure of the chain's programs: the       *)
(* checkout gets its files back, suites run on the pinned set, a run is    *)
(* green only if all of them did and passed, and the chain leaves nothing  *)
(* unsignalled behind, two exceptions of the code apart.                   *)
(***************************************************************************)
EXTENDS Runner, TLAPS, FiniteSetTheorems

-----------------------------------------------------------------------------
(* The manifest and the lock *)

Working == {"swap", "build", "pin"}     \* the commands that put the set in place
OnItsSet == {"chain", "polling", "trap", "suites", "stopping", "chainAgain", "pollingAgain",
             "list", "scenarios", "summary"}

(* The backup is there until both files are back, a call of                *)
(* restore_manifest that was cut short is begun anew, and nothing but a    *)
(* trap restores.                                                          *)
FilesInv ==
  /\ pc \in Working \cup OnItsSet \cup {"handler", "exit", "stop", "last", "over"}
  /\ pc \in Working \cup OnItsSet => backup /\ restored = 0
  /\ pc \in OnItsSet => toml = "pinned" /\ lock = "pinned"
  /\ backup => /\ restored \in 0 .. 2
               /\ restored >= 1 => toml = "orig"
               /\ restored = 2 => lock = "orig"
  /\ ~backup => toml = "orig" /\ lock = "orig"
  /\ pc \in {"stop", "over"} => ~backup

(* The run starts with both files untouched and backed up. *)
LEMMA FilesInit == Init => FilesInv
  BY DEF Init, FilesInv, Working, OnItsSet

(* Every step keeps it; the chain's own steps touch no file. *)
LEMMA FilesStep == FilesInv /\ [Next]_vars => FilesInv'
<1> SUFFICES ASSUME FilesInv, [Next]_vars PROVE FilesInv'
  OBVIOUS
<1> USE DEF FilesInv, Working, OnItsSet, filesVars, Goto, Fails
<1>1. CASE Swap
  BY <1>1 DEF Swap
<1>2. CASE Build
  BY <1>2 DEF Build
<1>3. CASE Pin
  BY <1>3 DEF Pin
<1>4. CASE StartChain
  BY <1>4 DEF StartChain
<1>5. CASE ChainReturns
  BY <1>5 DEF ChainReturns
<1>6. CASE InstallTrap \/ RunSuite
  BY <1>6 DEF InstallTrap, RunSuite
<1>7. CASE GroupEnds \/ ChainStopped
  BY <1>7 DEF GroupEnds, ChainStopped
<1>8. CASE List \/ Summary
  BY <1>8 DEF List, Summary
<1>9. CASE Restore
  <2>1. /\ pc \in {"handler", "exit", "last"} /\ pc' = pc
        /\ backup /\ restored' = restored + 1 /\ (backup' <=> restored < 2)
        /\ toml' = (IF restored = 0 THEN "orig" ELSE toml)
        /\ lock' = (IF restored = 1 THEN "orig" ELSE lock)
    BY <1>9 DEF Restore
  <2>2. CASE restored = 0
    BY <2>1, <2>2
  <2>3. CASE restored = 1
    BY <2>1, <2>3
  <2>4. CASE restored = 2
    BY <2>1, <2>4
  <2>5. restored \in {0, 1, 2}
    BY <2>1
  <2> QED
    BY <2>2, <2>3, <2>4, <2>5
<1>10. CASE HandlerExits
  BY <1>10 DEF HandlerExits
<1>11. CASE ExitTrap
  BY <1>11 DEF ExitTrap
<1>12. CASE Signal
  BY <1>12 DEF Signal
<1>13. CASE UNCHANGED runVars
  BY <1>13 DEF runVars
<1> QED
  BY <1>1, <1>2, <1>3, <1>4, <1>5, <1>6, <1>7, <1>8, <1>9, <1>10, <1>11, <1>12, <1>13
  DEF Next, Main, Traps, Over, vars

(* The invariant holds in every state of every run. *)
LEMMA FilesAlways == Spec => []FilesInv
  BY FilesInit, FilesStep, PTL DEF Spec

(* When the script is over the checkout has its manifest and lock back,    *)
(* however many signals came and wherever they came (restore_manifest and  *)
(* the traps of run.sh).                                                   *)
THEOREM ManifestIsRestored == Spec => []ManifestRestored
<1>1. FilesInv => ManifestRestored
  BY DEF FilesInv, ManifestRestored
<1> QED
  BY <1>1, FilesAlways, PTL

(* Every suite runs on the set that was pinned (pin_edgli before           *)
(* run_tier), whatever signal is pending.                                  *)
THEOREM SuitesOnTheirLine == Spec => []SuiteOnItsLine
<1>1. FilesInv => SuiteOnItsLine
  BY DEF FilesInv, SuiteOnItsLine, OnItsSet
<1> QED
  BY <1>1, FilesAlways, PTL

-----------------------------------------------------------------------------
(* Sequences of suites *)

(* The elements of a sequence, by its indices. *)
LEMMA ToSetIs ==
  ASSUME NEW S, NEW s \in Seq(S)
  PROVE  ToSet(s) = {s[i] : i \in 1 .. Len(s)}
<1>1. DOMAIN s = 1 .. Len(s)
  OBVIOUS
<1> QED
  BY <1>1 DEF ToSet

(* A concatenation has the elements of both. *)
LEMMA ToSetConcat ==
  ASSUME NEW S, NEW s \in Seq(S), NEW t \in Seq(S)
  PROVE  s \o t \in Seq(S) /\ ToSet(s \o t) = ToSet(s) \cup ToSet(t)
<1>1. s \o t \in Seq(S) /\ Len(s \o t) = Len(s) + Len(t)
  OBVIOUS
<1>2. Len(s) \in Nat /\ Len(t) \in Nat
  OBVIOUS
<1>3. ASSUME NEW i \in 1 .. Len(s) PROVE i \in 1 .. Len(s \o t) /\ (s \o t)[i] = s[i]
  BY <1>1, <1>2, <1>3
<1>4. ASSUME NEW i \in 1 .. Len(t)
      PROVE  Len(s) + i \in 1 .. Len(s \o t) /\ (s \o t)[Len(s) + i] = t[i]
  <2>1. Len(s) + i \in 1 .. Len(s) + Len(t) /\ Len(s) + i > Len(s) /\ (Len(s) + i) - Len(s) = i
    BY <1>2
  <2> QED
    BY <1>1, <2>1
<1>5. ASSUME NEW i \in 1 .. Len(s \o t)
      PROVE  \/ i \in 1 .. Len(s) /\ (s \o t)[i] = s[i]
             \/ i - Len(s) \in 1 .. Len(t) /\ (s \o t)[i] = t[i - Len(s)]
  <2>1. i \in 1 .. Len(s) \/ (i > Len(s) /\ i - Len(s) \in 1 .. Len(t))
    BY <1>1, <1>2
  <2> QED
    BY <1>1, <2>1
<1>6. ToSet(s) = {s[i] : i \in 1 .. Len(s)} /\ ToSet(t) = {t[i] : i \in 1 .. Len(t)}
      /\ ToSet(s \o t) = {(s \o t)[i] : i \in 1 .. Len(s \o t)}
  BY <1>1, ToSetIs
<1>7. ToSet(s \o t) \subseteq ToSet(s) \cup ToSet(t)
  <2> SUFFICES ASSUME NEW x \in ToSet(s \o t) PROVE x \in ToSet(s) \cup ToSet(t)
    OBVIOUS
  <2>1. PICK i \in 1 .. Len(s \o t) : x = (s \o t)[i]
    BY <1>6
  <2> QED
    BY <1>5, <1>6, <2>1
<1>8. ToSet(s) \cup ToSet(t) \subseteq ToSet(s \o t)
  <2>1. ASSUME NEW x \in ToSet(s) PROVE x \in ToSet(s \o t)
    BY <1>3, <1>6
  <2>2. ASSUME NEW x \in ToSet(t) PROVE x \in ToSet(s \o t)
    BY <1>4, <1>6
  <2> QED
    BY <2>1, <2>2
<1> QED
  BY <1>1, <1>7, <1>8

(* The first element and those of the rest are all there is. *)
LEMMA ToSetHead ==
  ASSUME NEW S, NEW s \in Seq(S), s # <<>>
  PROVE  Tail(s) \in Seq(S) /\ ToSet(s) = {Head(s)} \cup ToSet(Tail(s))
<1>1. PICK n \in Nat : n = Len(s)
  OBVIOUS
<1>2. n >= 1 /\ Tail(s) \in Seq(S) /\ Len(Tail(s)) = n - 1 /\ Head(s) = s[1]
  BY <1>1
<1>3. ASSUME NEW i \in 1 .. n - 1 PROVE Tail(s)[i] = s[i + 1]
  BY <1>1, <1>2
<1>4. ToSet(s) = {s[i] : i \in 1 .. n} /\ ToSet(Tail(s)) = {Tail(s)[i] : i \in 1 .. n - 1}
  BY <1>1, <1>2, ToSetIs
<1>5. ASSUME NEW i \in 1 .. n PROVE s[i] \in {Head(s)} \cup ToSet(Tail(s))
  <2>1. CASE i = 1
    BY <1>2, <2>1
  <2>2. CASE i # 1
    <3>1. PICK k \in 1 .. n - 1 : i = k + 1
      <4>1. i - 1 \in 1 .. n - 1 /\ i = (i - 1) + 1
        BY <1>1, <2>2
      <4> QED
        BY <4>1
    <3>2. Tail(s)[k] = s[i]
      BY <1>3, <3>1
    <3> QED
      BY <1>4, <3>2
  <2> QED
    BY <2>1, <2>2
<1>6. ASSUME NEW i \in 1 .. n - 1 PROVE Tail(s)[i] \in ToSet(s)
  <2>1. i + 1 \in 1 .. n
    BY <1>1
  <2> QED
    BY <1>3, <1>4, <2>1
<1>7. Head(s) \in ToSet(s)
  <2>1. 1 \in 1 .. n
    BY <1>1, <1>2
  <2> QED
    BY <1>2, <1>4, <2>1
<1> QED
  BY <1>2, <1>4, <1>5, <1>6, <1>7

(* A finite set put in a sequence is all there. *)
LEMMA ToSetOfSet ==
  ASSUME NEW S, IsFiniteSet(S)
  PROVE  SetToSeq(S) \in Seq(S) /\ ToSet(SetToSeq(S)) = S
<1>1. Cardinality(S) \in Nat /\ ExistsBijection(1 .. Cardinality(S), S)
  BY FS_CardinalityType
<1>2. PICK n \in Nat : n = Cardinality(S)
  BY <1>1
<1>3. \E f \in [1 .. n -> S] : IsInjective(f)
  BY <1>1, <1>2 DEF ExistsBijection, Bijection, Injection
<1>4. PICK g : g = SetToSeq(S)
  OBVIOUS
<1>5. g \in [1 .. n -> S] /\ IsInjective(g)
  BY <1>2, <1>3, <1>4 DEF SetToSeq
<1>6. g \in Injection(1 .. n, S)
  BY <1>5 DEF Injection
<1>7. Cardinality(1 .. n) = n
  <2>1. 1 \in Int /\ n \in Int
    OBVIOUS
  <2>2. Cardinality(1 .. n) = IF 1 > n THEN 0 ELSE n - 1 + 1
    BY <2>1, FS_Interval
  <2> QED
    BY <2>2
<1>8. g \in Surjection(1 .. n, S)
  BY <1>2, <1>6, <1>7, FS_Injection
<1>9. g \in Seq(S)
  BY <1>5
<1>10. DOMAIN g = 1 .. n
  BY <1>5
<1>11. ToSet(g) = S
  BY <1>5, <1>8, <1>10 DEF ToSet, Surjection
<1> QED
  BY <1>4, <1>9, <1>11

-----------------------------------------------------------------------------
(* The suites *)

Suites == {"integration", "exit_origination", "pix", "pix_shapes_mixed", "pix_shapes_rest"}
            \cup Scenarios

Before == Working \cup {"chain", "polling", "trap"}     \* no suite has run
Between == {"stopping", "chainAgain", "pollingAgain", "list"}

(* A suite that ran is one of the request's; what is still to run is what  *)
(* is missing of its group; while the script works no signal came, there   *)
(* is no status, and the result says whether a suite failed.               *)
RanInv ==
  /\ req \in Requests /\ todo \in Seq(Suites)
  /\ ran \subseteq Planned(req)
  /\ pc \in Before => ran = {} /\ rc = FALSE /\ red = FALSE
  /\ pc = "suites" => ran \cup ToSet(todo) = Wanted(req)
  /\ pc \in Between => ran = Wanted(req) /\ RestartsChain(req)
  /\ pc = "scenarios" => ran \cup ToSet(todo) = Planned(req)
  /\ pc = "summary" => ran = Planned(req)

(* What has been said of it. *)
SaidInv ==
  /\ rc \in BOOLEAN /\ red = rc
  /\ sigs \in 0 .. MaxSignals /\ status \in {-1, 0, 1, 143}
  /\ pc \in Working \cup OnItsSet => sigs = 0 /\ status = -1
  /\ pc \in {"handler", "last"} => sigs > 0
  /\ pc \in {"exit", "stop", "over"} => status # -1
  /\ status = 0 => ran = Planned(req) /\ red = FALSE /\ printed = TRUE
  /\ status = 0 /\ pc \notin {"handler", "last"} => sigs = 0

(* The suites wanted are those of the five that the first group asks for. *)
LEMMA WantedNames ==
  ASSUME NEW r
  PROVE  Wanted(r) \subseteq {"integration", "exit_origination", "pix", "pix_shapes_mixed", "pix_shapes_rest"}
  BY DEF Wanted

(* The first group is all that is wanted of it. *)
LEMMA FirstGroupIs ==
  ASSUME NEW r
  PROVE  FirstGroup(r) \in Seq(Suites) /\ ToSet(FirstGroup(r)) = Wanted(r)
<1> DEFINE I(s) == IF s \in Wanted(r) THEN <<s>> ELSE <<>>
<1>1. ASSUME NEW s \in Suites
      PROVE  I(s) \in Seq(Suites) /\ ToSet(I(s)) = {s} \cap Wanted(r)
  <2>1. <<s>> \in Seq(Suites) /\ Len(<<s>>) = 1 /\ <<s>>[1] = s
    OBVIOUS
  <2>2. ToSet(<<s>>) = {s}
    <3>1. ToSet(<<s>>) = {<<s>>[i] : i \in 1 .. 1}
      BY <2>1, ToSetIs
    <3>2. 1 .. 1 = {1}
      OBVIOUS
    <3> QED
      BY <2>1, <3>1, <3>2
  <2>3. <<>> \in Seq(Suites) /\ ToSet(<<>>) = {}
    <3>1. <<>> \in Seq(Suites) /\ Len(<<>>) = 0
      OBVIOUS
    <3>2. ToSet(<<>>) = {<<>>[i] : i \in 1 .. 0}
      BY <3>1, ToSetIs
    <3> QED
      BY <3>1, <3>2
  <2>4. CASE s \in Wanted(r)
    BY <2>1, <2>2, <2>4
  <2>5. CASE s \notin Wanted(r)
    BY <2>3, <2>5
  <2> QED
    BY <2>4, <2>5
<1>2. /\ "integration" \in Suites /\ "exit_origination" \in Suites /\ "pix" \in Suites
      /\ "pix_shapes_mixed" \in Suites /\ "pix_shapes_rest" \in Suites
  BY DEF Suites
<1> DEFINE a == I("integration")
           b == I("exit_origination")
           c == I("pix")
           d == I("pix_shapes_mixed")
           e == I("pix_shapes_rest")
<1>3. FirstGroup(r) = a \o b \o c \o d \o e
  BY DEF FirstGroup
<1>4. /\ a \in Seq(Suites) /\ b \in Seq(Suites) /\ c \in Seq(Suites) /\ d \in Seq(Suites) /\ e \in Seq(Suites)
  BY <1>1, <1>2
<1>5. /\ ToSet(a) = {"integration"} \cap Wanted(r) /\ ToSet(b) = {"exit_origination"} \cap Wanted(r)
      /\ ToSet(c) = {"pix"} \cap Wanted(r) /\ ToSet(d) = {"pix_shapes_mixed"} \cap Wanted(r)
      /\ ToSet(e) = {"pix_shapes_rest"} \cap Wanted(r)
  BY <1>1, <1>2
<1> HIDE DEF a, b, c, d, e
<1> DEFINE ab == a \o b
           abc == ab \o c
           abcd == abc \o d
<1>6. ab \in Seq(Suites) /\ ToSet(ab) = ToSet(a) \cup ToSet(b)
  BY <1>4, ToSetConcat
<1> HIDE DEF ab
<1>7. abc \in Seq(Suites) /\ ToSet(abc) = ToSet(ab) \cup ToSet(c)
  BY <1>4, <1>6, ToSetConcat
<1> HIDE DEF abc
<1>8. abcd \in Seq(Suites) /\ ToSet(abcd) = ToSet(abc) \cup ToSet(d)
  BY <1>4, <1>7, ToSetConcat
<1> HIDE DEF abcd
<1>9. abcd \o e \in Seq(Suites) /\ ToSet(abcd \o e) = ToSet(abcd) \cup ToSet(e)
  BY <1>4, <1>8, ToSetConcat
<1>10. ToSet(a) \cup ToSet(b) \cup ToSet(c) \cup ToSet(d) \cup ToSet(e) = Wanted(r)
  BY <1>5, WantedNames
<1>11. FirstGroup(r) = abcd \o e
  BY <1>3 DEF ab, abc, abcd
<1> QED
  BY <1>6, <1>7, <1>8, <1>9, <1>10, <1>11

(* The scenarios kept are suites, and the second group is all of them. *)
LEMMA KeptIs ==
  ASSUME NEW r
  PROVE  SetToSeq(Kept(r)) \in Seq(Suites) /\ ToSet(SetToSeq(Kept(r))) = Kept(r)
<1>1. Kept(r) \subseteq Scenarios
  BY DEF Kept
<1>2. IsFiniteSet(Kept(r))
  BY <1>1, ScenariosAssumption, FS_Subset
<1>3. SetToSeq(Kept(r)) \in Seq(Kept(r)) /\ ToSet(SetToSeq(Kept(r))) = Kept(r)
  BY <1>2, ToSetOfSet
<1>4. Kept(r) \subseteq Suites
  BY <1>1 DEF Suites
<1> QED
  BY <1>3, <1>4

(* No suite has run at first. *)
LEMMA RanInit == Init => RanInv /\ SaidInv
<1> SUFFICES ASSUME Init PROVE RanInv /\ SaidInv
  OBVIOUS
<1>1. <<>> \in Seq(Suites)
  OBVIOUS
<1>2. RanInv
  BY <1>1 DEF Init, RanInv, Before, Between
<1>3. 0 \in 0 .. MaxSignals
  BY SignalsAssumption
<1>4. /\ pc = "swap" /\ sigs = 0 /\ status = -1 /\ rc = FALSE /\ red = FALSE
      /\ rc \in BOOLEAN /\ red = rc
  BY DEF Init
<1>5. status \in {-1, 0, 1, 143} /\ status # 0
  BY <1>4
<1>6. SaidInv
  BY <1>3, <1>4, <1>5, Zenon DEF SaidInv, Working, OnItsSet
<1> QED
  BY <1>2, <1>6

(* A suite leaves the list and joins those that ran. *)
LEMMA SuiteRuns ==
  ASSUME RanInv, RunSuite
  PROVE  RanInv'
<1>1. /\ pc \in {"suites", "scenarios"} /\ todo # <<>> /\ pc' = pc /\ req' = req
      /\ ran' = ran \cup {Head(todo)} /\ todo' = Tail(todo)
  BY DEF RunSuite
<1>2. Tail(todo) \in Seq(Suites) /\ ToSet(todo) = {Head(todo)} \cup ToSet(Tail(todo))
  BY <1>1, ToSetHead DEF RanInv
<1>3. ran' \cup ToSet(todo') = ran \cup ToSet(todo)
  BY <1>1, <1>2
<1>4. Wanted(req) \subseteq Planned(req)
  BY DEF Planned
<1>5. /\ req' \in Requests /\ todo' \in Seq(Suites)
      /\ (pc = "suites" => ran' \cup ToSet(todo') = Wanted(req'))
      /\ (pc = "scenarios" => ran' \cup ToSet(todo') = Planned(req'))
  BY <1>1, <1>2, <1>3 DEF RanInv
<1>6. ran' \subseteq Planned(req')
  BY <1>1, <1>4, <1>5
<1> QED
  BY <1>1, <1>5, <1>6 DEF RanInv, Before, Between, Working

(* Nothing is left of a list that is empty. *)
LEMMA ToSetEmpty ==
  ASSUME todo = <<>>
  PROVE  ToSet(todo) = {}
<1>1. <<>> \in Seq(Suites) /\ Len(<<>>) = 0
  OBVIOUS
<1>2. ToSet(<<>>) = {<<>>[i] : i \in 1 .. 0}
  BY <1>1, ToSetIs
<1> QED
  BY <1>1, <1>2

(* Where there is no second chain, what is wanted is all that is planned. *)
LEMMA PlannedIs ==
  ASSUME NEW r
  PROVE  /\ Wanted(r) \subseteq Planned(r)
         /\ RestartsChain(r) => Planned(r) = Wanted(r) \cup Kept(r)
         /\ ~RestartsChain(r) => Planned(r) = Wanted(r)
  BY DEF Planned

(* A group ends with all of it run. *)
LEMMA GroupRan ==
  ASSUME RanInv, GroupEnds
  PROVE  RanInv'
<1>1. /\ pc \in {"suites", "scenarios"} /\ todo = <<>> /\ UNCHANGED <<req, todo, ran>>
      /\ pc' = (IF pc = "suites" /\ RestartsChain(req) THEN "stopping" ELSE "summary")
  BY DEF GroupEnds, Goto
<1>2. ToSet(todo) = {}
  BY <1>1, ToSetEmpty
<1>3. CASE pc = "suites" /\ RestartsChain(req)
  BY <1>1, <1>2, <1>3 DEF RanInv, Before, Between, Working
<1>4. CASE pc = "suites" /\ ~RestartsChain(req)
  <2>1. ran = Planned(req)
    BY <1>2, <1>4, PlannedIs DEF RanInv
  <2> QED
    BY <1>1, <1>4, <2>1 DEF RanInv, Before, Between, Working
<1>5. CASE pc = "scenarios"
  <2>1. ran = Planned(req)
    BY <1>2, <1>5 DEF RanInv
  <2> QED
    BY <1>1, <1>5, <2>1 DEF RanInv, Before, Between, Working
<1> QED
  BY <1>1, <1>3, <1>4, <1>5

(* Every step keeps the suites accounted for. *)
LEMMA RanStep == RanInv /\ [Next]_vars => RanInv'
<1> SUFFICES ASSUME RanInv, [Next]_vars PROVE RanInv'
  OBVIOUS
<1> USE DEF Before, Between, Working, Goto, Fails
<1>1. CASE Swap \/ Build \/ Pin
  BY <1>1 DEF RanInv, Swap, Build, Pin
<1>2. CASE StartChain
  BY <1>2 DEF RanInv, StartChain
<1>3. CASE ChainReturns
  BY <1>3 DEF RanInv, ChainReturns
<1>4. CASE InstallTrap
  <2>1. pc = "trap" /\ pc' = "suites" /\ UNCHANGED <<req, ran>> /\ todo' = FirstGroup(req)
    BY <1>4 DEF InstallTrap
  <2>2. FirstGroup(req) \in Seq(Suites) /\ ToSet(FirstGroup(req)) = Wanted(req)
    BY FirstGroupIs
  <2>3. ToSet(todo') = Wanted(req)
    BY <2>1, <2>2
  <2> QED
    BY <2>1, <2>2, <2>3 DEF RanInv
<1>5. CASE RunSuite
  BY <1>5, SuiteRuns
<1>6. CASE GroupEnds
  BY <1>6, GroupRan
<1>7. CASE ChainStopped
  BY <1>7 DEF RanInv, ChainStopped
<1>8. CASE List
  <2>1. pc = "list" /\ UNCHANGED <<req, ran>>
    BY <1>8 DEF List
  <2>2. CASE pc' = "scenarios" /\ todo' = SetToSeq(Kept(req))
    <3>1. todo' \in Seq(Suites) /\ ToSet(todo') = Kept(req)
      BY <2>2, KeptIs
    <3>2. ran \cup ToSet(todo') = Planned(req)
      BY <2>1, <3>1, PlannedIs DEF RanInv
    <3> QED
      BY <2>1, <2>2, <3>1, <3>2 DEF RanInv
  <2>3. CASE pc' = "exit" /\ UNCHANGED todo
    BY <2>1, <2>3 DEF RanInv
  <2> QED
    BY <1>8, <2>2, <2>3 DEF List
<1>9. CASE Summary
  BY <1>9 DEF RanInv, Summary
<1>10. CASE Restore
  BY <1>10 DEF RanInv, Restore
<1>11. CASE HandlerExits
  BY <1>11 DEF RanInv, HandlerExits
<1>12. CASE ExitTrap
  BY <1>12 DEF RanInv, ExitTrap
<1>13. CASE Signal
  BY <1>13 DEF RanInv, Signal
<1>14. CASE UNCHANGED runVars
  BY <1>14 DEF RanInv, runVars
<1> QED
  BY <1>1, <1>2, <1>3, <1>4, <1>5, <1>6, <1>7, <1>8, <1>9, <1>10, <1>11, <1>12, <1>13, <1>14
  DEF Next, Main, Traps, Over, vars

(* ... and what was said of them true. *)
LEMMA SaidStep == RanInv /\ FilesInv /\ SaidInv /\ [Next]_vars => SaidInv'
<1> SUFFICES ASSUME RanInv, FilesInv, SaidInv, [Next]_vars PROVE SaidInv'
  OBVIOUS
<1> USE DEF SaidInv, Working, OnItsSet, Goto, Fails
<1>1. CASE Swap \/ Build \/ Pin
  BY <1>1 DEF Swap, Build, Pin
<1>2. CASE StartChain
  BY <1>2 DEF StartChain
<1>3. CASE ChainReturns
  BY <1>3 DEF ChainReturns
<1>4. CASE InstallTrap
  <2>1. RedAlready(req) \in BOOLEAN
    <3>1. req \in [line: {"v4", "v5"}, tier: {"pr", "nightly"}, pix: BOOLEAN, pixConfig: BOOLEAN,
                   returnPath: BOOLEAN]
      BY RequestsAssumption DEF RanInv
    <3> QED
      BY <3>1 DEF RedAlready
  <2>2. /\ rc' \in BOOLEAN /\ red' = rc' /\ pc' = "suites" /\ pc = "trap"
        /\ UNCHANGED <<sigs, status>>
    BY <1>4, <2>1 DEF InstallTrap
  <2> QED
    BY <2>2
<1>5. CASE RunSuite
  <2>1. /\ rc' \in BOOLEAN /\ red' = rc' /\ pc' = pc /\ pc \in {"suites", "scenarios"}
        /\ UNCHANGED <<sigs, status>>
    BY <1>5 DEF RunSuite
  <2> QED
    BY <2>1
<1>6. CASE GroupEnds \/ ChainStopped
  BY <1>6 DEF GroupEnds, ChainStopped
<1>7. CASE List
  BY <1>7 DEF List
<1>8. CASE Summary
  BY <1>8 DEF Summary, RanInv
<1>9. CASE Restore
  BY <1>9 DEF Restore
<1>10. CASE HandlerExits
  BY <1>10 DEF HandlerExits
<1>11. CASE ExitTrap
  BY <1>11 DEF ExitTrap
<1>12. CASE Signal
  <2>1. sigs' \in 0 .. MaxSignals /\ sigs' > 0
    BY <1>12, SignalsAssumption DEF Signal
  <2>2. pc' \in {"handler", "last"} /\ UNCHANGED <<req, status, rc, red, ran, printed>>
    BY <1>12 DEF Signal
  <2> QED
    BY <2>1, <2>2
<1>13. CASE UNCHANGED runVars
  BY <1>13 DEF runVars
<1> QED
  BY <1>1, <1>2, <1>3, <1>4, <1>5, <1>6, <1>7, <1>8, <1>9, <1>10, <1>11, <1>12, <1>13
  DEF Next, Main, Traps, Over, vars

(* Both hold in every state of every run. *)
LEMMA RanAlways == Spec => [](RanInv /\ SaidInv)
<1>1. Spec => []RanInv
  BY RanInit, RanStep, PTL DEF Spec
<1>2. Spec => []SaidInv
  <2>1. Init => SaidInv
    BY RanInit
  <2> QED
    BY <1>1, <2>1, FilesAlways, SaidStep, PTL DEF Spec
<1> QED
  BY <1>1, <1>2, PTL

(* Exit status 0 is given only when no signal came and each suite the      *)
(* request asks for, on both chains, ran and passed (run_tier's suite_rc   *)
(* and the traps of run.sh).                                               *)
THEOREM GreenMeansAllRan == Spec => []GreenIsGreen
<1>1. RanInv /\ SaidInv => GreenIsGreen
  BY DEF SaidInv, GreenIsGreen
<1> QED
  BY <1>1, RanAlways, PTL

-----------------------------------------------------------------------------
(* The chain *)

Excused == early \cup unsent

(* Where chain_stop's kill is behind it. *)
Killed == {"pkillBloklid", "pkillAnvil", "wait", "stopped"}

(* Nothing of an earlier chain is left that was not signalled; the wrapper *)
(* has no program before it starts one, and no bloklid of its own to leave *)
(* behind; once it was signalled it starts no anvil any more, so that the  *)
(* pkill finds the one there is.                                           *)
ProgramsInv ==
  /\ gen \in Nat /\ pid \in {0, gen} /\ (cpc = "stopped" => pid = 0)
  /\ \A p \in procs : p \in {"anvil", "bloklid"} \X Nat /\ p[2] <= gen
  /\ \A p \in procs : p[2] = gen \/ p \in dying \/ p[2] \in Excused
  /\ wpc \in {"check", "trapped"} => \A p \in procs : p[2] # gen
  /\ wpc \notin {"bloklidForked", "waiting"} => <<"bloklid", gen>> \notin procs \ dying
  /\ cpc \in Killed /\ pid = 0 => wpc = "gone" \/ gen \in unsent
  /\ cpc \in Killed /\ wpc \in {"check", "trapped"} => term = TRUE \/ gen \in Excused
  /\ cpc \in {"wait", "stopped"} => <<"anvil", gen>> \notin procs \ dying \/ gen \in Excused

(* The script's side: where it is past its chain_stop, or before its first *)
(* chain_start, there is no wrapper.                                       *)
ScriptInv ==
  /\ pc \in {"swap", "build", "pin", "chain"} =>
       procs = {} /\ wpc = "gone" /\ pid = 0
  /\ pc = "chainAgain" => cpc = "stopped"
  /\ pc = "last" => cut
  /\ pc = "over" /\ exitTrap = "restore and stop" /\ ~cut => cpc = "stopped"

(* No program runs at first. *)
LEMMA ChainInvInit == Init => ProgramsInv /\ ScriptInv
  BY DEF Init, ChainInit, ProgramsInv, ScriptInv, Killed, Excused

(* When chain_stop has returned, its chain left nothing that was not       *)
(* signalled, one of the two exceptions apart.                             *)
LEMMA Stopped ==
  ASSUME ProgramsInv, cpc = "stopped"
  PROVE  /\ wpc = "gone" \/ gen \in unsent
         /\ \A p \in procs \ dying : p[2] \in Excused
<1>1. wpc = "gone" \/ gen \in unsent
  BY DEF ProgramsInv, Killed
<1>2. ASSUME NEW p \in procs \ dying, p[2] = gen PROVE p[2] \in Excused
  <2>1. p = <<"anvil", gen>> \/ p = <<"bloklid", gen>>
    BY <1>2 DEF ProgramsInv
  <2>2. CASE p = <<"anvil", gen>>
    BY <1>2, <2>2 DEF ProgramsInv
  <2>3. CASE p = <<"bloklid", gen>>
    BY <1>1, <1>2, <2>3 DEF ProgramsInv, Excused
  <2> QED
    BY <2>1, <2>2, <2>3
<1> QED
  BY <1>1, <1>2 DEF ProgramsInv

(* The wrapper's own steps keep its programs accounted for. *)
LEMMA WrapperStep ==
  ASSUME ProgramsInv, Wrapper
  PROVE  ProgramsInv' /\ UNCHANGED <<cpc, pid>> /\ wpc # "gone"
<1> USE DEF ProgramsInv, Killed, Excused, history
<1>1. CASE BinaryMissing \/ TrapSet
  BY <1>1 DEF BinaryMissing, TrapSet
<1>2. CASE AnvilStarts
  BY <1>2 DEF AnvilStarts, Starts
<1>3. CASE BloklidStarts
  BY <1>3 DEF BloklidStarts, Starts
<1>4. CASE PidNoted \/ AnvilWaited
  BY <1>4 DEF PidNoted, AnvilWaited
<1>5. CASE DeployEnds \/ WaitReturns \/ ReturnsFailed
  BY <1>5 DEF DeployEnds, WaitReturns, ReturnsFailed
<1>6. CASE TermHandled
  <2>1. CASE wpc = "waiting"
    <3>1. <<"bloklid", gen>> \in procs => <<"bloklid", gen>> \in Named
      BY <2>1 DEF Named, BloklidKnown
    <3> QED
      BY <1>6, <2>1, <3>1 DEF TermHandled, AnvilKnown
  <2>2. CASE wpc # "waiting"
    BY <1>6, <2>2 DEF TermHandled, AnvilKnown
  <2> QED
    BY <2>1, <2>2
<1>7. CASE TermUntrapped \/ WrapperExits
  BY <1>7 DEF TermUntrapped, WrapperExits
<1> QED
  BY <1>1, <1>2, <1>3, <1>4, <1>5, <1>6, <1>7 DEF Wrapper

(* So do the programs'. *)
LEMMA ProgramStep ==
  ASSUME ProgramsInv, NEW p \in procs, Serves(p) \/ Obeys(p) \/ Crashes(p)
  PROVE  ProgramsInv' /\ UNCHANGED <<cpc, wpc, pid>> /\ procs' \subseteq procs
<1>1. /\ procs' \subseteq procs /\ procs' \ dying' \subseteq procs \ dying
      /\ UNCHANGED <<gen, wpc, term, pid, cpc, early, unsent>>
  BY DEF Serves, Obeys, Crashes, Gone, history
<1> QED
  BY <1>1 DEF ProgramsInv, Excused

(* And what chain_start and chain_stop do after they were called. *)
LEMMA CallStep ==
  ASSUME ProgramsInv, Calls
  PROVE  ProgramsInv' /\ UNCHANGED <<procs, wpc>>
<1> USE DEF ProgramsInv, Killed, Excused, history
<1>1. CASE StartNotes
  BY <1>1 DEF StartNotes
<1>2. CASE PollAnswered \/ PollFails
  BY <1>2 DEF PollAnswered, PollFails, wrapperVars
<1>3. CASE StopKill
  BY <1>3 DEF StopKill
<1>4. CASE StopPkill
  BY <1>4 DEF StopPkill, Of
<1>5. CASE StopWait
  BY <1>5 DEF StopWait
<1> QED
  BY <1>1, <1>2, <1>3, <1>4, <1>5 DEF Calls

(* A chain is started when every program of the one before was signalled.  *)
LEMMA StartStep ==
  ASSUME ProgramsInv, ScriptInv, StartChain
  PROVE  ProgramsInv' /\ ScriptInv'
<1>1. pid = 0 /\ \A p \in procs \ dying : p[2] \in Excused
  <2>1. CASE pc = "chain"
    BY <2>1 DEF ScriptInv
  <2>2. CASE pc = "chainAgain"
    BY <2>2, Stopped DEF ScriptInv, ProgramsInv
  <2> QED
    BY <2>1, <2>2 DEF StartChain
<1>2. /\ gen' = gen + 1 /\ wpc' = "check" /\ cpc' = "forked"
      /\ UNCHANGED <<pid, procs, dying, early, unsent>>
  BY DEF StartChain, ChainStart, history
<1>3. ProgramsInv'
  BY <1>1, <1>2 DEF ProgramsInv, Killed, Excused
<1>4. pc' \in {"polling", "pollingAgain"}
  BY DEF StartChain, Goto
<1> QED
  BY <1>3, <1>4 DEF ScriptInv

(* Every step keeps both. *)
LEMMA ChainStep == ProgramsInv /\ ScriptInv /\ [Next]_vars => ProgramsInv' /\ ScriptInv'
<1> SUFFICES ASSUME ProgramsInv, ScriptInv, [Next]_vars PROVE ProgramsInv' /\ ScriptInv'
  OBVIOUS
<1>1. CASE StartChain
  BY <1>1, StartStep
<1>2. ASSUME UNCHANGED chainVars PROVE ProgramsInv'
  BY <1>2 DEF ProgramsInv, Killed, Excused, chainVars, wrapperVars, history
<1>3. ASSUME ChainStop PROVE ProgramsInv' /\ UNCHANGED <<procs, wpc, pid>>
  BY <1>3 DEF ProgramsInv, Killed, Excused, ChainStop, wrapperVars, history
<1>4. CASE Swap \/ Build \/ Pin
  BY <1>4, <1>2 DEF Swap, Build, Pin, ScriptInv, chainVars, wrapperVars, Goto, Fails
<1>5. CASE ChainReturns \/ InstallTrap \/ RunSuite
  BY <1>5, <1>2 DEF ChainReturns, InstallTrap, RunSuite, ScriptInv, chainVars, wrapperVars, Goto, Fails
<1>6. CASE ChainStopped \/ List \/ Summary
  BY <1>6, <1>2 DEF ChainStopped, List, Summary, ScriptInv, chainVars, wrapperVars, Goto, Fails
<1>7. CASE GroupEnds
  BY <1>7, <1>2, <1>3 DEF GroupEnds, ScriptInv, chainVars, wrapperVars, Goto
<1>8. CASE Signal
  BY <1>8, <1>2 DEF Signal, ScriptInv, chainVars, wrapperVars
<1>9. CASE Restore
  BY <1>9, <1>2 DEF Restore, ScriptInv, chainVars, wrapperVars
<1>10. CASE HandlerExits
  BY <1>10, <1>2 DEF HandlerExits, ScriptInv, chainVars, wrapperVars
<1>11. CASE ExitTrap
  BY <1>11, <1>2, <1>3 DEF ExitTrap, ScriptInv, chainVars, wrapperVars, Goto
<1>12. CASE UNCHANGED vars
  BY <1>12, <1>2 DEF vars, runVars, chainVars, wrapperVars, ScriptInv
<1>13. CASE InCall /\ Calls /\ UNCHANGED runVars
  <2>1. ProgramsInv' /\ UNCHANGED <<procs, wpc>>
    BY <1>13, CallStep
  <2> QED
    BY <1>13, <2>1 DEF ScriptInv, runVars, InCall
<1>14. CASE pc # "over" /\ Wrapper /\ UNCHANGED runVars
  <2>1. ProgramsInv' /\ UNCHANGED <<cpc, pid>> /\ wpc # "gone"
    BY <1>14, WrapperStep
  <2> QED
    BY <1>14, <2>1 DEF ScriptInv, runVars
<1>15. CASE \E p \in procs : pc # "over" /\ (Serves(p) \/ Obeys(p) \/ Crashes(p)) /\ UNCHANGED runVars
  <2> PICK p \in procs : pc # "over" /\ (Serves(p) \/ Obeys(p) \/ Crashes(p)) /\ UNCHANGED runVars
    BY <1>15
  <2>1. ProgramsInv' /\ UNCHANGED <<cpc, wpc, pid>> /\ procs' \subseteq procs
    BY ProgramStep
  <2> QED
    BY <2>1 DEF ScriptInv, runVars
<1> QED
  BY <1>1, <1>4, <1>5, <1>6, <1>7, <1>8, <1>9, <1>10, <1>11, <1>12, <1>13, <1>14, <1>15
  DEF Next, Main, Traps, Over

(* Unless a signal cuts the EXIT trap short, the wrapper is gone when the  *)
(* script is and all the programs of either chain were sent their SIGTERM, *)
(* the two exceptions apart: it rests on chain_stop's order, the kill      *)
(* before the pkills and the wait behind them, and on the wrapper's wait   *)
(* for its bloklid; its EXIT trap kills nothing.                           *)
THEOREM NoChainIsLeft == Spec => []NoChainLeft
<1>1. ProgramsInv /\ ScriptInv => NoChainLeft
  BY Stopped DEF ScriptInv, NoChainLeft, Excused
<1>2. Spec => [](ProgramsInv /\ ScriptInv)
  BY ChainInvInit, ChainStep, PTL DEF Spec
<1> QED
  BY <1>1, <1>2, PTL

-----------------------------------------------------------------------------
(* Types *)

(* What the types of the chain rest on: a wrapper is of a chain that was   *)
(* started.                                                                *)
ChainInv == ChainTypeOK /\ (wpc # "gone" => gen >= 1)

(* The parts in which a program starts or ends. *)
LEMMA ProcsStart ==
  ASSUME ChainInv, NEW kind \in {"anvil", "bloklid"}, Starts(kind), wpc # "gone",
         UNCHANGED <<gen, serving, dying>>
  PROVE  /\ procs' \subseteq {"anvil", "bloklid"} \X (1 .. gen')
         /\ serving' \subseteq Of("bloklid")' /\ dying' \subseteq procs'
         /\ \A p, q \in procs' : p[1] = q[1] => p = q
<1>1. procs \subseteq procs'
  BY DEF Starts
<1>2. gen \in Nat /\ gen >= 1 /\ gen' = gen /\ procs \subseteq {"anvil", "bloklid"} \X (1 .. gen)
  BY DEF ChainInv, ChainTypeOK
<1>3. CASE Of(kind) # {}
  <2>1. procs' = procs
    BY <1>3 DEF Starts
  <2> QED
    BY <1>2, <2>1 DEF ChainInv, ChainTypeOK, Of
<1>4. CASE Of(kind) = {}
  <2>1. procs' = procs \cup {<<kind, gen>>}
    BY <1>4 DEF Starts
  <2>2. <<kind, gen>> \in {"anvil", "bloklid"} \X (1 .. gen)
    BY <1>2
  <2>3. \A p \in procs : p[1] # kind
    BY <1>4 DEF Of
  <2>4. \A p, q \in procs' : p[1] = q[1] => p = q
    BY <2>1, <2>3 DEF ChainInv, ChainTypeOK
  <2>5. serving' \subseteq Of("bloklid")' /\ dying' \subseteq procs'
    BY <1>1 DEF ChainInv, ChainTypeOK, Of
  <2> QED
    BY <1>2, <2>1, <2>2, <2>4, <2>5
<1> QED
  BY <1>3, <1>4

(* The wrapper keeps the types of the chain: it starts a program only      *)
(* where no other of its kind has the port.                                *)
LEMMA WrapperTypes == ChainInv /\ Wrapper => ChainInv'
<1> SUFFICES ASSUME ChainInv, Wrapper PROVE ChainInv'
  OBVIOUS
<1>1. CASE AnvilStarts
  <2>1. /\ Starts("anvil") /\ wpc # "gone" /\ wpc' = "anvilForked"
        /\ UNCHANGED <<gen, term, pid, serving, dying, cpc, early, unsent>>
    BY <1>1 DEF AnvilStarts, history
  <2>2. /\ procs' \subseteq {"anvil", "bloklid"} \X (1 .. gen')
        /\ serving' \subseteq Of("bloklid")' /\ dying' \subseteq procs'
        /\ \A p, q \in procs' : p[1] = q[1] => p = q
    BY <2>1, ProcsStart
  <2> QED
    BY <2>1, <2>2 DEF ChainInv, ChainTypeOK
<1>2. CASE BloklidStarts
  <2>1. /\ Starts("bloklid") /\ wpc # "gone" /\ wpc' = "bloklidForked"
        /\ UNCHANGED <<gen, term, pid, serving, dying, cpc, early, unsent>>
    BY <1>2 DEF BloklidStarts, history
  <2>2. /\ procs' \subseteq {"anvil", "bloklid"} \X (1 .. gen')
        /\ serving' \subseteq Of("bloklid")' /\ dying' \subseteq procs'
        /\ \A p, q \in procs' : p[1] = q[1] => p = q
    BY <2>1, ProcsStart
  <2> QED
    BY <2>1, <2>2 DEF ChainInv, ChainTypeOK, AnvilKnown
<1>3. CASE AnvilWaited \/ DeployEnds \/ WaitReturns \/ ReturnsFailed
  BY <1>3 DEF AnvilWaited, DeployEnds, WaitReturns, ReturnsFailed, ChainInv, ChainTypeOK, Of,
              AnvilKnown, history
<1>4. CASE BinaryMissing \/ TrapSet \/ PidNoted
  BY <1>4 DEF BinaryMissing, TrapSet, PidNoted, ChainInv, ChainTypeOK, Of, AnvilKnown, history
<1>5. CASE TermUntrapped \/ WrapperExits
  BY <1>5 DEF TermUntrapped, WrapperExits, ChainInv, ChainTypeOK, Of, history
<1>6. CASE TermHandled
  <2>1. Named \subseteq procs
    BY DEF Named
  <2>2. early' \subseteq 1 .. gen'
    BY <1>6 DEF TermHandled, ChainInv, ChainTypeOK, AnvilKnown
  <2> QED
    BY <1>6, <2>1, <2>2 DEF TermHandled, ChainInv, ChainTypeOK, Of, AnvilKnown
<1> QED
  BY <1>1, <1>2, <1>3, <1>4, <1>5, <1>6 DEF Wrapper

(* So do the programs. *)
LEMMA ProgramTypes ==
  ASSUME ChainInv, NEW p \in procs, Serves(p) \/ Obeys(p) \/ Crashes(p)
  PROVE  ChainInv'
<1>1. CASE Serves(p)
  BY <1>1 DEF Serves, ChainInv, ChainTypeOK, Of, history
<1>2. CASE Gone(p)
  <2>1. /\ procs' = procs \ {p} /\ serving' = serving \ {p} /\ dying' = dying \ {p}
        /\ UNCHANGED <<gen, wpc, term, pid, cpc, early, unsent>>
    BY <1>2 DEF Gone, history
  <2>2. serving' \subseteq Of("bloklid")' /\ dying' \subseteq procs'
    BY <2>1 DEF ChainInv, ChainTypeOK, Of
  <2> QED
    BY <2>1, <2>2 DEF ChainInv, ChainTypeOK
<1> QED
  BY <1>1, <1>2 DEF Obeys, Crashes

(* ... and chain_start and chain_stop, called or going on. *)
LEMMA CallTypes ==
  ChainInv /\ (Calls \/ ChainStart \/ ChainStop \/ UNCHANGED chainVars) => ChainInv'
<1> SUFFICES ASSUME ChainInv, Calls \/ ChainStart \/ ChainStop \/ UNCHANGED chainVars
             PROVE  ChainInv'
  OBVIOUS
<1>1. CASE PollAnswered \/ PollFails \/ ChainStop
  BY <1>1 DEF PollAnswered, PollFails, ChainStop, wrapperVars, ChainInv, ChainTypeOK, Of, history
<1>2. CASE StopKill
  <2>1. term' \in BOOLEAN
    BY <1>2 DEF StopKill, ChainInv, ChainTypeOK
  <2>2. unsent' \subseteq 1 .. gen'
    BY <1>2 DEF StopKill, ChainInv, ChainTypeOK
  <2> QED
    BY <1>2, <2>1, <2>2 DEF StopKill, ChainInv, ChainTypeOK, Of
<1>3. CASE StopPkill
  BY <1>3 DEF StopPkill, ChainInv, ChainTypeOK, Of, history
<1>4. CASE ChainStart
  <2>1. /\ gen' = gen + 1 /\ wpc' = "check" /\ term' = FALSE /\ cpc' = "forked"
        /\ UNCHANGED <<pid, procs, serving, dying, early, unsent>>
    BY <1>4 DEF ChainStart, history
  <2>2. gen \in Nat /\ gen' \in Nat /\ gen' >= 1 /\ 1 .. gen \subseteq 1 .. gen' /\ pid' \in 0 .. gen'
    BY <2>1 DEF ChainInv, ChainTypeOK
  <2>3. /\ procs' \subseteq {"anvil", "bloklid"} \X (1 .. gen')
        /\ early' \subseteq 1 .. gen' /\ unsent' \subseteq 1 .. gen'
    BY <2>1, <2>2 DEF ChainInv, ChainTypeOK
  <2> QED
    BY <2>1, <2>2, <2>3 DEF ChainInv, ChainTypeOK, Of
<1>5. CASE UNCHANGED chainVars
  BY <1>5 DEF chainVars, wrapperVars, ChainInv, ChainTypeOK, Of, history
<1>6. CASE StartNotes
  <2>1. gen \in Nat /\ gen \in 0 .. gen
    BY DEF ChainInv, ChainTypeOK
  <2> QED
    BY <1>6, <2>1 DEF StartNotes, ChainInv, ChainTypeOK, Of, history
<1>7. CASE StopWait
  <2>1. gen \in Nat /\ 0 \in 0 .. gen
    BY DEF ChainInv, ChainTypeOK
  <2> QED
    BY <1>7, <2>1 DEF StopWait, ChainInv, ChainTypeOK, Of, history
<1> QED
  BY <1>1, <1>2, <1>3, <1>4, <1>5, <1>6, <1>7 DEF Calls

(* Every step of the script is one of these for the chain. *)
LEMMA ChainInvStep == ChainInv /\ [Next]_vars => ChainInv'
<1> SUFFICES ASSUME ChainInv, [Next]_vars PROVE ChainInv'
  OBVIOUS
<1>1. CASE Main
  <2>1. ChainStart \/ ChainStop \/ UNCHANGED chainVars
    BY <1>1 DEF Main, Swap, Build, Pin, StartChain, ChainReturns, InstallTrap, RunSuite, GroupEnds,
                ChainStopped, List, Summary
  <2> QED
    BY <2>1, CallTypes
<1>2. CASE Traps
  <2>1. ChainStop \/ UNCHANGED chainVars
    BY <1>2 DEF Traps, Restore, HandlerExits, ExitTrap
  <2> QED
    BY <2>1, CallTypes
<1>3. CASE Signal
  BY <1>3, CallTypes DEF Signal
<1>4. CASE UNCHANGED vars
  BY <1>4, CallTypes DEF vars
<1>5. CASE Calls
  BY <1>5, CallTypes
<1>6. CASE Wrapper
  BY <1>6, WrapperTypes
<1>7. CASE \E p \in procs : Serves(p) \/ Obeys(p) \/ Crashes(p)
  BY <1>7, ProgramTypes
<1> QED
  BY <1>1, <1>2, <1>3, <1>4, <1>5, <1>6, <1>7 DEF Next, Over

(* What the files and the EXIT trap can be. *)
FileTypes ==
  /\ toml \in {"orig", "line", "pinned"} /\ lock \in {"orig", "line", "pinned"}
  /\ exitTrap \in {"restore", "restore and stop"}

(* A manifest is swapped, pinned or restored, and nothing else. *)
LEMMA FileTypesStep == FileTypes /\ [Next]_vars => FileTypes'
<1> SUFFICES ASSUME FileTypes, [Next]_vars PROVE FileTypes'
  OBVIOUS
<1> USE DEF FileTypes, filesVars
<1>1. CASE Swap \/ Build \/ Pin
  BY <1>1 DEF Swap, Build, Pin
<1>2. CASE StartChain \/ ChainReturns
  BY <1>2 DEF StartChain, ChainReturns
<1>3. CASE InstallTrap \/ RunSuite
  BY <1>3 DEF InstallTrap, RunSuite
<1>4. CASE GroupEnds \/ ChainStopped \/ List \/ Summary
  BY <1>4 DEF GroupEnds, ChainStopped, List, Summary
<1>5. CASE Traps
  BY <1>5 DEF Traps, Restore, HandlerExits, ExitTrap
<1>6. CASE Signal
  BY <1>6 DEF Signal
<1>7. CASE UNCHANGED runVars
  BY <1>7 DEF runVars
<1> QED
  BY <1>1, <1>2, <1>3, <1>4, <1>5, <1>6, <1>7 DEF Next, Main, Over, vars

(* How far a call of restore_manifest is. *)
BackupTypes == backup \in BOOLEAN /\ restored \in 0 .. 3

(* A call has three commands: there is no fourth, since the third removes  *)
(* the backup it asks for.                                                 *)
LEMMA BackupTypesStep == FilesInv /\ BackupTypes /\ [Next]_vars => BackupTypes'
<1> SUFFICES ASSUME FilesInv, BackupTypes, [Next]_vars PROVE BackupTypes'
  OBVIOUS
<1>1. CASE Restore
  <2>1. backup /\ restored' = restored + 1 /\ backup' = (restored < 2)
    BY <1>1, Zenon DEF Restore
  <2>2. restored \in 0 .. 2
    BY <2>1, Zenon DEF FilesInv
  <2>3. restored' \in 0 .. 3
    BY <2>1, <2>2
  <2>4. backup' \in BOOLEAN
    <3>1. (restored < 2) = TRUE \/ (restored < 2) = FALSE
      BY <2>2
    <3> QED
      BY <2>1, <3>1, Zenon
  <2> QED
    BY <2>3, <2>4, Zenon DEF BackupTypes
<1>2. CASE backup' = backup /\ (restored' = 0 \/ restored' = restored)
  <2>1. 0 \in 0 .. 3
    OBVIOUS
  <2> QED
    BY <1>2, <2>1, Zenon DEF BackupTypes
<1>3. CASE Main
  <2>1. backup' = backup /\ (restored' = 0 \/ restored' = restored)
    BY <1>3, Zenon DEF Main, Swap, Build, Pin, StartChain, ChainReturns, InstallTrap, RunSuite, GroupEnds,
                       ChainStopped, List, Summary, Fails, filesVars
  <2> QED
    BY <1>2, <2>1
<1>4. CASE HandlerExits \/ ExitTrap \/ Signal \/ UNCHANGED runVars
  <2>1. backup' = backup /\ (restored' = 0 \/ restored' = restored)
    BY <1>4, Zenon DEF HandlerExits, ExitTrap, Signal, filesVars, runVars
  <2> QED
    BY <1>2, <2>1
<1> QED
  BY <1>1, <1>3, <1>4 DEF Next, Traps, Over, vars

(* Every variable of the script and of its chain has its type: no suite    *)
(* runs that the request does not plan, and neither port has two programs  *)
(* (run_tier, chain_up).                                                   *)
THEOREM TypesAlwaysOK == Spec => []TypeOK
<1>1. Init => ChainInv /\ FileTypes /\ BackupTypes
  <2>1. Init => ChainTypeOK
    <3> SUFFICES ASSUME Init PROVE ChainTypeOK
      OBVIOUS
    <3>1. term \in BOOLEAN
      BY Zenon DEF Init, ChainInit
    <3>2. /\ gen = 0 /\ wpc = "gone" /\ procs = {} /\ serving = {} /\ dying = {} /\ cpc = "idle"
          /\ pid = 0 /\ early = {} /\ unsent = {}
      BY DEF Init, ChainInit
    <3> QED
      BY <3>1, <3>2 DEF ChainTypeOK, Of
  <2>2. Init => ChainInv /\ FileTypes
    BY <2>1 DEF Init, ChainInit, ChainInv, FileTypes
  <2>3. Init => BackupTypes
    <3>1. 0 \in 0 .. 3
      OBVIOUS
    <3> QED
      BY <3>1, Zenon DEF Init, BackupTypes
  <2> QED
    BY <2>2, <2>3
<1>2. Spec => [](ChainInv /\ FileTypes /\ BackupTypes)
  BY <1>1, ChainInvStep, FileTypesStep, BackupTypesStep, FilesAlways, PTL DEF Spec
<1>3. ChainInv /\ FileTypes /\ BackupTypes /\ FilesInv /\ RanInv /\ SaidInv => TypeOK
  <2> SUFFICES ASSUME ChainInv, FileTypes, BackupTypes, FilesInv, RanInv, SaidInv PROVE TypeOK
    OBVIOUS
  <2>1. ChainTypeOK /\ req \in Requests /\ ran \subseteq Planned(req)
    BY Zenon DEF ChainInv, RanInv
  <2>2. pc \in {"swap", "build", "pin", "chain", "polling", "trap", "suites", "stopping", "chainAgain",
                "pollingAgain", "list", "scenarios", "summary", "handler", "exit", "stop", "last",
                "over"}
    BY DEF FilesInv, Working, OnItsSet
  <2>3. {toml, lock} \subseteq {"orig", "line", "pinned"}
    BY DEF FileTypes
  <2> QED
    BY <2>1, <2>2, <2>3, Zenon DEF FileTypes, BackupTypes, SaidInv, TypeOK
<1> QED
  BY <1>2, <1>3, FilesAlways, RanAlways, PTL
=============================================================================
