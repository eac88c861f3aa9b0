---------------------------- MODULE TestEnvProofs ----------------------------
(***************************************************************************)
(* The properties of testenv.sh for any set of names and any number of     *)
(* environments.                                                           *)
(***************************************************************************)
EXTENDS TestEnv, TLAPS

\* The steps at which the namespace and the device of NS may be there without a state
\* file: setup has not written it yet, or a reset's teardown has removed it, although
\* it has left one of them behind.
Building == {"setup", "netns", "link", "address", "vlan", "write", "undo"}
Numbered == {"netns", "link", "address", "vlan", "write"}
TearingDown == {"del_link", "del_netns", "rm_state"}

\* What each step knows of the command and its variables.
Phase ==
  /\ pc \in Building \union TearingDown \union {"settle"} => NS \in Env
  /\ pc \in TearingDown => statefile[NS] # 0 /\ cmd.op \in {"teardown", "reset"}
  /\ pc = "select" => cmd.op # "setup"
  /\ pc = "setup" => cmd.op \in {"setup", "reset"}
  /\ pc \in Building \ {"setup"} => statefile[NS] = 0
  /\ pc \in Numbered => IP6_PREFIX # 0
  /\ pc = "link" => netns[NS] = "own"
  /\ pc = "address" => link[NS] = "own"
  /\ pc = "settle" => statefile[NS] # 0
  /\ pc \in {"idle", "name", "select"} => IP6_PREFIX = 0
  /\ pc \in {"name", "select", "setup"} \union TearingDown /\ cmd.op \in {"setup", "reset"} =>
       highest_num < MaxNum

\* What is left over is being set up, and will be undone if that fails, or could not be
\* undone. A teardown that has failed keeps the state file.
Left ==
  /\ \A e \in Env \ undeleted :
       statefile[e] = 0 /\ (netns[e] = "own" \/ link[e] = "own") => e = NS /\ pc \in Building
  /\ pc = "rm_state" /\ cmd.op = "teardown" => netns[NS] # "own" /\ link[NS] # "own"
  /\ \A e \in Env : address[e] # 0 => link[e] = "own"
  /\ \A e \in Env : link[e] = "own" => netns[e] = "own"

\* No number is in use twice, the one of the running command included, and all of them
\* have been given out.
Distinct ==
  /\ \A e, f \in Env : e # f =>
       /\ statefile[e] # 0 => statefile[e] # statefile[f]
       /\ address[e] # 0 /\ e \notin undeleted =>
            /\ address[e] # statefile[f]
            /\ f \notin undeleted => address[e] # address[f]
  /\ \A e \in Env : IP6_PREFIX # 0 /\ e # NS =>
       /\ IP6_PREFIX # statefile[e]
       /\ e \notin undeleted => IP6_PREFIX # address[e]
  /\ \A e \in Env : statefile[e] <= highest_num
  /\ \A e \in Env \ undeleted : address[e] <= highest_num
  /\ IP6_PREFIX <= highest_num

Selected == current # NoEnv => statefile[current] # 0

Inv == TypeOK /\ Phase /\ Left /\ Distinct /\ Selected

-----------------------------------------------------------------------------

LEMMA InvInit == Init => Inv
<1> SUFFICES ASSUME Init PROVE Inv
  OBVIOUS
<1>1. NoCommand \in Command
  BY DEF NoCommand, Command
<1>2. TypeOK
  <2>1. netns \in [Env -> {"none", "own", "other"}] /\ link \in [Env -> {"none", "own", "other"}]
    BY DEF Init
  <2>2. statefile \in [Env -> 0 .. MaxNum] /\ address \in [Env -> 0 .. MaxNum]
    BY TestEnvAssumption DEF TestEnvAssumption, Init
  <2>3. highest_num \in 0 .. MaxNum /\ IP6_PREFIX \in 0 .. MaxNum
    BY TestEnvAssumption DEF TestEnvAssumption, Init
  <2>4. statedir \in BOOLEAN /\ current = NoEnv /\ pc = "idle" /\ cmd \in Command /\ NS = NoEnv
        /\ undeleted \subseteq Env
    BY <1>1 DEF Init
  <2> QED
    BY <2>1, <2>2, <2>3, <2>4 DEF TypeOK
<1>3. Phase /\ Selected
  BY DEF Init, Phase, Selected, Building, Numbered, TearingDown
<1>4. Left /\ Distinct
  BY DEF Init, Left, Distinct
<1> QED
  BY <1>2, <1>3, <1>4 DEF Inv

\* The selection of an environment and the EXIT trap.
LEMMA CommandStep == Inv /\ (Start \/ GetNsname \/ NoSuchEnvironment \/ EnsureNsname \/ Cleanup) => Inv'
<1> SUFFICES ASSUME Inv, Start \/ GetNsname \/ NoSuchEnvironment \/ EnsureNsname \/ Cleanup PROVE Inv'
  OBVIOUS
<1> USE TestEnvAssumption DEF TestEnvAssumption, Inv, Step, files, network, TypeOK, Command, NoCommand,
     Phase, Left, Distinct, Selected, Building, Numbered, TearingDown, Exists
<1>1. CASE Start
  BY <1>1 DEF Start
<1>2. CASE GetNsname
  BY <1>2 DEF GetNsname
<1>3. CASE NoSuchEnvironment
  BY <1>3 DEF NoSuchEnvironment
<1>4. CASE EnsureNsname
  <2>1. /\ pc = "select" /\ NS' = NS /\ NS # NoEnv /\ NS \in Env /\ cmd' = cmd
        /\ statefile[NS] # 0 /\ statefile[NS] \in 0 .. MaxNum
        /\ IP6_PREFIX' = statefile[NS] /\ current' = NS
        /\ UNCHANGED <<statedir, highest_num, statefile, network>>
    BY <1>4 DEF EnsureNsname
  <2>2. \/ cmd.op = "other" /\ pc' = "cleanup"
        \/ cmd.op \in {"setup", "teardown", "reset"} /\ pc' = "del_link"
    BY <1>4 DEF EnsureNsname
  <2>3. TypeOK' /\ Selected'
    BY <2>1, <2>2
  <2>4. Phase'
    <3>1. CASE cmd.op = "other" /\ pc' = "cleanup"
      BY <2>1, <3>1
    <3>2. CASE cmd.op \in {"setup", "teardown", "reset"} /\ pc' = "del_link"
      BY <2>1, <3>2
    <3> QED
      BY <2>2, <3>1, <3>2
  <2>5. Left' /\ Distinct'
    BY <2>1, <2>2
  <2> QED
    BY <2>3, <2>4, <2>5
<1>5. CASE Cleanup
  BY <1>5 DEF Cleanup
<1> QED
  BY <1>1, <1>2, <1>3, <1>4, <1>5

\* setup() and its failure.
LEMMA SetupStep == Inv /\ (AlreadyExists \/ GetNum \/ AddNetns \/ AddLink \/ AddAddress \/ AddVlans \/ WriteStatefile \/ Settle \/ SetupFails \/ CleanupSetup) => Inv'
<1> SUFFICES ASSUME Inv, AlreadyExists \/ GetNum \/ AddNetns \/ AddLink \/ AddAddress \/ AddVlans \/ WriteStatefile \/ Settle \/ SetupFails \/ CleanupSetup PROVE Inv'
  OBVIOUS
<1> USE TestEnvAssumption DEF TestEnvAssumption, Inv, Step, files, network, TypeOK, Command, NoCommand,
     Phase, Left, Distinct, Selected, Building, Numbered, TearingDown, Exists
<1>1. CASE AlreadyExists
  BY <1>1 DEF AlreadyExists
<1>2. CASE GetNum
  BY <1>2 DEF GetNum
<1>3. CASE AddNetns
  BY <1>3 DEF AddNetns
<1>4. CASE AddLink
  BY <1>4 DEF AddLink
<1>5. CASE AddAddress
  BY <1>5 DEF AddAddress
<1>6. CASE AddVlans
  BY <1>6 DEF AddVlans
<1>7. CASE WriteStatefile
  BY <1>7 DEF WriteStatefile
<1>8. CASE Settle
  BY <1>8 DEF Settle
<1>9. CASE SetupFails
  BY <1>9 DEF SetupFails
<1>10. CASE CleanupSetup
  BY <1>10 DEF CleanupSetup
<1> QED
  BY <1>1, <1>2, <1>3, <1>4, <1>5, <1>6, <1>7, <1>8, <1>9, <1>10

\* teardown(), also as the first part of a reset.
LEMMA TeardownStep == Inv /\ (DelLink \/ DelNetns \/ TeardownFails \/ RmState) => Inv'
<1> SUFFICES ASSUME Inv, DelLink \/ DelNetns \/ TeardownFails \/ RmState PROVE Inv'
  OBVIOUS
<1> USE TestEnvAssumption DEF TestEnvAssumption, Inv, Step, files, network, TypeOK, Command, NoCommand,
     Phase, Left, Distinct, Selected, Building, Numbered, TearingDown, Exists
<1>1. CASE DelLink
  BY <1>1 DEF DelLink
<1>2. CASE DelNetns
  BY <1>2 DEF DelNetns
<1>3. CASE TeardownFails
  BY <1>3 DEF TeardownFails
<1>4. CASE RmState
  BY <1>4 DEF RmState
<1> QED
  BY <1>1, <1>2, <1>3, <1>4

-----------------------------------------------------------------------------

\* Every step of every command keeps the invariant.
LEMMA InvStep == Inv /\ [Next]_vars => Inv'
<1>1. Inv /\ UNCHANGED vars => Inv'
  BY DEF vars, files, network, Inv, TypeOK, Phase, Left, Distinct, Selected, Building,
     Numbered, TearingDown
<1> QED
  BY <1>1, CommandStep, SetupStep, TeardownStep DEF Next, Setup, Teardown

LEMMA Invariant == Spec => []Inv
BY InvInit, InvStep, PTL DEF Spec

\* The variables and files of the script have the values that the model gives them,
\* whatever the bound of the numbers.
THEOREM TypeTheorem == Spec => []TypeOK
<1>1. Inv => TypeOK
  BY DEF Inv
<1> QED
  BY <1>1, Invariant, PTL

\* No two environments share a subnet, for any number of names and environments: the
\* number of a command is one that no other environment has in its state file or on
\* its device, even when reset keeps it while highest_num goes on.
THEOREM UniquePrefixesTheorem == Spec => []UniquePrefixes
<1>1. Inv => UniquePrefixes
  BY DEF Inv, Distinct, UniquePrefixes
<1> QED
  BY <1>1, Invariant, PTL

\* Between two commands no namespace or device of the script's is left without a state
\* file, whichever steps of setup, teardown or reset have failed, unless the last
\* resort has: cleanup_setup() could not delete the namespace.
THEOREM NothingLeftTheorem == Spec => []NothingLeft
<1>1. Inv => NothingLeft
  BY DEF Inv, Left, NothingLeft, Building
<1> QED
  BY <1>1, Invariant, PTL

\* The selected environment has a state file.
THEOREM SelectedExistsTheorem == Spec => []SelectedExists
<1>1. Inv => SelectedExists
  BY DEF Inv, Selected, SelectedExists
<1> QED
  BY <1>1, Invariant, PTL
=============================================================================
