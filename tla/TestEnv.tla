-------------------------------- MODULE TestEnv --------------------------------
(***************************************************************************)
(* testenv/testenv.sh: the commands that set up, select, reset and tear    *)
(* down the environments of the lessons, one command at a time.  An        *)
(* environment is a network namespace, a veth pair whose outer end has the *)
(* environment's name, and a state file; the script also keeps the highest *)
(* number it has given out and the selected environment, all of them files *)
(* of STATEDIR.  The namespaces and devices of the host that the script has*)
(* not made are part of the state: it removes things by their name.        *)
(***************************************************************************)
EXTENDS Integers, FiniteSets, FiniteSetsExt

CONSTANTS
  Env,     \* names of environments
  NoEnv,   \* no name: NS is empty, there is no file `current'
  MaxNum   \* bound: numbers that are given out before all environments are gone

ASSUME TestEnvAssumption == NoEnv \notin Env /\ MaxNum \in Nat

VARIABLES
  statedir,     \* STATEDIR exists
  highest_num,  \* what the file holds; 0 when there is none
  current,      \* the same, or NoEnv
  statefile,    \* the number in IP6_PREFIX of each state file; 0 when there is none
  netns,        \* each name's namespace: "none", "own" or, not the script's, "other"
  link,         \* the same of the network devices
  address,      \* the number in OUTSIDE_IP6 of each device; 0 when it has none
  undeleted,    \* not in the script: whose namespace cleanup_setup() could not delete
  pc, cmd, NS,  \* the command that runs, its next step and its variables
  IP6_PREFIX    \* its number only

files == <<statedir, highest_num, current, statefile>>
network == <<netns, link, address, undeleted>>
vars == <<files, network, pc, cmd, NS, IP6_PREFIX>>

\* "other" stands for enter, exec, ping, tcpdump, load, unload and stats, which only
\* select an environment; name is --name, gen_new is --gen-new.
Command == [op : {"setup", "teardown", "reset", "other"}, name : Env \union {NoEnv},
            gen_new : BOOLEAN, vlan : BOOLEAN]
NoCommand == [op |-> "other", name |-> NoEnv, gen_new |-> FALSE, vlan |-> FALSE]

Init ==
  /\ statedir = FALSE /\ highest_num = 0 /\ current = NoEnv
  /\ statefile = [e \in Env |-> 0]
  /\ netns \in [Env -> {"none", "other"}] /\ link \in [Env -> {"none", "other"}]
  /\ address = [e \in Env |-> 0] /\ undeleted = {}
  /\ pc = "idle" /\ cmd = NoCommand /\ NS = NoEnv /\ IP6_PREFIX = 0

\* [ -e "$STATEFILE" ]
Exists == NS # NoEnv /\ statefile[NS] # 0

\* The command goes from one step to the next.
Step(from, to) ==
  /\ pc = from
  /\ pc' = to
  /\ UNCHANGED cmd

-----------------------------------------------------------------------------
(* Every command.                                                          *)

\* check_prereq()
Start ==
  /\ pc = "idle"
  /\ cmd' \in Command
  /\ cmd'.op \in {"setup", "reset"} => highest_num < MaxNum
  /\ statedir' = TRUE
  /\ NS' = cmd'.name
  /\ pc' = "name"
  /\ UNCHANGED <<highest_num, current, statefile, network, IP6_PREFIX>>

\* get_nsname(): the name that was given, or the selected one; setup generates one
\* when there is neither, or when it is told to.
GetNsname ==
  LET selected == IF NS = NoEnv THEN current ELSE NS IN
  /\ Step("name", IF cmd.op = "setup" THEN "setup" ELSE "select")
  /\ IF cmd.op = "setup" /\ NS = NoEnv /\ (selected = NoEnv \/ cmd.gen_new)
     THEN NS' \in Env
     ELSE NS' = selected
  /\ UNCHANGED <<files, network, IP6_PREFIX>>

\* ensure_nsname(): without an environment of that name the script dies.
NoSuchEnvironment ==
  /\ Step("select", "cleanup")
  /\ ~Exists
  /\ UNCHANGED <<files, network, NS, IP6_PREFIX>>

\* Otherwise it is selected, and its state file is read.
EnsureNsname ==
  /\ Step("select", IF cmd.op = "other" THEN "cleanup" ELSE "del_link")
  /\ Exists
  /\ current' = NS
  /\ IP6_PREFIX' = statefile[NS]
  /\ UNCHANGED <<statedir, highest_num, statefile, network, NS>>

\* Mutation: the number is forgotten whenever a command ends.
Cleanup_ForgetsNumber ==
  LET empty == \A e \in Env : statefile[e] = 0 IN
  /\ pc = "cleanup"
  /\ pc' = "idle" /\ cmd' = NoCommand /\ NS' = NoEnv /\ IP6_PREFIX' = 0
  /\ statedir' = (~empty)
  /\ highest_num' = 0
  /\ current' = IF empty THEN NoEnv ELSE current
  /\ UNCHANGED <<statefile, network>>

\* cleanup(), the EXIT trap: the last environment takes STATEDIR with it.
Cleanup ==
  LET empty == \A e \in Env : statefile[e] = 0 IN
  /\ pc = "cleanup"
  /\ pc' = "idle" /\ cmd' = NoCommand /\ NS' = NoEnv /\ IP6_PREFIX' = 0
  /\ statedir' = (~empty)
  /\ highest_num' = IF empty THEN 0 ELSE highest_num
  /\ current' = IF empty THEN NoEnv ELSE current
  /\ UNCHANGED <<statefile, network>>

-----------------------------------------------------------------------------
(* setup()                                                                 *)

AlreadyExists ==
  /\ Step("setup", "cleanup")
  /\ Exists
  /\ UNCHANGED <<files, network, NS, IP6_PREFIX>>

\* Mutation: two numbers are taken.
GetNum_SkipsOne ==
  /\ Step("setup", "netns")
  /\ ~Exists
  /\ highest_num' = highest_num + 2
  /\ IP6_PREFIX' = IF IP6_PREFIX = 0 THEN highest_num + 1 ELSE IP6_PREFIX
  /\ UNCHANGED <<statedir, current, statefile, network, NS>>

\* get_num(): the next number, for the prefix too, unless reset has kept one.
GetNum ==
  /\ Step("setup", "netns")
  /\ ~Exists
  /\ highest_num' = highest_num + 1
  /\ IP6_PREFIX' = IF IP6_PREFIX = 0 THEN highest_num + 1 ELSE IP6_PREFIX
  /\ UNCHANGED <<statedir, current, statefile, network, NS>>

\* ip netns add
AddNetns ==
  /\ Step("netns", "link")
  /\ netns[NS] = "none"
  /\ netns' = [netns EXCEPT ![NS] = "own"]
  /\ UNCHANGED <<files, link, address, undeleted, NS, IP6_PREFIX>>

\* ip link add
AddLink ==
  /\ Step("link", "address")
  /\ link[NS] = "none"
  /\ link' = [link EXCEPT ![NS] = "own"]
  /\ UNCHANGED <<files, netns, address, undeleted, NS, IP6_PREFIX>>

\* ip addr add, and the rest of the configuration of both ends.
AddAddress ==
  /\ Step("address", IF cmd.vlan THEN "vlan" ELSE "write")
  /\ address' = [address EXCEPT ![NS] = IP6_PREFIX]
  /\ UNCHANGED <<files, netns, link, undeleted, NS, IP6_PREFIX>>

\* get_vlan_prefix(): the fourth element of the prefix is the number in hexadecimal,
\* and $(( $4 + $vid * 4096 )) reads it as a decimal number. With a digit above 9 it
\* is no number at all, and nothing is printed.
HexDigit(num, k) == (num \div 16 ^ k) % 16
NoElement == -1
VlanElement(num, vid) ==
  IF \A k \in 0 .. 3 : HexDigit(num, k) <= 9
  THEN MapThenSumSet(LAMBDA k : HexDigit(num, k) * 10 ^ k, 0 .. 3) + vid * 4096
  ELSE NoElement

VLAN_IDS == {1, 2}

AddVlans ==
  /\ Step("vlan", "write")
  /\ \A vid \in VLAN_IDS : VlanElement(IP6_PREFIX, vid) # NoElement
  /\ UNCHANGED <<files, network, NS, IP6_PREFIX>>

\* write_statefile()
WriteStatefile ==
  /\ Step("write", "settle")
  /\ statefile' = [statefile EXCEPT ![NS] = IP6_PREFIX]
  /\ UNCHANGED <<statedir, highest_num, current, network, NS, IP6_PREFIX>>

\* run_ping() selects the environment before it pings, and the ping may fail.
Settle ==
  /\ Step("settle", "cleanup")
  /\ current' = NS
  /\ UNCHANGED <<statedir, highest_num, statefile, network, NS, IP6_PREFIX>>

\* Mutation: CLEANUP_FUNC is set only after `ip netns add'.
SetupFails_TrapTooLate ==
  \E from \in {"netns", "link", "address", "vlan", "write"} :
    /\ Step(from, IF from = "netns" THEN "cleanup" ELSE "undo")
    /\ UNCHANGED <<files, network, NS, IP6_PREFIX>>

\* errexit: any command of the configuration may fail, and one whose name is taken does.
SetupFails ==
  \E from \in {"netns", "link", "address", "vlan", "write"} :
    /\ Step(from, "undo")
    /\ UNCHANGED <<files, network, NS, IP6_PREFIX>>

\* cleanup_setup(): the state file of that name is removed, and the namespace, with
\* its end of the pair, and the device, if that does not fail: errexit is off here.
CleanupSetup ==
  \E netns_deleted, link_deleted \in BOOLEAN :
    /\ Step("undo", "cleanup")
    /\ netns' = [netns EXCEPT ![NS] = IF netns_deleted THEN "none" ELSE @]
    /\ link' = [link EXCEPT ![NS] =
         IF link_deleted \/ (netns_deleted /\ @ = "own") THEN "none" ELSE @]
    /\ address' = [address EXCEPT ![NS] = IF link'[NS] = "none" THEN 0 ELSE @]
    /\ statefile' = [statefile EXCEPT ![NS] = 0]
    /\ undeleted' = IF netns'[NS] = "own" THEN undeleted \union {NS} ELSE undeleted \ {NS}
    /\ UNCHANGED <<statedir, highest_num, current, NS, IP6_PREFIX>>

Setup ==
  \/ AlreadyExists \/ GetNum \/ AddNetns \/ AddLink \/ AddAddress \/ AddVlans
  \/ WriteStatefile \/ Settle \/ SetupFails \/ CleanupSetup

-----------------------------------------------------------------------------
(* teardown()                                                              *)

\* ip link del
DelLink ==
  /\ Step("del_link", "del_netns")
  /\ link[NS] # "none"
  /\ link' = [link EXCEPT ![NS] = "none"]
  /\ address' = [address EXCEPT ![NS] = 0]
  /\ UNCHANGED <<files, netns, undeleted, NS, IP6_PREFIX>>

\* ip netns del: the inner end of the pair goes too, and with it the outer one.
DelNetns ==
  /\ Step("del_netns", "rm_state")
  /\ netns[NS] # "none"
  /\ netns' = [netns EXCEPT ![NS] = "none"]
  /\ link' = [link EXCEPT ![NS] = IF @ = "own" THEN "none" ELSE @]
  /\ address' = [address EXCEPT ![NS] = 0]
  /\ UNCHANGED <<files, undeleted, NS, IP6_PREFIX>>

\* Either may fail. errexit ends a teardown, but not the one of `teardown && setup'.
TeardownFails ==
  /\ \/ Step("del_link", IF cmd.op = "reset" THEN "del_netns" ELSE "cleanup")
     \/ Step("del_netns", IF cmd.op = "reset" THEN "rm_state" ELSE "cleanup")
  /\ UNCHANGED <<files, network, NS, IP6_PREFIX>>

\* Mutation: the environment stays selected.
RmState_KeepsCurrent ==
  /\ Step("rm_state", IF cmd.op = "reset" THEN "setup" ELSE "cleanup")
  /\ statefile' = [statefile EXCEPT ![NS] = 0]
  /\ UNCHANGED <<statedir, highest_num, current, network, NS, IP6_PREFIX>>

\* The state file is removed, and the selection when it is this environment.
RmState ==
  /\ Step("rm_state", IF cmd.op = "reset" THEN "setup" ELSE "cleanup")
  /\ statefile' = [statefile EXCEPT ![NS] = 0]
  /\ current' = IF current = NS THEN NoEnv ELSE current
  /\ UNCHANGED <<statedir, highest_num, network, NS, IP6_PREFIX>>

Teardown == DelLink \/ DelNetns \/ TeardownFails \/ RmState

-----------------------------------------------------------------------------

Next ==
  \/ Start \/ GetNsname \/ NoSuchEnvironment \/ EnsureNsname \/ Cleanup
  \/ Setup \/ Teardown

Spec == Init /\ [][Next]_vars

-----------------------------------------------------------------------------
(* Properties.                                                             *)

TypeOK ==
  /\ statedir \in BOOLEAN /\ highest_num \in 0 .. MaxNum
  /\ current \in Env \union {NoEnv}
  /\ statefile \in [Env -> 0 .. MaxNum] /\ address \in [Env -> 0 .. MaxNum]
  /\ netns \in [Env -> {"none", "own", "other"}]
  /\ link \in [Env -> {"none", "own", "other"}] /\ undeleted \subseteq Env
  /\ pc \in {"idle", "name", "select", "setup", "netns", "link", "address", "vlan",
             "write", "settle", "undo", "del_link", "del_netns", "rm_state", "cleanup"}
  /\ cmd \in Command /\ NS \in Env \union {NoEnv} /\ IP6_PREFIX \in 0 .. MaxNum

\* "The script can maintain several environments active at the same time": no two
\* devices have addresses of the same subnet, nor a device one of the subnet that a
\* reset of another environment will use again, although highest_num is removed with
\* the last state file and reset keeps an older number. What cleanup_setup() could not
\* remove is no environment any more, and its number may be given out again.
UniquePrefixes ==
  \A e, f \in Env \ undeleted :
    e # f /\ address[e] # 0 => address[e] # address[f] /\ address[e] # statefile[f]

\* Whatever fails, and in whatever command: between two commands something of the
\* script's is left without a state file only if it is the namespace, or in the
\* namespace, that cleanup_setup() itself could not delete. A reset whose teardown has
\* removed the state file and not the namespace ends there too.
NothingLeft ==
  pc = "idle" =>
    \A e \in Env \ undeleted : statefile[e] = 0 => netns[e] # "own" /\ link[e] # "own"

\* Between two commands the selected environment has a state file: the next command
\* without --name does not die because of a name that is gone.
SelectedExists == pc = "idle" /\ current # NoEnv => statefile[current] # 0

\* "Split the IPv6 prefix, and add the VLAN ID to the upper byte of the fourth
\* element": the VLANs of an environment are in a subnet made from its number.
VlanPrefixes ==
  pc = "vlan" => \A vid \in VLAN_IDS : VlanElement(IP6_PREFIX, vid) = IP6_PREFIX + vid * 4096

=============================================================================
