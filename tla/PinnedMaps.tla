------------------------------ MODULE PinnedMaps ------------------------------
(***************************************************************************)
(* The statistics map that xdp_loader pins and xdp_stats reads: the loader *)
(* of basic04-pinning-maps (it never reuses a map), the one of             *)
(* basic-solutions (with and without --reuse-maps), the program of         *)
(* basic04-pinning-maps that counts its packets in the map, and xdp_stats: *)
(* basic04's opens the pinned file once, the one of basic-solutions opens  *)
(* it again before every reading.  basic03-map-counter came before them:   *)
(* xdp_load_and_stats loads a program of its own, whose map all CPUs share,*)
(* and reads that map.                                                     *)
(*                                                                         *)
(* They share the file /sys/fs/bpf/<dev>/xdp_stats_map (`pin'), the        *)
(* programs on the interface and the counters of the maps.  A map is its   *)
(* id; only the packets of one XDP action are counted.                     *)
(***************************************************************************)
EXTENDS Integers, FiniteSets, FiniteSetsExt

CONSTANTS
  Loader,       \* the xdp_loader commands that may run at the same time
  Commands,     \* the command lines they may have, see Command
  Readers,      \* the lessons whose reader may be the one that runs
  Cpu,
  MaxPrograms,  \* bound: programs that are attached
  MaxPackets    \* bound: packets that are counted

Lesson == {"basic03", "basic04", "solution"}

\* A load or an unload (-U), by which lesson's loader, and whether with --reuse-maps.
Command ==
  [op : {"load", "unload"}, lesson : {"basic04"}, reuse_maps : {FALSE}]
    \union [op : {"load", "unload"}, lesson : {"solution"}, reuse_maps : BOOLEAN]

ASSUME PinnedAssumption ==
  /\ Commands \subseteq Command
  /\ Readers \subseteq Lesson
  /\ MaxPrograms \in Nat /\ MaxPackets \in Nat
  /\ IsFiniteSet(Cpu) /\ Cpu # {}

VARIABLES
  pin,       \* the map that is pinned, or NoMap
  attached,  \* the programs on the interface: [id, map]
  programs,  \* how many have been attached so far; the last one's id
  maps,      \* how many maps have been created so far; the last one's id
  failed,    \* not in the program: a load could not open, pin or unpin the map
  count,     \* count[m][c]: rx_packets of map m for CPU c
  running,   \* what xdp_stats_record_action() has loaded on each CPU
  counted,   \* counted[m]: how often it has run to its end with map m
  loader,    \* each command's next step and locals
  reader     \* the same of xdp_stats or xdp_load_and_stats, and whose it is

kern == <<count, running, counted>>
world == <<pin, attached, programs, maps, failed>>
vars == <<world, kern, loader, reader>>

NoMap == 0
MapId == 1 .. MaxPrograms
NoCommand == [op |-> "load", lesson |-> "basic04", reuse_maps |-> FALSE]
Idle == [pc |-> "idle", cmd |-> NoCommand, map |-> NoMap, map_reused |-> FALSE]
NotRunning == [map |-> NoMap, value |-> 0]

\* xdp_stats between two calls of stats_poll(): main() still knows the last id. Only
\* basic03 has a map of type BPF_MAP_TYPE_ARRAY.
Opening(lesson, id) == [lesson |-> lesson, pc |-> "open", map |-> NoMap, id |-> id,
                        array |-> NoMap, left |-> {}, sum |-> 0, record |-> 0, prev |-> 0]

Init ==
  /\ pin = NoMap /\ attached = {} /\ programs = 0 /\ maps = 0 /\ failed = FALSE
  /\ count = [m \in MapId |-> [c \in Cpu |-> 0]]
  /\ running = [c \in Cpu |-> NotRunning]
  /\ counted = [m \in MapId |-> 0]
  /\ loader = [l \in Loader |-> Idle]
  /\ reader \in {Opening(lesson, NoMap) : lesson \in Readers}

-----------------------------------------------------------------------------
(* xdp_loader                                                              *)

\* A command goes from one step to the next, or ends.
Loads(l, from, to) ==
  /\ loader[l].pc = from
  /\ loader' = [loader EXCEPT ![l] = IF to = "idle" THEN Idle ELSE [@ EXCEPT !.pc = to]]
  /\ UNCHANGED <<kern, reader>>

Start(l) ==
  \E cmd \in Commands :
    /\ loader[l].pc = "idle"
    /\ loader' = [loader EXCEPT ![l].cmd = cmd,
                   ![l].pc = CASE cmd.op = "load" /\ cmd.reuse_maps -> "get"
                               [] cmd.op = "load" /\ ~cmd.reuse_maps -> "attach"
                               [] cmd.op = "unload" /\ cmd.reuse_maps -> "detach"
                               [] cmd.op = "unload" /\ ~cmd.reuse_maps -> "unpin"]
    /\ UNCHANGED <<world, kern, reader>>

\* Mutations: the pinned map is not looked for; it is reused without a test that
\* there is one.
GetPinned_Skipped(l) ==
  /\ loader[l].pc = "get"
  /\ loader' = [loader EXCEPT ![l].pc = "attach"]
  /\ UNCHANGED <<world, kern, reader>>

GetPinned_Unchecked(l) ==
  /\ loader[l].pc = "get"
  /\ loader' = [loader EXCEPT ![l].pc = "attach", ![l].map = pin, ![l].map_reused = TRUE]
  /\ UNCHANGED <<world, kern, reader>>

\* bpf_obj_get() and bpf_map__reuse_fd(): the pinned map, if there is one. When it
\* cannot be opened, the load goes on as if there were none.
GetPinned(l) ==
  \E map \in {pin, NoMap} :
    /\ loader[l].pc = "get"
    /\ loader' = [loader EXCEPT ![l].pc = "attach", ![l].map = map,
                                ![l].map_reused = (map # NoMap)]
    /\ failed' = (failed \/ map # pin)
    /\ UNCHANGED <<pin, attached, programs, maps, kern, reader>>

\* basic04 pins what it loads; the solution only with --reuse-maps, and only a map
\* that was not pinned yet.
Pins(command) ==
  \/ command.cmd.lesson = "basic04"
  \/ command.cmd.reuse_maps /\ ~command.map_reused

\* xdp_program__attach(): it creates the map unless there is one to reuse, and adds
\* the program to those on the interface.
Attach(l) ==
  LET new == maps + 1
      map == IF loader[l].map_reused THEN loader[l].map ELSE new IN
  /\ loader[l].pc = "attach"
  /\ programs < MaxPrograms
  /\ programs' = programs + 1
  /\ maps' = IF loader[l].map_reused THEN maps ELSE new
  /\ attached' = attached \union {[id |-> programs + 1, map |-> map]}
  /\ loader' = [loader EXCEPT ![l] = IF Pins(@) THEN [@ EXCEPT !.pc = "access", !.map = map]
                                                 ELSE Idle]
  /\ UNCHANGED <<pin, failed, kern, reader>>

\* The program may not be created, the map not be reused, the attach fail: nothing is
\* left of the command.
AttachFails(l) ==
  /\ \E from \in {"get", "attach"} : Loads(l, from, "idle")
  /\ UNCHANGED world

\* pin_maps_in_bpf_object(): access(), which may not reach a file that is there ...
Access(l) ==
  /\ \E to \in IF pin = NoMap THEN {"pin"} ELSE {"pin", "unpin_old"} : Loads(l, "access", to)
  /\ UNCHANGED world

\* ... then bpf_object__unpin_maps() of a previous map, and bpf_object__pin_maps().
\* Either may fail, and does when the file has gone, or is there again. The program
\* stays attached then.
UnpinOld(l) ==
  \E done \in BOOLEAN :
    /\ done => pin # NoMap
    /\ Loads(l, "unpin_old", IF done THEN "pin" ELSE "idle")
    /\ pin' = IF done THEN NoMap ELSE pin
    /\ failed' = (failed \/ ~done)
    /\ UNCHANGED <<attached, programs, maps>>

Pin(l) ==
  \E done \in BOOLEAN :
    /\ done => pin = NoMap
    /\ Loads(l, "pin", "idle")
    /\ pin' = IF done THEN loader[l].map ELSE pin
    /\ failed' = (failed \/ ~done)
    /\ UNCHANGED <<attached, programs, maps>>

\* Unload: unpin_map(), whose unlink() may fail ...
Unpin(l) ==
  /\ Loads(l, "unpin", "detach")
  /\ pin' \in {NoMap, pin}
  /\ UNCHANGED <<attached, programs, maps, failed>>

\* ... and do_unload() of all programs, or of the one with the given id, which may
\* not be there.
Detach(l) ==
  /\ Loads(l, "detach", "idle")
  /\ \/ \E p \in attached : attached' = attached \ {p}
     \/ attached' = {}
     \/ UNCHANGED attached
  /\ UNCHANGED <<pin, programs, maps, failed>>

LoaderStep(l) ==
  \/ GetPinned(l) \/ Attach(l) \/ AttachFails(l)
  \/ Access(l) \/ UnpinOld(l) \/ Pin(l)
  \/ Unpin(l) \/ Detach(l)

-----------------------------------------------------------------------------
(* The programs that count, basic04's xdp_stats_record_action() and        *)
(* basic03's xdp_stats1_func().  A CPU runs one program at a time.         *)

\* bpf_map_lookup_elem(): the record of this CPU, or the only one of an array.
Record(map, c) == IF map = reader.array THEN CHOOSE d \in Cpu : TRUE ELSE c

\* Mutation: basic03 adds as the others do.
Atomic_Nowhere(map) == FALSE

\* lock_xadd(): the array's record is shared, and it is added to atomically.
Atomic(map) == map = reader.array

AddAtomically(c) ==
  \E p \in attached :
    /\ running[c] = NotRunning
    /\ Atomic(p.map)
    /\ counted[p.map] < MaxPackets
    /\ count' = [count EXCEPT ![p.map][Record(p.map, c)] = @ + 1]
    /\ counted' = [counted EXCEPT ![p.map] = @ + 1]
    /\ UNCHANGED <<world, running, loader, reader>>

\* `rec->rx_packets++' is a load ...
Count(c) ==
  \E p \in attached :
    /\ running[c] = NotRunning
    /\ ~Atomic(p.map)
    /\ running' = [running EXCEPT ![c] = [map |-> p.map,
                                          value |-> count[p.map][Record(p.map, c)]]]
    /\ UNCHANGED <<world, count, counted, loader, reader>>

\* ... and a store.
Store(c) ==
  LET map == running[c].map IN
  /\ map # NoMap
  /\ counted[map] < MaxPackets
  /\ count' = [count EXCEPT ![map][Record(map, c)] = running[c].value + 1]
  /\ counted' = [counted EXCEPT ![map] = @ + 1]
  /\ running' = [running EXCEPT ![c] = NotRunning]
  /\ UNCHANGED <<world, loader, reader>>

-----------------------------------------------------------------------------
(* xdp_stats and xdp_load_and_stats                                        *)

Reads(from) ==
  /\ reader.pc = from
  /\ UNCHANGED <<world, kern, loader>>

\* basic03's main(): load_bpf_and_xdp_attach(), and the first reading of stats_poll()
\* if the map is found in the object and is as expected; if not, it exits and leaves
\* the program attached. Nothing is pinned.
LoadAndAttach ==
  \E found \in BOOLEAN :
    LET new == maps + 1 IN
    /\ reader.lesson = "basic03" /\ reader.pc = "open"
    /\ programs < MaxPrograms
    /\ programs' = programs + 1 /\ maps' = new
    /\ attached' = attached \union {[id |-> programs + 1, map |-> new]}
    /\ reader' = [reader EXCEPT !.pc = IF found THEN "first" ELSE "failed",
                                !.map = new, !.id = new, !.array = new,
                                !.left = {CHOOSE d \in Cpu : TRUE}]
    /\ UNCHANGED <<pin, failed, kern, loader>>

LoadFails ==
  /\ reader.lesson = "basic03"
  /\ Reads("open")
  /\ reader' = [reader EXCEPT !.pc = "failed"]

\* The loop of main(): open_bpf_map_file(), and the first reading of stats_poll().
\* Without a file it exits, and when the map cannot be opened or is another kind of map.
Open ==
  /\ reader.lesson # "basic03"
  /\ Reads("open")
  /\ reader' \in IF pin = NoMap
                 THEN {[reader EXCEPT !.pc = "exited"]}
                 ELSE {[reader EXCEPT !.pc = "failed"],
                       [reader EXCEPT !.pc = "first", !.map = pin, !.id = pin, !.left = Cpu]}

\* The values that a lookup copies, of each CPU or the only one of an array.
Values == {Record(reader.map, c) : c \in Cpu}

\* The stats_poll() of basic03 and basic04 reads from the same descriptor for ever.
ReadAgain ==
  /\ reader.lesson # "solution"
  /\ Reads("reopen")
  /\ reader' = [reader EXCEPT !.pc = "next", !.left = Values, !.prev = reader.record]

\* Mutation: the id is not compared.
Reopen_IgnoresId ==
  /\ reader.lesson = "solution"
  /\ Reads("reopen")
  /\ reader' = IF pin = NoMap
               THEN Opening("solution", reader.id)
               ELSE [reader EXCEPT !.pc = "next", !.map = pin, !.left = Cpu,
                                   !.prev = reader.record]

\* The solution's stats_poll() opens the file again. When it cannot, or it is the file
\* of another map, main() opens it anew.
Reopen ==
  /\ reader.lesson = "solution"
  /\ Reads("reopen")
  /\ \/ reader' = Opening("solution", reader.id)
     \/ /\ pin = reader.id
        /\ reader' = [reader EXCEPT !.pc = "next", !.map = pin, !.left = Cpu,
                                    !.prev = reader.record]

\* stats_collect(): the values of all CPUs, one after the other.
Collect ==
  \E from \in {"first", "next"}, c \in reader.left :
    LET sum == reader.sum + count[reader.map][c] IN
    /\ Reads(from)
    /\ reader' = IF reader.left = {c}
                 THEN [reader EXCEPT !.left = {}, !.sum = 0, !.record = sum,
                                     !.pc = IF from = "first" THEN "reopen" ELSE "print"]
                 ELSE [reader EXCEPT !.left = @ \ {c}, !.sum = sum]

\* stats_print(), close() and sleep().
PrintStats ==
  /\ Reads("print")
  /\ reader' = [reader EXCEPT !.pc = "reopen"]

ReaderStep == LoadAndAttach \/ LoadFails \/ Open \/ ReadAgain \/ Reopen \/ Collect \/ PrintStats

-----------------------------------------------------------------------------

Next ==
  \/ \E l \in Loader : Start(l) \/ LoaderStep(l)
  \/ \E c \in Cpu : AddAtomically(c) \/ Count(c) \/ Store(c)
  \/ ReaderStep

Spec == Init /\ [][Next]_vars

-----------------------------------------------------------------------------
(* Properties.                                                             *)

TypeOK ==
  /\ pin \in {NoMap} \union MapId
  /\ attached \subseteq [id : 1 .. programs, map : 1 .. maps]
  /\ programs \in 0 .. MaxPrograms /\ maps \in 0 .. programs /\ failed \in BOOLEAN
  /\ count \in [MapId -> [Cpu -> Nat]] /\ counted \in [MapId -> Nat]
  /\ running \in [Cpu -> [map : {NoMap} \union MapId, value : Nat]]
  /\ loader \in [Loader -> [pc : {"idle", "get", "attach", "access", "unpin_old", "pin",
                                  "unpin", "detach"},
                            cmd : Command, map : {NoMap} \union MapId,
                            map_reused : BOOLEAN]]
  /\ reader \in [lesson : Lesson,
                 pc : {"open", "first", "reopen", "next", "print", "exited",
                       "failed"},
                 map : {NoMap} \union MapId, id : {NoMap} \union MapId,
                 array : {NoMap} \union MapId, left : SUBSET Cpu, sum : Nat, record : Nat, prev : Nat]

\* "which makes it safe to update without atomic operations" (basic04), "the accounting
\* needs to use an atomic operation" (basic03): no packet is lost from a map, although
\* several programs and CPUs count in it at once.
NoLostCount ==
  \A m \in MapId : MapThenSumSet(LAMBDA c : count[m][c], Cpu) = counted[m]

\* "the stats diff between two measurements will be negative" is what the comparison
\* of the ids prevents: a difference is between two readings of one map, the later
\* one not smaller, and no reading is ahead of the map, in each of the lessons.
DiffsHonest ==
  /\ reader.pc = "print" => reader.prev <= reader.record
  /\ reader.pc \in {"reopen", "print"} => reader.record <= counted[reader.id]

\* "to reuse it, instead of creating a new map" (basic04): one loader at a time, always
\* with --reuse-maps. Whatever is unloaded, whatever fails to be created, attached or
\* detached, all its programs count in the one map that is pinned, as long as that map
\* could be opened, pinned and unpinned whenever the loader tried.
SharedMap ==
  ~failed /\ (\A l \in Loader : loader[l].pc = "idle") =>
    \A p \in attached : p.map \in {pin, reader.array}

\* "such that the xdp_stats program doesn't need to be restarted" (basic04), when
\* "xdp_loader loads new maps": once it has shown a map, the solution's xdp_stats always
\* finds a file under the name, of whatever map. For the solution's loader with
\* --reuse-maps, one command at a time: it replaces no map that it can open. basic04's
\* loader unpins before it pins, and there xdp_stats exits when it looks in between.
NeedsNoRestart ==
  reader.lesson = "solution" /\ reader.pc = "exited" /\ ~failed => reader.id = NoMap

=============================================================================
