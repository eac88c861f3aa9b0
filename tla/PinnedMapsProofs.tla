--------------------------- MODULE PinnedMapsProofs ---------------------------
(***************************************************************************)
(* PinnedMaps for any number of commands, programs, CPUs and packets.      *)
(* First SharedMap and NeedsNoRestart, for one command at a time that      *)
(* always says --reuse-maps: all programs count in the map that is pinned, *)
(* and a reader that knows a map finds one.  Then, for any commands at the *)
(* same time, the types, and the counters and the readings: nothing is     *)
(* lost from a map, and every difference is honest.                        *)
(***************************************************************************)
EXTENDS PinnedMaps, FiniteSetTheorems, WellFoundedInduction, TLAPS

\* Commands are typed one after the other, by one user who always gives --reuse-maps.
OneLoader == \E l : Loader = {l}
Reusing == Commands \subseteq [op : {"load", "unload"}, lesson : {"solution"}, reuse_maps : {TRUE}]

Shared(map) == \A p \in attached : p.map \in {map, reader.array}

\* SharedMap is not inductive: between the attach and the pin of the first load the
\* map is only in the loader's hands, and nobody may have pinned another one.
Held(l) ==
  /\ loader[l].pc \in {"idle", "get", "attach", "access", "pin", "detach"}
  /\ loader[l].pc # "idle" => loader[l].cmd \in Commands
  /\ loader[l].pc \in {"idle", "get"} => ~loader[l].map_reused
  /\ loader[l].pc = "attach" =>
       IF loader[l].map_reused THEN pin # NoMap /\ loader[l].map = pin ELSE pin = NoMap
  /\ loader[l].pc \in {"idle", "get", "attach", "detach"} => Shared(pin)
  /\ loader[l].pc \in {"access", "pin"} =>
       pin = NoMap /\ loader[l].map \in Nat \ {NoMap} /\ Shared(loader[l].map)

Fields == {"pc", "cmd", "map", "map_reused"}

\* A map that has once been pinned stays pinned, so that a reader which knows one finds it.
Finds ==
  reader.lesson = "solution" =>
    /\ reader.id # NoMap => pin # NoMap
    /\ reader.pc = "exited" => reader.id = NoMap

Orderly ==
  /\ DOMAIN loader = Loader
  /\ \A l \in Loader : DOMAIN loader[l] = Fields /\ Held(l)
  /\ pin \in Nat /\ maps \in Nat /\ \A p \in attached : p.map \in Nat \ {NoMap}
  /\ {"lesson", "pc", "id", "array"} \subseteq DOMAIN reader
  /\ reader.lesson # "basic03" \/ reader.pc = "open" => reader.array = NoMap
  /\ Finds

\* A load that could not open, pin or unpin the map promises nothing any more.
Inv == ~failed => Orderly

-----------------------------------------------------------------------------

LEMMA IdleFact == DOMAIN Idle = Fields /\ Idle.pc = "idle" /\ ~Idle.map_reused
BY DEF Idle, Fields

LEMMA InvInit == Init => Inv
<1> SUFFICES ASSUME Init PROVE Inv
  OBVIOUS
<1>1. attached = {} /\ maps = 0 /\ pin = NoMap /\ loader = [l \in Loader |-> Idle]
  BY DEF Init
<1>2. /\ {"lesson", "pc", "id", "array"} \subseteq DOMAIN reader /\ reader.array = NoMap
      /\ reader.id = NoMap
  BY DEF Init, Opening
<1>3. \A l \in Loader : Held(l)
  BY <1>1, IdleFact DEF Held, Shared
<1> QED
  BY <1>1, <1>2, <1>3, IdleFact DEF Inv, Orderly, Finds, NoMap

\* Each step of the only command keeps the invariant.
LEMMA CommandStep ==
  ASSUME Orderly, ~failed', OneLoader, Reusing, NEW l \in Loader, Start(l) \/ LoaderStep(l)
  PROVE  Orderly'
<1> USE DEF world, kern
<1>1. Loader = {l} /\ DOMAIN loader = Loader /\ DOMAIN loader[l] = Fields /\ Held(l) /\ pin \in Nat
  BY DEF OneLoader, Orderly
\* What remains to be shown of a step.
<1>2. ASSUME DOMAIN loader' = Loader, DOMAIN loader'[l] = Fields, Held(l)', reader' = reader,
             attached' \subseteq attached, maps' = maps, pin' \in Nat, pin # NoMap => pin' # NoMap
      PROVE  Orderly'
  BY <1>1, <1>2 DEF Orderly, Finds
<1>3. CASE Start(l)
  <2>1. PICK cmd \in Commands :
          /\ loader[l].pc = "idle"
          /\ loader' = [loader EXCEPT ![l].cmd = cmd,
                         ![l].pc = CASE cmd.op = "load" /\ cmd.reuse_maps -> "get"
                                     [] cmd.op = "load" /\ ~cmd.reuse_maps -> "attach"
                                     [] cmd.op = "unload" /\ cmd.reuse_maps -> "detach"
                                     [] cmd.op = "unload" /\ ~cmd.reuse_maps -> "unpin"]
          /\ UNCHANGED <<world, kern, reader>>
    BY <1>3 DEF Start
  <2>2. cmd.reuse_maps /\ (cmd.op = "load" \/ cmd.op = "unload")
    BY <2>1 DEF Reusing
  <2>3. /\ DOMAIN loader' = Loader /\ DOMAIN loader'[l] = Fields
        /\ loader'[l].cmd = cmd /\ cmd \in Commands
        /\ loader'[l].pc \in {"get", "detach"}
        /\ loader'[l].map_reused = loader[l].map_reused
        /\ loader[l].pc = "idle" /\ UNCHANGED <<world, kern, reader>>
    BY <1>1, <2>1, <2>2 DEF Fields
  <2>4. Held(l)'
    BY <1>1, <2>3 DEF Held, Shared
  <2> QED
    BY <1>1, <1>2, <2>3, <2>4
<1>4. CASE GetPinned(l)
  <2>. PICK map \in {pin, NoMap} :
         /\ loader[l].pc = "get"
         /\ loader' = [loader EXCEPT ![l].pc = "attach", ![l].map = map,
                                     ![l].map_reused = (map # NoMap)]
         /\ failed' = (failed \/ map # pin)
         /\ UNCHANGED <<pin, attached, programs, maps, kern, reader>>
    BY <1>4 DEF GetPinned
  <2>1. /\ loader'[l].pc = "attach" /\ map = pin
        /\ DOMAIN loader' = Loader /\ DOMAIN loader'[l] = Fields
        /\ loader'[l].cmd = loader[l].cmd /\ loader'[l].map = pin
        /\ UNCHANGED <<pin, attached, programs, maps, kern, reader>>
    BY <1>1 DEF Fields
  <2>2. loader'[l].map_reused <=> pin # NoMap
    BY <1>1, <2>1 DEF Fields
  <2>3. Held(l)'
    BY <1>1, <2>1, <2>2 DEF Held, Shared
  <2> QED
    BY <1>1, <1>2, <2>1, <2>3
<1>5. CASE Attach(l)
  <2>1. /\ loader[l].pc = "attach" /\ reader' = reader /\ pin' = pin
        /\ loader[l].cmd.lesson = "solution" /\ loader[l].cmd.reuse_maps
    BY <1>1, <1>5 DEF Attach, Held, Reusing
  <2>2. CASE loader[l].map_reused
    <3>1. ~Pins(loader[l]) /\ pin # NoMap /\ loader[l].map = pin
      BY <1>1, <2>1, <2>2 DEF Pins, Held
    <3>2. /\ loader' = [loader EXCEPT ![l] = Idle] /\ maps' = maps
          /\ attached' = attached \union {[id |-> programs + 1, map |-> pin]}
      BY <1>5, <2>2, <3>1 DEF Attach
    <3>3. Shared(pin)'
      BY <1>1, <2>1, <3>2 DEF Held, Shared
    <3>4. DOMAIN loader' = Loader /\ loader'[l] = Idle
      BY <1>1, <3>2
    <3>5. Held(l)'
      BY <2>1, <3>3, <3>4, IdleFact DEF Held
    <3>6. \A p \in attached' : p.map \in Nat \ {NoMap}
      BY <3>1, <3>2 DEF Orderly
    <3> QED
      BY <1>1, <2>1, <3>2, <3>4, <3>5, <3>6, IdleFact DEF Orderly, Finds
  <2>3. CASE ~loader[l].map_reused
    <3>1. Pins(loader[l]) /\ pin = NoMap
      BY <1>1, <2>1, <2>3 DEF Pins, Held
    <3>2. /\ loader' = [loader EXCEPT ![l].pc = "access", ![l].map = maps + 1] /\ maps' = maps + 1
          /\ attached' = attached \union {[id |-> programs + 1, map |-> maps + 1]}
      BY <1>5, <2>3, <3>1 DEF Attach
    <3>3. /\ DOMAIN loader' = Loader /\ DOMAIN loader'[l] = Fields
          /\ loader'[l].pc = "access" /\ loader'[l].map = maps + 1
          /\ loader'[l].cmd = loader[l].cmd
      BY <1>1, <3>2 DEF Fields
    <3>4. \A p \in attached' : p.map \in {maps + 1, reader'.array}
      <4>1. ASSUME NEW p \in attached PROVE p.map = reader.array
        BY <1>1, <2>1, <3>1 DEF Held, Shared, Orderly
      <4> QED
        BY <2>1, <3>2, <4>1
    <3>5. Held(l)'
      BY <1>1, <2>1, <3>1, <3>3, <3>4 DEF Held, Shared, Orderly, NoMap
    <3> QED
      BY <1>1, <2>1, <3>2, <3>3, <3>5 DEF Orderly, Finds, NoMap
  <2> QED
    BY <2>2, <2>3
\* A step to the next program point, or to the end.
<1>6. ASSUME NEW from, NEW to, Loads(l, from, to)
      PROVE  /\ loader[l].pc = from /\ loader'[l].pc = to
             /\ DOMAIN loader' = Loader /\ DOMAIN loader'[l] = Fields
             /\ to # "idle" => /\ loader'[l].cmd = loader[l].cmd
                               /\ loader'[l].map = loader[l].map
                               /\ loader'[l].map_reused = loader[l].map_reused
             /\ to = "idle" => ~loader'[l].map_reused
             /\ UNCHANGED <<kern, reader>>
  BY <1>6, <1>1, IdleFact DEF Loads, Fields
<1>7. CASE AttachFails(l)
  <2>1. PICK from \in {"get", "attach"} : Loads(l, from, "idle") /\ UNCHANGED world
    BY <1>7 DEF AttachFails
  <2>2. Held(l)'
    BY <1>1, <1>6, <2>1 DEF Held, Shared
  <2> QED
    BY <1>1, <1>2, <1>6, <2>1, <2>2
<1>8. CASE Access(l)
  <2>1. loader[l].pc = "access"
    BY <1>8 DEF Access, Loads
  <2>2. Loads(l, "access", "pin") /\ UNCHANGED world
    BY <1>1, <1>8, <2>1 DEF Access, Held
  <2>3. Held(l)'
    BY <1>1, <1>6, <2>2 DEF Held, Shared
  <2> QED
    BY <1>1, <1>2, <1>6, <2>2, <2>3
<1>9. CASE UnpinOld(l) \/ Unpin(l)
  BY <1>1, <1>9 DEF UnpinOld, Unpin, Loads, Held
<1>10. CASE Pin(l)
  <2>1. loader[l].pc = "pin"
    BY <1>10 DEF Pin, Loads
  <2>2. /\ Loads(l, "pin", "idle") /\ UNCHANGED <<attached, maps>>
        /\ pin' = loader[l].map /\ pin' \in Nat \ {NoMap}
    BY <1>1, <1>10, <2>1 DEF Pin, Held
  <2>3. Held(l)'
    BY <1>1, <1>6, <2>1, <2>2 DEF Held, Shared
  <2> QED
    BY <1>1, <1>2, <1>6, <2>2, <2>3
<1>11. CASE Detach(l)
  <2>1. Loads(l, "detach", "idle") /\ attached' \subseteq attached /\ UNCHANGED <<pin, maps>>
    BY <1>11 DEF Detach
  <2>2. Held(l)'
    BY <1>1, <1>6, <2>1 DEF Held, Shared
  <2> QED
    BY <1>1, <1>2, <1>6, <2>1, <2>2
<1> QED
  BY <1>3, <1>4, <1>5, <1>7, <1>8, <1>9, <1>10, <1>11 DEF LoaderStep

\* The programs that count leave the maps where they are.
LEMMA CountStep ==
  ASSUME Orderly, NEW c \in Cpu, AddAtomically(c) \/ Count(c) \/ Store(c)
  PROVE  Orderly'
BY DEF Orderly, Finds, Held, Shared, AddAtomically, Count, Store, world

\* basic03 attaches one more program, with a map of its own; no reader pins anything.
LEMMA ReaderStepFact ==
  ASSUME Orderly, ReaderStep
  PROVE  Orderly'
<1> USE DEF Orderly, Finds, Held, Shared, world, kern, NoMap
<1>1. CASE LoadAndAttach
  <2>1. /\ reader.pc = "open" /\ reader.array = NoMap /\ maps' = maps + 1
        /\ attached' = attached \union {[id |-> programs + 1, map |-> maps + 1]}
        /\ reader'.array = maps + 1 /\ {"lesson", "pc", "id", "array"} \subseteq DOMAIN reader'
        /\ reader'.lesson = "basic03" /\ reader'.pc # "open"
        /\ UNCHANGED <<pin, loader>>
    BY <1>1 DEF LoadAndAttach
  <2>2. ASSUME NEW map, Shared(map) PROVE Shared(map)'
    BY <2>1, <2>2
  <2>3. \A l \in Loader : Held(l)'
    BY <2>1, <2>2
  <2>4. \A p \in attached' : p.map \in Nat \ {NoMap}
    BY <2>1
  <2> QED
    BY <2>1, <2>3, <2>4
<1>2. CASE LoadFails \/ Open \/ ReadAgain \/ PrintStats
  <2>1. /\ reader'.array = reader.array /\ DOMAIN reader' = DOMAIN reader
        /\ reader'.lesson = reader.lesson
        /\ UNCHANGED <<world, kern, loader>>
    <3>1. CASE LoadFails
      BY <3>1 DEF LoadFails, Reads
    <3>2. CASE Open
      BY <3>2 DEF Open, Reads
    <3>3. CASE ReadAgain
      BY <3>3 DEF ReadAgain, Reads
    <3>4. CASE PrintStats
      BY <3>4 DEF PrintStats, Reads
    <3> QED
      BY <1>2, <3>1, <3>2, <3>3, <3>4
  <2>2. reader'.lesson # "basic03" \/ reader'.pc = "open" => reader'.array = NoMap
    BY <1>2, <2>1 DEF LoadFails, Open, ReadAgain, PrintStats, Reads
  <2>3. ASSUME NEW map, Shared(map) PROVE Shared(map)'
    BY <2>1, <2>3
  <2>4. \A l \in Loader : Held(l)'
    BY <2>1, <2>3
  <2>5. Finds'
    BY <1>2, <2>1 DEF LoadFails, Open, ReadAgain, PrintStats, Reads
  <2> QED
    BY <2>1, <2>2, <2>4, <2>5
<1>3. CASE Reopen
  <2>1. UNCHANGED <<world, kern, loader>> /\ reader.lesson = "solution"
    BY <1>3 DEF Reopen, Reads
  <2>2. /\ {"lesson", "pc", "id", "array"} \subseteq DOMAIN reader' /\ reader'.lesson = "solution"
        /\ reader'.array = NoMap /\ reader'.id = reader.id /\ reader'.pc # "exited"
    <3>1. CASE reader' = Opening("solution", reader.id)
      BY <3>1 DEF Opening
    <3>2. CASE reader' # Opening("solution", reader.id)
      BY <1>3, <3>2 DEF Reopen, Reads
    <3> QED
      BY <3>1, <3>2
  <2> QED
    BY <2>1, <2>2
<1>4. CASE Collect
  BY <1>4 DEF Collect, Reads
<1> QED
  BY <1>1, <1>2, <1>3, <1>4 DEF ReaderStep

\* A failure is never taken back.
LEMMA FailedStays == failed /\ [Next]_vars => failed'
<1>1. ASSUME NEW l \in Loader, Start(l) \/ LoaderStep(l), failed PROVE failed'
  BY <1>1 DEF Start, LoaderStep, GetPinned, Attach, AttachFails, Access, UnpinOld, Pin, Unpin,
     Detach, world
<1>2. ASSUME NEW c \in Cpu, AddAtomically(c) \/ Count(c) \/ Store(c), failed PROVE failed'
  BY <1>2 DEF AddAtomically, Count, Store, world
<1>3. ASSUME ReaderStep, failed PROVE failed'
  BY <1>3 DEF ReaderStep, LoadAndAttach, LoadFails, Open, ReadAgain, Reopen, Collect,
     PrintStats, Reads, world
<1> QED
  BY <1>1, <1>2, <1>3 DEF Next, vars, world

LEMMA InvStep == OneLoader /\ Reusing /\ Inv /\ [Next]_vars => Inv'
<1>1. Orderly /\ UNCHANGED vars => Orderly'
  BY DEF Orderly, Finds, Held, Shared, vars, world
<1> QED
  BY <1>1, CommandStep, CountStep, ReaderStepFact, FailedStays DEF Next, Inv

\* When the loader is used by one user at a time, and always with --reuse-maps, and the
\* pinned map can be opened, pinned and unpinned, every program on the interface counts
\* in the map that xdp_stats finds under its name (or is basic03's, which reads its own
\* map), for any number of programs and CPUs and whatever else fails.
THEOREM SharedMapTheorem ==
  ASSUME OneLoader, Reusing
  PROVE  Spec => []SharedMap
<1>1. Inv => SharedMap
  BY DEF OneLoader, Inv, Orderly, Held, Shared, SharedMap
<1> QED
  BY <1>1, InvInit, InvStep, PTL DEF Spec

\* Under the same conditions, an xdp_stats of the solution which has shown a map never
\* exits because there is no file of that name: no command removes one that it can open.
THEOREM NeedsNoRestartTheorem ==
  ASSUME OneLoader, Reusing
  PROVE  Spec => []NeedsNoRestart
<1>1. Inv => NeedsNoRestart
  BY DEF Inv, Orderly, Finds, NeedsNoRestart
<1> QED
  BY <1>1, InvInit, InvStep, PTL DEF Spec

-----------------------------------------------------------------------------
(* The types, for any commands at the same time, and any of the readers.   *)

\* No map is named before it has been created.
Typed ==
  /\ TypeOK
  /\ pin \in 0 .. maps
  /\ \A l \in Loader : /\ loader[l].map \in 0 .. maps
                       /\ loader[l].map = NoMap => loader[l].map_reused = FALSE
  /\ \A c \in Cpu : running[c].map \in 0 .. maps
  /\ reader.map \in 0 .. maps /\ reader.id \in 0 .. maps /\ reader.array \in 0 .. maps
  /\ reader.pc \in {"first", "reopen", "next", "print"} =>
       reader.map = reader.id /\ reader.id # NoMap

LoaderPc == {"idle", "get", "attach", "access", "unpin_old", "pin", "unpin", "detach"}
Locals == [pc : LoaderPc, cmd : Command, map : {NoMap} \union MapId, map_reused : BOOLEAN]

LEMMA BoundsFact ==
  ASSUME TypeOK
  PROVE  /\ MaxPrograms \in Nat /\ programs \in Nat /\ maps \in Nat
         /\ maps <= programs /\ programs <= MaxPrograms
         /\ 0 .. maps \subseteq {NoMap} \union MapId
BY PinnedAssumption DEF PinnedAssumption, TypeOK, NoMap, MapId

LEMMA TypedInit == Init => Typed
<1> SUFFICES ASSUME Init PROVE Typed
  OBVIOUS
<1>1. MaxPrograms \in Nat
  BY PinnedAssumption DEF PinnedAssumption
<1>2. Idle \in Locals /\ Idle.map = NoMap /\ ~Idle.map_reused
  BY DEF Idle, Locals, LoaderPc, NoCommand, Command, NoMap
<1>3. PICK lesson \in Readers : reader = Opening(lesson, NoMap)
  BY DEF Init
<1>4. lesson \in Lesson
  BY PinnedAssumption DEF PinnedAssumption
<1>5. /\ reader \in [lesson : Lesson,
                    pc : {"open", "first", "reopen", "next", "print", "exited",
                          "failed"},
                    map : {NoMap} \union MapId, id : {NoMap} \union MapId,
                    array : {NoMap} \union MapId, left : SUBSET Cpu, sum : Nat, record : Nat,
                    prev : Nat]
      /\ reader.map = 0 /\ reader.id = 0 /\ reader.array = 0 /\ reader.pc = "open"
  BY <1>3, <1>4 DEF Opening, NoMap
<1>6. loader = [l \in Loader |-> Idle]
  BY DEF Init
<1>7. running \in [Cpu -> [map : {NoMap} \union MapId, value : Nat]]
       /\ \A c \in Cpu : running[c].map = 0
  BY DEF Init, NotRunning, NoMap
<1>8. /\ pin = 0 /\ attached = {} /\ programs = 0 /\ maps = 0 /\ failed = FALSE
      /\ count \in [MapId -> [Cpu -> Nat]] /\ counted \in [MapId -> Nat]
  BY DEF Init, NoMap
<1>9. /\ loader \in [Loader -> Locals]
      /\ \A l \in Loader : loader[l].map = 0 /\ loader[l].map_reused = FALSE
  BY <1>2, <1>6 DEF NoMap, Locals
<1>10. TypeOK
  <2>1. 0 \in 0 .. MaxPrograms /\ 0 \in 0 .. 0 /\ FALSE \in BOOLEAN
    BY <1>1
  <2> QED
    BY <1>5, <1>7, <1>8, <1>9, <2>1 DEF TypeOK, Locals, LoaderPc, NoMap
<1> QED
  BY <1>1, <1>5, <1>7, <1>8, <1>9, <1>10 DEF Typed, NoMap

\* What remains to be shown of a step of the loader.
LEMMA TypedByLoader ==
  ASSUME Typed, NEW l \in Loader, UNCHANGED <<kern, reader>>,
         NEW r \in Locals, loader' = [loader EXCEPT ![l] = r],
         programs' \in 0 .. MaxPrograms, maps' \in 0 .. programs',
         programs <= programs', maps <= maps',
         attached' \subseteq [id : 1 .. programs', map : 1 .. maps'], failed' \in BOOLEAN,
         pin' \in 0 .. maps', r.map \in 0 .. maps', r.map = NoMap => r.map_reused = FALSE
  PROVE  Typed'
<1>1. /\ MaxPrograms \in Nat /\ programs \in Nat /\ maps \in Nat /\ maps' \in Nat
      /\ programs' \in Nat
      /\ 0 .. maps \subseteq 0 .. maps' /\ 0 .. maps' \subseteq {NoMap} \union MapId
  BY BoundsFact DEF Typed, NoMap, MapId
<1>2. /\ loader \in [Loader -> Locals]
      /\ loader' \in [Loader -> Locals] /\ loader'[l] = r
      /\ \A k \in Loader \ {l} : loader'[k] = loader[k]
  BY DEF Typed, TypeOK, Locals, LoaderPc
<1>3. \A k \in Loader : /\ loader'[k].map \in 0 .. maps'
                        /\ loader'[k].map = NoMap => loader'[k].map_reused = FALSE
  BY <1>1, <1>2 DEF Typed
<1> QED
  BY <1>1, <1>2, <1>3 DEF Typed, TypeOK, kern, Locals, LoaderPc

LEMMA TypedLoader ==
  ASSUME Typed, NEW l \in Loader, Start(l) \/ LoaderStep(l)
  PROVE  Typed'
<1>1. /\ MaxPrograms \in Nat /\ programs \in Nat /\ maps \in Nat
      /\ maps <= programs /\ programs <= MaxPrograms
      /\ 0 .. maps \subseteq {NoMap} \union MapId
  BY BoundsFact DEF Typed
<1>2. /\ loader \in [Loader -> Locals] /\ loader[l] \in Locals /\ pin \in 0 .. maps
      /\ attached \subseteq [id : 1 .. programs, map : 1 .. maps] /\ failed \in BOOLEAN
      /\ loader[l].map \in 0 .. maps
      /\ loader[l].map = NoMap => loader[l].map_reused = FALSE
  BY DEF Typed, TypeOK, Locals, LoaderPc
<1>3. Idle \in Locals /\ Idle.map \in 0 .. maps /\ (Idle.map = NoMap => Idle.map_reused = FALSE)
  BY <1>1 DEF Idle, Locals, LoaderPc, NoCommand, Command, NoMap
\* What remains to be shown of a step that creates nothing.
<1>4. ASSUME UNCHANGED <<programs, maps, kern, reader>>, attached' \subseteq attached,
             pin' \in 0 .. maps, failed' \in BOOLEAN, NEW r \in Locals, loader' = [loader EXCEPT ![l] = r],
             r.map \in 0 .. maps, r.map = NoMap => r.map_reused = FALSE
      PROVE  Typed'
  <2>1. /\ programs' \in 0 .. MaxPrograms /\ maps' \in 0 .. programs'
        /\ programs <= programs' /\ maps <= maps'
        /\ attached' \subseteq [id : 1 .. programs', map : 1 .. maps']
        /\ pin' \in 0 .. maps' /\ r.map \in 0 .. maps'
    BY <1>1, <1>2, <1>4
  <2> QED
    BY <1>4, <2>1, TypedByLoader
\* A step to the next program point, or to the end.
<1>5. ASSUME NEW from, NEW to \in LoaderPc, Loads(l, from, to),
             UNCHANGED <<programs, maps>>, attached' \subseteq attached, pin' \in 0 .. maps,
             failed' \in BOOLEAN
      PROVE  Typed'
  <2> DEFINE r == IF to = "idle" THEN Idle ELSE [loader[l] EXCEPT !.pc = to]
  <2>1. r \in Locals /\ r.map \in 0 .. maps /\ (r.map = NoMap => r.map_reused = FALSE)
    <3>1. CASE to = "idle"
      <4>1. r = Idle
        BY <3>1
      <4> QED
        BY <1>3, <1>2, <4>1
    <3>2. CASE to # "idle"
      <4>1. r = [loader[l] EXCEPT !.pc = to]
        BY <3>2
      <4>2. r \in Locals /\ r.map = loader[l].map /\ r.map_reused = loader[l].map_reused
        BY <1>2, <1>5, <4>1 DEF Locals
      <4> QED
        BY <1>2, <4>2
    <3> QED
      BY <3>1, <3>2
  <2>2. loader' = [loader EXCEPT ![l] = r] /\ UNCHANGED <<kern, reader>>
    BY <1>5 DEF Loads
  <2> HIDE DEF r
  <2> QED
    BY <1>4, <1>5, <2>1, <2>2
<1> USE DEF world
<1>6. CASE Start(l)
  <2>1. PICK cmd \in Commands :
          /\ loader' = [loader EXCEPT ![l].cmd = cmd,
                         ![l].pc = CASE cmd.op = "load" /\ cmd.reuse_maps -> "get"
                                     [] cmd.op = "load" /\ ~cmd.reuse_maps -> "attach"
                                     [] cmd.op = "unload" /\ cmd.reuse_maps -> "detach"
                                     [] cmd.op = "unload" /\ ~cmd.reuse_maps -> "unpin"]
          /\ UNCHANGED <<world, kern, reader>>
    BY <1>6 DEF Start
  <2>2. cmd \in Command
    BY PinnedAssumption DEF PinnedAssumption
  <2>3. PICK to \in LoaderPc :
          loader' = [loader EXCEPT ![l] = [@ EXCEPT !.cmd = cmd, !.pc = to]]
    <3>1. (cmd.op = "load" \/ cmd.op = "unload") /\ cmd.reuse_maps \in BOOLEAN
      BY <2>2 DEF Command
    <3>2. CASE cmd.op = "load" /\ cmd.reuse_maps
      BY <1>2, <2>1, <3>2 DEF LoaderPc
    <3>3. CASE cmd.op = "load" /\ ~cmd.reuse_maps
      BY <1>2, <2>1, <3>3 DEF LoaderPc
    <3>4. CASE cmd.op = "unload" /\ cmd.reuse_maps
      BY <1>2, <2>1, <3>4 DEF LoaderPc
    <3>5. CASE cmd.op = "unload" /\ ~cmd.reuse_maps
      BY <1>2, <2>1, <3>5 DEF LoaderPc
    <3> QED
      BY <3>1, <3>2, <3>3, <3>4, <3>5
  <2> DEFINE r == [loader[l] EXCEPT !.cmd = cmd, !.pc = to]
  <2>4. r \in Locals /\ r.map = loader[l].map /\ r.map_reused = loader[l].map_reused
    BY <1>2, <2>2 DEF Locals
  <2>5. loader' = [loader EXCEPT ![l] = r]
    BY <1>2, <2>3
  <2> HIDE DEF r
  <2> QED
    <3>1. /\ UNCHANGED <<programs, maps, kern, reader>> /\ attached' \subseteq attached
          /\ pin' \in 0 .. maps /\ failed' \in BOOLEAN
      BY <1>2, <2>1
    <3>2. r.map \in 0 .. maps /\ (r.map = NoMap => r.map_reused = FALSE)
      BY <1>2, <2>4
    <3> QED
      BY <1>4, <2>4, <2>5, <3>1, <3>2
<1>7. CASE GetPinned(l)
  <2>1. PICK map \in {pin, NoMap} :
          /\ loader' = [loader EXCEPT ![l].pc = "attach", ![l].map = map,
                                      ![l].map_reused = (map # NoMap)]
          /\ failed' = (failed \/ map # pin)
          /\ UNCHANGED <<pin, attached, programs, maps, kern, reader>>
    BY <1>7 DEF GetPinned
  <2> DEFINE r == [loader[l] EXCEPT !.pc = "attach", !.map = map, !.map_reused = (map # NoMap)]
  <2>2. (map # NoMap) \in BOOLEAN /\ failed' \in BOOLEAN
    BY <2>1, Zenon
  <2>3. map \in 0 .. maps
    BY <1>1, <1>2 DEF NoMap
  <2>4. r \in Locals /\ r.map = map
    BY <1>1, <1>2, <2>2, <2>3 DEF Locals, LoaderPc
  <2>5. r.map_reused = (map # NoMap)
    BY <1>2 DEF Locals
  <2>6. loader' = [loader EXCEPT ![l] = r]
    BY <1>2, <2>1
  <2> HIDE DEF r
  <2>7. r.map = NoMap => r.map_reused = FALSE
    BY <2>4, <2>5, Zenon
  <2> QED
    BY <1>2, <1>4, <2>1, <2>2, <2>3, <2>4, <2>6, <2>7
<1>8. CASE Attach(l)
  <2> DEFINE map == IF loader[l].map_reused THEN loader[l].map ELSE maps + 1
             new == IF loader[l].map_reused THEN maps ELSE maps + 1
             r == IF Pins(loader[l]) THEN [loader[l] EXCEPT !.pc = "access", !.map = map]
                                     ELSE Idle
  <2>1. /\ programs < MaxPrograms /\ programs' = programs + 1 /\ maps' = new
        /\ attached' = attached \union {[id |-> programs + 1, map |-> map]}
        /\ loader' = [loader EXCEPT ![l] = r]
        /\ UNCHANGED <<pin, failed, kern, reader>>
    BY <1>8 DEF Attach
  <2>2. /\ new \in 0 .. programs + 1 /\ maps <= new /\ map \in 1 .. new
        /\ programs + 1 \in 0 .. MaxPrograms
    <3>1. CASE loader[l].map_reused
      BY <1>1, <1>2, <2>1, <3>1 DEF NoMap
    <3>2. CASE ~loader[l].map_reused
      BY <1>1, <1>2, <2>1, <3>2
    <3> QED
      BY <3>1, <3>2
  <2>3. attached' \subseteq [id : 1 .. programs + 1, map : 1 .. new]
    <3> HIDE DEF map, new
    <3> QED
      BY <1>1, <1>2, <2>1, <2>2
  <2>4. r \in Locals /\ r.map \in 0 .. new /\ (r.map = NoMap => r.map_reused = FALSE)
    <3> HIDE DEF map, new
    <3>1. map \in {NoMap} \union MapId /\ map # NoMap /\ map \in 0 .. new
      BY <1>1, <2>2 DEF NoMap, MapId
    <3> QED
      <4>1. CASE Pins(loader[l])
        BY <1>2, <3>1, <4>1 DEF Locals, LoaderPc
      <4>2. CASE ~Pins(loader[l])
        BY <1>1, <1>3, <2>2, <4>2
      <4> QED
        BY <4>1, <4>2
  <2>5. pin \in 0 .. new
    BY <1>1, <1>2, <2>2
  <2> HIDE DEF map, new, r
  <2> QED
    <3>1. /\ programs' \in 0 .. MaxPrograms /\ maps' \in 0 .. programs'
          /\ programs <= programs' /\ maps <= maps'
          /\ attached' \subseteq [id : 1 .. programs', map : 1 .. maps']
          /\ pin' \in 0 .. maps' /\ r.map \in 0 .. maps' /\ failed' \in BOOLEAN
      BY <1>1, <1>2, <2>1, <2>2, <2>3, <2>4, <2>5
    <3> QED
      BY <2>1, <2>4, <3>1, TypedByLoader
<1>9. CASE AttachFails(l) \/ Access(l) \/ Unpin(l) \/ UnpinOld(l) \/ Pin(l) \/ Detach(l)
  <2>1. \E from \in LoaderPc, to \in LoaderPc : Loads(l, from, to)
    <3>1. {"idle", "get", "access", "unpin_old", "pin", "attach", "unpin", "detach"} \subseteq LoaderPc
      BY DEF LoaderPc
    <3>2. CASE AttachFails(l)
      <4>1. PICK from \in {"get", "attach"} : Loads(l, from, "idle")
        BY <3>2 DEF AttachFails
      <4> QED
        BY <3>1, <4>1
    <3>3. CASE Access(l)
      <4>1. PICK to \in {"pin", "unpin_old"} : Loads(l, "access", to)
        BY <3>3 DEF Access
      <4> QED
        BY <3>1, <4>1
    <3>4. CASE UnpinOld(l)
      <4>1. Loads(l, "unpin_old", "pin") \/ Loads(l, "unpin_old", "idle")
        BY <3>4 DEF UnpinOld
      <4> QED
        BY <3>1, <4>1
    <3> QED
      BY <1>9, <3>1, <3>2, <3>3, <3>4 DEF Unpin, Pin, Detach
  <2>2. UNCHANGED <<programs, maps>> /\ attached' \subseteq attached
    BY <1>9 DEF AttachFails, Access, Unpin, UnpinOld, Pin, Detach
  <2>3. pin' \in 0 .. maps
    <3>1. pin' \in {pin, NoMap, loader[l].map}
      BY <1>9 DEF AttachFails, Access, Unpin, UnpinOld, Pin, Detach
    <3> QED
      BY <1>1, <1>2, <3>1 DEF NoMap
  <2>4. failed' \in BOOLEAN
    <3>1. failed' = failed \/ failed' \in BOOLEAN
      BY <1>9 DEF AttachFails, Access, Unpin, UnpinOld, Pin, Detach
    <3> QED
      BY <1>2, <3>1
  <2> QED
    BY <1>5, <2>1, <2>2, <2>3, <2>4
<1> QED
  BY <1>6, <1>7, <1>8, <1>9 DEF LoaderStep

LEMMA AttachedFact ==
  ASSUME Typed, NEW p \in attached
  PROVE  p.map \in 0 .. maps /\ p.map \in MapId /\ p.map # NoMap
<1>1. 1 .. maps \subseteq MapId /\ p.map \in 1 .. maps
  <2>1. p.map \in 1 .. maps
    BY DEF Typed, TypeOK
  <2>2. MaxPrograms \in Nat /\ maps \in Nat /\ maps <= MaxPrograms
    BY BoundsFact DEF Typed
  <2> QED
    BY <2>1, <2>2 DEF MapId
<1> QED
  BY <1>1, BoundsFact DEF Typed, NoMap

\* An array's record is the one of some CPU.
LEMMA RecordFact ==
  ASSUME NEW map, NEW c \in Cpu
  PROVE  Record(map, c) \in Cpu
BY PinnedAssumption DEF PinnedAssumption, Record

LEMMA TypedKern ==
  ASSUME Typed, NEW c \in Cpu, AddAtomically(c) \/ Count(c) \/ Store(c)
  PROVE  Typed'
<1>1. /\ count \in [MapId -> [Cpu -> Nat]] /\ counted \in [MapId -> Nat]
      /\ running \in [Cpu -> [map : {NoMap} \union MapId, value : Nat]]
      /\ \A d \in Cpu : running[d].map \in 0 .. maps
  BY DEF Typed, TypeOK
\* What remains to be shown.
<1>2. ASSUME UNCHANGED <<world, loader, reader>>,
             count' \in [MapId -> [Cpu -> Nat]], counted' \in [MapId -> Nat],
             running' \in [Cpu -> [map : {NoMap} \union MapId, value : Nat]],
             \A d \in Cpu : running'[d].map \in 0 .. maps
      PROVE  Typed'
  BY <1>2 DEF Typed, TypeOK, world
<1>3. ASSUME NEW map \in MapId, NEW d \in Cpu, NEW n \in Nat
      PROVE  [count EXCEPT ![map][d] = n] \in [MapId -> [Cpu -> Nat]]
  BY <1>1
<1>4. CASE AddAtomically(c)
  <2>1. PICK p \in attached :
          /\ count' = [count EXCEPT ![p.map][Record(p.map, c)] = @ + 1]
          /\ counted' = [counted EXCEPT ![p.map] = @ + 1]
          /\ UNCHANGED <<world, running, loader, reader>>
    BY <1>4 DEF AddAtomically
  <2>2. p.map \in MapId /\ Record(p.map, c) \in Cpu
    BY AttachedFact, RecordFact
  <2>3. count' \in [MapId -> [Cpu -> Nat]] /\ counted' \in [MapId -> Nat]
    BY <1>1, <2>1, <2>2
  <2> QED
    BY <1>1, <1>2, <2>1, <2>3
<1>5. CASE Count(c)
  <2>1. PICK p \in attached :
          /\ running' = [running EXCEPT ![c] = [map |-> p.map,
                                                value |-> count[p.map][Record(p.map, c)]]]
          /\ UNCHANGED <<world, count, counted, loader, reader>>
    BY <1>5 DEF Count
  <2>2. p.map \in MapId /\ p.map \in 0 .. maps /\ Record(p.map, c) \in Cpu
    BY AttachedFact, RecordFact
  <2>3. count[p.map][Record(p.map, c)] \in Nat
    BY <1>1, <2>2
  <2>4. /\ running' \in [Cpu -> [map : {NoMap} \union MapId, value : Nat]]
        /\ \A d \in Cpu : running'[d].map \in 0 .. maps
    BY <1>1, <2>1, <2>2, <2>3
  <2> QED
    BY <1>1, <1>2, <2>1, <2>4
<1>6. CASE Store(c)
  <2> DEFINE map == running[c].map
  <2>1. /\ map # NoMap
        /\ count' = [count EXCEPT ![map][Record(map, c)] = running[c].value + 1]
        /\ counted' = [counted EXCEPT ![map] = @ + 1]
        /\ running' = [running EXCEPT ![c] = NotRunning]
        /\ UNCHANGED <<world, loader, reader>>
    BY <1>6 DEF Store
  <2>2. map \in MapId /\ Record(map, c) \in Cpu /\ running[c].value + 1 \in Nat
    BY <1>1, <2>1, RecordFact
  <2>3. count' \in [MapId -> [Cpu -> Nat]] /\ counted' \in [MapId -> Nat]
    <3> HIDE DEF map
    <3> QED
      BY <1>1, <2>1, <2>2
  <2>4. 0 \in 0 .. maps
    BY BoundsFact DEF Typed
  <2>5. /\ running' \in [Cpu -> [map : {NoMap} \union MapId, value : Nat]]
        /\ \A d \in Cpu : running'[d].map \in 0 .. maps
    BY <1>1, <2>1, <2>4 DEF NotRunning, NoMap
  <2> QED
    BY <1>2, <2>1, <2>3, <2>5
<1> QED
  BY <1>4, <1>5, <1>6

ReaderLocals ==
  [lesson : Lesson, pc : {"open", "first", "reopen", "next", "print", "exited", "failed"},
   map : {NoMap} \union MapId, id : {NoMap} \union MapId, array : {NoMap} \union MapId,
   left : SUBSET Cpu, sum : Nat, record : Nat, prev : Nat]

LEMMA TypedReader ==
  ASSUME Typed, ReaderStep
  PROVE  Typed'
<1>1. /\ MaxPrograms \in Nat /\ programs \in Nat /\ maps \in Nat
      /\ maps <= programs /\ programs <= MaxPrograms
      /\ 0 .. maps \subseteq {NoMap} \union MapId
  BY BoundsFact DEF Typed
<1>2. /\ reader \in ReaderLocals /\ pin \in 0 .. maps
      /\ reader.map \in 0 .. maps /\ reader.id \in 0 .. maps /\ reader.array \in 0 .. maps
      /\ reader.pc \in {"first", "reopen", "next", "print"} =>
           reader.map = reader.id /\ reader.id # NoMap
      /\ count \in [MapId -> [Cpu -> Nat]]
      /\ attached \subseteq [id : 1 .. programs, map : 1 .. maps]
  BY DEF Typed, TypeOK, ReaderLocals
\* What remains to be shown of a step that only changes the reader.
<1>3. ASSUME UNCHANGED <<world, kern, loader>>, reader' \in ReaderLocals,
             reader'.map \in 0 .. maps, reader'.id \in 0 .. maps, reader'.array \in 0 .. maps,
             reader'.pc \in {"first", "reopen", "next", "print"} =>
               reader'.map = reader'.id /\ reader'.id # NoMap
      PROVE  Typed'
  BY <1>3 DEF Typed, TypeOK, world, kern, ReaderLocals
<1>4. CASE LoadAndAttach
  <2> PICK found \in BOOLEAN :
         /\ programs < MaxPrograms /\ programs' = programs + 1 /\ maps' = maps + 1
         /\ attached' = attached \union {[id |-> programs + 1, map |-> maps + 1]}
         /\ reader' = [reader EXCEPT !.pc = IF found THEN "first" ELSE "failed",
                                     !.map = maps + 1, !.id = maps + 1, !.array = maps + 1,
                                     !.left = {CHOOSE d \in Cpu : TRUE}]
         /\ UNCHANGED <<pin, failed, kern, loader>>
    BY <1>4 DEF LoadAndAttach
  <2> DEFINE r == [reader EXCEPT !.pc = IF found THEN "first" ELSE "failed",
                                 !.map = maps + 1, !.id = maps + 1, !.array = maps + 1,
                                 !.left = {CHOOSE d \in Cpu : TRUE}]
  <2>1. /\ programs < MaxPrograms /\ programs' = programs + 1 /\ maps' = maps + 1
        /\ attached' = attached \union {[id |-> programs + 1, map |-> maps + 1]}
        /\ reader' = r /\ UNCHANGED <<pin, failed, kern, loader>>
    OBVIOUS
  <2>2. (CHOOSE d \in Cpu : TRUE) \in Cpu
    BY PinnedAssumption DEF PinnedAssumption
  <2>3. maps + 1 \in MapId /\ maps + 1 # NoMap
    BY <1>1, <2>1 DEF MapId, NoMap
  <2>4. r \in ReaderLocals /\ r.map = maps + 1 /\ r.id = maps + 1 /\ r.array = maps + 1
    BY <1>2, <2>2, <2>3 DEF ReaderLocals
  <2>5. attached' \subseteq [id : 1 .. programs', map : 1 .. maps']
    BY <1>1, <1>2, <2>1
  <2>6. 0 .. maps \subseteq 0 .. maps' /\ maps' \in 0 .. maps' /\ maps' \in 0 .. programs'
        /\ programs' \in 0 .. MaxPrograms
    BY <1>1, <2>1
  <2> HIDE DEF r
  <2>7. TypeOK'
    <3>1. UNCHANGED <<count, running, counted, loader, pin>>
      BY <2>1 DEF kern
    <3> QED
      BY <2>1, <2>4, <2>5, <2>6, <3>1 DEF Typed, TypeOK, ReaderLocals
  <2> QED
    BY <2>1, <2>3, <2>4, <2>6, <2>7 DEF Typed, kern
<1>5. CASE LoadFails
  BY <1>2, <1>3, <1>5 DEF LoadFails, Reads, ReaderLocals
<1>6. CASE Open
  BY <1>1, <1>2, <1>3, <1>6 DEF Open, Reads, ReaderLocals
<1>7. CASE ReadAgain
  <2>1. Values \in SUBSET Cpu
    BY RecordFact DEF Values
  <2> QED
    BY <1>2, <1>3, <1>7, <2>1 DEF ReadAgain, Reads, ReaderLocals
<1>8. CASE Reopen
  <2>1. CASE reader' = Opening("solution", reader.id)
    <3>1. UNCHANGED <<world, kern, loader>>
      BY <1>8 DEF Reopen, Reads
    <3>2. /\ reader' \in ReaderLocals /\ reader'.map = 0 /\ reader'.pc = "open"
          /\ reader'.id = reader.id /\ reader'.array = 0
      BY <1>2, <2>1 DEF Opening, ReaderLocals, Lesson, NoMap
    <3> QED
      BY <1>1, <1>2, <1>3, <3>1, <3>2
  <2>2. CASE reader' # Opening("solution", reader.id)
    BY <1>1, <1>2, <1>3, <1>8, <2>2 DEF Reopen, Reads, ReaderLocals
  <2> QED
    BY <2>1, <2>2
<1>9. CASE Collect
  <2>1. PICK from \in {"first", "next"}, c \in reader.left :
          LET sum == reader.sum + count[reader.map][c] IN
          /\ Reads(from)
          /\ reader' = IF reader.left = {c}
                       THEN [reader EXCEPT !.left = {}, !.sum = 0, !.record = sum,
                                           !.pc = IF from = "first" THEN "reopen" ELSE "print"]
                       ELSE [reader EXCEPT !.left = @ \ {c}, !.sum = sum]
    BY <1>9 DEF Collect
  <2> DEFINE sum == reader.sum + count[reader.map][c]
  <2>2. sum \in Nat
    <3>1. reader.map \in MapId /\ c \in Cpu /\ reader.sum \in Nat
      BY <1>1, <1>2, <2>1 DEF Reads, ReaderLocals
    <3> QED
      BY <1>2, <3>1
  <2> HIDE DEF sum
  <2>3. CASE reader.left = {c}
    <3>1. /\ reader' = [reader EXCEPT !.left = {}, !.sum = 0, !.record = sum,
                                  !.pc = IF from = "first" THEN "reopen" ELSE "print"]
          /\ reader.pc = from
      BY <2>1, <2>3 DEF Reads, sum
    <3>2. UNCHANGED <<world, kern, loader>>
      BY <2>1 DEF Reads
    <3>3. reader.pc \in {"first", "next"} /\ reader'.pc \in {"reopen", "print"}
      BY <1>2, <2>1, <3>1 DEF ReaderLocals
    <3>4. reader' \in ReaderLocals /\ reader'.map = reader.map /\ reader'.id = reader.id
          /\ reader'.array = reader.array
      BY <1>2, <2>2, <3>1 DEF ReaderLocals
    <3> QED
      BY <1>2, <1>3, <3>2, <3>3, <3>4
  <2>4. CASE reader.left # {c}
    <3>1. /\ reader' = [reader EXCEPT !.left = @ \ {c}, !.sum = sum]
          /\ reader.pc = from /\ UNCHANGED <<world, kern, loader>>
      BY <2>1, <2>4 DEF Reads, sum
    <3>2. reader' \in ReaderLocals
      BY <1>2, <2>2, <3>1 DEF ReaderLocals
    <3>3. /\ reader'.pc = reader.pc /\ reader'.map = reader.map /\ reader'.id = reader.id
          /\ reader'.array = reader.array /\ reader.pc \in {"first", "next"}
      BY <1>2, <2>1, <3>1 DEF ReaderLocals
    <3> QED
      BY <1>2, <1>3, <3>1, <3>2, <3>3
  <2> QED
    BY <2>3, <2>4
<1>10. CASE PrintStats
  BY <1>2, <1>3, <1>10 DEF PrintStats, Reads, ReaderLocals
<1> QED
  BY <1>4, <1>5, <1>6, <1>7, <1>8, <1>9, <1>10 DEF ReaderStep

LEMMA TypedStep == Typed /\ [Next]_vars => Typed'
<1>1. Typed /\ UNCHANGED vars => Typed'
  BY DEF Typed, TypeOK, vars, world, kern
<1>2. ASSUME Typed, Next PROVE Typed'
  BY <1>2, TypedLoader, TypedKern, TypedReader DEF Next
<1> QED
  BY <1>1, <1>2

\* Every variable keeps its type, and no program, command or reader refers to a map
\* that has not been created, whatever is typed at the same time.
THEOREM TypeTheorem == Spec => []TypeOK
<1>1. Typed => TypeOK
  BY DEF Typed
<1> QED
  BY <1>1, TypedInit, TypedStep, PTL DEF Spec

-----------------------------------------------------------------------------
(* Sums over the elements of a set, as MapThenSumSet() takes them.  The    *)
(* induction is the one on the natural numbers, by the least n that is not *)
(* in the set.                                                             *)

\* A set that has 0, and with n also n + 1, has all natural numbers.
LEMMA NatInd ==
  ASSUME NEW T \in SUBSET Nat, 0 \in T, \A n \in T : n + 1 \in T
  PROVE  Nat \subseteq T
<1> SUFFICES ASSUME Nat \ T # {} PROVE FALSE
  OBVIOUS
<1>1. PICK x \in Nat \ T : \A y \in Nat \ T : <<y, x>> \notin OpToRel(<, Nat)
  BY NatLessThanWellFounded, WFMin
<1>2. x # 0 /\ x - 1 \in Nat /\ x - 1 < x /\ x = (x - 1) + 1
  BY SMT
<1>3. x - 1 \in T
  BY <1>1, <1>2 DEF OpToRel
<1> QED
  BY <1>2, <1>3

\* The element that a fold over the set takes next, what the fold's function is at s,
\* and that function, for the sum of the a[c].
Any(s) == CHOOSE x \in s : TRUE
Unfolds(g, a, s) == g[s] = IF s = {} THEN 0 ELSE a[Any(s)] + g[s \ {Any(s)}]
Summing(a, S) ==
  CHOOSE g : g = [s \in SUBSET S |-> IF s = {} THEN 0 ELSE a[Any(s)] + g[s \ {Any(s)}]]

\* The community module's sum is this one.
LEMMA Expand ==
  ASSUME NEW S, NEW a
  PROVE  MapThenSumSet(LAMBDA c : a[c], S) = Summing(a, S)[S]
BY Zenon DEF MapThenSumSet, MapThenFoldSet, Summing, Any

\* A set that is not empty has such an element.
LEMMA AnyFact == \A s : s # {} => Any(s) \in s
BY DEF Any

\* Every set but the empty one is a smaller one and one more element.
GrowsTo(T, S) == \A s \in SUBSET S : (\A x \in s : s \ {x} \in T) => s \in T

\* So everything that grows in this way from the empty set is all subsets.
LEMMA SetInduction ==
  ASSUME NEW S, IsFiniteSet(S), NEW T, GrowsTo(T, S)
  PROVE  SUBSET S \subseteq T
<1> USE DEF GrowsTo
<1> DEFINE N == {n \in Nat : \A s \in SUBSET S : Cardinality(s) = n => s \in T}
<1>1. \A s \in SUBSET S : IsFiniteSet(s) /\ Cardinality(s) \in Nat
  BY FS_Subset, FS_CardinalityType
<1>2. 0 \in N
  <2>1. \A s \in SUBSET S : Cardinality(s) = 0 => s = {}
    BY <1>1, FS_EmptySet
  <2> QED
    BY <2>1
<1>3. ASSUME NEW n \in N PROVE n + 1 \in N
  <2> SUFFICES ASSUME NEW s \in SUBSET S, Cardinality(s) = n + 1 PROVE s \in T
    OBVIOUS
  <2>1. ASSUME NEW x \in s PROVE s \ {x} \in T
    <3>1. IsFiniteSet(s) /\ Cardinality(s) = n + 1 /\ n \in Nat
      BY <1>1
    <3>2. Cardinality(s \ {x}) = Cardinality(s) - 1
      BY <2>1, <3>1, FS_RemoveElement
    <3> QED
      BY <3>1, <3>2
  <2> QED
    BY <2>1
<1>4. Nat \subseteq N
  <2> HIDE DEF N
  <2>1. N \in SUBSET Nat
    BY DEF N
  <2> QED
    BY <1>2, <1>3, <2>1, NatInd
<1> QED
  BY <1>1, <1>4

\* The sums exist.
LEMMA SumsExist ==
  ASSUME NEW S, IsFiniteSet(S), NEW a \in [S -> Int]
  PROVE  \E g \in [SUBSET S -> Int] : \A s \in SUBSET S : Unfolds(g, a, s)
<1> DEFINE D(n) == {s \in SUBSET S : Cardinality(s) <= n}
           P(n) == \E g \in [D(n) -> Int] : \A s \in D(n) : Unfolds(g, a, s)
           N == {n \in Nat : P(n)}
<1>1. \A s \in SUBSET S : IsFiniteSet(s) /\ Cardinality(s) \in Nat
  BY FS_Subset, FS_CardinalityType
<1>2. 0 \in N
  <2> DEFINE g == [s \in D(0) |-> 0]
  <2>1. \A s \in D(0) : s = {}
    BY <1>1, FS_EmptySet
  <2>2. g \in [D(0) -> Int] /\ \A s \in D(0) : Unfolds(g, a, s)
    BY <2>1 DEF Unfolds
  <2> QED
    BY <2>2
<1>3. ASSUME NEW n \in N PROVE n + 1 \in N
  <2>1. PICK g \in [D(n) -> Int] : \A s \in D(n) : Unfolds(g, a, s)
    OBVIOUS
  <2> DEFINE h == [s \in D(n + 1) |-> IF s = {} THEN 0 ELSE a[Any(s)] + g[s \ {Any(s)}]]
  <2>2. ASSUME NEW s \in D(n + 1), s # {}
        PROVE  s \ {Any(s)} \in D(n) /\ s \ {Any(s)} \in D(n + 1) /\ Any(s) \in S
    <3>1. Any(s) \in s
      BY <2>2, AnyFact
    <3>2. Cardinality(s \ {Any(s)}) = Cardinality(s) - 1
      BY <1>1, <3>1, FS_RemoveElement
    <3> QED
      BY <1>1, <3>1, <3>2
  <2>3. h \in [D(n + 1) -> Int]
    BY <2>2
  <2>4. \A s \in D(n) : h[s] = g[s]
    BY <1>1, <2>1 DEF Unfolds
  <2>5. \A s \in D(n + 1) : Unfolds(h, a, s)
    BY <2>2, <2>4 DEF Unfolds
  <2>6. P(n + 1)
    <3> HIDE DEF h, D
    <3> WITNESS h \in [D(n + 1) -> Int]
    <3> QED
      BY <2>5
  <2> HIDE DEF P
  <2> QED
    BY <2>6
<1>4. Cardinality(S) \in N
  <2> HIDE DEF N
  <2>1. N \in SUBSET Nat
    BY DEF N
  <2>2. Nat \subseteq N
    BY <1>2, <1>3, <2>1, NatInd
  <2> QED
    BY <1>1, <2>2
<1>5. D(Cardinality(S)) = SUBSET S
  <2>1. \A s \in SUBSET S : Cardinality(s) <= Cardinality(S)
    BY FS_Subset
  <2> QED
    BY <2>1
<1> QED
  BY <1>4, <1>5

\* The sum is one of them, and each of its values is a number.
LEMMA SumsFact ==
  ASSUME NEW S, IsFiniteSet(S), NEW a \in [S -> Int]
  PROVE  /\ Summing(a, S) \in [SUBSET S -> Int]
         /\ \A s \in SUBSET S : Unfolds(Summing(a, S), a, s)
<1> DEFINE Eq(g) == g = [s \in SUBSET S |-> IF s = {} THEN 0 ELSE a[Any(s)] + g[s \ {Any(s)}]]
<1>1. PICK g \in [SUBSET S -> Int] : \A s \in SUBSET S : Unfolds(g, a, s)
  BY SumsExist
<1>2. Eq(g)
  BY <1>1 DEF Unfolds
<1>3. Eq(Summing(a, S))
  <2> HIDE DEF Eq
  <2>1. Summing(a, S) = CHOOSE f : Eq(f)
    BY Zenon DEF Summing, Eq
  <2> QED
    BY <1>2, <2>1, Zenon
<1> DEFINE f == Summing(a, S)
<1> HIDE DEF f
<1>4. \A s \in SUBSET S : Unfolds(f, a, s)
  BY <1>3 DEF f, Unfolds
<1>5. SUBSET S \subseteq {s \in SUBSET S : f[s] \in Int}
  <2> DEFINE T == {s \in SUBSET S : f[s] \in Int}
  <2>1. ASSUME NEW s \in SUBSET S, \A x \in s : s \ {x} \in T PROVE s \in T
    <3>1. f[s] = IF s = {} THEN 0 ELSE a[Any(s)] + f[s \ {Any(s)}]
      BY <1>4 DEF Unfolds
    <3>2. s # {} => Any(s) \in S /\ f[s \ {Any(s)}] \in Int
      BY <2>1, AnyFact
    <3> QED
      BY <3>1, <3>2
  <2>2. GrowsTo(T, S)
    BY <2>1 DEF GrowsTo
  <2> HIDE DEF T
  <2>3. SUBSET S \subseteq T
    BY <2>2, SetInduction
  <2> QED
    BY <2>3 DEF T
<1>6. f = [s \in SUBSET S |-> f[s]]
  BY <1>3 DEF f
<1> QED
  BY <1>4, <1>5, <1>6 DEF f

\* The sum over nothing is 0.
LEMMA SumEmpty ==
  ASSUME NEW S, IsFiniteSet(S), NEW a \in [S -> Int]
  PROVE  Summing(a, S)[{}] = 0
BY SumsFact DEF Unfolds

\* Whichever element is taken first.
LEMMA SumRemove ==
  ASSUME NEW S, IsFiniteSet(S), NEW a \in [S -> Int], NEW r \in SUBSET S, NEW c \in r
  PROVE  Summing(a, S)[r] = a[c] + Summing(a, S)[r \ {c}]
<1> DEFINE f == Summing(a, S)
           Splits(s) == \A d \in s : f[s] = a[d] + f[s \ {d}]
           T == {s \in SUBSET S : Splits(s)}
<1> HIDE DEF f
<1>1. /\ \A s \in SUBSET S : f[s] \in Int
      /\ \A s \in SUBSET S : f[s] = IF s = {} THEN 0 ELSE a[Any(s)] + f[s \ {Any(s)}]
  <2>1. f \in [SUBSET S -> Int] /\ \A s \in SUBSET S : Unfolds(f, a, s)
    BY SumsFact DEF f
  <2> QED
    BY <2>1 DEF Unfolds
<1>2. ASSUME NEW s \in SUBSET S, \A x \in s : s \ {x} \in T
      PROVE  s \in T
  <2> SUFFICES ASSUME NEW d \in s PROVE f[s] = a[d] + f[s \ {d}]
    OBVIOUS
  <2> DEFINE x == Any(s)
  <2>1. x \in s /\ f[s] = a[x] + f[s \ {x}]
    BY <1>1, AnyFact
  <2> HIDE DEF x
  <2>2. CASE x = d
    BY <2>1, <2>2
  <2>3. CASE x # d
    <3>1. f[s \ {x}] = a[d] + f[(s \ {x}) \ {d}]
      BY <1>2, <2>1, <2>3
    <3>2. f[s \ {d}] = a[x] + f[(s \ {d}) \ {x}]
      BY <1>2, <2>1, <2>3
    <3>3. f[(s \ {x}) \ {d}] = f[(s \ {d}) \ {x}]
      <4>1. (s \ {x}) \ {d} = (s \ {d}) \ {x}
        OBVIOUS
      <4> QED
        BY <4>1
    <3>4. a[x] \in Int /\ a[d] \in Int /\ f[(s \ {d}) \ {x}] \in Int
      BY <1>1, <2>1
    <3> QED
      BY <2>1, <3>1, <3>2, <3>3, <3>4
  <2> QED
    BY <2>2, <2>3
<1>3. GrowsTo(T, S)
  BY <1>2 DEF GrowsTo
<1> HIDE DEF T
<1>4. SUBSET S \subseteq T
  BY <1>3, SetInduction
<1> QED
  BY <1>4 DEF T, f

\* A sum over other elements does not change, and one with the changed element by as much.
LEMMA SumChange ==
  ASSUME NEW S, IsFiniteSet(S), NEW a \in [S -> Int], NEW b \in [S -> Int], NEW c \in S,
         \A d \in S \ {c} : b[d] = a[d], NEW r \in SUBSET S
  PROVE  Summing(b, S)[r] = Summing(a, S)[r] + (IF c \in r THEN b[c] - a[c] ELSE 0)
<1> DEFINE f == Summing(a, S)
           g == Summing(b, S)
           T == {s \in SUBSET S : c \notin s => g[s] = f[s]}
<1> HIDE DEF f, g
<1>1. /\ \A s \in SUBSET S : f[s] \in Int /\ g[s] \in Int
      /\ \A s \in SUBSET S : f[s] = IF s = {} THEN 0 ELSE a[Any(s)] + f[s \ {Any(s)}]
      /\ \A s \in SUBSET S : g[s] = IF s = {} THEN 0 ELSE b[Any(s)] + g[s \ {Any(s)}]
  <2>1. /\ f \in [SUBSET S -> Int] /\ \A s \in SUBSET S : Unfolds(f, a, s)
        /\ g \in [SUBSET S -> Int] /\ \A s \in SUBSET S : Unfolds(g, b, s)
    BY SumsFact DEF f, g
  <2> QED
    BY <2>1 DEF Unfolds
<1>2. ASSUME NEW s \in SUBSET S, \A x \in s : s \ {x} \in T
      PROVE  s \in T
  <2>1. s # {} => Any(s) \in s
    BY AnyFact
  <2> QED
    BY <1>1, <1>2, <2>1
<1>3. GrowsTo(T, S)
  BY <1>2 DEF GrowsTo
<1>4. SUBSET S \subseteq T
  <2> HIDE DEF T
  <2> QED
    BY <1>3, SetInduction
<1>5. CASE c \notin r
  BY <1>1, <1>4, <1>5 DEF f, g
<1>6. CASE c \in r
  <2>1. f[r] = a[c] + f[r \ {c}] /\ g[r] = b[c] + g[r \ {c}]
    BY <1>6, SumRemove DEF f, g
  <2>2. g[r \ {c}] = f[r \ {c}] /\ f[r \ {c}] \in Int /\ a[c] \in Int /\ b[c] \in Int
    BY <1>1, <1>4
  <2> QED
    BY <1>6, <2>1, <2>2 DEF f, g
<1> QED
  BY <1>5, <1>6

-----------------------------------------------------------------------------
(* The counters and the readings, for any number of programs, commands,    *)
(* CPUs and packets.                                                       *)

Total(a, s) == Summing(a, Cpu)[s]

LEMMA TotalFact ==
  ASSUME NEW a \in [Cpu -> Nat]
  PROVE  /\ Total(a, {}) = 0
         /\ \A s \in SUBSET Cpu : /\ Total(a, s) \in Int
                                  /\ \A c \in s : Total(a, s) = a[c] + Total(a, s \ {c})
<1>1. IsFiniteSet(Cpu) /\ a \in [Cpu -> Int]
  BY PinnedAssumption DEF PinnedAssumption
<1>2. Summing(a, Cpu) \in [SUBSET Cpu -> Int]
  BY <1>1, SumsFact
<1>3. Summing(a, Cpu)[{}] = 0
  BY <1>1, SumEmpty
<1>4. \A s \in SUBSET Cpu : \A c \in s :
        Summing(a, Cpu)[s] = a[c] + Summing(a, Cpu)[s \ {c}]
  BY <1>1, SumRemove
<1> QED
  BY <1>2, <1>3, <1>4 DEF Total

LEMMA TotalChange ==
  ASSUME NEW a \in [Cpu -> Nat], NEW b \in [Cpu -> Nat], NEW c \in Cpu,
         \A d \in Cpu \ {c} : b[d] = a[d], b[c] = a[c] + 1, NEW s \in SUBSET Cpu
  PROVE  Total(b, s) = Total(a, s) + (IF c \in s THEN 1 ELSE 0)
<1>1. IsFiniteSet(Cpu) /\ a \in [Cpu -> Int] /\ b \in [Cpu -> Int] /\ b[c] - a[c] = 1
  BY PinnedAssumption DEF PinnedAssumption
<1>2. Total(b, s) = Total(a, s) + (IF c \in s THEN b[c] - a[c] ELSE 0)
  BY <1>1, SumChange DEF Total
<1> QED
  BY <1>1, <1>2

Collecting == reader.pc \in {"first", "next"}

\* NoLostCount: what a CPU has loaded is still in its own record when it stores.
Exact ==
  /\ \A m \in MapId : Total(count[m], Cpu) = counted[m]
  /\ \A m \in MapId : m > maps => counted[m] = 0 /\ \A c \in Cpu : count[m][c] = 0
  /\ \A c \in Cpu : running[c].map # NoMap =>
       running[c].map # reader.array /\ running[c].value = count[running[c].map][c]
  /\ reader.array # NoMap => count[reader.array][Any(Cpu)] = counted[reader.array]
  /\ reader.array = IF reader.lesson = "basic03" THEN reader.map ELSE NoMap

\* What a reading still has to collect brings it to where the map was when it began,
\* or further, and not past where the map is now.
Ahead ==
  /\ Collecting =>
       /\ reader.left # {}
       /\ reader.sum + Total(count[reader.map], reader.left) <= counted[reader.map]
  /\ reader.pc = "next" => reader.prev <= reader.sum + Total(count[reader.map], reader.left)
  /\ ~Collecting => reader.sum = 0
  /\ DiffsHonest

Counts == Typed /\ Exact /\ Ahead

\* Init: nothing is counted.
LEMMA TotalZero == Total([c \in Cpu |-> 0], Cpu) = 0
<1> DEFINE a == [c \in Cpu |-> 0]
           T == {s \in SUBSET Cpu : Total(a, s) = 0}
<1>1. a \in [Cpu -> Nat] /\ IsFiniteSet(Cpu)
  BY PinnedAssumption DEF PinnedAssumption
<1>2. ASSUME NEW s \in SUBSET Cpu, \A x \in s : s \ {x} \in T
      PROVE  s \in T
  <2>1. CASE s = {}
    BY <1>1, <2>1, TotalFact
  <2>2. CASE s # {}
    <3>1. PICK x \in s : TRUE
      BY <2>2
    <3>2. Total(a, s) = a[x] + Total(a, s \ {x}) /\ a[x] = 0 /\ Total(a, s \ {x}) = 0
      BY <1>1, <1>2, <3>1, TotalFact
    <3> QED
      BY <3>2
  <2> QED
    BY <2>1, <2>2
<1>3. GrowsTo(T, Cpu)
  <2> HIDE DEF T
  <2> QED
    BY <1>2 DEF GrowsTo
<1>4. SUBSET Cpu \subseteq T
  <2> HIDE DEF T
  <2> QED
    BY <1>1, <1>3, SetInduction
<1> QED
  BY <1>4

LEMMA CountsInit == Init => Counts
<1> SUFFICES ASSUME Init PROVE Counts
  OBVIOUS
<1>1. PICK lesson \in Readers : reader = Opening(lesson, NoMap)
  BY DEF Init
<1>2. /\ reader.pc = "open" /\ reader.array = NoMap /\ reader.map = NoMap /\ reader.sum = 0
      /\ \A c \in Cpu : running[c].map = NoMap
  BY <1>1 DEF Init, Opening, NotRunning
<1>3. \A m \in MapId : /\ count[m] = [c \in Cpu |-> 0] /\ counted[m] = 0
  BY DEF Init
<1>4. Exact
  BY <1>2, <1>3, TotalZero DEF Exact
<1>5. Ahead
  BY <1>2 DEF Ahead, Collecting, DiffsHonest
<1> QED
  BY <1>4, <1>5, TypedInit DEF Counts

\* A step that counts nothing and is not the reader's keeps it.
LEMMA CountsByLoader ==
  ASSUME Counts, NEW l \in Loader, Start(l) \/ LoaderStep(l)
  PROVE  Counts'
<1>1. UNCHANGED <<kern, reader>> /\ maps' \in {maps, maps + 1}
  BY DEF Start, LoaderStep, GetPinned, Attach, AttachFails, Access, UnpinOld, Pin, Unpin,
         Detach, Loads, world
<1>2. UNCHANGED <<count, running, counted, reader>>
  BY <1>1 DEF kern
<1>3. Typed'
  BY TypedLoader DEF Counts
<1>4. maps \in Nat
  BY BoundsFact DEF Counts, Typed
<1>5. Exact'
  BY <1>1, <1>2, <1>4 DEF Counts, Exact, MapId
<1>6. Ahead'
  BY <1>2 DEF Counts, Ahead, Collecting, DiffsHonest
<1> QED
  BY <1>3, <1>5, <1>6 DEF Counts

\* One more packet, in one record of the map and in counted[map].
LEMMA CountsByPacket ==
  ASSUME Counts, Typed', NEW map \in MapId, map <= maps, NEW d \in Cpu,
         map = reader.array => d = Any(Cpu),
         count' = [count EXCEPT ![map][d] = count[map][d] + 1],
         counted' = [counted EXCEPT ![map] = @ + 1],
         UNCHANGED <<world, loader, reader>>,
         \A c \in Cpu : running'[c].map # NoMap =>
           /\ running[c].map # reader.array /\ running'[c] = running[c]
           /\ running[c].map # map \/ c # d
  PROVE  Counts'
<1>1. /\ count \in [MapId -> [Cpu -> Nat]] /\ counted \in [MapId -> Nat]
      /\ running \in [Cpu -> [map : {NoMap} \union MapId, value : Nat]]
      /\ reader.left \in SUBSET Cpu /\ maps \in Nat
      /\ reader.map \in {NoMap} \union MapId
      /\ reader.sum \in Nat /\ reader.prev \in Nat /\ reader.record \in Nat
  BY BoundsFact DEF Counts, Typed, TypeOK
<1>2. UNCHANGED <<maps, reader>>
  BY DEF world
<1>3. /\ \A m \in MapId : counted'[m] = IF m = map THEN counted[m] + 1 ELSE counted[m]
      /\ \A m \in MapId : \A c \in Cpu :
           count'[m][c] = IF m = map /\ c = d THEN count[m][c] + 1 ELSE count[m][c]
      /\ \A m \in MapId : count'[m] \in [Cpu -> Nat] /\ count[m] \in [Cpu -> Nat]
      /\ \A m \in MapId \ {map} : count'[m] = count[m]
  BY <1>1
<1>4. ASSUME NEW m \in MapId, NEW s \in SUBSET Cpu
      PROVE  /\ Total(count'[m], s)
                  = Total(count[m], s) + (IF m = map /\ d \in s THEN 1 ELSE 0)
             /\ Total(count[m], s) \in Int
  <2>1. CASE m # map
    BY <1>3, <2>1, TotalFact
  <2>2. CASE m = map
    <3>1. \A c \in Cpu \ {d} : count'[m][c] = count[m][c]
      BY <1>3
    <3>2. count'[m][d] = count[m][d] + 1
      BY <1>3, <2>2
    <3>3. Total(count'[m], s) = Total(count[m], s) + (IF d \in s THEN 1 ELSE 0)
      BY <1>3, <3>1, <3>2, TotalChange
    <3> QED
      BY <1>3, <2>2, <3>3, TotalFact
  <2> QED
    BY <2>1, <2>2
<1>5. Exact'
  <2>1. \A m \in MapId : Total(count'[m], Cpu) = counted'[m]
    <3>1. \A m \in MapId : Total(count[m], Cpu) = counted[m] /\ counted[m] \in Nat
      BY <1>1 DEF Counts, Exact
    <3>2. \A m \in MapId : Total(count'[m], Cpu) = Total(count[m], Cpu) + (IF m = map THEN 1 ELSE 0)
      BY <1>4
    <3> QED
      BY <1>3, <3>1, <3>2
  <2>2. \A m \in MapId : m > maps => counted'[m] = 0 /\ \A c \in Cpu : count'[m][c] = 0
    <3> SUFFICES ASSUME NEW m \in MapId, m > maps
                 PROVE  counted'[m] = 0 /\ \A c \in Cpu : count'[m][c] = 0
      OBVIOUS
    <3>1. m # map
      BY <1>1 DEF MapId
    <3> QED
      BY <1>3, <3>1 DEF Counts, Exact
  <2>3. \A c \in Cpu : running'[c].map # NoMap =>
          running'[c].map # reader.array /\ running'[c].value = count'[running'[c].map][c]
    <3> SUFFICES ASSUME NEW c \in Cpu, running'[c].map # NoMap
                 PROVE  running'[c].map # reader.array
                        /\ running'[c].value = count'[running'[c].map][c]
      OBVIOUS
    <3>1. running'[c] = running[c] /\ running[c].map # reader.array
          /\ (running[c].map # map \/ c # d)
      OBVIOUS
    <3>2. running[c].map \in MapId
      BY <1>1, <3>1
    <3>3. count'[running[c].map][c] = count[running[c].map][c]
      BY <1>3, <3>1, <3>2
    <3>4. running[c].value = count[running[c].map][c]
      BY <3>1 DEF Counts, Exact
    <3> QED
      BY <3>1, <3>3, <3>4
  <2>4. reader.array # NoMap => count'[reader.array][Any(Cpu)] = counted'[reader.array]
    <3>1. Any(Cpu) \in Cpu /\ reader.array \in {NoMap} \union MapId
      BY PinnedAssumption, AnyFact DEF PinnedAssumption, Counts, Typed, TypeOK
    <3> QED
      BY <1>1, <1>3, <3>1 DEF Counts, Exact
  <2> QED
    BY <1>2, <2>1, <2>2, <2>3, <2>4 DEF Counts, Exact
<1>6. Ahead'
  <2>1. ASSUME Collecting
        PROVE  /\ reader.sum + Total(count'[reader.map], reader.left) <= counted'[reader.map]
               /\ reader.pc = "next" =>
                    reader.prev <= reader.sum + Total(count'[reader.map], reader.left)
    <3>1. reader.map \in MapId
      BY <1>1, <2>1 DEF Counts, Typed, Collecting
    <3>2. /\ Total(count'[reader.map], reader.left) \in
               {Total(count[reader.map], reader.left), Total(count[reader.map], reader.left) + 1}
          /\ reader.map # map =>
               Total(count'[reader.map], reader.left) = Total(count[reader.map], reader.left)
          /\ Total(count[reader.map], reader.left) \in Int
      <4>1. Total(count'[reader.map], reader.left)
              = Total(count[reader.map], reader.left)
                + (IF reader.map = map /\ d \in reader.left THEN 1 ELSE 0)
        BY <1>1, <1>4, <3>1
      <4>2. Total(count[reader.map], reader.left) \in Int
        BY <1>1, <1>4, <3>1
      <4> QED
        BY <4>1, <4>2
    <3>3. /\ reader.map = map => counted'[reader.map] = counted[reader.map] + 1
          /\ reader.map # map => counted'[reader.map] = counted[reader.map]
          /\ counted[reader.map] \in Nat
      BY <1>1, <1>3, <3>1
    <3>4. /\ reader.sum + Total(count[reader.map], reader.left) <= counted[reader.map]
          /\ reader.pc = "next" =>
               reader.prev <= reader.sum + Total(count[reader.map], reader.left)
      BY <2>1 DEF Counts, Ahead
    <3> QED
      BY <1>1, <3>2, <3>3, <3>4
  <2>2. DiffsHonest'
    <3>1. reader.pc \in {"reopen", "print"} => reader.id \in MapId
      BY <1>1 DEF Counts, Typed
    <3> QED
      BY <1>1, <1>2, <1>3, <3>1 DEF Counts, Ahead, DiffsHonest
  <2>3. reader.pc = "next" => Collecting
    BY DEF Collecting
  <2> QED
    BY <1>2, <2>1, <2>2, <2>3 DEF Counts, Ahead, Collecting
<1> QED
  BY <1>5, <1>6 DEF Counts

LEMMA CountsKern ==
  ASSUME Counts, NEW c \in Cpu, AddAtomically(c) \/ Count(c) \/ Store(c)
  PROVE  Counts'
<1>1. Typed' /\ Typed
  BY TypedKern DEF Counts
<1>2. /\ count \in [MapId -> [Cpu -> Nat]]
      /\ running \in [Cpu -> [map : {NoMap} \union MapId, value : Nat]]
      /\ maps \in Nat /\ \A d \in Cpu : running[d].map \in 0 .. maps
  BY <1>1, BoundsFact DEF Typed, TypeOK
<1>3. CASE AddAtomically(c)
  <2>1. PICK p \in attached :
          /\ Atomic(p.map)
          /\ count' = [count EXCEPT ![p.map][Record(p.map, c)] = @ + 1]
          /\ counted' = [counted EXCEPT ![p.map] = @ + 1]
          /\ UNCHANGED <<world, running, loader, reader>>
    BY <1>3 DEF AddAtomically
  <2> DEFINE d == Record(p.map, c)
  <2>2. p.map \in MapId /\ p.map <= maps /\ p.map = reader.array /\ d \in Cpu /\ d = Any(Cpu)
    BY <1>1, <1>2, <2>1, AttachedFact, RecordFact DEF Atomic, Record, Any
  <2>3. count' = [count EXCEPT ![p.map][d] = count[p.map][d] + 1]
    BY <1>2, <2>1, <2>2
  <2>4. \A e \in Cpu : running'[e].map # NoMap =>
          /\ running[e].map # reader.array /\ running'[e] = running[e]
          /\ running[e].map # p.map \/ e # d
    BY <2>1, <2>2 DEF Counts, Exact
  <2> HIDE DEF d
  <2> QED
    BY <1>1, <2>1, <2>2, <2>3, <2>4, CountsByPacket
<1>4. CASE Count(c)
  <2>1. PICK p \in attached :
          /\ ~Atomic(p.map)
          /\ running' = [running EXCEPT ![c] = [map |-> p.map,
                                                value |-> count[p.map][Record(p.map, c)]]]
          /\ UNCHANGED <<world, count, counted, loader, reader>>
    BY <1>4 DEF Count
  <2>2. p.map \in MapId /\ p.map # reader.array /\ Record(p.map, c) = c
    BY <1>1, <2>1, AttachedFact DEF Atomic, Record
  <2>3. \A d \in Cpu : running'[d].map # NoMap =>
          running'[d].map # reader.array /\ running'[d].value = count[running'[d].map][d]
    BY <1>2, <2>1, <2>2 DEF Counts, Exact
  <2>4. Exact'
    BY <2>1, <2>3 DEF Counts, Exact, world
  <2>5. Ahead'
    BY <2>1 DEF Counts, Ahead, Collecting, DiffsHonest, world
  <2> QED
    BY <1>1, <2>4, <2>5 DEF Counts
<1>5. CASE Store(c)
  <2> DEFINE map == running[c].map
  <2>1. /\ map # NoMap
        /\ count' = [count EXCEPT ![map][Record(map, c)] = running[c].value + 1]
        /\ counted' = [counted EXCEPT ![map] = @ + 1]
        /\ running' = [running EXCEPT ![c] = NotRunning]
        /\ UNCHANGED <<world, loader, reader>>
    BY <1>5 DEF Store
  <2>2. /\ map \in MapId /\ map <= maps /\ map # reader.array
        /\ running[c].value = count[map][c]
    BY <1>2, <2>1 DEF Counts, Exact
  <2>3. count' = [count EXCEPT ![map][c] = count[map][c] + 1]
    BY <2>1, <2>2 DEF Record
  <2>4. \A e \in Cpu : running'[e].map # NoMap =>
          /\ running[e].map # reader.array /\ running'[e] = running[e]
          /\ running[e].map # map \/ e # c
    BY <1>2, <2>1 DEF Counts, Exact, NotRunning
  <2> HIDE DEF map
  <2> QED
    BY <1>1, <2>1, <2>2, <2>3, <2>4, CountsByPacket
<1> QED
  BY <1>3, <1>4, <1>5

\* What a lookup copies: the record of every CPU, or the array's only one.
LEMMA ValuesFact ==
  Values = IF reader.map = reader.array THEN {Any(Cpu)} ELSE Cpu
BY PinnedAssumption DEF PinnedAssumption, Values, Record, Any

LEMMA CountsReader ==
  ASSUME Counts, ReaderStep
  PROVE  Counts'
<1>1. Typed' /\ Typed
  BY TypedReader DEF Counts
<1>2. /\ count \in [MapId -> [Cpu -> Nat]] /\ counted \in [MapId -> Nat]
      /\ reader \in ReaderLocals /\ maps \in Nat
      /\ reader.id \in 0 .. maps /\ reader.map \in {NoMap} \union MapId
  BY <1>1, BoundsFact DEF Typed, TypeOK, ReaderLocals
<1>3. Any(Cpu) \in Cpu
  BY PinnedAssumption, AnyFact DEF PinnedAssumption
\* A reading of all of a map is of what has been counted in it.
<1>4. ASSUME NEW map \in MapId
      PROVE  /\ Total(count[map], Cpu) = counted[map]
             /\ Total(count[map], {Any(Cpu)}) = count[map][Any(Cpu)]
  <2> DEFINE only == {Any(Cpu)}
             rest == only \ {Any(Cpu)}
  <2>1. /\ count[map] \in [Cpu -> Nat] /\ count[map][Any(Cpu)] \in Nat
        /\ only \in SUBSET Cpu /\ Any(Cpu) \in only
    BY <1>2, <1>3
  <2>2. rest = {}
    OBVIOUS
  <2> HIDE DEF only
  <2>3. /\ Total(count[map], {}) = 0
        /\ Total(count[map], only) = count[map][Any(Cpu)] + Total(count[map], rest)
    BY <2>1, TotalFact
  <2> HIDE DEF rest
  <2>4. Total(count[map], only) = count[map][Any(Cpu)]
    BY <2>1, <2>2, <2>3
  <2> QED
    BY <2>4 DEF Counts, Exact, only
\* What remains to be shown.
<1>5. ASSUME UNCHANGED kern, maps <= maps', maps' \in Nat,
             reader'.array = IF reader'.lesson = "basic03" THEN reader'.map ELSE NoMap,
             reader'.array # NoMap =>
               \/ reader'.array = reader.array
               \/ reader'.array \in MapId /\ reader'.array > maps,
             Ahead'
      PROVE  Counts'
  <2>1. UNCHANGED <<count, counted, running>>
    BY <1>5 DEF kern
  <2>2. \A m \in MapId : m > maps' => m > maps
    BY <1>2, <1>5 DEF MapId
  <2>3. \A c \in Cpu : running[c].map # NoMap => running[c].map # reader'.array
    BY <1>1, <1>2, <1>5 DEF Counts, Exact, Typed
  <2>4. reader'.array # NoMap => count[reader'.array][Any(Cpu)] = counted[reader'.array]
    BY <1>3, <1>5 DEF Counts, Exact
  <2>5. Exact'
    BY <1>5, <2>1, <2>2, <2>3, <2>4 DEF Counts, Exact
  <2> QED
    BY <1>1, <1>5, <2>5 DEF Counts
<1>6. CASE LoadAndAttach
  <2>1. PICK found \in BOOLEAN :
          /\ programs < MaxPrograms /\ maps' = maps + 1 /\ UNCHANGED kern
          /\ reader.pc = "open" /\ reader.lesson = "basic03"
          /\ reader' = [reader EXCEPT !.pc = IF found THEN "first" ELSE "failed",
                                      !.map = maps + 1, !.id = maps + 1, !.array = maps + 1,
                                      !.left = {CHOOSE d \in Cpu : TRUE}]
    BY <1>6 DEF LoadAndAttach
  <2>2. maps + 1 \in MapId
    BY <1>1, <2>1, BoundsFact DEF Typed, MapId
  <2>3. /\ reader'.pc \in {"first", "failed"} /\ reader'.map = maps + 1 /\ reader'.id = maps + 1
        /\ reader'.array = maps + 1 /\ reader'.left = {Any(Cpu)}
        /\ reader'.lesson = "basic03" /\ reader'.sum = reader.sum
    BY <1>2, <2>1 DEF ReaderLocals, Any
  <2>4. reader.sum = 0
    BY <2>1 DEF Counts, Ahead, Collecting
  <2>5. count[maps + 1][Any(Cpu)] = 0 /\ counted[maps + 1] = 0
    BY <1>2, <1>3, <2>2 DEF Counts, Exact
  <2>6. Total(count[maps + 1], {Any(Cpu)}) = 0
    BY <1>4, <2>2, <2>5
  <2>7. Ahead'
    BY <2>1, <2>3, <2>4, <2>5, <2>6 DEF Ahead, Collecting, DiffsHonest, kern
  <2>8. maps <= maps' /\ maps' \in Nat /\ reader'.array \in MapId /\ reader'.array > maps
    BY <1>2, <2>1, <2>2, <2>3
  <2> QED
    BY <1>5, <2>1, <2>3, <2>7, <2>8
<1>7. CASE LoadFails \/ PrintStats
  <2>1. /\ UNCHANGED <<world, kern>> /\ ~Collecting /\ ~Collecting'
        /\ reader'.sum = reader.sum /\ reader'.record = reader.record /\ reader'.id = reader.id
        /\ reader'.array = reader.array /\ reader'.lesson = reader.lesson
        /\ reader'.map = reader.map /\ reader'.pc \in {"failed", "reopen"}
        /\ reader'.pc = "reopen" => reader.pc = "print"
    BY <1>2, <1>7 DEF LoadFails, PrintStats, Reads, ReaderLocals, Collecting
  <2>2. Ahead'
    BY <2>1 DEF Counts, Ahead, Collecting, DiffsHonest, kern
  <2> QED
    BY <1>2, <1>5, <2>1, <2>2 DEF Counts, Exact, world
<1>8. ASSUME UNCHANGED <<world, kern>>, reader'.array = reader.array,
             reader'.lesson = reader.lesson, ~Collecting, Collecting', reader'.sum = reader.sum,
             reader'.map \in MapId,
             reader'.left = (IF reader.array # NoMap THEN {Any(Cpu)} ELSE Cpu),
             reader'.array = NoMap \/ (reader'.array = reader'.map /\ reader.lesson = "basic03"),
             reader.lesson = "basic03" => reader'.array # NoMap,
             reader'.pc = "next" => reader'.prev <= counted[reader'.map]
      PROVE  Counts'
  <2>1. reader.sum = 0
    BY <1>8 DEF Counts, Ahead
  <2>2. Total(count[reader'.map], reader'.left) = counted[reader'.map] /\ reader'.left # {}
    BY <1>3, <1>4, <1>8 DEF Counts, Exact
  <2>3. UNCHANGED <<count, counted>> /\ counted[reader'.map] \in Nat
    BY <1>2, <1>8 DEF kern
  <2>4. DiffsHonest'
    BY <1>8 DEF DiffsHonest, Collecting
  <2>5. Ahead'
    BY <1>8, <2>1, <2>2, <2>3, <2>4 DEF Ahead
  <2> QED
    BY <1>2, <1>5, <1>8, <2>5 DEF world
<1>9. CASE Open
  <2> DEFINE first == [reader EXCEPT !.pc = "first", !.map = pin, !.id = pin, !.left = Cpu]
  <2>1. CASE reader' # first
    <3>1. /\ UNCHANGED <<world, kern>> /\ reader.pc = "open" /\ reader.lesson # "basic03"
          /\ reader' \in {[reader EXCEPT !.pc = "exited"], [reader EXCEPT !.pc = "failed"]}
      BY <1>9, <2>1 DEF Open, Reads
    <3>2. /\ ~Collecting /\ ~Collecting' /\ reader'.pc \in {"exited", "failed"}
          /\ reader'.sum = reader.sum /\ reader'.array = reader.array
          /\ reader'.lesson = reader.lesson
      BY <1>2, <3>1 DEF ReaderLocals, Collecting
    <3>3. Ahead' /\ reader'.array = NoMap
      BY <3>1, <3>2 DEF Counts, Exact, Ahead, Collecting, DiffsHonest
    <3> QED
      BY <1>2, <1>5, <3>1, <3>2, <3>3 DEF world
  <2>2. CASE reader' = first
    <3>1. /\ UNCHANGED <<world, kern>> /\ reader.pc = "open" /\ reader.lesson # "basic03"
          /\ reader' = first /\ pin # NoMap
      <4>1. reader'.pc = "first"
        BY <1>2, <2>2 DEF ReaderLocals
      <4>2. reader' # [reader EXCEPT !.pc = "exited"]
        BY <1>2, <4>1 DEF ReaderLocals
      <4> QED
        BY <1>9, <2>2, <4>2 DEF Open, Reads
    <3>2. /\ reader'.pc = "first" /\ reader'.map = pin /\ reader'.left = Cpu
          /\ reader'.sum = reader.sum /\ reader'.array = reader.array
          /\ reader'.lesson = reader.lesson /\ ~Collecting /\ Collecting'
      BY <1>2, <3>1 DEF ReaderLocals, Collecting
    <3>3. pin \in MapId /\ reader.array = NoMap
      BY <1>1, <2>2, <3>1 DEF Typed, TypeOK, Counts, Exact
    <3> QED
      BY <1>8, <3>1, <3>2, <3>3
  <2> QED
    BY <2>1, <2>2
<1>10. CASE ReadAgain
  <2>1. /\ UNCHANGED <<world, kern>> /\ reader.lesson # "solution" /\ reader.pc = "reopen"
        /\ reader' = [reader EXCEPT !.pc = "next", !.left = Values, !.prev = reader.record]
    BY <1>10 DEF ReadAgain, Reads
  <2>2. /\ reader'.pc = "next" /\ reader'.map = reader.map /\ reader'.left = Values
        /\ reader'.sum = reader.sum /\ reader'.array = reader.array
        /\ reader'.prev = reader.record
        /\ reader'.lesson = reader.lesson /\ ~Collecting /\ Collecting'
    BY <1>2, <2>1 DEF ReaderLocals, Collecting
  <2>3. /\ reader.map \in MapId /\ reader.id = reader.map
        /\ reader.array = IF reader.lesson = "basic03" THEN reader.map ELSE NoMap
        /\ reader.record <= counted[reader.id]
    BY <1>1, <1>2, <2>1 DEF Typed, Counts, Exact, Ahead, DiffsHonest
  <2>4. NoMap \notin MapId
    BY DEF NoMap, MapId
  <2> QED
    BY <1>8, <2>1, <2>2, <2>3, <2>4, ValuesFact
<1>11. CASE Reopen
  <2>1. CASE reader' = Opening("solution", reader.id)
    <3>1. UNCHANGED <<world, kern>>
      BY <1>11, <2>1 DEF Reopen, Reads
    <3>2. /\ reader'.pc = "open" /\ reader'.sum = 0 /\ reader'.array = NoMap
          /\ ~Collecting' /\ reader'.lesson = "solution"
      BY <2>1 DEF Opening, Collecting
    <3>3. Ahead'
      BY <3>2 DEF Ahead, Collecting, DiffsHonest
    <3> QED
      BY <1>2, <1>5, <3>1, <3>2, <3>3 DEF world
  <2>2. CASE reader' # Opening("solution", reader.id)
    <3>1. /\ UNCHANGED <<world, kern>> /\ reader.lesson = "solution" /\ reader.pc = "reopen"
          /\ pin = reader.id
          /\ reader' = [reader EXCEPT !.pc = "next", !.map = pin, !.left = Cpu,
                                      !.prev = reader.record]
      BY <1>11, <2>2 DEF Reopen, Reads
    <3>2. /\ reader'.pc = "next" /\ reader'.map = reader.id /\ reader'.left = Cpu
          /\ reader'.sum = reader.sum /\ reader'.array = reader.array
          /\ reader'.prev = reader.record
          /\ reader'.lesson = reader.lesson /\ ~Collecting /\ Collecting'
      BY <1>2, <3>1 DEF ReaderLocals, Collecting
    <3>3. /\ reader.id \in MapId /\ reader.array = NoMap /\ reader.record <= counted[reader.id]
      BY <1>1, <1>2, <3>1 DEF Typed, Counts, Exact, Ahead, DiffsHonest
    <3> QED
      BY <1>8, <3>1, <3>2, <3>3
  <2> QED
    BY <2>1, <2>2
<1>12. CASE Collect
  <2>1. PICK from \in {"first", "next"}, c \in reader.left :
          LET sum == reader.sum + count[reader.map][c] IN
          /\ Reads(from)
          /\ reader' = IF reader.left = {c}
                       THEN [reader EXCEPT !.left = {}, !.sum = 0, !.record = sum,
                                           !.pc = IF from = "first" THEN "reopen" ELSE "print"]
                       ELSE [reader EXCEPT !.left = @ \ {c}, !.sum = sum]
    BY <1>12 DEF Collect
  <2> DEFINE sum == reader.sum + count[reader.map][c]
  <2>2. reader.pc = from /\ UNCHANGED <<world, kern>>
    BY <2>1 DEF Reads
  <2>3. /\ reader.map \in MapId /\ reader.id = reader.map /\ reader.left \in SUBSET Cpu
        /\ reader.sum \in Nat /\ count[reader.map] \in [Cpu -> Nat] /\ c \in Cpu
        /\ reader.prev \in Nat /\ count[reader.map][c] \in Nat
        /\ counted[reader.map] \in Nat
    BY <1>1, <1>2, <2>1, <2>2 DEF Typed, ReaderLocals
  <2>4. /\ Total(count[reader.map], reader.left)
             = count[reader.map][c] + Total(count[reader.map], reader.left \ {c})
        /\ Total(count[reader.map], {}) = 0
        /\ Total(count[reader.map], reader.left \ {c}) \in Int
    <3>1. reader.left \ {c} \in SUBSET Cpu
      BY <2>3
    <3> QED
      BY <2>1, <2>3, <3>1, TotalFact
  <2>5. /\ sum + Total(count[reader.map], reader.left \ {c}) <= counted[reader.map]
        /\ reader.pc = "next" =>
             reader.prev <= sum + Total(count[reader.map], reader.left \ {c})
    <3>1. /\ reader.sum + Total(count[reader.map], reader.left) <= counted[reader.map]
          /\ reader.pc = "next" =>
               reader.prev <= reader.sum + Total(count[reader.map], reader.left)
      BY <2>1, <2>2 DEF Counts, Ahead, Collecting
    <3> QED
      BY <2>3, <2>4, <3>1
  <2>6. UNCHANGED <<count, counted>>
    BY <2>2 DEF kern
  <2>7. sum \in Nat
    BY <2>3
  <2> HIDE DEF sum
  <2>8. CASE reader.left = {c}
    <3>1. reader' = [reader EXCEPT !.left = {}, !.sum = 0, !.record = sum,
                                  !.pc = IF from = "first" THEN "reopen" ELSE "print"]
      BY <2>1, <2>8 DEF sum
    <3>2. /\ reader'.sum = 0 /\ reader'.record = sum /\ reader'.id = reader.id
          /\ reader'.array = reader.array /\ reader'.map = reader.map
          /\ reader'.lesson = reader.lesson /\ reader'.prev = reader.prev
          /\ reader'.pc = IF from = "first" THEN "reopen" ELSE "print"
      BY <1>2, <3>1 DEF ReaderLocals
    <3>3. ~Collecting'
      BY <3>2 DEF Collecting
    <3>4. reader.left \ {c} = {}
      BY <2>8
    <3>5. sum <= counted[reader.map] /\ (reader.pc = "next" => reader.prev <= sum)
      BY <2>3, <2>4, <2>5, <2>7, <3>4
    <3>6. Ahead'
      BY <2>1, <2>2, <2>3, <2>6, <3>2, <3>3, <3>5 DEF Ahead, DiffsHonest, Collecting
    <3> QED
      BY <1>2, <1>5, <2>2, <3>2, <3>3, <3>6 DEF Counts, Exact, world
  <2>9. CASE reader.left # {c}
    <3>1. reader' = [reader EXCEPT !.left = @ \ {c}, !.sum = sum]
      BY <2>1, <2>9 DEF sum
    <3>2. /\ reader'.sum = sum /\ reader'.id = reader.id /\ reader'.left = reader.left \ {c}
          /\ reader'.array = reader.array /\ reader'.map = reader.map
          /\ reader'.lesson = reader.lesson /\ reader'.prev = reader.prev
          /\ reader'.pc = reader.pc
      BY <1>2, <3>1 DEF ReaderLocals
    <3>3. Collecting' /\ reader.left \ {c} # {}
      BY <2>1, <2>2, <2>9, <3>2 DEF  Collecting
    <3>4. DiffsHonest'
      BY <2>1, <2>2, <3>2 DEF DiffsHonest
    <3>5. Ahead'
      BY <2>5, <2>6, <3>2, <3>3, <3>4 DEF Ahead
    <3> QED
      BY <1>2, <1>5, <2>2, <3>2, <3>3, <3>5 DEF Counts, Exact, world
  <2> QED
    BY <2>8, <2>9
<1> QED
  BY <1>6, <1>7, <1>9, <1>10, <1>11, <1>12 DEF ReaderStep

LEMMA CountsStep == Counts /\ [Next]_vars => Counts'
<1>1. ASSUME Counts, UNCHANGED vars PROVE Counts'
  <2>1. Typed'
    BY <1>1, TypedStep DEF Counts
  <2>2. Exact' /\ Ahead'
    BY <1>1 DEF Counts, Exact, Ahead, Collecting, DiffsHonest, vars, world, kern
  <2> QED
    BY <2>1, <2>2 DEF Counts
<1>2. ASSUME Counts, Next PROVE Counts'
  BY <1>2, CountsByLoader, CountsKern, CountsReader DEF Next
<1> QED
  BY <1>1, <1>2

\* No packet is lost from any map, although several programs count in it at once and
\* every CPU's load and store are two steps: each CPU has a record of its own, and
\* basic03's shared one is added to atomically.
THEOREM NoLostCountTheorem == Spec => []NoLostCount
<1>1. Counts => NoLostCount
  <2> SUFFICES ASSUME Counts, NEW m \in MapId
               PROVE  MapThenSumSet(LAMBDA c : count[m][c], Cpu) = counted[m]
    BY DEF NoLostCount
  <2>1. MapThenSumSet(LAMBDA c : count[m][c], Cpu) = Summing(count[m], Cpu)[Cpu]
    BY Expand
  <2> QED
    BY <2>1 DEF Counts, Exact, Total
<1> QED
  BY <1>1, CountsInit, CountsStep, PTL DEF Spec

\* Every difference that a reader prints is between two readings of one map, the later
\* not smaller, and no reading is ahead of its map, although packets are counted while
\* the values are added up and other commands replace the pinned map.
THEOREM DiffsHonestTheorem == Spec => []DiffsHonest
<1>1. Counts => DiffsHonest
  BY DEF Counts, Ahead
<1> QED
  BY <1>1, CountsInit, CountsStep, PTL DEF Spec
=============================================================================
