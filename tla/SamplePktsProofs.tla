--------------------------- MODULE SamplePktsProofs ---------------------------
(***************************************************************************)
(* For any number of runs, signals, options, CPUs and packets, and rings   *)
(* of any size: which runs of xdp_sample_pkts can leave their program on   *)
(* the interface (CleanRuns), that every variable keeps its type (TypeOK), *)
(* and that the samples reach the file without loss, repetition or hole    *)
(* (SamplesKept).                                                          *)
(***************************************************************************)
EXTENDS SamplePkts, SequenceTheorems, FiniteSetTheorems, TLAPS

\* A run that has not attached its program yet, or whose handler has called the detach.
Detached ==
  \/ pc = "options"
  \/ handler \in {"free", "close", "exit"}

\* CleanRuns is not inductive: the outcome of this run may become any other than
\* "left" only where its program is not on the interface, or could not be taken off it.
Inv ==
  /\ run \in 0 .. MaxRuns
  /\ attached \subseteq 1 .. run /\ undetached \subseteq attached
  /\ outcome \in [1 .. MaxRuns -> Outcome]
  /\ ignored \subseteq Signal
  /\ CleanRuns
  /\ pc # "ended" => run > 0 /\ outcome[run] = "runs"
  /\ pc # "ended" /\ Detached => run \notin attached \ undetached
  /\ pc = "options" => handled = {} /\ handler = "none"

\* The order of the handler's calls.
LEMMA CallsFact ==
  ASSUME NEW call, NEW i \in 1 .. Len(Calls) - 1, Calls[i] = call
  PROVE  call \in {"detach", "free", "close"} /\ Calls[i + 1] \in {"free", "close", "exit"}
<1>1. Calls[1] = "detach" /\ Calls[2] = "free" /\ Calls[3] = "close" /\ Calls[4] = "exit"
  BY DEF Calls
<1>2. Len(Calls) = 4
  BY DEF Calls
<1>3. i = 1 \/ i = 2 \/ i = 3
  BY <1>2
<1> QED
  BY <1>1, <1>3

\* What the process does when it ends: this run has an outcome, and its program is as
\* it was.
LEMMA EndsFact ==
  ASSUME Inv, pc # "ended", NEW how \in Outcome, Ends(how),
         UNCHANGED <<attached, undetached>> \/ Detach,
         how \in {"runs", "left"} \/ run \notin attached' \ undetached'
  PROVE  Inv'
<1>1. /\ run' = run /\ pc' = "ended" /\ outcome' = [outcome EXCEPT ![run] = how]
      /\ ignored' = ignored
  BY DEF Ends
<1>2. /\ attached' \subseteq attached /\ attached' \ undetached' \subseteq attached \ undetached
      /\ undetached' \subseteq attached'
  BY DEF Detach, Inv
<1>3. CleanRuns'
  <2> SUFFICES ASSUME NEW r \in attached' \ undetached' PROVE outcome'[r] \in {"runs", "left"}
    BY DEF CleanRuns
  <2>1. r \in attached \ undetached /\ run \in Nat /\ run <= MaxRuns /\ MaxRuns \in Nat
    BY <1>2, SampleAssumption DEF Inv, SampleAssumption
  <2>2. r \in 1 .. MaxRuns /\ outcome[r] \in {"runs", "left"}
    BY <2>1 DEF Inv, CleanRuns
  <2> QED
    BY <1>1, <2>2 DEF Inv
<1>4. outcome' \in [1 .. MaxRuns -> Outcome]
  BY <1>1 DEF Inv
<1> QED
  BY <1>1, <1>2, <1>3, <1>4 DEF Inv, Detached

\* A step of main() that goes on and leaves the interface and the handlers alone.
LEMMA GoesFact ==
  ASSUME Inv, NEW from, NEW to, Goes(from, to), to # "options" \/ from = "options",
         from # "ended", to # "ended", UNCHANGED <<attached, undetached, handled, handler>>
  PROVE  Inv'
BY DEF Goes, At, Inv, Detached, CleanRuns

-----------------------------------------------------------------------------

LEMMA InvInit == Init => Inv
BY SampleAssumption DEF Init, Inv, CleanRuns, Outcome, SampleAssumption

\* Each action of main() keeps the invariant.
LEMMA MainStep == Inv /\ (Main \/ PollFails) => Inv'
<1> SUFFICES ASSUME Inv, Main \/ PollFails PROVE Inv'
  OBVIOUS
<1> USE DEF interface, caught, perf, pcap, Outcome
<1>1. CASE ParseOption
  <2>1. PICK option \in Options : Goes("options", "options") /\ UNCHANGED <<interface, caught>>
    BY <1>1 DEF ParseOption
  <2> QED
    BY <2>1, GoesFact
<1>2. CASE ParseFails
  <2>1. PICK how \in {"usage", "crashed"} : Returns("options", how)
    BY <1>2 DEF ParseFails
  <2> QED
    BY <2>1, EndsFact DEF Returns, At, Inv, Detached
<1>3. CASE NotAttached
  <2>1. PICK how \in {"usage", "failed"} : Returns("options", how)
    BY <1>3 DEF NotAttached
  <2> QED
    BY <2>1, EndsFact DEF Returns, At, Inv, Detached
<1>4. CASE Attach
  <2>1. /\ pc = "options" /\ pc' = "find_map" /\ UNCHANGED <<undetached, run, outcome, ignored, handled, handler>>
        /\ attached' = attached \union {run}
    BY <1>4 DEF Attach, Goes, At
  <2> QED
    BY <2>1 DEF Inv, Detached, CleanRuns
<1>5. CASE NextMap
  BY <1>5, GoesFact DEF NextMap
<1>6. CASE InstallHandler
  <2>1. PICK sig \in Signal, to \in {"SIGHUP", "SIGTERM", "perf_buffer"} :
          Goes(sig, to) /\ UNCHANGED <<attached, undetached, handler>>
    BY <1>6 DEF InstallHandler, Signal
  <2> QED
    BY <2>1 DEF Goes, At, Inv, Detached, CleanRuns, Signal
<1>7. CASE NewPerfBuffer
  BY <1>7, GoesFact DEF NewPerfBuffer
<1>8. CASE FailsAttached \/ PollFails
  <2>1. PICK from : Returns(from, "left") /\ from # "ended"
    <3>1. CASE PollFails
      BY <3>1 DEF PollFails
    <3>2. CASE FailsAttached
      BY <3>2 DEF FailsAttached, Returns, At, Inv, Signal
    <3> QED
      BY <1>8, <3>1, <3>2
  <2> QED
    BY <2>1, EndsFact DEF Returns, At
<1>9. CASE OpenDead
  BY <1>9, GoesFact DEF OpenDead
<1>10. CASE DumpOpen
  BY <1>10, GoesFact DEF DumpOpen
<1>11. CASE PcapFails
  <2>1. PICK from \in {"open_dead", "dump_open"} : Goes(from, "out") /\ UNCHANGED <<interface, caught>>
    BY <1>11 DEF PcapFails
  <2> QED
    BY <2>1, GoesFact
<1>12. CASE Out
  <2>1. run \notin attached' \ undetached'
    BY <1>12 DEF Out, Detach
  <2> QED
    BY <1>12, <2>1, EndsFact DEF Out, At
<1>13. CASE \E c \in Cpu : Poll(c)
  <2>1. Goes("poll", "dump") /\ UNCHANGED <<interface, caught>>
    BY <1>13 DEF Poll
  <2> QED
    BY <2>1, GoesFact
<1>14. CASE PcapDump
  BY <1>14, GoesFact DEF PcapDump
<1>15. CASE CountSample
  BY <1>15, GoesFact DEF CountSample
<1> QED
  BY <1>1, <1>2, <1>3, <1>4, <1>5, <1>6, <1>7, <1>8, <1>9, <1>10, <1>11, <1>12, <1>13,
     <1>14, <1>15 DEF Main

\* Each call of the handler keeps it, whatever it has interrupted.
LEMMA HandlerStep == Inv /\ Handler => Inv'
<1> SUFFICES ASSUME Inv, Handler PROVE Inv'
  OBVIOUS
<1> USE DEF interface, caught, perf, pcap, command, Outcome
<1>1. ASSUME NEW call, Handles(call)
      PROVE  /\ pc # "ended" /\ handler = call /\ call \in {"detach", "free", "close"}
             /\ handler' \in {"free", "close", "exit"}
             /\ UNCHANGED <<run, outcome, ignored, pc, handled>>
  BY <1>1, CallsFact DEF Handles
<1>2. CASE HandlerDetach
  <2>1. /\ pc # "ended" /\ handler = "detach" /\ handler' \in {"free", "close", "exit"}
        /\ UNCHANGED <<run, outcome, ignored, pc, handled>>
    BY <1>1, <1>2 DEF HandlerDetach
  <2>2. /\ attached' \subseteq attached /\ undetached' \subseteq attached'
        /\ attached' \ undetached' \subseteq (attached \ undetached) \ {run}
    BY <1>2 DEF HandlerDetach, Detach, Inv
  <2> QED
    BY <2>1, <2>2 DEF Inv, Detached, CleanRuns
<1>3. CASE HandlerFree \/ HandlerClose
  <2>1. PICK call \in {"free", "close"} : Handles(call) /\ UNCHANGED <<attached, undetached>>
    BY <1>3 DEF HandlerFree, HandlerClose
  <2>2. /\ pc # "ended" /\ handler = call /\ handler' \in {"free", "close", "exit"}
        /\ UNCHANGED <<run, outcome, ignored, pc, handled, attached, undetached>>
    BY <1>1, <2>1
  <2> QED
    BY <2>2 DEF Inv, Detached, CleanRuns
<1>4. CASE HandlerHangs
  BY <1>4, EndsFact DEF HandlerHangs
<1>5. CASE FreeCrashes
  BY <1>5, EndsFact DEF FreeCrashes, Inv, Detached
<1>6. CASE CloseCrashes
  BY <1>6, EndsFact DEF CloseCrashes, Inv, Detached
<1>7. CASE HandlerExits
  BY <1>7, EndsFact DEF HandlerExits, Inv, Detached
<1> QED
  BY <1>2, <1>3, <1>4, <1>5, <1>6, <1>7 DEF Handler

\* Every step keeps the invariant.
LEMMA InvStep == Inv /\ [Next]_vars => Inv'
<1> SUFFICES ASSUME Inv, [Next]_vars PROVE Inv'
  OBVIOUS
<1> USE DEF interface, caught, perf, pcap, command, Outcome
<1>1. CASE Start
  <2>1. /\ pc = "ended" /\ run < MaxRuns /\ run' = run + 1
        /\ outcome' = [outcome EXCEPT ![run + 1] = "runs"]
        /\ ignored' \subseteq Signal
        /\ pc' = "options" /\ handled' = {} /\ handler' = "none" /\ UNCHANGED <<attached, undetached>>
    BY <1>1 DEF Start, Signal
  <2>2. run \in Nat /\ MaxRuns \in Nat /\ run + 1 \in 1 .. MaxRuns /\ run + 1 \notin attached
    BY <2>1, SampleAssumption DEF Inv, SampleAssumption
  <2>3. CleanRuns'
    BY <2>1, <2>2 DEF Inv, CleanRuns
  <2> QED
    BY <2>1, <2>2, <2>3 DEF Inv, Detached
<1>2. CASE Main \/ PollFails
  BY <1>2, MainStep
<1>3. CASE Kill
  <2>1. pc # "ended" /\ Ends("left") /\ UNCHANGED <<attached, undetached>>
    BY <1>3 DEF Kill, Sends
  <2> QED
    BY <2>1, EndsFact
<1>4. CASE Deliver
  <2>1. /\ handled # {} /\ pc # "ended" /\ handler' = "detach"
        /\ UNCHANGED <<attached, undetached, run, outcome, ignored, pc, handled>>
    BY <1>4 DEF Deliver, Sends, Calls
  <2> QED
    BY <2>1 DEF Inv, Detached, CleanRuns
<1>5. CASE Handler
  BY <1>5, HandlerStep
<1>6. CASE \E c \in Cpu : Packet(c)
  BY <1>6 DEF Packet, Inv, Detached, CleanRuns
<1>7. CASE UNCHANGED vars
  BY <1>7 DEF vars, Inv, Detached, CleanRuns
<1> QED
  BY <1>1, <1>2, <1>3, <1>4, <1>5, <1>6, <1>7 DEF Next

\* A program that stays on the interface is of a run that still runs, that ended
\* without its handler or the exit that detaches, or whose detach has failed, for every
\* number of runs, options, signals and CPUs: nothing else that the handler, or a second
\* one inside it, does after its first call can leave the program there.
THEOREM CleanRunsTheorem == Spec => []CleanRuns
<1>1. Inv => CleanRuns
  BY DEF Inv
<1> QED
  BY <1>1, InvInit, InvStep, PTL DEF Spec

-----------------------------------------------------------------------------
(* TypeOK and SamplesKept.                                                 *)

\* Before print_bpf_output() is called for the first time, and from then on.
Early == Signal \union {"options", "find_map", "perf_buffer"}
Dumping == {"poll", "dump", "count"}
Calling == Early \union Dumping \union {"ended", "open_dead", "dump_open", "out"}

Typed ==
  /\ cfg \in Config /\ options \in 0 .. MaxOptions
  /\ handled \subseteq Signal /\ signals \subseteq Signal
  /\ pc \in Calling
  /\ handler \in {"none", "detach", "free", "close", "exit"}
  /\ pb \in {"none", "new", "gone"} /\ pdumper \in {"none", "new", "gone"}

\* What pb and pdumper are at each step of main() and of the handler.
Descriptors ==
  /\ pc = "ended" => pb = "none"
  /\ pc \in Early => pb = "none"
  /\ pc \in {"open_dead", "dump_open"} /\ handler = "none" => pb = "new"
  /\ pc \notin Dumping \union {"ended"} => pdumper = "none" /\ pcap_pkts = 0
  /\ pc \in Dumping /\ handler = "none" => pdumper = "new" /\ pb = "new"
  /\ handler \in {"close", "exit"} => pb # "new"
  /\ handler = "exit" => pdumper = "gone"
  /\ pdumper = "gone" => pb # "new"

Control == Inv /\ Typed /\ Descriptors

\* The samples in the rings, and the one that is not counted yet: what the rings have
\* taken of the packets.
Waiting == {w \in Cpu \X (1 .. RingSize) : w[2] <= Len(ring[w[1]])}
Pending == IF pc \in {"dump", "count"} THEN 1 ELSE 0

Rings ==
  /\ ring \in [Cpu -> Seq(Cpu \X Nat)]
  /\ \A c \in Cpu : Len(ring[c]) <= RingSize
  /\ accepted \in [Cpu -> Nat]
  /\ \A c \in Cpu : accepted[c] <= packets
  /\ packets \in 0 .. MaxPackets /\ pcap_pkts \in Nat
  /\ IsFiniteSet(Waiting)
  /\ pcap_pkts + Pending + Cardinality(Waiting) <= packets
  /\ pb # "new" => ring = EmptyRings
  /\ pb = "none" /\ pc # "ended" => accepted = [c \in Cpu |-> 0]

\* How many samples of a CPU have left its ring for the file.
Given(c) == IF pdumper = "new" THEN Stored(c) + InHand(c) ELSE 0

\* SamplesKept is not inductive: before the file is opened, and with a sample in hand,
\* the rings must hold what comes next.
Files ==
  /\ file \in Seq(Cpu \X Nat)
  /\ \A i \in DOMAIN file : file[i] = <<file[i][1], Place(i)>>
  /\ pb = "new" =>
       \A c \in Cpu :
         /\ accepted[c] = Given(c) + Len(ring[c])
         /\ \A i \in DOMAIN ring[c] : ring[c][i] = <<c, Given(c) + i>>
  /\ pc = "dump" /\ pdumper = "new" =>
       sample \in Cpu \X Nat /\ sample = <<sample[1], Stored(sample[1]) + 1>>
  /\ pc \in Dumping => Len(file) = pcap_pkts + (IF pc = "count" THEN 1 ELSE 0)
  /\ run > 0 /\ outcome[run] = "done" => Len(file) - pcap_pkts \in {0, 1}

-----------------------------------------------------------------------------
(* The control part.                                                       *)

LEMMA ParsedFact ==
  ASSUME cfg \in Config, NEW option \in Option
  PROVE  Applied(cfg, option) \in Config
<1> DEFINE given == IF option \in Member \union Device THEN cfg.given \union {option}
                    ELSE IF option = "abbreviated" THEN cfg.given \union {"ifindex"}
                    ELSE cfg.given
           mode == IF option \in DOMAIN ModeOption THEN ModeOption[option]
                   ELSE cfg.attach_mode
           bind == CASE option \in {"skb", "copy"} ->
                          (cfg.bind \ {"zero_copy"}) \union {"copy"}
                     [] option = "zero_copy" -> (cfg.bind \ {"copy"}) \union {"zero_copy"}
                     [] OTHER -> cfg.bind
<1>1. Applied(cfg, option) =
        [cfg EXCEPT !.given = given, !.attach_mode = mode, !.bind = bind]
  BY DEF Applied
<1>2. \A m \in DOMAIN ModeOption : ModeOption[m] \in Mode
  BY DEF ModeOption, Mode
<1>3. given \in SUBSET (Member \union Device)
  BY DEF Config, Device
<1>4. mode \in Mode
  BY <1>2 DEF Config
<1>5. bind \in SUBSET {"copy", "zero_copy"}
  BY DEF Config
<1> HIDE DEF given, mode, bind
<1> QED
  BY <1>1, <1>3, <1>4, <1>5 DEF Config

LEMMA ControlInit == Init => Control
BY InvInit, SampleAssumption
   DEF Init, Control, Typed, Descriptors, Calling, Early, Dumping, Signal, Config, NoOptions,
       Mode, Option, SampleAssumption

\* Whatever ends the process.
LEMMA EndsControl ==
  ASSUME Typed, NEW how, Ends(how), UNCHANGED <<handled, signals, pdumper>>,
         handler' = handler, Descriptors
  PROVE  Typed' /\ Descriptors'
BY DEF Typed, Descriptors, Ends, Calling, Early, Dumping, Signal

\* An action of main() goes on to another step, or is among the exits.
LEMMA MainControl ==
  ASSUME Control, Main \/ PollFails
  PROVE  Typed' /\ Descriptors'
<1> USE DEF interface, caught, perf, pcap, Control, Calling, Early, Dumping, Signal
<1>1. CASE ParseOption
  <2>1. PICK option \in Options \ Refused :
          /\ Goes("options", "options") /\ options < MaxOptions
          /\ options' = options + 1 /\ cfg' = Applied(cfg, option)
          /\ UNCHANGED <<interface, caught, perf, pcap>>
    BY <1>1 DEF ParseOption
  <2>2. cfg' \in Config
    BY <2>1, ParsedFact, SampleAssumption DEF Typed, SampleAssumption
  <2>3. options' \in 0 .. MaxOptions
    BY <2>1, SampleAssumption DEF Typed, SampleAssumption
  <2> QED
    BY <2>1, <2>2, <2>3 DEF Goes, At, Typed, Descriptors
<1>2. CASE ParseFails \/ NotAttached \/ FailsAttached \/ PollFails
  <2>1. PICK from, how : Returns(from, how)
    BY <1>2 DEF ParseFails, NotAttached, FailsAttached, PollFails
  <2> QED
    BY <2>1, EndsControl DEF Returns
<1>3. CASE Attach \/ NextMap \/ OpenDead
  BY <1>3 DEF Attach, NextMap, OpenDead, Goes, At, Typed, Descriptors
<1>4. CASE InstallHandler
  BY <1>4 DEF InstallHandler, Goes, At, Typed, Descriptors
<1>5. CASE NewPerfBuffer
  BY <1>5 DEF NewPerfBuffer, Goes, At, Typed, Descriptors
<1>6. CASE DumpOpen
  BY <1>6 DEF DumpOpen, Goes, At, Typed, Descriptors
<1>7. CASE PcapFails
  BY <1>7 DEF PcapFails, Goes, At, Typed, Descriptors
<1>8. CASE Out
  BY <1>8, EndsControl DEF Out
<1>9. CASE (\E c \in Cpu : Poll(c)) \/ PcapDump \/ CountSample
  BY <1>9 DEF Poll, PcapDump, CountSample, Goes, At, Typed, Descriptors
<1> QED
  BY <1>1, <1>2, <1>3, <1>4, <1>5, <1>6, <1>7, <1>8, <1>9 DEF Main

\* The handler frees pb before it closes the file, and closes it before it exits.
LEMMA HandlesFact ==
  ASSUME NEW call, Handles(call)
  PROVE  /\ pc # "ended" /\ handler = call /\ UNCHANGED <<command, pc, handled, signals>>
         /\ call \in {"detach", "free", "close"}
         /\ call = "detach" => handler' = "free"
         /\ call = "free" => handler' = "close"
         /\ call = "close" => handler' = "exit"
<1>1. Calls[1] = "detach" /\ Calls[2] = "free" /\ Calls[3] = "close" /\ Calls[4] = "exit"
  BY DEF Calls
<1>2. Len(Calls) = 4
  BY DEF Calls
<1>3. PICK i \in 1 .. 3 : Calls[i] = call /\ handler' = Calls[i + 1]
  BY <1>2 DEF Handles
<1>4. i = 1 \/ i = 2 \/ i = 3
  OBVIOUS
<1> QED
  BY <1>1, <1>3, <1>4 DEF Handles

LEMMA HandlerControl ==
  ASSUME Control, Handler
  PROVE  Typed' /\ Descriptors'
<1> USE DEF interface, caught, perf, pcap, command, Control
<1>1. CASE HandlerDetach
  <2>1. /\ Handles("detach") /\ UNCHANGED <<perf, pcap>>
    BY <1>1 DEF HandlerDetach
  <2> QED
    BY <2>1, HandlesFact DEF Typed, Descriptors
<1>2. CASE HandlerFree
  <2>1. /\ Handles("free") /\ pb' = (IF pb = "new" THEN "gone" ELSE pb) /\ UNCHANGED pcap
    BY <1>2 DEF HandlerFree
  <2> QED
    BY <2>1, HandlesFact DEF Typed, Descriptors, Calling, Early, Dumping, Signal
<1>3. CASE HandlerClose
  <2>1. /\ Handles("close") /\ pdumper # "none" /\ pdumper' = "gone"
        /\ UNCHANGED <<perf, pcap_pkts>>
    BY <1>3 DEF HandlerClose
  <2> QED
    BY <2>1, HandlesFact DEF Typed, Descriptors, Calling, Early, Dumping, Signal
<1>4. CASE HandlerHangs \/ FreeCrashes \/ CloseCrashes \/ HandlerExits
  <2>1. PICK how : Ends(how) /\ UNCHANGED <<caught, pdumper>>
    BY <1>4 DEF HandlerHangs, FreeCrashes, CloseCrashes, HandlerExits
  <2> QED
    BY <2>1, EndsControl
<1> QED
  BY <1>1, <1>2, <1>3, <1>4 DEF Handler

LEMMA ControlStep == Control /\ [Next]_vars => Control'
<1> SUFFICES ASSUME Control, [Next]_vars PROVE Typed' /\ Descriptors'
  BY InvStep DEF Control
<1> USE DEF interface, caught, perf, pcap, command, Control
<1>1. CASE Start
  BY <1>1, SampleAssumption
     DEF Start, Typed, Descriptors, Calling, Early, Dumping, Signal, Config, NoOptions, Mode,
         SampleAssumption
<1>2. CASE Main \/ PollFails
  BY <1>2, MainControl
<1>3. CASE Kill
  BY <1>3 DEF Kill, Sends, Ends, Typed, Descriptors, Calling, Early, Dumping, Signal
<1>4. CASE Deliver
  <2>1. Calls[1] = "detach"
    BY DEF Calls
  <2> QED
    BY <1>4, <2>1 DEF Deliver, Sends, Typed, Descriptors
<1>5. CASE Handler
  BY <1>5, HandlerControl
<1>6. CASE \E c \in Cpu : Packet(c)
  BY <1>6 DEF Packet, Typed, Descriptors
<1>7. CASE UNCHANGED vars
  BY <1>7 DEF vars, Typed, Descriptors
<1> QED
  BY <1>1, <1>2, <1>3, <1>4, <1>5, <1>6, <1>7 DEF Next

-----------------------------------------------------------------------------
(* The file.                                                               *)

LEMMA StoredFact ==
  ASSUME file \in Seq(Cpu \X Nat), NEW c
  PROVE  /\ IsFiniteSet({i \in DOMAIN file : file[i][1] = c})
         /\ Stored(c) \in Nat
<1>1. DOMAIN file = 1 .. Len(file) /\ Len(file) \in Nat
  OBVIOUS
<1>2. IsFiniteSet(DOMAIN file)
  BY <1>1, FS_Interval
<1>3. IsFiniteSet({i \in DOMAIN file : file[i][1] = c})
  BY <1>2, FS_Subset
<1> QED
  BY <1>3, FS_CardinalityType DEF Stored

\* A sample that is written gets the next place of its CPU.
LEMMA AppendFact ==
  ASSUME file \in Seq(Cpu \X Nat), sample \in Cpu \X Nat, file' = Append(file, sample)
  PROVE  /\ file' \in Seq(Cpu \X Nat) /\ Len(file') = Len(file) + 1
         /\ DOMAIN file' = DOMAIN file \union {Len(file) + 1}
         /\ \A i \in DOMAIN file : file'[i] = file[i] /\ Place(i)' = Place(i)
         /\ file'[Len(file) + 1] = sample
         /\ Place(Len(file))' = Stored(sample[1]) + 1
         /\ \A c : Stored(c)' = Stored(c) + IF sample[1] = c THEN 1 ELSE 0
<1> DEFINE n == Len(file) + 1
<1>1. /\ file' \in Seq(Cpu \X Nat) /\ Len(file') = n /\ n \in Nat /\ n \notin DOMAIN file
      /\ DOMAIN file = 1 .. Len(file) /\ DOMAIN file' = DOMAIN file \union {n}
      /\ file'[n] = sample /\ \A i \in DOMAIN file : file'[i] = file[i]
  OBVIOUS
<1>2. ASSUME NEW i \in DOMAIN file
      PROVE  Place(i)' = Place(i)
  <2>1. \A j \in 1 .. i : j \in DOMAIN file
    BY <1>1
  <2>2. {j \in 1 .. i : file'[j][1] = file'[i][1]} = {j \in 1 .. i : file[j][1] = file[i][1]}
    BY <1>1, <2>1
  <2> QED
    BY <2>2 DEF Place
<1>3. ASSUME NEW c
      PROVE  Stored(c)' = Stored(c) + IF sample[1] = c THEN 1 ELSE 0
  <2> DEFINE of == {i \in DOMAIN file : file[i][1] = c}
             then == {i \in DOMAIN file' : file'[i][1] = c}
  <2>1. IsFiniteSet(of) /\ Stored(c) = Cardinality(of) /\ Stored(c) \in Nat /\ n \notin of
    BY <1>1, StoredFact DEF Stored
  <2>2. Stored(c)' = Cardinality(then)
    BY DEF Stored
  <2>3. CASE sample[1] = c
    <3>1. then = of \union {n}
      BY <1>1, <2>3
    <3> HIDE DEF of, then, n
    <3>2. Cardinality(of \union {n}) = Cardinality(of) + 1
      BY <2>1, FS_AddElement
    <3> QED
      BY <2>1, <2>2, <2>3, <3>1, <3>2
  <2>4. CASE sample[1] # c
    <3>1. then = of
      BY <1>1, <2>4
    <3> HIDE DEF of, then, n
    <3> QED
      BY <2>1, <2>2, <2>4, <3>1
  <2> QED
    BY <2>3, <2>4
<1>4. Place(Len(file))' = Stored(sample[1]) + 1
  <2>1. PICK c : c = sample[1]
    OBVIOUS
  <2>2. {j \in 1 .. n : file'[j][1] = file'[n][1]} = {j \in DOMAIN file' : file'[j][1] = c}
    BY <1>1, <2>1
  <2>3. Place(Len(file))' = Cardinality({j \in 1 .. n : file'[j][1] = file'[n][1]})
    BY <1>1 DEF Place
  <2>6. Stored(c)' = Cardinality({j \in DOMAIN file' : file'[j][1] = c})
    BY DEF Stored
  <2>4. Stored(c) = Stored(sample[1])
    BY <2>1
  <2>5. Stored(c)' = Stored(c) + 1
    BY <1>3, <2>1
  <2>7. Place(Len(file))' = Stored(c)'
    BY <2>2, <2>3, <2>6
  <2> QED
    BY <2>4, <2>5, <2>7
<1> QED
  BY <1>1, <1>2, <1>3, <1>4

\* A part of the file from its beginning has no holes when the file has none.
LEMMA PrefixFact ==
  ASSUME file \in Seq(Cpu \X Nat), \A i \in DOMAIN file : file[i] = <<file[i][1], Place(i)>>,
         NEW n \in 0 .. Len(file), file' = SubSeq(file, 1, n)
  PROVE  /\ file' \in Seq(Cpu \X Nat)
         /\ (\A i \in DOMAIN file : file[i] = <<file[i][1], Place(i)>>)'
<1>1. /\ file' \in Seq(Cpu \X Nat) /\ DOMAIN file' = 1 .. n
      /\ \A i \in 1 .. n : i \in DOMAIN file /\ file'[i] = file[i]
  OBVIOUS
<1>2. ASSUME NEW i \in DOMAIN file'
      PROVE  file'[i] = <<file'[i][1], Place(i)'>>
  <2>1. i \in 1 .. n /\ \A j \in 1 .. i : j \in 1 .. n
    BY <1>1
  <2>2. {j \in 1 .. i : file'[j][1] = file'[i][1]} = {j \in 1 .. i : file[j][1] = file[i][1]}
    BY <1>1, <2>1
  <2>3. Place(i)' = Place(i)
    BY <2>2 DEF Place
  <2> QED
    BY <1>1, <2>1, <2>3
<1> QED
  BY <1>1, <1>2

-----------------------------------------------------------------------------
(* The rings.                                                              *)

LEMMA QuietRings ==
  ASSUME Rings, UNCHANGED <<packets, perf, pcap_pkts>>, Pending' = Pending, pc # "ended"
  PROVE  Rings'
<1>1. Waiting' = Waiting
  BY DEF Waiting, perf
<1> QED
  BY <1>1 DEF Rings, perf, EmptyRings

\* The rings are gone, or have just been made.
LEMMA EmptyRingsFact ==
  ASSUME ring' = EmptyRings, SampleAssumption
  PROVE  /\ ring' \in [Cpu -> Seq(Cpu \X Nat)]
         /\ \A c \in Cpu : ring'[c] = <<>> /\ Len(ring'[c]) = 0
         /\ IsFiniteSet(Waiting') /\ Cardinality(Waiting') = 0
<1>1. \A c \in Cpu : ring'[c] = <<>> /\ Len(ring'[c]) = 0
  BY DEF EmptyRings
<1>2. Waiting' = {}
  BY <1>1 DEF Waiting
<1> QED
  BY <1>1, <1>2, FS_EmptySet DEF EmptyRings

LEMMA FreedRings ==
  ASSUME Rings, ring' = EmptyRings, UNCHANGED <<packets, accepted, pcap_pkts>>,
         Pending' \in {0, Pending},
         pb' = "none" /\ pc' # "ended" => pb = "none" /\ pc # "ended"
  PROVE  Rings'
<1>1. Cardinality(Waiting) \in Nat /\ Pending \in {0, 1}
  BY FS_CardinalityType DEF Rings, Pending
<1>2. pcap_pkts' + Pending' + Cardinality(Waiting') <= packets'
  <2>1. Cardinality(Waiting') = 0
    BY EmptyRingsFact, SampleAssumption
  <2>2. packets \in Nat /\ pcap_pkts \in Nat /\ pcap_pkts + Pending + Cardinality(Waiting) <= packets
    BY SampleAssumption DEF Rings, SampleAssumption
  <2>3. PICK p : p = Pending'
    OBVIOUS
  <2>4. p \in Nat /\ p <= Pending
    BY <1>1, <2>3
  <2>5. pcap_pkts + p + 0 <= packets
    BY <1>1, <2>2, <2>4
  <2> QED
    BY <2>1, <2>3, <2>5
<1>3. \A c \in Cpu : Len(ring'[c]) <= RingSize
  BY EmptyRingsFact, SampleAssumption DEF SampleAssumption
<1> QED
  BY <1>2, <1>3, EmptyRingsFact, SampleAssumption DEF Rings, EmptyRings

\* A reader takes a sample out of a ring.
LEMMA PollRings ==
  ASSUME Control, Rings, NEW c \in Cpu, Poll(c)
  PROVE  Rings'
<1>1. /\ ring[c] # <<>> /\ ring' = [ring EXCEPT ![c] = Tail(ring[c])]
      /\ pc = "poll" /\ pc' = "dump" /\ UNCHANGED <<packets, accepted, pb, pcap_pkts>>
  BY DEF Poll, Ready, Goes, At, interface
<1> DEFINE n == Len(ring[c])
<1>2. n \in Nat \ {0} /\ n <= RingSize /\ ring[c] \in Seq(Cpu \X Nat)
  BY <1>1 DEF Rings
<1>3. /\ ring' \in [Cpu -> Seq(Cpu \X Nat)] /\ Len(ring'[c]) = n - 1
      /\ \A d \in Cpu \ {c} : ring'[d] = ring[d]
  BY <1>1, <1>2 DEF Rings
<1>4. Waiting' = Waiting \ {<<c, n>>} /\ <<c, n>> \in Waiting
  <2>1. ASSUME NEW d \in Cpu, NEW i \in 1 .. RingSize
        PROVE  i <= Len(ring'[d]) <=> i <= Len(ring[d]) /\ <<d, i>> # <<c, n>>
    <3>1. CASE d = c
      BY <3>1, <1>2, <1>3
    <3>2. CASE d # c
      BY <3>2, <1>3
    <3> QED
      BY <3>1, <3>2
  <2>2. <<c, n>> \in Cpu \X (1 .. RingSize)
    BY <1>2, SampleAssumption DEF SampleAssumption
  <2> QED
    BY <2>1, <2>2, <1>2 DEF Waiting
<1>5. IsFiniteSet(Waiting') /\ Cardinality(Waiting') = Cardinality(Waiting) - 1
  <2>1. IsFiniteSet(Waiting)
    BY DEF Rings
  <2>2. PICK w \in Waiting : Waiting' = Waiting \ {w}
    BY <1>4
  <2>3. /\ IsFiniteSet(Waiting \ {w})
        /\ Cardinality(Waiting \ {w}) = Cardinality(Waiting) - 1
    BY <2>1, FS_RemoveElement
  <2> QED
    BY <2>2, <2>3
<1>6. Cardinality(Waiting) \in Nat
  BY FS_CardinalityType DEF Rings
<1>7. Pending = 0 /\ Pending' = 1
  BY <1>1 DEF Pending
<1>8. ASSUME NEW d \in Cpu
      PROVE  Len(ring'[d]) <= RingSize
  <2> HIDE DEF n
  <2>1. CASE d = c
    <3>1. n - 1 <= RingSize
      BY <1>2, SampleAssumption DEF SampleAssumption
    <3>2. Len(ring'[d]) = n - 1
      BY <2>1, <1>3
    <3> QED
      BY <3>1, <3>2
  <2>2. CASE d # c
    BY <2>2, <1>3 DEF Rings
  <2> QED
    BY <2>1, <2>2
<1>9. pb = "new"
  BY DEF Poll, Goes, At, Control, Descriptors, Dumping
<1>10. pcap_pkts' + Pending' + Cardinality(Waiting') <= packets'
  <2>1. packets \in Nat /\ pcap_pkts \in Nat /\ pcap_pkts + Pending + Cardinality(Waiting) <= packets
    BY SampleAssumption DEF Rings, SampleAssumption
  <2> QED
    BY <2>1, <1>1, <1>5, <1>6, <1>7
<1> QED
  BY <1>1, <1>3, <1>5, <1>8, <1>9, <1>10 DEF Rings

\* A packet fills one of the rings a little more.
LEMMA PacketRings ==
  ASSUME Control, Rings, NEW c \in Cpu, Packet(c)
  PROVE  Rings'
<1> DEFINE n == Len(ring[c]) + 1
<1>1. /\ packets < MaxPackets /\ packets' = packets + 1 /\ UNCHANGED <<pc, pb, pcap_pkts>>
      /\ packets \in Nat /\ MaxPackets \in Nat
  BY SampleAssumption DEF Packet, pcap, Rings, SampleAssumption
<1>2. Pending' = Pending /\ Cardinality(Waiting) \in Nat /\ Pending \in {0, 1}
  BY <1>1, FS_CardinalityType DEF Pending, Rings
<1>3. CASE Takes(c)
  <2>1. /\ pb = "new" /\ n <= RingSize /\ accepted' = [accepted EXCEPT ![c] = @ + 1]
        /\ ring' = [ring EXCEPT ![c] = Append(@, <<c, accepted[c] + 1>>)]
        /\ n \in Nat \ {0}
    BY <1>3, SampleAssumption DEF Packet, Takes, Rings, SampleAssumption
  <2>2. /\ ring' \in [Cpu -> Seq(Cpu \X Nat)] /\ Len(ring'[c]) = n
        /\ \A d \in Cpu \ {c} : ring'[d] = ring[d]
    BY <2>1 DEF Rings
  <2>3. Waiting' = Waiting \union {<<c, n>>} /\ <<c, n>> \notin Waiting
    <3>1. \A d \in Cpu, i \in 1 .. RingSize :
            i <= Len(ring'[d]) <=> i <= Len(ring[d]) \/ <<d, i>> = <<c, n>>
      <4>1. ASSUME NEW i \in 1 .. RingSize
            PROVE  i <= n <=> i <= Len(ring[c]) \/ i = n
        <5>1. Len(ring[c]) \in Nat /\ i \in Int
          BY SampleAssumption DEF Rings, SampleAssumption
        <5> QED
          BY <5>1
      <4> HIDE DEF n
      <4>2. ASSUME NEW d \in Cpu, NEW i \in 1 .. RingSize
            PROVE  i <= Len(ring'[d]) <=> i <= Len(ring[d]) \/ <<d, i>> = <<c, n>>
        <5>1. CASE d = c
          BY <5>1, <4>1, <2>2
        <5>2. CASE d # c
          BY <5>2, <2>2
        <5> QED
          BY <5>1, <5>2
      <4> QED
        BY <4>2
    <3>2. <<c, n>> \in Cpu \X (1 .. RingSize)
      BY <2>1, SampleAssumption DEF SampleAssumption
    <3> QED
      BY <3>1, <3>2, <2>1 DEF Waiting
  <2>4. IsFiniteSet(Waiting') /\ Cardinality(Waiting') = Cardinality(Waiting) + 1
    BY <2>3, FS_AddElement DEF Rings
  <2>5. \A d \in Cpu : Len(ring'[d]) <= RingSize
    BY <2>1, <2>2 DEF Rings
  <2>6. accepted' \in [Cpu -> Nat] /\ \A d \in Cpu : accepted'[d] <= packets'
    BY <1>1, <2>1 DEF Rings
  <2>7. packets' \in 0 .. MaxPackets /\ pcap_pkts' \in Nat
    BY <1>1 DEF Rings
  <2>8. pcap_pkts' + Pending' + Cardinality(Waiting') <= packets'
    <3>1. pcap_pkts \in Nat /\ pcap_pkts + Pending + Cardinality(Waiting) <= packets
      BY DEF Rings
    <3> QED
      BY <1>1, <1>2, <2>4, <3>1
  <2>9. pb' = "new"
    BY <1>1, <2>1
  <2> QED
    BY <2>2, <2>4, <2>5, <2>6, <2>7, <2>8, <2>9 DEF Rings
<1>4. CASE ~Takes(c)
  <2>1. UNCHANGED <<accepted, ring>>
    BY <1>4 DEF Packet
  <2>2. Waiting' = Waiting
    BY <2>1 DEF Waiting
  <2> QED
    BY <1>1, <1>2, <2>1, <2>2 DEF Rings
<1> QED
  BY <1>3, <1>4

LEMMA RingsInit == Init => Rings
<1> SUFFICES ASSUME Init PROVE Rings
  OBVIOUS
<1>1. Waiting = {}
  BY DEF Init, EmptyRings, Waiting
<1>2. Cardinality(Waiting) = 0 /\ IsFiniteSet(Waiting)
  BY <1>1, FS_EmptySet
<1> QED
  BY <1>2, SampleAssumption DEF Init, Rings, EmptyRings, Pending, SampleAssumption

\* However the process ends.
LEMMA EndsRings ==
  ASSUME Rings, NEW how, Ends(how), UNCHANGED <<packets, pcap_pkts>>
  PROVE  Rings'
<1>1. Pending' = 0
  BY DEF Ends, Pending
<1> QED
  BY <1>1, FreedRings DEF Ends

LEMMA RingsStep == Control /\ Rings /\ [Next]_vars => Rings'
<1> SUFFICES ASSUME Control, Rings, [Next]_vars PROVE Rings'
  OBVIOUS
<1> USE DEF interface, caught, perf, pcap, command, Goes, At
<1>1. CASE Start
  <2>1. /\ pc = "ended" /\ pc' = "options" /\ pb' = "none" /\ pcap_pkts' = 0
        /\ accepted' = [c \in Cpu |-> 0] /\ UNCHANGED <<packets, ring>>
    BY <1>1 DEF Start
  <2>2. ring' = EmptyRings
    BY <2>1 DEF Control, Descriptors, Rings
  <2>3. Pending' = 0
    BY <2>1 DEF Pending
  <2>4. packets \in 0 .. MaxPackets /\ packets \in Nat
    BY SampleAssumption DEF Rings, SampleAssumption
  <2>5. \A c \in Cpu : Len(ring'[c]) <= RingSize
    BY <2>2, EmptyRingsFact, SampleAssumption DEF SampleAssumption
  <2> QED
    BY <2>1, <2>2, <2>3, <2>4, <2>5, EmptyRingsFact, SampleAssumption DEF Rings
<1>2. CASE ParseOption \/ Attach \/ NextMap \/ InstallHandler \/ OpenDead \/ DumpOpen
           \/ PcapDump \/ Deliver \/ HandlerDetach \/ HandlerClose
  <2>1. UNCHANGED <<packets, perf, pcap_pkts>>
    BY <1>2 DEF ParseOption, Attach, NextMap, InstallHandler, OpenDead, DumpOpen, PcapDump,
                Deliver, HandlerDetach, HandlerClose
  <2>2. Pending' = Pending /\ pc # "ended"
    <3>1. CASE ParseOption \/ Attach \/ NextMap \/ OpenDead \/ DumpOpen \/ PcapDump
      BY <3>1 DEF ParseOption, Attach, NextMap, OpenDead, DumpOpen, PcapDump, Pending
    <3>2. CASE InstallHandler
      BY <3>2 DEF InstallHandler, Pending, Signal
    <3>3. CASE Deliver
      BY <3>3 DEF Deliver, Sends, Pending
    <3>4. CASE HandlerDetach \/ HandlerClose
      BY <3>4, HandlesFact DEF HandlerDetach, HandlerClose, Pending
    <3> QED
      BY <1>2, <3>1, <3>2, <3>3, <3>4
  <2> QED
    BY <2>1, <2>2, QuietRings
<1>3. CASE NewPerfBuffer
  <2>1. /\ pc = "perf_buffer" /\ pc' = "open_dead" /\ pb' = "new"
        /\ UNCHANGED <<packets, accepted, ring, pcap_pkts>>
    BY <1>3 DEF NewPerfBuffer
  <2>2. Waiting' = Waiting /\ Pending' = Pending
    BY <2>1 DEF Waiting, Pending
  <2> QED
    BY <2>1, <2>2 DEF Rings
<1>4. CASE PcapFails
  <2>1. /\ pb' = "gone" /\ ring' = EmptyRings /\ UNCHANGED <<packets, accepted, pcap_pkts>>
        /\ pc' = "out"
    BY <1>4 DEF PcapFails
  <2>2. Pending' = 0
    BY <2>1 DEF Pending
  <2> QED
    BY <2>1, <2>2, FreedRings
<1>5. CASE HandlerFree
  <2>1. /\ ring' = EmptyRings /\ UNCHANGED <<packets, accepted, pcap_pkts, pc>>
        /\ pb' = (IF pb = "new" THEN "gone" ELSE pb)
    BY <1>5, HandlesFact DEF HandlerFree
  <2>2. Pending' = Pending
    BY <2>1 DEF Pending
  <2> QED
    BY <2>1, <2>2, FreedRings
<1>6. CASE CountSample
  <2>1. /\ pc = "count" /\ pc' = "poll" /\ pcap_pkts' = pcap_pkts + 1
        /\ UNCHANGED <<packets, accepted, ring, pb>>
    BY <1>6 DEF CountSample
  <2>2. Waiting' = Waiting /\ Pending = 1 /\ Pending' = 0
    BY <2>1 DEF Waiting, Pending
  <2>3. Cardinality(Waiting) \in Nat /\ packets \in Nat
    BY FS_CardinalityType, SampleAssumption DEF Rings, SampleAssumption
  <2>4. pcap_pkts' + Pending' + Cardinality(Waiting') <= packets'
    BY <2>1, <2>2, <2>3 DEF Rings
  <2> QED
    BY <2>1, <2>2, <2>4 DEF Rings
<1>7. CASE \E c \in Cpu : Poll(c)
  BY <1>7, PollRings
<1>8. CASE \E c \in Cpu : Packet(c)
  BY <1>8, PacketRings
<1>9. CASE \/ ParseFails \/ NotAttached \/ FailsAttached \/ Out \/ PollFails \/ Kill
           \/ HandlerHangs \/ FreeCrashes \/ CloseCrashes \/ HandlerExits
  <2>1. PICK how : Ends(how) /\ UNCHANGED <<packets, pcap_pkts>>
    BY <1>9 DEF ParseFails, NotAttached, FailsAttached, Out, PollFails, Kill, HandlerHangs,
                FreeCrashes, CloseCrashes, HandlerExits, Returns
  <2> QED
    BY <2>1, EndsRings
<1>10. CASE UNCHANGED vars
  <2>1. Waiting' = Waiting /\ Pending' = Pending
    BY <1>10 DEF vars, Waiting, Pending
  <2> QED
    BY <1>10, <2>1 DEF vars, Rings
<1> QED
  BY <1>1, <1>2, <1>3, <1>4, <1>5, <1>6, <1>7, <1>8, <1>9, <1>10 DEF Next, Main, Handler

\* pcap_pkts counts packets, whatever the runs and the signals: TypeOK.
THEOREM TypeTheorem == Spec => []TypeOK
<1>1. ASSUME Control, Rings
      PROVE  TypeOK
  <2>1. pcap_pkts \in 0 .. MaxPackets
    <3>1. packets \in 0 .. MaxPackets /\ pcap_pkts \in Nat /\ MaxPackets \in Nat
      BY <1>1, SampleAssumption DEF Rings, SampleAssumption
    <3>2. Cardinality(Waiting) \in Nat /\ Pending \in {0, 1}
      BY <1>1, FS_CardinalityType DEF Rings, Pending
    <3> QED
      BY <1>1, <3>1, <3>2 DEF Rings
  <2>2. accepted \in [Cpu -> 0 .. MaxPackets]
    BY <1>1, SampleAssumption DEF Rings, SampleAssumption
  <2>3. packets \in 0 .. MaxPackets /\ \A c \in Cpu : Len(ring[c]) <= RingSize
    BY <1>1 DEF Rings
  <2> QED
    BY <1>1, <2>1, <2>2, <2>3
       DEF Control, Inv, Typed, Calling, Early, Dumping, TypeOK
<1> QED
  BY <1>1, ControlInit, ControlStep, RingsInit, RingsStep, PTL DEF Spec

-----------------------------------------------------------------------------
(* What is written.                                                        *)

LEMMA FilesInit == Init => Files
BY DEF Init, Files, Dumping

\* A step that touches neither the samples nor who has them.
LEMMA QuietFiles ==
  ASSUME Files, UNCHANGED <<perf, pcap, run, outcome>>,
         pc' = pc \/ (pc \notin Dumping /\ pc' \notin Dumping)
  PROVE  Files'
<1>1. /\ UNCHANGED <<pb, accepted, ring, pdumper, sample, file, pcap_pkts>>
      /\ (pc = "dump") <=> (pc' = "dump")
  BY DEF perf, pcap, Dumping
<1>2. \A c : Stored(c)' = Stored(c) /\ InHand(c)' = InHand(c) /\ Given(c)' = Given(c)
  BY <1>1 DEF Stored, InHand, Given
<1>3. \A i : Place(i)' = Place(i)
  BY <1>1 DEF Place
<1> QED
  BY <1>1, <1>2, <1>3 DEF Files, Dumping

\* The process ends, and what it has written stays as it is.
LEMMA EndsFiles ==
  ASSUME Control, Rings, Files, pc # "ended", NEW how, Ends(how), UNCHANGED <<file, pcap_pkts>>,
         how = "done" => pdumper = "gone"
  PROVE  Files'
<1>1. /\ pc' = "ended" /\ pb' = "none" /\ run' = run
      /\ outcome' = [outcome EXCEPT ![run] = how]
  BY DEF Ends
<1>2. \A i : Place(i)' = Place(i)
  BY DEF Place
<1>3. ASSUME outcome'[run] = "done"
      PROVE  Len(file) - pcap_pkts \in {0, 1}
  <2>1. run \in 1 .. MaxRuns
    BY SampleAssumption DEF Control, Inv, SampleAssumption
  <2>2. pc \in Dumping
    BY <1>1, <1>3, <2>1 DEF Control, Inv, Descriptors
  <2>3. CASE pc = "count"
    BY <2>2, <2>3 DEF Files, Rings
  <2>4. CASE pc # "count"
    BY <2>2, <2>4 DEF Files, Rings
  <2> QED
    BY <2>3, <2>4
<1> QED
  BY <1>1, <1>2, <1>3 DEF Files, Dumping

LEMMA PollFiles ==
  ASSUME Control, Rings, Files, NEW c \in Cpu, Poll(c)
  PROVE  Files'
<1>1. /\ pc = "poll" /\ handler = "none" /\ pc' = "dump" /\ UNCHANGED <<run, outcome>>
      /\ ring[c] # <<>> /\ ring' = [ring EXCEPT ![c] = Tail(ring[c])]
      /\ sample' = Head(ring[c]) /\ UNCHANGED <<accepted, pb, pdumper, file, pcap_pkts>>
  BY DEF Poll, Ready, Goes, At
<1>2. pb = "new" /\ pdumper = "new"
  BY <1>1 DEF Control, Descriptors, Dumping
<1>3. ring[c] \in Seq(Cpu \X Nat) /\ Len(ring[c]) \in Nat \ {0}
  BY <1>1 DEF Rings
<1>4. \A d : Stored(d) \in Nat
  BY StoredFact DEF Files
<1>5. sample' = <<c, Stored(c) + 1>>
  <2>1. Given(c) = Stored(c) + 0
    BY <1>1, <1>2 DEF Given, InHand
  <2>2. Head(ring[c]) = ring[c][1] /\ 1 \in DOMAIN ring[c]
    BY <1>3
  <2> QED
    BY <1>1, <1>2, <1>4, <2>1, <2>2 DEF Files
<1>6. \A d : Stored(d)' = Stored(d)
  BY <1>1 DEF Stored
<1>7. \A i : Place(i)' = Place(i)
  BY <1>1 DEF Place
<1>8. ASSUME NEW d \in Cpu
      PROVE  /\ accepted'[d] = Given(d)' + Len(ring'[d])
             /\ \A i \in DOMAIN ring'[d] : ring'[d][i] = <<d, Given(d)' + i>>
  <2>1. Given(d) = Stored(d) /\ Given(d) \in Nat
    BY <1>1, <1>2, <1>4 DEF Given, InHand
  <2>2. /\ accepted[d] = Given(d) + Len(ring[d])
        /\ \A i \in DOMAIN ring[d] : ring[d][i] = <<d, Given(d) + i>>
    BY <1>2 DEF Files
  <2>3. CASE d = c
    <3>1. Given(d)' = Given(d) + 1
      BY <1>1, <1>2, <1>5, <1>6, <2>1, <2>3 DEF Given, InHand
    <3>2. ring'[c] = Tail(ring[c])
      BY <1>1 DEF Rings
    <3>3. /\ Len(ring'[c]) = Len(ring[c]) - 1
          /\ \A i \in DOMAIN ring'[c] : /\ i \in Nat /\ i + 1 \in DOMAIN ring[c]
                                        /\ ring'[c][i] = ring[c][i + 1]
      BY <1>3, <3>2
    <3>4. accepted'[d] = Given(d)' + Len(ring'[d])
      BY <1>1, <1>3, <2>1, <2>2, <2>3, <3>1, <3>3
    <3>5. ASSUME NEW i \in DOMAIN ring'[d]
          PROVE  ring'[d][i] = <<d, Given(d)' + i>>
      <4>1. i \in Nat /\ ring'[d][i] = ring[d][i + 1] /\ i + 1 \in DOMAIN ring[d]
        BY <2>3, <3>3
      <4>2. ring'[d][i] = <<d, Given(d) + (i + 1)>>
        BY <2>2, <4>1
      <4>3. Given(d) + (i + 1) = Given(d)' + i
        BY <2>1, <3>1, <4>1
      <4> QED
        BY <4>2, <4>3
    <3> QED
      BY <3>4, <3>5
  <2>4. CASE d # c
    <3>1. Given(d)' = Given(d)
      BY <1>1, <1>2, <1>4, <1>5, <1>6, <2>1, <2>4 DEF Given, InHand
    <3>2. ring'[d] = ring[d]
      BY <1>1, <2>4 DEF Rings
    <3> QED
      BY <1>1, <2>2, <3>1, <3>2
  <2> QED
    BY <2>3, <2>4
<1>9. outcome[run] # "done"
  BY <1>1 DEF Control, Inv
<1>10. sample' \in Cpu \X Nat /\ sample'[1] = c
  BY <1>4, <1>5
<1> QED
  BY <1>1, <1>2, <1>5, <1>6, <1>7, <1>8, <1>9, <1>10 DEF Files, Dumping

LEMMA DumpFiles ==
  ASSUME Control, Rings, Files, PcapDump
  PROVE  Files'
<1>1. /\ pc = "dump" /\ handler = "none" /\ pc' = "count" /\ UNCHANGED <<run, outcome>>
      /\ file' = Append(file, sample)
      /\ UNCHANGED <<accepted, ring, pb, pdumper, sample, pcap_pkts>>
  BY DEF PcapDump, Written, Goes, At, perf
<1>2. pb = "new" /\ pdumper = "new"
  BY <1>1 DEF Control, Descriptors, Dumping
<1>3. file \in Seq(Cpu \X Nat) /\ sample \in Cpu \X Nat /\ sample = <<sample[1], Stored(sample[1]) + 1>>
  BY <1>1, <1>2 DEF Files
<1>4. /\ file' \in Seq(Cpu \X Nat) /\ Len(file') = Len(file) + 1
      /\ DOMAIN file' = DOMAIN file \union {Len(file) + 1}
      /\ \A i \in DOMAIN file : file'[i] = file[i] /\ Place(i)' = Place(i)
      /\ file'[Len(file) + 1] = sample
      /\ Place(Len(file))' = Stored(sample[1]) + 1
      /\ \A c : Stored(c)' = Stored(c) + IF sample[1] = c THEN 1 ELSE 0
  BY <1>1, <1>3, AppendFact
<1>5. ASSUME NEW i \in DOMAIN file'
      PROVE  file'[i] = <<file'[i][1], Place(i)'>>
  <2>1. CASE i \in DOMAIN file
    BY <1>4, <2>1 DEF Files
  <2>2. CASE i = Len(file) + 1
    <3>1. Place(i)' = Place(Len(file))'
      BY <1>4, <2>2
    <3> QED
      BY <1>3, <1>4, <2>2, <3>1
  <2> QED
    BY <1>4, <2>1, <2>2
<1>6. ASSUME NEW c \in Cpu
      PROVE  Given(c)' = Given(c)
  <2>1. Stored(c) \in Nat
    BY <1>3, StoredFact
  <2> QED
    BY <1>1, <1>2, <1>4, <2>1 DEF Given, InHand
<1>7. outcome[run] # "done"
  BY <1>1 DEF Control, Inv
<1>8. Len(file') = pcap_pkts + 1
  <2>1. Len(file) = pcap_pkts + 0 /\ pcap_pkts \in Nat
    BY <1>1 DEF Files, Rings, Dumping
  <2> QED
    BY <1>1, <1>4, <2>1
<1> QED
  BY <1>1, <1>2, <1>4, <1>5, <1>6, <1>7, <1>8 DEF Files, Dumping

LEMMA PacketFiles ==
  ASSUME Control, Rings, Files, NEW c \in Cpu, Packet(c)
  PROVE  Files'
<1>1. UNCHANGED <<run, outcome, pc, pb, pdumper, sample, file, pcap_pkts>>
  BY DEF Packet, command, pcap
<1>2. \A d : Stored(d)' = Stored(d) /\ Given(d)' = Given(d)
  BY <1>1 DEF Stored, Given, InHand
<1>3. \A i : Place(i)' = Place(i)
  BY <1>1 DEF Place
<1>4. ASSUME pb = "new", NEW d \in Cpu
      PROVE  /\ accepted'[d] = Given(d) + Len(ring'[d])
             /\ \A i \in DOMAIN ring'[d] : ring'[d][i] = <<d, Given(d) + i>>
  <2>1. /\ accepted[d] = Given(d) + Len(ring[d])
        /\ \A i \in DOMAIN ring[d] : ring[d][i] = <<d, Given(d) + i>>
    BY <1>4 DEF Files
  <2>2. CASE Takes(c) /\ d = c
    <3>1. /\ accepted'[d] = accepted[d] + 1
          /\ ring'[d] = Append(ring[d], <<d, accepted[d] + 1>>)
      BY <2>2 DEF Packet, Rings
    <3>2. ring[d] \in Seq(Cpu \X Nat) /\ Given(d) \in Nat
      <4>1. Stored(d) \in Nat
        BY StoredFact DEF Files
      <4> QED
        BY <4>1 DEF Rings, Given, InHand
    <3>3. Len(ring'[d]) = Len(ring[d]) + 1 /\ Len(ring[d]) \in Nat
      BY <3>1, <3>2
    <3>4. accepted'[d] = Given(d) + Len(ring'[d])
      BY <2>1, <3>1, <3>2, <3>3
    <3>5. ASSUME NEW i \in DOMAIN ring'[d]
          PROVE  ring'[d][i] = <<d, Given(d) + i>>
      <4>1. CASE i \in DOMAIN ring[d]
        BY <2>1, <3>1, <3>2, <4>1
      <4>2. CASE i = Len(ring[d]) + 1
        BY <2>1, <3>1, <3>2, <3>3, <4>2
      <4> QED
        BY <3>1, <3>2, <3>3, <4>1, <4>2
    <3> QED
      BY <3>4, <3>5
  <2>3. CASE ~Takes(c) \/ d # c
    <3>1. accepted'[d] = accepted[d] /\ ring'[d] = ring[d]
      BY <2>3 DEF Packet, Rings
    <3> QED
      BY <2>1, <3>1
  <2> QED
    BY <2>2, <2>3
<1> QED
  BY <1>1, <1>2, <1>3, <1>4 DEF Files

LEMMA FilesStep == Control /\ Rings /\ Files /\ [Next]_vars => Files'
<1> SUFFICES ASSUME Control, Rings, Files, [Next]_vars PROVE Files'
  OBVIOUS
<1> USE DEF interface, caught, perf, pcap, command, Goes, At
<1>1. CASE Start
  <2>1. /\ pc' = "options" /\ pb' = "none" /\ UNCHANGED file
        /\ run' = run + 1 /\ outcome' = [outcome EXCEPT ![run + 1] = "runs"] /\ run < MaxRuns
    BY <1>1 DEF Start
  <2>2. \A i : Place(i)' = Place(i)
    BY <2>1 DEF Place
  <2>3. outcome'[run'] # "done"
    BY <2>1, SampleAssumption DEF Control, Inv, SampleAssumption
  <2> QED
    BY <2>1, <2>2, <2>3 DEF Files, Dumping
<1>2. CASE ParseOption \/ Attach \/ NextMap \/ InstallHandler \/ OpenDead \/ Deliver
           \/ HandlerDetach \/ UNCHANGED vars
  <2>1. UNCHANGED <<perf, pcap, run, outcome>>
    BY <1>2, HandlesFact DEF ParseOption, Attach, NextMap, InstallHandler, OpenDead, Deliver,
                             HandlerDetach, vars
  <2>2. pc' = pc \/ (pc \notin Dumping /\ pc' \notin Dumping)
    <3>1. CASE ParseOption \/ Attach \/ NextMap \/ OpenDead
      BY <3>1 DEF ParseOption, Attach, NextMap, OpenDead, Dumping
    <3>2. CASE InstallHandler
      BY <3>2 DEF InstallHandler, Signal, Dumping
    <3>3. CASE Deliver \/ HandlerDetach \/ UNCHANGED vars
      BY <3>3, HandlesFact DEF Deliver, HandlerDetach, vars
    <3> QED
      BY <1>2, <3>1, <3>2, <3>3
  <2> QED
    BY <2>1, <2>2, QuietFiles
<1>3. CASE NewPerfBuffer
  <2>1. /\ pc = "perf_buffer" /\ pc' = "open_dead" /\ UNCHANGED <<run, outcome, accepted, ring, pcap>>
    BY <1>3 DEF NewPerfBuffer
  <2>2. pb = "none" /\ pdumper = "none" /\ outcome[run] # "done"
    BY <2>1 DEF Control, Inv, Descriptors, Early, Dumping
  <2>3. ring = EmptyRings /\ accepted = [c \in Cpu |-> 0]
    BY <2>1, <2>2 DEF Rings
  <2>4. \A c \in Cpu : Given(c)' = 0 /\ ring'[c] = <<>> /\ accepted'[c] = 0
    BY <2>1, <2>2, <2>3 DEF Given, EmptyRings
  <2>5. \A i : Place(i)' = Place(i)
    BY <2>1 DEF Place
  <2> QED
    BY <2>1, <2>2, <2>4, <2>5 DEF Files, Dumping
<1>4. CASE DumpOpen
  <2>1. /\ pc = "dump_open" /\ handler = "none" /\ pc' = "poll" /\ pdumper' = "new"
        /\ file' = <<>> /\ UNCHANGED <<run, outcome, pb, accepted, ring, pcap_pkts>>
    BY <1>4 DEF DumpOpen
  <2>2. pdumper = "none" /\ pcap_pkts = 0 /\ outcome[run] # "done"
    BY <2>1 DEF Control, Inv, Descriptors, Dumping
  <2>3. \A c : Stored(c)' = 0
    BY <2>1, FS_EmptySet DEF Stored
  <2>4. \A c : Given(c)' = 0 /\ Given(c) = 0
    BY <2>1, <2>2, <2>3 DEF Given, InHand
  <2> QED
    BY <2>1, <2>2, <2>4 DEF Files, Dumping
<1>5. CASE PcapFails
  <2>1. /\ pc \in {"open_dead", "dump_open"} /\ pc' = "out" /\ pb' = "gone"
        /\ UNCHANGED <<run, outcome, file>>
    BY <1>5 DEF PcapFails
  <2>2. outcome[run] # "done"
    BY <2>1 DEF Control, Inv
  <2>3. \A i : Place(i)' = Place(i)
    BY <2>1 DEF Place
  <2> QED
    BY <2>1, <2>2, <2>3 DEF Files, Dumping
<1>6. CASE HandlerFree \/ HandlerClose
  <2>1. /\ pc # "ended" /\ UNCHANGED <<run, outcome, pc, sample, file, pcap_pkts>>
        /\ pb' # "new" /\ (pdumper' = "new" => pdumper = "new")
    BY <1>6, HandlesFact DEF HandlerFree, HandlerClose, Control, Descriptors
  <2>2. \A i : Place(i)' = Place(i) /\ Stored(i)' = Stored(i)
    BY <2>1 DEF Place, Stored
  <2> QED
    BY <2>1, <2>2 DEF Files, Dumping
<1>7. CASE CountSample
  <2>1. /\ pc = "count" /\ handler = "none" /\ pc' = "poll" /\ pcap_pkts' = pcap_pkts + 1
        /\ UNCHANGED <<run, outcome, perf, pdumper, file>>
    BY <1>7 DEF CountSample
  <2>2. \A c : Given(c)' = Given(c)
    BY <2>1 DEF Given, Stored, InHand
  <2>3. \A i : Place(i)' = Place(i)
    BY <2>1 DEF Place
  <2>4. outcome[run] # "done"
    BY <2>1 DEF Control, Inv
  <2>5. Len(file') = pcap_pkts' + 0
    BY <2>1 DEF Files, Rings, Dumping
  <2> QED
    BY <2>1, <2>2, <2>3, <2>4, <2>5 DEF Files, Dumping
<1>8. CASE \/ ParseFails \/ NotAttached \/ FailsAttached \/ Out \/ PollFails \/ Kill
           \/ HandlerHangs \/ CloseCrashes \/ HandlerExits
  <2>1. PICK how : /\ Ends(how) /\ UNCHANGED <<file, pcap_pkts>>
                   /\ how = "done" => handler = "exit"
    BY <1>8 DEF ParseFails, NotAttached, FailsAttached, Out, PollFails, Kill, HandlerHangs,
                CloseCrashes, HandlerExits, Returns
  <2>2. pc # "ended"
    BY <1>8 DEF ParseFails, NotAttached, FailsAttached, Out, PollFails, Kill, HandlerHangs,
                CloseCrashes, HandlerExits, Returns, Sends, Control, Inv, Signal
  <2> QED
    BY <2>1, <2>2, EndsFiles DEF Control, Descriptors
<1>9. CASE FreeCrashes
  <2>1. /\ Ends("crashed") /\ pc # "ended" /\ UNCHANGED pcap_pkts
        /\ file' = file \/ \E n \in 0 .. Len(file) : file' = SubSeq(file, 1, n)
    BY <1>9 DEF FreeCrashes
  <2>2. CASE file' = file
    BY <2>1, <2>2, EndsFiles
  <2>3. CASE \E n \in 0 .. Len(file) : file' = SubSeq(file, 1, n)
    <3>1. /\ file' \in Seq(Cpu \X Nat)
          /\ (\A i \in DOMAIN file : file[i] = <<file[i][1], Place(i)>>)'
      BY <2>3, PrefixFact DEF Files
    <3>2. outcome'[run'] # "done"
      BY <2>1, SampleAssumption DEF Ends, Control, Inv, SampleAssumption
    <3> QED
      BY <2>1, <3>1, <3>2 DEF Ends, Files, Dumping
  <2> QED
    BY <2>1, <2>2, <2>3
<1>10. CASE \E c \in Cpu : Poll(c)
  BY <1>10, PollFiles
<1>11. CASE PcapDump
  BY <1>11, DumpFiles
<1>12. CASE \E c \in Cpu : Packet(c)
  BY <1>12, PacketFiles
<1> QED
  BY <1>1, <1>2, <1>3, <1>4, <1>5, <1>6, <1>7, <1>8, <1>9, <1>10, <1>11, <1>12
     DEF Next, Main, Handler

\* Whatever the steps of main() and of the handlers that the packets and the signals
\* come between: no sample that a ring took is lost, doubled or out of order while the
\* file is open, what a crash leaves of the file has no holes, and what an ended run
\* has reported is at most one less than what it wrote.
THEOREM SamplesKeptTheorem == Spec => []SamplesKept
<1>1. ASSUME Control, Rings, Files
      PROVE  SamplesKept
  <2>1. ASSUME pb = "new", pdumper = "new", NEW c \in Cpu
        PROVE  LET taken == Stored(c) + InHand(c)
               IN  /\ accepted[c] = taken + Len(ring[c])
                   /\ \A i \in DOMAIN ring[c] : ring[c][i] = <<c, taken + i>>
                   /\ InHand(c) = 1 => sample = <<c, taken>>
    <3>1. Given(c) = Stored(c) + InHand(c)
      BY <2>1 DEF Given
    <3>2. InHand(c) = 1 => pc = "dump" /\ sample[1] = c
      BY DEF InHand
    <3>3. InHand(c) = 1 => sample = <<c, Stored(c) + InHand(c)>>
      BY <1>1, <2>1, <3>2 DEF Files
    <3> QED
      BY <1>1, <2>1, <3>1, <3>3 DEF Files
  <2> QED
    BY <1>1, <2>1 DEF Files, SamplesKept
<1> QED
  BY <1>1, ControlInit, ControlStep, RingsInit, RingsStep, FilesInit, FilesStep, PTL DEF Spec
=============================================================================
