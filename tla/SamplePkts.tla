----------------------------- MODULE SamplePkts -----------------------------
(***************************************************************************)
(* tracing04-xdp-tcpdump: xdp_sample_pkts attaches a program that puts a   *)
(* sample of every packet into the perf ring of its CPU, and writes the    *)
(* samples to a file until a signal ends it.  The handler runs on the only *)
(* thread, between any two of its steps, and another signal may interrupt  *)
(* the handler.                                                            *)
(*                                                                         *)
(* The command is run again and again; what a run leaves on the interface  *)
(* the next ones find there.  A run is its number, a sample is the CPU and *)
(* the place among the samples of that CPU.                                *)
(***************************************************************************)
EXTENDS Integers, Sequences, FiniteSets, CommandLine

CONSTANTS
  Options,     \* the options that may be on its command line
  Cpu,
  RingSize,    \* samples that the ring of a CPU holds
  MaxOptions,  \* bound: options of one command line
  MaxRuns,     \* bound: times the command is run
  MaxPackets,  \* bound: packets that arrive
  MaxSignals   \* bound: signals that are sent to one run

ASSUME SampleAssumption ==
  /\ Options \subseteq Option
  /\ Cpu # {} /\ RingSize \in Nat \ {0}
  /\ {MaxOptions, MaxRuns, MaxPackets, MaxSignals} \subseteq Nat

Signal == {"SIGINT", "SIGHUP", "SIGTERM"}

VARIABLES
  run,       \* how many times the command has been run; this run's number
  attached,  \* the runs whose program is on the interface
  undetached, \* not in the program: the runs whose last detach has failed
  outcome,   \* how each run has ended, or "runs"
  cfg, options, \* what is parsed of the command line, and how many options
  pc,        \* the next call of main(), or of print_bpf_output()
  ignored,   \* the signals that were ignored when the run began
  handled,   \* those that sig_handler() is installed for
  signals,   \* those that have been sent to this run
  handler,   \* the next call of the innermost one
  pb, pdumper, \* "none", in use, or "gone" but still pointed to
  packets,   \* packets that have arrived
  accepted,  \* how many samples of each CPU this run's rings took
  ring,      \* the samples in the rings
  sample,    \* the one that print_bpf_output() has
  file,      \* the samples in the file
  pcap_pkts

interface == <<attached, undetached, packets>>
command == <<run, outcome, cfg, options, ignored>>
caught == <<handled, signals, handler>>
perf == <<pb, accepted, ring>>
pcap == <<pdumper, sample, file, pcap_pkts>>
vars == <<interface, command, pc, caught, perf, pcap>>

NoSample == <<>>
EmptyRings == [c \in Cpu |-> <<>>]

Init ==
  /\ attached = {} /\ undetached = {} /\ packets = 0
  /\ run = 0 /\ outcome = [r \in 1 .. MaxRuns |-> "none"]
  /\ cfg = NoOptions /\ options = 0 /\ ignored = {}
  /\ pc = "ended"
  /\ handled = {} /\ signals = {} /\ handler = "none"
  /\ pb = "none" /\ accepted = [c \in Cpu |-> 0] /\ ring = EmptyRings
  /\ pdumper = "none" /\ sample = NoSample /\ file = <<>> /\ pcap_pkts = 0

\* A shell starts the command: nohup lets it ignore SIGHUP, a script's & SIGINT.
Start ==
  /\ pc = "ended" /\ run < MaxRuns
  /\ run' = run + 1 /\ outcome' = [outcome EXCEPT ![run + 1] = "runs"]
  /\ cfg' = NoOptions /\ options' = 0
  /\ ignored' \in SUBSET {"SIGHUP", "SIGINT"}
  /\ pc' = "options"
  /\ handled' = {} /\ signals' = {} /\ handler' = "none"
  /\ pb' = "none" /\ accepted' = [c \in Cpu |-> 0]
  /\ pdumper' = "none" /\ sample' = NoSample /\ pcap_pkts' = 0
  /\ UNCHANGED <<interface, ring, file>>

\* The process is gone and with it its rings; the program stays if it was not detached.
Ends(how) ==
  /\ outcome' = [outcome EXCEPT ![run] = how]
  /\ pc' = "ended"
  /\ pb' = "none" /\ ring' = EmptyRings
  /\ UNCHANGED <<run, cfg, options, ignored, accepted>>

-----------------------------------------------------------------------------
(* main()                                                                  *)

\* One call of main(), which does not run while the handler does.
At(from) == pc = from /\ handler = "none"

Goes(from, to) ==
  /\ At(from)
  /\ pc' = to
  /\ UNCHANGED <<run, outcome, ignored>>

Returns(from, how) ==
  /\ At(from)
  /\ Ends(how)
  /\ UNCHANGED <<interface, caught, pcap>>

ParseOption ==
  \E option \in Options \ Refused :
    /\ Goes("options", "options")
    /\ options < MaxOptions
    /\ options' = options + 1
    /\ cfg' = Applied(cfg, option)
    /\ UNCHANGED <<interface, caught, perf, pcap>>

\* An option that is not accepted, or reading on behind the table.
ParseFails ==
  \E option \in Options :
    /\ options < MaxOptions
    /\ \/ option \in Refused /\ Returns("options", "usage")
       \/ option \in ReadsOn /\ Returns("options", "crashed")

\* No --dev; no memory to lock; xdp_program__create() fails; xdp_program__attach() does.
NotAttached ==
  \/ "ifindex" \notin cfg.given /\ Returns("options", "usage")
  \/ "ifindex" \in cfg.given /\ Returns("options", "failed")

Attach ==
  /\ "ifindex" \in cfg.given
  /\ Goes("options", "find_map")
  /\ attached' = attached \union {run}
  /\ UNCHANGED <<undetached, packets, cfg, options, caught, perf, pcap>>

NextMap ==
  /\ Goes("find_map", "SIGINT")
  /\ UNCHANGED <<interface, cfg, options, caught, perf, pcap>>

\* signal() of the three, one after the other; a handler, or SIG_IGN, that was there
\* before counts as an error.
InstallHandler ==
  \E sig \in Signal \ ignored :
    /\ Goes(sig, CASE sig = "SIGINT" -> "SIGHUP"
                   [] sig = "SIGHUP" -> "SIGTERM"
                   [] sig = "SIGTERM" -> "perf_buffer")
    /\ handled' = handled \union {sig}
    /\ UNCHANGED <<interface, cfg, options, signals, handler, perf, pcap>>

NewPerfBuffer ==
  /\ Goes("perf_buffer", "open_dead")
  /\ pb' = "new"
  /\ UNCHANGED <<interface, cfg, options, caught, accepted, ring, pcap>>

\* These exits do not detach the program.
FailsAttached ==
  \/ Returns("find_map", "left")
  \/ \E sig \in ignored : Returns(sig, "left")
  \/ Returns("perf_buffer", "left")

OpenDead ==
  /\ Goes("open_dead", "dump_open")
  /\ UNCHANGED <<interface, cfg, options, caught, perf, pcap>>

\* pcap_dump_open() empties the file of an earlier run.
DumpOpen ==
  /\ Goes("dump_open", "poll")
  /\ pdumper' = "new" /\ file' = <<>>
  /\ UNCHANGED <<interface, cfg, options, caught, perf, sample, pcap_pkts>>

\* Either of them fails: perf_buffer__free(), which leaves pb as it is, ...
PcapFails ==
  \E from \in {"open_dead", "dump_open"} :
    /\ Goes(from, "out")
    /\ pb' = "gone" /\ ring' = EmptyRings
    /\ UNCHANGED <<interface, cfg, options, caught, accepted, pcap>>

\* xdp_program__detach(): nobody looks at its result.
Detach ==
  \/ attached' = attached \ {run} /\ undetached' = undetached \ {run}
  \/ /\ run \in attached
     /\ undetached' = undetached \union {run}
     /\ UNCHANGED attached

\* ... and xdp_program__detach().
Out ==
  /\ At("out")
  /\ Detach
  /\ Ends("failed")
  /\ UNCHANGED <<packets, caught, pcap>>

\* Mutation: the ring wakes its reader up for every second sample.
Ready_Second(c) == Len(ring[c]) >= 2

\* perf_buffer__new() lets a ring wake its reader up for every sample.
Ready(c) == ring[c] # <<>>

\* perf_buffer__poll() calls print_bpf_output() for every sample of the ready rings.
Poll(c) ==
  /\ Ready(c)
  /\ Goes("poll", "dump")
  /\ sample' = Head(ring[c])
  /\ ring' = [ring EXCEPT ![c] = Tail(@)]
  /\ UNCHANGED <<interface, cfg, options, caught, pb, accepted, pdumper, file, pcap_pkts>>

\* epoll_wait() is interrupted when the process is stopped and continues (^Z, fg).
PollFails == Returns("poll", "left")

\* Mutation: what is not shown is not written either.
Written_Verbose == IF "quiet" \in cfg.given THEN file ELSE Append(file, sample)

Written == Append(file, sample)

PcapDump ==
  /\ Goes("dump", "count")
  /\ file' = Written
  /\ UNCHANGED <<interface, cfg, options, caught, perf, pdumper, sample, pcap_pkts>>

CountSample ==
  /\ Goes("count", "poll")
  /\ pcap_pkts' = pcap_pkts + 1 /\ sample' = NoSample
  /\ UNCHANGED <<interface, cfg, options, caught, perf, pdumper, file>>

Main ==
  \/ ParseOption \/ ParseFails \/ NotAttached \/ Attach \/ NextMap \/ InstallHandler
  \/ NewPerfBuffer \/ FailsAttached \/ OpenDead \/ DumpOpen \/ PcapFails \/ Out
  \/ (\E c \in Cpu : Poll(c)) \/ PcapDump \/ CountSample

-----------------------------------------------------------------------------
(* The signals                                                             *)

Sends(sig) ==
  /\ run > 0 /\ pc # "ended"
  /\ sig \notin signals /\ Cardinality(signals) < MaxSignals
  /\ signals' = signals \union {sig}

\* A signal without a handler kills the process, unless it is ignored.
Kill ==
  \E sig \in Signal \ (handled \union ignored) :
    /\ Sends(sig)
    /\ Ends("left")
    /\ UNCHANGED <<interface, handled, handler, pcap>>

\* Mutation: the program is detached in the end.
Calls_DetachLast == <<"free", "close", "detach", "exit">>

\* The calls of sig_handler().
Calls == <<"detach", "free", "close", "exit">>

\* It begins. While it runs only the same signal is blocked.
Deliver ==
  \E sig \in handled :
    /\ Sends(sig)
    /\ handler' = Calls[1]
    /\ UNCHANGED <<interface, command, pc, handled, perf, pcap>>

\* The handler that is innermost makes one of its calls.
Handles(call) ==
  /\ pc # "ended" /\ handler = call
  /\ \E i \in 1 .. Len(Calls) - 1 : Calls[i] = call /\ handler' = Calls[i + 1]
  /\ UNCHANGED <<command, pc, handled, signals>>

\* xdp_multiprog__get_from_ifindex(), and xdp_program__detach() in the mode that it has
\* found, if it has.
HandlerDetach ==
  /\ Handles("detach")
  /\ Detach
  /\ UNCHANGED <<packets, perf, pcap>>

\* They allocate memory: when the signal came inside malloc() they wait for ever.
HandlerHangs ==
  /\ handler = "detach" /\ pc # "ended"
  /\ Ends("left")
  /\ UNCHANGED <<interface, caught, pcap>>

HandlerFree ==
  /\ Handles("free")
  /\ pb' = IF pb = "new" THEN "gone" ELSE pb
  /\ ring' = EmptyRings
  /\ UNCHANGED <<interface, accepted, pcap>>

HandlerClose ==
  /\ pdumper # "none"
  /\ Handles("close")
  /\ pdumper' = "gone"
  /\ UNCHANGED <<interface, perf, sample, file, pcap_pkts>>

\* What was freed is freed again, and what stdio had not written yet is lost.
FreeCrashes ==
  /\ handler = "free" /\ pb = "gone" /\ pc # "ended"
  /\ Ends("crashed")
  /\ \E n \in 0 .. Len(file) :
       file' = IF pdumper = "new" THEN SubSeq(file, 1, n) ELSE file
  /\ UNCHANGED <<interface, caught, pdumper, sample, pcap_pkts>>

\* The file was not opened yet, or it is closed again.
CloseCrashes ==
  /\ handler = "close" /\ pdumper # "new" /\ pc # "ended"
  /\ Ends("crashed")
  /\ UNCHANGED <<interface, caught, pcap>>

HandlerExits ==
  /\ handler = "exit" /\ pc # "ended"
  /\ Ends("done")
  /\ UNCHANGED <<interface, caught, pcap>>

Handler ==
  \/ HandlerDetach \/ HandlerHangs \/ HandlerFree \/ HandlerClose
  \/ FreeCrashes \/ CloseCrashes \/ HandlerExits

-----------------------------------------------------------------------------
(* xdp_sample_prog of every run that is on the interface.                  *)

\* Mutation: a sample goes into a full ring.
Takes_Full(c) == run \in attached /\ pb = "new"

\* bpf_perf_event_output() finds no ring of an earlier run or of this one before
\* perf_buffer__new(), and does not wait for room in a full one.
Takes(c) == run \in attached /\ pb = "new" /\ Len(ring[c]) < RingSize

Packet(c) ==
  /\ packets < MaxPackets
  /\ packets' = packets + 1
  /\ IF Takes(c)
     THEN /\ accepted' = [accepted EXCEPT ![c] = @ + 1]
          /\ ring' = [ring EXCEPT ![c] = Append(@, <<c, accepted[c] + 1>>)]
     ELSE UNCHANGED <<accepted, ring>>
  /\ UNCHANGED <<attached, undetached, command, pc, caught, pb, pcap>>

-----------------------------------------------------------------------------

Next == Start \/ Main \/ PollFails \/ Kill \/ Deliver \/ Handler \/ \E c \in Cpu : Packet(c)

Spec == Init /\ [][Next]_vars

\* A process runs unless it waits, and nobody has to interrupt its poll.
\* perf_buffer__poll() does not come back before it has read all rings that were ready.
FairSpec ==
  /\ Spec
  /\ WF_vars(Main) /\ WF_vars(Handler)
  /\ \A c \in Cpu : SF_vars(Poll(c))

-----------------------------------------------------------------------------
(* Properties.                                                             *)

Outcome == {"none", "runs", "usage", "failed", "left", "crashed", "done"}

TypeOK ==
  /\ run \in 0 .. MaxRuns /\ attached \subseteq 1 .. run /\ undetached \subseteq 1 .. run
  /\ outcome \in [1 .. MaxRuns -> Outcome]
  /\ cfg \in Config /\ options \in 0 .. MaxOptions
  /\ ignored \subseteq Signal /\ handled \subseteq Signal
  /\ signals \subseteq Signal
  /\ pc \in Signal \union {"ended", "options", "find_map", "perf_buffer", "open_dead",
                           "dump_open", "out", "poll", "dump", "count"}
  /\ handler \in {"none", "detach", "free", "close", "exit"}
  /\ pb \in {"none", "new", "gone"} /\ pdumper \in {"none", "new", "gone"}
  /\ packets \in 0 .. MaxPackets /\ pcap_pkts \in 0 .. MaxPackets
  /\ accepted \in [Cpu -> 0 .. MaxPackets]
  /\ \A c \in Cpu : Len(ring[c]) <= RingSize

\* "Cleaning up...": whenever the handler has run, at whatever step of main(), even
\* when it or a second signal then crashes the process, and after a failure of pcap,
\* the program is off the interface, unless xdp_program__detach() itself has failed.
\* One that stays without such a failure is of a run that still runs, or that a signal
\* without a handler, a hanging handler, or an exit of main() that does not detach has
\* ended.
CleanRuns == \A r \in attached \ undetached : outcome[r] \in {"runs", "left"}

\* What the rings have taken is in the file, once and in the order of its CPU, or is
\* still in the ring; a process that is ended by the signals leaves a part of it that
\* has no holes, and what it reports is at most one less.
Stored(c) == Cardinality({i \in DOMAIN file : file[i][1] = c})
InHand(c) == IF pc = "dump" /\ sample[1] = c THEN 1 ELSE 0
Place(i) == Cardinality({j \in 1 .. i : file[j][1] = file[i][1]})
SamplesKept ==
  /\ \A i \in DOMAIN file : file[i] = <<file[i][1], Place(i)>>
  /\ pb = "new" /\ pdumper = "new" =>
       \A c \in Cpu :
         LET taken == Stored(c) + InHand(c)
         IN  /\ accepted[c] = taken + Len(ring[c])
             /\ \A i \in DOMAIN ring[c] : ring[c][i] = <<c, taken + i>>
             /\ InHand(c) = 1 => sample = <<c, taken>>
  /\ run > 0 /\ outcome[run] = "done" => Len(file) - pcap_pkts \in {0, 1}

\* A sample that has entered a ring is written, unless the process ends.
SamplesStored ==
  \A c \in Cpu, n \in 1 .. MaxPackets :
    accepted[c] >= n /\ pb = "new" ~> pb # "new" \/ \E i \in DOMAIN file : file[i] = <<c, n>>

=============================================================================
