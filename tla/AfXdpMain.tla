------------------------------ MODULE AfXdpMain ------------------------------
(***************************************************************************)
(* The life of advanced03-AF_XDP/af_xdp_user.c: main() attaches a program, *)
(* opens the socket, starts the statistics thread and receives until the   *)
(* SIGINT handler has set global_exit.  Three things run side by side:     *)
(* main(), the statistics thread, and the handler, which runs on one of    *)
(* these two threads and stops it meanwhile.  The attached program         *)
(* (af_xdp_kern.c, or libxdp's own) runs once for every packet, on any CPU.*)
(*                                                                         *)
(* The frames of the rings are the subject of AfXdpUser: here the rx ring  *)
(* is the number of its packets, and a packet has one byte.                *)
(***************************************************************************)
EXTENDS Integers, XskRings

CONSTANTS
  Cpu,          \* the CPUs that run the XDP program
  RxBatchSize,  \* RX_BATCH_SIZE
  MaxPackets,   \* bound: packets that arrive
  MaxSignals    \* bound: SIGINTs that are sent

ASSUME MainAssumption ==
  /\ Cpu # {} /\ RxBatchSize \in Nat \ {0}
  /\ MaxPackets \in Nat /\ MaxSignals \in Nat

VARIABLES
  cfg,          \* what the command line asks for
  pc,           \* the next call of main()
  attached,     \* the program on the interface: "none", "custom", "default"
  entry,        \* the socket is in the program's xsks_map
  pkt_count,    \* xdp_stats_map of af_xdp_kern.c: the parity of each CPU's count
  arrived,      \* packets that have reached the attached program
  ring,         \* packets on the rx ring that are not released
  rcvd, i,      \* the locals of handle_receive_packets()
  stats,        \* xsk_socket->stats, which main() writes
  previous_stats, \* of stats_poll()
  shown,        \* the sum of all the differences stats_print() has shown
  poller,       \* the next step of the statistics thread
  todo,         \* the fields it has not read or copied in this step
  handler,      \* what exit_application() does next, on each thread
  signals,      \* SIGINTs sent
  unloaded,     \* a do_unload() has succeeded
  global_exit

kern == <<attached, entry, pkt_count, arrived>>
receive == <<rcvd, i, stats>>
thread == <<previous_stats, shown, poller, todo>>
shutdown == <<handler, signals, unloaded, global_exit>>
vars == <<cfg, pc, ring, kern, receive, thread, shutdown>>

Field == {"packets", "bytes"}
Thread == {"main", "stats"}
Ended == pc \in {"done", "failed"}
Zero == [f \in Field |-> 0]

Init ==
  /\ cfg \in [custom : BOOLEAN, poll : BOOLEAN, verbose : BOOLEAN]
  /\ pc = IF cfg.custom THEN "attach" ELSE "memory"
  /\ attached = "none" /\ entry = FALSE
  /\ pkt_count = [c \in Cpu |-> 0]
  /\ arrived = 0 /\ ring = 0
  /\ rcvd = 0 /\ i = 0
  /\ stats = Zero /\ previous_stats = Zero /\ shown = Zero
  /\ poller = "off" /\ todo = {}
  /\ handler = [t \in Thread |-> "idle"]
  /\ signals = 0 /\ unloaded = FALSE /\ global_exit = FALSE

-----------------------------------------------------------------------------
(* main()                                                                  *)

\* main() goes from one call to another, unless the handler runs on its thread.
Main(from, to) ==
  /\ pc = from
  /\ handler["main"] = "idle"
  /\ pc' = to
  /\ UNCHANGED <<cfg, shutdown>>

\* xdp_program__create() and xdp_program__attach().
Attach ==
  /\ Main("attach", "find_map")
  /\ attached' = "custom"
  /\ UNCHANGED <<entry, pkt_count, arrived, ring, receive, thread>>

\* bpf_object__find_map_by_name(); setrlimit(), posix_memalign(), configure_xsk_umem().
Prepare ==
  /\ \/ Main("find_map", "memory")
     \/ Main("memory", "socket")
  /\ UNCHANGED <<kern, ring, receive, thread>>

\* xsk_socket__create(): without a program of the user's own, libxdp attaches its
\* default program and enters the socket in its map.
Socket ==
  /\ IF cfg.custom
     THEN /\ Main("socket", "update_map")
          /\ UNCHANGED <<attached, entry>>
     ELSE /\ Main("socket", "thread")
          /\ attached' = "default" /\ entry' = TRUE
  /\ UNCHANGED <<pkt_count, arrived, ring, receive, thread>>

\* xsk_socket__update_xskmap()
UpdateMap ==
  /\ Main("update_map", "thread")
  /\ entry' = TRUE
  /\ UNCHANGED <<attached, pkt_count, arrived, ring, receive, thread>>

\* pthread_create(), if verbose.
StartThread ==
  /\ Main("thread", "test")
  /\ poller' = IF cfg.verbose THEN "test" ELSE "off"
  /\ UNCHANGED <<kern, ring, receive, previous_stats, shown, todo>>

\* Any call of the start can fail (the one before "thread" is the check of the
\* program's id or of the fill ring), and the program returns or exits at once: what
\* is attached stays attached. The socket goes with the process.
StartFails ==
  /\ pc \in {"attach", "find_map", "memory", "socket", "update_map", "thread"}
  /\ Main(pc, "failed")
  /\ entry' = FALSE
  /\ UNCHANGED <<attached, pkt_count, arrived, ring, receive, thread>>

\* Mutation: the test of global_exit comes after the first receive.
Test_Skipped ==
  /\ Main("test", IF cfg.poll THEN "poll" ELSE "receive")
  /\ UNCHANGED <<kern, ring, receive, thread>>

\* while(!global_exit)
Test ==
  /\ Main("test", IF global_exit THEN "delete"
                  ELSE IF cfg.poll THEN "poll" ELSE "receive")
  /\ UNCHANGED <<kern, ring, receive, thread>>

\* poll(fds, nfds, -1): the thread sleeps until there is a packet, or a signal that
\* comes during the call (Return, below).
Poll ==
  /\ \/ ring > 0 /\ Main("poll", "receive")
     \/ ring = 0 /\ Main("poll", "polling")
     \/ ring > 0 /\ Main("polling", "receive")
  /\ UNCHANGED <<kern, ring, receive, thread>>

\* Mutation: the peek always finds a whole batch.
PeekRx_WholeBatch ==
  /\ Main("receive", IF ring = 0 THEN "test" ELSE "process")
  /\ rcvd' = RxBatchSize
  /\ i' = 0
  /\ UNCHANGED <<kern, ring, stats, thread>>

\* handle_receive_packets(): the peek ...
PeekRx ==
  /\ Main("receive", IF ring = 0 THEN "test" ELSE "process")
  /\ rcvd' = Smaller(ring, RxBatchSize)
  /\ i' = 0
  /\ UNCHANGED <<kern, ring, stats, thread>>

\* ... the bytes of each packet ...
CountBytes ==
  /\ i < rcvd
  /\ Main("process", "process")
  /\ i' = i + 1
  /\ stats' = [stats EXCEPT !["bytes"] = @ + 1]
  /\ UNCHANGED <<kern, ring, rcvd, thread>>

\* ... and the release of the batch, with its packets.
CountPackets ==
  /\ i = rcvd
  /\ Main("process", "test")
  /\ ring' = ring - rcvd
  /\ stats' = [stats EXCEPT !["packets"] = @ + rcvd]
  /\ UNCHANGED <<kern, rcvd, i, thread>>

\* Mutation: the socket is closed, libxdp's program stays.
Delete_LeavesProgram ==
  /\ Main("delete", "done")
  /\ entry' = FALSE
  /\ UNCHANGED <<attached, pkt_count, arrived, ring, receive, thread>>

\* xsk_socket__delete() takes libxdp's own program with it, not the user's; the
\* statistics thread ends with the process.
Delete ==
  /\ Main("delete", "done")
  /\ entry' = FALSE
  /\ attached' = IF attached = "default" THEN "none" ELSE attached
  /\ UNCHANGED <<pkt_count, arrived, ring, receive, thread>>

MainStep ==
  \/ Attach \/ Prepare \/ Socket \/ UpdateMap \/ StartThread
  \/ Test \/ Poll \/ PeekRx \/ CountBytes \/ CountPackets \/ Delete

-----------------------------------------------------------------------------
(* stats_poll()                                                            *)

\* The thread goes from one step to another while the process lives.
Poller(from, to) ==
  /\ ~Ended
  /\ poller = from
  /\ handler["stats"] = "idle"
  /\ poller' = to
  /\ UNCHANGED <<cfg, pc, ring, kern, receive, shutdown>>

\* while (!global_exit), and sleep(interval).
PollerTest ==
  /\ Poller("test", IF global_exit THEN "off" ELSE "print")
  /\ todo' = IF global_exit THEN {} ELSE Field
  /\ UNCHANGED <<previous_stats, shown>>

\* stats_print() reads one field after the other, and shows the difference.
PrintField ==
  \E f \in todo :
    /\ Poller("print", IF todo = {f} THEN "copy" ELSE "print")
    /\ shown' = [shown EXCEPT ![f] = @ + stats[f] - previous_stats[f]]
    /\ todo' = IF todo = {f} THEN Field ELSE todo \ {f}
    /\ UNCHANGED previous_stats

\* Mutation: only the packets are copied.
CopyField_PacketsOnly ==
  \E f \in todo :
    /\ Poller("copy", IF todo = {f} THEN "test" ELSE "copy")
    /\ previous_stats' = [previous_stats EXCEPT !["packets"] = stats["packets"]]
    /\ todo' = todo \ {f}
    /\ UNCHANGED shown

\* previous_stats = xsk->stats, while main() goes on counting: what arrived since
\* the print is shown in no difference.
CopyField ==
  \E f \in todo :
    /\ Poller("copy", IF todo = {f} THEN "test" ELSE "copy")
    /\ previous_stats' = [previous_stats EXCEPT ![f] = stats[f]]
    /\ todo' = todo \ {f}
    /\ UNCHANGED shown

PollerStep == PollerTest \/ PrintField \/ CopyField

-----------------------------------------------------------------------------
(* exit_application()                                                      *)

Handler(t, from, to) ==
  /\ ~Ended
  /\ handler[t] = from
  /\ handler' = [handler EXCEPT ![t] = to]
  /\ UNCHANGED <<cfg, ring, receive, thread>>

\* SIGINT goes to main(), unless it is blocked there because the handler runs:
\* then to the other thread, if there is one.
Sigint ==
  /\ signals < MaxSignals
  /\ signals' = signals + 1
  /\ \/ Handler("main", "idle", "unload")
     \/ handler["main"] # "idle" /\ poller # "off" /\ Handler("stats", "idle", "unload")
  /\ UNCHANGED <<pc, kern, unloaded, global_exit>>

\* do_unload() with unload_all: it finds no program, or it detaches whatever is
\* there, which may fail.
Unload(t) ==
  /\ Handler(t, "unload", "exit")
  /\ \/ UNCHANGED <<attached, unloaded>>
     \/ attached # "none" /\ attached' = "none" /\ unloaded' = TRUE
  /\ UNCHANGED <<pc, entry, pkt_count, arrived, signals, global_exit>>

\* do_unload() allocates memory: it may wait for ever when the signal came during
\* a call that holds the allocator's lock on the same thread.
InLibc(t) ==
  IF t = "main" THEN pc \notin {"test", "poll", "polling", "receive", "process"}
                ELSE poller = "print"

Stuck(t) ==
  /\ InLibc(t)
  /\ Handler(t, "unload", "stuck")
  /\ UNCHANGED <<pc, kern, signals, unloaded, global_exit>>

\* The last statement of the handler, and the return: poll() ends with EINTR.
Return(t) ==
  /\ Handler(t, "exit", "idle")
  /\ global_exit' = TRUE
  /\ pc' = IF t = "main" /\ pc = "polling" THEN "test" ELSE pc
  /\ UNCHANGED <<kern, signals, unloaded>>

HandlerStep == \E t \in Thread : Unload(t) \/ Stuck(t) \/ Return(t)

-----------------------------------------------------------------------------
(* The XDP program: af_xdp_kern.c, or libxdp's default.                    *)

\* "We pass every other packet", by a count that each CPU keeps for itself.
Passed(c) == attached = "custom" /\ pkt_count[c] = 1

Packet(c) ==
  /\ attached # "none"
  /\ arrived < MaxPackets
  /\ arrived' = arrived + 1
  /\ pkt_count' = IF attached = "custom"
                  THEN [pkt_count EXCEPT ![c] = 1 - @] ELSE pkt_count
  /\ ring' = IF ~Passed(c) /\ entry THEN ring + 1 ELSE ring
  /\ UNCHANGED <<cfg, pc, attached, entry, receive, thread, shutdown>>

-----------------------------------------------------------------------------

\* After the end only a program that was left behind still sees packets.
Next ==
  \/ MainStep \/ StartFails \/ PollerStep
  \/ Sigint \/ HandlerStep
  \/ \E c \in Cpu : Packet(c)

Spec == Init /\ [][Next]_vars

\* Both threads and the handler are scheduled; nobody has to send a packet or a
\* signal.
FairSpec ==
  /\ Spec
  /\ WF_vars(MainStep) /\ WF_vars(PollerStep) /\ WF_vars(HandlerStep)

-----------------------------------------------------------------------------
(* Properties.                                                             *)

TypeOK ==
  /\ cfg \in [custom : BOOLEAN, poll : BOOLEAN, verbose : BOOLEAN]
  /\ pc \in {"attach", "find_map", "memory", "socket", "update_map", "thread", "test",
             "poll", "polling", "receive", "process", "delete", "done", "failed"}
  /\ attached \in {"none", "custom", "default"} /\ entry \in BOOLEAN
  /\ pkt_count \in [Cpu -> {0, 1}]
  /\ arrived \in 0 .. MaxPackets
  /\ ring \in 0 .. arrived /\ rcvd \in 0 .. RxBatchSize /\ i \in 0 .. rcvd
  /\ stats \in [Field -> Nat] /\ previous_stats \in [Field -> Nat]
  /\ shown \in [Field -> Nat]
  /\ poller \in {"off", "test", "print", "copy"} /\ todo \subseteq Field
  /\ handler \in [Thread -> {"idle", "unload", "exit", "stuck"}]
  /\ signals \in 0 .. MaxSignals
  /\ unloaded \in BOOLEAN /\ global_exit \in BOOLEAN

\* A program that SIGINT has detached is never attached again, whatever main() was
\* doing; and without a program of the user's own nothing is left on the interface
\* when main() has returned, even if SIGINT came before the attach.
CleanExit ==
  /\ unloaded => attached = "none"
  /\ pc = "done" /\ ~cfg.custom => attached = "none"

\* The statistics thread reads a record that is being written, field by field: no
\* difference it shows is negative (they are unsigned), no packet is shown in two
\* of them, and the fields are never further apart than one batch.
StatsSane ==
  /\ \A f \in Field : previous_stats[f] <= stats[f] /\ shown[f] <= stats[f]
  /\ stats["packets"] <= stats["bytes"]
  /\ stats["bytes"] <= stats["packets"] + RxBatchSize

\* "Global shutdown handler": once global_exit is set the program ends, or hangs in
\* a second handler that waits for the allocator.
GlobalShutdown == global_exit ~> Ended \/ handler["main"] = "stuck"

\* This holds without --poll-mode.
BusyPollShutdown == global_exit /\ ~cfg.poll ~> Ended \/ handler["main"] = "stuck"

=============================================================================
