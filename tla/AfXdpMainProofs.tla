--------------------------- MODULE AfXdpMainProofs ---------------------------
(***************************************************************************)
(* The safety properties of AfXdpMain for any number of CPUs, packets and  *)
(* signals and any size of a batch.                                        *)
(***************************************************************************)
EXTENDS AfXdpMain, TLAPS

Pc == {"attach", "find_map", "memory", "socket", "update_map", "thread", "test",
       "poll", "polling", "receive", "process", "delete", "done", "failed"}

\* The program points before main(), or libxdp in its place, attaches a program.
NotYet == pc = "attach" \/ (pc \in {"memory", "socket"} /\ ~cfg.custom)

\* CleanExit: SIGINT can detach only what has been attached, which happens once.
Attached ==
  /\ cfg \in [custom : BOOLEAN, poll : BOOLEAN, verbose : BOOLEAN]
  /\ pc \in Pc /\ attached \in {"none", "custom", "default"}
  /\ pc \in {"attach", "find_map", "update_map"} => cfg.custom
  /\ attached = "custom" => cfg.custom
  /\ NotYet => attached = "none" /\ ~unloaded
  /\ CleanExit

\* The batch that main() has counted in part: its packets are still on the ring, and
\* the bytes are ahead by as many as it has gone through.
Batch ==
  /\ arrived \in Nat /\ ring \in Nat /\ ring <= arrived
  /\ rcvd \in 0 .. RxBatchSize /\ i \in 0 .. rcvd
  /\ stats \in [Field -> Nat]
  /\ pc = "process" => rcvd <= ring
  /\ stats["bytes"] = stats["packets"] + (IF pc = "process" THEN i ELSE 0)

\* What the thread has copied is not ahead of the record, and what it has shown not
\* ahead of the copy, except for the fields that it has shown in this round and not
\* copied yet.
Sane ==
  /\ previous_stats \in [Field -> Nat] /\ shown \in [Field -> Nat]
  /\ poller \in {"off", "test", "print", "copy"} /\ todo \subseteq Field
  /\ pc \in {"attach", "find_map", "memory", "socket", "update_map", "thread"} => poller = "off"
  /\ \A f \in Field :
       /\ previous_stats[f] <= stats[f] /\ shown[f] <= stats[f]
       /\ \/ poller = "print" /\ f \notin todo
          \/ poller = "copy" /\ f \in todo
          \/ shown[f] <= previous_stats[f]

\* The rest of the types.
Kernel ==
  /\ entry \in BOOLEAN /\ unloaded \in BOOLEAN /\ global_exit \in BOOLEAN
  /\ pkt_count \in [Cpu -> {0, 1}] /\ arrived <= MaxPackets
  /\ handler \in [Thread -> {"idle", "unload", "exit", "stuck"}]
  /\ signals \in 0 .. MaxSignals

Inv == Attached /\ Batch /\ Sane /\ Kernel

-----------------------------------------------------------------------------

LEMMA InvInit == Init => Inv
<1> SUFFICES ASSUME Init PROVE Inv
  OBVIOUS
<1>1. Attached
  BY DEF Init, Attached, NotYet, CleanExit, Pc
<1>2. Batch /\ Sane
  BY MainAssumption DEF MainAssumption, Init, Batch, Sane, Zero, Field
<1>3. Kernel
  <2>1. entry = FALSE /\ unloaded = FALSE /\ global_exit = FALSE
    BY DEF Init
  <2>2. /\ pkt_count \in [Cpu -> {0, 1}] /\ arrived <= MaxPackets /\ signals \in 0 .. MaxSignals
        /\ handler \in [Thread -> {"idle", "unload", "exit", "stuck"}]
    BY MainAssumption DEF MainAssumption, Init
  <2> QED
    BY <2>1, <2>2 DEF Kernel
<1> QED
  BY <1>1, <1>2, <1>3 DEF Inv

\* main(): the start, and the loop.
LEMMA MainFact == Inv /\ (MainStep \/ StartFails) => Inv'
<1> SUFFICES ASSUME Inv, MainStep \/ StartFails PROVE Inv'
  OBVIOUS
<1> USE MainAssumption DEF MainAssumption, kern, receive, thread, shutdown, Inv, Attached,
     NotYet, CleanExit, Pc, Batch, Sane, Kernel, Field, Thread, Smaller
<1>1. CASE Attach
  BY <1>1 DEF Attach, Main
<1>2. CASE Prepare
  BY <1>2 DEF Prepare, Main
<1>3. CASE Socket
  BY <1>3 DEF Socket, Main
<1>4. CASE UpdateMap
  BY <1>4 DEF UpdateMap, Main
<1>5. CASE StartThread
  BY <1>5 DEF StartThread, Main
<1>6. CASE StartFails
  BY <1>6 DEF StartFails, Main
<1>7. CASE Test
  BY <1>7 DEF Test, Main
<1>8. CASE Poll
  BY <1>8 DEF Poll, Main
<1>9. CASE PeekRx
  BY <1>9 DEF PeekRx, Main
<1>10. CASE CountBytes
  BY <1>10 DEF CountBytes, Main
<1>11. CASE CountPackets
  BY <1>11 DEF CountPackets, Main
<1>12. CASE Delete
  BY <1>12 DEF Delete, Main
<1> QED
  BY <1>1, <1>2, <1>3, <1>4, <1>5, <1>6, <1>7, <1>8, <1>9, <1>10, <1>11, <1>12 DEF MainStep

\* The statistics thread.
LEMMA PollerFact == Inv /\ PollerStep => Inv'
<1> SUFFICES ASSUME Inv, PollerStep PROVE Inv'
  OBVIOUS
<1> USE MainAssumption DEF MainAssumption, kern, receive, thread, shutdown, Inv, Attached,
     NotYet, CleanExit, Pc, Batch, Sane, Kernel, Field, Thread, Smaller
<1>1. CASE PollerTest
  BY <1>1 DEF PollerTest, Poller, Ended
<1>2. CASE PrintField
  BY <1>2 DEF PrintField, Poller, Ended
<1>3. CASE CopyField
  BY <1>3 DEF CopyField, Poller, Ended
<1> QED
  BY <1>1, <1>2, <1>3 DEF PollerStep

\* The handler, on either thread.
LEMMA HandlerFact == Inv /\ (Sigint \/ HandlerStep) => Inv'
<1> SUFFICES ASSUME Inv, Sigint \/ HandlerStep PROVE Inv'
  OBVIOUS
<1> USE MainAssumption DEF MainAssumption, kern, receive, thread, shutdown, Inv, Attached,
     NotYet, CleanExit, Pc, Batch, Sane, Kernel, Field, Thread, Smaller
<1>1. CASE Sigint
  <2>1. Attached'
    BY <1>1 DEF Sigint, Handler, Ended
  <2>2. Kernel'
    BY <1>1 DEF Sigint, Handler, Ended
  <2>3. Batch' /\ Sane'
    BY <1>1 DEF Sigint, Handler, Ended
  <2> QED
    BY <2>1, <2>2, <2>3
<1>2. CASE \E t \in Thread : Unload(t)
  <2>1. Attached'
    BY <1>2 DEF Unload, Handler, Ended
  <2>2. Kernel'
    <3>1. (unloaded' = unloaded \/ unloaded' = TRUE) /\ UNCHANGED <<entry, global_exit>>
      BY <1>2 DEF Unload
    <3>2. handler' \in [Thread -> {"idle", "unload", "exit", "stuck"}]
      BY <1>2 DEF Unload, Handler
    <3> QED
      BY <1>2, <3>1, <3>2 DEF Unload, Handler
  <2>3. Batch' /\ Sane'
    BY <1>2 DEF Unload, Handler, Ended
  <2> QED
    BY <2>1, <2>2, <2>3
<1>3. CASE \E t \in Thread : Stuck(t)
  <2>1. Attached' /\ Kernel'
    BY <1>3 DEF Stuck, Handler, Ended
  <2>2. Batch' /\ Sane'
    BY <1>3 DEF Stuck, Handler, Ended
  <2> QED
    BY <2>1, <2>2
<1>4. CASE \E t \in Thread : Return(t)
  <2>1. Attached' /\ Kernel'
    BY <1>4 DEF Return, Handler, Ended
  <2>2. Batch' /\ Sane'
    BY <1>4 DEF Return, Handler, Ended
  <2> QED
    BY <2>1, <2>2
<1> QED
  BY <1>1, <1>2, <1>3, <1>4 DEF HandlerStep

\* A packet on any CPU.
LEMMA PacketFact == Inv /\ (\E c \in Cpu : Packet(c)) => Inv'
<1> SUFFICES ASSUME Inv, \E c \in Cpu : Packet(c) PROVE Inv'
  OBVIOUS
<1> USE MainAssumption DEF MainAssumption, kern, receive, thread, shutdown, Inv, Attached,
     NotYet, CleanExit, Pc, Batch, Sane, Kernel, Field, Thread, Smaller
<1> QED
  BY DEF Packet, Passed

LEMMA InvStep == Inv /\ [Next]_vars => Inv'
<1>1. Inv /\ UNCHANGED vars => Inv'
  BY DEF vars, kern, receive, thread, shutdown, Inv, Attached, NotYet, CleanExit, Pc, Batch,
     Sane, Kernel, Field, Thread
<1> QED
  BY <1>1, MainFact, PollerFact, HandlerFact, PacketFact DEF Next

LEMMA Invariant == Spec => []Inv
BY InvInit, InvStep, PTL DEF Spec

-----------------------------------------------------------------------------

\* The types, for any number of CPUs, packets and signals.
THEOREM TypeTheorem == Spec => []TypeOK
<1>1. Inv => TypeOK
  BY MainAssumption DEF MainAssumption, Inv, Attached, Batch, Sane, Kernel, Pc, TypeOK
<1> QED
  BY <1>1, Invariant, PTL

\* Whatever main() is doing when SIGINT comes, and however often: what the handler has
\* detached stays detached, and libxdp's own program is gone at a normal end.
THEOREM CleanExitTheorem == Spec => []CleanExit
<1>1. Inv => CleanExit
  BY DEF Inv, Attached
<1> QED
  BY <1>1, Invariant, PTL

\* The statistics of a record that is read without a lock, for any batch size: no
\* negative difference, nothing shown twice, the two fields at most a batch apart.
THEOREM StatsSaneTheorem == Spec => []StatsSane
<1>1. Inv => StatsSane
  BY MainAssumption DEF MainAssumption, Inv, Batch, Sane, Field, StatsSane
<1> QED
  BY <1>1, Invariant, PTL
=============================================================================
