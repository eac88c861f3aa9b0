------------------------------ MODULE AfXdpUser ------------------------------
(***************************************************************************)
(* The receive loop of advanced03-AF_XDP/af_xdp_user.c and the kernel on   *)
(* the other side of its four rings: how a UMEM frame travels from the     *)
(* free stack over the fill ring, the kernel and the rx ring back to the   *)
(* stack, or over the tx ring, the NIC and the completion ring.            *)
(*                                                                         *)
(* A ring is the sequence of its submitted and unreleased entries          *)
(* (XskRings).  A frame is its chunk number: the kernel adds a headroom to *)
(* the address it delivers and masks it off when the address comes back.   *)
(* The user program is one thread; pc says which call of                   *)
(* handle_receive_packets() it makes next.  The kernel's actions interleave*)
(* between any two of them.                                                *)
(***************************************************************************)
EXTENDS XskRings, FiniteSets, Functions

CONSTANTS
  NumFrames,   \* NUM_FRAMES
  FillSize,    \* XSK_RING_PROD__DEFAULT_NUM_DESCS, the fill ring
  RxSize,      \* XSK_RING_CONS__DEFAULT_NUM_DESCS, the rx ring
  TxSize,      \* XSK_RING_PROD__DEFAULT_NUM_DESCS, the tx ring
  CqSize,      \* XSK_RING_CONS__DEFAULT_NUM_DESCS, the completion ring
  RxBatchSize, \* RX_BATCH_SIZE
  KernelMax,   \* frames the kernel may hold between the fill and the rx ring
  ReplyEnabled \* FALSE: `if (false)' of process_packet(); TRUE: Lesson 3 enabled

\* "We assume we have enough": the frames can fill the fill ring once.
ASSUME SizesAssumption ==
  /\ NumFrames \in Nat \ {0} /\ FillSize \in Nat \ {0} /\ RxSize \in Nat \ {0}
  /\ TxSize \in Nat \ {0} /\ CqSize \in Nat \ {0}
  /\ RxBatchSize \in Nat \ {0} /\ KernelMax \in Nat \ {0}
  /\ FillSize <= NumFrames
  /\ ReplyEnabled \in BOOLEAN

VARIABLES
  umem_frame_addr, \* umem_frame_addr[0 .. umem_frame_free - 1], the free stack
  outstanding_tx,
  fq, rx, tx, cq,  \* the rings
  fq_free, tx_free, rx_avail, cq_avail, \* the program's cached view of each ring
  pc,              \* the next call of the program
  rcvd, stock_frames, i, \* the locals of handle_receive_packets()
  held,            \* frames taken off the fill ring, not yet on the rx ring
  inflight,        \* frames taken off the tx ring, not yet on the completion ring
  kicked           \* sendto() has asked the kernel to transmit

views == <<fq_free, tx_free, rx_avail, cq_avail>>
program == <<umem_frame_addr, outstanding_tx, views, pc, rcvd, stock_frames, i>>
kernel == <<held, inflight, kicked>>
vars == <<program, kernel, fq, rx, tx, cq>>

Frame == 0 .. NumFrames - 1
INVALID_UMEM_FRAME == -1

Init ==
  /\ umem_frame_addr = [k \in 1 .. NumFrames |-> k - 1]
  /\ outstanding_tx = 0
  /\ fq = <<>> /\ rx = <<>> /\ tx = <<>> /\ cq = <<>>
  /\ fq_free = FillSize /\ tx_free = TxSize /\ rx_avail = 0 /\ cq_avail = 0
  /\ pc = "configure"
  /\ rcvd = 0 /\ stock_frames = 0 /\ i = 0
  /\ held = {} /\ inflight = {} /\ kicked = FALSE

-----------------------------------------------------------------------------
(* The free stack.                                                         *)

xsk_umem_free_frames == Len(umem_frame_addr)

\* Mutations, here and below: an off-by-one in the test for an empty stack, and an
\* allocation that does not lower umem_frame_free.
Allocated_KeepsLast(n) ==
  [k \in 1 .. n |-> IF k < xsk_umem_free_frames
                    THEN umem_frame_addr[xsk_umem_free_frames + 1 - k]
                    ELSE INVALID_UMEM_FRAME]
AllocRest_KeepsTop(n) == umem_frame_addr

\* n calls of xsk_alloc_umem_frame(): the top of the stack first, and
\* INVALID_UMEM_FRAME once the stack is empty.
Allocated(n) ==
  [k \in 1 .. n |-> IF k <= xsk_umem_free_frames
                    THEN umem_frame_addr[xsk_umem_free_frames + 1 - k]
                    ELSE INVALID_UMEM_FRAME]

AllocRest(n) ==
  SubSeq(umem_frame_addr, 1, xsk_umem_free_frames - Smaller(n, xsk_umem_free_frames))

xsk_free_umem_frame(frame) == umem_frame_addr' = Append(umem_frame_addr, frame)

-----------------------------------------------------------------------------
(* The program.                                                            *)

\* Mutation: the ring is stuffed and submitted without a reserve.
Configure_NoReserve ==
  /\ pc = "configure"
  /\ fq' = Allocated(FillSize)
  /\ umem_frame_addr' = AllocRest(FillSize)
  /\ pc' = "rx"
  /\ UNCHANGED <<views, outstanding_tx, rcvd, stock_frames, i, kernel, rx, tx, cq>>

\* xsk_configure_socket(): the whole fill ring is reserved and stuffed.
Configure ==
  /\ pc = "configure"
  /\ Reserve(fq_free, FillSize, fq, FillSize) = FillSize
  /\ fq' = Allocated(FillSize)
  /\ umem_frame_addr' = AllocRest(FillSize)
  /\ fq_free' = NbFree(fq_free, FillSize, fq, FillSize) - FillSize
  /\ pc' = "rx"
  /\ UNCHANGED <<tx_free, rx_avail, cq_avail, outstanding_tx, rcvd,
                 stock_frames, i, kernel, rx, tx, cq>>

\* Mutation: the peek asks for the whole ring, not for RX_BATCH_SIZE.
PeekRx_WholeRing ==
  /\ pc = "rx"
  /\ Peek(rx_avail, rx, RxSize) > 0
  /\ rcvd' = Peek(rx_avail, rx, RxSize)
  /\ i' = 0
  /\ rx_avail' = NbAvail(rx_avail, rx) - Peek(rx_avail, rx, RxSize)
  /\ pc' = "stock"
  /\ UNCHANGED <<fq_free, tx_free, cq_avail, umem_frame_addr, outstanding_tx,
                 stock_frames, kernel, fq, rx, tx, cq>>

\* handle_receive_packets() returns at once when the peek finds nothing.
PeekRx ==
  /\ pc = "rx"
  /\ Peek(rx_avail, rx, RxBatchSize) > 0
  /\ rcvd' = Peek(rx_avail, rx, RxBatchSize)
  /\ i' = 0
  /\ rx_avail' = NbAvail(rx_avail, rx) - Peek(rx_avail, rx, RxBatchSize)
  /\ pc' = "stock"
  /\ UNCHANGED <<fq_free, tx_free, cq_avail, umem_frame_addr, outstanding_tx,
                 stock_frames, kernel, fq, rx, tx, cq>>

\* Mutation: stock_frames keeps the number of free frames.
Stock_WantsAllFree ==
  LET n == NbFree(fq_free, FillSize, fq, xsk_umem_free_frames) IN
  /\ pc = "stock"
  /\ stock_frames' = xsk_umem_free_frames
  /\ fq_free' = n
  /\ pc' = IF xsk_umem_free_frames > 0 THEN "refill" ELSE "process"
  /\ UNCHANGED <<tx_free, rx_avail, cq_avail, umem_frame_addr, outstanding_tx,
                 rcvd, i, kernel, fq, rx, tx, cq>>

\* "Stuff the ring with as much frames as possible."
Stock ==
  LET n == NbFree(fq_free, FillSize, fq, xsk_umem_free_frames) IN
  /\ pc = "stock"
  /\ stock_frames' = n
  /\ fq_free' = n
  /\ pc' = IF n > 0 THEN "refill" ELSE "process"
  /\ UNCHANGED <<tx_free, rx_avail, cq_avail, umem_frame_addr, outstanding_tx,
                 rcvd, i, kernel, fq, rx, tx, cq>>

\* The reserve of the frames just counted, their allocation and the submit.
\* "This should not happen, but just in case": a short reserve is retried with
\* rcvd in place of stock_frames and the loop does not end.
Refill ==
  /\ pc = "refill"
  /\ Reserve(fq_free, FillSize, fq, stock_frames) = stock_frames
  /\ fq' = fq \o Allocated(stock_frames)
  /\ umem_frame_addr' = AllocRest(stock_frames)
  /\ fq_free' = NbFree(fq_free, FillSize, fq, stock_frames) - stock_frames
  /\ pc' = "process"
  /\ UNCHANGED <<tx_free, rx_avail, cq_avail, outstanding_tx, rcvd,
                 stock_frames, i, kernel, rx, tx, cq>>

\* One turn of the loop over the batch: process_packet() and the free.
NextPacket(frame) ==
  /\ pc = "process"
  /\ i < rcvd
  /\ frame = rx[i + 1]
  /\ i' = i + 1
  /\ UNCHANGED <<fq_free, rx_avail, cq_avail, pc, rcvd, stock_frames, kernel,
                 fq, rx, cq>>

\* Mutation: a packet that is not answered keeps its frame.
DropPacket_NoFree ==
  \E frame \in Frame :
    /\ NextPacket(frame)
    /\ UNCHANGED <<umem_frame_addr, outstanding_tx, tx_free, tx>>

\* The packet is not an ICMPv6 echo request, or replies are compiled out.
DropPacket ==
  \E frame \in Frame :
    /\ NextPacket(frame)
    /\ xsk_free_umem_frame(frame)
    /\ UNCHANGED <<outstanding_tx, tx_free, tx>>

\* Mutations: a reply that is freed as well, and one that is not counted.
EchoReply_AlsoFrees ==
  \E frame \in Frame :
    /\ ReplyEnabled
    /\ NextPacket(frame)
    /\ Reserve(tx_free, TxSize, tx, 1) = 1
    /\ tx' = Append(tx, frame)
    /\ tx_free' = NbFree(tx_free, TxSize, tx, 1) - 1
    /\ outstanding_tx' = outstanding_tx + 1
    /\ xsk_free_umem_frame(frame)
EchoReply_NotCounted ==
  \E frame \in Frame :
    /\ ReplyEnabled
    /\ NextPacket(frame)
    /\ Reserve(tx_free, TxSize, tx, 1) = 1
    /\ tx' = Append(tx, frame)
    /\ tx_free' = NbFree(tx_free, TxSize, tx, 1) - 1
    /\ UNCHANGED <<umem_frame_addr, outstanding_tx>>

\* An echo request, answered from its own frame.
EchoReply ==
  \E frame \in Frame :
    /\ ReplyEnabled
    /\ NextPacket(frame)
    /\ Reserve(tx_free, TxSize, tx, 1) = 1
    /\ tx' = Append(tx, frame)
    /\ tx_free' = NbFree(tx_free, TxSize, tx, 1) - 1
    /\ outstanding_tx' = outstanding_tx + 1
    /\ UNCHANGED umem_frame_addr

\* Mutation: true is returned although nothing was sent.
NoTransmitSlot_NoFree ==
  \E frame \in Frame :
    /\ ReplyEnabled
    /\ NextPacket(frame)
    /\ Reserve(tx_free, TxSize, tx, 1) = 0
    /\ tx_free' = NbFree(tx_free, TxSize, tx, 1)
    /\ UNCHANGED <<umem_frame_addr, outstanding_tx, tx>>

\* "No more transmit slots, drop the packet."
NoTransmitSlot ==
  \E frame \in Frame :
    /\ ReplyEnabled
    /\ NextPacket(frame)
    /\ Reserve(tx_free, TxSize, tx, 1) = 0
    /\ tx_free' = NbFree(tx_free, TxSize, tx, 1)
    /\ xsk_free_umem_frame(frame)
    /\ UNCHANGED <<outstanding_tx, tx>>

ReleaseRx ==
  /\ pc = "process"
  /\ i = rcvd
  /\ rx' = Release(rx, rcvd)
  /\ rcvd' = 0 /\ i' = 0
  /\ pc' = "complete"
  /\ UNCHANGED <<umem_frame_addr, outstanding_tx, views, stock_frames, kernel,
                 fq, tx, cq>>

\* Mutation: the completion ring is read, but sendto() is not called.
CompleteTx_NoKick ==
  /\ pc = "complete"
  /\ pc' = IF outstanding_tx = 0 THEN "rx" ELSE "collect"
  /\ UNCHANGED <<umem_frame_addr, outstanding_tx, views, rcvd, stock_frames, i,
                 kernel, fq, rx, tx, cq>>

\* complete_tx() returns at once when nothing is outstanding, and otherwise
\* wakes the kernel up ...
CompleteTx ==
  /\ pc = "complete"
  /\ IF outstanding_tx = 0
     THEN pc' = "rx" /\ UNCHANGED kicked
     ELSE pc' = "collect" /\ kicked' = TRUE
  /\ UNCHANGED <<umem_frame_addr, outstanding_tx, views, rcvd, stock_frames, i,
                 held, inflight, fq, rx, tx, cq>>

\* Mutation: the completed frames are posted again at once.
Collect_Reposts ==
  LET completed == Peek(cq_avail, cq, CqSize) IN
  /\ pc = "collect"
  /\ Len(fq) + completed <= FillSize
  /\ fq' = fq \o SubSeq(cq, 1, completed)
  /\ cq' = Release(cq, completed)
  /\ cq_avail' = NbAvail(cq_avail, cq) - completed
  /\ outstanding_tx' = outstanding_tx - Smaller(completed, outstanding_tx)
  /\ pc' = "rx"
  /\ UNCHANGED <<fq_free, tx_free, rx_avail, rcvd, stock_frames, i, kernel,
                 umem_frame_addr, rx, tx>>

\* ... and frees whatever the completion ring has by then.
Collect ==
  LET completed == Peek(cq_avail, cq, CqSize) IN
  /\ pc = "collect"
  /\ umem_frame_addr' = umem_frame_addr \o SubSeq(cq, 1, completed)
  /\ cq' = Release(cq, completed)
  /\ cq_avail' = NbAvail(cq_avail, cq) - completed
  /\ outstanding_tx' = outstanding_tx - Smaller(completed, outstanding_tx)
  /\ pc' = "rx"
  /\ UNCHANGED <<fq_free, tx_free, rx_avail, rcvd, stock_frames, i, kernel, fq,
                 rx, tx>>

User ==
  \/ Configure \/ PeekRx \/ Stock \/ Refill
  \/ DropPacket \/ EchoReply \/ NoTransmitSlot
  \/ ReleaseRx \/ CompleteTx \/ Collect

-----------------------------------------------------------------------------
(* The kernel: external, as the program relies on it.                      *)

\* A packet arrives and a frame is taken for it.
KernelTake ==
  /\ fq # <<>>
  /\ Head(fq) # INVALID_UMEM_FRAME
  /\ Cardinality(held) < KernelMax
  /\ held' = held \union {Head(fq)}
  /\ fq' = Tail(fq)
  /\ UNCHANGED <<program, inflight, kicked, rx, tx, cq>>

\* An address outside the UMEM is counted as invalid and skipped.
KernelSkip ==
  /\ fq # <<>>
  /\ Head(fq) = INVALID_UMEM_FRAME
  /\ fq' = Tail(fq)
  /\ UNCHANGED <<program, kernel, rx, tx, cq>>

\* The packet is delivered; while the rx ring is full the kernel keeps the frame.
KernelDeliver ==
  \E frame \in held :
    /\ Len(rx) < RxSize
    /\ rx' = Append(rx, frame)
    /\ held' = held \ {frame}
    /\ UNCHANGED <<program, inflight, kicked, fq, tx, cq>>

\* A frame leaves the tx ring only with a completion slot reserved for it.
CqRoom == Cardinality(inflight) + Len(cq) < CqSize

KernelTransmit ==
  /\ kicked
  /\ tx # <<>>
  /\ CqRoom
  /\ inflight' = inflight \union {Head(tx)}
  /\ tx' = Tail(tx)
  /\ UNCHANGED <<program, held, kicked, fq, rx, cq>>

\* sendto() may return (EAGAIN) before the tx ring is empty, but not while
\* nothing at all is on its way.
KernelTransmitEnd ==
  /\ kicked
  /\ tx = <<>> \/ ~CqRoom \/ inflight # {}
  /\ kicked' = FALSE
  /\ UNCHANGED <<program, held, inflight, fq, rx, tx, cq>>

KernelComplete ==
  \E frame \in inflight :
    /\ cq' = Append(cq, frame)
    /\ inflight' = inflight \ {frame}
    /\ UNCHANGED <<program, held, kicked, fq, rx, tx>>

Kernel ==
  \/ KernelTake \/ KernelSkip \/ KernelDeliver
  \/ KernelTransmit \/ KernelTransmitEnd \/ KernelComplete

Next == User \/ Kernel

Spec == Init /\ [][Next]_vars

\* The loop polls without end (or poll(2) wakes it), the kernel serves its rings
\* and packets keep arriving.
Fairness ==
  /\ WF_vars(User)
  /\ WF_vars(KernelTake) /\ WF_vars(KernelSkip) /\ WF_vars(KernelDeliver)
  /\ WF_vars(KernelTransmit) /\ WF_vars(KernelComplete)

FairSpec == Spec /\ Fairness

-----------------------------------------------------------------------------
(* Where the frames are.                                                   *)

Valid(entries) == Range(entries) \ {INVALID_UMEM_FRAME}

\* The received packets the program has not processed yet; the entries before
\* them are still on the rx ring but their frames have moved on.
Unprocessed == SubSeq(rx, i + 1, Len(rx))

FramesAt == [
  stack     |-> Valid(umem_frame_addr),
  fill      |-> Valid(fq),
  held      |-> held,
  received  |-> Valid(Unprocessed),
  sent      |-> Valid(tx),
  inflight  |-> inflight,
  completed |-> Valid(cq)]

owner ==
  LET at == FramesAt IN [f \in Frame |-> CHOOSE p \in DOMAIN at : f \in at[p]]

Ownership == INSTANCE FrameOwnership WITH Frame <- Frame, owner <- owner

-----------------------------------------------------------------------------
(* Properties.                                                             *)

Entry == Frame \union {INVALID_UMEM_FRAME}

\* The types of the state, and the locals' ranges.
TypeOK ==
  /\ umem_frame_addr \in Seq(Frame)
  /\ fq \in Seq(Entry) /\ rx \in Seq(Frame) /\ tx \in Seq(Frame) /\ cq \in Seq(Frame)
  /\ fq_free \in Nat /\ tx_free \in Nat /\ rx_avail \in Nat /\ cq_avail \in Nat
  /\ pc \in {"configure", "rx", "stock", "refill", "process", "complete", "collect"}
  /\ outstanding_tx \in Nat
  /\ rcvd \in 0 .. RxBatchSize /\ stock_frames \in Nat /\ i \in 0 .. rcvd
  /\ held \subseteq Frame /\ inflight \subseteq Frame
  /\ kicked \in BOOLEAN

\* No entry of a ring or of the stack repeats a frame.
Distinct(entries) ==
  \A j, k \in DOMAIN entries :
    entries[j] = entries[k] /\ entries[j] # INVALID_UMEM_FRAME => j = k

\* A frame is never free, posted, received or sent twice, nor two of these at
\* once: the program never hands the kernel a buffer that somebody still uses.
NoAlias ==
  /\ Distinct(umem_frame_addr) /\ Distinct(fq) /\ Distinct(Unprocessed)
  /\ Distinct(tx) /\ Distinct(cq)
  /\ LET at == FramesAt IN
       \A p, q \in DOMAIN at : p # q => at[p] \intersect at[q] = {}

\* No frame is lost: each one is free, on a ring or in the kernel.
NoLeak ==
  LET at == FramesAt IN \A f \in Frame : \E p \in DOMAIN at : f \in at[p]

\* The assert of xsk_free_umem_frame(), wherever a frame is freed next: the
\* stack still has room, and for a whole completion batch.
FreeAssertHolds ==
  /\ pc = "process" /\ i < rcvd => xsk_umem_free_frames < NumFrames
  /\ pc = "collect" => xsk_umem_free_frames + Peek(cq_avail, cq, CqSize) <= NumFrames

\* The cached view of a ring lags behind the ring but never promises more than
\* it has: nothing is submitted over entries the kernel has not consumed, and
\* nothing is peeked that it has not produced.
CachedViewsSafe ==
  /\ fq_free <= FillSize - Len(fq)
  /\ tx_free <= TxSize - Len(tx)
  /\ rx_avail <= Len(rx) - rcvd
  /\ cq_avail <= Len(cq)

\* "This should not happen": the reserve after xsk_prod_nb_free() is never short,
\* so the retry with rcvd, which would spin forever, is never entered.
ReserveNeverShort ==
  pc = "refill" => Reserve(fq_free, FillSize, fq, stock_frames) = stock_frames

\* outstanding_tx counts exactly the replies that are not collected: the clamp of
\* complete_tx() never clamps, and the kernel is woken whenever one is pending.
OutstandingExact == outstanding_tx = Len(tx) + Cardinality(inflight) + Len(cq)

\* The frames that are out of the receive cycle at most.
TxSide == IF ReplyEnabled THEN TxSize + CqSize ELSE 0

\* The entries of the fill ring that are not frames.
InvalidPosted == {k \in DOMAIN fq : fq[k] = INVALID_UMEM_FRAME}

\* How many frames there are too few to fill the fill and the rx ring, the kernel's hands
\* between them and the tx side at once.
Missing ==
  LET wanted == FillSize + RxSize + KernelMax + TxSide
  IN  IF wanted > NumFrames THEN wanted - NumFrames ELSE 0

\* xsk_prod_nb_free() may promise more slots than there are free frames, and the rest is
\* filled with INVALID_UMEM_FRAME: with no more of them, over any number of refills, than
\* there are frames missing. Where the frames are the fill and the rx ring exactly, as in
\* the program, these are as many as the kernel holds between the two.
InvalidBounded == Cardinality(InvalidPosted) <= Missing

\* The fill ring is restocked only after something was received. With more frames
\* than one batch and the tx side can hold, a receive stays possible: when
\* nothing is left to process, a frame is posted, held or received.
NeverStarved ==
  NumFrames > RxBatchSize + TxSide /\ pc \in {"rx", "complete", "collect"}
    => FramesAt.fill \union FramesAt.held \union FramesAt.received # {}

\* A frame moves only from owner to owner of the cycle.
OwnershipKept == Ownership!Spec

\* A received packet is processed, and a reply's frame comes back to the stack,
\* for as long as packets arrive.
FramesReturn ==
  \A f \in Frame : f \in FramesAt.received \union FramesAt.sent ~> f \in FramesAt.stack

=============================================================================
