--------------------------- MODULE AfXdpUserFrames ---------------------------
(***************************************************************************)
(* No frame of the AF_XDP program is lost or used twice, for every size of *)
(* the rings and of the UMEM: the types of the rings and the phases of the *)
(* loop, and then the proofs about where the frames are.                   *)
(***************************************************************************)
EXTENDS AfXdpUser, SequenceTheorems, FiniteSetTheorems, TLAPS

-----------------------------------------------------------------------------
(* What the sequence operators of the model return.                        *)

\* Smaller returns one of its arguments, and no more than either.
LEMMA SmallerFact ==
  ASSUME NEW a \in Nat, NEW b \in Nat
  PROVE  /\ Smaller(a, b) \in Nat
         /\ Smaller(a, b) <= a /\ Smaller(a, b) <= b
         /\ Smaller(a, b) = a \/ Smaller(a, b) = b
BY DEF Smaller

\* The first n entries of a ring.
LEMMA PrefixFact ==
  ASSUME NEW S, NEW s \in Seq(S), NEW n \in 0 .. Len(s)
  PROVE  /\ SubSeq(s, 1, n) \in Seq(S)
         /\ Len(SubSeq(s, 1, n)) = n
         /\ \A k \in 1 .. n : SubSeq(s, 1, n)[k] = s[k]
BY SubSeqProperties, LenProperties

\* xsk_ring_cons__release() drops the first n entries and moves the others up.
LEMMA ReleaseFact ==
  ASSUME NEW S, NEW s \in Seq(S), NEW n \in 0 .. Len(s)
  PROVE  /\ Release(s, n) \in Seq(S)
         /\ Len(Release(s, n)) = Len(s) - n
         /\ \A k \in 1 .. Len(s) - n : Release(s, n)[k] = s[n + k]
BY SubSeqProperties, LenProperties DEF Release

\* n calls of xsk_alloc_umem_frame() return n entries and leave a shorter stack.
LEMMA AllocatedFact ==
  ASSUME TypeOK, NEW n \in Nat
  PROVE  /\ Allocated(n) \in Seq(Entry)
         /\ Len(Allocated(n)) = n
         /\ AllocRest(n) \in Seq(Frame)
         /\ Len(AllocRest(n)) = Len(umem_frame_addr) - Smaller(n, Len(umem_frame_addr))
<1> DEFINE top == Len(umem_frame_addr)
<1>1. umem_frame_addr \in Seq(Frame) /\ top \in Nat
  BY LenProperties DEF TypeOK
<1>2. \A k \in 1 .. n : Allocated(n)[k] \in Entry
  BY <1>1, ElementOfSeq DEF Allocated, xsk_umem_free_frames, Entry
<1>3. Allocated(n) \in Seq(Entry) /\ Len(Allocated(n)) = n
  BY <1>2 DEF Allocated
<1>4. Smaller(n, top) \in 0 .. top
  BY <1>1 DEF Smaller
<1>5. top - Smaller(n, top) \in 0 .. top
  BY <1>1, <1>4
<1> QED
  BY <1>1, <1>3, <1>5, PrefixFact DEF AllocRest, xsk_umem_free_frames

-----------------------------------------------------------------------------
(* The first strengthening: what each program point knows of the cached    *)
(* view of the fill ring.  Every reserve takes the whole view, so between  *)
(* two refills it is empty and xsk_prod_nb_free() reads the ring again.    *)

Phase ==
  /\ pc = "configure" => fq = <<>> /\ fq_free = FillSize
  /\ pc = "refill" => stock_frames > 0 /\ fq_free = stock_frames
  /\ pc \notin {"configure", "refill"} => fq_free = 0
  /\ pc \in {"configure", "rx", "complete", "collect"} => rcvd = 0 /\ i = 0

Shape == TypeOK /\ CachedViewsSafe /\ Phase

\* main() starts with views that match the empty rings.
LEMMA ShapeInit == Init => Shape
<1> SUFFICES ASSUME Init PROVE Shape
  OBVIOUS
<1>1. umem_frame_addr \in Seq(Frame)
  BY SizesAssumption DEF Init, Frame
<1>2. fq \in Seq(Entry) /\ rx \in Seq(Frame) /\ tx \in Seq(Frame) /\ cq \in Seq(Frame)
  BY DEF Init
<1>3. rcvd \in 0 .. RxBatchSize /\ i \in 0 .. rcvd
  BY SizesAssumption DEF Init
<1>4. TypeOK
  BY <1>1, <1>2, <1>3, SizesAssumption DEF Init, TypeOK
<1> QED
  BY <1>4, SizesAssumption DEF Init, Shape, CachedViewsSafe, Phase

\* What complete_tx() collects is on the completion ring.
LEMMA CollectFact ==
  ASSUME Shape
  PROVE  /\ Peek(cq_avail, cq, CqSize) \in 0 .. Len(cq)
         /\ Peek(cq_avail, cq, CqSize) <= NbAvail(cq_avail, cq)
         /\ NbAvail(cq_avail, cq) \in Nat /\ NbAvail(cq_avail, cq) <= Len(cq)
<1>1. /\ Len(cq) \in Nat /\ cq_avail \in Nat /\ cq_avail <= Len(cq)
  BY LenProperties DEF Shape, TypeOK, CachedViewsSafe
<1> QED
  BY <1>1, SizesAssumption DEF Peek, NbAvail, Smaller

\* Every call of the program and every action of the kernel keeps the types, the
\* safety of the cached views and what each program point knows of them.
LEMMA ShapeStep == Shape /\ [Next]_vars => Shape'
<1> SUFFICES ASSUME Shape, [Next]_vars PROVE Shape'
  OBVIOUS
<1> USE SizesAssumption
<1>0. /\ Len(umem_frame_addr) \in Nat /\ Len(fq) \in Nat /\ Len(rx) \in Nat
      /\ Len(tx) \in Nat /\ Len(cq) \in Nat
  BY LenProperties DEF Shape, TypeOK
<1>1. CASE Configure
  <2>1. /\ fq' \in Seq(Entry) /\ Len(fq') = FillSize /\ umem_frame_addr' \in Seq(Frame)
    BY <1>1, AllocatedFact DEF Configure, Shape
  <2>2. fq_free = FillSize /\ fq_free' = 0
    BY <1>1 DEF Configure, Shape, Phase, TypeOK, NbFree
  <2>3. TypeOK'
    BY <1>1, <2>1, <2>2 DEF Configure, Shape, TypeOK, kernel, views
  <2> QED
    BY <1>1, <2>1, <2>2, <2>3 DEF Configure, Shape, TypeOK, CachedViewsSafe, Phase, kernel
<1>2. CASE PeekRx
  <2> DEFINE n == Peek(rx_avail, rx, RxBatchSize)
  <2>1. /\ n \in 1 .. RxBatchSize /\ n <= NbAvail(rx_avail, rx)
        /\ NbAvail(rx_avail, rx) \in Nat /\ NbAvail(rx_avail, rx) <= Len(rx)
    BY <1>0, <1>2
    DEF PeekRx, Peek, NbAvail, Smaller, Shape, TypeOK, CachedViewsSafe, Phase
  <2>2. /\ pc = "rx" /\ pc' = "stock" /\ rcvd' = n /\ i' = 0
        /\ rx_avail' = NbAvail(rx_avail, rx) - n
        /\ UNCHANGED <<fq_free, tx_free, cq_avail, umem_frame_addr, outstanding_tx,
                       stock_frames, held, inflight, kicked, fq, rx, tx, cq>>
    BY <1>2 DEF PeekRx, kernel
  <2> HIDE DEF n
  <2>a. TypeOK'
    BY <2>1, <2>2 DEF Shape, TypeOK
  <2>b. CachedViewsSafe'
    <3>1. rx_avail' <= Len(rx') - rcvd'
      BY <1>0, <2>1, <2>2
    <3> QED
      BY <2>2, <3>1 DEF Shape, CachedViewsSafe
  <2>c. Phase'
    BY <2>2 DEF Shape, Phase
  <2> QED
    BY <2>a, <2>b, <2>c DEF Shape
<1>3. CASE Stock
  <2> DEFINE n == NbFree(fq_free, FillSize, fq, xsk_umem_free_frames)
  <2>1. n \in Nat /\ n <= FillSize - Len(fq)
    BY <1>0, <1>3 DEF Stock, NbFree, Shape, TypeOK, CachedViewsSafe
  <2>a. TypeOK'
    BY <1>0, <1>3, <2>1 DEF Stock, Shape, TypeOK, kernel, views
  <2>b. CachedViewsSafe'
    BY <1>0, <1>3, <2>1 DEF Stock, Shape, TypeOK, CachedViewsSafe, kernel, views
  <2>c. Phase'
    BY <1>0, <1>3, <2>1 DEF Stock, Shape, TypeOK, Phase, kernel, views
  <2> QED
    BY <2>a, <2>b, <2>c DEF Shape
<1>4. CASE Refill
  <2>1. /\ Allocated(stock_frames) \in Seq(Entry)
        /\ Len(Allocated(stock_frames)) = stock_frames
        /\ umem_frame_addr' \in Seq(Frame)
    BY <1>4, AllocatedFact DEF Refill, Shape, TypeOK
  <2>2. fq' \in Seq(Entry) /\ Len(fq') = Len(fq) + stock_frames
    BY <1>4, <2>1, ConcatProperties DEF Refill, Shape, TypeOK
  <2>3. fq_free = stock_frames /\ fq_free' = 0
    BY <1>4 DEF Refill, Shape, Phase, TypeOK, NbFree
  <2>a. TypeOK'
    BY <1>0, <1>4, <2>1, <2>2, <2>3 DEF Refill, Shape, TypeOK, kernel, views
  <2>b. CachedViewsSafe'
    BY <1>0, <1>4, <2>1, <2>2, <2>3 DEF Refill, Shape, TypeOK, CachedViewsSafe, kernel, views
  <2>c. Phase'
    BY <1>0, <1>4, <2>1, <2>2, <2>3 DEF Refill, Shape, TypeOK, Phase, kernel, views
  <2> QED
    BY <2>a, <2>b, <2>c DEF Shape
<1>5. CASE DropPacket \/ NoTransmitSlot
  <2>1. PICK frame \in Frame : NextPacket(frame) /\ xsk_free_umem_frame(frame)
    BY <1>5 DEF DropPacket, NoTransmitSlot
  <2>2. umem_frame_addr' \in Seq(Frame)
    BY <2>1, AppendProperties DEF xsk_free_umem_frame, Shape, TypeOK
  <2>3. /\ tx_free' \in Nat /\ tx_free' <= TxSize - Len(tx)
        /\ tx' = tx /\ outstanding_tx' = outstanding_tx
    BY <1>0, <1>5 DEF DropPacket, NoTransmitSlot, NbFree, Shape, TypeOK, CachedViewsSafe
  <2>a. TypeOK'
    BY <1>0, <2>1, <2>2, <2>3
    DEF NextPacket, Shape, TypeOK, kernel, views
  <2>b. CachedViewsSafe'
    BY <1>0, <2>1, <2>2, <2>3
    DEF NextPacket, Shape, TypeOK, CachedViewsSafe, kernel, views
  <2>c. Phase'
    BY <1>0, <2>1, <2>2, <2>3
    DEF NextPacket, Shape, TypeOK, Phase, kernel, views
  <2> QED
    BY <2>a, <2>b, <2>c DEF Shape
<1>6. CASE EchoReply
  <2>1. PICK frame \in Frame :
          /\ NextPacket(frame)
          /\ Reserve(tx_free, TxSize, tx, 1) = 1
          /\ tx' = Append(tx, frame)
          /\ tx_free' = NbFree(tx_free, TxSize, tx, 1) - 1
          /\ outstanding_tx' = outstanding_tx + 1
          /\ UNCHANGED umem_frame_addr
    BY <1>6 DEF EchoReply
  <2>2. tx' \in Seq(Frame) /\ Len(tx') = Len(tx) + 1
    BY <2>1, AppendProperties DEF Shape, TypeOK
  <2>3. tx_free' \in Nat /\ tx_free' <= TxSize - Len(tx')
    BY <1>0, <2>1, <2>2 DEF NbFree, Reserve, Shape, TypeOK, CachedViewsSafe
  <2>a. TypeOK'
    BY <1>0, <2>1, <2>2, <2>3
    DEF NextPacket, Shape, TypeOK, kernel, views
  <2>b. CachedViewsSafe'
    BY <1>0, <2>1, <2>2, <2>3
    DEF NextPacket, Shape, TypeOK, CachedViewsSafe, kernel, views
  <2>c. Phase'
    BY <1>0, <2>1, <2>2, <2>3
    DEF NextPacket, Shape, TypeOK, Phase, kernel, views
  <2> QED
    BY <2>a, <2>b, <2>c DEF Shape
<1>7. CASE ReleaseRx
  <2>1. rcvd \in 0 .. Len(rx)
    BY <1>0 DEF Shape, TypeOK, CachedViewsSafe
  <2>2. rx' \in Seq(Frame) /\ Len(rx') = Len(rx) - rcvd
    BY <1>7, <2>1, ReleaseFact DEF ReleaseRx, Shape, TypeOK
  <2>a. TypeOK'
    BY <1>0, <1>7, <2>1, <2>2 DEF ReleaseRx, Shape, TypeOK, kernel, views
  <2>b. CachedViewsSafe'
    BY <1>0, <1>7, <2>1, <2>2 DEF ReleaseRx, Shape, TypeOK, CachedViewsSafe, kernel, views
  <2>c. Phase'
    BY <1>0, <1>7, <2>1, <2>2 DEF ReleaseRx, Shape, TypeOK, Phase, kernel, views
  <2> QED
    BY <2>a, <2>b, <2>c DEF Shape
<1>8. CASE CompleteTx
  BY <1>0, <1>8
  DEF CompleteTx, Shape, TypeOK, CachedViewsSafe, Phase, kernel, views
<1>9. CASE Collect
  <2> DEFINE completed == Peek(cq_avail, cq, CqSize)
  <2>1. /\ completed \in 0 .. Len(cq) /\ completed <= NbAvail(cq_avail, cq)
        /\ NbAvail(cq_avail, cq) \in Nat /\ NbAvail(cq_avail, cq) <= Len(cq)
    BY CollectFact
  <2>2. cq' \in Seq(Frame) /\ Len(cq') = Len(cq) - completed
    BY <1>9, <2>1, ReleaseFact DEF Collect, Shape, TypeOK
  <2>3. umem_frame_addr' \in Seq(Frame)
    BY <1>9, <2>1, PrefixFact, ConcatProperties DEF Collect, Shape, TypeOK
  <2>4. outstanding_tx' \in Nat
    BY <1>9, <2>1 DEF Collect, Smaller, Shape, TypeOK
  <2>5. /\ cq_avail' = NbAvail(cq_avail, cq) - completed
        /\ UNCHANGED <<fq_free, tx_free, rx_avail, rcvd, stock_frames, i, held,
                       inflight, kicked, fq, rx, tx>>
    BY <1>9 DEF Collect, kernel
  <2>6. pc = "collect" /\ pc' = "rx"
    BY <1>9 DEF Collect
  <2> HIDE DEF completed
  <2>a. TypeOK'
    BY <2>1, <2>2, <2>3, <2>4, <2>5, <2>6 DEF Shape, TypeOK
  <2>b. CachedViewsSafe'
    <3>1. cq_avail' <= Len(cq')
      BY <1>0, <2>1, <2>2, <2>5
    <3> QED
      BY <2>5, <3>1 DEF Shape, CachedViewsSafe
  <2>c. Phase'
    BY <2>5, <2>6 DEF Shape, Phase
  <2> QED
    BY <2>a, <2>b, <2>c DEF Shape
<1>10. CASE KernelTake \/ KernelSkip
  <2>1. fq # <<>> /\ fq' = Tail(fq) /\ fq' \in Seq(Entry) /\ Len(fq') = Len(fq) - 1
    BY <1>10, HeadTailProperties DEF KernelTake, KernelSkip, Shape, TypeOK
  <2>2. held' \subseteq Frame
    BY <1>10, ElementOfSeq, HeadTailProperties
    DEF KernelTake, KernelSkip, kernel, views, Shape, TypeOK, Entry
  <2>3. UNCHANGED <<program, inflight, kicked, rx, tx, cq>>
    BY <1>10 DEF KernelTake, KernelSkip, kernel
  <2>a. TypeOK'
    BY <2>1, <2>2, <2>3 DEF Shape, TypeOK, program, views
  <2>b. CachedViewsSafe'
    BY <1>0, <2>1, <2>3 DEF Shape, TypeOK, CachedViewsSafe, program, views
  <2>c. Phase'
    BY <1>0, <1>10, <2>1, <2>3 DEF KernelTake, KernelSkip, Shape, TypeOK, Phase, program, views
  <2> QED
    BY <2>a, <2>b, <2>c DEF Shape
<1>11. CASE KernelDeliver
  <2>1. rx' \in Seq(Frame) /\ Len(rx') = Len(rx) + 1 /\ held' \subseteq Frame
    BY <1>11, AppendProperties DEF KernelDeliver, Shape, TypeOK
  <2>a. TypeOK'
    BY <1>0, <1>11, <2>1 DEF KernelDeliver, Shape, TypeOK, program, views
  <2>b. CachedViewsSafe'
    BY <1>0, <1>11, <2>1 DEF KernelDeliver, Shape, TypeOK, CachedViewsSafe, program, views
  <2>c. Phase'
    BY <1>0, <1>11, <2>1 DEF KernelDeliver, Shape, TypeOK, Phase, program, views
  <2> QED
    BY <2>a, <2>b, <2>c DEF Shape
<1>12. CASE KernelTransmit
  <2>1. tx' \in Seq(Frame) /\ Len(tx') = Len(tx) - 1 /\ inflight' \subseteq Frame
    BY <1>12, HeadTailProperties DEF KernelTransmit, Shape, TypeOK
  <2>a. TypeOK'
    BY <1>0, <1>12, <2>1 DEF KernelTransmit, Shape, TypeOK, program, views
  <2>b. CachedViewsSafe'
    BY <1>0, <1>12, <2>1 DEF KernelTransmit, Shape, TypeOK, CachedViewsSafe, program, views
  <2>c. Phase'
    BY <1>0, <1>12, <2>1 DEF KernelTransmit, Shape, TypeOK, Phase, program, views
  <2> QED
    BY <2>a, <2>b, <2>c DEF Shape
<1>13. CASE KernelTransmitEnd
  BY <1>13 DEF KernelTransmitEnd, Shape, TypeOK, CachedViewsSafe, Phase, program, views
<1>14. CASE KernelComplete
  <2>1. cq' \in Seq(Frame) /\ Len(cq') = Len(cq) + 1 /\ inflight' \subseteq Frame
    BY <1>14, AppendProperties DEF KernelComplete, Shape, TypeOK
  <2>a. TypeOK'
    BY <1>0, <1>14, <2>1 DEF KernelComplete, Shape, TypeOK, program, views
  <2>b. CachedViewsSafe'
    BY <1>0, <1>14, <2>1 DEF KernelComplete, Shape, TypeOK, CachedViewsSafe, program, views
  <2>c. Phase'
    BY <1>0, <1>14, <2>1 DEF KernelComplete, Shape, TypeOK, Phase, program, views
  <2> QED
    BY <2>a, <2>b, <2>c DEF Shape
<1>15. CASE UNCHANGED vars
  BY <1>15 DEF vars, Shape, TypeOK, CachedViewsSafe, Phase, program, views, kernel
<1> QED
  BY <1>1, <1>2, <1>3, <1>4, <1>5, <1>6, <1>7, <1>8, <1>9, <1>10, <1>11, <1>12,
     <1>13, <1>14, <1>15 DEF Next, User, Kernel

-----------------------------------------------------------------------------
(* What the ring operations do to the frames on a ring and to their being  *)
(* distinct.                                                               *)

\* An invalid address is no frame, and a ring of frames is a ring of entries.
LEMMA EntryFact ==
  /\ INVALID_UMEM_FRAME \notin Frame
  /\ Frame \subseteq Entry
  /\ \A s \in Seq(Frame) : s \in Seq(Entry)
BY SizesAssumption DEF INVALID_UMEM_FRAME, Frame, Entry

\* The frames on a ring are those found at some position of it.
LEMMA ValidFact ==
  ASSUME NEW s \in Seq(Entry)
  PROVE  /\ Valid(s) \subseteq Frame
         /\ \A f \in Frame : f \in Valid(s) <=> \E k \in 1 .. Len(s) : s[k] = f
<1>1. DOMAIN s = 1 .. Len(s) /\ \A k \in 1 .. Len(s) : s[k] \in Entry
  BY LenProperties, ElementOfSeq
<1> QED
  BY <1>1, EntryFact DEF Valid, Range, Entry

\* A frame at some position of a ring is on the ring.
LEMMA ValidIntro ==
  ASSUME NEW s \in Seq(Entry), NEW k \in 1 .. Len(s), s[k] \in Frame
  PROVE  s[k] \in Valid(s)
BY LenProperties, EntryFact DEF Valid, Range

\* A frame that is not on the ring yet is submitted at its end.
LEMMA AppendFrames ==
  ASSUME NEW s \in Seq(Entry), Distinct(s), NEW f \in Frame, f \notin Valid(s)
  PROVE  /\ Append(s, f) \in Seq(Entry)
         /\ Distinct(Append(s, f))
         /\ Valid(Append(s, f)) = Valid(s) \union {f}
<1> DEFINE t == Append(s, f)
<1>1. /\ t \in Seq(Entry) /\ Len(t) = Len(s) + 1 /\ Len(s) \in Nat
      /\ \A k \in 1 .. Len(s) : t[k] = s[k]
      /\ t[Len(s) + 1] = f
  BY EntryFact, AppendProperties, LenProperties
<1>2. /\ DOMAIN t = 1 .. Len(s) + 1 /\ DOMAIN s = 1 .. Len(s)
  BY <1>1, LenProperties
<1>3. \A k \in 1 .. Len(s) : s[k] # f
  BY ValidFact
<1>4. Distinct(t)
  BY <1>1, <1>2, <1>3 DEF Distinct
<1>5. \A g \in Frame : g \in Valid(t) <=> g \in Valid(s) \/ g = f
  <2> TAKE g \in Frame
  <2>1. ASSUME g \in Valid(t) PROVE g \in Valid(s) \/ g = f
    <3>1. PICK k \in 1 .. Len(t) : t[k] = g
      BY <1>1, <2>1, ValidFact
    <3> QED
      BY <1>1, <3>1, ValidIntro
  <2>2. ASSUME g \in Valid(s) PROVE g \in Valid(t)
    <3>1. PICK k \in 1 .. Len(s) : s[k] = g
      BY <2>2, ValidFact
    <3>2. k \in 1 .. Len(t) /\ t[k] = g
      BY <1>1, <3>1
    <3> QED
      BY <1>1, <3>2, ValidIntro
  <2>3. f \in Valid(t)
    <3>1. PICK m \in 1 .. Len(t) : t[m] = f
      BY <1>1
    <3> QED
      BY <1>1, <3>1, ValidIntro
  <2> QED
    BY <2>1, <2>2, <2>3
<1>6. Valid(t) \subseteq Frame /\ Valid(s) \subseteq Frame
  BY <1>1, ValidFact
<1> QED
  BY <1>1, <1>4, <1>5, <1>6

\* The first entry is consumed.
LEMMA TailFrames ==
  ASSUME NEW s \in Seq(Entry), Distinct(s), s # <<>>
  PROVE  /\ Tail(s) \in Seq(Entry)
         /\ Distinct(Tail(s))
         /\ Valid(Tail(s)) = Valid(s) \ {Head(s)}
         /\ Head(s) # INVALID_UMEM_FRAME => Head(s) \in Valid(s)
<1> DEFINE t == Tail(s)
<1>1. /\ t \in Seq(Entry) /\ Len(t) = Len(s) - 1 /\ Len(s) \in Nat /\ Len(s) > 0
      /\ \A k \in 1 .. Len(t) : t[k] = s[k + 1]
      /\ Head(s) = s[1] /\ Head(s) \in Entry
  BY HeadTailProperties, LenProperties, EmptySeq, ElementOfSeq
<1>2. DOMAIN t = 1 .. Len(t) /\ DOMAIN s = 1 .. Len(s)
  BY <1>1, LenProperties
<1>3. Distinct(t)
  BY <1>1, <1>2 DEF Distinct
<1>4. \A g \in Frame : g \in Valid(t) <=> g \in Valid(s) /\ g # s[1]
  <2> TAKE g \in Frame
  <2>1. ASSUME g \in Valid(t) PROVE g \in Valid(s) /\ g # s[1]
    <3>1. PICK k \in 1 .. Len(t) : t[k] = g
      BY <1>1, <2>1, ValidFact
    <3>2. s[k + 1] = g /\ k + 1 \in 1 .. Len(s) /\ k + 1 # 1
      BY <1>1, <3>1
    <3> QED
      BY <1>1, <1>2, <3>2, ValidFact, EntryFact DEF Distinct
  <2>2. ASSUME g \in Valid(s), g # s[1] PROVE g \in Valid(t)
    <3>1. PICK k \in 1 .. Len(s) : s[k] = g
      BY <2>2, ValidFact
    <3>2. k # 1 /\ k - 1 \in 1 .. Len(t) /\ (k - 1) + 1 = k
      BY <1>1, <2>2, <3>1
    <3>3. t[k - 1] = s[(k - 1) + 1]
      BY <1>1, <3>2
    <3>4. PICK m \in 1 .. Len(t) : t[m] = g
      BY <1>1, <3>1, <3>2, <3>3
    <3> QED
      BY <1>1, <3>4, ValidIntro
  <2> QED
    BY <2>1, <2>2
<1>5. Valid(t) \subseteq Frame /\ Valid(s) \subseteq Frame
  BY <1>1, ValidFact
<1>6. Head(s) # INVALID_UMEM_FRAME => Head(s) \in Valid(s)
  BY <1>1, ValidFact DEF Entry
<1> QED
  BY <1>1, <1>3, <1>4, <1>5, <1>6

\* A batch is submitted whose frames are not on the ring yet.
LEMMA ConcatFrames ==
  ASSUME NEW s \in Seq(Entry), NEW t \in Seq(Entry), Distinct(s), Distinct(t),
         Valid(s) \intersect Valid(t) = {}
  PROVE  /\ s \o t \in Seq(Entry)
         /\ Distinct(s \o t)
         /\ Valid(s \o t) = Valid(s) \union Valid(t)
<1> DEFINE u == s \o t
<1>1. /\ u \in Seq(Entry) /\ Len(u) = Len(s) + Len(t)
      /\ Len(s) \in Nat /\ Len(t) \in Nat
      /\ \A k \in 1 .. Len(s) : u[k] = s[k]
      /\ \A k \in Len(s) + 1 .. Len(u) : u[k] = t[k - Len(s)]
  BY ConcatProperties, LenProperties
<1>2. /\ DOMAIN u = 1 .. Len(u) /\ DOMAIN s = 1 .. Len(s) /\ DOMAIN t = 1 .. Len(t)
  BY <1>1, LenProperties
<1>3. \A j \in 1 .. Len(s), k \in 1 .. Len(t) :
        s[j] = t[k] => s[j] = INVALID_UMEM_FRAME
  BY <1>1, ElementOfSeq, ValidFact DEF Entry
<1>4. Distinct(u)
  <2> SUFFICES ASSUME NEW j \in 1 .. Len(u), NEW k \in 1 .. Len(u),
                      u[j] = u[k], u[j] # INVALID_UMEM_FRAME
               PROVE  j = k
    BY <1>2 DEF Distinct
  <2>1. CASE j <= Len(s) /\ k <= Len(s)
    BY <1>1, <1>2, <2>1 DEF Distinct
  <2>2. CASE j > Len(s) /\ k > Len(s)
    <3>1. /\ j - Len(s) \in 1 .. Len(t) /\ k - Len(s) \in 1 .. Len(t)
          /\ u[j] = t[j - Len(s)] /\ u[k] = t[k - Len(s)]
      BY <1>1, <2>2
    <3>2. j - Len(s) = k - Len(s)
      BY <1>2, <3>1 DEF Distinct
    <3> QED
      BY <1>1, <3>2
  <2>3. CASE j <= Len(s) /\ k > Len(s)
    <3>1. j \in 1 .. Len(s) /\ k - Len(s) \in 1 .. Len(t)
          /\ u[j] = s[j] /\ u[k] = t[k - Len(s)]
      BY <1>1, <2>3
    <3> QED
      BY <1>3, <3>1
  <2>4. CASE j > Len(s) /\ k <= Len(s)
    <3>1. k \in 1 .. Len(s) /\ j - Len(s) \in 1 .. Len(t)
          /\ u[k] = s[k] /\ u[j] = t[j - Len(s)]
      BY <1>1, <2>4
    <3> QED
      BY <1>3, <3>1
  <2> QED
    BY <1>1, <2>1, <2>2, <2>3, <2>4
<1>5. \A g \in Frame : g \in Valid(u) <=> g \in Valid(s) \/ g \in Valid(t)
  <2> TAKE g \in Frame
  <2>1. ASSUME g \in Valid(u) PROVE g \in Valid(s) \/ g \in Valid(t)
    <3>1. PICK k \in 1 .. Len(u) : u[k] = g
      BY <1>1, <2>1, ValidFact
    <3>2. CASE k <= Len(s)
      BY <1>1, <3>1, <3>2, ValidFact
    <3>3. CASE k > Len(s)
      <4>1. k - Len(s) \in 1 .. Len(t) /\ t[k - Len(s)] = g
        BY <1>1, <3>1, <3>3
      <4> QED
        BY <4>1, ValidFact
    <3> QED
      BY <1>1, <3>2, <3>3
  <2>2. ASSUME g \in Valid(s) PROVE g \in Valid(u)
    <3>1. PICK k \in 1 .. Len(s) : s[k] = g
      BY <2>2, ValidFact
    <3>2. k \in 1 .. Len(u) /\ u[k] = g
      BY <1>1, <3>1
    <3> QED
      BY <1>1, <3>2, ValidIntro
  <2>3. ASSUME g \in Valid(t) PROVE g \in Valid(u)
    <3>1. PICK k \in 1 .. Len(t) : t[k] = g
      BY <2>3, ValidFact
    <3>2. k + Len(s) \in Len(s) + 1 .. Len(u) /\ k + Len(s) \in 1 .. Len(u)
      BY <1>1
    <3>3. u[k + Len(s)] = t[(k + Len(s)) - Len(s)]
      BY <1>1, <3>2
    <3>4. PICK m \in 1 .. Len(u) : u[m] = g
      BY <1>1, <3>1, <3>2, <3>3
    <3> QED
      BY <1>1, <3>4, ValidIntro
  <2> QED
    BY <2>1, <2>2, <2>3
<1>6. Valid(u) \subseteq Frame /\ Valid(s) \subseteq Frame /\ Valid(t) \subseteq Frame
  BY <1>1, ValidFact
<1> QED
  BY <1>1, <1>4, <1>5, <1>6

\* A ring split after its first n entries.
LEMMA SplitFrames ==
  ASSUME NEW s \in Seq(Entry), Distinct(s), NEW n \in 0 .. Len(s)
  PROVE  LET p == SubSeq(s, 1, n)
             r == Release(s, n)
         IN  /\ p \in Seq(Entry) /\ r \in Seq(Entry)
             /\ Distinct(p) /\ Distinct(r)
             /\ Valid(p) \union Valid(r) = Valid(s)
             /\ Valid(p) \intersect Valid(r) = {}
<1> DEFINE p == SubSeq(s, 1, n)
           r == Release(s, n)
<1>1. /\ Len(s) \in Nat
      /\ p \in Seq(Entry) /\ Len(p) = n /\ \A k \in 1 .. n : p[k] = s[k]
      /\ r \in Seq(Entry) /\ Len(r) = Len(s) - n
      /\ \A k \in 1 .. Len(s) - n : r[k] = s[n + k]
  <2>1. p \in Seq(Entry) /\ Len(p) = n /\ \A k \in 1 .. n : p[k] = s[k]
    BY PrefixFact
  <2>2. /\ r \in Seq(Entry) /\ Len(r) = Len(s) - n
        /\ \A k \in 1 .. Len(s) - n : r[k] = s[n + k]
    BY ReleaseFact
  <2> QED
    BY <2>1, <2>2, LenProperties
<1>2. DOMAIN s = 1 .. Len(s) /\ DOMAIN p = 1 .. n /\ DOMAIN r = 1 .. Len(s) - n
  BY <1>1, LenProperties
<1> HIDE DEF p, r
<1>3. Distinct(p) /\ Distinct(r)
  <2>1. ASSUME NEW j \in 1 .. n, NEW k \in 1 .. n,
               p[j] = p[k], p[j] # INVALID_UMEM_FRAME
        PROVE  j = k
    <3>1. j \in 1 .. Len(s) /\ k \in 1 .. Len(s) /\ s[j] = p[j] /\ s[k] = p[k]
      BY <1>1
    <3> QED
      BY <1>2, <2>1, <3>1 DEF Distinct
  <2>2. ASSUME NEW j \in 1 .. Len(s) - n, NEW k \in 1 .. Len(s) - n,
               r[j] = r[k], r[j] # INVALID_UMEM_FRAME
        PROVE  j = k
    <3>1. /\ n + j \in 1 .. Len(s) /\ n + k \in 1 .. Len(s)
          /\ s[n + j] = r[j] /\ s[n + k] = r[k]
      <4>1. n + j \in 1 .. Len(s) /\ n + k \in 1 .. Len(s)
        BY <1>1
      <4> QED
        BY <1>1, <4>1
    <3>2. n + j = n + k
      BY <1>2, <2>2, <3>1 DEF Distinct
    <3> QED
      BY <3>2
  <2> QED
    BY <1>2, <2>1, <2>2 DEF Distinct
<1>4. \A g \in Valid(p) : g \in Valid(s)
  <2> TAKE g \in Valid(p)
  <2>1. PICK k \in 1 .. n : p[k] = g /\ g \in Frame
    BY <1>1, ValidFact
  <2>2. k \in 1 .. Len(s) /\ s[k] = g
    BY <1>1, <2>1
  <2> QED
    BY <2>1, <2>2, ValidIntro
<1>5. \A g \in Valid(r) : g \in Valid(s) /\ g \notin Valid(p)
  <2> TAKE g \in Valid(r)
  <2>1. PICK k \in 1 .. Len(s) - n : r[k] = g /\ g \in Frame
    BY <1>1, ValidFact
  <2>2. n + k \in 1 .. Len(s) /\ s[n + k] = g
    BY <1>1, <2>1
  <2>3. g \in Valid(s)
    BY <2>1, <2>2, ValidIntro
  <2>4. ASSUME g \in Valid(p) PROVE FALSE
    <3>1. PICK j \in 1 .. n : p[j] = g
      BY <1>1, <2>1, <2>4, ValidFact
    <3>2. j \in 1 .. Len(s) /\ s[j] = g /\ j # n + k
      BY <1>1, <3>1, <2>2
    <3> QED
      BY <1>2, <2>1, <2>2, <3>2, EntryFact DEF Distinct
  <2> QED
    BY <2>3, <2>4
<1>6. \A g \in Valid(s) : g \in Valid(p) \/ g \in Valid(r)
  <2> TAKE g \in Valid(s)
  <2>1. PICK k \in 1 .. Len(s) : s[k] = g /\ g \in Frame
    BY ValidFact
  <2>2. CASE k <= n
    <3>1. k \in 1 .. n /\ p[k] = g
      BY <1>1, <2>1, <2>2
    <3> QED
      BY <1>1, <2>1, <3>1, ValidIntro
  <2>3. CASE k > n
    <3>1. k - n \in 1 .. Len(s) - n /\ n + (k - n) = k
      BY <1>1, <2>3
    <3>2. PICK m \in 1 .. Len(r) : r[m] = g
      BY <1>1, <2>1, <3>1
    <3> QED
      BY <1>1, <2>1, <3>2, ValidIntro
  <2> QED
    BY <1>1, <2>2, <2>3
<1> QED
  BY <1>1, <1>3, <1>4, <1>5, <1>6 DEF p, r

\* The frames that alloc takes and those it leaves.
LEMMA AllocatedFrames ==
  ASSUME TypeOK, Distinct(umem_frame_addr), NEW n \in Nat
  PROVE  /\ Distinct(Allocated(n)) /\ Distinct(AllocRest(n))
         /\ Valid(Allocated(n)) \union Valid(AllocRest(n)) = Valid(umem_frame_addr)
         /\ Valid(Allocated(n)) \intersect Valid(AllocRest(n)) = {}
<1> DEFINE s == umem_frame_addr
           top == Len(s)
           c == Smaller(n, top)
           a == Allocated(n)
           r == AllocRest(n)
<1>1. /\ s \in Seq(Frame) /\ s \in Seq(Entry) /\ top \in Nat
      /\ \A k \in 1 .. top : s[k] \in Frame
  BY EntryFact, LenProperties, ElementOfSeq DEF TypeOK
<1>2. c \in 0 .. top /\ c \in 0 .. n /\ (c = n \/ c = top) /\ top - c \in 0 .. top
  BY <1>1 DEF Smaller
<1>3. /\ a \in Seq(Entry) /\ Len(a) = n /\ r \in Seq(Frame) /\ r \in Seq(Entry)
      /\ Len(r) = top - c
  BY AllocatedFact, EntryFact
<1>4. \A k \in 1 .. n :
        /\ k <= c => a[k] = s[top + 1 - k]
        /\ k > c => a[k] = INVALID_UMEM_FRAME
  BY <1>1, <1>2 DEF Allocated, xsk_umem_free_frames
<1>5. \A k \in 1 .. top - c : r[k] = s[k]
  BY <1>1, <1>2, PrefixFact DEF AllocRest, xsk_umem_free_frames
<1>6. DOMAIN s = 1 .. top /\ DOMAIN a = 1 .. n /\ DOMAIN r = 1 .. top - c
  BY <1>1, <1>3, LenProperties
<1> HIDE DEF s, top, c, a, r
<1>7. Distinct(r)
  <2> SUFFICES ASSUME NEW j \in 1 .. top - c, NEW k \in 1 .. top - c, r[j] = r[k],
                      r[j] # INVALID_UMEM_FRAME
               PROVE  j = k
    BY <1>6 DEF Distinct
  <2>1. j \in 1 .. top /\ k \in 1 .. top /\ s[j] = r[j] /\ s[k] = r[k]
    BY <1>1, <1>2, <1>5
  <2> QED
    BY <1>6, <2>1 DEF Distinct, s
<1>8. Distinct(a)
  <2> SUFFICES ASSUME NEW j \in 1 .. n, NEW k \in 1 .. n,
                      a[j] = a[k], a[j] # INVALID_UMEM_FRAME
               PROVE  j = k
    BY <1>6 DEF Distinct
  <2>1. /\ j <= c /\ k <= c
        /\ top + 1 - j \in 1 .. top /\ top + 1 - k \in 1 .. top
        /\ a[j] = s[top + 1 - j] /\ a[k] = s[top + 1 - k]
    BY <1>1, <1>2, <1>4
  <2>2. top + 1 - j = top + 1 - k
    BY <1>6, <2>1 DEF Distinct, s
  <2> QED
    BY <1>1, <2>2
<1>9. \A g \in Valid(a) : g \in Valid(s) /\ g \notin Valid(r)
  <2> TAKE g \in Valid(a)
  <2>1. PICK k \in 1 .. n : a[k] = g /\ g \in Frame
    BY <1>3, ValidFact
  <2>2. k <= c /\ top + 1 - k \in 1 .. top /\ s[top + 1 - k] = g
    BY <1>1, <1>2, <1>4, <2>1, EntryFact
  <2>3. g \in Valid(s)
    <3>1. PICK m \in 1 .. Len(s) : s[m] = g
      BY <2>2 DEF top
    <3> QED
      BY <1>1, <2>1, <3>1, ValidIntro
  <2>4. ASSUME g \in Valid(r) PROVE FALSE
    <3>1. PICK j \in 1 .. top - c : r[j] = g
      BY <1>3, <2>1, <2>4, ValidFact
    <3>2. j \in 1 .. top /\ s[j] = g /\ j # top + 1 - k
      BY <1>1, <1>2, <1>5, <2>2, <3>1
    <3> QED
      BY <1>6, <2>1, <2>2, <3>2, EntryFact DEF Distinct, s
  <2> QED
    BY <2>3, <2>4
<1>10. \A g \in Valid(r) : g \in Valid(s)
  <2> TAKE g \in Valid(r)
  <2>1. PICK k \in 1 .. top - c : r[k] = g /\ g \in Frame
    BY <1>3, ValidFact
  <2>2. k \in 1 .. Len(s) /\ s[k] = g
    BY <1>1, <1>2, <1>5, <2>1 DEF top
  <2> QED
    BY <1>1, <2>1, <2>2, ValidIntro
<1>11. \A g \in Valid(s) : g \in Valid(a) \/ g \in Valid(r)
  <2> TAKE g \in Valid(s)
  <2>1. PICK k \in 1 .. top : s[k] = g /\ g \in Frame
    BY <1>1, ValidFact DEF top
  <2>2. CASE k <= top - c
    <3>1. k \in 1 .. Len(r) /\ r[k] = g
      BY <1>1, <1>2, <1>3, <1>5, <2>1, <2>2
    <3> QED
      BY <1>3, <2>1, <3>1, ValidIntro
  <2>3. CASE k > top - c
    <3>1. /\ top + 1 - k \in 1 .. n /\ top + 1 - k <= c
          /\ top + 1 - (top + 1 - k) = k
      BY <1>1, <1>2, <2>3
    <3>2. a[top + 1 - k] = g
      BY <1>4, <2>1, <3>1
    <3>3. PICK m \in 1 .. Len(a) : a[m] = g
      BY <1>3, <3>1, <3>2
    <3> QED
      BY <1>3, <2>1, <3>3, ValidIntro
  <2> QED
    BY <1>1, <1>2, <2>2, <2>3
<1> QED
  BY <1>7, <1>8, <1>9, <1>10, <1>11 DEF s, a, r

-----------------------------------------------------------------------------
(* The unprocessed part of the rx ring.                                    *)

\* The unprocessed packets are the rx ring without its first i entries ...
LEMMA UnprocessedFact ==
  ASSUME Shape
  PROVE  /\ Unprocessed = Release(rx, i)
         /\ Unprocessed \in Seq(Frame)
         /\ Len(Unprocessed) = Len(rx) - i
         /\ i \in 0 .. Len(rx) /\ Len(rx) \in Nat
         /\ \A k \in 1 .. Len(rx) - i : Unprocessed[k] = rx[i + k]
<1>1. Unprocessed = Release(rx, i)
  BY DEF Unprocessed, Release
<1>2. rx \in Seq(Frame) /\ i \in 0 .. Len(rx) /\ Len(rx) \in Nat
  BY LenProperties DEF Shape, TypeOK, CachedViewsSafe
<1> QED
  BY <1>1, <1>2, ReleaseFact

\* ... in the state after a step as well.
LEMMA UnprocessedAfter ==
  ASSUME Shape'
  PROVE  /\ Unprocessed' \in Seq(Frame)
         /\ Len(Unprocessed') = Len(rx') - i'
         /\ i' \in 0 .. Len(rx') /\ Len(rx') \in Nat
         /\ \A k \in 1 .. Len(rx') - i' : Unprocessed'[k] = rx'[i' + k]
<1>1. Unprocessed' = Release(rx', i')
  BY DEF Unprocessed, Release
<1>2. rx' \in Seq(Frame) /\ i' \in 0 .. Len(rx') /\ Len(rx') \in Nat
  <2>1. /\ rx' \in Seq(Frame) /\ rcvd' \in 0 .. RxBatchSize /\ i' \in 0 .. rcvd'
        /\ rx_avail' \in Nat /\ rx_avail' <= Len(rx') - rcvd'
    BY DEF Shape, TypeOK, CachedViewsSafe
  <2>2. Len(rx') \in Nat
    BY <2>1, LenProperties
  <2> QED
    BY <2>1, <2>2
<1> QED
  BY <1>1, <1>2, ReleaseFact

\* One turn of the loop takes the first unprocessed packet.
LEMMA UnprocessedNext ==
  ASSUME Shape, Shape', NEW frame \in Frame, NextPacket(frame)
  PROVE  /\ Unprocessed # <<>>
         /\ Head(Unprocessed) = frame
         /\ Unprocessed' = Tail(Unprocessed)
<1> DEFINE u == Unprocessed
           v == Unprocessed'
<1>1. /\ i < rcvd /\ rcvd <= Len(rx) /\ i \in Nat /\ rcvd \in Nat /\ Len(rx) \in Nat
      /\ frame = rx[i + 1] /\ i' = i + 1 /\ rx' = rx
  BY LenProperties DEF NextPacket, Shape, TypeOK, CachedViewsSafe
<1>2. /\ u \in Seq(Frame) /\ Len(u) = Len(rx) - i
      /\ \A k \in 1 .. Len(rx) - i : u[k] = rx[i + k]
  BY UnprocessedFact
<1>3. /\ v \in Seq(Frame) /\ Len(v) = Len(rx) - (i + 1)
      /\ \A k \in 1 .. Len(rx) - (i + 1) : v[k] = rx[(i + 1) + k]
  BY <1>1, UnprocessedAfter
<1> HIDE DEF u, v
<1>4. u # <<>> /\ Head(u) = frame
  BY <1>1, <1>2, HeadTailProperties, EmptySeq
<1>5. /\ Tail(u) \in Seq(Frame) /\ Len(Tail(u)) = Len(u) - 1
      /\ \A k \in 1 .. Len(Tail(u)) : Tail(u)[k] = u[k + 1]
  BY <1>2, <1>4, HeadTailProperties
<1>6. \A k \in 1 .. Len(v) : v[k] = Tail(u)[k]
  BY <1>1, <1>2, <1>3, <1>5
<1>7. v = Tail(u)
  BY <1>1, <1>2, <1>3, <1>5, <1>6, SeqEqual
<1> QED
  BY <1>4, <1>7 DEF u, v

\* The release of a processed batch changes nothing for the others.
LEMMA UnprocessedReleased ==
  ASSUME Shape, Shape', ReleaseRx
  PROVE  Unprocessed' = Unprocessed
<1> DEFINE u == Unprocessed
           v == Unprocessed'
<1>1. /\ i = rcvd /\ i' = 0 /\ rx' = Release(rx, i) /\ i \in 0 .. Len(rx) /\ Len(rx) \in Nat
      /\ rx \in Seq(Frame)
  BY UnprocessedFact DEF ReleaseRx, Shape, TypeOK
<1>2. /\ u \in Seq(Frame) /\ u = rx'
  BY <1>1, UnprocessedFact
<1>3. /\ v \in Seq(Frame) /\ Len(v) = Len(rx') - 0
      /\ \A k \in 1 .. Len(rx') - 0 : v[k] = rx'[0 + k]
  BY <1>1, UnprocessedAfter
<1>4. Len(rx') \in Nat
  BY <1>2, LenProperties
<1> HIDE DEF u, v
<1>5. \A k \in 1 .. Len(v) : v[k] = u[k]
  BY <1>2, <1>3, <1>4
<1> QED
  BY <1>2, <1>3, <1>4, <1>5, SeqEqual DEF u, v

\* The kernel delivers behind the packets that wait, in a batch or not.
LEMMA UnprocessedDelivered ==
  ASSUME Shape, Shape', NEW frame \in Frame, rx' = Append(rx, frame), i' = i
  PROVE  Unprocessed' = Append(Unprocessed, frame)
<1> DEFINE u == Unprocessed
           v == Unprocessed'
           t == Append(u, frame)
<1>1. /\ u \in Seq(Frame) /\ Len(u) = Len(rx) - i
      /\ \A k \in 1 .. Len(rx) - i : u[k] = rx[i + k]
      /\ i \in 0 .. Len(rx) /\ Len(rx) \in Nat
  BY UnprocessedFact
<1>2. /\ Len(rx') = Len(rx) + 1 /\ rx'[Len(rx) + 1] = frame
      /\ \A k \in 1 .. Len(rx) : rx'[k] = rx[k]
  BY AppendProperties DEF Shape, TypeOK
<1>3. /\ v \in Seq(Frame) /\ Len(v) = Len(rx') - i
      /\ \A k \in 1 .. Len(rx') - i : v[k] = rx'[i + k]
  BY UnprocessedAfter
<1>4. /\ t \in Seq(Frame) /\ Len(t) = Len(u) + 1 /\ t[Len(u) + 1] = frame
      /\ \A k \in 1 .. Len(u) : t[k] = u[k]
  BY <1>1, AppendProperties
<1> HIDE DEF u, v, t
<1>5. ASSUME NEW k \in 1 .. Len(v) PROVE v[k] = t[k]
  <2>1. CASE k <= Len(u)
    BY <1>1, <1>2, <1>3, <1>4, <2>1
  <2>2. CASE k = Len(u) + 1
    BY <1>1, <1>2, <1>3, <1>4, <2>2
  <2> QED
    BY <1>1, <1>2, <1>3, <2>1, <2>2
<1> QED
  BY <1>1, <1>2, <1>3, <1>4, <1>5, SeqEqual DEF u, v, t

-----------------------------------------------------------------------------
(* The second strengthening: one function says who owns each frame, and    *)
(* every place holds exactly the frames it owns.                           *)

Having(w, p) == {f \in Frame : w[f] = p}

Owned(w) ==
  /\ Valid(umem_frame_addr) = Having(w, "stack")
  /\ Valid(fq) = Having(w, "fill")
  /\ held = Having(w, "held")
  /\ Valid(Unprocessed) = Having(w, "received")
  /\ Valid(tx) = Having(w, "sent")
  /\ inflight = Having(w, "inflight")
  /\ Valid(cq) = Having(w, "completed")

AllDistinct ==
  /\ Distinct(umem_frame_addr) /\ Distinct(fq) /\ Distinct(Unprocessed)
  /\ Distinct(tx) /\ Distinct(cq)

Parted == AllDistinct /\ \E w \in [Frame -> Ownership!Place] : Owned(w)

\* Frames pass from one owner to the next of the cycle.
Passed(w, v) ==
  \E h \in Ownership!Handover :
    \A f \in Frame : v[f] # w[f] => w[f] = h[1] /\ v[f] = h[2]

Moved(w, v, moved, p, q) ==
  /\ Having(v, p) = Having(w, p) \ moved
  /\ Having(v, q) = Having(w, q) \union moved
  /\ \A r \in Ownership!Place : r # p /\ r # q => Having(v, r) = Having(w, r)
  /\ Passed(w, v)

\* Passing some frames of p on to q gives a new owner function.
LEMMA MoveFact ==
  ASSUME NEW w \in [Frame -> Ownership!Place], NEW moved \in SUBSET Frame,
         NEW p, NEW q, <<p, q>> \in Ownership!Handover,
         moved \subseteq Having(w, p)
  PROVE  \E v \in [Frame -> Ownership!Place] : Moved(w, v, moved, p, q)
<1> DEFINE v == [f \in Frame |-> IF f \in moved THEN q ELSE w[f]]
<1>1. p \in Ownership!Place /\ q \in Ownership!Place /\ p # q
  BY DEF Ownership!Handover, Ownership!Place
<1>2. v \in [Frame -> Ownership!Place]
  BY <1>1
<1>3. /\ Having(v, p) = Having(w, p) \ moved
      /\ Having(v, q) = Having(w, q) \union moved
  BY <1>1 DEF Having
<1>4. ASSUME NEW r, r # p, r # q PROVE Having(v, r) = Having(w, r)
  BY <1>4 DEF Having
<1>5. Passed(w, v)
  <2>1. \A f \in Frame : v[f] # w[f] => w[f] = p /\ v[f] = q
    BY DEF Having
  <2>2. <<p, q>>[1] = p /\ <<p, q>>[2] = q
    OBVIOUS
  <2> QED
    BY <2>1, <2>2 DEF Passed
<1> QED
  BY <1>2, <1>3, <1>4, <1>5 DEF Moved

\* The edges of the cycle, one by one.
LEMMA HandoverFact ==
  /\ <<"stack", "fill">> \in Ownership!Handover
  /\ <<"fill", "held">> \in Ownership!Handover
  /\ <<"held", "received">> \in Ownership!Handover
  /\ <<"received", "stack">> \in Ownership!Handover
  /\ <<"received", "sent">> \in Ownership!Handover
  /\ <<"sent", "inflight">> \in Ownership!Handover
  /\ <<"inflight", "completed">> \in Ownership!Handover
  /\ <<"completed", "stack">> \in Ownership!Handover
BY DEF Ownership!Handover

\* A frame has one owner.
LEMMA DisjointFact ==
  ASSUME NEW w, NEW p, NEW q, p # q
  PROVE  Having(w, p) \intersect Having(w, q) = {}
BY DEF Having

\* At the start every frame is on the free stack.
LEMMA PartedInit == Init => Parted
<1> SUFFICES ASSUME Init PROVE Parted
  OBVIOUS
<1> DEFINE w == [f \in Frame |-> "stack"]
<1>1. /\ umem_frame_addr \in Seq(Frame) /\ umem_frame_addr \in Seq(Entry)
      /\ Len(umem_frame_addr) = NumFrames
      /\ \A k \in 1 .. NumFrames : umem_frame_addr[k] = k - 1
  BY SizesAssumption, EntryFact DEF Init, Frame
<1>2. Distinct(umem_frame_addr)
  BY SizesAssumption DEF Init, Distinct
<1>3. Valid(umem_frame_addr) = Frame
  <2>1. ASSUME NEW f \in Frame PROVE f \in Valid(umem_frame_addr)
    <3>1. f + 1 \in 1 .. NumFrames /\ (f + 1) - 1 = f
      BY SizesAssumption DEF Frame
    <3>2. PICK k \in 1 .. Len(umem_frame_addr) : umem_frame_addr[k] = f
      BY <1>1, <3>1
    <3> QED
      BY <1>1, <3>2, ValidIntro
  <2> QED
    BY <1>1, <2>1, ValidFact
<1>4. /\ fq = <<>> /\ tx = <<>> /\ cq = <<>> /\ Unprocessed = <<>>
      /\ held = {} /\ inflight = {}
  <2>1. Unprocessed = <<>>
    BY SubSeqEmpty DEF Init, Unprocessed
  <2> QED
    BY <2>1 DEF Init
<1>5. Valid(<<>>) = {} /\ Distinct(<<>>)
  BY DEF Valid, Range, Distinct
<1>6. w \in [Frame -> Ownership!Place]
  BY DEF Ownership!Place
<1>7. /\ Having(w, "stack") = Frame
      /\ \A p : p # "stack" => Having(w, p) = {}
  BY DEF Having
<1>8. Owned(w)
  BY <1>3, <1>4, <1>5, <1>7 DEF Owned
<1> QED
  BY <1>2, <1>4, <1>5, <1>6, <1>8 DEF Parted, AllDistinct

\* Every step passes the frames of one place on to the next, or none: this is what
\* the absence of aliases and leaks and the refinement both rest on.
LEMMA PartedStep ==
  ASSUME Shape, Shape', AllDistinct, [Next]_vars,
         NEW w \in [Frame -> Ownership!Place], Owned(w)
  PROVE  /\ AllDistinct'
         /\ \E v \in [Frame -> Ownership!Place] : Owned(v)' /\ (v = w \/ Passed(w, v))
<1> DEFINE After(v) == Owned(v)' /\ Passed(w, v)
<1>0. /\ umem_frame_addr \in Seq(Entry) /\ fq \in Seq(Entry) /\ tx \in Seq(Entry)
      /\ cq \in Seq(Entry) /\ Unprocessed \in Seq(Entry)
  BY EntryFact, UnprocessedFact DEF Shape, TypeOK
<1>1. CASE Configure \/ Refill
  <2>1. PICK n \in Nat : /\ fq' = fq \o Allocated(n)
                         /\ umem_frame_addr' = AllocRest(n)
                         /\ UNCHANGED <<rx, i, tx, cq, held, inflight>>
    <3>1. CASE Configure
      <4>1. fq = <<>> /\ Allocated(FillSize) \in Seq(Entry)
        BY <3>1, SizesAssumption, AllocatedFact DEF Configure, Shape, Phase
      <4>2. fq \o Allocated(FillSize) = Allocated(FillSize)
        BY <4>1, ConcatEmptySeq
      <4> QED
        BY <3>1, <4>2, SizesAssumption DEF Configure, kernel
    <3>2. CASE Refill
      BY <3>2 DEF Refill, kernel, Shape, TypeOK
    <3> QED
      BY <1>1, <3>1, <3>2
  <2> DEFINE moved == Valid(Allocated(n))
  <2>2. /\ Distinct(Allocated(n)) /\ Distinct(umem_frame_addr')
        /\ moved \union Valid(umem_frame_addr') = Valid(umem_frame_addr)
        /\ moved \intersect Valid(umem_frame_addr') = {}
    BY <2>1, AllocatedFrames DEF Shape, AllDistinct
  <2>3. moved \in SUBSET Frame /\ moved \subseteq Having(w, "stack")
    BY <2>2 DEF Owned, Having
  <2>4. Valid(fq) \intersect moved = {}
    BY <2>3, DisjointFact DEF Owned
  <2>5. Distinct(fq') /\ Valid(fq') = Valid(fq) \union moved
    BY <1>0, <2>1, <2>2, <2>4, AllocatedFact, ConcatFrames DEF Shape, AllDistinct
  <2>6. PICK v \in [Frame -> Ownership!Place] : Moved(w, v, moved, "stack", "fill")
    BY <2>3, MoveFact, HandoverFact
  <2>7. Unprocessed' = Unprocessed
    BY <2>1 DEF Unprocessed
  <2>8. Valid(umem_frame_addr') = Valid(umem_frame_addr) \ moved
    BY <2>2
  <2> HIDE DEF moved
  <2>9. Owned(v)'
    BY <2>1, <2>5, <2>6, <2>7, <2>8 DEF Owned, Moved, Ownership!Place
  <2> QED
    BY <2>1, <2>2, <2>5, <2>6, <2>7, <2>9 DEF AllDistinct, Moved
<1>2. CASE PeekRx \/ Stock \/ CompleteTx \/ KernelTransmitEnd \/ UNCHANGED vars
  <2>1. UNCHANGED <<umem_frame_addr, fq, rx, tx, cq, held, inflight, i>>
    BY <1>2 DEF PeekRx, Stock, CompleteTx, KernelTransmitEnd, vars, program, kernel,
                Shape, Phase
  <2>2. Unprocessed' = Unprocessed
    BY <2>1 DEF Unprocessed
  <2> QED
    BY <2>1, <2>2 DEF Owned, AllDistinct
<1>3. CASE DropPacket \/ NoTransmitSlot
  <2>1. PICK frame \in Frame : NextPacket(frame) /\ xsk_free_umem_frame(frame)
    BY <1>3 DEF DropPacket, NoTransmitSlot
  <2>2. UNCHANGED <<fq, tx, cq, held, inflight>>
    BY <1>3, <2>1 DEF DropPacket, NoTransmitSlot, NextPacket, kernel
  <2>3. /\ Unprocessed # <<>> /\ Head(Unprocessed) = frame
        /\ Unprocessed' = Tail(Unprocessed)
    BY <2>1, UnprocessedNext
  <2>4. /\ Distinct(Unprocessed') /\ frame \in Valid(Unprocessed)
        /\ Valid(Unprocessed') = Valid(Unprocessed) \ {frame}
    BY <1>0, <2>3, TailFrames, EntryFact DEF AllDistinct
  <2>5. {frame} \subseteq Having(w, "received") /\ frame \notin Valid(umem_frame_addr)
    BY <2>4, DisjointFact DEF Owned
  <2>6. /\ Distinct(umem_frame_addr')
        /\ Valid(umem_frame_addr') = Valid(umem_frame_addr) \union {frame}
    BY <1>0, <2>1, <2>5, AppendFrames DEF AllDistinct, xsk_free_umem_frame
  <2>7. PICK v \in [Frame -> Ownership!Place] : Moved(w, v, {frame}, "received", "stack")
    BY <2>5, MoveFact, HandoverFact
  <2>8. Owned(v)'
    BY <2>2, <2>4, <2>6, <2>7 DEF Owned, Moved, Ownership!Place
  <2> QED
    BY <2>2, <2>4, <2>6, <2>7, <2>8 DEF AllDistinct, Moved
<1>4. CASE EchoReply
  <2>1. PICK frame \in Frame : /\ NextPacket(frame)
                               /\ tx' = Append(tx, frame)
                               /\ UNCHANGED umem_frame_addr
    BY <1>4 DEF EchoReply
  <2>2. UNCHANGED <<fq, cq, held, inflight>>
    BY <2>1 DEF NextPacket, kernel
  <2>3. /\ Unprocessed # <<>> /\ Head(Unprocessed) = frame
        /\ Unprocessed' = Tail(Unprocessed)
    BY <2>1, UnprocessedNext
  <2>4. /\ Distinct(Unprocessed') /\ frame \in Valid(Unprocessed)
        /\ Valid(Unprocessed') = Valid(Unprocessed) \ {frame}
    BY <1>0, <2>3, TailFrames, EntryFact DEF AllDistinct
  <2>5. {frame} \subseteq Having(w, "received") /\ frame \notin Valid(tx)
    BY <2>4, DisjointFact DEF Owned
  <2>6. Distinct(tx') /\ Valid(tx') = Valid(tx) \union {frame}
    BY <1>0, <2>1, <2>5, AppendFrames DEF AllDistinct
  <2>7. PICK v \in [Frame -> Ownership!Place] : Moved(w, v, {frame}, "received", "sent")
    BY <2>5, MoveFact, HandoverFact
  <2>8. Owned(v)'
    BY <2>1, <2>2, <2>4, <2>6, <2>7 DEF Owned, Moved, Ownership!Place
  <2> QED
    BY <2>1, <2>2, <2>4, <2>6, <2>7, <2>8 DEF AllDistinct, Moved
<1>5. CASE ReleaseRx
  <2>1. UNCHANGED <<umem_frame_addr, fq, tx, cq, held, inflight>>
    BY <1>5 DEF ReleaseRx, kernel
  <2>2. Unprocessed' = Unprocessed
    BY <1>5, UnprocessedReleased
  <2> QED
    BY <2>1, <2>2 DEF Owned, AllDistinct
<1>6. CASE Collect
  <2> DEFINE completed == Peek(cq_avail, cq, CqSize)
             moved == Valid(SubSeq(cq, 1, completed))
  <2>1. completed \in 0 .. Len(cq)
    BY CollectFact
  <2>2. /\ umem_frame_addr' = umem_frame_addr \o SubSeq(cq, 1, completed)
        /\ cq' = Release(cq, completed)
        /\ UNCHANGED <<fq, rx, i, tx, held, inflight>>
    BY <1>6 DEF Collect, kernel
  <2>3. /\ SubSeq(cq, 1, completed) \in Seq(Entry)
        /\ Distinct(SubSeq(cq, 1, completed)) /\ Distinct(cq')
        /\ moved \union Valid(cq') = Valid(cq)
        /\ moved \intersect Valid(cq') = {}
    BY <1>0, <2>1, <2>2, SplitFrames DEF AllDistinct
  <2>4. /\ moved \in SUBSET Frame /\ moved \subseteq Having(w, "completed")
        /\ Valid(umem_frame_addr) \intersect moved = {}
    BY <2>3, DisjointFact DEF Owned, Having
  <2>5. /\ Distinct(umem_frame_addr')
        /\ Valid(umem_frame_addr') = Valid(umem_frame_addr) \union moved
    BY <1>0, <2>2, <2>3, <2>4, ConcatFrames DEF AllDistinct
  <2>6. PICK v \in [Frame -> Ownership!Place] : Moved(w, v, moved, "completed", "stack")
    BY <2>4, MoveFact, HandoverFact
  <2>7. Unprocessed' = Unprocessed
    BY <2>2 DEF Unprocessed
  <2>8. Valid(cq') = Valid(cq) \ moved
    BY <2>3
  <2> HIDE DEF moved, completed
  <2>9. Owned(v)'
    BY <2>2, <2>5, <2>6, <2>7, <2>8 DEF Owned, Moved, Ownership!Place
  <2> QED
    BY <2>2, <2>3, <2>5, <2>6, <2>7, <2>9 DEF AllDistinct, Moved
<1>7. CASE KernelTake
  <2> DEFINE frame == Head(fq)
  <2>1. /\ fq # <<>> /\ frame # INVALID_UMEM_FRAME /\ fq' = Tail(fq)
        /\ held' = held \union {frame}
        /\ UNCHANGED <<umem_frame_addr, rx, i, tx, cq, inflight>>
    BY <1>7 DEF KernelTake, program
  <2>2. /\ Distinct(fq') /\ frame \in Valid(fq) /\ frame \in Frame
        /\ Valid(fq') = Valid(fq) \ {frame}
    BY <1>0, <2>1, TailFrames, ValidFact DEF AllDistinct
  <2>3. PICK v \in [Frame -> Ownership!Place] : Moved(w, v, {frame}, "fill", "held")
    BY <2>2, MoveFact, HandoverFact DEF Owned
  <2>4. Unprocessed' = Unprocessed
    BY <2>1 DEF Unprocessed
  <2>5. Owned(v)'
    BY <2>1, <2>2, <2>3, <2>4 DEF Owned, Moved, Ownership!Place
  <2> QED
    BY <2>1, <2>2, <2>3, <2>4, <2>5 DEF AllDistinct, Moved
<1>8. CASE KernelSkip
  <2>1. /\ fq # <<>> /\ Head(fq) = INVALID_UMEM_FRAME /\ fq' = Tail(fq)
        /\ UNCHANGED <<umem_frame_addr, rx, i, tx, cq, held, inflight>>
    BY <1>8 DEF KernelSkip, program, kernel
  <2>2. Distinct(fq') /\ Valid(fq') = Valid(fq)
    <3>1. Distinct(fq') /\ Valid(fq') = Valid(fq) \ {Head(fq)}
      BY <1>0, <2>1, TailFrames DEF AllDistinct
    <3>2. Head(fq) \notin Valid(fq)
      BY <2>1 DEF Valid
    <3> QED
      BY <3>1, <3>2
  <2>3. Unprocessed' = Unprocessed
    BY <2>1 DEF Unprocessed
  <2> QED
    BY <2>1, <2>2, <2>3 DEF Owned, AllDistinct
<1>9. CASE KernelDeliver
  <2>1. PICK frame \in held :
          /\ rx' = Append(rx, frame) /\ held' = held \ {frame}
          /\ UNCHANGED <<umem_frame_addr, fq, i, tx, cq, inflight>>
    BY <1>9 DEF KernelDeliver, program
  <2>2. frame \in Frame /\ {frame} \subseteq Having(w, "held") /\ frame \notin Valid(Unprocessed)
    BY DisjointFact DEF Owned, Having
  <2>3. Unprocessed' = Append(Unprocessed, frame)
    BY <2>1, <2>2, UnprocessedDelivered
  <2>4. Distinct(Unprocessed') /\ Valid(Unprocessed') = Valid(Unprocessed) \union {frame}
    BY <1>0, <2>2, <2>3, AppendFrames DEF AllDistinct
  <2>5. PICK v \in [Frame -> Ownership!Place] : Moved(w, v, {frame}, "held", "received")
    BY <2>2, MoveFact, HandoverFact
  <2>6. Owned(v)'
    BY <2>1, <2>4, <2>5 DEF Owned, Moved, Ownership!Place
  <2> QED
    BY <2>1, <2>4, <2>5, <2>6 DEF AllDistinct, Moved
<1>10. CASE KernelTransmit
  <2> DEFINE frame == Head(tx)
  <2>1. /\ tx # <<>> /\ tx' = Tail(tx) /\ inflight' = inflight \union {frame}
        /\ UNCHANGED <<umem_frame_addr, fq, rx, i, cq, held>>
    BY <1>10 DEF KernelTransmit, program
  <2>2. frame \in Frame
    BY <2>1, HeadTailProperties DEF Shape, TypeOK
  <2>3. /\ Distinct(tx') /\ frame \in Valid(tx)
        /\ Valid(tx') = Valid(tx) \ {frame}
    BY <1>0, <2>1, <2>2, TailFrames, EntryFact DEF AllDistinct
  <2>4. PICK v \in [Frame -> Ownership!Place] : Moved(w, v, {frame}, "sent", "inflight")
    BY <2>2, <2>3, MoveFact, HandoverFact DEF Owned
  <2>5. Unprocessed' = Unprocessed
    BY <2>1 DEF Unprocessed
  <2>6. Owned(v)'
    BY <2>1, <2>3, <2>4, <2>5 DEF Owned, Moved, Ownership!Place
  <2> QED
    BY <2>1, <2>3, <2>4, <2>5, <2>6 DEF AllDistinct, Moved
<1>11. CASE KernelComplete
  <2>1. PICK frame \in inflight :
          /\ cq' = Append(cq, frame) /\ inflight' = inflight \ {frame}
          /\ UNCHANGED <<umem_frame_addr, fq, rx, i, tx, held>>
    BY <1>11 DEF KernelComplete, program
  <2>2. frame \in Frame /\ {frame} \subseteq Having(w, "inflight") /\ frame \notin Valid(cq)
    BY DisjointFact DEF Owned, Having
  <2>3. Distinct(cq') /\ Valid(cq') = Valid(cq) \union {frame}
    BY <1>0, <2>1, <2>2, AppendFrames DEF AllDistinct
  <2>4. PICK v \in [Frame -> Ownership!Place] : Moved(w, v, {frame}, "inflight", "completed")
    BY <2>2, MoveFact, HandoverFact
  <2>5. Unprocessed' = Unprocessed
    BY <2>1 DEF Unprocessed
  <2>6. Owned(v)'
    BY <2>1, <2>3, <2>4, <2>5 DEF Owned, Moved, Ownership!Place
  <2> QED
    BY <2>1, <2>3, <2>4, <2>5, <2>6 DEF AllDistinct, Moved
<1> QED
  BY <1>1, <1>2, <1>3, <1>4, <1>5, <1>6, <1>7, <1>8, <1>9, <1>10, <1>11
  DEF Next, User, Kernel

-----------------------------------------------------------------------------
(* The theorems.                                                           *)

\* The same, as a step of the invariant.
LEMMA PartedNext == Shape /\ Parted /\ [Next]_vars => Parted'
<1> SUFFICES ASSUME Shape, Parted, [Next]_vars PROVE Parted'
  OBVIOUS
<1>1. Shape'
  BY ShapeStep
<1>2. PICK w \in [Frame -> Ownership!Place] : Owned(w)
  BY DEF Parted
<1>3. PICK v \in [Frame -> Ownership!Place] : AllDistinct' /\ Owned(v)'
  BY <1>1, <1>2, PartedStep DEF Parted
<1> QED
  BY <1>3 DEF Parted

\* Shape and Parted hold in every reachable state.
LEMMA Invariance == Spec => [](Shape /\ Parted)
<1>1. Init => Shape /\ Parted
  BY ShapeInit, PartedInit
<1>2. (Shape /\ Parted) /\ [Next]_vars => (Shape /\ Parted)'
  BY ShapeStep, PartedNext
<1> QED
  BY <1>1, <1>2, PTL DEF Spec

\* FramesAt, which the properties use, is the owner function read backwards.
LEMMA PlacesFact ==
  ASSUME NEW w \in [Frame -> Ownership!Place], Owned(w)
  PROVE  /\ DOMAIN FramesAt = Ownership!Place
         /\ \A p \in DOMAIN FramesAt : FramesAt[p] = Having(w, p)
BY DEF FramesAt, Ownership!Place, Owned

\* A frame with exactly one owner is neither aliased nor lost.
LEMMA NoAliasLemma == Parted => NoAlias /\ NoLeak
<1> SUFFICES ASSUME Parted PROVE NoAlias /\ NoLeak
  OBVIOUS
<1>1. PICK w \in [Frame -> Ownership!Place] : Owned(w)
  BY DEF Parted
<1>2. \A p, q \in DOMAIN FramesAt : p # q => FramesAt[p] \intersect FramesAt[q] = {}
  BY <1>1, PlacesFact, DisjointFact
<1>3. \A f \in Frame : \E p \in DOMAIN FramesAt : f \in FramesAt[p]
  <2> TAKE f \in Frame
  <2>1. w[f] \in DOMAIN FramesAt /\ f \in FramesAt[w[f]]
    BY <1>1, PlacesFact DEF Having
  <2> QED
    BY <2>1
<1> QED
  BY <1>2, <1>3 DEF Parted, AllDistinct, NoAlias, NoLeak

\* The state keeps its types, for rings and a UMEM of every size.
THEOREM TypeTheorem == Spec => []TypeOK
<1>1. Shape => TypeOK
  BY DEF Shape
<1> QED
  BY <1>1, Invariance, PTL

\* The cached views: no ring is ever overrun and no entry is read before it was
\* produced, whatever the kernel does between two calls.
THEOREM CachedViewsTheorem == Spec => []CachedViewsSafe
<1>1. Shape => CachedViewsSafe
  BY DEF Shape
<1> QED
  BY <1>1, Invariance, PTL

\* The retry loop of handle_receive_packets() is never entered.
THEOREM ReserveTheorem == Spec => []ReserveNeverShort
<1>1. Shape => ReserveNeverShort
  BY DEF Shape, Phase, TypeOK, ReserveNeverShort, Reserve, NbFree
<1> QED
  BY <1>1, Invariance, PTL

\* No frame is used twice.
THEOREM FramesTheorem == Spec => []NoAlias
BY NoAliasLemma, Invariance, PTL

\* No frame is lost: each is in one of the places the program or the kernel knows.
THEOREM NoLeakTheorem == Spec => []NoLeak
BY NoAliasLemma, Invariance, PTL
=============================================================================
