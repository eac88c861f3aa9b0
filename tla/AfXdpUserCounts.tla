--------------------------- MODULE AfXdpUserCounts ---------------------------
(***************************************************************************)
(* What the sizes of the rings, of the batch and of the UMEM imply for the *)
(* AF_XDP program: it can always free a frame, how many invalid addresses  *)
(* it posts, and that it does not starve.                                  *)
(***************************************************************************)
EXTENDS AfXdpUserFrames

-----------------------------------------------------------------------------
(* Counting frames.                                                        *)

\* There are NumFrames frames.
LEMMA FrameCount == IsFiniteSet(Frame) /\ Cardinality(Frame) = NumFrames
BY SizesAssumption, FS_Interval DEF Frame

\* Some of the frames are not more than all of them.
LEMMA SubsetCount ==
  ASSUME NEW S, S \subseteq Frame
  PROVE  IsFiniteSet(S) /\ Cardinality(S) \in Nat /\ Cardinality(S) <= NumFrames
BY FrameCount, FS_Subset, FS_CardinalityType

\* The size of a union, and of a disjoint one.
LEMMA UnionCount ==
  ASSUME NEW S, NEW T, S \subseteq Frame, T \subseteq Frame
  PROVE  /\ Cardinality(S \union T) <= Cardinality(S) + Cardinality(T)
         /\ S \intersect T = {} =>
              Cardinality(S \union T) = Cardinality(S) + Cardinality(T)
<1>1. /\ IsFiniteSet(S) /\ IsFiniteSet(T) /\ IsFiniteSet(S \intersect T)
      /\ Cardinality(S) \in Nat /\ Cardinality(T) \in Nat
      /\ Cardinality(S \intersect T) \in Nat
  <2>1. S \intersect T \subseteq Frame
    OBVIOUS
  <2> QED
    BY <2>1, SubsetCount
<1>2. Cardinality(S \union T)
        = Cardinality(S) + Cardinality(T) - Cardinality(S \intersect T)
  BY <1>1, FS_Union
<1>3. S \intersect T = {} => Cardinality(S \intersect T) = 0
  BY FS_EmptySet
<1> QED
  BY <1>1, <1>2, <1>3

\* The size of 1 .. n.
LEMMA IntervalCount ==
  ASSUME NEW n \in Nat
  PROVE  IsFiniteSet(1 .. n) /\ Cardinality(1 .. n) = n
<1>1. /\ IsFiniteSet(1 .. n)
      /\ Cardinality(1 .. n) = IF 1 > n THEN 0 ELSE n - 1 + 1
  BY FS_Interval
<1> QED
  BY <1>1

\* A ring has no more frames than entries, and as many when they are distinct.
LEMMA RingCount ==
  ASSUME NEW s \in Seq(Entry)
  PROVE  /\ Valid(s) \subseteq Frame
         /\ Cardinality(Valid(s)) \in Nat /\ Len(s) \in Nat
         /\ Cardinality(Valid(s)) <= Len(s)
         /\ s \in Seq(Frame) /\ Distinct(s) => Cardinality(Valid(s)) = Len(s)
<1>1. /\ Len(s) \in Nat /\ DOMAIN s = 1 .. Len(s)
      /\ \A k \in 1 .. Len(s) : s[k] \in Entry
  BY LenProperties, ElementOfSeq
<1>2. IsFiniteSet(1 .. Len(s)) /\ Cardinality(1 .. Len(s)) = Len(s)
  BY <1>1, IntervalCount
<1>3. s \in [1 .. Len(s) -> Entry]
  BY <1>1, SeqDef
<1>4. s \in Surjection(1 .. Len(s), Range(s))
  BY <1>1, <1>3 DEF Surjection, Range
<1>5. IsFiniteSet(Range(s)) /\ Cardinality(Range(s)) <= Len(s)
  BY <1>2, <1>4, FS_Surjection
<1>6. /\ Valid(s) \subseteq Frame /\ Valid(s) \in SUBSET Range(s)
      /\ Cardinality(Valid(s)) \in Nat
  BY ValidFact, SubsetCount DEF Valid
<1>7. Cardinality(Valid(s)) <= Cardinality(Range(s))
  BY <1>5, <1>6, FS_Subset
<1>8. Cardinality(Range(s)) \in Nat
  BY <1>5, FS_CardinalityType
<1>9. ASSUME s \in Seq(Frame), Distinct(s) PROVE Cardinality(Valid(s)) = Len(s)
  <2>1. \A k \in 1 .. Len(s) : s[k] \in Frame /\ s[k] # INVALID_UMEM_FRAME
    BY <1>9, ElementOfSeq, EntryFact
  <2>2. \A k \in 1 .. Len(s) : s[k] \in Valid(s)
    BY <2>1, ValidIntro
  <2>3. \A j, k \in 1 .. Len(s) : s[j] = s[k] => j = k
    BY <1>1, <1>9, <2>1 DEF Distinct
  <2>4. s \in Injection(1 .. Len(s), Valid(s))
    BY <1>3, <2>2, <2>3 DEF Injection, IsInjective
  <2>5. Cardinality(1 .. Len(s)) <= Cardinality(Valid(s))
    BY <1>6, <2>4, SubsetCount, FS_Injection
  <2> QED
    BY <1>1, <1>2, <1>5, <1>6, <1>7, <1>8, <2>5
<1> QED
  BY <1>1, <1>5, <1>6, <1>7, <1>8, <1>9

\* A sum with three larger summands is larger.
LEMMA SumGrows ==
  ASSUME NEW n \in Nat, NEW a \in Nat, NEW b \in Nat, NEW c \in Nat, NEW d \in Nat,
         NEW e \in Nat, NEW f \in Nat, NEW g \in Nat,
         NEW x \in Nat, NEW y \in Nat, NEW z \in Nat, a <= x, e <= y, g <= z,
         n <= a + b + c + d + e + f + g
  PROVE  n <= x + b + c + d + y + f + z
OBVIOUS

\* Every frame is somewhere: the rings, the stack and the kernel hold NumFrames
\* entries at least.
LEMMA Coverage ==
  ASSUME Shape, Parted
  PROVE  NumFrames <= Len(umem_frame_addr) + Cardinality(Valid(fq)) + Cardinality(held)
                        + Cardinality(Valid(Unprocessed)) + Len(tx)
                        + Cardinality(inflight) + Len(cq)
<1>1. PICK w \in [Frame -> Ownership!Place] : Owned(w)
  BY DEF Parted
<1> DEFINE A == Valid(umem_frame_addr)
           B == Valid(fq)
           C == held
           D == Valid(Unprocessed)
           E == Valid(tx)
           F == inflight
           G == Valid(cq)
<1>2. A \subseteq Frame /\ B \subseteq Frame /\ C \subseteq Frame /\ D \subseteq Frame
      /\ E \subseteq Frame /\ F \subseteq Frame /\ G \subseteq Frame
  BY <1>1 DEF Owned, Having
<1>3. Frame = A \union (B \union (C \union (D \union (E \union (F \union G)))))
  BY <1>1 DEF Owned, Having, Ownership!Place
<1>4. /\ Cardinality(A) <= Len(umem_frame_addr) /\ Cardinality(E) <= Len(tx)
      /\ Cardinality(G) <= Len(cq)
      /\ Len(umem_frame_addr) \in Nat /\ Len(tx) \in Nat /\ Len(cq) \in Nat
  BY RingCount, EntryFact DEF Shape, TypeOK
<1> HIDE DEF A, B, C, D, E, F, G
<1>5. /\ Cardinality(A) \in Nat /\ Cardinality(B) \in Nat /\ Cardinality(C) \in Nat
      /\ Cardinality(D) \in Nat /\ Cardinality(E) \in Nat /\ Cardinality(F) \in Nat
      /\ Cardinality(G) \in Nat
  BY <1>2, SubsetCount
<1>6. Cardinality(F \union G) <= Cardinality(F) + Cardinality(G)
      /\ Cardinality(F \union G) \in Nat /\ F \union G \subseteq Frame
  BY <1>2, UnionCount, SubsetCount
<1>7. Cardinality(E \union (F \union G)) <= Cardinality(E) + Cardinality(F \union G)
      /\ Cardinality(E \union (F \union G)) \in Nat /\ E \union (F \union G) \subseteq Frame
  BY <1>2, <1>6, UnionCount, SubsetCount
<1> DEFINE EFG == E \union (F \union G)
           DG == D \union EFG
           CG == C \union DG
           BG == B \union CG
<1>8. Cardinality(DG) <= Cardinality(D) + Cardinality(EFG)
      /\ Cardinality(DG) \in Nat /\ DG \subseteq Frame
  BY <1>2, <1>7, UnionCount, SubsetCount
<1>9. Cardinality(CG) <= Cardinality(C) + Cardinality(DG)
      /\ Cardinality(CG) \in Nat /\ CG \subseteq Frame
  BY <1>2, <1>8, UnionCount, SubsetCount
<1>10. Cardinality(BG) <= Cardinality(B) + Cardinality(CG)
      /\ Cardinality(BG) \in Nat /\ BG \subseteq Frame
  BY <1>2, <1>9, UnionCount, SubsetCount
<1>11. Cardinality(A \union BG) <= Cardinality(A) + Cardinality(BG)
  BY <1>2, <1>10, UnionCount
<1>12. NumFrames <= Cardinality(A) + Cardinality(BG)
  BY <1>3, <1>11, FrameCount
<1> HIDE DEF EFG, DG, CG, BG
<1>13. NumFrames <= Cardinality(A) + Cardinality(B) + Cardinality(C) + Cardinality(D)
                      + Cardinality(E) + Cardinality(F) + Cardinality(G)
  BY <1>5, <1>6, <1>7, <1>8, <1>9, <1>10, <1>12, SizesAssumption DEF EFG
<1>14. NumFrames <= Len(umem_frame_addr) + Cardinality(B) + Cardinality(C)
                      + Cardinality(D) + Len(tx) + Cardinality(F) + Len(cq)
  BY <1>4, <1>5, <1>13, SizesAssumption, SumGrows
<1> QED
  BY <1>14 DEF B, C, D, F

-----------------------------------------------------------------------------
(* The assert of xsk_free_umem_frame().                                    *)

\* What is freed next is not on the stack, so the stack is not full.
LEMMA FreeAssertLemma == Shape /\ Parted => FreeAssertHolds
<1> SUFFICES ASSUME Shape, Parted PROVE FreeAssertHolds
  OBVIOUS
<1> DEFINE S == Valid(umem_frame_addr)
<1>1. PICK w \in [Frame -> Ownership!Place] : Owned(w)
  BY DEF Parted
<1>2. /\ S \subseteq Frame /\ Cardinality(S) = Len(umem_frame_addr)
      /\ Valid(cq) \subseteq Frame /\ Cardinality(Valid(cq)) = Len(cq)
      /\ Len(cq) \in Nat /\ Len(umem_frame_addr) \in Nat
  BY RingCount, EntryFact DEF Shape, TypeOK, Parted, AllDistinct
<1>3. ASSUME pc = "process", i < rcvd PROVE Len(umem_frame_addr) < NumFrames
  <2>1. i + 1 \in 1 .. Len(rx) /\ i \in Nat /\ rx \in Seq(Frame) /\ Len(rx) - i > 0
    BY <1>3, LenProperties DEF Shape, TypeOK, CachedViewsSafe
  <2>2. /\ Unprocessed \in Seq(Frame) /\ Unprocessed \in Seq(Entry)
        /\ 1 \in 1 .. Len(Unprocessed) /\ Unprocessed[1] \in Frame
    BY <2>1, UnprocessedFact, EntryFact, ElementOfSeq
  <2>3. Unprocessed[1] \in Valid(Unprocessed)
    BY <2>2, ValidIntro
  <2>4. Unprocessed[1] \notin S
    BY <1>1, <2>3, DisjointFact DEF Owned
  <2>5. /\ IsFiniteSet(Frame \ {Unprocessed[1]})
        /\ Cardinality(Frame \ {Unprocessed[1]}) = NumFrames - 1
    BY <2>2, FrameCount, FS_RemoveElement
  <2>6. S \in SUBSET (Frame \ {Unprocessed[1]})
    BY <1>2, <2>4
  <2>7. Cardinality(S) <= NumFrames - 1
    BY <2>5, <2>6, FS_Subset
  <2> QED
    BY <1>2, <2>7, SizesAssumption
<1>4. Len(umem_frame_addr) + Peek(cq_avail, cq, CqSize) <= NumFrames
  <2>1. S \intersect Valid(cq) = {} /\ S \union Valid(cq) \subseteq Frame
    BY <1>1, <1>2, DisjointFact DEF Owned
  <2>2. Len(umem_frame_addr) + Len(cq) <= NumFrames
    <3>1. Cardinality(S \union Valid(cq)) = Cardinality(S) + Cardinality(Valid(cq))
      BY <1>2, <2>1, UnionCount
    <3>2. Cardinality(S \union Valid(cq)) <= NumFrames
      BY <2>1, SubsetCount
    <3> QED
      BY <1>2, <3>1, <3>2
  <2>3. Peek(cq_avail, cq, CqSize) \in 0 .. Len(cq)
    BY CollectFact
  <2> QED
    BY <1>2, <2>2, <2>3, SizesAssumption
<1> QED
  BY <1>3, <1>4 DEF FreeAssertHolds, xsk_umem_free_frames

\* The assert of xsk_free_umem_frame() never fails: whatever is freed next, the
\* stack has room for it.
THEOREM FreeAssertTheorem == Spec => []FreeAssertHolds
BY FreeAssertLemma, Invariance, PTL

-----------------------------------------------------------------------------
(* The third strengthening: the bounds the kernel keeps, and the count of  *)
(* the replies that are under way.                                         *)

Bounds ==
  /\ Len(rx) <= RxSize
  /\ Cardinality(held) <= KernelMax
  /\ Cardinality(inflight) + Len(cq) <= CqSize
  /\ ~ReplyEnabled => tx = <<>> /\ inflight = {} /\ cq = <<>>
  /\ OutstandingExact

\* Every count below is a natural number.
LEMMA KernelSetsFact ==
  ASSUME Shape
  PROVE  /\ IsFiniteSet(held) /\ Cardinality(held) \in Nat
         /\ IsFiniteSet(inflight) /\ Cardinality(inflight) \in Nat
         /\ Len(umem_frame_addr) \in Nat /\ Len(fq) \in Nat /\ Len(rx) \in Nat
         /\ Len(tx) \in Nat /\ Len(cq) \in Nat
         /\ outstanding_tx \in Nat /\ rcvd \in Nat /\ i \in Nat /\ stock_frames \in Nat
BY SubsetCount, LenProperties DEF Shape, TypeOK

\* At the start nothing is under way.
LEMMA BoundsInit == Init => Bounds
BY SizesAssumption, FS_EmptySet DEF Init, Bounds, OutstandingExact

\* The kernel keeps to its rings, and every reply is counted when it is sent and
\* when it is collected.
LEMMA BoundsStep == Shape /\ Parted /\ Bounds /\ [Next]_vars => Bounds'
<1> SUFFICES ASSUME Shape, Parted, Bounds, [Next]_vars PROVE Bounds'
  OBVIOUS
<1>0. /\ Cardinality(held) \in Nat /\ Cardinality(inflight) \in Nat
      /\ IsFiniteSet(held) /\ IsFiniteSet(inflight)
      /\ Len(rx) \in Nat /\ Len(tx) \in Nat /\ Len(cq) \in Nat /\ outstanding_tx \in Nat
  BY KernelSetsFact
<1>1. CASE \/ Configure \/ PeekRx \/ Stock \/ Refill \/ CompleteTx
           \/ DropPacket \/ NoTransmitSlot
           \/ KernelSkip \/ KernelTransmitEnd \/ UNCHANGED vars
  <2>1. UNCHANGED <<rx, held, inflight, cq, tx, outstanding_tx>>
    BY <1>1 DEF Configure, PeekRx, Stock, Refill, CompleteTx, DropPacket, NoTransmitSlot,
                NextPacket, KernelSkip, KernelTransmitEnd, vars, program, kernel
  <2> QED
    BY <2>1 DEF Bounds, OutstandingExact
<1>2. CASE EchoReply
  <2>1. PICK frame \in Frame : tx' = Append(tx, frame)
    BY <1>2 DEF EchoReply
  <2>2. Len(tx') = Len(tx) + 1
    BY <2>1, AppendProperties DEF Shape, TypeOK
  <2>3. /\ ReplyEnabled /\ outstanding_tx' = outstanding_tx + 1
        /\ UNCHANGED <<rx, held, inflight, cq>>
    BY <1>2 DEF EchoReply, NextPacket, kernel
  <2> QED
    BY <1>0, <2>2, <2>3 DEF Bounds, OutstandingExact
<1>3. CASE ReleaseRx
  <2>1. rcvd \in 0 .. Len(rx) /\ rcvd \in Nat
    BY <1>0 DEF Shape, TypeOK, CachedViewsSafe
  <2>2. Len(rx') = Len(rx) - rcvd
    BY <1>3, <2>1, ReleaseFact DEF ReleaseRx, Shape, TypeOK
  <2>3. Len(rx') <= RxSize
    BY <1>0, <2>1, <2>2, SizesAssumption DEF Bounds
  <2> QED
    BY <1>3, <2>3 DEF ReleaseRx, Bounds, OutstandingExact, kernel
<1>4. CASE Collect
  <2> DEFINE completed == Peek(cq_avail, cq, CqSize)
  <2>1. completed \in 0 .. Len(cq)
    BY CollectFact
  <2>2. /\ cq' = Release(cq, completed)
        /\ outstanding_tx' = outstanding_tx - Smaller(completed, outstanding_tx)
        /\ UNCHANGED <<rx, tx, held, inflight>>
    BY <1>4 DEF Collect, kernel
  <2>3. cq' \in Seq(Frame) /\ Len(cq') = Len(cq) - completed
    BY <2>1, <2>2, ReleaseFact DEF Shape, TypeOK
  <2> HIDE DEF completed
  <2>4. completed <= outstanding_tx /\ completed \in Nat
    <3>1. outstanding_tx = Len(tx) + Cardinality(inflight) + Len(cq)
      BY DEF Bounds, OutstandingExact
    <3> QED
      BY <1>0, <2>1, <3>1
  <2>5. outstanding_tx' = outstanding_tx - completed
    BY <1>0, <2>2, <2>4 DEF Smaller
  <2>6. OutstandingExact'
    <3>1. outstanding_tx = Len(tx) + Cardinality(inflight) + Len(cq)
      BY DEF Bounds, OutstandingExact
    <3>2. outstanding_tx' = Len(tx') + Cardinality(inflight') + Len(cq')
      BY <1>0, <2>2, <2>3, <2>4, <2>5, <3>1
    <3> QED
      BY <3>2 DEF OutstandingExact
  <2>7. Cardinality(inflight) + Len(cq') <= CqSize
    BY <1>0, <2>1, <2>3, SizesAssumption DEF Bounds
  <2>8. cq = <<>> => cq' = <<>>
    BY <2>1, <2>3, EmptySeq
  <2> QED
    BY <2>2, <2>6, <2>7, <2>8 DEF Bounds
<1>5. CASE KernelTake
  <2>1. Cardinality(held') <= KernelMax
    <3>1. Cardinality(held) < KernelMax /\ held' = held \union {Head(fq)}
      BY <1>5 DEF KernelTake
    <3>2. Cardinality(held') = IF Head(fq) \in held THEN Cardinality(held)
                                                   ELSE Cardinality(held) + 1
      BY <1>0, <3>1, FS_AddElement
    <3> QED
      BY <1>0, <3>1, <3>2, SizesAssumption
  <2> QED
    BY <1>5, <2>1 DEF KernelTake, program, Bounds, OutstandingExact
<1>6. CASE KernelDeliver
  <2>1. PICK frame \in held : /\ Len(rx) < RxSize /\ rx' = Append(rx, frame)
                              /\ held' = held \ {frame}
                              /\ UNCHANGED <<inflight, tx, cq, outstanding_tx>>
    BY <1>6 DEF KernelDeliver, program
  <2>2. Len(rx') = Len(rx) + 1
    BY <2>1, AppendProperties DEF Shape, TypeOK
  <2>3. Cardinality(held') = Cardinality(held) - 1
    BY <1>0, <2>1, FS_RemoveElement
  <2>4. Len(rx') <= RxSize /\ Cardinality(held') <= KernelMax
    BY <1>0, <2>1, <2>2, <2>3, SizesAssumption DEF Bounds
  <2> QED
    BY <2>1, <2>4 DEF Bounds, OutstandingExact
<1>7. CASE KernelTransmit
  <2> DEFINE frame == Head(tx)
  <2>1. /\ tx # <<>> /\ Cardinality(inflight) + Len(cq) < CqSize
        /\ inflight' = inflight \union {frame} /\ tx' = Tail(tx)
        /\ UNCHANGED <<rx, held, cq, outstanding_tx>>
    BY <1>7 DEF KernelTransmit, CqRoom, program
  <2>2. Len(tx') = Len(tx) - 1 /\ frame \in Frame
    BY <2>1, HeadTailProperties DEF Shape, TypeOK
  <2>3. PICK w \in [Frame -> Ownership!Place] : Owned(w)
    BY DEF Parted
  <2>4. frame \in Valid(tx)
    BY <2>1, <2>2, EntryFact, TailFrames DEF Parted, AllDistinct, Shape, TypeOK
  <2>5. frame \notin inflight
    BY <2>3, <2>4, DisjointFact DEF Owned
  <2>6. Cardinality(inflight') = Cardinality(inflight) + 1
    BY <1>0, <2>1, <2>5, FS_AddElement
  <2>7. Len(tx') + Cardinality(inflight') + Len(cq) = Len(tx) + Cardinality(inflight) + Len(cq)
    BY <1>0, <2>2, <2>6
  <2>8. OutstandingExact' /\ Cardinality(inflight') + Len(cq) <= CqSize
    BY <1>0, <2>1, <2>6, <2>7, SizesAssumption DEF Bounds, OutstandingExact
  <2> QED
    BY <2>1, <2>8 DEF Bounds
<1>8. CASE KernelComplete
  <2>1. PICK frame \in inflight :
          /\ cq' = Append(cq, frame) /\ inflight' = inflight \ {frame}
          /\ UNCHANGED <<rx, tx, held, outstanding_tx>>
    BY <1>8 DEF KernelComplete, program
  <2>2. Len(cq') = Len(cq) + 1
    BY <2>1, AppendProperties DEF Shape, TypeOK
  <2>3. Cardinality(inflight') = Cardinality(inflight) - 1
    BY <1>0, <2>1, FS_RemoveElement
  <2> DEFINE a == Cardinality(inflight)
             b == Len(cq)
             c == Len(tx)
  <2>4. (a - 1) + (b + 1) = a + b /\ c + (a - 1) + (b + 1) = c + a + b
    <3>1. a \in Nat /\ b \in Nat /\ c \in Nat
      BY <1>0
    <3> HIDE DEF a, b, c
    <3> QED
      BY <3>1
  <2>5. OutstandingExact'
    BY <2>1, <2>2, <2>3, <2>4 DEF Bounds, OutstandingExact
  <2> QED
    BY <2>1, <2>2, <2>3, <2>4, <2>5 DEF Bounds
<1> QED
  BY <1>1, <1>2, <1>3, <1>4, <1>5, <1>6, <1>7, <1>8 DEF Next, User, Kernel

\* outstanding_tx is exactly the number of replies that are not collected yet.
THEOREM OutstandingTheorem == Spec => []OutstandingExact
<1>1. Bounds => OutstandingExact
  BY DEF Bounds
<1>2. Spec => []Bounds
  BY BoundsInit, BoundsStep, Invariance, PTL DEF Spec
<1> QED
  BY <1>1, <1>2, PTL

-----------------------------------------------------------------------------
(* Invalid addresses and starvation.                                       *)

\* The transmit side holds no more than its two rings.
LEMMA TxSideFact ==
  ASSUME Shape, Bounds
  PROVE  TxSide \in Nat /\ Len(tx) + Cardinality(inflight) + Len(cq) <= TxSide
<1>1. /\ Len(tx) \in Nat /\ Cardinality(inflight) \in Nat /\ Len(cq) \in Nat
      /\ Len(tx) <= TxSize /\ Cardinality(inflight) + Len(cq) <= CqSize
  BY KernelSetsFact, SizesAssumption DEF Shape, TypeOK, CachedViewsSafe, Bounds
<1>2. CASE ReplyEnabled
  BY <1>1, <1>2, SizesAssumption DEF TxSide
<1>3. CASE ~ReplyEnabled
  <2>1. Len(tx) = 0 /\ Cardinality(inflight) = 0 /\ Len(cq) = 0
    BY <1>3, EmptySeq, FS_EmptySet DEF Bounds
  <2> QED
    BY <1>3, <2>1 DEF TxSide
<1> QED
  BY <1>2, <1>3

\* The free frames, from the frames that are elsewhere.
LEMMA FreeFramesFact ==
  ASSUME Shape, Parted, Bounds
  PROVE  NumFrames <= Len(umem_frame_addr) + Cardinality(Valid(fq)) + Cardinality(held)
                        + Len(rx) + TxSide
<1>1. /\ Cardinality(Valid(Unprocessed)) <= Len(rx)
      /\ Cardinality(Valid(Unprocessed)) \in Nat /\ Len(rx) \in Nat
  <2>1. /\ Cardinality(Valid(Unprocessed)) <= Len(Unprocessed)
        /\ Cardinality(Valid(Unprocessed)) \in Nat
    BY UnprocessedFact, RingCount, EntryFact
  <2>2. Len(Unprocessed) = Len(rx) - i /\ i \in 0 .. Len(rx) /\ Len(rx) \in Nat
    BY UnprocessedFact
  <2> QED
    BY <2>1, <2>2
<1> DEFINE a == Len(umem_frame_addr)
           b == Cardinality(Valid(fq))
           c == Cardinality(held)
           d == Cardinality(Valid(Unprocessed))
           x == Len(rx)
           e == Len(tx)
           f == Cardinality(inflight)
           g == Len(cq)
<1>2. a \in Nat /\ b \in Nat /\ c \in Nat /\ d \in Nat /\ x \in Nat /\ e \in Nat
      /\ f \in Nat /\ g \in Nat /\ d <= x
  BY <1>1, KernelSetsFact, RingCount DEF Shape, TypeOK
<1>3. NumFrames <= a + b + c + d + e + f + g
  BY Coverage
<1>4. TxSide \in Nat /\ e + f + g <= TxSide
  BY TxSideFact
<1> HIDE DEF a, b, c, d, e, f, g, x
<1>5. NumFrames <= a + b + c + x + TxSide
  BY <1>2, <1>3, <1>4, SizesAssumption
<1> QED
  BY <1>5 DEF a, b, c, x

\* An entry of the fill ring is a frame or an invalid address.
LEMMA PostedCount ==
  ASSUME fq \in Seq(Entry), Distinct(fq)
  PROVE  /\ Cardinality(InvalidPosted) \in Nat
         /\ Cardinality(InvalidPosted) + Cardinality(Valid(fq)) = Len(fq)
<1> DEFINE n == Len(fq)
           I == InvalidPosted
           V == (1 .. n) \ I
<1>1. /\ n \in Nat /\ DOMAIN fq = 1 .. n
      /\ \A k \in 1 .. n : fq[k] \in Entry
  BY LenProperties, ElementOfSeq
<1>2. IsFiniteSet(1 .. n) /\ Cardinality(1 .. n) = n
  BY <1>1, IntervalCount
<1>3. I \subseteq 1 .. n /\ \A k \in 1 .. n : k \in I <=> fq[k] = INVALID_UMEM_FRAME
  BY <1>1 DEF InvalidPosted
<1> HIDE DEF n, I
<1>4. IsFiniteSet(I) /\ Cardinality(I) \in Nat
  BY <1>2, <1>3, FS_Subset, FS_CardinalityType
<1>5. IsFiniteSet(V) /\ Cardinality(V) = n - Cardinality(I)
  <2>1. (1 .. n) \intersect I = I
    BY <1>3
  <2> QED
    BY <1>2, <2>1, FS_Difference
<1> DEFINE g == [k \in V |-> fq[k]]
<1>6. g \in Bijection(V, Valid(fq))
  <2>1. \A k \in V : k \in 1 .. n /\ fq[k] # INVALID_UMEM_FRAME
    BY <1>3
  <2>2. \A k \in V : fq[k] \in Valid(fq)
    BY <1>1, <2>1 DEF Valid, Range
  <2>3. \A k, l \in V : fq[k] = fq[l] => k = l
    BY <1>1, <2>1 DEF Distinct
  <2>4. ASSUME NEW f \in Valid(fq) PROVE \E k \in V : fq[k] = f
    BY <1>1, <1>3 DEF Valid, Range
  <2> QED
    BY <2>2, <2>3, <2>4 DEF Bijection, Injection, Surjection, IsInjective
<1>7. Cardinality(V) = Cardinality(Valid(fq))
  <2>1. ExistsBijection(V, Valid(fq))
    BY <1>6 DEF ExistsBijection
  <2> QED
    BY <1>5, <2>1, FS_Bijection
<1>8. Cardinality(I) + Cardinality(Valid(fq)) = n
  BY <1>1, <1>4, <1>5, <1>7
<1> QED
  BY <1>4, <1>8 DEF n, I

\* What an empty stack says of the fill ring.
NothingFree == umem_frame_addr = <<>> => InvalidBounded

LEMMA NothingFreeFact == Shape /\ Parted /\ Bounds => NothingFree
<1> SUFFICES ASSUME Shape, Parted, Bounds, umem_frame_addr = <<>> PROVE InvalidBounded
  BY DEF NothingFree
<1> DEFINE a == Len(umem_frame_addr)
           b == Cardinality(Valid(fq))
           c == Cardinality(held)
           l == Len(rx)
           n == Len(fq)
           k == Cardinality(InvalidPosted)
           x == TxSide
<1>1. NumFrames <= a + b + c + l + x
  BY FreeFramesFact
<1>2. k \in Nat /\ k + b = n
  BY PostedCount DEF Shape, TypeOK, Parted, AllDistinct
<1>3. /\ a = 0 /\ b \in Nat /\ c \in Nat /\ l \in Nat /\ n \in Nat /\ x \in Nat
      /\ c <= KernelMax /\ l <= RxSize /\ n <= FillSize
  <2>1. umem_frame_addr \in Seq(Frame) /\ fq \in Seq(Entry) /\ held \subseteq Frame
    BY DEF Shape, TypeOK
  <2>2. a = 0
    BY EmptySeq
  <2>3. b \in Nat
    BY <2>1, RingCount
  <2>4. c \in Nat /\ l \in Nat /\ n \in Nat
    BY KernelSetsFact
  <2>5. x \in Nat
    BY TxSideFact
  <2>6. c <= KernelMax /\ l <= RxSize
    BY DEF Bounds
  <2>7. fq_free <= FillSize - n /\ fq_free \in Nat
    BY DEF Shape, TypeOK, CachedViewsSafe
  <2>8. n <= FillSize
    BY <2>4, <2>7, SizesAssumption
  <2> QED
    BY <2>2, <2>3, <2>4, <2>5, <2>6, <2>8
<1> HIDE DEF a, b, c, l, n, k, x
<1>4. k <= (FillSize + RxSize + KernelMax + x) - NumFrames
  BY <1>1, <1>2, <1>3, SizesAssumption
<1>5. k <= Missing
  BY <1>2, <1>3, <1>4, SizesAssumption DEF Missing, x
<1> QED
  BY <1>5 DEF InvalidBounded, k

\* Only a refill that empties the stack adds an invalid address.
LEMMA InvalidStep ==
  ASSUME Shape, InvalidBounded, NothingFree', [Next]_vars
  PROVE  InvalidBounded'
<1>1. CASE Configure \/ Refill
  <2>1. PICK n \in Nat : fq' = fq \o Allocated(n) /\ umem_frame_addr' = AllocRest(n)
    <3>1. CASE Configure
      <4>1. fq = <<>> /\ Allocated(FillSize) \in Seq(Entry)
        BY <3>1, SizesAssumption, AllocatedFact DEF Configure, Shape, Phase, TypeOK
      <4>2. fq \o Allocated(FillSize) = Allocated(FillSize)
        BY <4>1, ConcatEmptySeq
      <4> QED
        BY <3>1, <4>2, SizesAssumption DEF Configure
    <3>2. CASE Refill
      BY <3>2 DEF Refill, Shape, TypeOK
    <3> QED
      BY <1>1, <3>1, <3>2
  <2>2. umem_frame_addr \in Seq(Frame) /\ Len(umem_frame_addr) \in Nat /\ fq \in Seq(Entry)
    BY LenProperties DEF Shape, TypeOK
  <2>3. CASE n > Len(umem_frame_addr)
    <3>1. AllocRest(n) = SubSeq(umem_frame_addr, 1, 0)
      BY <2>2, <2>3 DEF AllocRest, Smaller, xsk_umem_free_frames
    <3>2. SubSeq(umem_frame_addr, 1, 0) = <<>>
      BY <2>2, SubSeqProperties, EmptySeq
    <3> QED
      BY <2>1, <3>1, <3>2 DEF NothingFree
  <2>4. CASE n <= Len(umem_frame_addr)
    <3>1. \A k \in 1 .. n : Allocated(n)[k] # INVALID_UMEM_FRAME
      <4> TAKE k \in 1 .. n
      <4>1. Len(umem_frame_addr) + 1 - k \in 1 .. Len(umem_frame_addr) /\ k <= Len(umem_frame_addr)
        BY <2>2, <2>4
      <4>2. umem_frame_addr[Len(umem_frame_addr) + 1 - k] \in Frame
        BY <2>2, <4>1, ElementOfSeq
      <4>3. Allocated(n)[k] = umem_frame_addr[Len(umem_frame_addr) + 1 - k]
        BY <4>1 DEF Allocated, xsk_umem_free_frames
      <4> QED
        BY <4>2, <4>3, EntryFact
    <3>2. PICK t \in Seq(Entry) : t = Allocated(n) /\ Len(t) = n
      BY AllocatedFact DEF Shape, TypeOK
    <3>3. /\ Len(fq) \in Nat /\ DOMAIN fq = 1 .. Len(fq)
          /\ Len(fq') = Len(fq) + n /\ DOMAIN fq' = 1 .. Len(fq) + n
          /\ \A k \in 1 .. Len(fq) : fq'[k] = fq[k]
          /\ \A k \in Len(fq) + 1 .. Len(fq) + n : fq'[k] = t[k - Len(fq)]
      <4>1. fq' = fq \o t /\ t \in Seq(Entry) /\ Len(t) = n
        BY <2>1, <3>2
      <4>2. /\ fq' \in Seq(Entry) /\ Len(fq') = Len(fq) + n
            /\ \A k \in 1 .. Len(fq) : fq'[k] = fq[k]
            /\ \A k \in Len(fq) + 1 .. Len(fq) + n : fq'[k] = t[k - Len(fq)]
        <5>1. PICK m \in Nat : m = Len(fq)
          BY <2>2, LenProperties
        <5>2. /\ fq \o t \in Seq(Entry) /\ Len(fq \o t) = m + n
              /\ \A k \in 1 .. m + n : (fq \o t)[k] = IF k <= m THEN fq[k] ELSE t[k - m]
          BY <2>2, <4>1, <5>1, ConcatProperties
        <5> QED
          BY <4>1, <5>1, <5>2
      <4> QED
        BY <2>2, <4>2, LenProperties
    <3>4. ASSUME NEW k \in Len(fq) + 1 .. Len(fq) + n PROVE fq'[k] # INVALID_UMEM_FRAME
      <4>1. k - Len(fq) \in 1 .. n
        BY <3>3
      <4> QED
        BY <3>1, <3>2, <3>3, <4>1
    <3>5. InvalidPosted' = InvalidPosted
      BY <3>3, <3>4 DEF InvalidPosted
    <3> QED
      BY <3>5 DEF InvalidBounded, Missing, TxSide
  <2> QED
    BY <2>2, <2>3, <2>4
<1>2. CASE KernelTake \/ KernelSkip
  <2>1. fq # <<>> /\ fq' = Tail(fq)
    BY <1>2 DEF KernelTake, KernelSkip
  <2>2. /\ DOMAIN fq' = 1 .. Len(fq) - 1 /\ DOMAIN fq = 1 .. Len(fq) /\ Len(fq) \in Nat
        /\ \A k \in 1 .. Len(fq) - 1 : fq'[k] = fq[k + 1]
    BY <2>1, HeadTailProperties, LenProperties DEF Shape, TypeOK
  <2>9. /\ InvalidPosted \subseteq 1 .. Len(fq)
        /\ \A k \in InvalidPosted' : k \in 1 .. Len(fq) - 1 /\ k + 1 \in InvalidPosted
    BY <2>2 DEF InvalidPosted
  <2> DEFINE I == InvalidPosted
             J == InvalidPosted'
             g == [k \in J |-> k + 1]
  <2>3. IsFiniteSet(I) /\ Cardinality(I) \in Nat
    <3>1. I \subseteq 1 .. Len(fq) /\ IsFiniteSet(1 .. Len(fq))
      BY <2>2, <2>9, IntervalCount
    <3> QED
      BY <3>1, FS_Subset, FS_CardinalityType
  <2>4. \A k \in J : k \in 1 .. Len(fq) - 1 /\ k + 1 \in I
    BY <2>9
  <2> HIDE DEF I, J
  <2>5. g \in Injection(J, I)
    BY <2>4 DEF Injection, IsInjective
  <2>6. IsFiniteSet(J) /\ Cardinality(J) <= Cardinality(I)
    BY <2>3, <2>5, FS_Injection
  <2>7. Cardinality(J) \in Nat
    BY <2>6, FS_CardinalityType
  <2>8. Missing \in Nat /\ Missing' = Missing
    BY SizesAssumption DEF Missing, TxSide
  <2> QED
    BY <2>3, <2>6, <2>7, <2>8 DEF InvalidBounded, I, J
<1>3. CASE \/ PeekRx \/ Stock \/ DropPacket \/ EchoReply \/ NoTransmitSlot \/ ReleaseRx
           \/ CompleteTx \/ Collect
           \/ KernelDeliver \/ KernelTransmit \/ KernelTransmitEnd \/ KernelComplete
           \/ UNCHANGED vars
  <2>1. fq' = fq
    BY <1>3 DEF PeekRx, Stock, DropPacket, EchoReply, NoTransmitSlot, ReleaseRx, CompleteTx,
                Collect, NextPacket, KernelDeliver, KernelTransmit, KernelTransmitEnd,
                KernelComplete, vars, program
  <2> QED
    BY <2>1 DEF InvalidBounded, InvalidPosted, Missing, TxSide
<1> QED
  BY <1>1, <1>2, <1>3 DEF Next, User, Kernel

\* No more invalid addresses are posted than there are frames missing, for every size of
\* the rings and of the UMEM.
THEOREM InvalidBoundedTheorem == Spec => []InvalidBounded
<1>1. Init => InvalidBounded
  <2> SUFFICES ASSUME Init PROVE InvalidBounded
    OBVIOUS
  <2>1. InvalidPosted = {}
    BY DEF Init, InvalidPosted
  <2>2. Cardinality(InvalidPosted) = 0
    BY <2>1, FS_EmptySet
  <2>3. Missing >= 0
    BY SizesAssumption DEF Missing, TxSide
  <2> QED
    BY <2>2, <2>3 DEF InvalidBounded
<1>2. Shape /\ InvalidBounded /\ NothingFree' /\ [Next]_vars => InvalidBounded'
  BY InvalidStep
<1> QED
  BY <1>1, <1>2, BoundsInit, BoundsStep, NothingFreeFact, Invariance, PTL DEF Spec

\* What is left to be received once the current batch is done.
Ahead == Valid(fq) # {} \/ held # {} \/ Len(rx) > rcvd

Alive ==
  /\ pc \in {"configure", "refill"} => Len(umem_frame_addr) > 0
  /\ Len(fq) = FillSize => Valid(fq) # {}
  /\ NumFrames > RxBatchSize + TxSide /\ pc \notin {"configure", "stock", "refill"}
       => Ahead

\* An allocation from a stack that is not empty returns a frame.
LEMMA AllocatedSome ==
  ASSUME Shape, NEW n \in Nat, n > 0, Len(umem_frame_addr) > 0,
         NEW s \in Seq(Entry)
  PROVE  Valid(s \o Allocated(n)) # {}
<1> DEFINE t == Allocated(n)
           u == s \o t
<1>1. t \in Seq(Entry) /\ Len(t) = n
  BY AllocatedFact DEF Shape
<1>2. t[1] \in Frame
  <2>1. /\ umem_frame_addr \in Seq(Frame) /\ Len(umem_frame_addr) \in Nat
        /\ Len(umem_frame_addr) \in 1 .. Len(umem_frame_addr)
    BY LenProperties DEF Shape, TypeOK
  <2>2. umem_frame_addr[Len(umem_frame_addr)] \in Frame
    BY <2>1, ElementOfSeq
  <2>3. t[1] = umem_frame_addr[Len(umem_frame_addr)]
    BY <2>1 DEF Allocated, xsk_umem_free_frames
  <2> QED
    BY <2>2, <2>3
<1> HIDE DEF t
<1>3. /\ u \in Seq(Entry) /\ Len(u) = Len(s) + n /\ Len(s) \in Nat
      /\ \A k \in Len(s) + 1 .. Len(u) : u[k] = t[k - Len(s)]
  <2>1. Len(s) \in Nat
    BY LenProperties
  <2>2. /\ u \in Seq(Entry) /\ Len(u) = Len(s) + Len(t)
        /\ \A k \in 1 .. Len(s) + Len(t) : u[k] = IF k <= Len(s) THEN s[k]
                                                             ELSE t[k - Len(s)]
    BY <1>1, ConcatProperties
  <2> QED
    BY <1>1, <2>1, <2>2
<1> HIDE DEF u
<1>4. PICK m \in 1 .. Len(u) : u[m] = t[1]
  <2>1. Len(s) + 1 \in Len(s) + 1 .. Len(u) /\ Len(s) + 1 \in 1 .. Len(u)
        /\ (Len(s) + 1) - Len(s) = 1
    BY <1>3
  <2> QED
    BY <1>3, <2>1
<1>5. u[m] \in Valid(u)
  BY <1>2, <1>3, <1>4, ValidIntro
<1> QED
  BY <1>5 DEF u, t

\* With enough frames every batch leaves something to be received.
LEMMA AliveStep == Shape /\ Parted /\ Bounds /\ Alive /\ [Next]_vars => Alive'
<1> SUFFICES ASSUME Shape, Parted, Bounds, Alive, [Next]_vars PROVE Alive'
  OBVIOUS
<1>0. /\ Len(fq) \in Nat /\ Len(rx) \in Nat /\ Len(umem_frame_addr) \in Nat
      /\ rcvd \in Nat /\ stock_frames \in Nat /\ rcvd <= Len(rx) /\ rcvd <= RxBatchSize
      /\ Len(fq) <= FillSize
  BY KernelSetsFact, SizesAssumption DEF Shape, TypeOK, CachedViewsSafe
<1>1. CASE Configure \/ Refill
  <2>1. PICK n \in Nat : n > 0 /\ fq' = fq \o Allocated(n)
    <3>1. CASE Configure
      <4>1. fq = <<>> /\ Allocated(FillSize) \in Seq(Entry)
        BY <3>1, SizesAssumption, AllocatedFact DEF Configure, Shape, Phase
      <4>2. fq \o Allocated(FillSize) = Allocated(FillSize)
        BY <4>1, ConcatEmptySeq
      <4> QED
        BY <3>1, <4>2, SizesAssumption DEF Configure
    <3>2. CASE Refill
      BY <1>0, <3>2 DEF Refill, Shape, Phase
    <3> QED
      BY <1>1, <3>1, <3>2
  <2>2. pc \in {"configure", "refill"} /\ pc' \notin {"configure", "refill"}
    BY <1>1 DEF Configure, Refill
  <2>3. Valid(fq') # {}
    BY <2>1, <2>2, AllocatedSome DEF Alive, Shape, TypeOK
  <2> QED
    BY <2>2, <2>3 DEF Alive, Ahead
<1>2. CASE PeekRx
  <2>1. fq' = fq /\ pc' = "stock"
    BY <1>2 DEF PeekRx
  <2> QED
    BY <2>1 DEF Alive
<1>3. CASE Stock
  <2>1. /\ UNCHANGED <<umem_frame_addr, fq, held, rx, rcvd>> /\ fq_free = 0
        /\ pc' = IF NbFree(0, FillSize, fq, Len(umem_frame_addr)) > 0
                 THEN "refill" ELSE "process"
    BY <1>3 DEF Stock, Shape, Phase, xsk_umem_free_frames, kernel
  <2>2. CASE Len(umem_frame_addr) > 0 /\ Len(fq) < FillSize
    <3>1. pc' = "refill"
      BY <1>0, <2>1, <2>2, SizesAssumption DEF NbFree
    <3> QED
      BY <2>1, <2>2, <3>1 DEF Alive
  <2>3. CASE Len(umem_frame_addr) > 0 /\ Len(fq) = FillSize
    <3>1. pc' = "process"
      BY <1>0, <2>1, <2>3, SizesAssumption DEF NbFree
    <3>2. Valid(fq) # {}
      BY <2>3 DEF Alive
    <3> QED
      BY <2>1, <3>1, <3>2 DEF Alive, Ahead
  <2>4. CASE Len(umem_frame_addr) = 0
    <3>1. pc' = "process"
      BY <1>0, <2>1, <2>4, SizesAssumption DEF NbFree
    <3>2. ASSUME NumFrames > RxBatchSize + TxSide, ~Ahead PROVE FALSE
      <4>1. Cardinality(Valid(fq)) = 0 /\ Cardinality(held) = 0 /\ Len(rx) <= rcvd
        <5>1. Valid(fq) = {} /\ held = {} /\ Len(rx) <= rcvd
          BY <1>0, <3>2 DEF Ahead
        <5> QED
          BY <5>1, FS_EmptySet
      <4>2. NumFrames <= 0 + 0 + 0 + Len(rx) + TxSide
        BY <2>4, <4>1, FreeFramesFact
      <4>3. TxSide \in Nat
        BY TxSideFact
      <4> QED
        BY <1>0, <3>2, <4>1, <4>2, <4>3, SizesAssumption
    <3>3. NumFrames > RxBatchSize + TxSide => Ahead'
      BY <2>1, <3>2 DEF Ahead
    <3> QED
      BY <2>1, <3>1, <3>3 DEF Alive, TxSide
  <2> QED
    BY <1>0, <2>2, <2>3, <2>4, SizesAssumption
<1>4. CASE ReleaseRx
  <2>1. rcvd \in 0 .. Len(rx)
    BY <1>0
  <2>2. /\ Len(rx') = Len(rx) - rcvd /\ rcvd' = 0 /\ UNCHANGED <<fq, held>>
        /\ pc = "process" /\ pc' = "complete"
    BY <1>4, <2>1, ReleaseFact DEF ReleaseRx, Shape, TypeOK, kernel
  <2>3. Ahead => Ahead'
    BY <1>0, <2>2 DEF Ahead
  <2> QED
    BY <2>2, <2>3 DEF Alive, TxSide
<1>5. CASE KernelTake
  <2>1. /\ fq # <<>> /\ fq' = Tail(fq) /\ held' = held \union {Head(fq)}
        /\ UNCHANGED <<pc, umem_frame_addr>>
    BY <1>5 DEF KernelTake, program
  <2>2. Len(fq') = Len(fq) - 1
    BY <2>1, HeadTailProperties DEF Shape, TypeOK
  <2>3. Len(fq') # FillSize
    BY <1>0, <2>2, SizesAssumption
  <2>4. Ahead'
    BY <2>1 DEF Ahead
  <2> QED
    BY <2>1, <2>3, <2>4 DEF Alive
<1>6. CASE KernelSkip
  <2>1. /\ fq # <<>> /\ fq' = Tail(fq) /\ Head(fq) = INVALID_UMEM_FRAME
        /\ UNCHANGED <<pc, umem_frame_addr, held, rx, rcvd>>
    BY <1>6 DEF KernelSkip, program, kernel
  <2>2. Len(fq') = Len(fq) - 1
    BY <2>1, HeadTailProperties DEF Shape, TypeOK
  <2>3. Len(fq') # FillSize
    BY <1>0, <2>2, SizesAssumption
  <2>4. Valid(fq') = Valid(fq)
    <3>1. Valid(fq') = Valid(fq) \ {Head(fq)}
      BY <2>1, TailFrames DEF Shape, TypeOK, Parted, AllDistinct
    <3>2. Head(fq) \notin Valid(fq)
      BY <2>1 DEF Valid
    <3> QED
      BY <3>1, <3>2
  <2>5. Ahead => Ahead'
    BY <2>1, <2>4 DEF Ahead
  <2> QED
    BY <2>1, <2>3, <2>5 DEF Alive, TxSide
<1>7. CASE KernelDeliver
  <2>1. PICK frame \in held : /\ rx' = Append(rx, frame)
                              /\ UNCHANGED <<pc, umem_frame_addr, fq, rcvd>>
    BY <1>7 DEF KernelDeliver, program
  <2>2. Len(rx') = Len(rx) + 1
    BY <2>1, AppendProperties DEF Shape, TypeOK
  <2>3. Ahead'
    BY <1>0, <2>1, <2>2 DEF Ahead
  <2> QED
    BY <2>1, <2>3 DEF Alive
<1>8. CASE \/ DropPacket \/ EchoReply \/ NoTransmitSlot \/ CompleteTx \/ Collect
           \/ KernelTransmit \/ KernelTransmitEnd \/ KernelComplete \/ UNCHANGED vars
  <2>1. /\ UNCHANGED <<fq, held, rx, rcvd>>
        /\ \/ UNCHANGED <<pc, umem_frame_addr>>
           \/ /\ pc \notin {"configure", "stock", "refill"}
              /\ pc' \notin {"configure", "stock", "refill"}
    BY <1>8 DEF DropPacket, EchoReply, NoTransmitSlot, NextPacket, CompleteTx, Collect,
                KernelTransmit, KernelTransmitEnd, KernelComplete, vars, program, kernel
  <2> QED
    BY <2>1 DEF Alive, Ahead, TxSide
<1> QED
  BY <1>1, <1>2, <1>3, <1>4, <1>5, <1>6, <1>7, <1>8 DEF Next, User, Kernel

\* At the start all frames are on the free stack, and there is at least one.
LEMMA AliveInit == Init => Alive
<1> SUFFICES ASSUME Init PROVE Alive
  OBVIOUS
<1>1. Len(umem_frame_addr) = NumFrames /\ Len(fq) = 0 /\ pc = "configure"
  BY SizesAssumption DEF Init
<1> QED
  BY <1>1, SizesAssumption DEF Alive

\* What is ahead of the batch is posted, held or received.
LEMMA AliveFact == Shape /\ Alive => NeverStarved
<1> SUFFICES ASSUME Shape, Alive, NumFrames > RxBatchSize + TxSide,
                    pc \in {"rx", "complete", "collect"}
             PROVE  FramesAt.fill \union FramesAt.held \union FramesAt.received # {}
  BY DEF NeverStarved
<1>1. Ahead /\ rcvd = 0 /\ i = 0
  BY DEF Alive, Shape, Phase
<1>2. Len(rx) > 0 => Valid(Unprocessed) # {}
  <2> SUFFICES ASSUME Len(rx) > 0 PROVE Valid(Unprocessed) # {}
    OBVIOUS
  <2>1. /\ Unprocessed \in Seq(Entry) /\ Unprocessed \in Seq(Frame)
        /\ 1 \in 1 .. Len(Unprocessed)
    BY <1>1, UnprocessedFact, EntryFact, KernelSetsFact
  <2>2. Unprocessed[1] \in Frame
    BY <2>1, ElementOfSeq
  <2> QED
    BY <2>1, <2>2, ValidIntro
<1>3. /\ FramesAt.fill = Valid(fq) /\ FramesAt.held = held
      /\ FramesAt.received = Valid(Unprocessed)
  BY DEF FramesAt
<1> QED
  BY <1>1, <1>2, <1>3 DEF Ahead

\* With more frames than a batch and the tx side can hold, a packet can always
\* be received.
THEOREM NeverStarvedTheorem == Spec => []NeverStarved
BY AliveInit, AliveStep, AliveFact, BoundsInit, BoundsStep, Invariance, PTL DEF Spec

-----------------------------------------------------------------------------
(* The refinement.                                                         *)

\* The frames have one owner each, so owner is the function that names it.
LEMMA ChoiceFact ==
  ASSUME NEW w \in [Frame -> Ownership!Place], NEW at,
         DOMAIN at = Ownership!Place, \A p \in DOMAIN at : at[p] = Having(w, p)
  PROVE  [f \in Frame |-> CHOOSE p \in DOMAIN at : f \in at[p]] = w
<1>1. ASSUME NEW f \in Frame PROVE (CHOOSE p \in DOMAIN at : f \in at[p]) = w[f]
  <2>1. w[f] \in DOMAIN at /\ \A p \in DOMAIN at : f \in at[p] <=> p = w[f]
    BY DEF Having
  <2> QED
    BY <2>1
<1> QED
  BY <1>1

\* The refinement mapping is the owner function ...
LEMMA OwnerFact ==
  ASSUME NEW w \in [Frame -> Ownership!Place], Owned(w)
  PROVE  owner = w
BY PlacesFact, ChoiceFact DEF owner

\* ... in the state after a step as well.
LEMMA OwnerNextFact ==
  ASSUME NEW w \in [Frame -> Ownership!Place], Owned(w)'
  PROVE  owner' = w
<1>1. DOMAIN FramesAt' = Ownership!Place
  BY DEF FramesAt, Ownership!Place
<1>2. \A p \in DOMAIN FramesAt' : FramesAt'[p] = Having(w, p)
  BY <1>1 DEF FramesAt, Ownership!Place, Owned
<1> QED
  BY <1>1, <1>2, ChoiceFact DEF owner

\* The initial states map to the initial state of FrameOwnership.
LEMMA OwnerInit == Init => Ownership!Init
<1> SUFFICES ASSUME Init PROVE Ownership!Init
  OBVIOUS
<1>1. PICK w \in [Frame -> Ownership!Place] : Owned(w)
  BY PartedInit DEF Parted
<1>2. /\ Valid(fq) = {} /\ held = {} /\ Valid(Unprocessed) = {} /\ Valid(tx) = {}
      /\ inflight = {} /\ Valid(cq) = {}
  BY SubSeqEmpty DEF Init, Unprocessed, Valid, Range
<1>3. \A f \in Frame : w[f] = "stack"
  BY <1>1, <1>2 DEF Owned, Having, Ownership!Place
<1> QED
  BY <1>1, <1>3, OwnerFact DEF Ownership!Init

\* Every step maps to a step of FrameOwnership or to a stutter.
LEMMA OwnerStep == Shape /\ Parted /\ [Next]_vars => [Ownership!Next]_owner
<1> SUFFICES ASSUME Shape, Parted, [Next]_vars PROVE [Ownership!Next]_owner
  OBVIOUS
<1>1. PICK w \in [Frame -> Ownership!Place] : Owned(w)
  BY DEF Parted
<1>2. PICK v \in [Frame -> Ownership!Place] : Owned(v)' /\ (v = w \/ Passed(w, v))
  BY <1>1, ShapeStep, PartedStep DEF Parted
<1>3. owner = w /\ owner' = v
  BY <1>1, <1>2, OwnerFact, OwnerNextFact
<1>4. CASE v = w
  BY <1>3, <1>4
<1>5. CASE Passed(w, v)
  <2>1. Ownership!Next
    BY <1>3, <1>5 DEF Ownership!Next, Passed
  <2> QED
    BY <2>1
<1> QED
  BY <1>2, <1>4, <1>5

\* Every step of the program and of the kernel passes frames along one edge of
\* the cycle of FrameOwnership, or none.
THEOREM OwnershipTheorem == Spec => OwnershipKept
BY OwnerInit, OwnerStep, Invariance, PTL DEF Spec, OwnershipKept, Ownership!Spec
=============================================================================
