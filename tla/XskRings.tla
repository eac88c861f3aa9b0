------------------------------ MODULE XskRings ------------------------------
(***************************************************************************)
(* The arithmetic of one side of an AF_XDP ring, as libxdp's <xdp/xsk.h>   *)
(* gives it to the program: a ring is the sequence of the entries that its *)
(* producer has submitted and its consumer has not released, and each side *)
(* keeps a CACHED view of how much of it the other side has left, which it *)
(* refreshes from the shared index only when the cached view is too small. *)
(* External code, modelled from its use in advanced03-AF_XDP.              *)
(***************************************************************************)
EXTENDS Integers, Sequences

\* The smaller of two counts.
Smaller(a, b) == IF a <= b THEN a ELSE b

\* xsk_prod_nb_free(r, nb): the free entries the producer believes in. The
\* consumer index is read again only when the cached view is short of nb, so the
\* result is the whole cached view and may well exceed nb.
NbFree(cachedFree, size, ring, nb) ==
  IF cachedFree >= nb THEN cachedFree ELSE size - Len(ring)

\* xsk_ring_prod__reserve(r, nb): all of nb, or nothing.
Reserve(cachedFree, size, ring, nb) ==
  IF NbFree(cachedFree, size, ring, nb) >= nb THEN nb ELSE 0

\* xsk_cons_nb_avail(r, nb): the entries the consumer believes in. The producer
\* index is read again only when the cached view is empty.
NbAvail(cachedAvail, ring) ==
  IF cachedAvail = 0 THEN Len(ring) ELSE cachedAvail

\* xsk_ring_cons__peek(r, nb): up to nb of them.
Peek(cachedAvail, ring, nb) == Smaller(NbAvail(cachedAvail, ring), nb)

\* xsk_ring_cons__release(r, n): the ring without its first n entries.
Release(ring, n) == SubSeq(ring, n + 1, Len(ring))
=============================================================================
