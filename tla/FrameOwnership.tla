--------------------------- MODULE FrameOwnership ---------------------------
(***************************************************************************)
(* What the AF_XDP receive loop promises about its UMEM: every frame has   *)
(* exactly one owner, and ownership passes only along the rings, from each *)
(* owner to the next one of the cycle.                                     *)
(***************************************************************************)
CONSTANT Frame

VARIABLE owner

Place == {"stack", "fill", "held", "received", "sent", "inflight", "completed"}

\* The cycle of a dropped packet, and the longer one of an answered packet.
Handover ==
  { <<"stack", "fill">>, <<"fill", "held">>, <<"held", "received">>,
    <<"received", "stack">>,
    <<"received", "sent">>, <<"sent", "inflight">>, <<"inflight", "completed">>,
    <<"completed", "stack">> }

Init == owner = [f \in Frame |-> "stack"]

\* Some frames of one owner pass to the next.
Next ==
  LET now == owner
      later == owner'
      moved == {f \in Frame : later[f] # now[f]}
  IN  /\ owner' \in [Frame -> Place]
      /\ \E h \in Handover : \A f \in moved : now[f] = h[1] /\ later[f] = h[2]

Spec == Init /\ [][Next]_owner
=============================================================================
