---------------------------- MODULE MCPinnedMaps ----------------------------
(* The command lines that the runs of PinnedMaps choose from.              *)
EXTENDS PinnedMaps

\* One of each kind that touches the pinned file.
PinCommands ==
  {c \in Command : IF c.op = "load" THEN c.lesson = "basic04" \/ c.reuse_maps
                                    ELSE c.lesson = "solution" /\ ~c.reuse_maps}

\* The solution's loader, always with --reuse-maps.
ReuseCommands == {c \in Command : c.reuse_maps}
=============================================================================
