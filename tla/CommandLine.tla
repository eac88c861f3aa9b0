----------------------------- MODULE CommandLine -----------------------------
(***************************************************************************)
(* parse_cmdline_args() of common/common_params.c, which all the programs  *)
(* share: what one option does to struct config.  An option is its long    *)
(* name; of its argument only what the function tests is kept.             *)
(***************************************************************************)
EXTENDS Integers

\* enum xdp_attach_mode, and the option of each.
Mode == {"unspec", "native", "skb", "hw"}
ModeOption == [auto |-> "unspec", skb |-> "skb", native |-> "native", offload |-> "hw"]

\* The options that copy their argument to a member, or set one, and --dev and
\* --redirect-dev; "abbreviated" stands for a --dev that is not written in full.
Member == {"filename", "progname", "src_mac", "dest_mac", "xsk_if_queue", "reuse_maps",
           "xsk_poll_mode", "do_unload", "unload_all", "quiet"}

Device == {"ifindex", "redirect_ifindex"}

Option ==
  DOMAIN ModeOption \union Member \union Device
    \union {"copy", "zero_copy", "force", "help", "bad_ifindex", "bad_redirect_ifindex",
            "abbreviated", "unknown"}

\* struct config: the devices and members that were given, and whether the socket is
\* bound with XDP_COPY or XDP_ZEROCOPY.
Config == [given : SUBSET (Member \union Device), attach_mode : Mode,
           bind : SUBSET {"copy", "zero_copy"}]

NoOptions == [given |-> {}, attach_mode |-> "unspec", bind |-> {}]

\* An interface name that is too long or that no device has.
BadDevice == {"bad_ifindex", "bad_redirect_ifindex"}

\* These, and what has no case of its own: usage() and exit().
Refused == BadDevice \union {"help", "force", "unknown"}

\* One turn of the loop.
Applied(cfg, option) ==
  [cfg EXCEPT
     !.given = IF option \in Member \union Device THEN @ \union {option}
               ELSE IF option = "abbreviated" THEN @ \union {"ifindex"} ELSE @,
     !.attach_mode = IF option \in DOMAIN ModeOption THEN ModeOption[option] ELSE @,
     !.bind = CASE option \in {"skb", "copy"} -> (@ \ {"zero_copy"}) \union {"copy"}
                [] option = "zero_copy" -> (@ \ {"copy"}) \union {"zero_copy"}
                [] OTHER -> @]

\* option_wrappers_to_options() copies a table without the entry that ends it:
\* getopt_long() finds a long name that is in the table, and reads on behind it for
\* any other. When that does not end it, it finds what it would have found.
ReadsOn == {"abbreviated", "unknown"}
=============================================================================
