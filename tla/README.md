# Verification of the XDP tutorial's programs

TLA+ models of the programs of the XDP tutorial (paths below are relative to
the repository), model-checked with TLC, with proofs checked by TLAPS for the
safety properties of every module, the refinements included.

## 1. The system

The tutorial is a set of small programs that share a network interface, BPF
maps, pinned files and a test environment. Kernel programs (XDP, TC, tracepoint)
run once per packet or event on any CPU; user programs load them, fill and read
their maps, and may be stopped at any point. They interact through

- **rings**: `af_xdp_user.c` and the kernel exchange UMEM frames over four
  single-producer single-consumer rings;
- **maps**: counters, redirect parameters, the sockets of AF_XDP;
- **pinned files** under `/sys/fs/bpf/<dev>/`, by which a loader hands its maps
  to other processes;
- **the interface**: which programs are attached to it;
- **files of the test environment** and the kernel's namespaces and devices;
- **signals**, and the files and sockets that go away with a process.

### Components

| Component | State | Operations | What is hard | What makes it correct | Module |
|---|---|---|---|---|---|
| AF_XDP receive loop (`advanced03-AF_XDP/af_xdp_user.c`) | free stack of frames, four rings with the program's cached view of each, `outstanding_tx` | configure, peek, refill, drop, reply, release, `complete_tx()` | the kernel works on the rings between any two calls; cached indices lag; the fill ring can promise more than there is | no frame is lost or used twice; no more invalid addresses are posted than frames are missing; the loop never starves, its `assert` and its "should not happen" branch never happen | `AfXdpUser`, `XskRings`, `FrameOwnership` |
| AF_XDP lifecycle, statistics thread (same file) | what is attached, socket map entry, `global_exit`, `stats` | start with each failure exit, receive, `stats_poll()`, `exit_application()` | the handler interrupts any step, on either thread; a record is read while it is written; `poll(-1)` | SIGINT ends the program and leaves nothing attached; the differences shown are sane | `AfXdpMain` |
| AF_XDP kernel program (`af_xdp_kern.c`) | one count per CPU | count, redirect | runs on any CPU | (every other packet, per CPU) | `AfXdpMain` |
| Loaders and pinning (`basic-solutions/xdp_loader.c`, `basic04-pinning-maps/xdp_loader.c`) | pinned file, attached programs | load, reuse, pin, unpin, unload | several steps per command, each may fail; two commands at once | with `--reuse-maps` all programs count in the pinned map | `PinnedMaps` |
| Statistics (`xdp_stats.c` of both, basic03's `xdp_load_and_stats.c`, both `xdp_prog_kern.c`) | per-CPU or shared records, the reader's last reading | count, open, reopen, collect, print | the map behind the name changes between two readings; non-atomic counting | no packet lost, no negative difference, the solution's reader need not be restarted | `PinnedMaps` |
| Packet programs (`packet-solutions`, `common/*_helpers.h`) | the frame, room in front of it | parse, rewrite, push and pop tags, checksum updates, route, redirect | frames that end anywhere; carries and byte order; loops of routers | checksums stay right; only outer tags change; every frame settles | `Checksums`, `PacketPrograms` |
| Redirect maps (`packet-solutions/xdp_prog_user.c`) | `tx_port`, `redirect_params` | two updates | packets between the updates; the second may be refused | no frame is aborted while they are filled | `PacketPrograms` |
| Test environment (`testenv/testenv.sh`) | state files, `highest_num`, `current`, namespaces, devices | setup, teardown, reset, select, EXIT trap | any command may fail half-way, `errexit` has exceptions | nothing left behind, no subnet used twice, the selection is valid | `TestEnv` |
| Tracing (`tracing01-xdp-simple`, `tracing02-xdp-monitor`) | per-CPU records of a hash and five arrays, the reader's two records | look up, add, make an entry; attach, go from key to key, copy CPU by CPU, print, swap | several programs and CPUs count while the reader reads; lookups fail; the record read into is two readings old | no event is lost, the differences shown add up, readings never go back | `Tracing`, `StatsLedger` |
| Sampling (`tracing04-xdp-tcpdump`) | one ring per CPU, the file, the program on the interface | attach, signals, poll, write, `sig_handler()` | the handler interrupts any step, itself included; full rings; the next run finds what this one left | the handler leaves no program behind; samples are written once and in order | `SamplePkts` |
| Command line (`common/common_params.c`) | `struct config` | one pass over argv | the option table is copied without its end | | `CommandLine` |
| Not modelled | | | | see section 6 | |

## 2. Modules

### The AF_XDP receive loop

`XskRings` is the arithmetic of libxdp's ring functions as the program uses
them: a ring is the sequence of submitted and unreleased entries, and each side
has a cached count that is refreshed only when it is too small. External code.

`AfXdpUser` is `handle_receive_packets()` and `complete_tx()` with the kernel on
the other side. `pc` is the next call of the single user thread; one action
is one call with everything up to the next one that touches a ring.

| Action | Code of `af_xdp_user.c` |
|---|---|
| `Configure` | `xsk_configure_socket()`: reserve and stuff the whole fill ring |
| `PeekRx` | `xsk_ring_cons__peek(&xsk->rx, RX_BATCH_SIZE)`, and the return when there is nothing |
| `Stock`, `Refill` | `xsk_prod_nb_free()`, then reserve, allocate, submit |
| `DropPacket`, `EchoReply`, `NoTransmitSlot` | one turn of the loop over the batch: `process_packet()` and `xsk_free_umem_frame()` |
| `ReleaseRx` | `xsk_ring_cons__release()` |
| `CompleteTx`, `Collect` | `complete_tx()`: `sendto()`, then the completion ring |
| `Kernel...` | the kernel takes posted frames, delivers, transmits, completes; it skips invalid addresses |

`ReplyEnabled` is the program as shipped (`if (false)`) or with Lesson 3
enabled. A frame is its chunk number: the kernel's headroom in an address
is masked off by the time it is used. Packet contents are abstracted to "is an
echo request that gets answered, or not".

`FrameOwnership` is the abstract promise: each frame has one owner, and frames
pass only along the edges of the cycle. `AfXdpUser` implements it with
`owner` as the refinement mapping (`OwnershipKept`).

`AfXdpMain` is the life of the same program: the start with each failure exit,
the receive loop reduced to counts, `stats_poll()` field by field, and the
SIGINT handler on either thread. While the handler runs, its thread stands still.
Here packets are counted, frames are the other module's subject.

### Maps and files

`PinnedMaps` has any number of loader processes, one `xdp_stats`, and CPUs that
count. A command is a sequence of system calls, and each may fail: also the opening,
pinning and unpinning of a file that is there, after which the loader goes on or
ends as the code does. `failed`, which is not in the program, says that this has
happened to a load. A reader that finds no file is `"exited"`, one that fails in
another way is `"failed"`. The packet counter is a load and a store, or basic03's one
atomic addition. `Readers` says which reader may run: basic04's `xdp_stats` (opens the
file once), the solution's (opens it before every reading), or basic03's
`xdp_load_and_stats` (loads a program and reads that program's own map).
`MCPinnedMaps` names the sets of command lines of the runs.

`TestEnv` runs one command of `testenv.sh` at a time, step by step, with
`errexit`, the EXIT trap and the shell's rule that `teardown && setup` suspends
errexit in `teardown`. Names may belong to the host's own devices. The removals of
`cleanup_setup()` may fail like all others; `undeleted`, which is not in the script,
names the namespaces that it could not delete.

### Tracing

`Tracing` is both monitors. The kernel's part is one program per CPU at a time:
`Lookup` finds the record of this CPU and loads its fields, `Store` is one `+=`
(field after field), `Create` is tracing01's update when there was no entry. The
reader is one action per system call, or per CPU while a lookup copies the values.

| Action | tracing01 | tracing02 |
|---|---|---|
| `Attach`, `AttachFails`, `CheckMapsFails` | `main()` | `load_bpf_and_trace_attach()`, `check_maps()` |
| `NextEntry` | `bpf_map_get_next_key()` | the loops of `stats_collect()` (in `From`) |
| `Copy`, `CopyFails` | the lookup and its `continue` | `map_collect_record()`, `map_collect_record_u64()` |
| `PrintStats` | the end of the list | `stats_print()` with `calc_pps()` and the like |
| `Swap` | - | `swap(&prev, &rec)` |

`shown` adds up the differences that have been printed; it is not in the program,
and `DifferencesAddUp` compares it to the program's record. `StatsLedger` is the
abstract promise of any such program: counters grow, and what is known of them
grows and is never ahead of them. `Tracing` implements it (`LedgerKept`) with
`known` as the newer of the two records.

`CommandLine` is a module of operators: what one option does to `struct config`.

`SamplePkts` is `xdp_sample_pkts`, run again and again: `ParseOption` and
`ParseFails` (the command line), `Attach`, `NextMap`, `InstallHandler`,
`NewPerfBuffer`, `OpenDead`, `DumpOpen`, `Poll`, `PcapDump`, `CountSample` for
`main()` with `print_bpf_output()`, and the exits `NotAttached`, `FailsAttached`,
`PcapFails`, `Out`, `PollFails`. `Kill` sends a signal, `Deliver` starts the
handler (or ends the process when there is none yet), `Handler...` are the
handler's calls in their order (its detach and that of `out:` may fail, which the code
ignores; `undetached`, which is not in the program, holds the runs whose detach has
failed), `FreeCrashes` and `CloseCrashes` what they do
with something that is not there (any more), and `HandlerHangs` the wait for a
lock of `malloc()` that the interrupted step holds. `Packet` is the kernel's side.

### Packets

`Checksums` is the checksum arithmetic with the size of a byte as a parameter, in
either byte order. A word's value is the value on the wire; `htons` is what the
machine reads. `Verifies` is the receiver's test.

`PacketPrograms` is one frame that meets a program at every interface: a sequence
of header fields that may end after any of them, so that `Len` is `data_end`.
Every XDP and TC program of `packet-solutions` is one action, its parsers and
rewriting helpers are operators with the names of the C functions. A stack
answers, bridges or ends the frame. For `xdp_redirect_map`, `xdp_prog_user`
fills the two maps meanwhile; it does not look at the result of the first update, and
`unwritten`, which is not in the program, says that this update has failed.
`MCPacketPrograms` builds the frames.

## 3. Runs

| Run | States | What it asks |
|---|---|---|
| `af_xdp_drop` | 853 201 | The shipped loop in the shipped proportions (the frames are the fill and the rx ring exactly): the cached views are safe, the reserve after `xsk_prod_nb_free()` is never short, no more invalid addresses are posted than frames are missing, the loop never starves. |
| `af_xdp_reply` | 112 729 | Lesson 3 with **fewer** frames than the rings could hold: no frame lost or shared, the assert holds, `outstanding_tx` is exact, the refinement of `FrameOwnership`, and every frame comes back (`FramesReturn`). |
| `af_xdp_main` | 207 936 | Every command line, two SIGINTs at any point: nothing left attached, sane statistics, and the end of the program when it does not sleep in `poll()`. |
| `af_xdp_poll_shutdown` | violation | The "Global shutdown handler" does not end `--poll-mode`. |
| `pinned_maps` | 1 625 172 | Two commands at a time, each call of which may fail, and any of the three readers: types and honest differences. |
| `pinned_maps_reuse` | 1 548 726 | `--reuse-maps`, one command at a time, two CPUs that count, any of the three readers: all programs share the pinned map, no packet is lost, the solution's reader need not be restarted. |
| `test_env` | 7 069 312 | Three names, five numbers, all commands with all failures, those of `cleanup_setup()` included. |
| `test_env_vlan` | violation | The VLAN prefix of the tenth environment. |
| `packets` | 87 012 | All packet programs: right checksums, answers from the right port, nothing but outer tags changed, no aborted frame, and every frame settles. |
| `packets_port_checksums` | violation | The in-place checksum update of a port. |
| `tracing` | 505 212 | Both monitors: counts, differences, a failed lookup, the refinement of `StatsLedger`. |
| `sample_pkts` | 323 912 | Two runs, two signals to each at any step, two rings of one sample, detaches that fail. |

### Bounds

- *AF_XDP rings.* Sizes of 1 to 3 are the smallest with all relations that
  matter: a batch smaller than the rx ring and larger than it takes to fill it
  in one go, a fill ring smaller than the number of frames (so that a refill can
  ask for more than there are), a tx ring that fills up within a few batches, a
  completion ring that blocks the kernel. `af_xdp_drop` has the proportions of the
  program, 6 = 3 + 3 frames where the program has 4096 = 2048 + 2048, and one frame in the
  kernel's hands, so that one is `Missing` and one invalid address is the bound of
  `InvalidBounded`; it is reached. Its 6 > 2 satisfies the antecedent
  of `NeverStarved`, as the program's 4096 > 64 does; `af_xdp_reply` has 4 > 1 + 2, exactly
  that antecedent. The theorems of section 5 remove the bounds.
- *AfXdpMain.* `MaxPackets = 2` and `RxBatchSize = 2`: a full batch, a partial
  one and none. Two SIGINTs are needed for the handler to be on both threads.
  One CPU: the CPUs differ only in their packet count.
- *PinnedMaps.* Two programs and two maps are enough for a map to be replaced
  under a reader, and for a second load to reuse the first one's map or to miss it; two
  packets allow one CPU to store what it has loaded before another one counted.
- *TestEnv.* Three names: one selected, one being set up, one of the host. Five
  numbers let `highest_num` be reset while a number is still in use; ten are
  needed for the first hexadecimal digit.
- *Tracing.* Two CPUs and two entries in the hash for three interfaces: an entry made
  twice at the same time, and one for which there is no room. `Half = 2` stands
  for 2^32, so that three events wrap around. One entry of each action and CPU
  array is enough for a row that is not shown, because rows do not interact; `Bulks`
  and `Xmits` have one bulk with frames and one without, one of them with
  negative drops. `MaxBusyMaps = 1` keeps the events in one map at a time (the
  maps do not interact, the reader goes through all of them). One failed lookup
  makes a record two readings old; tracing02's reader forgets it after the next good one.
- *SamplePkts.* Rings of one sample fill up with two packets on a CPU. Two signals to
  a run are one inside the handler of the other. The second run finds the
  program of the first. Two options on the command line: one that is needed and one
  that spoils it.
- *Packets.* `Byte = 4` makes words of 16 values: **all** checksums, all ports,
  all values of the other words' sum and all ttls are enumerated, including both
  representations of zero. The operators of `Checksums` are written for any
  `Byte`; `ChecksumsKeptTheorem` is the result for 256, and for every set of
  well-formed frames. Up to three tags around `VLAN_MAX_DEPTH = 2`,
  and each tagged frame cut at each field. `MaxBridged = 4` is one more than the
  largest number of tags, so a frame loses them all and gains a new one.

### Fairness

`af_xdp_reply` assumes weak fairness of the user thread and of each kernel
action except the early end of a `sendto()`: the loop polls for ever, and the
kernel serves its rings as long as packets arrive. Packets must keep arriving
for `FramesReturn`, because the code collects completions only after it has
received something. `AfXdpMain` is fair to both threads and to the handler, not
to senders of packets or signals. `PacketPrograms` is fair to
the attached program.
`Tracing` is fair to the reader, which waits for nothing but a timer, and to a
tracepoint program that has started; nobody has to cause events. `SamplePkts` is
weakly fair to `main()` and the handler and strongly fair to reading each ring,
because `perf_buffer__poll()` serves all the rings that were ready before it
returns; its failure (`PollFails`), packets and signals are never forced.
`TestEnv` and `PinnedMaps` check no liveness.

### What the violations show

1. `--poll-mode`: SIGINT between `while(!global_exit)` and `poll(fds, nfds, -1)`
   detaches the program, so that nothing ever wakes the poll.
2. `get_vlan_prefix()` reads a hexadecimal number as a decimal one.
3. `check += bpf_htons(1)` loses RFC 1071's carry on little-endian machines, and
   the TC program's `bpf_htons(-1)` likewise.

Seen in the code while modelling, without a run of their own:

- `xsk_prod_nb_free()` answers with the free entries of the fill ring, not with the free
  frames: when the kernel holds frames between the rings and the rx ring is full, the
  refill posts `INVALID_UMEM_FRAME`, with the shipped 4096 frames as well. The kernel
  skips it.
- An `xdp_stats` of the solution that reopens its file between the unpin and the pin of
  basic04's loader (`basic04-pinning-maps/xdp_loader.c:89-99`) exits, because `main()`
  finds no file either (`xdp_stats.c:270-273`). `basic04-pinning-maps/README.org:168-171`
  asks for one that "doesn't need to be restarted" when that loader loads new maps. A load
  with `--reuse-maps` that cannot open the pinned map has the same window.
- `cleanup_setup()` removes by name what was there before setup: its handler is set
  before `ip netns add` (`testenv.sh:234`, 240), which fails when the host has a namespace
  of this name; lines 135 and 136 then delete it.
- `icmp_checksum_diff()` (`xdp_prog_kern_03.c:48-58`) folds the difference of an IPv4
  echo request that is zero behind its type and checksum to the checksum 0, where only
  all ones verifies: the answer is all zero.
- A load with `--reuse-maps` takes every error of `bpf_obj_get()` for "there is no pinned
  map" (`xdp_loader.c:118-119`): it creates a new one and unpins the map in which the
  other programs go on counting.
- `--force` is in the option tables of three programs and in a lesson
  (`experiment01-tailgrow/README.org:35`), but `parse_cmdline_args()` has no case
  for it and ends with the usage text (`Refused` in `CommandLine`).
- tracing01 increments a `__u32` in a `__u64` value, and leaves a key out after a
  failed lookup until the next reading; `EventsCounted` and `CatchesUp` say what
  still holds.

## 4. Properties that are not claimed

- That only frames are posted (end of section 3). `InvalidBounded` says how many of the
  posted addresses may be invalid: as many as there are frames too few to fill the fill
  ring, the rx ring, the kernel's hands and, with replies, the transmit side at once. With the
  shipped 4096 = 2048 + 2048 frames these are the frames in the kernel's hands.
- With replies, the shipped sizes do not satisfy the antecedent of `NeverStarved`; there
  the socket's send buffer, which is not modelled, bounds what is in flight.
- `CleanExit` says nothing of failure exits after the attach, or of a SIGINT
  before it: there the user's program stays attached.
- `SharedMap` holds for one loader at a time; two at once can each create a map. It
  covers every failure of a load or an unload but those of opening, pinning or unpinning
  the map itself (`failed`): then a program is attached with a map that is not pinned
  any more, or not yet, and the code does not take it back.
- `NeedsNoRestart` is about the solution's loader with `--reuse-maps`, one command at a
  time. It does not hold beside basic04's loader, which unpins before it pins, nor beside
  an unload without `--reuse-maps`, which removes the file.
- `NothingLeft` and `UniquePrefixes` leave out an environment whose namespace
  `cleanup_setup()` itself could not delete (`undeleted`): it removes the state file all
  the same. `NothingLeft` does not say that only the script's own things are
  removed: they are not (end of section 3).
- `NothingAborted` leaves out what follows a failed update of `tx_port`, of which the
  code takes no notice (`unwritten`): the address may then be there without a device.
- `CleanRuns` leaves out the runs whose `xdp_program__detach()` (or the call that finds
  the program) has failed (`undetached`): the code ignores it, and the handler exits with
  status 0. It also allows a run of `xdp_sample_pkts` to leave its program behind when it
  ends without its handler: on a failure after the attach, on an error of
  `perf_buffer__poll()` (also when a stop and a continue interrupts it), when SIGHUP
  was ignored before it started (`signal()` then returns non-zero), or when the
  handler waits for ever in `malloc()`.
- Drops of a bulk to a CPU of which nothing was processed are never shown by
  tracing02 (`Row`); `DifferencesAddUp` leaves them out.
- basic04's `xdp_stats` goes on reading a map that is no longer pinned, as its
  lesson says.
- After the maps of `xdp_redirect_map` have been filled for one source address, a
  command for another changes the device and then fails on the address. A
  device that disappears is not modelled; its frames would be aborted.
- `ChecksumsKept` excludes the checksum of the port-rewriting programs (violation 3 of
  section 3) and that of the answer to an echo request that is all zero (`AllZero`). It
  speaks of the headers where a receiver finds them, which gets over any number of tags,
  as the parsers do only up to `VLAN_MAX_DEPTH`.

## 5. Proofs

Every invariant and every refinement of the passing runs is a theorem, for all values of
the constants that satisfy the modules' named assumptions:

- `SizesAssumption`, `MainAssumption`, `PinnedAssumption`, `SampleAssumption`,
  `TestEnvAssumption`: sizes and bounds are numbers, and those of rings are not 0; the
  frames can fill the fill ring once; there is a CPU, and the CPUs of `PinnedMaps`
  are finitely many; the names for "nothing" are different from all others.
- `TracingAssumption`: likewise, and which fields an event has.
- `ByteAssumption`: `Byte > 1`, either byte order.
- `PacketAssumption`: the frames that are sent are well-formed (a network header
  is what the EtherType says, a transport header what the protocol says, with any
  values in it, all zero included; a frame may end after any field), and an echo request
  has another type than its answer.

They are about the `Spec` of a module, without fairness. The bounds of the runs are
constants too, and the theorems hold for any of them.

| Module | Theorem | Statement |
|---|---|---|
| `AfXdpUserFrames` | `TypeTheorem`, `CachedViewsTheorem` | `[]TypeOK`, `[]CachedViewsSafe` |
| | `ReserveTheorem` | `[]ReserveNeverShort` |
| | `FramesTheorem`, `NoLeakTheorem` | `[]NoAlias`, `[]NoLeak` |
| `AfXdpUserCounts` | `FreeAssertTheorem` | `[]FreeAssertHolds` |
| | `OutstandingTheorem` | `[]OutstandingExact` |
| | `InvalidBoundedTheorem` | `[]InvalidBounded` |
| | `NeverStarvedTheorem` | `[]NeverStarved` |
| | `OwnershipTheorem` | `OwnershipKept` (the refinement) |
| `AfXdpMainProofs` | `TypeTheorem`, `CleanExitTheorem`, `StatsSaneTheorem` | `[]TypeOK`, `[]CleanExit`, `[]StatsSane` |
| `PinnedMapsProofs` | `TypeTheorem` | `[]TypeOK` |
| | `SharedMapTheorem` | `[]SharedMap`, for one loader at a time that always has `--reuse-maps`, up to a failure of a call on the pinned file |
| | `NeedsNoRestartTheorem` | `[]NeedsNoRestart`, likewise |
| | `NoLostCountTheorem`, `DiffsHonestTheorem` | `[]NoLostCount`, `[]DiffsHonest`, for any number of loaders and CPUs |
| `TestEnvProofs` | `TypeTheorem`, `UniquePrefixesTheorem`, `NothingLeftTheorem`, `SelectedExistsTheorem` | the invariants of their names |
| `TracingProofs` | `TypeTheorem`, `EventsCountedTheorem`, `DifferencesTheorem` | `[]TypeOK`, `[]EventsCounted`, `[]DifferencesAddUp` |
| | `WrapsTheorem` | `[]WrapsOnlyAfterFailure` |
| | `LedgerTheorem` | `LedgerKept` (the refinement of `StatsLedger`) |
| `SamplePktsProofs` | `TypeTheorem`, `CleanRunsTheorem`, `SamplesKeptTheorem` | `[]TypeOK`, `[]CleanRuns`, `[]SamplesKept` |
| `PacketProgramsProofs` | `TypeTheorem`, `ChecksumsKeptTheorem` | `[]TypeOK`, `[]ChecksumsKept` |
| | `AnswerFromPortTheorem`, `TagsOnlyTheorem`, `NothingAbortedTheorem` | the invariants of their names |
| | `HopsRunOutTheorem` | `HopsRunOut`, an action property that is stated with its proof: a frame that is sent on or back has fewer hops left |

### The receive loop

None of these is inductive by itself. The invariant is built in layers, each
proved inductive with the help of the ones before it:

1. `Shape` (`AfXdpUserFrames`): types, `CachedViewsSafe`, and `Phase`: what each
   program point knows. The key is that every reserve takes the whole cached view
   of the fill ring, so `fq_free` is 0 outside of `configure` and `refill` and
   `xsk_prod_nb_free()` always reads the ring. This is why the retry with `rcvd`
   cannot be reached.
2. `Parted` (`AfXdpUserFrames`): some function gives each frame one owner, each
   place holds exactly the frames it owns, and no ring repeats a frame. Invalid
   entries are left out. Every action moves the frames of one place to another
   (`MoveFact`), which also gives the step of the refinement. An entry of the rx
   ring that has been processed but not released no longer counts: `Unprocessed`.
3. `Bounds` (`AfXdpUserCounts`): the kernel's limits and `OutstandingExact`.
4. `NothingFree` and `Alive`: counting frames. Distinct frames on a ring are as many
   as its entries (`RingCount`), and all places together have `NumFrames`
   (`Coverage`). An invalid address is only posted when the stack is empty
   (`InvalidStep`); then all frames are in the rings, the kernel's hands or the transmit
   side, and what these cannot hold is on the fill ring, which bounds the invalid
   entries beside it (`NothingFreeFact`). And if nothing is posted, held or
   received, the transmit side has more than it can.

### The other modules

- *AfXdpMain.* `Attached` ties what is attached to the program point (nothing before
  the attach, `"custom"` only with a program of the user's own). `Batch` says how
  far main() is in a batch, `Sane` orders the three copies of a counter: shown, copied,
  counted, except for the field that the thread is at.
- *PinnedMaps.* `SharedMap` is not inductive: between the attach and the pin of the
  first load, the map is only in the loader's hands (`Held`); after a failed call on
  the file nothing is kept (`Inv`), and such a failure is never taken back
  (`FailedStays`). The same invariant knows that a map which has once been pinned stays
  pinned, so that a reader which knows one finds a file (`NeedsNoRestart`). `Counts` carries the
  other two: `Exact` says that a CPU which has loaded a count still finds it in its own
  record when it stores, and that nobody else counts in an array that a reader of
  basic03 reads; `Ahead` says that what a reading has, with the records that it has not
  come to, is neither less than the last reading nor more than the map has now. That
  is why a reading that takes its CPUs one after the other never goes back.
- *TestEnv.* `Phase` is what each step of a command knows of its own variables,
  `Left` says that what is there without a state file is being set up right now or is
  `undeleted`,
  `Distinct` includes the number that the running command has drawn and that all
  numbers were given out by `highest_num`.
- *Tracing.* `LoadedAt`: what a program has loaded is still in the record when it
  stores, and an entry that it did not find has nothing of this CPU in it, whoever has
  made it meanwhile. tracing01 needs that each step adds one (`Simple`), so that
  the remainder can be taken at each step. `AddsUp`: while one record is filled, the
  other one says what has been shown; a row that is not printed would have shown
  nothing. `Bounded` is `PinnedMaps`' `Ahead` for copies of records: no record is ahead
  of the map, and the reading under way is between what is known and what is there.
  `Fresh` adds that an entry which this reading has come past has not gone back unless
  its lookup failed. With both, every step is one of `StatsLedger` or a stutter.
- *SamplePkts.* The program of this run is off the interface, or its detach has failed,
  before it is attached and after the handler's first call (`Detached`), and only there can
  the run end as anything but `"left"`. `Control` says which of `pb` and `pdumper` exist at each
  step of `main()` and of the handler. `Rings` bounds what is counted, in hand and in the
  rings by the packets that came. `Files` numbers the samples: the i-th of a CPU in the
  file, the one in hand and those in the ring follow each other without a gap, also
  while the handler has interrupted the step that writes.
- *PacketPrograms*, in four parts.
  - *Arithmetic.* Ones' complement sums are congruence modulo all ones (`Congruent`); a
    checksum verifies if and only if the sum is congruent to 0 and is not 0
    (`VerifiesFact`), and swapping the bytes multiplies by `Byte` (`HtonsCongruent`).
    `TtlFact` and `EchoFact` are `TtlChecksum` and `EchoChecksum` in these terms. That
    the sum is not 0 is where an all-zero ICMP message is an exception (`ZeroSent`).
  - *Frames.* `Shifted` frames (a tag pushed or popped) and frames with one header
    replaced (`InPlace`) have the same headers behind one tag more, or less
    (`ShiftedKeeps`). `Kept` is what one program may do to a frame; each program has
    a lemma that it does no more.
  - *Invariants.* `Underway`: what a rewritten packet looks like at each place of its
    way. `DeviceFirst`: who has found a destination address finds a device. `Tags`: a frame
    is that of which some outer tags are gone (`Without`), so that one more pop or swap
    leaves another such frame.
  - *Hops.* `HopsRunOut` is the step behind `Settles`: whoever sends a frame on uses up
    a hop. It has to be known that the router which decrements a ttl has found the
    header where `HopsLeft` looks, and that it forwards no frame whose ttl is 1.

### Sums

`MapThenSumSet()` and `Sum` are recursive functions. The library's induction theorems
take an operator as a parameter, which the provers cannot instantiate. `NatInd` is
induction with a *set* of numbers instead, proved from `WFMin` and
`NatLessThanWellFounded` (the least number outside of the set has a predecessor
inside). From it follow `SetInduction` for finite sets and `SumsExist`, that the
recursion has a solution, so that the `CHOOSE` behind it can be used at all. The rest
of the proofs needs only what one changed value does to a sum (`SumChange`,
`UpToChange`).

### Only model-checked

The liveness properties: `FramesReturn`, `BusyPollShutdown`, `Settles`,
`CatchesUp`, `SamplesStored`. Liveness under fairness is beyond the
prover. For `Settles`, `HopsRunOutTheorem` proves that the number which has to fall
does fall; that the programs do run is fairness and stays with TLC.

## 6. Not modelled

- What `check_map_fd_info()` compares (its failure is modelled), the libbpf variants of the loader in `common_libbpf.c`, the
  loaders of basic01 and basic02: they add no state that is shared with anything
  modelled here.
- `xdp_stats_record_action()` of `common/xdp_stats_kern.h`: the same counting as
  basic04's, in a map that libbpf pins by name.
- Concurrent commands of `testenv.sh`; a killed script; `--legacy-ip`; `status`,
  `tcpdump` and what `load`, `stats` and `redirect` do beyond selecting an environment.
- `tracing03-xdp-debug-print`: a copy of the kernel's trace pipe, no state.
- In `SamplePkts`: SIGKILL, stops (their effect on the poll is `PollFails`), a write
  error or a signal inside `pcap_dump()`, which is one step; `perf_buffer__new()` is one step.
- The templates of the exercises, the tail-grow experiment, build files,
  documentation, `setup-testlab`.
- Formatting, locale, timestamps and rates.

## 7. Plan

1. *Breadth.* `Redirection`: two interfaces that forward to each other and the
   `redirect` command of the test environment, with both commands of
   `xdp_prog_user`. Concurrent commands in `TestEnv`. The maps that libbpf pins by
   name (`common/xdp_stats_kern.h`) in `PinnedMaps`.
2. *Abstract specifications.* `StatsLedger` with a generation, implemented by
   `PinnedMaps` too; a set of environments with distinct numbers, implemented by
   `TestEnv`; both refinements as theorems.
3. *Proofs.* The action properties behind the other liveness properties, as
   `HopsRunOut` is for `Settles`; `CommandLine`'s pass over argv.

## 8. Running

    tlc -config AfXdpUserReply.cfg AfXdpUser      # any run of PROJECT.json
    tlapm AfXdpUserCounts.tla                     # checks this module's proofs

`PROJECT.json` lists components, runs, the mutation that each property detects
(the operators marked "Mutation" in the modules), the lines of code behind each
definition, the findings, and the hazards with the properties that cover them.
