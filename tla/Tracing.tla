------------------------------- MODULE Tracing -------------------------------
(***************************************************************************)
(* The programs of tracing01-xdp-simple and tracing02-xdp-monitor.  Their  *)
(* kernel part runs at the kernel's XDP tracepoints and counts events in   *)
(* per-CPU maps; trace_load_and_stats loads it, attaches it, and then      *)
(* reads the maps for ever.                                                *)
(*                                                                         *)
(* tracing01 counts aborted packets in a hash that has an entry for each   *)
(* interface, made by the first event, and shows the totals.  tracing02    *)
(* counts in arrays, reads all entries one after the other into the older  *)
(* of two records, and shows the differences to the other one.             *)
(***************************************************************************)
EXTENDS Integers, Sequences, FiniteSets, FiniteSetsExt, Functions

CONSTANTS
  Lessons,      \* the lessons that may be the one that runs
  NrCpus,       \* libbpf_num_possible_cpus()
  Interfaces,   \* tracing01: how many interfaces abort packets
  max_entries,  \* tracing01: the size of the hash, 10
  Half,         \* tracing01: 2^32, where the __u32 it increments wraps around
  XDP_REDIRECT, \* the largest action of enum xdp_action, 4
  MAX_CPUS,     \* the size of cpumap_enqueue_cnt, 64
  Bulks,        \* bound: what a bulk of a cpumap may be, [processed, drops, sched]
  Xmits,        \* bound: what a bulk of a devmap may be, [sent, drops, err]
  MaxEvents,    \* bound: events that are counted, for each lesson
  MaxBusyMaps,  \* bound: maps that they are counted in
  MaxFailures   \* bound: lookups of the reader that fail

Lesson == {"tracing01", "tracing02"}

ASSUME TracingAssumption ==
  /\ Lessons \subseteq Lesson
  /\ {NrCpus, MAX_CPUS} \subseteq Nat \ {0} /\ Half \in Nat \ {0, 1}
  /\ {Interfaces, max_entries, XDP_REDIRECT, MaxBusyMaps, MaxFailures} \subseteq Nat
  /\ MaxEvents \in [Lesson -> Nat]
  /\ Bulks \subseteq [processed : Nat, drops : Nat, sched : BOOLEAN]
  /\ Xmits \subseteq [sent : Nat, drops : Int, err : BOOLEAN]

VARIABLES
  lesson,    \* the program that runs; it does not change
  attached,  \* how many of its tracepoint programs are attached
  cell,      \* cell[e][c]: the record of entry e of the maps for CPU c
  present,   \* the entries that exist: all of an array, those made of a hash
  running,   \* what the tracepoint program on each CPU has looked up
  started,   \* how many events there were
  events,    \* events[e][c]: what the programs that ran to their end had to count
  reader,    \* trace_load_and_stats: its next step and locals
  rec, prev, \* its records: the totals of each entry
  shown      \* the first reading and all the differences shown since, added up

kern == <<cell, present, running, started, events>>
records == <<rec, prev, shown>>
vars == <<lesson, attached, kern, reader, records>>

Cpus == 0 .. NrCpus - 1

-----------------------------------------------------------------------------
(* The maps.  An entry is <<map, key>>.                                    *)

XDP_UNKNOWN == XDP_REDIRECT + 1
XDP_ABORTED == 0

\* The keys from 0 of a map of the given size, in the order they are read.
Array(map, size) == [i \in 1 .. size |-> <<map, i - 1>>]

\* stats_collect() of tracing02 goes through five arrays; bpf_map_get_next_key() of
\* tracing01 through the buckets of the hash (an interface is named by its place).
Order ==
  [l \in Lesson |->
     IF l = "tracing01"
     THEN Array("xdp_stats_map", Interfaces)
     ELSE Array("redirect_err_cnt", 2) \o Array("exception_cnt", XDP_UNKNOWN + 1)
            \o Array("cpumap_enqueue_cnt", MAX_CPUS) \o Array("cpumap_kthread_cnt", 1)
            \o Array("devmap_xmit_cnt", 1)]

EntriesOf == [l \in Lesson |-> Range(Order[l])]
Entries == EntriesOf[lesson]

\* The fields of struct datarec, in their order. The counters that are a mere __u64 are
\* its first field.
Field == {"processed", "dropped", "info", "err"}
Place == [processed |-> 1, dropped |-> 2, info |-> 3, err |-> 4]
Add(processed, dropped, info, err) ==
  [processed |-> processed, dropped |-> dropped, info |-> info, err |-> err]
Zero == Add(0, 0, 0, 0)

Fields(e) ==
  IF e[1] \in {"xdp_stats_map", "redirect_err_cnt", "exception_cnt"}
  THEN {"processed"} ELSE Field

\* The totals of an entry over all CPUs.
Sum(e, f) ==
  LET upTo[n \in 0 .. NrCpus] == IF n = 0 THEN 0 ELSE upTo[n - 1] + cell[e][n - 1][f]
  IN upTo[NrCpus]
Total(e) == [f \in Field |-> Sum(e, f)]

-----------------------------------------------------------------------------
(* The tracepoint programs: what each adds to which entry.                 *)

Tracepoints ==
  [l \in Lesson |->
     IF l = "tracing01"
     THEN <<"xdp_exception">>
     ELSE <<"xdp_redirect_err", "xdp_redirect_map_err", "xdp_redirect", "xdp_redirect_map",
            "xdp_exception", "xdp_cpumap_enqueue", "xdp_cpumap_kthread", "xdp_devmap_xmit">>]

One == Add(1, 0, 0, 0)
If(condition) == IF condition THEN 1 ELSE 0

xdp_redirect_collect_stat(err) == [entry |-> <<"redirect_err_cnt", If(err)>>, add |-> One]

trace_xdp_exception(act) ==
  [entry |-> <<"exception_cnt", IF act > XDP_REDIRECT THEN XDP_UNKNOWN ELSE act>>,
   add |-> One]

\* A bulk to a CPU that the array has no entry for is not counted.
trace_xdp_cpumap_enqueue ==
  {[entry |-> <<"cpumap_enqueue_cnt", to_cpu>>,
    add |-> Add(b.processed, b.drops, If(b.processed > 0), 0)] :
     to_cpu \in 0 .. MAX_CPUS - 1, b \in Bulks}

trace_xdp_cpumap_kthread ==
  {[entry |-> <<"cpumap_kthread_cnt", 0>>,
    add |-> Add(b.processed, b.drops, If(b.sched), 0)] : b \in Bulks}

\* The number of drops is signed: a driver may claim to have sent more than there was.
trace_xdp_devmap_xmit ==
  {[entry |-> <<"devmap_xmit_cnt", 0>>,
    add |-> Add(x.sent, x.drops, 1, If(x.err) + If(x.drops < 0))] : x \in Xmits}

\* tracing01 counts the aborted packets of an interface only.
trace_xdp_exception_simple ==
  {[entry |-> <<"xdp_stats_map", i - 1>>, add |-> One] : i \in 1 .. Interfaces}

Updates(tp) ==
  IF lesson = "tracing01" THEN trace_xdp_exception_simple ELSE
  CASE tp \in {"xdp_redirect_err", "xdp_redirect_map_err"} -> {xdp_redirect_collect_stat(TRUE)}
    [] tp \in {"xdp_redirect", "xdp_redirect_map"} -> {xdp_redirect_collect_stat(FALSE)}
    [] tp = "xdp_exception" ->
         {trace_xdp_exception(act) : act \in XDP_ABORTED .. XDP_UNKNOWN + 1}
    [] tp = "xdp_cpumap_enqueue" -> trace_xdp_cpumap_enqueue
    [] tp = "xdp_cpumap_kthread" -> trace_xdp_cpumap_kthread
    [] tp = "xdp_devmap_xmit" -> trace_xdp_devmap_xmit

NotRunning == [entry |-> <<>>, seen |-> Zero, add |-> Zero, left |-> {}, found |-> FALSE]
Running(c) == running[c].left # {}

Init ==
  /\ lesson \in Lessons
  /\ attached = 0
  /\ cell = [e \in Entries |-> [c \in Cpus |-> Zero]]
  /\ present = IF lesson = "tracing01" THEN {} ELSE Entries
  /\ running = [c \in Cpus |-> NotRunning]
  /\ started = 0
  /\ events = [e \in Entries |-> [c \in Cpus |-> Zero]]
  /\ reader = [pc |-> "attach", at |-> 0, cur |-> 0, cpu |-> 0, sum |-> Zero,
               first |-> lesson = "tracing02", failed |-> {}, failures |-> 0]
  /\ rec = [e \in Entries |-> Zero]
  /\ prev = rec /\ shown = rec

Tracepoint == UNCHANGED <<lesson, attached, reader, records>>

\* The maps in which something has been or is being counted.
BusyMaps ==
  IF started = 0 THEN {}
  ELSE {e[1] : e \in {e \in Entries : \E c \in Cpus : events[e][c] # Zero}}
         \union {running[c].entry[1] : c \in {c \in Cpus : Running(c)}}

\* Mutation: one record for all CPUs.
Own_Shared(c) == 0

\* bpf_map_lookup_elem() of a per-CPU map finds the record of this CPU.
Own(c) == c

\* An event: the program looks its record up; `+=' loads the old value.
Lookup(c) ==
  LET busy == BusyMaps IN
  /\ ~Running(c)
  /\ started < MaxEvents[lesson]
  /\ Tracepoint
  /\ \E t \in 1 .. attached : \E u \in Updates(Tracepoints[lesson][t]) :
       /\ Cardinality(busy \union {u.entry[1]}) <= MaxBusyMaps
       /\ running' = [running EXCEPT ![c] =
            [entry |-> u.entry, add |-> u.add, found |-> u.entry \in present,
             seen |-> cell[u.entry][Own(c)],
             left |-> {f \in Fields(u.entry) : u.add[f] # 0}]]
  /\ started' = started + 1
  /\ UNCHANGED <<cell, present, events>>

\* What tracing01 increments is the lower half of a __u64.
Wrap(n) == IF lesson = "tracing01" THEN n % Half ELSE n

\* One `+=' of the program, one field after the other; the last one ends it.
Store(c) ==
  \E f \in running[c].left :
    LET e == running[c].entry
        left == running[c].left \ {f} IN
    /\ Tracepoint
    /\ running[c].found /\ \A g \in running[c].left : Place[f] <= Place[g]
    /\ cell' = [cell EXCEPT ![e][Own(c)][f] = Wrap(running[c].seen[f] + running[c].add[f])]
    /\ events' = [events EXCEPT ![e][c][f] = @ + running[c].add[f]]
    /\ running' = [running EXCEPT ![c] = IF left = {} THEN NotRunning
                                                     ELSE [@ EXCEPT !.left = left]]
    /\ UNCHANGED <<present, started>>

\* Mutation: the size of the hash is not looked at.
Room_Unchecked(e) == TRUE

\* There is an entry for the interface by now, or room for one.
Room(e) == e \in present \/ Cardinality(present) < max_entries

\* Mutation: the update sets the values of all CPUs.
UpdateElem_AllCpus(e, c) == [d \in Cpus |-> IF d = c THEN One ELSE Zero]

\* bpf_map_update_elem() with BPF_ANY of a per-CPU hash: the value of this CPU.
UpdateElem(e, c) == [cell[e] EXCEPT ![c] = One]

\* tracing01: without an entry the program makes one that counts this event.
Create(c) ==
  LET e == running[c].entry IN
  /\ Tracepoint
  /\ Running(c) /\ ~running[c].found
  /\ running' = [running EXCEPT ![c] = NotRunning]
  /\ IF Room(e)
     THEN /\ cell' = [cell EXCEPT ![e] = UpdateElem(e, c)]
          /\ present' = present \union {e}
          /\ events' = [events EXCEPT ![e][c].processed = @ + 1]
     ELSE UNCHANGED <<cell, present, events>>
  /\ UNCHANGED started

KernelStep(c) == Lookup(c) \/ Store(c) \/ Create(c)

-----------------------------------------------------------------------------
(* trace_load_and_stats                                                    *)

Reads(from) ==
  /\ reader.pc = from
  /\ UNCHANGED <<lesson, kern>>

\* bpf_program__attach_tracepoint() of one program after the other; then the maps are
\* checked and read.
Attach ==
  /\ Reads("attach")
  /\ attached < Len(Tracepoints[lesson])
  /\ attached' = attached + 1
  /\ UNCHANGED <<reader, records>>

\* Mutation: the sums are not set to zero again.
Summed_Kept == reader.sum

\* The sums are locals of the function that reads one entry.
Summed == Zero

\* Mutation: the last entry is left out.
From_Short(at) ==
  [reader EXCEPT !.at = at, !.cur = at + 1, !.cpu = 0, !.sum = Summed,
     !.pc = IF lesson = "tracing01" THEN "next"
            ELSE IF at < Len(Order[lesson]) - 1 THEN "copy" ELSE "print"]

\* The reader has done with the entry at the given place: tracing02 goes on to the one
\* after it, tracing01 asks the hash for one.
From(at) ==
  [reader EXCEPT !.at = at, !.cur = at + 1, !.cpu = 0, !.sum = Summed,
     !.pc = IF lesson = "tracing01" THEN "next"
            ELSE IF at < Len(Order[lesson]) THEN "copy" ELSE "print"]

AttachDone ==
  /\ Reads("attach")
  /\ attached = Len(Tracepoints[lesson])
  /\ reader' = From(0)
  /\ UNCHANGED <<attached, records>>

\* When one of them cannot be attached, or a map is not as expected, the program ends,
\* and the kernel detaches what it has attached.
Exits(from) ==
  /\ Reads(from)
  /\ reader' = [reader EXCEPT !.pc = "exited"]
  /\ attached' = 0
  /\ UNCHANGED records

AttachFails == attached < Len(Tracepoints[lesson]) /\ Exits("attach")
CheckMapsFails == attached = Len(Tracepoints[lesson]) /\ Exits("attach")

Later == {i \in DOMAIN Order[lesson] : i > reader.at /\ Order[lesson][i] \in present}

\* bpf_map_get_next_key(): the next entry of the hash, if there is one.
NextEntry ==
  /\ Reads("next")
  /\ reader' = IF Later = {} THEN [reader EXCEPT !.pc = "print"]
                             ELSE [reader EXCEPT !.pc = "copy", !.cur = Min(Later)]
  /\ UNCHANGED <<attached, records>>

Current == Order[lesson][reader.cur]

\* Mutation: the reading goes into the record of the last one.
Collected_Prev(sum) == prev' = [prev EXCEPT ![Current] = sum] /\ UNCHANGED rec

\* The totals of an entry have been read.
Collected(sum) == rec' = [rec EXCEPT ![Current] = sum] /\ UNCHANGED prev

\* map_collect_record(): bpf_map_lookup_elem() copies the values CPU by CPU, and when it
\* has all of them the record gets the sums.
Copy ==
  LET sum == [f \in Field |-> reader.sum[f] + cell[Current][reader.cpu][f]] IN
  /\ Reads("copy")
  /\ IF reader.cpu < NrCpus - 1
     THEN /\ reader' = [reader EXCEPT !.cpu = @ + 1, !.sum = sum]
          /\ UNCHANGED <<rec, prev>>
     ELSE /\ reader' = From(reader.cur)
          /\ Collected(sum)
  /\ UNCHANGED <<attached, shown>>

\* It may fail (it needs memory). tracing02 goes on to the next entry and leaves the
\* record as it was. tracing01 `continue's with the key it asks from: that is none as
\* long as nothing was read, and it gets this entry again, but from then on prev_keyp
\* points to the key that just failed, which is then left out.
CopyFails ==
  /\ Reads("copy")
  /\ reader.cpu = 0
  /\ reader.failures < MaxFailures
  /\ reader' = [From(IF lesson = "tracing01" /\ reader.at = 0 THEN 0 ELSE reader.cur)
                  EXCEPT !.failures = @ + 1, !.failed = @ \union {Current}]
  /\ UNCHANGED <<attached, records>>

\* The rows of the totals. Those of exceptions and of bulks to a CPU appear only when
\* something was processed.
Row(e) ==
  e[1] \in {"exception_cnt", "cpumap_enqueue_cnt"} => rec[e].processed # prev[e].processed

\* calc_pps() and the like, without the division by the time between the readings.
Difference(e) == [f \in Field |-> rec[e][f] - prev[e][f]]

\* stats_print() of the differences between the records; the first reading is not
\* printed. tracing01 has printed each total as it was read.
PrintStats ==
  /\ Reads("print")
  /\ shown' = IF lesson = "tracing01" THEN shown
              ELSE IF reader.first THEN rec
              ELSE [e \in Entries |->
                      IF Row(e) THEN [f \in Field |-> shown[e][f] + Difference(e)[f]]
                                ELSE shown[e]]
  /\ reader' = IF lesson = "tracing01" THEN [From(0) EXCEPT !.failed = {}]
                                       ELSE [reader EXCEPT !.pc = "swap", !.first = FALSE]
  /\ UNCHANGED <<attached, rec, prev>>

\* Mutation: the record is not exchanged for the other one.
Exchange_No == UNCHANGED <<rec, prev>>

\* swap(&prev, &rec): the next reading goes into the older record.
Exchange == rec' = prev /\ prev' = rec

Swap ==
  /\ Reads("swap")
  /\ Exchange
  /\ reader' = [From(0) EXCEPT !.failed = {}]
  /\ UNCHANGED <<attached, shown>>

ReaderStep ==
  Attach \/ AttachFails \/ AttachDone \/ CheckMapsFails \/ NextEntry \/ Copy \/ CopyFails
    \/ PrintStats \/ Swap

-----------------------------------------------------------------------------

Next == ReaderStep \/ \E c \in Cpus : KernelStep(c)

Spec == Init /\ [][Next]_vars

\* The reader is never waiting for anything, and a tracepoint program runs to its end.
FairSpec ==
  /\ Spec
  /\ WF_vars(ReaderStep)
  /\ \A c \in Cpus : WF_vars(Store(c) \/ Create(c))

-----------------------------------------------------------------------------
(* Properties.                                                             *)

Records == [Entries -> [Field -> Int]]

TypeOK ==
  /\ lesson \in Lesson
  /\ attached \in 0 .. Len(Tracepoints[lesson])
  /\ cell \in [Entries -> [Cpus -> [Field -> Int]]]
  /\ events \in [Entries -> [Cpus -> [Field -> Int]]]
  /\ present \subseteq Entries
  /\ lesson = "tracing01" => Cardinality(present) <= max_entries
  /\ started \in 0 .. MaxEvents[lesson]
  /\ \A c \in Cpus :
       Running(c) => running[c].entry \in Entries /\ running[c].left \subseteq Field
  /\ reader.pc \in {"attach", "next", "copy", "print", "swap", "exited"}
  /\ reader.at \in 0 .. Len(Order[lesson]) /\ reader.cur \in 0 .. Len(Order[lesson]) + 1
  /\ reader.cpu \in Cpus /\ reader.sum \in [Field -> Int]
  /\ reader.failed \subseteq Entries
  /\ rec \in Records /\ prev \in Records /\ shown \in Records

\* No event is lost or counted twice: several programs add to one array, two CPUs may
\* make the entry of one interface at the same time, and the additions are not atomic.
\* tracing01's counts are right up to 2^32 only (`__u32 *valp').
EventsCounted ==
  \A e \in Entries, c \in Cpus, f \in Field : cell[e][c][f] = Wrap(events[e][c][f])

\* The differences that tracing02 shows add up to what it has read: no event is shown
\* twice or left out, a failed lookup and its later repair included. (Drops of a bulk
\* to a CPU of which nothing was processed are never shown, see Row.)
DifferencesAddUp ==
  lesson = "tracing02" /\ reader.pc = "swap" =>
    \A e \in Entries : \A f \in Fields(e) :
      e[1] # "cpumap_enqueue_cnt" \/ f = "processed" => shown[e][f] = rec[e][f]

\* A difference is negative, which prints as a rate of 2^64 and more, only when a
\* lookup of this reading failed and the record is of two readings ago.
WrapsOnlyAfterFailure ==
  lesson = "tracing02" /\ reader.pc = "print" /\ ~reader.first =>
    \A e \in Entries : rec[e].processed < prev[e].processed => e \in reader.failed

\* When nothing more happens, the readings end up being what was counted: new entries
\* are found, and a failed lookup is made up for.
CatchesUp ==
  <>[](reader.pc = "print" => \A e \in present : rec[e] = Total(e))

\* Whatever fails, the newer one of tracing02's two readings of an entry never goes
\* back and is never ahead of the map.
Ledger == INSTANCE StatsLedger WITH
  Entry <- EntriesOf["tracing02"],
  counted <- [e \in EntriesOf["tracing02"] |->
                IF lesson = "tracing02" THEN Sum(e, "processed") ELSE 0],
  known <- [e \in EntriesOf["tracing02"] |->
              IF lesson # "tracing02" THEN 0
              ELSE IF rec[e].processed > prev[e].processed THEN rec[e].processed
              ELSE prev[e].processed]
LedgerKept == Ledger!Spec

=============================================================================
