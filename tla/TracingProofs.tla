---------------------------- MODULE TracingProofs ----------------------------
(***************************************************************************)
(* Tracing for any number of CPUs, interfaces, entries, events and         *)
(* failures, and any bulks: no event is lost, the types, the differences   *)
(* add up, and the readings are kept as StatsLedger promises, by induction *)
(* over the CPUs that a sum goes through.                                  *)
(***************************************************************************)
EXTENDS Tracing, FiniteSetTheorems, SequenceTheorems, WellFoundedInduction, TLAPS

-----------------------------------------------------------------------------
(* No event is lost.                                                       *)

\* What the program on CPU c has loaded is still there when it stores: another CPU
\* that adds to the entry, or makes it, leaves the record of c alone. An entry that
\* was not found has not been counted in by c.
LoadedAt(c) ==
  LET e == running[c].entry IN
  e \in Entries =>
    \A f \in Field :
      IF running[c].found
      THEN e \in present /\ (f \in running[c].left => running[c].seen[f] = cell[e][c][f])
      ELSE cell[e][c][f] = 0 /\ events[e][c][f] = 0

\* tracing01 only ever adds one to one field, so that the remainder can be taken at each
\* step.
Simple == lesson = "tracing01" =>
  /\ \A e \in Entries, c \in Cpus : events[e][c]["processed"] \in Nat
  /\ \A c \in Cpus : Running(c) => running[c].add = One /\ running[c].left = {"processed"}

\* The shapes of the functions and records.
Shaped ==
  /\ DOMAIN cell = Entries /\ DOMAIN events = Entries
  /\ \A e \in Entries : DOMAIN cell[e] = Cpus /\ DOMAIN events[e] = Cpus
  /\ \A e \in Entries, c \in Cpus : DOMAIN cell[e][c] = Field /\ DOMAIN events[e][c] = Field
  /\ DOMAIN running = Cpus
  /\ \A c \in Cpus : DOMAIN running[c] = {"entry", "seen", "add", "left", "found"}

\* Nothing has been counted in an entry of the hash that does not exist.
Absent ==
  \A e \in Entries \ present, c \in Cpus, f \in Field : cell[e][c][f] = 0 /\ events[e][c][f] = 0

Inv ==
  /\ Shaped /\ Simple /\ Absent /\ EventsCounted
  /\ \A c \in Cpus : Running(c) => LoadedAt(c) /\ running[c].left \subseteq Field

\* A counter of 32 bits that is incremented keeps the lower half of the count.
LEMMA RemainderFact ==
  ASSUME NEW H \in Nat \ {0}, NEW q \in Nat, NEW r \in 0 .. H - 1
  PROVE  (H * q + r) % H = r
BY SMT

LEMMA WrapFact ==
  ASSUME NEW H \in Nat \ {0}, NEW n \in Nat
  PROVE  ((n % H) + 1) % H = (n + 1) % H
<1> DEFINE q == n \div H  r == n % H
<1>1. n = H * q + r /\ q \in Nat /\ r \in 0 .. H - 1
  BY SMT
<1>2. CASE r + 1 < H
  <2>1. r + 1 \in 0 .. H - 1 /\ n + 1 = H * q + (r + 1) /\ r + 1 = H * 0 + (r + 1)
    BY <1>1, <1>2, SMT
  <2> HIDE DEF q, r
  <2> QED
    BY <1>1, <2>1, RemainderFact
<1>3. CASE r + 1 = H
  <2>1. n + 1 = H * (q + 1) + 0 /\ r + 1 = H * 1 + 0 /\ q + 1 \in Nat /\ 0 \in 0 .. H - 1
    BY <1>1, <1>3, SMT
  <2> HIDE DEF q, r
  <2>2. (n + 1) % H = 0
    BY <1>1, <2>1, RemainderFact
  <2>3. (r + 1) % H = 0
    BY <1>1, <2>1, RemainderFact
  <2> QED
    BY <2>2, <2>3 DEF r
<1> QED
  BY <1>1, <1>2, <1>3

LEMMA OneFact == ASSUME NEW H \in Nat \ {0, 1} PROVE 1 % H = 1 /\ 0 % H = 0
BY SMT

LEMMA ZeroFact == \A f \in Field : Zero[f] = 0 /\ One[f] = (IF f = "processed" THEN 1 ELSE 0)
BY DEF Zero, One, Add, Field

LEMMA InvInit == Init => Inv
<1> SUFFICES ASSUME Init PROVE Inv
  OBVIOUS
<1>1. /\ cell = [e \in Entries |-> [c \in Cpus |-> Zero]]
      /\ events = [e \in Entries |-> [c \in Cpus |-> Zero]]
      /\ running = [c \in Cpus |-> NotRunning]
  BY DEF Init
<1>2. \A c \in Cpus : ~Running(c)
  BY <1>1 DEF Running, NotRunning
<1>3. DOMAIN Zero = Field
  BY DEF Zero, Add, Field
<1>4. Shaped
  BY <1>1, <1>3 DEF Shaped, NotRunning
<1>5. Simple /\ Absent
  BY <1>1, <1>2, ZeroFact DEF Simple, Absent, Field
<1>6. EventsCounted
  BY <1>1, ZeroFact, OneFact, TracingAssumption DEF EventsCounted, Wrap, TracingAssumption
<1> QED
  BY <1>2, <1>4, <1>5, <1>6 DEF Inv

\* A program that starts has read the record of its own CPU, which it will find as it was.
LEMMA LookupFact ==
  ASSUME Inv, NEW c \in Cpus, Lookup(c)
  PROVE  Inv'
<1> USE DEF Inv, Shaped
<1>1. PICK t \in 1 .. attached : \E u \in Updates(Tracepoints[lesson][t]) :
        running' = [running EXCEPT ![c] =
            [entry |-> u.entry, add |-> u.add, found |-> u.entry \in present,
             seen |-> cell[u.entry][c],
             left |-> {f \in Fields(u.entry) : u.add[f] # 0}]]
  BY DEF Lookup, Own
<1>2. PICK u \in Updates(Tracepoints[lesson][t]) :
        running' = [running EXCEPT ![c] =
            [entry |-> u.entry, add |-> u.add, found |-> u.entry \in present,
             seen |-> cell[u.entry][c],
             left |-> {f \in Fields(u.entry) : u.add[f] # 0}]]
  BY <1>1
<1>3. UNCHANGED <<lesson, cell, present, events>>
  BY DEF Lookup, Tracepoint
<1>4. /\ DOMAIN running' = Cpus
      /\ \A d \in Cpus \ {c} : running'[d] = running[d]
      /\ running'[c].entry = u.entry /\ running'[c].add = u.add
      /\ running'[c].seen = cell[u.entry][c]
      /\ running'[c].left = {f \in Fields(u.entry) : u.add[f] # 0}
      /\ DOMAIN running'[c] = {"entry", "seen", "add", "left", "found"}
  BY <1>2
<1>5. running'[c].found <=> u.entry \in present
  BY <1>2
<1>6. Entries' = Entries /\ Cpus' = Cpus
  BY <1>3 DEF Entries
<1>7. running'[c].left \subseteq Field
  BY <1>4 DEF Fields, Field
<1>8. LoadedAt(c)'
  BY <1>3, <1>4, <1>5, <1>6 DEF LoadedAt, Absent
<1>9. \A d \in Cpus : Running(d)' => LoadedAt(d)' /\ running'[d].left \subseteq Field
  BY <1>3, <1>4, <1>6, <1>7, <1>8 DEF LoadedAt, Running
<1>10. Simple'
  <2> SUFFICES ASSUME lesson = "tracing01"
               PROVE  u.add = One /\ running'[c].left = {"processed"}
    BY <1>3, <1>4, <1>6 DEF Simple, Running
  <2>1. PICK i \in 1 .. Interfaces : u = [entry |-> <<"xdp_stats_map", i - 1>>, add |-> One]
    BY DEF Updates, trace_xdp_exception_simple
  <2>2. u.add = One /\ u.entry[1] = "xdp_stats_map"
    BY <2>1
  <2> QED
    BY <1>4, <2>2, ZeroFact DEF Fields, Field
<1>11. Shaped'
  BY <1>3, <1>4, <1>6
<1>12. Absent' /\ EventsCounted'
  BY <1>3, <1>6 DEF Absent, EventsCounted, Wrap
<1> QED
  BY <1>9, <1>10, <1>11, <1>12

\* A store adds the same to the record and to the count of events, and touches no record
\* that another program has loaded.
LEMMA StoreFact ==
  ASSUME Inv, NEW c \in Cpus, Store(c)
  PROVE  Inv'
<1> USE DEF Inv, Shaped
<1> DEFINE e == running[c].entry
<1>1. PICK f \in running[c].left :
        /\ running[c].found
        /\ cell' = [cell EXCEPT ![e][c][f] = Wrap(running[c].seen[f] + running[c].add[f])]
        /\ events' = [events EXCEPT ![e][c][f] = @ + running[c].add[f]]
        /\ running' = [running EXCEPT ![c] = IF running[c].left \ {f} = {} THEN NotRunning
                                          ELSE [@ EXCEPT !.left = running[c].left \ {f}]]
        /\ UNCHANGED <<lesson, present>>
  BY DEF Store, Own, Tracepoint
<1>2. Running(c) /\ f \in Field /\ LoadedAt(c)
  BY <1>1 DEF Running
<1>3. Entries' = Entries /\ Cpus' = Cpus
  BY <1>1 DEF Entries
<1>4. /\ DOMAIN running' = Cpus
      /\ \A d \in Cpus \ {c} : running'[d] = running[d]
      /\ DOMAIN running'[c] = {"entry", "seen", "add", "left", "found"}
      /\ Running(c)' => /\ running'[c].entry = e /\ running'[c].seen = running[c].seen
                        /\ running'[c].add = running[c].add
                        /\ running'[c].left = running[c].left \ {f}
                        /\ running'[c].found = running[c].found
  BY <1>1 DEF Running, NotRunning
<1>5. /\ DOMAIN cell' = Entries /\ DOMAIN events' = Entries
      /\ \A x \in Entries : DOMAIN cell'[x] = Cpus /\ DOMAIN events'[x] = Cpus
      /\ \A x \in Entries, d \in Cpus : DOMAIN cell'[x][d] = Field /\ DOMAIN events'[x][d] = Field
  BY <1>1, <1>2
<1>6. \A x \in Entries, d \in Cpus, g \in Field :
        x # e \/ d # c \/ g # f =>
          cell'[x][d][g] = cell[x][d][g] /\ events'[x][d][g] = events[x][d][g]
  BY <1>1, <1>2
<1>7. e \in Entries =>
        /\ cell'[e][c][f] = Wrap(cell[e][c][f] + running[c].add[f])
        /\ events'[e][c][f] = events[e][c][f] + running[c].add[f]
        /\ e \in present
  BY <1>1, <1>2 DEF LoadedAt
<1>8. EventsCounted'
  <2>1. ASSUME e \in Entries
        PROVE  cell'[e][c][f] = Wrap(events'[e][c][f])
    <3>1. cell[e][c][f] = Wrap(events[e][c][f])
      BY <1>2, <2>1 DEF EventsCounted
    <3>2. CASE lesson = "tracing01"
      <4>1. f = "processed" /\ running[c].add[f] = 1 /\ events[e][c][f] \in Nat
        BY <1>1, <1>2, <2>1, <3>2, ZeroFact DEF Simple
      <4> QED
        BY <1>7, <2>1, <3>1, <3>2, <4>1, WrapFact, TracingAssumption
           DEF Wrap, TracingAssumption
    <3>3. CASE lesson # "tracing01"
      BY <1>7, <2>1, <3>1, <3>3 DEF Wrap
    <3> QED
      BY <3>2, <3>3
  <2>2. \A n : Wrap(n)' = Wrap(n')
    BY <1>1 DEF Wrap
  <2>3. ASSUME NEW x \in Entries, NEW d \in Cpus, NEW g \in Field
        PROVE  cell'[x][d][g] = Wrap(events'[x][d][g])
    <3>1. CASE x # e \/ d # c \/ g # f
      BY <1>6, <3>1 DEF EventsCounted
    <3>2. CASE ~(x # e \/ d # c \/ g # f)
      BY <2>1, <3>2
    <3> QED
      BY <3>1, <3>2
  <2>4. Entries' = Entries /\ Cpus' = Cpus /\ lesson' = lesson
    BY <1>1, <1>3
  <2> QED
    BY <2>3, <2>4 DEF EventsCounted, Wrap
<1>9. ASSUME NEW d \in Cpus, Running(d)'
      PROVE  LoadedAt(d)' /\ running'[d].left \subseteq Field
  <2>1. CASE d = c
    <3>1. /\ running'[c].entry = e /\ running'[c].seen = running[c].seen
          /\ running'[c].left = running[c].left \ {f} /\ running'[c].found
      BY <1>1, <1>4, <1>9, <2>1
    <3>2. e \in Entries => \A g \in Field :
            e \in present /\ (g \in running[c].left => running[c].seen[g] = cell[e][c][g])
      BY <1>1, <1>2 DEF LoadedAt
    <3>3. LoadedAt(c)'
      BY <1>1, <1>3, <1>6, <3>1, <3>2 DEF LoadedAt
    <3> QED
      BY <1>2, <2>1, <3>1, <3>3
  <2>2. CASE d # c
    <3>1. running'[d] = running[d] /\ Running(d) /\ LoadedAt(d)
      BY <1>4, <1>9, <2>2 DEF Running
    <3> QED
      BY <1>1, <1>3, <1>6, <2>2, <3>1 DEF LoadedAt
  <2> QED
    BY <2>1, <2>2
<1>10. Simple'
  <2> SUFFICES ASSUME lesson = "tracing01" PROVE Simple'
    BY <1>1 DEF Simple
  <2>1. running[c].add = One /\ running[c].left = {"processed"} /\ f = "processed"
    BY <1>1, <1>2 DEF Simple
  <2>2. ~Running(c)'
    BY <1>1, <2>1 DEF Running, NotRunning
  <2>3. \A d \in Cpus : Running(d)' => running'[d].add = One /\ running'[d].left = {"processed"}
    BY <1>4, <2>2 DEF Simple, Running
  <2>4. \A x \in Entries, d \in Cpus : events'[x][d]["processed"] \in Nat
    BY <1>6, <1>7, <2>1, ZeroFact DEF Simple, Field
  <2> QED
    BY <1>1, <1>3, <2>3, <2>4 DEF Simple
<1>11. Absent'
  BY <1>1, <1>3, <1>6, <1>7 DEF Absent
<1> QED
  BY <1>3, <1>4, <1>5, <1>8, <1>9, <1>10, <1>11

\* Making an entry gives each CPU's record a value only if this CPU is the one; the
\* entry may have been made by another CPU since this one has looked.
LEMMA CreateFact ==
  ASSUME Inv, NEW c \in Cpus, Create(c)
  PROVE  Inv'
<1> USE DEF Inv, Shaped
<1> DEFINE e == running[c].entry
<1>1. /\ Running(c) /\ ~running[c].found /\ LoadedAt(c)
      /\ running' = [running EXCEPT ![c] = NotRunning]
      /\ lesson' = lesson
  BY DEF Create, Tracepoint
<1>2. Entries' = Entries /\ Cpus' = Cpus
  BY <1>1 DEF Entries
<1>3. /\ DOMAIN running' = Cpus /\ ~Running(c)'
      /\ \A d \in Cpus \ {c} : running'[d] = running[d]
      /\ DOMAIN running'[c] = {"entry", "seen", "add", "left", "found"}
  BY <1>1 DEF Running, NotRunning
<1>4. /\ DOMAIN cell' = Entries /\ DOMAIN events' = Entries
      /\ \A x \in Entries : DOMAIN cell'[x] = Cpus /\ DOMAIN events'[x] = Cpus
      /\ \A x \in Entries, d \in Cpus : DOMAIN cell'[x][d] = Field /\ DOMAIN events'[x][d] = Field
  BY ZeroFact DEF Create, UpdateElem, One, Add, Field
<1>5. /\ present \subseteq present' /\ present' \subseteq present \union {e}
      /\ \A x \in Entries, d \in Cpus, g \in Field :
           x # e \/ d # c =>
             cell'[x][d][g] = cell[x][d][g] /\ events'[x][d][g] = events[x][d][g]
  BY DEF Create, UpdateElem
\* The entry of this CPU: nothing has changed, or this event is its first.
<1>6. e \in Entries =>
        \/ \A g \in Field : cell'[e][c][g] = 0 /\ events'[e][c][g] = 0
        \/ \A g \in Field :
             LET n == IF g = "processed" THEN 1 ELSE 0
             IN  cell'[e][c][g] = n /\ events'[e][c][g] = n
  <2> SUFFICES ASSUME e \in Entries
               PROVE  \/ \A g \in Field : cell'[e][c][g] = 0 /\ events'[e][c][g] = 0
                      \/ \A g \in Field :
                           LET n == IF g = "processed" THEN 1 ELSE 0
                           IN  cell'[e][c][g] = n /\ events'[e][c][g] = n
    OBVIOUS
  <2>1. \A g \in Field : cell[e][c][g] = 0 /\ events[e][c][g] = 0
    BY <1>1 DEF LoadedAt
  <2>2. CASE Room(e)
    BY <2>1, <2>2, ZeroFact DEF Create, UpdateElem
  <2>3. CASE ~Room(e)
    BY <2>1, <2>3 DEF Create
  <2> QED
    BY <2>2, <2>3
<1>7. e \in Entries /\ e \notin present' =>
        \A x \in Entries : cell'[x] = cell[x] /\ events'[x] = events[x]
  BY DEF Create
<1>8. EventsCounted'
  <2>1. e \in Entries => \A g \in Field : cell'[e][c][g] = Wrap(events'[e][c][g])
    BY <1>6, OneFact, TracingAssumption DEF Wrap, TracingAssumption
  <2> QED
    BY <1>1, <1>2, <1>5, <2>1 DEF EventsCounted, Wrap
<1>9. ASSUME NEW d \in Cpus, Running(d)'
      PROVE  LoadedAt(d)' /\ running'[d].left \subseteq Field
  <2>1. d # c /\ running'[d] = running[d] /\ Running(d) /\ LoadedAt(d)
    BY <1>3, <1>9 DEF Running
  <2> QED
    BY <1>2, <1>5, <2>1 DEF LoadedAt
<1>10. Simple'
  <2>1. lesson = "tracing01" => \A d \in Cpus :
          Running(d)' => running'[d].add = One /\ running'[d].left = {"processed"}
    BY <1>3 DEF Simple, Running
  <2>2. lesson = "tracing01" => \A x \in Entries, d \in Cpus : events'[x][d]["processed"] \in Nat
    BY <1>5, <1>6 DEF Simple, Field
  <2> QED
    BY <1>1, <1>2, <2>1, <2>2 DEF Simple
<1>11. Absent'
  BY <1>2, <1>5, <1>7 DEF Absent
<1> QED
  BY <1>2, <1>3, <1>4, <1>8, <1>9, <1>10, <1>11

\* The reader changes no map.
LEMMA InvStep == Inv /\ [Next]_vars => Inv'
<1> SUFFICES ASSUME Inv, [Next]_vars PROVE Inv'
  OBVIOUS
<1>1. CASE \E c \in Cpus : KernelStep(c)
  BY <1>1, LookupFact, StoreFact, CreateFact DEF KernelStep
<1>2. CASE ReaderStep \/ UNCHANGED vars
  <2>1. UNCHANGED <<lesson, cell, present, running, events>>
    BY <1>2 DEF ReaderStep, Attach, AttachFails, AttachDone, CheckMapsFails, Exits, NextEntry,
       Copy, CopyFails, PrintStats, Swap, Reads, kern, vars
  <2> QED
    BY <2>1 DEF Inv, Shaped, Simple, Absent, EventsCounted, LoadedAt, Running, Entries, Wrap
<1> QED
  BY <1>1, <1>2 DEF Next

\* No event is lost or counted twice, for any number of CPUs, interfaces and events, for
\* any bulks, and for a hash of any size: the additions are not atomic, but nobody else
\* adds to the record of a CPU, and an entry that two CPUs make at the same time has
\* the first event of each. tracing01's counts are right modulo 2^32.
THEOREM EventsCountedTheorem == Spec => []EventsCounted
<1>1. Inv => EventsCounted
  BY DEF Inv
<1> QED
  BY <1>1, InvInit, InvStep, PTL DEF Spec

-----------------------------------------------------------------------------
(* The types.                                                              *)

Typed ==
  /\ TypeOK
  /\ DOMAIN running = Cpus
  /\ \A c \in Cpus :
       /\ DOMAIN running[c] = {"entry", "seen", "add", "left", "found"}
       /\ running[c].seen \in [Field -> Int] /\ running[c].add \in [Field -> Int]
  /\ DOMAIN reader = {"pc", "at", "cur", "cpu", "sum", "first", "failed", "failures"}
  /\ reader.pc = "copy" => reader.cur \in 1 .. Len(Order[lesson])
  /\ lesson = "tracing01" => IsFiniteSet(present)

Maps == {"xdp_stats_map", "redirect_err_cnt", "exception_cnt", "cpumap_enqueue_cnt",
         "cpumap_kthread_cnt", "devmap_xmit_cnt"}

LEMMA ArrayFact ==
  ASSUME NEW map \in Maps, NEW size \in Nat
  PROVE  /\ Array(map, size) \in Seq(Maps \X Int)
         /\ \A i \in 0 .. size - 1 : <<map, i>> \in Range(Array(map, size))
<1>1. Array(map, size) \in [1 .. size -> Maps \X Int]
  BY DEF Array
<1>2. Array(map, size) \in Seq(Maps \X Int)
  BY <1>1, SeqDef
<1>3. ASSUME NEW i \in 0 .. size - 1
      PROVE  <<map, i>> \in Range(Array(map, size))
  <2>1. i + 1 \in 1 .. size /\ (i + 1) - 1 = i
    OBVIOUS
  <2>2. Array(map, size)[i + 1] = <<map, i>>
    BY <2>1 DEF Array
  <2> QED
    BY <2>1, <2>2 DEF Array, Range
<1> QED
  BY <1>2, <1>3

\* What is in one of two arrays is in the two, one after the other.
LEMMA JoinFact ==
  ASSUME NEW S, NEW s \in Seq(S), NEW t \in Seq(S)
  PROVE  /\ s \o t \in Seq(S)
         /\ Range(s) \subseteq Range(s \o t) /\ Range(t) \subseteq Range(s \o t)
<1>1. /\ DOMAIN s = 1 .. Len(s) /\ DOMAIN t = 1 .. Len(t) /\ Len(s) \in Nat /\ Len(t) \in Nat
      /\ s \o t \in Seq(S)
      /\ DOMAIN (s \o t) = 1 .. Len(s) + Len(t)
      /\ \A i \in 1 .. Len(s) + Len(t) :
           (s \o t)[i] = IF i <= Len(s) THEN s[i] ELSE t[i - Len(s)]
  BY ConcatProperties
<1>2. \A i \in DOMAIN s : i \in DOMAIN (s \o t) /\ (s \o t)[i] = s[i]
  BY <1>1
<1>3. \A i \in DOMAIN t : i + Len(s) \in DOMAIN (s \o t) /\ (s \o t)[i + Len(s)] = t[i]
  BY <1>1
<1>4. Range(s) \subseteq Range(s \o t)
  BY <1>2 DEF Range
<1>5. Range(t) \subseteq Range(s \o t)
  BY <1>3 DEF Range
<1> QED
  BY <1>1, <1>4, <1>5

LEMMA OrderSeq ==
  ASSUME lesson \in Lesson
  PROVE  /\ Order[lesson] \in Seq(Maps \X Int)
         /\ \A e \in Entries : \E i \in 1 .. Len(Order[lesson]) : e = Order[lesson][i]
<1>1. Interfaces \in Nat /\ XDP_UNKNOWN + 1 \in Nat /\ MAX_CPUS \in Nat
  BY TracingAssumption DEF TracingAssumption, XDP_UNKNOWN
<1>2. Order[lesson] \in Seq(Maps \X Int)
  <2>1. CASE lesson = "tracing01"
    BY <1>1, <2>1, ArrayFact DEF Order, Lesson, Maps
  <2>2. CASE lesson = "tracing02"
    BY <1>1, <2>2, ArrayFact, JoinFact DEF Order, Lesson, Maps
  <2> QED
    BY <2>1, <2>2 DEF Lesson
<1>3. Entries = Range(Order[lesson])
  BY DEF Entries, EntriesOf
<1>4. DOMAIN Order[lesson] = 1 .. Len(Order[lesson])
  BY <1>2
<1> QED
  BY <1>2, <1>3, <1>4 DEF Range

LEMMA OrderFact ==
  ASSUME lesson \in Lesson
  PROVE  /\ Len(Order[lesson]) \in Nat
         /\ \A i \in 1 .. Len(Order[lesson]) : Order[lesson][i] \in Entries
<1>1. Order[lesson] \in Seq(Maps \X Int)
  BY OrderSeq
<1>2. DOMAIN Order[lesson] = 1 .. Len(Order[lesson])
  BY <1>1
<1> QED
  BY <1>1, <1>2 DEF Range, Entries, EntriesOf

\* The entries of the arrays of tracing02.
LEMMA EntriesFact ==
  ASSUME lesson = "tracing02"
  PROVE  /\ \A i \in 0 .. 1 : <<"redirect_err_cnt", i>> \in Entries
         /\ \A i \in 0 .. XDP_UNKNOWN : <<"exception_cnt", i>> \in Entries
         /\ \A i \in 0 .. MAX_CPUS - 1 : <<"cpumap_enqueue_cnt", i>> \in Entries
         /\ <<"cpumap_kthread_cnt", 0>> \in Entries /\ <<"devmap_xmit_cnt", 0>> \in Entries
<1> DEFINE S == Maps \X Int
           A == Array("redirect_err_cnt", 2)  B == Array("exception_cnt", XDP_UNKNOWN + 1)
           C == Array("cpumap_enqueue_cnt", MAX_CPUS)
           D == Array("cpumap_kthread_cnt", 1)  E == Array("devmap_xmit_cnt", 1)
<1>1. XDP_UNKNOWN + 1 \in Nat /\ XDP_UNKNOWN \in Nat /\ MAX_CPUS \in Nat
  BY TracingAssumption DEF TracingAssumption, XDP_UNKNOWN
<1>2. A \in Seq(S) /\ B \in Seq(S) /\ C \in Seq(S) /\ D \in Seq(S) /\ E \in Seq(S)
  BY <1>1, ArrayFact DEF Maps
<1>3. /\ \A i \in 0 .. 1 : <<"redirect_err_cnt", i>> \in Range(A)
      /\ \A i \in 0 .. XDP_UNKNOWN : <<"exception_cnt", i>> \in Range(B)
      /\ \A i \in 0 .. MAX_CPUS - 1 : <<"cpumap_enqueue_cnt", i>> \in Range(C)
  <2>1. 0 .. 1 = 0 .. 2 - 1 /\ 0 .. XDP_UNKNOWN = 0 .. (XDP_UNKNOWN + 1) - 1
    BY <1>1
  <2> QED
    BY <1>1, <2>1, ArrayFact DEF Maps
<1>4. <<"cpumap_kthread_cnt", 0>> \in Range(D) /\ <<"devmap_xmit_cnt", 0>> \in Range(E)
  <2>1. 0 \in 0 .. 1 - 1
    OBVIOUS
  <2> QED
    BY <2>1, ArrayFact DEF Maps
<1>5. Entries = Range(A \o B \o C \o D \o E)
  BY DEF Entries, EntriesOf, Order, Lesson
<1> HIDE DEF A, B, C, D, E, S
<1>6. A \o B \in Seq(S) /\ Range(A) \subseteq Range(A \o B) /\ Range(B) \subseteq Range(A \o B)
  BY <1>2, JoinFact
<1>7. /\ A \o B \o C \in Seq(S) /\ Range(A \o B) \subseteq Range(A \o B \o C)
      /\ Range(C) \subseteq Range(A \o B \o C)
  BY <1>2, <1>6, JoinFact
<1>8. /\ A \o B \o C \o D \in Seq(S) /\ Range(A \o B \o C) \subseteq Range(A \o B \o C \o D)
      /\ Range(D) \subseteq Range(A \o B \o C \o D)
  BY <1>2, <1>7, JoinFact
<1>9. /\ Range(A \o B \o C \o D) \subseteq Range(A \o B \o C \o D \o E)
      /\ Range(E) \subseteq Range(A \o B \o C \o D \o E)
  BY <1>2, <1>8, JoinFact
<1> QED
  BY <1>3, <1>4, <1>5, <1>6, <1>7, <1>8, <1>9

LEMMA AddFact == Zero \in [Field -> Int] /\ One \in [Field -> Int] /\ "processed" \in Field
<1>1. ASSUME NEW p \in Int, NEW d \in Int, NEW i \in Int, NEW r \in Int
      PROVE  Add(p, d, i, r) \in [Field -> Int]
  BY DEF Add, Field
<1> QED
  BY <1>1 DEF Zero, One, Field

\* What a tracepoint program adds, and to what.
LEMMA UpdatesFact ==
  ASSUME lesson \in Lesson, NEW t \in 1 .. Len(Tracepoints[lesson]),
         NEW u \in Updates(Tracepoints[lesson][t])
  PROVE  u.entry \in Entries /\ u.add \in [Field -> Int]
<1>1. ASSUME NEW p \in Int, NEW d \in Int, NEW i \in Int, NEW r \in Int
      PROVE  Add(p, d, i, r) \in [Field -> Int]
  BY DEF Add, Field
<1>2. One \in [Field -> Int] /\ \A b \in BOOLEAN : If(b) \in {0, 1}
  BY AddFact DEF If
<1>3. CASE lesson = "tracing01"
  <2>1. PICK i \in 1 .. Interfaces : u = [entry |-> <<"xdp_stats_map", i - 1>>, add |-> One]
    <3>1. u \in trace_xdp_exception_simple
      BY <1>3 DEF Updates
    <3> QED
      BY <3>1 DEF trace_xdp_exception_simple
  <2>2. Interfaces \in Nat /\ i - 1 \in 0 .. Interfaces - 1
    BY <2>1, TracingAssumption DEF TracingAssumption
  <2>3. Entries = Range(Array("xdp_stats_map", Interfaces))
    BY <1>3 DEF Entries, EntriesOf, Order, Lesson
  <2> QED
    BY <1>2, <2>1, <2>2, <2>3, ArrayFact DEF Maps
<1>4. CASE lesson = "tracing02"
  <2> DEFINE tp == Tracepoints[lesson][t]
  <2>1. tp \in {"xdp_redirect_err", "xdp_redirect_map_err", "xdp_redirect", "xdp_redirect_map",
                "xdp_exception", "xdp_cpumap_enqueue", "xdp_cpumap_kthread", "xdp_devmap_xmit"}
    BY <1>4 DEF Tracepoints, Lesson
  <2>2. u \in Updates(tp) /\ lesson # "tracing01"
    BY <1>4
  <2> HIDE DEF tp
  <2>3. CASE tp \in {"xdp_redirect_err", "xdp_redirect_map_err", "xdp_redirect",
                     "xdp_redirect_map"}
    <3>1. u = xdp_redirect_collect_stat(TRUE) \/ u = xdp_redirect_collect_stat(FALSE)
      BY <2>2, <2>3 DEF Updates
    <3> QED
      BY <1>2, <1>4, <3>1, EntriesFact DEF xdp_redirect_collect_stat, If
  <2>4. CASE tp = "xdp_exception"
    <3>1. PICK act \in XDP_ABORTED .. XDP_UNKNOWN + 1 : u = trace_xdp_exception(act)
      BY <2>2, <2>4 DEF Updates
    <3>2. act \in Int /\ act >= 0 /\ XDP_REDIRECT \in Nat
      BY <3>1, TracingAssumption DEF TracingAssumption, XDP_ABORTED
    <3>3. (IF act > XDP_REDIRECT THEN XDP_UNKNOWN ELSE act) \in 0 .. XDP_UNKNOWN
      BY <3>2 DEF XDP_UNKNOWN
    <3> QED
      BY <1>2, <1>4, <3>1, <3>3, EntriesFact DEF trace_xdp_exception
  <2>5. CASE tp = "xdp_cpumap_enqueue"
    <3>1. PICK to_cpu \in 0 .. MAX_CPUS - 1, b \in Bulks :
            u = [entry |-> <<"cpumap_enqueue_cnt", to_cpu>>,
                 add |-> Add(b.processed, b.drops, If(b.processed > 0), 0)]
      <4>1. u \in trace_xdp_cpumap_enqueue
        BY <2>2, <2>5 DEF Updates
      <4> QED
        BY <4>1 DEF trace_xdp_cpumap_enqueue
    <3>2. b.processed \in Int /\ b.drops \in Int /\ If(b.processed > 0) \in Int
      BY TracingAssumption DEF TracingAssumption, If
    <3>3. Add(b.processed, b.drops, If(b.processed > 0), 0) \in [Field -> Int]
      BY <3>2 DEF Add, Field
    <3> QED
      BY <1>4, <3>1, <3>3, EntriesFact
  <2>6. CASE tp = "xdp_cpumap_kthread"
    <3>1. PICK b \in Bulks :
            u = [entry |-> <<"cpumap_kthread_cnt", 0>>,
                 add |-> Add(b.processed, b.drops, If(b.sched), 0)]
      BY <2>2, <2>6 DEF Updates, trace_xdp_cpumap_kthread
    <3>2. b.processed \in Int /\ b.drops \in Int /\ If(b.sched) \in Int
      BY TracingAssumption DEF TracingAssumption, If
    <3>3. Add(b.processed, b.drops, If(b.sched), 0) \in [Field -> Int]
      BY <3>2 DEF Add, Field
    <3> QED
      BY <1>4, <3>1, <3>3, EntriesFact
  <2>7. CASE tp = "xdp_devmap_xmit"
    <3>1. PICK x \in Xmits :
            u = [entry |-> <<"devmap_xmit_cnt", 0>>,
                 add |-> Add(x.sent, x.drops, 1, If(x.err) + If(x.drops < 0))]
      BY <2>2, <2>7 DEF Updates, trace_xdp_devmap_xmit
    <3>2. x.sent \in Int /\ x.drops \in Int /\ If(x.err) + If(x.drops < 0) \in Int
      BY TracingAssumption DEF TracingAssumption, If
    <3>3. Add(x.sent, x.drops, 1, If(x.err) + If(x.drops < 0)) \in [Field -> Int]
      BY <3>2 DEF Add, Field
    <3> QED
      BY <1>4, <3>1, <3>3, EntriesFact
  <2> QED
    BY <2>1, <2>3, <2>4, <2>5, <2>6, <2>7
<1> QED
  BY <1>3, <1>4 DEF Lesson

LEMMA TypedInit == Init => Typed
<1> SUFFICES ASSUME Init PROVE Typed
  OBVIOUS
<1>1. lesson \in Lesson /\ Zero \in [Field -> Int] /\ NrCpus \in Nat \ {0} /\ max_entries \in Nat
  BY TracingAssumption DEF Init, TracingAssumption, Zero, Add, Field
<1>2. MaxEvents[lesson] \in Nat /\ Len(Tracepoints[lesson]) \in Nat /\ Len(Order[lesson]) \in Nat
  BY <1>1, TracingAssumption, OrderFact DEF TracingAssumption, Tracepoints, Lesson
<1>3. \A c \in Cpus : running[c] = NotRunning /\ ~Running(c)
  BY DEF Init, Running, NotRunning
<1>4. IsFiniteSet({}) /\ Cardinality({}) = 0
  BY FS_EmptySet
<1>5. IsFiniteSet(present) \/ lesson = "tracing02"
  BY <1>1, <1>4 DEF Init, Lesson
<1>6. lesson = "tracing01" => Cardinality(present) <= max_entries
  BY <1>1, <1>4 DEF Init
<1>7. 0 \in Cpus
  BY <1>1 DEF Cpus
<1> QED
  BY <1>1, <1>2, <1>3, <1>5, <1>6, <1>7 DEF Init, Typed, TypeOK, Records, NotRunning

\* The kernel's steps.
LEMMA TypedKernel ==
  ASSUME Typed, NEW c \in Cpus, KernelStep(c)
  PROVE  Typed'
<1> USE DEF Typed, TypeOK
<1>1. /\ UNCHANGED <<lesson, attached, reader, records>> /\ Entries' = Entries
      /\ Len(Order[lesson]) \in Nat
  BY OrderFact DEF KernelStep, Lookup, Store, Create, Tracepoint, Entries
<1>2. CASE Lookup(c)
  <2>1. PICK t \in 1 .. attached : \E u \in Updates(Tracepoints[lesson][t]) :
          running' = [running EXCEPT ![c] =
            [entry |-> u.entry, add |-> u.add, found |-> u.entry \in present,
             seen |-> cell[u.entry][c], left |-> {f \in Fields(u.entry) : u.add[f] # 0}]]
    BY <1>2 DEF Lookup, Own
  <2>2. PICK u \in Updates(Tracepoints[lesson][t]) :
          running' = [running EXCEPT ![c] =
            [entry |-> u.entry, add |-> u.add, found |-> u.entry \in present,
             seen |-> cell[u.entry][c], left |-> {f \in Fields(u.entry) : u.add[f] # 0}]]
    BY <2>1
  <2>3. t \in 1 .. Len(Tracepoints[lesson])
    BY DEF Tracepoints, Lesson
  <2>4. u.entry \in Entries /\ u.add \in [Field -> Int]
    BY <2>3, UpdatesFact
  <2>5. {f \in Fields(u.entry) : u.add[f] # 0} \subseteq Field
    BY DEF Fields, Field
  <2>6. cell[u.entry][c] \in [Field -> Int]
    BY <2>4
  <2>7. started' \in 0 .. MaxEvents[lesson]
    BY <1>2, TracingAssumption DEF Lookup, TracingAssumption
  <2>8. UNCHANGED <<cell, present, events>>
    BY <1>2 DEF Lookup
  <2>9. /\ DOMAIN running' = Cpus
        /\ \A d \in Cpus \ {c} : running'[d] = running[d]
        /\ running'[c].entry \in Entries /\ running'[c].left \subseteq Field
        /\ running'[c].seen \in [Field -> Int] /\ running'[c].add \in [Field -> Int]
        /\ DOMAIN running'[c] = {"entry", "seen", "add", "left", "found"}
    BY <2>2, <2>4, <2>5, <2>6
  <2> QED
    BY <1>1, <2>7, <2>8, <2>9 DEF Running, records, Records
<1>3. CASE Store(c)
  <2>1. PICK f \in running[c].left :
          LET e == running[c].entry  left == running[c].left \ {f} IN
          /\ cell' = [cell EXCEPT ![e][c][f] = Wrap(running[c].seen[f] + running[c].add[f])]
          /\ events' = [events EXCEPT ![e][c][f] = @ + running[c].add[f]]
          /\ running' = [running EXCEPT ![c] = IF left = {} THEN NotRunning
                                                           ELSE [@ EXCEPT !.left = left]]
    BY <1>3 DEF Store, Own
  <2>2. UNCHANGED <<present, started>>
    BY <1>3 DEF Store
  <2> DEFINE e == running[c].entry  left == running[c].left \ {f}
  <2>3. f \in Field /\ e \in Entries
    BY <2>1 DEF Running
  <2>4. Wrap(running[c].seen[f] + running[c].add[f]) \in Int
    <3>1. PICK n \in Int : n = running[c].seen[f] + running[c].add[f]
      BY <2>3
    <3>2. Wrap(n) \in Int
      BY TracingAssumption DEF Wrap, TracingAssumption
    <3> QED
      BY <3>1, <3>2
  <2>5. events[e][c][f] + running[c].add[f] \in Int
    BY <2>3
  <2>6. ASSUME NEW table \in [Entries -> [Cpus -> [Field -> Int]]], NEW n \in Int
        PROVE  [table EXCEPT ![e][c][f] = n] \in [Entries -> [Cpus -> [Field -> Int]]]
    <3> HIDE DEF Typed, TypeOK, e, left
    <3> QED
      BY <2>3
  <2>7. /\ cell' \in [Entries -> [Cpus -> [Field -> Int]]]
        /\ events' \in [Entries -> [Cpus -> [Field -> Int]]]
    <3>1. /\ cell \in [Entries -> [Cpus -> [Field -> Int]]]
          /\ events \in [Entries -> [Cpus -> [Field -> Int]]]
          /\ cell' = [cell EXCEPT ![e][c][f] = Wrap(running[c].seen[f] + running[c].add[f])]
          /\ events' = [events EXCEPT ![e][c][f] = events[e][c][f] + running[c].add[f]]
      BY <2>1
    <3> HIDE DEF Typed, TypeOK, e, left
    <3> QED
      BY <2>4, <2>5, <2>6, <3>1, Zenon
  <2>8. Zero \in [Field -> Int]
    BY DEF Zero, Add, Field
  <2>9. /\ DOMAIN running' = Cpus
        /\ \A d \in Cpus \ {c} : running'[d] = running[d]
        /\ running'[c].left # {} => running'[c].entry = e /\ running'[c].left \subseteq Field
        /\ running'[c].seen \in [Field -> Int] /\ running'[c].add \in [Field -> Int]
        /\ DOMAIN running'[c] = {"entry", "seen", "add", "left", "found"}
    <3>1. left \subseteq Field
      BY <2>1 DEF Running
    <3>2. CASE left = {}
      <4>1. running' = [running EXCEPT ![c] = NotRunning]
        BY <2>1, <3>2
      <4> QED
        BY <2>8, <4>1 DEF NotRunning
    <3>3. CASE left # {}
      <4>1. running' = [running EXCEPT ![c] = [@ EXCEPT !.left = left]]
        BY <2>1, <3>3
      <4> HIDE DEF left
      <4> QED
        <5>1. /\ DOMAIN running = Cpus
              /\ DOMAIN running[c] = {"entry", "seen", "add", "left", "found"}
              /\ running[c].seen \in [Field -> Int] /\ running[c].add \in [Field -> Int]
          BY <2>1 DEF Running
        <5>2. PICK r : r = [running[c] EXCEPT !.left = left]
          OBVIOUS
        <5>3. /\ DOMAIN r = {"entry", "seen", "add", "left", "found"}
              /\ r.left = left /\ r.entry = running[c].entry
              /\ r.seen = running[c].seen /\ r.add = running[c].add
          BY <5>1, <5>2
        <5>4. running' = [running EXCEPT ![c] = r]
          BY <4>1, <5>2
        <5>5. DOMAIN running' = Cpus /\ running'[c] = r /\ \A d \in Cpus \ {c} : running'[d] = running[d]
          BY <5>1, <5>4
        <5> QED
          BY <3>1, <5>1, <5>3, <5>5
    <3> QED
      BY <3>2, <3>3
  <2> QED
    BY <1>1, <2>2, <2>3, <2>7, <2>9 DEF Running, records, Records
<1>4. CASE Create(c)
  <2> DEFINE e == running[c].entry
  <2>1. /\ e \in Entries /\ present \subseteq Entries
        /\ cell \in [Entries -> [Cpus -> [Field -> Int]]]
        /\ events \in [Entries -> [Cpus -> [Field -> Int]]]
        /\ lesson = "tracing01" =>
             IsFiniteSet(present) /\ Cardinality(present) <= max_entries
    BY <1>4 DEF Create
  <2>2. /\ DOMAIN running' = Cpus /\ UNCHANGED started
        /\ \A d \in Cpus \ {c} : running'[d] = running[d]
        /\ running'[c] = NotRunning
    BY <1>4 DEF Create
  <2>3. \/ UNCHANGED <<cell, present, events>>
        \/ /\ Room(e)
           /\ cell' = [cell EXCEPT ![e] = UpdateElem(e, c)]
           /\ present' = present \union {e}
           /\ events' = [events EXCEPT ![e][c].processed = @ + 1]
    BY <1>4 DEF Create
  <2>4. cell' \in [Entries -> [Cpus -> [Field -> Int]]]
    <3>1. UpdateElem(e, c) \in [Cpus -> [Field -> Int]]
      BY <2>1, AddFact DEF UpdateElem
    <3> HIDE DEF Typed, TypeOK, e
    <3> QED
      BY <2>1, <2>3, <3>1
  <2>5. events' \in [Entries -> [Cpus -> [Field -> Int]]]
    <3> HIDE DEF Typed, TypeOK, e
    <3>1. ASSUME NEW n \in Int
          PROVE  [events EXCEPT ![e][c]["processed"] = n]
                   \in [Entries -> [Cpus -> [Field -> Int]]]
      BY <2>1, AddFact
    <3>2. events[e][c]["processed"] + 1 \in Int
      BY <2>1, AddFact
    <3>3. events' = events
            \/ events' = [events EXCEPT ![e][c]["processed"] = events[e][c]["processed"] + 1]
      BY <2>3, Zenon
    <3> QED
      BY <2>1, <3>1, <3>2, <3>3
  <2>6. present' \subseteq Entries
    BY <2>1, <2>3
  <2>7. ASSUME lesson = "tracing01"
        PROVE  IsFiniteSet(present') /\ Cardinality(present') <= max_entries
    <3> HIDE DEF Typed, TypeOK, e
    <3>1. CASE present' = present
      BY <2>1, <2>7, <3>1
    <3>2. CASE present' # present
      <4>1. e \notin present /\ Room(e) /\ present' = present \union {e}
        BY <2>3, <3>2
      <4>2. Cardinality(present) < max_entries
        BY <4>1 DEF Room
      <4>3. /\ IsFiniteSet(present') /\ Cardinality(present') = Cardinality(present) + 1
            /\ Cardinality(present) \in Nat
        BY <2>1, <2>7, <4>1, FS_AddElement, FS_CardinalityType
      <4> QED
        BY <4>2, <4>3, TracingAssumption DEF TracingAssumption
    <3> QED
      BY <3>1, <3>2
  <2>8. /\ DOMAIN NotRunning = {"entry", "seen", "add", "left", "found"}
        /\ NotRunning.left = {} /\ NotRunning.seen = Zero /\ NotRunning.add = Zero
    BY DEF NotRunning
  <2> QED
    BY <1>1, <2>2, <2>4, <2>5, <2>6, <2>7, <2>8, AddFact DEF Running, records, Records
<1> QED
  BY <1>2, <1>3, <1>4 DEF KernelStep

LEMMA MinFact ==
  ASSUME NEW S \in SUBSET Nat, S # {}
  PROVE  Min(S) \in S
<1>1. PICK x \in S : \A y \in S : <<y, x>> \notin OpToRel(<, Nat)
  BY NatLessThanWellFounded, WFMin
<1>2. ASSUME NEW y \in S PROVE x <= y
  <2>1. x \in Nat /\ y \in Nat /\ <<y, x>> \in Nat \X Nat
    OBVIOUS
  <2>2. y < x => <<y, x>> \in OpToRel(<, Nat)
    BY <2>1 DEF OpToRel
  <2>3. ~(y < x)
    BY <1>1, <2>2, Zenon
  <2> QED
    BY <2>1, <2>3
<1> QED
  BY <1>2 DEF Min

\* The reader goes on from a place of the order.
LEMMA FromFact ==
  ASSUME Typed, NEW at \in 0 .. Len(Order[lesson]), UNCHANGED lesson
  PROVE  LET r == From(at) IN
         /\ DOMAIN r = DOMAIN reader
         /\ r.pc \in {"next", "copy", "print"} /\ (r.pc = "next" <=> lesson = "tracing01")
         /\ r.at = at /\ r.cur = at + 1 /\ r.cpu = 0 /\ r.sum = Zero
         /\ r.pc = "copy" => r.cur \in 1 .. Len(Order[lesson])
         /\ r.first = reader.first /\ r.failed = reader.failed /\ r.failures = reader.failures
<1>1. lesson \in Lesson /\ Len(Order[lesson]) \in Nat
  BY OrderFact DEF Typed, TypeOK
<1>2. DOMAIN reader = {"pc", "at", "cur", "cpu", "sum", "first", "failed", "failures"}
  BY DEF Typed
<1> QED
  BY <1>1, <1>2 DEF From, Summed

\* The reader's steps.
LEMMA TypedReader ==
  ASSUME Typed, ReaderStep
  PROVE  Typed'
<1> DEFINE len == Len(Order[lesson])
<1>1. /\ UNCHANGED <<lesson, cell, present, running, started, events>> /\ Entries' = Entries
      /\ lesson \in Lesson /\ len \in Nat /\ 0 \in Cpus /\ NrCpus \in Nat \ {0}
      /\ len' = len /\ Records' = Records
  <2>1. UNCHANGED <<lesson, cell, present, running, started, events>>
    BY DEF ReaderStep, Attach, AttachFails, AttachDone, CheckMapsFails, Exits, NextEntry, Copy,
           CopyFails, PrintStats, Swap, Reads, kern
  <2>2. lesson \in Lesson
    BY DEF Typed, TypeOK
  <2>3. len \in Nat /\ len' = len
    BY <2>1, <2>2, OrderFact
  <2>4. 0 \in Cpus /\ NrCpus \in Nat \ {0}
    BY TracingAssumption DEF TracingAssumption, Cpus
  <2>5. Entries' = Entries /\ Records' = Records
    BY <2>1 DEF Entries, Records
  <2> QED
    BY <2>1, <2>2, <2>3, <2>4, <2>5
<1>2. /\ DOMAIN reader = {"pc", "at", "cur", "cpu", "sum", "first", "failed", "failures"}
      /\ reader.pc \in {"attach", "next", "copy", "print", "swap", "exited"}
      /\ reader.at \in 0 .. len /\ reader.cur \in 0 .. len + 1 /\ reader.cpu \in Cpus
      /\ reader.sum \in [Field -> Int] /\ reader.failed \subseteq Entries
      /\ reader.pc = "copy" => reader.cur \in 1 .. len
      /\ rec \in Records /\ prev \in Records /\ shown \in Records
      /\ attached \in 0 .. Len(Tracepoints[lesson])
  BY DEF Typed, TypeOK
<1> DEFINE ReaderOK ==
      /\ DOMAIN reader = {"pc", "at", "cur", "cpu", "sum", "first", "failed", "failures"}
      /\ reader.pc \in {"attach", "next", "copy", "print", "swap", "exited"}
      /\ reader.at \in 0 .. len /\ reader.cur \in 0 .. len + 1 /\ reader.cpu \in Cpus
      /\ reader.sum \in [Field -> Int] /\ reader.failed \subseteq Entries
      /\ reader.pc = "copy" => reader.cur \in 1 .. len
<1>3. ReaderOK' /\ rec' \in Records /\ prev' \in Records /\ shown' \in Records
        /\ attached' \in 0 .. Len(Tracepoints[lesson]) => Typed'
  BY <1>1 DEF Typed, TypeOK, Running
<1>4. Zero \in [Field -> Int] /\ Len(Tracepoints[lesson]) \in Nat
  BY <1>1, AddFact DEF Tracepoints, Lesson
<1>5. \A at \in 0 .. len : reader' = From(at) => ReaderOK'
  BY <1>1, <1>2, <1>4, FromFact
<1>6. \A e \in Entries : rec[e] \in [Field -> Int] /\ prev[e] \in [Field -> Int]
                           /\ shown[e] \in [Field -> Int]
  BY <1>2 DEF Records
<1>15. ASSUME reader' = [From(0) EXCEPT !.failed = {}]
       PROVE  ReaderOK'
  <2>1. PICK r : r = From(0)
    OBVIOUS
  <2>2. 0 \in 0 .. len
    BY <1>1
  <2>3. /\ DOMAIN r = {"pc", "at", "cur", "cpu", "sum", "first", "failed", "failures"}
        /\ r.pc \in {"next", "copy", "print"} /\ r.at = 0 /\ r.cur = 1 /\ r.cpu = 0
        /\ r.sum = Zero /\ (r.pc = "copy" => r.cur \in 1 .. len)
    BY <1>1, <1>2, <2>1, <2>2, FromFact
  <2>4. reader' = [r EXCEPT !.failed = {}]
    BY <1>15, <2>1
  <2> HIDE DEF len
  <2>5. len \in Nat /\ 1 \in 0 .. len + 1
    BY <1>1
  <2> QED
    BY <1>1, <1>4, <2>2, <2>3, <2>4, <2>5 DEF len
<1>7. CASE Attach
  BY <1>1, <1>2, <1>3, <1>4, <1>7 DEF Attach, records
<1>8. CASE AttachDone
  BY <1>1, <1>2, <1>3, <1>5, <1>8 DEF AttachDone, records
<1>9. CASE AttachFails \/ CheckMapsFails
  <2>1. reader' = [reader EXCEPT !.pc = "exited"] /\ attached' = 0 /\ UNCHANGED records
    BY <1>9 DEF AttachFails, CheckMapsFails, Exits
  <2>2. ReaderOK'
    BY <1>1, <1>2, <2>1
  <2> QED
    BY <1>2, <1>3, <1>4, <2>1, <2>2 DEF records
<1>10. CASE NextEntry
  <2>1. Later \subseteq 1 .. len
    BY <1>1, OrderFact DEF Later
  <2>2. Later # {} => Min(Later) \in 1 .. len
    <3>1. Later \in SUBSET Nat
      BY <1>1, <2>1
    <3> QED
      BY <2>1, <3>1, MinFact
  <2>3. ReaderOK'
    BY <1>1, <1>2, <1>10, <2>2 DEF NextEntry
  <2> QED
    BY <1>2, <1>3, <1>10, <2>3 DEF NextEntry, records
<1>11. CASE Copy
  <2> DEFINE sum == [f \in Field |-> reader.sum[f] + cell[Current][reader.cpu][f]]
  <2>1. reader.pc = "copy" /\ Current \in Entries /\ UNCHANGED <<attached, shown>>
    BY <1>1, <1>2, <1>11, OrderFact DEF Copy, Reads, Current
  <2>2. sum \in [Field -> Int]
    BY <1>2, <2>1 DEF Typed, TypeOK
  <2>3. CASE reader.cpu < NrCpus - 1
    <3>1. reader' = [reader EXCEPT !.cpu = @ + 1, !.sum = sum] /\ UNCHANGED <<rec, prev>>
      BY <1>11, <2>3 DEF Copy
    <3>2. reader.cpu + 1 \in Cpus
      BY <1>1, <1>2, <2>3 DEF Cpus
    <3>3. ReaderOK'
      BY <1>1, <1>2, <2>2, <3>1, <3>2
    <3> QED
      BY <1>2, <1>3, <2>1, <3>1, <3>3
  <2>4. CASE ~(reader.cpu < NrCpus - 1)
    <3>1. reader' = From(reader.cur) /\ rec' = [rec EXCEPT ![Current] = sum] /\ prev' = prev
      BY <1>11, <2>4 DEF Copy, Collected
    <3>2. reader.cur \in 0 .. len
      BY <1>1, <1>2, <2>1
    <3>3. ReaderOK'
      BY <1>5, <3>1, <3>2
    <3>4. rec' \in Records
      BY <1>2, <2>1, <2>2, <3>1 DEF Records
    <3> QED
      BY <1>2, <1>3, <2>1, <3>1, <3>3, <3>4
  <2> QED
    BY <2>3, <2>4
<1>12. CASE CopyFails
  <2>1. reader.pc = "copy" /\ Current \in Entries
    BY <1>1, <1>2, <1>12, OrderFact DEF CopyFails, Reads, Current
  <2>2. PICK at \in {0, reader.cur} :
          reader' = [From(at) EXCEPT !.failures = @ + 1, !.failed = @ \union {Current}]
    BY <1>12 DEF CopyFails
  <2>3. at \in 0 .. len
    BY <1>1, <1>2, <2>1
  <2>4. ReaderOK'
    BY <1>1, <1>2, <1>4, <2>1, <2>2, <2>3, FromFact
  <2> QED
    BY <1>2, <1>3, <1>12, <2>4 DEF CopyFails, records
<1>13. CASE PrintStats
  <2>1. shown' \in Records
    <3>1. \A e \in Entries, f \in Field : shown[e][f] + Difference(e)[f] \in Int
      BY <1>6 DEF Difference
    <3>2. \A e \in Entries : [f \in Field |-> shown[e][f] + Difference(e)[f]] \in [Field -> Int]
      BY <3>1
    <3> QED
      BY <1>2, <1>6, <1>13, <3>2 DEF PrintStats, Records
  <2>2. CASE lesson = "tracing01"
    <3>1. reader' = [From(0) EXCEPT !.failed = {}]
      BY <1>13, <2>2 DEF PrintStats
    <3>2. ReaderOK'
      BY <1>15, <3>1
    <3> QED
      BY <1>2, <1>3, <1>13, <2>1, <3>2 DEF PrintStats
  <2>3. CASE lesson # "tracing01"
    <3>1. reader' = [reader EXCEPT !.pc = "swap", !.first = FALSE]
      BY <1>13, <2>3 DEF PrintStats
    <3> QED
      BY <1>1, <1>2, <1>3, <1>13, <2>1, <3>1 DEF PrintStats
  <2> QED
    BY <2>2, <2>3
<1>14. CASE Swap
  <2>1. reader' = [From(0) EXCEPT !.failed = {}]
    BY <1>14 DEF Swap
  <2>2. ReaderOK'
    BY <1>15, <2>1
  <2> QED
    BY <1>2, <1>3, <1>14, <2>2 DEF Swap, Exchange
<1> QED
  BY <1>7, <1>8, <1>9, <1>10, <1>11, <1>12, <1>13, <1>14 DEF ReaderStep

LEMMA TypedStep == Typed /\ [Next]_vars => Typed'
<1> SUFFICES ASSUME Typed, [Next]_vars PROVE Typed'
  OBVIOUS
<1>1. CASE UNCHANGED vars
  BY <1>1 DEF Typed, TypeOK, Running, Entries, Records, vars, kern, records
<1> QED
  BY <1>1, TypedKernel, TypedReader DEF Next

\* Every record holds what its type says: a hash that is full stays as large as it is,
\* and the reader looks only at entries that exist.
THEOREM TypeTheorem == Spec => []TypeOK
<1>1. Typed => TypeOK
  BY DEF Typed
<1> QED
  BY <1>1, TypedInit, TypedStep, PTL DEF Spec

-----------------------------------------------------------------------------
(* The differences add up.                                                 *)

\* A record says what has been shown so far.
ShownIs(record) ==
  \A e \in Entries : \A f \in Fields(e) :
    e[1] # "cpumap_enqueue_cnt" \/ f = "processed" => shown[e][f] = record[e][f]

\* While the newer record is being filled, failures included, the older one says what has
\* been shown; between the print and the exchange it is the newer one.
AddsUp ==
  lesson = "tracing02" =>
    /\ reader.pc = "attach" => reader.first
    /\ reader.pc # "next"
    /\ reader.pc \in {"copy", "print"} /\ ~reader.first => ShownIs(prev)
    /\ reader.pc = "swap" => ShownIs(rec)

\* A row that is not shown would have shown no difference.
LEMMA PrintFact ==
  ASSUME Typed, AddsUp, lesson = "tracing02", PrintStats
  PROVE  ShownIs(rec)'
<1>1. UNCHANGED <<lesson, rec>> /\ Entries' = Entries /\ reader.pc = "print"
  BY DEF PrintStats, Reads, Entries
<1>2. CASE reader.first
  BY <1>1, <1>2 DEF PrintStats, ShownIs
<1>3. CASE ~reader.first
  <2>1. shown' = [e \in Entries |->
                    IF Row(e) THEN [f \in Field |-> shown[e][f] + Difference(e)[f]]
                              ELSE shown[e]]
    BY <1>3 DEF PrintStats
  <2> SUFFICES ASSUME NEW e \in Entries, NEW f \in Fields(e),
                      e[1] # "cpumap_enqueue_cnt" \/ f = "processed"
               PROVE  shown'[e][f] = rec[e][f]
    BY <1>1 DEF ShownIs, Fields
  <2>2. shown[e][f] = prev[e][f] /\ f \in Field
    BY <1>1, <1>3 DEF AddsUp, ShownIs, Fields, Field
  <2>3. rec[e][f] \in Int /\ prev[e][f] \in Int
    BY <2>2 DEF Typed, TypeOK, Records
  <2>4. CASE Row(e)
    <3>1. shown'[e][f] = shown[e][f] + (rec[e][f] - prev[e][f])
      BY <2>1, <2>2, <2>4 DEF Difference
    <3> QED
      BY <2>2, <2>3, <3>1
  <2>5. CASE ~Row(e)
    <3>1. rec[e].processed = prev[e].processed /\ f = "processed"
      BY <2>5 DEF Row, Fields
    <3> QED
      BY <2>1, <2>2, <2>5, <3>1
  <2> QED
    BY <2>4, <2>5
<1> QED
  BY <1>2, <1>3

LEMMA AddsUpStep == Typed /\ AddsUp /\ [Next]_vars => AddsUp'
<1> SUFFICES ASSUME Typed, AddsUp, [Next]_vars, lesson = "tracing02", lesson' = lesson
             PROVE  AddsUp'
  BY DEF AddsUp, Next, KernelStep, Lookup, Store, Create, Tracepoint, ReaderStep, Attach,
         AttachFails, AttachDone, CheckMapsFails, Exits, NextEntry, Copy, CopyFails,
         PrintStats, Swap, Reads, vars
<1>1. Entries' = Entries /\ Len(Order[lesson]) \in Nat
  BY OrderFact DEF Entries, Lesson
<1>2. CASE (\E c \in Cpus : KernelStep(c)) \/ UNCHANGED vars
  <2>1. UNCHANGED <<reader, rec, prev, shown>>
    BY <1>2 DEF KernelStep, Lookup, Store, Create, Tracepoint, vars, records
  <2> QED
    BY <1>1, <2>1 DEF AddsUp, ShownIs, Fields
<1>3. CASE Attach \/ AttachFails \/ CheckMapsFails
  <2>1. UNCHANGED records /\ (UNCHANGED reader \/ reader'.pc = "exited")
    BY <1>3 DEF Attach, AttachFails, CheckMapsFails, Exits, Typed
  <2> QED
    BY <1>1, <2>1 DEF AddsUp, ShownIs, Fields, records
<1>4. CASE AttachDone
  <2>1. reader' = From(0) /\ reader.first
    BY <1>4 DEF AttachDone, Reads, AddsUp
  <2>2. reader'.pc \in {"copy", "print"}
    BY <2>1 DEF From, Typed
  <2>3. reader'.first
    BY <2>1 DEF From, Typed
  <2> QED
    BY <2>2, <2>3 DEF AddsUp
<1>5. CASE NextEntry
  BY <1>5 DEF NextEntry, Reads, AddsUp
<1>6. CASE Copy \/ CopyFails
  <2>1. /\ reader.pc = "copy" /\ UNCHANGED <<prev, shown>>
        /\ reader'.pc \in {"copy", "print"} /\ reader'.first = reader.first
    <3>1. CASE Copy
      <4>1. reader.cur \in 0 .. Len(Order[lesson])
        BY <1>1, <3>1 DEF Copy, Reads, Typed
      <4>2. CASE reader' = From(reader.cur)
        BY <3>1, <4>1, <4>2, FromFact DEF Copy, Reads, Collected
      <4>3. CASE reader.cpu < NrCpus - 1
        BY <3>1, <4>3 DEF Copy, Reads, Typed
      <4> QED
        BY <3>1, <4>2, <4>3 DEF Copy
    <3>2. CASE CopyFails
      <4>1. reader.cur \in 0 .. Len(Order[lesson])
        BY <1>1, <3>2 DEF CopyFails, Reads, Typed
      <4> QED
        BY <3>2, <4>1, FromFact DEF CopyFails, Reads, records
    <3> QED
      BY <1>6, <3>1, <3>2
  <2> QED
    BY <1>1, <2>1 DEF AddsUp, ShownIs, Fields
<1>7. CASE PrintStats
  <2>1. reader'.pc = "swap"
    BY <1>7 DEF PrintStats, Typed
  <2>2. ShownIs(rec)'
    BY <1>7, PrintFact
  <2> QED
    BY <2>1, <2>2 DEF AddsUp
<1>8. CASE Swap
  <2>1. prev' = rec /\ shown' = shown /\ ShownIs(rec)
    BY <1>8 DEF Swap, Exchange, Reads, AddsUp
  <2>2. reader'.pc \in {"copy", "print"}
    BY <1>1, <1>8, FromFact DEF Swap
  <2> QED
    BY <1>1, <2>1, <2>2 DEF AddsUp, ShownIs, Fields
<1> QED
  BY <1>2, <1>3, <1>4, <1>5, <1>6, <1>7, <1>8 DEF Next, ReaderStep

\* What tracing02 has shown adds up to its last reading, for any number of CPUs, maps of
\* any size, any bulks, and lookups that fail whenever they like.
THEOREM DifferencesTheorem == Spec => []DifferencesAddUp
<1>1. Init => AddsUp
  <2> SUFFICES ASSUME Init, lesson = "tracing02" PROVE AddsUp
    BY DEF AddsUp
  <2>1. reader.pc = "attach"
    BY DEF Init
  <2>2. reader.first = (lesson = "tracing02")
    BY DEF Init
  <2>3. reader.first
    BY <2>2, Zenon
  <2> QED
    BY <2>1, <2>3 DEF AddsUp
<1>2. AddsUp => DifferencesAddUp
  BY DEF AddsUp, ShownIs, DifferencesAddUp
<1> QED
  BY <1>1, <1>2, TypedInit, TypedStep, AddsUpStep, PTL DEF Spec

-----------------------------------------------------------------------------
(* Sums over the CPUs.  Induction over their numbers is the one on the     *)
(* natural numbers, by the least n that is not in the set.                 *)

\* A set that has 0, and with n also n + 1, has all natural numbers.
LEMMA NatInd ==
  ASSUME NEW T \in SUBSET Nat, 0 \in T, \A n \in T : n + 1 \in T
  PROVE  Nat \subseteq T
<1> SUFFICES ASSUME Nat \ T # {} PROVE FALSE
  OBVIOUS
<1>1. PICK x \in Nat \ T : \A y \in Nat \ T : <<y, x>> \notin OpToRel(<, Nat)
  BY NatLessThanWellFounded, WFMin
<1>2. x # 0 /\ x - 1 \in Nat /\ x - 1 < x /\ x = (x - 1) + 1
  BY SMT
<1>3. x - 1 \in T
  BY <1>1, <1>2 DEF OpToRel
<1> QED
  BY <1>2, <1>3

\* The sums over the CPUs below n, of one field of the records of an entry.
UpTo(values, f) ==
  CHOOSE g : g = [n \in 0 .. NrCpus |-> IF n = 0 THEN 0 ELSE g[n - 1] + values[n - 1][f]]

LEMMA SumFact == \A e, f : Sum(e, f) = UpTo(cell[e], f)[NrCpus]
BY Zenon DEF Sum, UpTo

LEMMA UpToFact ==
  ASSUME NEW values \in [Cpus -> [Field -> Int]], NEW f \in Field
  PROVE  /\ UpTo(values, f)[0] = 0
         /\ \A n \in 1 .. NrCpus : UpTo(values, f)[n] = UpTo(values, f)[n - 1] + values[n - 1][f]
         /\ \A n \in 0 .. NrCpus : UpTo(values, f)[n] \in Int
<1> DEFINE Unfolds(g, n) == g[n] = IF n = 0 THEN 0 ELSE g[n - 1] + values[n - 1][f]
           P(n) == \E g \in [0 .. n -> Int] : \A k \in 0 .. n : Unfolds(g, k)
           N == {n \in Nat : n <= NrCpus => P(n)}
           Eq(g) == g = [n \in 0 .. NrCpus |-> IF n = 0 THEN 0 ELSE g[n - 1] + values[n - 1][f]]
<1>1. NrCpus \in Nat \ {0} /\ \A n \in 1 .. NrCpus : n - 1 \in Cpus /\ values[n - 1][f] \in Int
  <2>1. NrCpus \in Nat \ {0} /\ \A c \in Cpus : values[c][f] \in Int
    BY TracingAssumption DEF TracingAssumption
  <2>2. \A n \in 1 .. NrCpus : n - 1 \in Cpus
    BY <2>1 DEF Cpus
  <2> QED
    BY <2>1, <2>2
<1>2. 0 \in N
  <2> DEFINE g == [n \in 0 .. 0 |-> 0]
  <2>1. g \in [0 .. 0 -> Int] /\ \A k \in 0 .. 0 : Unfolds(g, k)
    OBVIOUS
  <2> QED
    BY <2>1
<1>3. ASSUME NEW n \in N PROVE n + 1 \in N
  <2> SUFFICES ASSUME n + 1 <= NrCpus PROVE P(n + 1)
    OBVIOUS
  <2>0. n <= NrCpus
    BY <1>1
  <2>1. PICK g \in [0 .. n -> Int] : \A k \in 0 .. n : Unfolds(g, k)
    BY <2>0
  <2> DEFINE h == [k \in 0 .. n + 1 |-> IF k = 0 THEN 0 ELSE g[k - 1] + values[k - 1][f]]
  <2>2. \A k \in 1 .. n + 1 : k - 1 \in 0 .. n /\ k \in 1 .. NrCpus
    BY <1>1
  <2>3. h \in [0 .. n + 1 -> Int]
    BY <1>1, <2>2
  <2>4. \A k \in 0 .. n : h[k] = g[k]
    BY <2>1
  <2>5. \A k \in 0 .. n + 1 :
          h[k] = IF k = 0 THEN 0 ELSE g[k - 1] + values[k - 1][f]
    OBVIOUS
  <2> HIDE DEF h
  <2>6. \A k \in 0 .. n + 1 : Unfolds(h, k)
    <3>1. \A k \in 1 .. n + 1 : h[k - 1] = g[k - 1]
      BY <2>2, <2>4
    <3>2. \A k \in 0 .. n + 1 : k = 0 \/ k \in 1 .. n + 1
      BY <1>1
    <3> QED
      BY <2>5, <3>1, <3>2
  <2> HIDE DEF Unfolds
  <2> QED
    BY <2>3, <2>6
<1>4. P(NrCpus)
  <2> HIDE DEF N
  <2>1. N \in SUBSET Nat
    BY DEF N
  <2>2. Nat \subseteq N
    BY <1>2, <1>3, <2>1, NatInd
  <2>3. NrCpus \in N
    BY <1>1, <2>2
  <2> HIDE DEF P
  <2> QED
    BY <1>1, <2>3 DEF N
<1>5. \E g \in [0 .. NrCpus -> Int] : Eq(g)
  BY <1>4
<1>6. Eq(UpTo(values, f))
  <2> HIDE DEF Eq
  <2>1. UpTo(values, f) = CHOOSE g : Eq(g)
    BY Zenon DEF UpTo, Eq
  <2> QED
    BY <1>5, <2>1, Zenon
<1> DEFINE u == UpTo(values, f)
<1> HIDE DEF u
<1>7. \A n \in 0 .. NrCpus : u[n] = IF n = 0 THEN 0 ELSE u[n - 1] + values[n - 1][f]
  BY <1>6 DEF u
<1>8. \A n \in 0 .. NrCpus : u[n] \in Int
  <2> DEFINE T == {n \in Nat : n <= NrCpus => u[n] \in Int}
  <2>1. 0 \in T /\ \A n \in T : n + 1 \in T
    <3>1. u[0] = 0
      BY <1>1, <1>7
    <3>2. ASSUME NEW n \in T PROVE n + 1 \in T
      <4> SUFFICES ASSUME n + 1 <= NrCpus PROVE u[n + 1] \in Int
        OBVIOUS
      <4> DEFINE m == n + 1
      <4>1. m \in 1 .. NrCpus /\ m \in 0 .. NrCpus /\ m # 0 /\ u[m - 1] \in Int
        BY <1>1
      <4> HIDE DEF m
      <4>2. u[m] = u[m - 1] + values[m - 1][f] /\ values[m - 1][f] \in Int
        BY <1>1, <1>7, <4>1
      <4>3. u[m] \in Int
        BY <4>1, <4>2
      <4> QED
        BY <4>3 DEF m
    <3> QED
      BY <3>1, <3>2
  <2>2. T \in SUBSET Nat
    OBVIOUS
  <2> HIDE DEF T
  <2>3. Nat \subseteq T
    BY <2>1, <2>2, NatInd
  <2> QED
    BY <1>1, <2>3 DEF T
<1> QED
  BY <1>1, <1>7, <1>8 DEF u

\* When one CPU's record grows by d, the sums over it grow by d, and the others stay.
LEMMA UpToChange ==
  ASSUME NEW values \in [Cpus -> [Field -> Int]], NEW other \in [Cpus -> [Field -> Int]],
         NEW f \in Field, NEW c \in Cpus, NEW d \in Int,
         \A k \in Cpus \ {c} : other[k][f] = values[k][f], other[c][f] = values[c][f] + d
  PROVE  \A n \in 0 .. NrCpus :
           UpTo(other, f)[n] = UpTo(values, f)[n] + (IF c < n THEN d ELSE 0)
<1> DEFINE u == UpTo(values, f)
           v == UpTo(other, f)
           T == {n \in Nat : n <= NrCpus => v[n] = u[n] + (IF c < n THEN d ELSE 0)}
<1>1. /\ u[0] = 0 /\ v[0] = 0
      /\ \A n \in 1 .. NrCpus : u[n] = u[n - 1] + values[n - 1][f]
      /\ \A n \in 1 .. NrCpus : v[n] = v[n - 1] + other[n - 1][f]
      /\ \A n \in 0 .. NrCpus : u[n] \in Int /\ v[n] \in Int
  BY UpToFact
<1> HIDE DEF u, v
<1>2. c \in Nat /\ NrCpus \in Nat \ {0}
  BY TracingAssumption DEF TracingAssumption, Cpus
<1>3. 0 \in T
  BY <1>1, <1>2
<1>4. ASSUME NEW n \in T, n + 1 <= NrCpus
      PROVE  v[n + 1] = u[n + 1] + (IF c < n + 1 THEN d ELSE 0)
  <2>1. n \in Cpus /\ n + 1 \in 1 .. NrCpus /\ (n + 1) - 1 = n /\ n \in 0 .. NrCpus
    BY <1>2, <1>4 DEF Cpus
  <2>2. /\ u[n + 1] = u[n] + values[n][f] /\ v[n + 1] = v[n] + other[n][f]
        /\ u[n] \in Int /\ v[n] \in Int
    BY <1>1, <2>1
  <2>3. v[n] = u[n] + (IF c < n THEN d ELSE 0)
    BY <1>2, <1>4
  <2>4. values[n][f] \in Int
    BY <2>1
  <2>5. CASE n = c
    BY <1>2, <2>2, <2>3, <2>4, <2>5
  <2>6. CASE n # c
    <3>1. other[n][f] = values[n][f]
      BY <2>1, <2>6
    <3> QED
      BY <1>2, <2>1, <2>2, <2>3, <2>4, <2>6, <3>1
  <2> QED
    BY <2>5, <2>6
<1>5. T \in SUBSET Nat /\ \A n \in T : n + 1 \in T
  BY <1>4
<1>6. Nat \subseteq T
  <2> HIDE DEF T
  <2> QED
    BY <1>3, <1>5, NatInd
<1> QED
  BY <1>2, <1>6 DEF u, v

LEMMA UpToZero ==
  ASSUME NEW values \in [Cpus -> [Field -> Int]], NEW f \in Field,
         \A c \in Cpus : values[c][f] = 0
  PROVE  UpTo(values, f)[NrCpus] = 0
<1> DEFINE u == UpTo(values, f)
           T == {n \in Nat : n <= NrCpus => u[n] = 0}
<1>1. /\ u[0] = 0
      /\ \A n \in 1 .. NrCpus : u[n] = u[n - 1] + values[n - 1][f]
  BY UpToFact
<1> HIDE DEF u
<1>2. NrCpus \in Nat \ {0} /\ \A n \in 1 .. NrCpus : n - 1 \in Cpus
  BY TracingAssumption DEF TracingAssumption, Cpus
<1>3. ASSUME NEW n \in T PROVE n + 1 \in T
  <2>1. n + 1 <= NrCpus => n + 1 \in 1 .. NrCpus /\ n <= NrCpus /\ (n + 1) - 1 = n /\ n \in Cpus
    BY <1>2 DEF Cpus
  <2> QED
    BY <1>1, <2>1
<1>4. T \in SUBSET Nat /\ 0 \in T
  BY <1>1
<1>5. Nat \subseteq T
  <2> HIDE DEF T
  <2> QED
    BY <1>3, <1>4, NatInd
<1> QED
  BY <1>2, <1>5 DEF u

-----------------------------------------------------------------------------
(* The readings: not ahead of the map, and never back.                     *)

Counted(e) == UpTo(cell[e], "processed")
Known(e) == IF rec[e]["processed"] > prev[e]["processed"] THEN rec[e]["processed"]
                                                          ELSE prev[e]["processed"]

\* What the CPUs have that the reading of an entry has not come to yet.
Rest == Counted(Current)[NrCpus] - Counted(Current)[reader.cpu]

\* The reading of the current entry has no more than the CPUs had that it has come to, and
\* with the others at least what is known.
Between ==
  /\ reader.sum["processed"] <= Counted(Current)[reader.cpu]
  /\ Known(Current) <= reader.sum["processed"] + Rest

\* No program adds a negative number of packets, no record is ahead of the map, and the
\* reading that goes on is in between.
Bounded ==
  lesson = "tracing02" =>
    /\ \A c \in Cpus : Running(c) => running[c].add["processed"] \in Nat
    /\ \A e \in Entries : Counted(e)[NrCpus] \in Nat /\ Known(e) <= Counted(e)[NrCpus]
    /\ reader.pc = "copy" => Between

\* The entries that this reading has come past are newer than the last one's, or failed.
Fresh ==
  lesson = "tracing02" =>
    /\ reader.pc = "copy" => reader.cur = reader.at + 1
    /\ reader.pc = "print" => reader.at = Len(Order[lesson])
    /\ reader.pc # "next"
    /\ reader.pc = "attach" => reader.first
    /\ reader.pc \in {"copy", "print"} /\ ~reader.first =>
         \A i \in 1 .. reader.at :
           Order[lesson][i] \in reader.failed
             \/ prev[Order[lesson][i]]["processed"] <= rec[Order[lesson][i]]["processed"]

LEMMA RangeFact ==
  ASSUME Typed
  PROVE  /\ 0 \in 0 .. NrCpus /\ NrCpus \in 0 .. NrCpus /\ NrCpus \in Nat \ {0}
         /\ Cpus \subseteq 0 .. NrCpus /\ Cpus \subseteq Nat
         /\ "processed" \in Field /\ lesson \in Lesson
         /\ \A e \in Entries : /\ cell[e] \in [Cpus -> [Field -> Int]]
                               /\ rec[e]["processed"] \in Int /\ prev[e]["processed"] \in Int
                               /\ Known(e) \in Int
                               /\ \A n \in 0 .. NrCpus : Counted(e)[n] \in Int
         /\ reader.pc = "copy" => Current \in Entries
<1>1. /\ NrCpus \in Nat \ {0} /\ "processed" \in Field /\ lesson \in Lesson
  BY AddFact, TracingAssumption DEF TracingAssumption, Typed, TypeOK
<1>2. \A e \in Entries : /\ cell[e] \in [Cpus -> [Field -> Int]]
                         /\ rec[e]["processed"] \in Int /\ prev[e]["processed"] \in Int
  BY <1>1 DEF Typed, TypeOK, Records
<1>3. \A e \in Entries : \A n \in 0 .. NrCpus : Counted(e)[n] \in Int
  BY <1>1, <1>2, UpToFact DEF Counted
<1>4. reader.pc = "copy" => Current \in Entries
  BY <1>1, OrderFact DEF Typed, Current
<1>5. \A e \in Entries : Known(e) \in Int
  BY <1>2 DEF Known
<1>6. Cpus \subseteq 0 .. NrCpus /\ Cpus \subseteq Nat /\ 0 \in 0 .. NrCpus /\ NrCpus \in 0 .. NrCpus
  BY <1>1 DEF Cpus
<1> QED
  BY <1>1, <1>2, <1>3, <1>4, <1>5, <1>6

\* What tracing02's programs add to the first field is not negative.
LEMMA AddsFact ==
  ASSUME lesson = "tracing02", NEW t \in 1 .. Len(Tracepoints[lesson]),
         NEW u \in Updates(Tracepoints[lesson][t])
  PROVE  u.add["processed"] \in Nat
<1> DEFINE tp == Tracepoints[lesson][t]
<1>1. tp \in {"xdp_redirect_err", "xdp_redirect_map_err", "xdp_redirect", "xdp_redirect_map",
              "xdp_exception", "xdp_cpumap_enqueue", "xdp_cpumap_kthread", "xdp_devmap_xmit"}
  BY DEF Tracepoints, Lesson
<1>2. u \in Updates(tp) /\ lesson # "tracing01"
  OBVIOUS
<1> HIDE DEF tp
<1>3. One["processed"] \in Nat
  BY ZeroFact DEF Field
<1>4. CASE tp \in {"xdp_redirect_err", "xdp_redirect_map_err", "xdp_redirect",
                   "xdp_redirect_map"}
  <2>1. u = xdp_redirect_collect_stat(TRUE) \/ u = xdp_redirect_collect_stat(FALSE)
    BY <1>2, <1>4 DEF Updates
  <2> QED
    BY <1>3, <2>1 DEF xdp_redirect_collect_stat, If
<1>5. CASE tp = "xdp_exception"
  <2>1. PICK act \in XDP_ABORTED .. XDP_UNKNOWN + 1 : u = trace_xdp_exception(act)
    BY <1>2, <1>5 DEF Updates
  <2> QED
    BY <1>3, <2>1 DEF trace_xdp_exception
<1>6. CASE tp = "xdp_cpumap_enqueue"
  <2>1. PICK b \in Bulks : u.add = Add(b.processed, b.drops, If(b.processed > 0), 0)
    BY <1>2, <1>6 DEF Updates, trace_xdp_cpumap_enqueue
  <2> QED
    BY <2>1, TracingAssumption DEF TracingAssumption, Add
<1>7. CASE tp = "xdp_cpumap_kthread"
  <2>1. PICK b \in Bulks : u.add = Add(b.processed, b.drops, If(b.sched), 0)
    BY <1>2, <1>7 DEF Updates, trace_xdp_cpumap_kthread
  <2> QED
    BY <2>1, TracingAssumption DEF TracingAssumption, Add
<1>8. CASE tp = "xdp_devmap_xmit"
  <2>1. PICK x \in Xmits : u.add = Add(x.sent, x.drops, 1, If(x.err) + If(x.drops < 0))
    BY <1>2, <1>8 DEF Updates, trace_xdp_devmap_xmit
  <2> QED
    BY <2>1, TracingAssumption DEF TracingAssumption, Add
<1> QED
  BY <1>1, <1>4, <1>5, <1>6, <1>7, <1>8

\* A step of a program adds to the record of its CPU, if it adds to any.
LEMMA KernelAdds ==
  ASSUME Typed, Inv, Bounded, lesson = "tracing02", NEW c \in Cpus, KernelStep(c)
  PROVE  \/ cell' = cell
         \/ \E e \in Entries, d \in Nat :
              /\ \A x \in Entries \ {e} : cell'[x] = cell[x]
              /\ \A k \in Cpus \ {c} : cell'[e][k] = cell[e][k]
              /\ cell'[e][c]["processed"] = cell[e][c]["processed"] + d
<1>1. CASE Lookup(c)
  BY <1>1 DEF Lookup
<1>2. CASE Store(c)
  <2> DEFINE e == running[c].entry
  <2>1. PICK f \in running[c].left :
          /\ running[c].found
          /\ cell' = [cell EXCEPT ![e][c][f] = Wrap(running[c].seen[f] + running[c].add[f])]
    BY <1>2 DEF Store, Own
  <2>2. Running(c) /\ LoadedAt(c) /\ running[c].left \subseteq Field
    BY <2>1 DEF Inv, Running
  <2>3. e \in Entries /\ f \in Field /\ running[c].add["processed"] \in Nat
    BY <2>1, <2>2 DEF Typed, TypeOK, Bounded
  <2>4. cell \in [Entries -> [Cpus -> [Field -> Int]]] /\ "processed" \in Field
    BY AddFact DEF Typed, TypeOK
  <2>5. running[c].seen[f] = cell[e][c][f]
    BY <2>1, <2>2, <2>3 DEF LoadedAt
  <2>6. cell' = [cell EXCEPT ![e][c][f] = cell[e][c][f] + running[c].add[f]]
    BY <2>1, <2>5 DEF Wrap
  <2> HIDE DEF e
  <2>7. /\ \A x \in Entries \ {e} : cell'[x] = cell[x]
        /\ \A k \in Cpus \ {c} : cell'[e][k] = cell[e][k]
    BY <2>3, <2>4, <2>6
  <2>8. CASE f = "processed"
    <3>1. cell'[e][c]["processed"] = cell[e][c]["processed"] + running[c].add["processed"]
      BY <2>3, <2>4, <2>6, <2>8
    <3> QED
      BY <2>3, <2>7, <3>1
  <2>9. CASE f # "processed"
    <3>1. cell'[e][c]["processed"] = cell[e][c]["processed"] + 0
      BY <2>3, <2>4, <2>6, <2>9
    <3> QED
      BY <2>3, <2>7, <3>1
  <2> QED
    BY <2>8, <2>9
<1>3. CASE Create(c)
  <2> DEFINE e == running[c].entry
  <2>1. Running(c) /\ LoadedAt(c) /\ ~running[c].found /\ e \in Entries
    BY <1>3 DEF Create, Inv, Typed, TypeOK
  <2>2. cell[e][c]["processed"] = 0 /\ "processed" \in Field
    BY <2>1, AddFact DEF LoadedAt
  <2>3. cell \in [Entries -> [Cpus -> [Field -> Int]]]
    BY DEF Typed, TypeOK
  <2>4. cell' = cell \/ cell' = [cell EXCEPT ![e] = [cell[e] EXCEPT ![c] = One]]
    BY <1>3 DEF Create, UpdateElem
  <2> HIDE DEF e
  <2>5. CASE cell' = [cell EXCEPT ![e] = [cell[e] EXCEPT ![c] = One]]
    <3>1. /\ \A x \in Entries \ {e} : cell'[x] = cell[x]
          /\ \A k \in Cpus \ {c} : cell'[e][k] = cell[e][k]
          /\ cell'[e][c] = One
      BY <2>1, <2>3, <2>5
    <3>2. cell'[e][c]["processed"] = cell[e][c]["processed"] + 1
      BY <2>2, <3>1, ZeroFact
    <3> QED
      BY <2>1, <3>1, <3>2
  <2> QED
    BY <2>4, <2>5
<1> QED
  BY <1>1, <1>2, <1>3 DEF KernelStep

\* So every sum grows, and what the CPUs have past some n does not shrink.
LEMMA KernelGrows ==
  ASSUME Typed, Typed', Inv, Bounded, lesson = "tracing02", NEW c \in Cpus, KernelStep(c),
         NEW x \in Entries, NEW n \in 0 .. NrCpus
  PROVE  /\ Counted(x)[n] <= Counted(x)'[n]
         /\ Counted(x)[NrCpus] - Counted(x)[n] <= Counted(x)'[NrCpus] - Counted(x)'[n]
         /\ Counted(x)'[n] \in Int
<1>1. lesson' = lesson /\ Entries' = Entries
  BY DEF KernelStep, Lookup, Store, Create, Tracepoint, Entries
<1>2. /\ cell[x] \in [Cpus -> [Field -> Int]] /\ cell'[x] \in [Cpus -> [Field -> Int]]
      /\ "processed" \in Field /\ NrCpus \in 0 .. NrCpus /\ Cpus \subseteq Nat
      /\ c < NrCpus /\ NrCpus \in Nat
  <2>1. cell'[x] \in [Cpus -> [Field -> Int]]
    BY <1>1 DEF Typed, TypeOK
  <2>2. c < NrCpus
    BY RangeFact DEF Cpus
  <2> QED
    BY <2>1, <2>2, RangeFact
<1>3. Counted(x)[n] \in Int /\ Counted(x)[NrCpus] \in Int
  BY <1>2, RangeFact
<1>4. CASE cell' [x] = cell[x]
  BY <1>3, <1>4 DEF Counted
<1>5. CASE cell'[x] # cell[x]
  <2>1. PICK d \in Nat :
          /\ \A k \in Cpus \ {c} : cell'[x][k] = cell[x][k]
          /\ cell'[x][c]["processed"] = cell[x][c]["processed"] + d
    BY <1>5, KernelAdds
  <2>2. \A m \in 0 .. NrCpus :
          UpTo(cell'[x], "processed")[m]
            = UpTo(cell[x], "processed")[m] + (IF c < m THEN d ELSE 0)
    <3> DEFINE values == cell[x]
               other == cell'[x]
    <3>1. /\ values \in [Cpus -> [Field -> Int]] /\ other \in [Cpus -> [Field -> Int]]
          /\ \A k \in Cpus \ {c} : other[k]["processed"] = values[k]["processed"]
          /\ other[c]["processed"] = values[c]["processed"] + d
          /\ d \in Int
      BY <1>2, <2>1
    <3> HIDE DEF values, other
    <3>2. \A m \in 0 .. NrCpus :
            UpTo(other, "processed")[m]
              = UpTo(values, "processed")[m] + (IF c < m THEN d ELSE 0)
      <4>1. "processed" \in Field
        BY <1>2
      <4> QED
        BY <3>1, <4>1, UpToChange, ZenonT(30)
    <3> QED
      BY <3>2 DEF values, other
  <2>3. /\ Counted(x)'[n] = Counted(x)[n] + (IF c < n THEN d ELSE 0)
        /\ Counted(x)'[NrCpus] = Counted(x)[NrCpus] + d
    BY <1>2, <2>2 DEF Counted
  <2> QED
    BY <1>2, <1>3, <2>3
<1> QED
  BY <1>4, <1>5

LEMMA BoundedInit == Init => Bounded
<1> SUFFICES ASSUME Init, lesson = "tracing02" PROVE Bounded
  BY DEF Bounded
<1>1. \A c \in Cpus : ~Running(c)
  BY DEF Init, Running, NotRunning
<1>2. Typed /\ "processed" \in Field
  BY TypedInit, AddFact
<1>3. ASSUME NEW e \in Entries
      PROVE  Counted(e)[NrCpus] = 0 /\ Known(e) = 0
  <2>1. cell[e] \in [Cpus -> [Field -> Int]] /\ cell[e] = [c \in Cpus |-> Zero]
    BY <1>2, RangeFact DEF Init
  <2>2. \A c \in Cpus : cell[e][c]["processed"] = 0
    BY <1>2, <2>1, ZeroFact
  <2>3. Counted(e)[NrCpus] = 0
    BY <1>2, <2>1, <2>2, UpToZero DEF Counted
  <2>4. rec[e]["processed"] = 0 /\ prev[e]["processed"] = 0
    BY <1>2, ZeroFact DEF Init
  <2> QED
    BY <2>3, <2>4 DEF Known
<1>4. reader.pc = "attach"
  BY DEF Init
<1> QED
  BY <1>1, <1>3, <1>4 DEF Bounded

LEMMA BoundedKernel ==
  ASSUME Typed, Typed', Inv, Bounded, lesson = "tracing02", NEW c \in Cpus, KernelStep(c)
  PROVE  Bounded'
<1>1. UNCHANGED <<lesson, reader, rec, prev>> /\ Entries' = Entries /\ Current' = Current
  BY DEF KernelStep, Lookup, Store, Create, Tracepoint, Entries, records, Current
<1>2. ASSUME NEW d \in Cpus, Running(d)'
      PROVE  running'[d].add["processed"] \in Nat
  <2>1. CASE Lookup(c)
    <3>1. PICK t \in 1 .. attached : \E u \in Updates(Tracepoints[lesson][t]) :
            running' = [running EXCEPT ![c] =
              [entry |-> u.entry, add |-> u.add, found |-> u.entry \in present,
               seen |-> cell[u.entry][Own(c)],
               left |-> {f \in Fields(u.entry) : u.add[f] # 0}]]
      BY <2>1 DEF Lookup
    <3>2. PICK u \in Updates(Tracepoints[lesson][t]) :
            running' = [running EXCEPT ![c] =
              [entry |-> u.entry, add |-> u.add, found |-> u.entry \in present,
               seen |-> cell[u.entry][Own(c)],
               left |-> {f \in Fields(u.entry) : u.add[f] # 0}]]
      BY <3>1
    <3>3. DOMAIN running = Cpus
      BY DEF Typed
    <3>4. running'[d] = running[d] \/ running'[d].add = u.add
      BY <3>2, <3>3
    <3>5. running'[d] = running[d] => Running(d)
      BY <1>2 DEF Running
    <3>6. t \in 1 .. Len(Tracepoints[lesson])
      BY <3>1 DEF Typed, TypeOK, Tracepoints, Lesson
    <3>7. u.add["processed"] \in Nat
      BY <3>6, AddsFact
    <3> QED
      BY <3>4, <3>5, <3>7 DEF Bounded
  <2>2. CASE Store(c)
    <3>1. /\ running'[d] = running[d] \/ running'[d] = NotRunning
             \/ (d = c /\ running'[d].add = running[d].add)
          /\ Running(c)
      BY <2>2 DEF Store, Typed, Running
    <3>2. running'[d] # NotRunning
      BY <1>2 DEF Running, NotRunning
    <3>3. running'[d] = running[d] => Running(d)
      BY <1>2 DEF Running
    <3> QED
      BY <3>1, <3>2, <3>3 DEF Bounded
  <2>3. CASE Create(c)
    <3>1. running'[d] = running[d] \/ running'[d] = NotRunning
      BY <2>3 DEF Create, Typed
    <3>2. running'[d] # NotRunning
      BY <1>2 DEF Running, NotRunning
    <3> QED
      BY <1>2, <3>1, <3>2 DEF Bounded, Running
  <2> QED
    BY <2>1, <2>2, <2>3 DEF KernelStep
<1>3. NrCpus \in 0 .. NrCpus /\ Cpus \subseteq 0 .. NrCpus
  BY RangeFact
<1>4. ASSUME NEW e \in Entries
      PROVE  /\ Counted(e)'[NrCpus] \in Nat /\ Known(e)' = Known(e)
             /\ Known(e)' <= Counted(e)'[NrCpus]
  <2>1. Counted(e)[NrCpus] <= Counted(e)'[NrCpus] /\ Counted(e)'[NrCpus] \in Int
    BY <1>3, KernelGrows
  <2>2. Known(e)' = Known(e) /\ Known(e) \in Int
    BY <1>1, RangeFact DEF Known
  <2> QED
    BY <2>1, <2>2 DEF Bounded
<1>5. ASSUME reader.pc = "copy"
      PROVE  Between'
  <2>1. Current \in Entries /\ reader.cpu \in Cpus /\ reader.sum["processed"] \in Int
    BY <1>5, RangeFact DEF Typed, TypeOK
  <2>2. /\ Counted(Current)[reader.cpu] <= Counted(Current)'[reader.cpu]
        /\ Counted(Current)[NrCpus] - Counted(Current)[reader.cpu]
             <= Counted(Current)'[NrCpus] - Counted(Current)'[reader.cpu]
        /\ Counted(Current)'[reader.cpu] \in Int /\ Counted(Current)'[NrCpus] \in Int
    <3> DEFINE x == Current
    <3>1. x \in Entries /\ x' = x /\ reader.cpu \in 0 .. NrCpus
      BY <1>1, <1>3, <2>1
    <3>2. /\ UpTo(cell[x], "processed")[reader.cpu] <= UpTo(cell'[x], "processed")[reader.cpu]
          /\ UpTo(cell[x], "processed")[NrCpus] - UpTo(cell[x], "processed")[reader.cpu]
               <= UpTo(cell'[x], "processed")[NrCpus] - UpTo(cell'[x], "processed")[reader.cpu]
          /\ UpTo(cell'[x], "processed")[reader.cpu] \in Int
          /\ UpTo(cell'[x], "processed")[NrCpus] \in Int
      <4> HIDE DEF x
      <4> QED
        BY <1>3, <3>1, KernelGrows DEF Counted
    <3> QED
      BY <3>1, <3>2 DEF Counted
  <2>3. Known(Current)' = Known(Current) /\ Known(Current) \in Int
    BY <1>1, <2>1, RangeFact DEF Known
  <2>4. /\ Counted(Current)[reader.cpu] \in Int /\ Counted(Current)[NrCpus] \in Int
    BY <1>3, <2>1, RangeFact
  <2>5. Between
    BY <1>5 DEF Bounded
  <2> QED
    BY <1>1, <2>1, <2>2, <2>3, <2>4, <2>5 DEF Between, Rest
<1> QED
  BY <1>1, <1>2, <1>4, <1>5 DEF Bounded

\* A reading of an entry starts with no CPU.
LEMMA Starts ==
  ASSUME Typed, Typed', lesson = "tracing02", UNCHANGED <<lesson, cell>>,
         reader'.pc = "copy", reader'.cpu = 0, reader'.sum = Zero,
         \A e \in Entries : Known(e)' <= Counted(e)[NrCpus]
  PROVE  Between'
<1>1. /\ Entries' = Entries /\ lesson \in Lesson /\ Current' \in Entries
      /\ Zero["processed"] = 0 /\ NrCpus \in Nat /\ "processed" \in Field
  <2>1. reader'.cur \in 1 .. Len(Order[lesson]) /\ lesson \in Lesson /\ Entries' = Entries
    BY DEF Typed, TypeOK, Entries
  <2> QED
    BY <2>1, OrderFact, ZeroFact, RangeFact DEF Current, Field
<1>2. PICK x \in Entries : x = Current'
  BY <1>1
<1>3. /\ Counted(Current)' = UpTo(cell[x], "processed") /\ Known(Current)' = Known(x)'
      /\ cell[x] \in [Cpus -> [Field -> Int]] /\ Counted(x) = UpTo(cell[x], "processed")
  BY <1>2, RangeFact DEF Counted, Known
<1>4. /\ UpTo(cell[x], "processed")[0] = 0 /\ UpTo(cell[x], "processed")[NrCpus] \in Int
  <2>1. NrCpus \in 0 .. NrCpus
    BY RangeFact
  <2> QED
    BY <1>1, <1>3, <2>1, UpToFact
<1>5. Known(x)' <= Counted(x)[NrCpus]
  BY <1>2
<1>6. Known(x)' \in Int
  <2>1. rec'[x]["processed"] \in Int /\ prev'[x]["processed"] \in Int
    BY <1>1 DEF Typed, TypeOK, Records
  <2> QED
    BY <2>1 DEF Known
<1> QED
  BY <1>1, <1>3, <1>4, <1>5, <1>6 DEF Between, Rest

\* A copy: one more CPU, or the last one, and the record gets the sum.
LEMMA CopyAdds ==
  ASSUME Typed, Bounded, lesson = "tracing02", Copy
  PROVE  LET sum == [f \in Field |-> reader.sum[f] + cell[Current][reader.cpu][f]] IN
         /\ sum["processed"] \in Int /\ Current \in Entries
         /\ reader.cpu \in Nat /\ reader.cpu + 1 \in 0 .. NrCpus
         /\ sum["processed"] <= Counted(Current)[reader.cpu + 1]
         /\ Known(Current)
              <= sum["processed"] + (Counted(Current)[NrCpus] - Counted(Current)[reader.cpu + 1])
<1> DEFINE e == Current
           n == reader.cpu
<1>1. /\ e \in Entries /\ n \in Cpus /\ reader.sum["processed"] \in Int
      /\ cell[e] \in [Cpus -> [Field -> Int]] /\ "processed" \in Field
      /\ Known(e) \in Int /\ NrCpus \in Nat \ {0}
      /\ Between
  BY RangeFact DEF Copy, Reads, Typed, TypeOK, Bounded
<1>2. n \in Nat /\ n + 1 \in 1 .. NrCpus /\ n \in 0 .. NrCpus /\ (n + 1) - 1 = n
      /\ NrCpus \in 0 .. NrCpus
  BY <1>1 DEF Cpus
<1>3. /\ Counted(e)[n] \in Int /\ Counted(e)[NrCpus] \in Int
      /\ cell[e][n]["processed"] \in Int
  BY <1>1, <1>2, RangeFact
<1>4. Counted(e)[n + 1] = Counted(e)[n] + cell[e][n]["processed"]
  <2> DEFINE values == cell[e]
             m == n + 1
  <2>1. values \in [Cpus -> [Field -> Int]] /\ m \in 1 .. NrCpus /\ m - 1 = n
    BY <1>1, <1>2
  <2> HIDE DEF values, m
  <2>2. UpTo(values, "processed")[m]
          = UpTo(values, "processed")[m - 1] + values[m - 1]["processed"]
    BY <1>1, <2>1, UpToFact
  <2> QED
    BY <2>1, <2>2 DEF Counted, values, m
<1>5. /\ reader.sum["processed"] <= Counted(e)[n]
      /\ Known(e) <= reader.sum["processed"] + (Counted(e)[NrCpus] - Counted(e)[n])
  BY <1>1 DEF Between, Rest
<1> HIDE DEF e, n
<1>6. /\ reader.sum["processed"] + cell[e][n]["processed"] \in Int
      /\ reader.sum["processed"] + cell[e][n]["processed"] <= Counted(e)[n + 1]
      /\ Known(e) <= (reader.sum["processed"] + cell[e][n]["processed"])
                        + (Counted(e)[NrCpus] - Counted(e)[n + 1])
  BY <1>1, <1>3, <1>4, <1>5
<1> QED
  BY <1>1, <1>2, <1>6 DEF e, n

\* The last copy of an entry: the record is at least the older one, and not ahead.
LEMMA CopyEnds ==
  ASSUME Typed, Bounded, lesson = "tracing02", Copy, ~(reader.cpu < NrCpus - 1)
  PROVE  /\ Current \in Entries /\ prev' = prev
         /\ \A e \in Entries \ {Current} : rec'[e] = rec[e]
         /\ rec'[Current]["processed"] \in Int
         /\ rec'[Current]["processed"] <= Counted(Current)[NrCpus]
         /\ Known(Current) <= rec'[Current]["processed"]
         /\ prev[Current]["processed"] <= rec'[Current]["processed"]
<1> DEFINE sum == [f \in Field |-> reader.sum[f] + cell[Current][reader.cpu][f]]
<1>1. rec' = [rec EXCEPT ![Current] = sum] /\ prev' = prev
  BY DEF Copy, Collected
<1>2. /\ sum["processed"] \in Int /\ Current \in Entries
      /\ reader.cpu \in Nat /\ reader.cpu + 1 \in 0 .. NrCpus
      /\ sum["processed"] <= Counted(Current)[reader.cpu + 1]
      /\ Known(Current)
           <= sum["processed"] + (Counted(Current)[NrCpus] - Counted(Current)[reader.cpu + 1])
  BY CopyAdds
<1> HIDE DEF sum
<1>3. reader.cpu + 1 = NrCpus
  <2>1. NrCpus \in Nat
    BY RangeFact
  <2> QED
    BY <1>2, <2>1
<1>4. /\ rec[Current]["processed"] \in Int /\ prev[Current]["processed"] \in Int
      /\ Counted(Current)[NrCpus] \in Int /\ Known(Current) \in Int
  BY <1>2, RangeFact
<1>5. sum["processed"] <= Counted(Current)[NrCpus] /\ Known(Current) <= sum["processed"]
  BY <1>2, <1>3, <1>4
<1>6. prev[Current]["processed"] <= Known(Current)
  BY <1>4 DEF Known
<1>7. DOMAIN rec = Entries
  BY DEF Typed, TypeOK, Records
<1>8. rec'[Current] = sum /\ \A e \in Entries \ {Current} : rec'[e] = rec[e]
  BY <1>1, <1>2, <1>7
<1> QED
  BY <1>1, <1>2, <1>4, <1>5, <1>6, <1>8

\* Whatever the reader does, what is known of an entry does not go back and is not ahead.
LEMMA ReaderKnown ==
  ASSUME Typed, Bounded, Fresh, lesson = "tracing02", ReaderStep
  PROVE  \A e \in Entries : /\ Known(e)' \in Int /\ Known(e) <= Known(e)'
                            /\ Known(e)' <= Counted(e)[NrCpus]
<1>1. \A e \in Entries : /\ rec[e]["processed"] \in Int /\ prev[e]["processed"] \in Int
                         /\ Known(e) \in Int /\ Known(e) <= Counted(e)[NrCpus]
                         /\ Counted(e)[NrCpus] \in Int
  BY RangeFact DEF Bounded
<1>2. CASE UNCHANGED <<rec, prev>>
  BY <1>1, <1>2 DEF Known
<1>3. CASE Swap
  <2>1. rec' = prev /\ prev' = rec
    BY <1>3 DEF Swap, Exchange
  <2> QED
    BY <1>1, <2>1 DEF Known
<1>4. CASE Copy /\ ~(reader.cpu < NrCpus - 1)
  <2>1. /\ Current \in Entries /\ prev' = prev
        /\ \A e \in Entries \ {Current} : rec'[e] = rec[e]
        /\ rec'[Current]["processed"] \in Int
        /\ rec'[Current]["processed"] <= Counted(Current)[NrCpus]
        /\ Known(Current) <= rec'[Current]["processed"]
        /\ prev[Current]["processed"] <= rec'[Current]["processed"]
    BY <1>4, CopyEnds
  <2>2. ASSUME NEW e \in Entries
        PROVE  /\ Known(e)' \in Int /\ Known(e) <= Known(e)'
               /\ Known(e)' <= Counted(e)[NrCpus]
    <3>1. CASE e = Current
      <4>1. Known(e)' = rec'[e]["processed"]
        BY <1>1, <2>1, <3>1 DEF Known
      <4> QED
        BY <2>1, <3>1, <4>1
    <3>2. CASE e # Current
      <4>1. Known(e)' = Known(e)
        BY <2>1, <3>2 DEF Known
      <4> QED
        BY <1>1, <4>1
    <3> QED
      BY <3>1, <3>2
  <2> QED
    BY <2>2
<1>5. Swap \/ UNCHANGED <<rec, prev>> \/ (Copy /\ ~(reader.cpu < NrCpus - 1))
  <2>1. CASE Copy
    BY <2>1 DEF Copy
  <2>2. CASE Attach \/ AttachFails \/ AttachDone \/ CheckMapsFails \/ NextEntry \/ CopyFails
    BY <2>2 DEF Attach, AttachFails, AttachDone, CheckMapsFails, Exits, NextEntry, CopyFails,
                records
  <2>3. CASE PrintStats
    BY <2>3 DEF PrintStats
  <2> QED
    BY <2>1, <2>2, <2>3 DEF ReaderStep
<1> QED
  BY <1>2, <1>3, <1>4, <1>5

LEMMA BoundedReader ==
  ASSUME Typed, Typed', Bounded, Fresh, lesson = "tracing02", ReaderStep
  PROVE  Bounded'
<1>1. /\ UNCHANGED <<lesson, cell, running>> /\ Entries' = Entries
  BY DEF ReaderStep, Attach, AttachFails, AttachDone, CheckMapsFails, Exits, NextEntry, Copy,
         CopyFails, PrintStats, Swap, Reads, kern, Entries
<1>2. \A e \in Entries : Known(e)' <= Counted(e)[NrCpus] /\ Counted(e)' = Counted(e)
  BY <1>1, ReaderKnown DEF Counted
<1>3. ASSUME reader'.pc = "copy", reader'.cpu = 0, reader'.sum = Zero
      PROVE  Between'
  BY <1>1, <1>2, <1>3, Starts
<1>4. ASSUME reader'.pc = "copy" PROVE Between'
  <2>1. \A at \in 0 .. Len(Order[lesson]) : From(at).cpu = 0 /\ From(at).sum = Zero
    BY <1>1, FromFact
  <2>2. CASE Attach \/ AttachFails \/ CheckMapsFails \/ NextEntry \/ PrintStats
    <3>1. reader'.pc # "copy"
      <4>1. CASE Attach
        BY <4>1 DEF Attach, Reads
      <4>2. CASE AttachFails \/ CheckMapsFails
        BY <4>2 DEF AttachFails, CheckMapsFails, Exits, Typed
      <4>3. CASE NextEntry
        BY <4>3 DEF NextEntry, Reads, Fresh
      <4>4. CASE PrintStats
        BY <4>4 DEF PrintStats, Typed
      <4> QED
        BY <2>2, <4>1, <4>2, <4>3, <4>4
    <3> QED
      BY <1>4, <3>1
  <2>3. CASE AttachDone \/ CopyFails \/ Swap
    <3>1. PICK at \in 0 .. Len(Order[lesson]) :
            reader'.cpu = From(at).cpu /\ reader'.sum = From(at).sum
      <4>1. 0 \in 0 .. Len(Order[lesson])
        BY OrderFact DEF Lesson
      <4>2. reader.pc = "copy" => reader.cur \in 0 .. Len(Order[lesson])
        BY OrderFact DEF Typed, Lesson
      <4>3. CASE AttachDone
        BY <4>1, <4>3 DEF AttachDone
      <4>4. CASE CopyFails
        <5>1. reader' = [From(reader.cur)
                  EXCEPT !.failures = @ + 1, !.failed = @ \union {Current}]
          BY <4>4 DEF CopyFails
        <5> QED
          BY <4>2, <4>4, <5>1, FromFact, <1>1 DEF CopyFails, Reads
      <4>5. CASE Swap
        BY <4>1, <4>5, FromFact, <1>1 DEF Swap
      <4> QED
        BY <2>3, <4>3, <4>4, <4>5
    <3> QED
      BY <1>3, <1>4, <2>1, <3>1
  <2>4. CASE Copy /\ ~(reader.cpu < NrCpus - 1)
    <3>1. reader' = From(reader.cur) /\ reader.cur \in 0 .. Len(Order[lesson])
      BY <2>4, OrderFact DEF Copy, Reads, Typed, Lesson
    <3> QED
      BY <1>3, <1>4, <2>1, <3>1
  <2>5. CASE Copy /\ reader.cpu < NrCpus - 1
    <3> DEFINE sum == [f \in Field |-> reader.sum[f] + cell[Current][reader.cpu][f]]
    <3>1. reader' = [reader EXCEPT !.cpu = @ + 1, !.sum = sum] /\ UNCHANGED <<rec, prev>>
      BY <2>5 DEF Copy
    <3>2. /\ sum["processed"] \in Int /\ Current \in Entries
          /\ sum["processed"] <= Counted(Current)[reader.cpu + 1]
          /\ Known(Current)
               <= sum["processed"] + (Counted(Current)[NrCpus] - Counted(Current)[reader.cpu + 1])
      BY <2>5, CopyAdds
    <3>3. reader'.cpu = reader.cpu + 1 /\ reader'.sum = sum /\ reader'.cur = reader.cur
      BY <3>1 DEF Typed
    <3>4. Current' = Current
      BY <1>1, <3>3 DEF Current
    <3>5. Known(Current)' = Known(Current) /\ Counted(Current)' = Counted(Current)
      BY <1>1, <3>1, <3>4 DEF Known, Counted
    <3> HIDE DEF sum
    <3> QED
      BY <3>2, <3>3, <3>5 DEF Between, Rest
  <2> QED
    BY <2>2, <2>3, <2>4, <2>5 DEF ReaderStep
<1> QED
  BY <1>1, <1>2, <1>4 DEF Bounded, Running

\* The step of the entries that are done: the current one is added, newer than it was or
\* failed.
LEMMA FreshReader ==
  ASSUME Typed, Bounded, Fresh, lesson = "tracing02", ReaderStep
  PROVE  Fresh'
<1> DEFINE order == Order[lesson]
           Newer(i) == order[i] \in reader.failed
                         \/ prev[order[i]]["processed"] <= rec[order[i]]["processed"]
<1>1. /\ UNCHANGED lesson /\ Len(order) \in Nat /\ order' = order /\ lesson \in Lesson
      /\ \A i \in 1 .. Len(order) : order[i] \in Entries
  BY OrderFact DEF ReaderStep, Attach, AttachFails, AttachDone, CheckMapsFails, Exits, NextEntry,
         Copy, CopyFails, PrintStats, Swap, Reads, kern, Lesson
<1>2. /\ DOMAIN reader = {"pc", "at", "cur", "cpu", "sum", "first", "failed", "failures"}
      /\ reader.at \in 0 .. Len(order)
      /\ reader.pc = "copy" => reader.cur \in 1 .. Len(order) /\ reader.cur = reader.at + 1
  BY <1>1 DEF Typed, TypeOK, Fresh
\* Where the reader goes on from.
<1>3. ASSUME NEW at \in 0 .. Len(order), reader'.pc = From(at).pc, reader'.at = From(at).at,
             reader'.cur = From(at).cur,
             ~reader'.first => \A i \in 1 .. at : Newer(i)'
      PROVE  Fresh'
  <2>1. /\ From(at).pc \in {"copy", "print"} /\ From(at).at = at /\ From(at).cur = at + 1
    BY <1>1, FromFact
  <2>2. From(at).pc = "print" => at = Len(order)
    BY <1>1, <1>2 DEF From
  <2> QED
    BY <1>1, <1>3, <2>1, <2>2 DEF Fresh
<1>4. CASE Attach
  <2>1. UNCHANGED <<reader, rec, prev>>
    BY <1>4 DEF Attach, records
  <2> QED
    BY <1>1, <2>1 DEF Fresh
<1>5. CASE AttachFails \/ CheckMapsFails
  <2>1. reader'.pc = "exited"
    BY <1>2, <1>5 DEF AttachFails, CheckMapsFails, Exits
  <2> QED
    BY <2>1 DEF Fresh
<1>6. CASE AttachDone
  BY <1>1, <1>3, <1>6 DEF AttachDone
<1>7. CASE NextEntry
  BY <1>7 DEF NextEntry, Reads, Fresh
<1>8. CASE Copy /\ reader.cpu < NrCpus - 1
  <2>1. /\ reader'.pc = reader.pc /\ reader'.at = reader.at /\ reader'.cur = reader.cur
        /\ reader'.first = reader.first /\ reader'.failed = reader.failed
        /\ UNCHANGED <<rec, prev>>
    BY <1>2, <1>8 DEF Copy, Reads
  <2> QED
    BY <1>1, <2>1 DEF Fresh
<1>9. CASE Copy /\ ~(reader.cpu < NrCpus - 1)
  <2>1. /\ reader' = From(reader.cur) /\ reader.pc = "copy" /\ reader.cur \in 0 .. Len(order)
        /\ reader.cur = reader.at + 1
    BY <1>1, <1>2, <1>9 DEF Copy, Reads
  <2>2. reader'.first = reader.first /\ reader'.failed = reader.failed
    BY <1>1, <2>1, FromFact
  <2>3. /\ Current \in Entries /\ prev' = prev
        /\ \A e \in Entries \ {Current} : rec'[e] = rec[e]
        /\ prev[Current]["processed"] <= rec'[Current]["processed"]
    BY <1>9, CopyEnds
  <2>4. ASSUME ~reader'.first, NEW i \in 1 .. reader.cur
        PROVE  Newer(i)'
    <3>1. CASE order[i] = Current
      BY <1>1, <2>3, <3>1
    <3>2. CASE order[i] # Current
      <4>1. i \in 1 .. reader.at /\ order[i] \in Entries
        BY <1>1, <1>2, <2>1, <3>2 DEF Current
      <4>2. Newer(i)
        BY <2>1, <2>2, <2>4, <4>1 DEF Fresh
      <4> QED
        BY <1>1, <2>2, <2>3, <3>2, <4>1, <4>2
    <3> QED
      BY <3>1, <3>2
  <2> HIDE DEF order, Newer
  <2> QED
    BY <1>3, <2>1, <2>4
<1>10. CASE CopyFails
  <2>1. /\ reader' = [From(reader.cur) EXCEPT !.failures = @ + 1, !.failed = @ \union {Current}]
        /\ reader.pc = "copy" /\ UNCHANGED <<rec, prev>>
    BY <1>10 DEF CopyFails, Reads, records
  <2>2. reader.cur \in 0 .. Len(order) /\ reader.cur = reader.at + 1
    BY <1>1, <1>2, <2>1
  <2>3. /\ reader'.pc = From(reader.cur).pc /\ reader'.at = From(reader.cur).at
        /\ reader'.cur = From(reader.cur).cur
        /\ reader'.first = reader.first /\ reader'.failed = reader.failed \union {Current}
    BY <1>1, <1>2, <2>1, <2>2, FromFact
  <2>4. ASSUME ~reader'.first, NEW i \in 1 .. reader.cur
        PROVE  Newer(i)'
    <3>1. CASE order[i] = Current
      BY <1>1, <2>3, <3>1
    <3>2. CASE order[i] # Current
      <4>1. i \in 1 .. reader.at
        BY <1>1, <1>2, <2>2, <3>2 DEF Current
      <4>2. Newer(i)
        BY <2>1, <2>3, <2>4, <4>1 DEF Fresh
      <4> QED
        BY <1>1, <2>1, <2>3, <4>2
    <3> QED
      BY <3>1, <3>2
  <2> HIDE DEF order, Newer
  <2> QED
    BY <1>3, <2>2, <2>3, <2>4
<1>11. CASE PrintStats
  <2>1. reader'.pc = "swap"
    BY <1>2, <1>11 DEF PrintStats
  <2> QED
    BY <2>1 DEF Fresh
<1>12. CASE Swap
  <2>1. /\ reader'.pc = From(0).pc /\ reader'.at = From(0).at /\ reader'.cur = From(0).cur
        /\ 0 \in 0 .. Len(order)
    BY <1>1, <1>2, <1>12, FromFact DEF Swap
  <2> QED
    BY <1>3, <2>1
<1> QED
  BY <1>4, <1>5, <1>6, <1>7, <1>8, <1>9, <1>10, <1>11, <1>12 DEF ReaderStep

LEMMA FreshInit == Init => Fresh
<1> SUFFICES ASSUME Init, lesson = "tracing02" PROVE Fresh
  BY DEF Fresh
<1>1. reader.pc = "attach"
  BY DEF Init
<1>2. reader.first = (lesson = "tracing02")
  BY DEF Init
<1>3. reader.first
  BY <1>2, Zenon
<1> QED
  BY <1>1, <1>3 DEF Fresh

LEMMA LessonKept == [Next]_vars => lesson' = lesson
BY DEF Next, KernelStep, Lookup, Store, Create, Tracepoint, ReaderStep, Attach,
       AttachFails, AttachDone, CheckMapsFails, Exits, NextEntry, Copy, CopyFails,
       PrintStats, Swap, Reads, vars

LEMMA BoundedStep == Typed /\ Typed' /\ Inv /\ Bounded /\ Fresh /\ [Next]_vars => Bounded' /\ Fresh'
<1> SUFFICES ASSUME Typed, Typed', Inv, Bounded, Fresh, [Next]_vars PROVE Bounded' /\ Fresh'
  OBVIOUS
<1>1. lesson' = lesson
  BY LessonKept
<1>2. CASE lesson # "tracing02"
  BY <1>1, <1>2 DEF Bounded, Fresh
<1>3. CASE UNCHANGED vars
  BY <1>3 DEF Bounded, Fresh, Between, Counted, Known, Rest, Current, Running, Entries, vars,
              kern, records
<1>4. CASE lesson = "tracing02" /\ ReaderStep
  BY <1>4, BoundedReader, FreshReader
<1>5. CASE lesson = "tracing02" /\ \E c \in Cpus : KernelStep(c)
  <2>1. UNCHANGED <<lesson, reader, rec, prev>>
    BY <1>5 DEF KernelStep, Lookup, Store, Create, Tracepoint, records
  <2>2. Fresh'
    BY <2>1 DEF Fresh
  <2> QED
    BY <1>5, <2>2, BoundedKernel
<1> QED
  BY <1>2, <1>3, <1>4, <1>5 DEF Next

\* A difference of tracing02 is negative, which prints as a huge rate, only where a lookup
\* of this reading failed: for any number of CPUs and entries, and whatever the programs
\* count while the entries are read one CPU after the other.
THEOREM WrapsTheorem == Spec => []WrapsOnlyAfterFailure
<1>1. Typed /\ Fresh => WrapsOnlyAfterFailure
  <2> SUFFICES ASSUME Typed, Fresh, lesson = "tracing02", reader.pc = "print", ~reader.first,
                      NEW e \in Entries, rec[e].processed < prev[e].processed
               PROVE  e \in reader.failed
    BY DEF WrapsOnlyAfterFailure
  <2>1. PICK i \in 1 .. Len(Order[lesson]) : e = Order[lesson][i]
    BY OrderSeq DEF Typed, TypeOK
  <2>2. e \in reader.failed \/ prev[e]["processed"] <= rec[e]["processed"]
    BY <2>1 DEF Fresh
  <2>3. prev[e]["processed"] \in Int /\ rec[e]["processed"] \in Int
    BY RangeFact
  <2> QED
    BY <2>2, <2>3
<1>2. Typed /\ Inv /\ Bounded /\ Fresh /\ [Next]_vars => Typed' /\ Inv' /\ Bounded' /\ Fresh'
  BY TypedStep, InvStep, BoundedStep
<1> QED
  BY <1>1, <1>2, TypedInit, InvInit, BoundedInit, FreshInit, PTL DEF Spec

-----------------------------------------------------------------------------
(* Tracing implements StatsLedger: what counts is a Count, the last copy   *)
(* of an entry a Read, and nothing else changes what is known.             *)

ArrayEntries == EntriesOf["tracing02"]
LedgerCounted ==
  [e \in ArrayEntries |-> IF lesson = "tracing02" THEN Sum(e, "processed") ELSE 0]
LedgerKnown ==
  [e \in ArrayEntries |-> IF lesson # "tracing02" THEN 0
                          ELSE IF rec[e].processed > prev[e].processed THEN rec[e].processed
                          ELSE prev[e].processed]

LEMMA LedgerFact ==
  ASSUME lesson = "tracing02", lesson' = lesson
  PROVE  /\ ArrayEntries = Entries
         /\ \A e \in Entries : /\ LedgerCounted[e] = Counted(e)[NrCpus]
                              /\ LedgerCounted'[e] = Counted(e)'[NrCpus]
                              /\ LedgerKnown[e] = Known(e) /\ LedgerKnown'[e] = Known(e)'
<1>1. ArrayEntries = Entries
  BY DEF ArrayEntries, Entries
<1>2. \A e : Sum(e, "processed") = Counted(e)[NrCpus]
  BY SumFact DEF Counted
<1>3. \A e : Sum(e, "processed")' = Counted(e)'[NrCpus]
  BY Zenon DEF Sum, UpTo, Counted
<1>4. \A e \in ArrayEntries : /\ LedgerCounted[e] = Sum(e, "processed")
                             /\ LedgerCounted'[e] = Sum(e, "processed")'
  BY DEF LedgerCounted
<1>5. \A e \in ArrayEntries : LedgerKnown[e] = Known(e) /\ LedgerKnown'[e] = Known(e)'
  BY DEF LedgerKnown, Known
<1> QED
  BY <1>1, <1>2, <1>3, <1>4, <1>5

LEMMA LedgerInit == Init => Ledger!Init
<1> SUFFICES ASSUME Init PROVE Ledger!Init
  OBVIOUS
<1>1. Typed /\ lesson \in Lesson
  BY TypedInit DEF Typed, TypeOK
<1>2. CASE lesson = "tracing02"
  <2>1. \A e \in ArrayEntries : e \in Entries
    BY <1>2 DEF ArrayEntries, Entries
  <2>2. ASSUME NEW e \in ArrayEntries
        PROVE  Sum(e, "processed") = 0 /\ rec[e].processed = 0 /\ prev[e].processed = 0
    <3>1. cell[e] \in [Cpus -> [Field -> Int]] /\ cell[e] = [c \in Cpus |-> Zero]
      BY <1>1, <2>1, RangeFact DEF Init
    <3>2. \A c \in Cpus : cell[e][c]["processed"] = 0
      BY <3>1, AddFact, ZeroFact
    <3>3. UpTo(cell[e], "processed")[NrCpus] = 0
      BY <3>1, <3>2, AddFact, UpToZero
    <3>4. rec[e].processed = 0 /\ prev[e].processed = 0
      BY <2>1, AddFact, ZeroFact DEF Init
    <3> QED
      BY <3>3, <3>4, SumFact
  <2>3. LedgerCounted = [e \in ArrayEntries |-> 0] /\ LedgerKnown = [e \in ArrayEntries |-> 0]
    BY <1>2, <2>2 DEF LedgerCounted, LedgerKnown
  <2> QED
    BY <2>3, Zenon DEF Ledger!Init, LedgerCounted, LedgerKnown, ArrayEntries
<1>3. CASE lesson # "tracing02"
  BY <1>3 DEF Ledger!Init
<1> QED
  BY <1>2, <1>3

LEMMA LedgerStep ==
  ASSUME Typed, Typed', Inv, Bounded, Bounded', Fresh, [Next]_vars
  PROVE  [Ledger!Next]_Ledger!vars
<1>1. lesson' = lesson
  BY LessonKept
<1>2. CASE UNCHANGED <<LedgerCounted, LedgerKnown>>
  BY <1>2, Zenon DEF Ledger!vars, LedgerCounted, LedgerKnown, ArrayEntries
<1>3. CASE /\ LedgerKnown' = LedgerKnown
           /\ \A e \in ArrayEntries :
                LedgerCounted'[e] \in Nat /\ LedgerCounted'[e] >= LedgerCounted[e]
  BY <1>3, Zenon DEF Ledger!Next, Ledger!Count, LedgerCounted, LedgerKnown, ArrayEntries
<1>4. CASE /\ LedgerCounted' = LedgerCounted
           /\ \A e \in ArrayEntries : LedgerKnown'[e] \in LedgerKnown[e] .. LedgerCounted[e]
  BY <1>4, Zenon DEF Ledger!Next, Ledger!Read, LedgerCounted, LedgerKnown, ArrayEntries
<1>5. CASE lesson # "tracing02"
  BY <1>1, <1>2, <1>5 DEF LedgerCounted, LedgerKnown
<1>6. CASE lesson = "tracing02" /\ UNCHANGED vars
  <2>1. UNCHANGED <<lesson, cell, rec, prev>>
    BY <1>6 DEF vars, kern, records
  <2> QED
    BY <1>2, <2>1 DEF LedgerCounted, LedgerKnown, Sum
<1>7. CASE lesson = "tracing02" /\ ReaderStep
  <2>1. UNCHANGED <<lesson, cell>>
    BY <1>7 DEF ReaderStep, Attach, AttachFails, AttachDone, CheckMapsFails, Exits, NextEntry,
                Copy, CopyFails, PrintStats, Swap, Reads, kern
  <2>2. LedgerCounted' = LedgerCounted
    BY <2>1 DEF LedgerCounted, Sum
  <2>3. \A e \in Entries : /\ Known(e)' \in Int /\ Known(e) <= Known(e)'
                           /\ Known(e)' <= Counted(e)[NrCpus]
                           /\ Known(e) \in Int /\ Counted(e)[NrCpus] \in Int
    BY <1>7, ReaderKnown, RangeFact
  <2>4. \A e \in ArrayEntries : LedgerKnown'[e] \in LedgerKnown[e] .. LedgerCounted[e]
    BY <1>1, <1>7, <2>3, LedgerFact
  <2> QED
    BY <1>4, <2>2, <2>4
<1>8. CASE lesson = "tracing02" /\ \E c \in Cpus : KernelStep(c)
  <2>1. UNCHANGED <<lesson, rec, prev>> /\ Entries' = Entries
    BY <1>8 DEF KernelStep, Lookup, Store, Create, Tracepoint, records, Entries
  <2>2. LedgerKnown' = LedgerKnown
    BY <2>1 DEF LedgerKnown
  <2>3. ASSUME NEW e \in Entries
        PROVE  Counted(e)'[NrCpus] \in Nat /\ Counted(e)[NrCpus] <= Counted(e)'[NrCpus]
               /\ Counted(e)[NrCpus] \in Nat
    <3>1. NrCpus \in 0 .. NrCpus
      BY RangeFact
    <3>2. Counted(e)[NrCpus] <= Counted(e)'[NrCpus]
      BY <1>8, <3>1, KernelGrows
    <3>3. Counted(e)'[NrCpus] \in Nat /\ Counted(e)[NrCpus] \in Nat
      BY <1>8, <2>1 DEF Bounded
    <3> QED
      BY <3>2, <3>3
  <2>4. \A e \in ArrayEntries :
          LedgerCounted'[e] \in Nat /\ LedgerCounted'[e] >= LedgerCounted[e]
    BY <1>1, <1>8, <2>3, LedgerFact
  <2> QED
    BY <1>3, <2>2, <2>4
<1> QED
  BY <1>5, <1>6, <1>7, <1>8 DEF Next

\* What tracing02 knows of an entry never goes back and is never ahead of the map, for any
\* number of CPUs and any bulks: the sum of a reading lies between what the map had when
\* the reading began and what it has when it ends, and a failed lookup leaves a record that
\* was true two readings ago.
THEOREM LedgerTheorem == Spec => LedgerKept
<1>1. /\ Typed /\ Inv /\ Bounded /\ Fresh /\ [Next]_vars
          => Typed' /\ Inv' /\ Bounded' /\ Fresh'
      /\ Typed /\ Typed' /\ Inv /\ Bounded /\ Bounded' /\ Fresh /\ [Next]_vars
          => [Ledger!Next]_Ledger!vars
  BY TypedStep, InvStep, BoundedStep, LedgerStep
<1> QED
  BY <1>1, LedgerInit, TypedInit, InvInit, BoundedInit, FreshInit, PTL
     DEF Spec, LedgerKept, Ledger!Spec
=============================================================================
