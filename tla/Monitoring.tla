------------------------------ MODULE Monitoring ------------------------------
(***************************************************************************)
(* The history of the monitoring page: the counters of the host and of the *)
(* containers, what each tick makes of them, and the rows it stores.       *)
(*                                                                         *)
(* The collector remembers the last value of each host counter and has no  *)
(* lock, although the tick of the alert engine and the handlers share it:  *)
(* each of its reads and writes is one action.  A second is a tick here.   *)
(* Gauges (temperature, memory, fan, disk space) have no memory and are    *)
(* left out; the alerts of a tick are in AlertEngine.                      *)
(***************************************************************************)
EXTENDS Integers, Sequences, FiniteSets, Functions, Selections

CONSTANTS
  Pages,       \* goroutines of handlers that collect
  Ticker,      \* the goroutine of the alert engine
  Listing,     \* the containers, in the order docker stats lists them
  NoEntry,     \* no entry in prevContainerStats
  MaxRows,     \* what a page asks for (60 and 120 in the code)
  PruneEvery,  \* ticks between prunes (100 in the code)
  Keep,        \* ticks a row is kept (48 h in the code)
  Traffic,     \* bound: what flows
  Faults,      \* bound: requests, failed reads and statements, resets
  Ticks        \* bound: ticks

ASSUME MonitoringAssumption ==
  /\ Ticker \notin Pages /\ NoEntry \notin Nat
  /\ Listing \in Seq(Range(Listing))
  /\ {MaxRows, PruneEvery, Keep} \subseteq Nat \ {0}
  /\ {Traffic, Faults, Ticks} \subseteq Nat

VARIABLES
  count,           \* the counters: /proc/net/dev, /proc/diskstats
  last,            \* the collector: lastNetRx and lastNetTx, lastDiskIO
  flown,           \* history: what really flowed since the process started
  stored,          \* history: the sum of the stored deltas
  boxes,           \* the counter of each container
  prev,            \* prevContainerStats
  rows,            \* container_snapshots; history: what the container moved since
                   \* its last stats
  used, marked,    \* history: what each container moved, till now and till then
  tick,            \* snapshotTick
  phase, reading,  \* what each goroutine does next, and its local variables
  upsets,          \* history: "raced" (two collected at once), "missed" (net/dev
                   \* was not read)
  spare            \* what remains of Traffic and of Faults

monitoringVars == <<count, last, flown, stored, boxes, prev, rows, used, marked, tick,
                    phase, reading, upsets, spare>>

Kinds == {"net", "disk"}  \* the CPU is read as the disk is
Containers == Range(Listing)
Callers == Pages \cup {Ticker}
NoReading == [kind |-> "net", cur |-> 0, old |-> 0, got |-> [k \in Kinds |-> 0]]

\* The process starts, and primes the collector, when the host is up.
MonitoringInit ==
  /\ count = [k \in Kinds |-> 1]
  /\ last \in [Kinds -> {0, 1}]
  /\ flown = [k \in Kinds |-> 0] /\ stored = flown
  /\ boxes = [c \in Containers |-> 1]
  /\ prev = [c \in Containers |-> NoEntry]
  /\ rows = <<>>
  /\ used = [c \in Containers |-> 0] /\ marked = used
  /\ tick = 0
  /\ phase = [c \in Callers |-> "idle"]
  /\ reading = [c \in Callers |-> NoReading]
  /\ upsets = {m \in {"missed"} : \E k \in Kinds : last[k] = 0}
  /\ spare = [traffic |-> Traffic, fault |-> Faults]

Stands(c, p) == phase[c] = p
GoOn(c, p) == phase' = [phase EXCEPT ![c] = p]
Retire(c) == GoOn(c, "idle") /\ reading' = [reading EXCEPT ![c] = NoReading]
Spend(what) == spare[what] > 0 /\ spare' = [spare EXCEPT ![what] = @ - 1]
Note(m) == upsets' = upsets \cup m
Unnoted == UNCHANGED upsets
KeepCounters == UNCHANGED <<count, flown>>
KeepBoxes == UNCHANGED <<boxes, used>>
KeepStore == UNCHANGED <<stored, rows, prev, marked>>

-----------------------------------------------------------------------------
(* The world.                                                              *)

Flow ==
  /\ Spend("traffic")
  /\ \/ \E k \in Kinds : /\ count' = [count EXCEPT ![k] = @ + 1]
                         /\ flown' = [flown EXCEPT ![k] = @ + 1]
                         /\ KeepBoxes
     \/ \E c \in Containers : /\ boxes' = [boxes EXCEPT ![c] = @ + 1]
                              /\ used' = [used EXCEPT ![c] = @ + 1]
                              /\ KeepCounters
  /\ KeepStore /\ UNCHANGED <<last, tick, phase, reading>> /\ Unnoted

\* An interface is set up anew, or a container restarts.
Reset ==
  /\ Spend("fault")
  /\ \/ count' = [count EXCEPT !["net"] = 0] /\ KeepBoxes
     \/ \E c \in Containers : boxes' = [boxes EXCEPT ![c] = 0]
          /\ UNCHANGED <<count, used>>
  /\ KeepStore /\ UNCHANGED <<flown, last, tick, phase, reading>> /\ Unnoted

-----------------------------------------------------------------------------
(* Collect: the network first, then the disk.                              *)

Begin(c) ==
  /\ Stands(c, "idle") /\ GoOn(c, "read")
  /\ IF c = Ticker THEN tick < Ticks /\ UNCHANGED spare ELSE Spend("fault")
  /\ Note({m \in {"raced"} : \E d \in Callers \ {c} : phase[d] \in {"read", "take", "put"}})
  /\ KeepCounters /\ KeepBoxes /\ KeepStore /\ UNCHANGED <<last, tick, reading>>

\* The disk comes after the network.
After(c) == IF reading[c].kind = "net" THEN "read" ELSE "done"
Turn(c) == [reading EXCEPT ![c].kind = "disk"]

\* The counters of a file that is not read are 0 for the network; for the
\* disk, the delta is 0 and the last values stay.
Read(c) ==
  LET k == reading[c].kind IN
  /\ Stands(c, "read")
  /\ \/ /\ reading' = [reading EXCEPT ![c].cur = count[k]]
        /\ GoOn(c, "take") /\ UNCHANGED spare /\ Unnoted
     \/ /\ Spend("fault")
        /\ IF k = "net"
           THEN /\ reading' = [reading EXCEPT ![c].cur = 0]
                /\ GoOn(c, "take") /\ Note({"missed"})
           ELSE GoOn(c, After(c)) /\ reading' = Turn(c) /\ Unnoted
  /\ KeepCounters /\ KeepBoxes /\ KeepStore /\ UNCHANGED <<last, tick>>

Take(c) ==
  /\ Stands(c, "take")
  /\ reading' = [reading EXCEPT ![c].old = last[reading[c].kind]]
  /\ GoOn(c, "put")
  /\ KeepCounters /\ KeepBoxes /\ KeepStore /\ UNCHANGED <<last, tick, spare>> /\ Unnoted

\* Slip: the distance, whatever the direction.
Distance(cur, old) == IF cur < old THEN old - cur ELSE cur - old

Clamp(cur, old) == IF cur < old THEN 0 ELSE cur - old
Delta(c) == Clamp(reading[c].cur, reading[c].old)

Put(c) ==
  LET k == reading[c].kind IN
  /\ Stands(c, "put")
  /\ last' = [last EXCEPT ![k] = reading[c].cur]
  /\ reading' = [Turn(c) EXCEPT ![c].got[k] = Delta(c), ![c].cur = 0, ![c].old = 0]
  /\ GoOn(c, After(c))
  /\ KeepCounters /\ KeepBoxes /\ KeepStore /\ UNCHANGED <<tick, spare>> /\ Unnoted

\* A handler answers with what it got.
Answer(w) ==
  /\ Stands(w, "done") /\ w # Ticker
  /\ Retire(w)
  /\ KeepCounters /\ KeepBoxes /\ KeepStore /\ UNCHANGED <<last, tick, spare>> /\ Unnoted

-----------------------------------------------------------------------------
(* evaluate: every other tick stores.                                      *)

\* A statement that fails loses the row; the collector has moved on.
Snapshot(c) ==
  /\ Stands(c, "done") /\ c = Ticker
  /\ tick' = tick + 1
  /\ IF tick' % 2 = 0
     THEN /\ \/ stored' = [k \in Kinds |-> stored[k] + reading[c].got[k]] /\ UNCHANGED spare
             \/ UNCHANGED stored /\ Spend("fault")
          /\ GoOn(c, "stats")
     ELSE GoOn(c, "prune") /\ UNCHANGED <<stored, spare>>
  /\ reading' = [reading EXCEPT ![c] = NoReading]
  /\ KeepCounters /\ KeepBoxes /\ UNCHANGED <<last, rows, prev, marked>> /\ Unnoted

Since(b) == IF prev[b] = NoEntry THEN 0 ELSE Clamp(boxes[b], prev[b])

\* One transaction for all the containers.
Insert ==
  rows' = rows \o [i \in DOMAIN Listing |->
            LET b == Listing[i] IN
            [at |-> tick, of |-> b, delta |-> Since(b), moved |-> used[b] - marked[b]]]

\* Without stats nothing changes.
Stats(c) ==
  /\ Stands(c, "stats")
  /\ \/ /\ prev' = boxes /\ marked' = used
        /\ \/ Insert /\ UNCHANGED spare
           \/ UNCHANGED rows /\ Spend("fault")
     \/ UNCHANGED <<prev, marked, rows>> /\ Spend("fault")
  /\ GoOn(c, "prune")
  /\ KeepCounters /\ KeepBoxes /\ UNCHANGED <<last, stored, tick, reading>> /\ Unnoted

Delete == rows' = SelectAt(rows, {i \in DOMAIN rows : rows[i].at >= tick - Keep})

PruneRows(c) ==
  /\ Stands(c, "prune")
  /\ \/ tick % PruneEvery # 0 /\ UNCHANGED <<rows, spare>>
     \/ tick % PruneEvery = 0 /\ Delete /\ UNCHANGED spare
     \/ tick % PruneEvery = 0 /\ UNCHANGED rows /\ Spend("fault")
  /\ Retire(c)
  /\ KeepCounters /\ KeepBoxes /\ UNCHANGED <<last, stored, prev, marked, tick>> /\ Unnoted

Collecting(c) == Read(c) \/ Take(c) \/ Put(c)
MonitoringNext ==
  \/ Flow \/ Reset
  \/ \E c \in Callers : Begin(c) \/ Collecting(c)
  \/ \E w \in Pages : Answer(w)
  \/ Snapshot(Ticker) \/ Stats(Ticker) \/ PruneRows(Ticker)

MonitoringSpec == MonitoringInit /\ [][MonitoringNext]_monitoringVars

-----------------------------------------------------------------------------
(* What a page shows of n rows: every step-th, and the last.               *)

Sampled(n) ==
  LET step == n \div MaxRows IN
  IF n <= MaxRows THEN 1..n
  ELSE {i \in 1..n : (i - 1) % step = 0} \cup {n}
RowsOf(b) == {i \in DOMAIN rows : rows[i].of = b}

-----------------------------------------------------------------------------
Row == [at : Nat, of : Containers, delta : Nat, moved : Nat]

MonitoringTypeOK ==
  /\ {count, last, flown, stored} \subseteq [Kinds -> Nat]
  /\ {boxes, used, marked} \subseteq [Containers -> Nat]
  /\ prev \in [Containers -> Nat \cup {NoEntry}]
  /\ rows \in Seq(Row)
  /\ tick \in Nat
  /\ phase \in [Callers -> {"idle", "read", "take", "put", "done", "stats", "prune"}]
  /\ reading \in [Callers -> [kind : Kinds, cur : Nat, old : Nat, got : [Kinds -> Nat]]]
  /\ upsets \subseteq {"raced", "missed"}
  /\ spare \in [{"traffic", "fault"} -> Nat]

\* The history never shows traffic that did not flow.  Of the host, all rows
\* together show no more than flowed, unless two goroutines collected at once
\* or the network counters were not read; of a container, each row shows no
\* more than was moved since the stats before, whatever resets, failed reads
\* and lost rows fell in between (host.go:247-260, 291-310,
\* alerts/engine.go:109-125, 351-356).
RecordedIsReal ==
  /\ upsets = {} => \A k \in Kinds : stored[k] <= flown[k]
  /\ \A i \in DOMAIN rows : rows[i].delta <= rows[i].moved

MonitoringInv == MonitoringTypeOK /\ RecordedIsReal

\* store/monitoring.go:125 "maxRows applies per container": a container with
\* more rows than that keeps as many points (store/monitoring.go:126-141,
\* 185-198).
EveryContainerIsSampled ==
  \A b \in Containers :
    Cardinality(RowsOf(b)) >= MaxRows =>
      Cardinality(RowsOf(b) \cap Sampled(Len(rows))) >= MaxRows
=============================================================================
