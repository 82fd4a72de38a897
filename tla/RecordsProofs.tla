----------------------------- MODULE RecordsProofs -----------------------------
(***************************************************************************)
(* Proofs about what the handlers keep on disk, for any number of          *)
(* requests, of archives and rows kept, of containers and of ticks.        *)
(*                                                                         *)
(* The backup archives: while exports came one after another, in seconds   *)
(* of their own and in the order of the clock, the archive that is being   *)
(* made is the newest of the directory, and no prune touches it.           *)
(*                                                                         *)
(* The monitoring history: what is stored, what the ticker has got and not *)
(* stored yet, and what the collection that runs, or the next one, will    *)
(* get, are together no more than what flowed.                             *)
(***************************************************************************)
EXTENDS Backups, Monitoring, SelectionLemmas

-----------------------------------------------------------------------------
(* The backup archives.                                                    *)

Busy(w) == stage[w] # "idle"

\* What holds whatever the clock does.
Places ==
  /\ BackupsTypeOK /\ now >= 1
  /\ \A w \in Exporters : stage[w] # "prune" => todo[w] = {}
  /\ \A w \in Exporters : name[w] = 0 <=> stage[w] = "idle"

OneByOne == \A v, w \in Exporters : v # w => ~(Busy(v) /\ Busy(w))

\* The archive of w is the newest, and what w will remove is older.
Newest(w) ==
  /\ name[w] \in dir /\ \A n \in dir : n <= name[w]
  /\ \A n \in todo[w] : n < name[w]

Ordered ==
  /\ OneByOne
  /\ \A n \in dir : n <= now
  /\ \A w \in Exporters : Busy(w) => Newest(w)
  /\ \A w \in Exporters : stage[w] \in {"list", "prune"} => name[w] \in whole
  /\ \A w \in Exporters : stage[w] \in {"tar", "list", "prune"} => answered < name[w]
  /\ answered # 0 => answered \in whole \/ \E w \in Exporters : stage[w] = "prune"

ArchivesHold == Places /\ (mishaps = {} => Ordered)

LEMMA MinIsLeast ==
  ASSUME NEW T \in SUBSET Nat, T # {}
  PROVE  Min(T) \in T
  BY NatMin DEF Min

\* A prune keeps the newest archive.
LEMMA NewestIsKept ==
  ASSUME NEW n \in dir, dir \subseteq Nat, \A m \in dir : m <= n, n \in Nat
  PROVE  \A m \in Surplus : m < n
<1>0. \A m \in dir : m \in Nat /\ ~(m > n)
  OBVIOUS
<1>1. {m \in dir : m > n} = {}
  BY <1>0
<1>2. Cardinality({m \in dir : m > n}) = 0
  BY <1>1, FS_EmptySet
<1>3. n \notin Surplus
  BY <1>2, BackupsAssumption DEF Surplus
<1> QED BY <1>0, <1>3 DEF Surplus

LEMMA MovesOn ==
  ASSUME BackupsTypeOK, NEW w \in Exporters, NEW p, MoveTo(w, p)
  PROVE  stage'[w] = p /\ \A v \in Exporters \ {w} : stage'[v] = stage[v]
  BY DEF BackupsTypeOK, MoveTo

-----------------------------------------------------------------------------
(* Whatever the clock does.                                                *)

LEMMA ExportPlaces ==
  ASSUME Places, NEW w \in Exporters, Export(w)
  PROVE  Places'
<1>1. stage'[w] = "tar" /\ \A v \in Exporters \ {w} : stage'[v] = stage[v]
  BY MovesOn DEF Places, Export
<1>2. BackupsTypeOK'
  <2>1. /\ (whole \subseteq dir)' /\ (dir \subseteq Nat)' /\ due' \in Nat
        /\ UNCHANGED <<now, answered, alert, todo>>
    BY DEF Places, BackupsTypeOK, Export
  <2>2. stage' \in [Exporters -> {"idle", "tar", "list", "prune", "leave"}]
    BY DEF Places, BackupsTypeOK, Export, MoveTo
  <2>3. name' \in [Exporters -> Nat] /\ mishaps' \subseteq {"crossed", "again", "back"}
    BY DEF Places, BackupsTypeOK, Export
  <2> QED BY <2>1, <2>2, <2>3 DEF Places, BackupsTypeOK
<1>3. name'[w] = now /\ now >= 1 /\ \A v \in Exporters \ {w} : name'[v] = name[v]
  BY DEF Places, BackupsTypeOK, Export
<1>4. now' = now /\ todo' = todo /\ now \in Nat
  BY DEF Export, Places, BackupsTypeOK
<1> QED BY <1>1, <1>2, <1>3, <1>4 DEF Places, Export

LEMMA TarPlaces ==
  ASSUME Places, NEW w \in Exporters, Tar(w)
  PROVE  Places'
<1>1. stage'[w] \in {"list", "leave"} /\ \A v \in Exporters \ {w} : stage'[v] = stage[v]
  BY MovesOn DEF Places, Tar
<1>2. BackupsTypeOK'
  BY DEF Places, BackupsTypeOK, Tar, MoveTo
<1> QED BY <1>1, <1>2 DEF Places, Tar

LEMMA ListPlaces ==
  ASSUME Places, NEW w \in Exporters, List(w)
  PROVE  Places' /\ todo'[w] = Surplus
<1>1. stage'[w] = "prune" /\ \A v \in Exporters \ {w} : stage'[v] = stage[v]
  BY MovesOn DEF Places, List
<1>2. Surplus \in SUBSET Nat
  BY DEF Places, BackupsTypeOK, Surplus
<1>3. BackupsTypeOK'
  BY <1>2 DEF Places, BackupsTypeOK, List, MoveTo
<1>4. todo'[w] = Surplus /\ \A v \in Exporters \ {w} : todo'[v] = todo[v]
  BY DEF Places, BackupsTypeOK, List
<1> QED BY <1>1, <1>3, <1>4 DEF Places, List

LEMMA PrunePlaces ==
  ASSUME Places, NEW w \in Exporters, Prune(w)
  PROVE  Places'
<1>1. CASE todo[w] = {}
  <2>1. stage'[w] = "leave" /\ \A v \in Exporters \ {w} : stage'[v] = stage[v]
    BY <1>1, MovesOn DEF Places, Prune
  <2>2. BackupsTypeOK'
    <3>1. /\ alert' = FALSE /\ answered' = name[w] /\ name[w] \in Nat
          /\ UNCHANGED <<dir, whole, now, name, todo, mishaps, due>>
      BY <1>1 DEF Places, BackupsTypeOK, Prune
    <3>2. stage' \in [Exporters -> {"idle", "tar", "list", "prune", "leave"}]
      BY <1>1 DEF Places, BackupsTypeOK, Prune, MoveTo
    <3> QED BY <3>1, <3>2 DEF Places, BackupsTypeOK
  <2> QED BY <1>1, <2>1, <2>2 DEF Places, Prune
<1>2. CASE todo[w] # {}
  <2> DEFINE n == Min(todo[w])
  <2>1. \/ dir' = dir \ {n} /\ whole' = whole \ {n}
        \/ UNCHANGED <<dir, whole>>
    BY <1>2 DEF Prune
  <2>2. /\ todo' = [todo EXCEPT ![w] = @ \ {n}]
        /\ UNCHANGED <<stage, alert, answered, now, name, mishaps, due>>
    BY <1>2 DEF Prune
  <2> HIDE DEF n
  <2>3. BackupsTypeOK'
    BY <2>1, <2>2 DEF Places, BackupsTypeOK
  <2>4. \A v \in Exporters \ {w} : todo'[v] = todo[v]
    BY <2>2 DEF Places, BackupsTypeOK
  <2> QED BY <2>2, <2>3, <2>4 DEF Places, Prune
<1> QED BY <1>1, <1>2

LEMMA LeavePlaces ==
  ASSUME Places, NEW w \in Exporters, Leave(w)
  PROVE  Places'
<1>1. stage'[w] = "idle" /\ \A v \in Exporters \ {w} : stage'[v] = stage[v]
  BY MovesOn DEF Places, Leave
<1>2. BackupsTypeOK'
  BY DEF Places, BackupsTypeOK, Leave, MoveTo
<1>3. name'[w] = 0 /\ \A v \in Exporters \ {w} : name'[v] = name[v]
  BY DEF Places, BackupsTypeOK, Leave
<1> QED BY <1>1, <1>2, <1>3 DEF Places, Leave

LEMMA ClockPlaces ==
  ASSUME Places, NEW t \in 1..Seconds, SetClock(t)
  PROVE  Places'
<1>1. t \in Nat /\ t >= 1
  BY BackupsAssumption
<1> QED BY <1>1 DEF Places, BackupsTypeOK, SetClock

-----------------------------------------------------------------------------
(* One export after the other, in the order of the clock.                  *)

\* It starts alone, and is newer than all that is there.
LEMMA ExportOrdered ==
  ASSUME Places, Ordered, NEW w \in Exporters, Export(w), mishaps' = {}
  PROVE  Ordered'
<1>0. /\ BackupsTypeOK /\ stage[w] = "idle" /\ now \in Nat /\ dir \subseteq Nat
      /\ dir' = dir \cup {now} /\ whole' = whole \ {now}
      /\ UNCHANGED <<now, answered, todo>>
  BY DEF Places, BackupsTypeOK, Export
<1>1. stage'[w] = "tar" /\ \A v \in Exporters \ {w} : stage'[v] = stage[v]
  BY MovesOn DEF Places, Export
<1>2. name'[w] = now /\ \A v \in Exporters \ {w} : name'[v] = name[v]
  BY DEF Places, BackupsTypeOK, Export
<1>3. now \notin dir /\ \A v \in Exporters \ {w} : stage[v] = "idle"
  BY DEF Export
<1>4. whole' = whole /\ \A n \in dir : n < now
  BY <1>0, <1>3 DEF Ordered, BackupsTypeOK
<1>5. answered # 0 => answered \in whole
  BY <1>0, <1>3 DEF Ordered
<1>6. answered < now
  <2>1. CASE answered = 0
    BY <1>0, <2>1 DEF Places
  <2>2. CASE answered # 0
    BY <1>0, <1>4, <1>5, <2>2 DEF BackupsTypeOK
  <2> QED BY <2>1, <2>2
<1>7. todo[w] = {}
  BY <1>0 DEF Places
<1>8. Newest(w)'
  BY <1>0, <1>2, <1>4, <1>7 DEF Newest
<1>9. \A v \in Exporters \ {w} : stage'[v] = "idle"
  BY <1>1, <1>3
<1> QED
  <2>1. OneByOne'
    BY <1>9 DEF OneByOne, Busy
  <2>2. \A n \in dir' : n <= now'
    BY <1>0, <1>4
  <2>3. \A v \in Exporters : Busy(v)' => Newest(v)'
    BY <1>8, <1>9 DEF Busy
  <2>4. \A v \in Exporters : stage'[v] \in {"list", "prune"} => name'[v] \in whole'
    BY <1>1, <1>9
  <2>5. \A v \in Exporters : stage'[v] \in {"tar", "list", "prune"} => answered' < name'[v]
    BY <1>0, <1>2, <1>6, <1>9
  <2>6. answered' # 0 => answered' \in whole'
    BY <1>0, <1>4, <1>5
  <2> QED BY <2>1, <2>2, <2>3, <2>4, <2>5, <2>6 DEF Ordered

\* A step of w, alone: what is to show of w, and of the archives.
LEMMA AloneOrdered ==
  ASSUME Places, Ordered, NEW w \in Exporters, stage[w] # "idle", UNCHANGED now,
         dir' \subseteq dir,
         \A v \in Exporters \ {w} : stage'[v] = stage[v],
         stage'[w] # "idle" => Newest(w)',
         stage'[w] \in {"list", "prune"} => name'[w] \in whole',
         stage'[w] \in {"tar", "list", "prune"} => answered' < name'[w],
         answered' # 0 => answered' \in whole' \/ stage'[w] = "prune"
  PROVE  Ordered'
<1>1. \A v \in Exporters \ {w} : stage'[v] = "idle"
  BY DEF Ordered, OneByOne, Busy
<1>2. OneByOne'
  BY <1>1 DEF OneByOne, Busy
<1>3. \A n \in dir' : n <= now'
  BY DEF Ordered
<1>4. \A v \in Exporters : Busy(v)' => Newest(v)'
  BY <1>1 DEF Busy
<1>5. \A v \in Exporters : stage'[v] \in {"list", "prune"} => name'[v] \in whole'
  BY <1>1
<1>6. \A v \in Exporters : stage'[v] \in {"tar", "list", "prune"} => answered' < name'[v]
  BY <1>1
<1> QED BY <1>2, <1>3, <1>4, <1>5, <1>6 DEF Ordered

LEMMA TarOrdered ==
  ASSUME Places, Ordered, NEW w \in Exporters, Tar(w)
  PROVE  Ordered'
<1>1. /\ stage[w] = "tar" /\ UNCHANGED <<dir, now, answered, name, todo>>
      /\ stage'[w] \in {"list", "leave"} /\ \A v \in Exporters \ {w} : stage'[v] = stage[v]
  BY MovesOn DEF Places, Tar
<1>2. Newest(w) /\ answered < name[w] /\ (answered # 0 => answered \in whole)
  BY <1>1 DEF Ordered, OneByOne, Busy
<1>3. \A v \in Exporters \ {w} : name[v] # name[w]
  BY <1>1 DEF Ordered, OneByOne, Busy, Places
<1>4. whole \subseteq whole' /\ (stage'[w] = "list" => name[w] \in whole')
  BY <1>1, <1>2, <1>3, MovesOn DEF Tar, Newest, Places
<1>5. Newest(w)'
  BY <1>1, <1>2 DEF Newest
<1> QED BY <1>1, <1>2, <1>4, <1>5, AloneOrdered

LEMMA ListOrdered ==
  ASSUME Places, Ordered, NEW w \in Exporters, List(w)
  PROVE  Ordered'
<1>1. /\ stage[w] = "list" /\ UNCHANGED <<dir, whole, now, answered, name>>
      /\ stage'[w] = "prune" /\ \A v \in Exporters \ {w} : stage'[v] = stage[v]
  BY MovesOn DEF Places, List
<1>2. Newest(w) /\ answered < name[w] /\ name[w] \in whole
  BY <1>1 DEF Ordered, Busy
<1>3. \A m \in Surplus : m < name[w]
  BY <1>2, NewestIsKept DEF Newest, Places, BackupsTypeOK
<1>4. Newest(w)'
  BY <1>1, <1>2, <1>3, ListPlaces DEF Newest
<1> QED BY <1>1, <1>2, <1>4, AloneOrdered

LEMMA PruneOrdered ==
  ASSUME Places, Ordered, NEW w \in Exporters, Prune(w)
  PROVE  Ordered'
<1>1. stage[w] = "prune" /\ UNCHANGED <<now, name>>
  BY DEF Prune
<1>2. Newest(w) /\ answered < name[w] /\ name[w] \in whole
  BY <1>1 DEF Ordered, Busy
<1>3. CASE todo[w] = {}
  <2>1. /\ answered' = name[w] /\ UNCHANGED <<dir, whole, todo>>
        /\ stage'[w] = "leave" /\ \A v \in Exporters \ {w} : stage'[v] = stage[v]
    BY <1>3, MovesOn DEF Places, Prune
  <2>2. Newest(w)'
    BY <1>1, <1>2, <2>1 DEF Newest
  <2> QED BY <1>1, <1>2, <2>1, <2>2, AloneOrdered
<1>4. CASE todo[w] # {}
  <2> DEFINE n == Min(todo[w])
  <2>1. \/ dir' = dir \ {n} /\ whole' = whole \ {n}
        \/ UNCHANGED <<dir, whole>>
    BY <1>4 DEF Prune
  <2>2. todo' = [todo EXCEPT ![w] = @ \ {n}] /\ UNCHANGED <<stage, answered>>
    BY <1>4 DEF Prune
  <2>3. todo[w] \in SUBSET Nat
    BY DEF Places, BackupsTypeOK
  <2>4. n \in todo[w]
    BY <1>4, <2>3, MinIsLeast
  <2> HIDE DEF n
  <2>5. n # name[w]
    BY <1>2, <2>3, <2>4 DEF Newest
  <2>6. dir' \subseteq dir /\ name[w] \in dir' /\ name[w] \in whole'
    BY <1>2, <2>1, <2>5 DEF Newest
  <2>7. todo'[w] \subseteq todo[w]
    BY <2>2 DEF Places, BackupsTypeOK
  <2>8. Newest(w)'
    BY <1>1, <1>2, <2>6, <2>7 DEF Newest
  <2> QED BY <1>1, <1>2, <2>2, <2>6, <2>8, AloneOrdered
<1> QED BY <1>3, <1>4

LEMMA LeaveOrdered ==
  ASSUME Places, Ordered, NEW w \in Exporters, Leave(w)
  PROVE  Ordered'
<1>1. /\ stage[w] = "leave" /\ UNCHANGED <<dir, whole, now, answered>>
      /\ stage'[w] = "idle" /\ \A v \in Exporters \ {w} : stage'[v] = stage[v]
  BY MovesOn DEF Places, Leave
<1>2. answered # 0 => answered \in whole
  BY <1>1 DEF Ordered, OneByOne, Busy
<1> QED BY <1>1, <1>2, AloneOrdered

LEMMA ClockOrdered ==
  ASSUME Places, Ordered, NEW t \in 1..Seconds, SetClock(t), mishaps' = {}
  PROVE  Ordered'
<1>1. /\ t \in Nat /\ now \in Nat /\ dir \subseteq Nat
  BY BackupsAssumption DEF Places, BackupsTypeOK
<1>2. now' = t /\ now <= t /\ UNCHANGED <<dir, whole, answered, stage, name, todo>>
  BY <1>1 DEF SetClock
<1>3. \A n \in dir : n <= t
  BY <1>1, <1>2 DEF Ordered
<1>4. \A w \in Exporters : Newest(w)' <=> Newest(w)
  BY <1>2 DEF Newest
<1> QED BY <1>2, <1>3, <1>4 DEF Ordered, OneByOne, Busy

-----------------------------------------------------------------------------
LEMMA ArchivesAlways == BackupsSpec => []ArchivesHold
<1>1. BackupsInit => ArchivesHold
  <2>1. ASSUME BackupsInit PROVE BackupsTypeOK
    <3>1. /\ whole \subseteq dir /\ dir \subseteq Nat /\ now \in Nat /\ answered \in Nat
          /\ alert \in BOOLEAN /\ mishaps = {} /\ due \in Nat
      BY <2>1, BackupsAssumption DEF BackupsInit
    <3>2. stage \in [Exporters -> {"idle", "tar", "list", "prune", "leave"}]
      BY <2>1 DEF BackupsInit
    <3>3. name \in [Exporters -> Nat] /\ todo \in [Exporters -> SUBSET Nat]
      BY <2>1 DEF BackupsInit
    <3> QED BY <3>1, <3>2, <3>3 DEF BackupsTypeOK
  <2>2. ASSUME BackupsInit PROVE Places
    <3>1. now >= 1 /\ \A w \in Exporters : stage[w] = "idle" /\ name[w] = 0 /\ todo[w] = {}
      BY <2>2 DEF BackupsInit
    <3> QED BY <2>1, <2>2, <3>1 DEF Places
  <2>3. BackupsInit => Ordered
    BY DEF BackupsInit, Ordered, OneByOne, Busy
  <2> QED BY <2>2, <2>3 DEF ArchivesHold
<1>2. ASSUME ArchivesHold, BackupsNext PROVE ArchivesHold'
  <2>1. Places /\ (mishaps' = {} => Ordered)
    BY <1>2 DEF ArchivesHold, BackupsNext, BackupsStep, Export, Tar, List, Prune, Leave, SetClock
  <2>2. ASSUME NEW w \in Exporters, Export(w) PROVE ArchivesHold'
    BY <2>1, <2>2, ExportPlaces, ExportOrdered DEF ArchivesHold
  <2>3. ASSUME NEW w \in Exporters, BackupsStep(w) PROVE ArchivesHold'
    BY <2>1, <2>3, TarPlaces, TarOrdered, ListPlaces, ListOrdered, PrunePlaces,
       PruneOrdered, LeavePlaces, LeaveOrdered DEF ArchivesHold, BackupsStep
  <2>4. ASSUME NEW t \in 1..Seconds, SetClock(t) PROVE ArchivesHold'
    BY <2>1, <2>4, ClockPlaces, ClockOrdered DEF ArchivesHold
  <2> QED BY <1>2, <2>2, <2>3, <2>4 DEF BackupsNext
<1>3. ASSUME ArchivesHold, UNCHANGED backupsVars PROVE ArchivesHold'
  <2>1. Places'
    BY <1>3 DEF ArchivesHold, Places, BackupsTypeOK, backupsVars
  <2>2. \A w \in Exporters : Newest(w)' <=> Newest(w)
    BY <1>3 DEF Newest, backupsVars
  <2>3. mishaps' = {} => Ordered'
    BY <1>3, <2>2 DEF ArchivesHold, Ordered, OneByOne, Busy, backupsVars
  <2> QED BY <2>1, <2>3 DEF ArchivesHold
<1> QED BY <1>1, <1>2, <1>3, PTL DEF BackupsSpec

\* The archive of the newest answer "ok" stays, whole, until a newer answer,
\* whatever later exports fail or are pruned; unless exports overlapped, shared
\* a second, or the clock went back (api/backup.go:118-143).
THEOREM AnsweredIsKept == BackupsSpec => []BackupsInv
<1>1. ArchivesHold => BackupsInv
  <2> SUFFICES ASSUME ArchivesHold, mishaps = {}, answered # 0, answered \notin whole
               PROVE  \E w \in Exporters : Pending(w)
    BY DEF ArchivesHold, Places, BackupsInv, AnsweredIsThere
  <2>1. PICK w \in Exporters : stage[w] = "prune"
    BY DEF ArchivesHold, Ordered
  <2>2. answered < name[w] /\ answered \in Nat /\ name[w] \in Nat
    BY <2>1 DEF ArchivesHold, Ordered, Places, BackupsTypeOK
  <2> QED BY <2>1, <2>2 DEF Pending
<1> QED BY <1>1, ArchivesAlways, PTL

-----------------------------------------------------------------------------
(* The monitoring history: parts of its type, and what holds of it.        *)

Reading == [kind : Kinds, cur : Nat, old : Nat, got : [Kinds -> Nat]]
Phases == {"idle", "read", "take", "put", "done", "stats", "prune"}

CountersOK == {count, last, flown, stored} \subseteq [Kinds -> Nat]
BoxesOK ==
  /\ {boxes, used, marked} \subseteq [Containers -> Nat]
  /\ prev \in [Containers -> Nat \cup {NoEntry}]
RowsOK == rows \in Seq(Row) /\ tick \in Nat
CallersOK == phase \in [Callers -> Phases] /\ reading \in [Callers -> Reading]
LimitsOK == upsets \subseteq {"raced", "missed"} /\ spare \in [{"traffic", "fault"} -> Nat]

LEMMA TypesAre ==
  MonitoringTypeOK <=> CountersOK /\ BoxesOK /\ RowsOK /\ CallersOK /\ LimitsOK
  BY DEF MonitoringTypeOK, CountersOK, BoxesOK, RowsOK, CallersOK, LimitsOK, Reading, Phases

Collects(c) == phase[c] \in {"read", "take", "put"}
OneCollects == \A c, d \in Callers : c # d => ~(Collects(c) /\ Collects(d))

\* Stored, or about to be.
Taken(k) == stored[k] + reading[Ticker].got[k]

\* c has read k and not yet put it.
Holds(c, k) == phase[c] \in {"take", "put"} /\ reading[c].kind = k
Against(c, k) == IF phase[c] = "take" THEN last[k] ELSE reading[c].old

FlowIsReal(k) ==
  /\ \A c \in Callers : Holds(c, k) =>
       Taken(k) + Clamp(reading[c].cur, Against(c, k)) + Clamp(count[k], reading[c].cur)
         <= flown[k]
  /\ (\A c \in Callers : ~Holds(c, k)) => Taken(k) + Clamp(count[k], last[k]) <= flown[k]

HostHolds == upsets = {} => OneCollects /\ \A k \in Kinds : FlowIsReal(k)

Honest == {r \in Row : r.delta <= r.moved}
BoxesHold ==
  /\ rows \in Seq(Honest)
  /\ \A b \in Containers : marked[b] <= used[b] /\ Since(b) <= used[b] - marked[b]

HistoryHolds == MonitoringTypeOK /\ HostHolds /\ BoxesHold

LEMMA ClampIs ==
  ASSUME NEW a \in Nat, NEW b \in Nat
  PROVE  /\ Clamp(a, b) \in Nat /\ Clamp(a, a) = 0 /\ Clamp(0, b) = 0
         /\ Clamp(a + 1, b) \in Nat /\ Clamp(a + 1, b) <= Clamp(a, b) + 1
  BY DEF Clamp

-----------------------------------------------------------------------------
(* The containers.                                                         *)

LEMMA SinceIs ==
  ASSUME BoxesOK, NEW b \in Containers
  PROVE  Since(b) \in Nat
<1>1. CASE prev[b] = NoEntry
  BY <1>1 DEF Since
<1>2. CASE prev[b] # NoEntry
  <2>1. prev[b] \in Nat /\ boxes[b] \in Nat
    BY <1>2 DEF BoxesOK
  <2> QED BY <1>2, <2>1, ClampIs DEF Since
<1> QED BY <1>1, <1>2

LEMMA FlowBoxes ==
  ASSUME BoxesOK, BoxesHold, Flow
  PROVE  BoxesOK' /\ BoxesHold'
<1>1. CASE KeepBoxes
  BY <1>1 DEF Flow, KeepStore, KeepBoxes, BoxesOK, BoxesHold, Since, Honest, Row
<1>2. CASE \E c \in Containers : boxes' = [boxes EXCEPT ![c] = @ + 1]
                                 /\ used' = [used EXCEPT ![c] = @ + 1]
  <2>1. PICK c \in Containers : boxes' = [boxes EXCEPT ![c] = @ + 1]
                                 /\ used' = [used EXCEPT ![c] = @ + 1]
    BY <1>2
  <2>2. BoxesOK' /\ UNCHANGED <<rows, prev, marked>>
    BY <2>1 DEF Flow, KeepStore, BoxesOK
  <2>3. ASSUME NEW b \in Containers
        PROVE  marked[b] <= used'[b] /\ Since(b)' <= used'[b] - marked[b]
    <3>0. /\ used[b] \in Nat /\ boxes[b] \in Nat /\ marked[b] \in Nat
          /\ marked[b] <= used[b] /\ Since(b) <= used[b] - marked[b]
      BY DEF BoxesOK, BoxesHold
    <3>1. CASE b # c
      <4>1. used'[b] = used[b] /\ boxes'[b] = boxes[b]
        BY <2>1, <3>1 DEF BoxesOK
      <4>2. Since(b)' = Since(b)
        BY <2>2, <4>1 DEF Since
      <4> QED BY <3>0, <4>1, <4>2
    <3>2. CASE b = c
      <4>1. used'[b] = used[b] + 1 /\ boxes'[b] = boxes[b] + 1
        BY <2>1, <3>2 DEF BoxesOK
      <4>2. Since(b)' <= Since(b) + 1 /\ Since(b)' \in Nat /\ Since(b) \in Nat
        <5>1. CASE prev[b] = NoEntry
          BY <2>2, <5>1 DEF Since
        <5>2. CASE prev[b] # NoEntry
          <6>1. prev[b] \in Nat
            BY <5>2 DEF BoxesOK
          <6>2. Since(b) = Clamp(boxes[b], prev[b]) /\ Since(b)' = Clamp(boxes[b] + 1, prev[b])
            BY <2>2, <4>1, <5>2 DEF Since
          <6>3. /\ Clamp(boxes[b], prev[b]) \in Nat
                /\ Clamp(boxes[b] + 1, prev[b]) \in Nat
                /\ Clamp(boxes[b] + 1, prev[b]) <= Clamp(boxes[b], prev[b]) + 1
            BY <3>0, <6>1, ClampIs
          <6> QED BY <6>2, <6>3
        <5> QED BY <5>1, <5>2
      <4> QED BY <3>0, <4>1, <4>2
    <3> QED BY <3>1, <3>2
  <2> QED BY <2>2, <2>3 DEF BoxesHold, Honest, Row
<1> QED BY <1>1, <1>2 DEF Flow

LEMMA ResetBoxes ==
  ASSUME BoxesOK, BoxesHold, Reset
  PROVE  BoxesOK' /\ BoxesHold'
<1>1. CASE KeepBoxes
  BY <1>1 DEF Reset, KeepStore, KeepBoxes, BoxesOK, BoxesHold, Since, Honest, Row
<1>2. CASE \E c \in Containers : boxes' = [boxes EXCEPT ![c] = 0] /\ UNCHANGED <<count, used>>
  <2>1. PICK c \in Containers : boxes' = [boxes EXCEPT ![c] = 0] /\ UNCHANGED used
    BY <1>2
  <2>2. BoxesOK' /\ UNCHANGED <<rows, prev, marked, used>>
    BY <2>1 DEF Reset, KeepStore, BoxesOK
  <2>3. ASSUME NEW b \in Containers
        PROVE  Since(b)' <= used[b] - marked[b]
    <3>0. /\ used[b] \in Nat /\ marked[b] \in Nat
          /\ marked[b] <= used[b] /\ Since(b) <= used[b] - marked[b]
      BY DEF BoxesOK, BoxesHold
    <3>1. CASE b # c
      <4>1. boxes'[b] = boxes[b]
        BY <2>1, <3>1 DEF BoxesOK
      <4>2. Since(b)' = Since(b)
        BY <2>2, <4>1 DEF Since
      <4> QED BY <3>0, <4>2
    <3>2. CASE b = c
      <4>1. boxes'[b] = 0 /\ prev' = prev /\ prev[b] \in Nat \cup {NoEntry}
        BY <2>1, <2>2, <3>2 DEF BoxesOK
      <4>2. Since(b)' = 0
        BY <4>1, ClampIs DEF Since
      <4> QED BY <3>0, <4>2
    <3> QED BY <3>1, <3>2
  <2> QED BY <2>2, <2>3 DEF BoxesHold, Honest, Row
<1> QED BY <1>1, <1>2 DEF Reset

LEMMA StatsBoxes ==
  ASSUME BoxesOK, RowsOK, BoxesHold, Stats(Ticker)
  PROVE  BoxesOK' /\ RowsOK' /\ BoxesHold'
<1>0. UNCHANGED <<boxes, used, tick>>
  BY DEF Stats, KeepBoxes
<1>1. rows' \in Seq(Honest)
  <2>1. CASE UNCHANGED rows
    BY <2>1 DEF BoxesHold
  <2>2. CASE Insert
    <3> DEFINE new == [i \in DOMAIN Listing |->
            LET b == Listing[i] IN
            [at |-> tick, of |-> b, delta |-> Since(b), moved |-> used[b] - marked[b]]]
    <3>1. ASSUME NEW i \in DOMAIN Listing PROVE new[i] \in Honest
      <4>1. Listing[i] \in Containers
        BY DEF Containers, Range
      <4>2. Since(Listing[i]) \in Nat
        BY <4>1, SinceIs
      <4>3. /\ used[Listing[i]] \in Nat /\ marked[Listing[i]] \in Nat
            /\ marked[Listing[i]] <= used[Listing[i]]
            /\ Since(Listing[i]) <= used[Listing[i]] - marked[Listing[i]]
        BY <4>1 DEF BoxesOK, BoxesHold
      <4> QED BY <4>1, <4>2, <4>3 DEF Honest, Row, RowsOK
    <3>2. new \in Seq(Honest)
      <4>1. DOMAIN new = 1..Len(Listing) /\ Len(Listing) \in Nat
        BY MonitoringAssumption
      <4> QED BY <3>1, <4>1
    <3> HIDE DEF new
    <3>3. rows' = rows \o new
      BY <2>2 DEF Insert, new
    <3> QED BY <3>2, <3>3 DEF BoxesHold
  <2> QED BY <2>1, <2>2 DEF Stats
<1>2. rows' \in Seq(Row)
  BY <1>1 DEF Honest
<1>3. CASE UNCHANGED <<prev, marked>>
  BY <1>0, <1>1, <1>2, <1>3 DEF BoxesOK, RowsOK, BoxesHold, Since, Honest, Row
<1>4. CASE prev' = boxes /\ marked' = used
  <2>1. BoxesOK' /\ RowsOK'
    BY <1>0, <1>2, <1>4 DEF BoxesOK, RowsOK
  <2>2. ASSUME NEW b \in Containers
        PROVE  marked'[b] <= used'[b] /\ Since(b)' <= used'[b] - marked'[b]
    <3>1. boxes[b] \in Nat /\ used[b] \in Nat /\ NoEntry \notin Nat
      BY MonitoringAssumption DEF BoxesOK
    <3>2. Since(b)' = Clamp(boxes[b], boxes[b])
      BY <1>0, <1>4, <3>1 DEF Since
    <3>3. Clamp(boxes[b], boxes[b]) = 0
      BY <3>1, ClampIs
    <3> QED BY <1>0, <1>4, <3>1, <3>2, <3>3
  <2> QED BY <1>1, <2>1, <2>2 DEF BoxesHold, Honest, Row
<1> QED BY <1>3, <1>4 DEF Stats

LEMMA PruneBoxes ==
  ASSUME BoxesOK, RowsOK, BoxesHold, PruneRows(Ticker)
  PROVE  BoxesOK' /\ RowsOK' /\ BoxesHold'
<1>0. UNCHANGED <<boxes, used, prev, marked, tick>>
  BY DEF PruneRows, KeepBoxes
<1>1. rows' \in Seq(Honest)
  <2>1. CASE UNCHANGED rows
    BY <2>1 DEF BoxesHold
  <2>2. CASE Delete
    <3> DEFINE I == {i \in DOMAIN rows : rows[i].at >= tick - Keep}
    <3>1. I \in SUBSET (DOMAIN rows) /\ rows \in Seq(Honest)
      BY DEF BoxesHold
    <3> HIDE DEF I
    <3>2. SelectAt(rows, I) \in Seq(Honest)
      BY <3>1, SelectAtIsSeq
    <3> QED BY <2>2, <3>2 DEF Delete, I
  <2> QED BY <2>1, <2>2 DEF PruneRows
<1>2. rows' \in Seq(Row)
  BY <1>1 DEF Honest
<1> QED BY <1>0, <1>1, <1>2 DEF BoxesOK, RowsOK, BoxesHold, Since, Honest, Row

-----------------------------------------------------------------------------
(* The goroutines that collect.                                            *)

\* What a step of c does to the others.
LEMMA GoesOn ==
  ASSUME CallersOK, NEW c \in Callers, NEW p \in Phases, GoOn(c, p)
  PROVE  /\ phase' \in [Callers -> Phases] /\ phase'[c] = p
         /\ \A d \in Callers \ {c} : phase'[d] = phase[d]
  BY DEF CallersOK, GoOn

LEMMA Reads ==
  ASSUME CallersOK, NEW c \in Callers, NEW r \in Reading,
         reading' = [reading EXCEPT ![c] = r]
  PROVE  /\ reading' \in [Callers -> Reading] /\ reading'[c] = r
         /\ \A d \in Callers \ {c} : reading'[d] = reading[d]
  BY DEF CallersOK

LEMMA NoReadingIs == NoReading \in Reading /\ \A k \in Kinds : NoReading.got[k] = 0
  BY DEF NoReading, Reading, Kinds

LEMMA Retires ==
  ASSUME CallersOK, NEW c \in Callers, Retire(c)
  PROVE  /\ CallersOK' /\ phase'[c] = "idle" /\ reading'[c] = NoReading
         /\ \A d \in Callers \ {c} : phase'[d] = phase[d] /\ reading'[d] = reading[d]
<1>1. "idle" \in Phases
  BY DEF Phases
<1> QED BY <1>1, GoesOn, Reads, NoReadingIs DEF Retire, CallersOK

\* c is not about to put anything, neither before nor after; what was got may
\* be dropped.
LEMMA AsideHolds ==
  ASSUME CountersOK, CallersOK, CallersOK', NEW c \in Callers, NEW k \in Kinds,
         phase[c] \notin {"take", "put"}, phase'[c] \notin {"take", "put"},
         \A d \in Callers \ {c} : phase'[d] = phase[d] /\ reading'[d] = reading[d],
         UNCHANGED <<count, flown, last>>,
         Taken(k) \in Nat, Taken(k)' \in Nat, Taken(k)' <= Taken(k),
         FlowIsReal(k)
  PROVE  FlowIsReal(k)'
<1>1. \A d \in Callers : Holds(d, k)' <=> Holds(d, k)
  BY DEF Holds
<1>2. ASSUME NEW d \in Callers, Holds(d, k)
      PROVE  /\ reading'[d].cur = reading[d].cur /\ Against(d, k)' = Against(d, k)
             /\ reading[d].cur \in Nat /\ Against(d, k) \in Nat
  BY <1>2 DEF Holds, Against, CallersOK, Reading, CountersOK
<1>3. count[k] \in Nat /\ last[k] \in Nat /\ flown[k] \in Nat
  BY DEF CountersOK
<1>4. ASSUME NEW d \in Callers, Holds(d, k)
      PROVE  Taken(k)' + Clamp(reading[d].cur, Against(d, k)) + Clamp(count[k], reading[d].cur)
               <= flown[k]
  <2>1. /\ Clamp(reading[d].cur, Against(d, k)) \in Nat
        /\ Clamp(count[k], reading[d].cur) \in Nat
    BY <1>2, <1>3, <1>4, ClampIs
  <2>2. Taken(k) + Clamp(reading[d].cur, Against(d, k)) + Clamp(count[k], reading[d].cur)
               <= flown[k]
    BY <1>4 DEF FlowIsReal
  <2> HIDE DEF Taken
  <2> QED BY <1>3, <2>1, <2>2
<1>5. (\A d \in Callers : ~Holds(d, k)) => Taken(k)' + Clamp(count[k], last[k]) <= flown[k]
  <2>1. Clamp(count[k], last[k]) \in Nat
    BY <1>3, ClampIs
  <2> QED BY <1>3, <2>1 DEF FlowIsReal
<1> QED BY <1>1, <1>2, <1>4, <1>5 DEF FlowIsReal, Clamp

LEMMA TakenIs ==
  ASSUME CountersOK, CallersOK, NEW k \in Kinds
  PROVE  Taken(k) \in Nat /\ stored[k] \in Nat /\ reading[Ticker].got[k] \in Nat
<1>1. Ticker \in Callers
  BY DEF Callers
<1>2. stored[k] \in Nat
  BY DEF CountersOK
<1>3. reading[Ticker].got[k] \in Nat
  BY <1>1 DEF CallersOK, Reading
<1> QED BY <1>2, <1>3 DEF Taken

\* Who collects alone is the only one that can hold anything.
LEMMA AloneHolds ==
  ASSUME OneCollects, NEW c \in Callers, Collects(c)
  PROVE  /\ \A d \in Callers \ {c}, k \in Kinds : ~Holds(d, k)
         /\ \A d \in Callers \ {c} : ~Collects(d)
  BY DEF OneCollects, Collects, Holds

LEMMA StaysOne ==
  ASSUME OneCollects, \A d \in Callers : Collects(d)' => Collects(d)
  PROVE  OneCollects'
  BY DEF OneCollects

-----------------------------------------------------------------------------
(* One lemma for each step that the host's history depends on.             *)

LEMMA BeginHolds ==
  ASSUME MonitoringTypeOK, HostHolds, NEW c \in Callers, Begin(c)
  PROVE  CallersOK' /\ HostHolds'
<1>0. CountersOK /\ CallersOK /\ LimitsOK
  BY TypesAre
<1>1. /\ phase[c] = "idle" /\ phase'[c] = "read" /\ phase' \in [Callers -> Phases]
      /\ \A d \in Callers \ {c} : phase'[d] = phase[d]
  BY <1>0, GoesOn DEF Begin, Stands, Phases
<1>2. UNCHANGED <<reading, count, flown, last, stored>>
  BY DEF Begin, KeepCounters, KeepStore
<1>3. CallersOK' /\ CountersOK'
  BY <1>0, <1>1, <1>2 DEF CallersOK, CountersOK
<1>4. ASSUME upsets' = {} PROVE OneCollects' /\ \A k \in Kinds : FlowIsReal(k)'
  <2>1. upsets = {} /\ \A d \in Callers \ {c} : ~Collects(d)
    BY <1>4 DEF Begin, Note, Collects
  <2>2. OneCollects'
    BY <1>1, <2>1 DEF OneCollects, Collects
  <2>3. ASSUME NEW k \in Kinds PROVE FlowIsReal(k)'
    <3>1. Taken(k) \in Nat /\ Taken(k)' = Taken(k)
      BY <1>0, <1>2, TakenIs DEF Taken
    <3>2. FlowIsReal(k)
      BY <2>1 DEF HostHolds
    <3> QED BY <1>0, <1>1, <1>2, <1>3, <3>1, <3>2, AsideHolds
  <2> QED BY <2>2, <2>3
<1> QED BY <1>3, <1>4 DEF HostHolds

\* c counts nothing new, and what was got may be dropped.
LEMMA AsideHost ==
  ASSUME MonitoringTypeOK, HostHolds, CountersOK', CallersOK', NEW c \in Callers,
         phase[c] \notin {"take", "put"}, phase'[c] \notin {"take", "put"},
         Collects(c)' => Collects(c),
         \A d \in Callers \ {c} : phase'[d] = phase[d] /\ reading'[d] = reading[d],
         UNCHANGED <<count, flown, last, upsets>>,
         \A k \in Kinds : Taken(k)' <= Taken(k)
  PROVE  HostHolds'
<1>0. CountersOK /\ CallersOK
  BY TypesAre
<1>1. ASSUME upsets' = {} PROVE OneCollects' /\ \A k \in Kinds : FlowIsReal(k)'
  <2>1. OneCollects /\ \A k \in Kinds : FlowIsReal(k)
    BY <1>1 DEF HostHolds
  <2>2. \A d \in Callers : Collects(d)' => Collects(d)
    BY DEF Collects
  <2>3. OneCollects'
    BY <2>1, <2>2, StaysOne
  <2>4. ASSUME NEW k \in Kinds PROVE FlowIsReal(k)'
    <3>1. Taken(k) \in Nat /\ Taken(k)' \in Nat
      <4>1. Taken(k) \in Nat
        BY <1>0, TakenIs
      <4>2. Ticker \in Callers
        BY DEF Callers
      <4>3. stored'[k] \in Nat /\ reading'[Ticker].got[k] \in Nat
        BY <4>2 DEF CountersOK, CallersOK, Reading
      <4> QED BY <4>1, <4>3 DEF Taken
    <3>2. Taken(k)' <= Taken(k) /\ FlowIsReal(k)
      BY <2>1
    <3> QED BY <1>0, <3>1, <3>2, AsideHolds
  <2> QED BY <2>3, <2>4
<1> QED BY <1>1 DEF HostHolds

LEMMA FlowHost ==
  ASSUME MonitoringTypeOK, HostHolds, Flow
  PROVE  CountersOK' /\ HostHolds'
<1>0. CountersOK /\ CallersOK
  BY TypesAre
<1>1. UNCHANGED <<last, stored, phase, reading, upsets>>
  BY DEF Flow, KeepStore, Unnoted
<1>2. CASE UNCHANGED <<count, flown>>
  BY <1>0, <1>1, <1>2
     DEF CountersOK, HostHolds, OneCollects, Collects, FlowIsReal, Taken, Holds, Against
<1>3. ASSUME NEW j \in Kinds, count' = [count EXCEPT ![j] = @ + 1],
             flown' = [flown EXCEPT ![j] = @ + 1]
      PROVE  CountersOK' /\ HostHolds'
  <2>1. CountersOK'
    BY <1>0, <1>1, <1>3 DEF CountersOK
  <2>2. ASSUME NEW k \in Kinds, FlowIsReal(k) PROVE FlowIsReal(k)'
    <3>0. count[k] \in Nat /\ flown[k] \in Nat /\ last[k] \in Nat /\ Taken(k) \in Nat
      BY <1>0, TakenIs DEF CountersOK
    <3>1. /\ Taken(k)' = Taken(k) /\ last'[k] = last[k]
          /\ \A d \in Callers : /\ Holds(d, k)' <=> Holds(d, k)
                              /\ Against(d, k)' = Against(d, k)
      BY <1>1 DEF Taken, Holds, Against
    <3>2. \/ count'[k] = count[k] /\ flown'[k] = flown[k]
          \/ count'[k] = count[k] + 1 /\ flown'[k] = flown[k] + 1
      BY <1>0, <1>3 DEF CountersOK
    <3>3. ASSUME NEW x \in Nat
          PROVE  /\ Clamp(count[k], x) \in Nat /\ Clamp(count'[k], x) \in Nat
                 /\ Clamp(count'[k], x) - Clamp(count[k], x) <= flown'[k] - flown[k]
      <4>1. /\ Clamp(count[k], x) \in Nat /\ Clamp(count[k] + 1, x) \in Nat
            /\ Clamp(count[k] + 1, x) <= Clamp(count[k], x) + 1
        BY <3>0, ClampIs
      <4>2. flown[k] \in Nat
        BY <3>0
      <4>3. CASE count'[k] = count[k] /\ flown'[k] = flown[k]
        BY <4>1, <4>2, <4>3
      <4>4. CASE count'[k] = count[k] + 1 /\ flown'[k] = flown[k] + 1
        BY <4>1, <4>2, <4>4
      <4> QED BY <3>2, <4>3, <4>4
    <3>4. ASSUME NEW d \in Callers, Holds(d, k)
          PROVE  Taken(k) + Clamp(reading[d].cur, Against(d, k)) + Clamp(count'[k], reading[d].cur)
                   <= flown'[k]
      <4>1. reading[d].cur \in Nat /\ Against(d, k) \in Nat
        BY <1>0, <3>0 DEF CallersOK, Reading, Against
      <4>2. Clamp(reading[d].cur, Against(d, k)) \in Nat
        BY <4>1, ClampIs
      <4>3. Taken(k) + Clamp(reading[d].cur, Against(d, k)) + Clamp(count[k], reading[d].cur)
              <= flown[k]
        BY <2>2, <3>4 DEF FlowIsReal
      <4>4. flown'[k] \in Nat
        BY <2>1 DEF CountersOK
      <4> HIDE DEF Taken
      <4> QED BY <3>0, <3>3, <4>1, <4>2, <4>3, <4>4
    <3>5. (\A d \in Callers : ~Holds(d, k)) => Taken(k) + Clamp(count'[k], last[k]) <= flown'[k]
      <4>1. flown'[k] \in Nat
        BY <2>1 DEF CountersOK
      <4> QED BY <2>2, <3>0, <3>3, <4>1 DEF FlowIsReal
    <3> QED BY <1>1, <3>1, <3>4, <3>5 DEF FlowIsReal, Clamp
  <2> QED BY <1>1, <2>1, <2>2 DEF HostHolds, OneCollects, Collects
<1> QED BY <1>2, <1>3 DEF Flow, KeepCounters

LEMMA ResetHost ==
  ASSUME MonitoringTypeOK, HostHolds, Reset
  PROVE  CountersOK' /\ HostHolds'
<1>0. CountersOK /\ CallersOK
  BY TypesAre
<1>1. UNCHANGED <<flown, last, stored, phase, reading, upsets>>
  BY DEF Reset, KeepStore, Unnoted
<1>2. CASE UNCHANGED count
  BY <1>0, <1>1, <1>2
     DEF CountersOK, HostHolds, OneCollects, Collects, FlowIsReal, Taken, Holds, Against
<1>3. CASE count' = [count EXCEPT !["net"] = 0]
  <2>1. CountersOK'
    <3>1. count' \in [Kinds -> Nat]
      BY <1>0, <1>3 DEF CountersOK
    <3> QED BY <1>0, <1>1, <3>1 DEF CountersOK
  <2>2. ASSUME NEW k \in Kinds, FlowIsReal(k) PROVE FlowIsReal(k)'
    <3>0. count[k] \in Nat /\ flown[k] \in Nat /\ last[k] \in Nat /\ Taken(k) \in Nat
      BY <1>0, TakenIs DEF CountersOK
    <3>1. /\ Taken(k)' = Taken(k)
          /\ \A d \in Callers : /\ Holds(d, k)' <=> Holds(d, k)
                              /\ Against(d, k)' = Against(d, k)
      BY <1>1 DEF Taken, Holds, Against
    <3>2. count'[k] = count[k] \/ count'[k] = 0
      BY <1>0, <1>3 DEF CountersOK
    <3>3. ASSUME NEW x \in Nat
          PROVE  /\ Clamp(count[k], x) \in Nat /\ Clamp(count'[k], x) \in Nat
                 /\ Clamp(count'[k], x) <= Clamp(count[k], x)
      <4>1. Clamp(count[k], x) \in Nat /\ Clamp(0, x) = 0
        BY <3>0, ClampIs
      <4>2. CASE count'[k] = count[k]
        BY <4>1, <4>2
      <4>3. CASE count'[k] = 0
        BY <4>1, <4>3
      <4> QED BY <3>2, <4>2, <4>3
    <3>4. ASSUME NEW d \in Callers, Holds(d, k)
          PROVE  Taken(k) + Clamp(reading[d].cur, Against(d, k)) + Clamp(count'[k], reading[d].cur)
                   <= flown[k]
      <4>1. reading[d].cur \in Nat /\ Against(d, k) \in Nat
        BY <1>0, <3>0 DEF CallersOK, Reading, Against
      <4>2. Clamp(reading[d].cur, Against(d, k)) \in Nat
        BY <4>1, ClampIs
      <4>3. Taken(k) + Clamp(reading[d].cur, Against(d, k)) + Clamp(count[k], reading[d].cur)
              <= flown[k]
        BY <2>2, <3>4 DEF FlowIsReal
      <4> HIDE DEF Taken
      <4> QED BY <3>0, <3>3, <4>1, <4>2, <4>3
    <3>5. (\A d \in Callers : ~Holds(d, k)) => Taken(k) + Clamp(count'[k], last[k]) <= flown[k]
      BY <2>2, <3>0, <3>3 DEF FlowIsReal
    <3> QED BY <1>1, <3>1, <3>4, <3>5 DEF FlowIsReal, Clamp
  <2> QED BY <1>1, <2>1, <2>2 DEF HostHolds, OneCollects, Collects
<1> QED BY <1>2, <1>3 DEF Reset

\* c alone collects; what the others hold is nothing, and what c had of
\* the other counter is untouched.
LEMMA ReadHost ==
  ASSUME MonitoringTypeOK, HostHolds, NEW c \in Callers, Read(c)
  PROVE  CallersOK' /\ HostHolds'
<1>0. CountersOK /\ CallersOK
  BY TypesAre
<1>1. /\ phase[c] = "read" /\ UNCHANGED <<count, flown, last, stored>>
      /\ upsets \subseteq upsets'
  BY DEF Read, Stands, KeepCounters, KeepStore, Note, Unnoted
<1>2. CountersOK'
  BY <1>0, <1>1 DEF CountersOK
<1>r. /\ reading[c] \in Reading /\ reading[c].kind \in Kinds
      /\ reading[c] = [kind |-> reading[c].kind, cur |-> reading[c].cur,
                       old |-> reading[c].old, got |-> reading[c].got]
  BY <1>0 DEF CallersOK, Reading
<1> DEFINE k == reading[c].kind
<1>3. CASE /\ reading' = [reading EXCEPT ![c].cur = count[k]]
           /\ GoOn(c, "take") /\ Unnoted
  <2>1. /\ phase' \in [Callers -> Phases] /\ phase'[c] = "take"
        /\ \A d \in Callers \ {c} : phase'[d] = phase[d]
    BY <1>0, <1>3, GoesOn DEF Phases
  <2>2. count[k] \in Nat
    BY <1>0, <1>r DEF CountersOK
  <2>3. /\ reading' \in [Callers -> Reading]
        /\ reading'[c].cur = count[k] /\ reading'[c].kind = k
        /\ reading'[c].got = reading[c].got
        /\ \A d \in Callers \ {c} : reading'[d] = reading[d]
    BY <1>0, <1>3, <2>2 DEF CallersOK, Reading
  <2>4. ASSUME upsets' = {} PROVE OneCollects' /\ \A j \in Kinds : FlowIsReal(j)'
    <3>1. OneCollects /\ \A j \in Kinds : FlowIsReal(j)
      BY <1>1, <2>4 DEF HostHolds
    <3>2. OneCollects'
      <4>1. \A d \in Callers : Collects(d)' => Collects(d)
        BY <1>1, <2>1 DEF Collects
      <4> QED BY <3>1, <4>1, StaysOne
    <3>3. ASSUME NEW j \in Kinds PROVE FlowIsReal(j)'
      <4>0. count[j] \in Nat /\ last[j] \in Nat /\ flown[j] \in Nat /\ Taken(j) \in Nat
        BY <1>0, TakenIs DEF CountersOK
      <4>1. \A d \in Callers : ~Holds(d, j)
        <5>1. Collects(c) /\ ~Holds(c, j)
          BY <1>1 DEF Collects, Holds
        <5> QED BY <3>1, <5>1, AloneHolds
      <4>2. Taken(j) + Clamp(count[j], last[j]) <= flown[j]
        BY <3>1, <4>1 DEF FlowIsReal
      <4>3. Taken(j)' = Taken(j)
        <5>1. reading'[Ticker].got = reading[Ticker].got
          BY <2>3 DEF Callers
        <5> QED BY <1>1, <5>1 DEF Taken
      <4>4. \A d \in Callers \ {c} : ~Holds(d, j)'
        BY <2>1, <2>3, <4>1 DEF Holds
      <4>5. Holds(c, j)' => j = k
        BY <2>3 DEF Holds
      <4>6. j = k => Holds(c, j)' /\ reading'[c].cur = count[j] /\ Against(c, j)' = last[j]
        BY <1>1, <2>1, <2>3 DEF Holds, Against
      <4>7. Clamp(count[j], count[j]) = 0 /\ Clamp(count[j], last[j]) \in Nat
        BY <4>0, ClampIs
      <4>8. ASSUME NEW d \in Callers, Holds(d, j)'
            PROVE  (Taken(j) + Clamp(reading[d].cur, Against(d, j))
                      + Clamp(count[j], reading[d].cur) <= flown[j])'
        <5>1. d = c /\ j = k
          BY <4>4, <4>5, <4>8
        <5>2. /\ (Clamp(reading[d].cur, Against(d, j)) = Clamp(count[j], last[j]))'
              /\ (Clamp(count[j], reading[d].cur) = Clamp(count[j], count[j]))'
          BY <1>1, <4>6, <5>1
        <5>3. /\ (Clamp(count[j], last[j]))' = Clamp(count[j], last[j])
              /\ (Clamp(count[j], count[j]))' = Clamp(count[j], count[j])
          BY <1>1
        <5> HIDE DEF Taken
        <5> QED BY <1>1, <4>0, <4>2, <4>3, <4>7, <5>2, <5>3
      <4>9. (Taken(j) + Clamp(count[j], last[j]) <= flown[j])'
        BY <1>1, <4>2, <4>3 DEF Clamp
      <4> QED BY <4>8, <4>9 DEF FlowIsReal
    <3> QED BY <3>2, <3>3
  <2> QED BY <2>1, <2>3, <2>4 DEF HostHolds, CallersOK
<1>4. CASE /\ reading' = [reading EXCEPT ![c].cur = 0]
           /\ GoOn(c, "take") /\ Note({"missed"})
  <2>1. phase' \in [Callers -> Phases]
    BY <1>0, <1>4, GoesOn DEF Phases
  <2>2. reading' \in [Callers -> Reading]
    BY <1>0, <1>4 DEF CallersOK, Reading
  <2>3. upsets' # {}
    BY <1>4 DEF Note
  <2> QED BY <2>1, <2>2, <2>3 DEF HostHolds, CallersOK
<1>5. CASE k # "net" /\ GoOn(c, After(c)) /\ reading' = Turn(c) /\ Unnoted
  <2>1. After(c) = "done" /\ "done" \in Phases
    BY <1>5 DEF After, Phases
  <2>2. /\ phase' \in [Callers -> Phases] /\ phase'[c] = "done"
        /\ \A d \in Callers \ {c} : phase'[d] = phase[d]
    BY <1>0, <1>5, <2>1, GoesOn
  <2>3. /\ reading' \in [Callers -> Reading] /\ reading'[c].got = reading[c].got
        /\ \A d \in Callers \ {c} : reading'[d] = reading[d]
    BY <1>0, <1>5 DEF Turn, CallersOK, Reading, Kinds
  <2>4. CallersOK'
    BY <2>2, <2>3 DEF CallersOK
  <2>5. \A j \in Kinds : Taken(j)' <= Taken(j)
    <3>1. reading'[Ticker].got = reading[Ticker].got
      BY <2>3 DEF Callers
    <3>2. \A j \in Kinds : Taken(j) \in Nat /\ Taken(j)' = Taken(j)
      BY <1>0, <1>1, <3>1, TakenIs DEF Taken
    <3> HIDE DEF Taken
    <3> QED BY <3>2
  <2>6. HostHolds'
    BY <1>1, <1>2, <1>5, <2>2, <2>3, <2>4, <2>5, AsideHost DEF Collects, Unnoted
  <2> QED BY <2>4, <2>6
<1> QED BY <1>3, <1>4, <1>5 DEF Read

LEMMA TakeHost ==
  ASSUME MonitoringTypeOK, HostHolds, NEW c \in Callers, Take(c)
  PROVE  CallersOK' /\ HostHolds'
<1>0. CountersOK /\ CallersOK
  BY TypesAre
<1>1. phase[c] = "take" /\ UNCHANGED <<count, flown, last, stored, upsets>>
  BY DEF Take, Stands, KeepCounters, KeepStore, Unnoted
<1>2. /\ phase' \in [Callers -> Phases] /\ phase'[c] = "put"
      /\ \A d \in Callers \ {c} : phase'[d] = phase[d]
  BY <1>0, GoesOn DEF Take, Phases
<1>3. /\ reading' \in [Callers -> Reading]
      /\ reading'[c].old = last[reading[c].kind] /\ reading'[c].kind = reading[c].kind
      /\ reading'[c].cur = reading[c].cur /\ reading'[c].got = reading[c].got
      /\ \A d \in Callers \ {c} : reading'[d] = reading[d]
  BY <1>0 DEF Take, CountersOK, CallersOK, Reading
<1>5. ASSUME NEW k \in Kinds, FlowIsReal(k) PROVE FlowIsReal(k)'
  <2>0. Taken(k)' = Taken(k)
    <3>1. reading'[Ticker].got = reading[Ticker].got
      BY <1>3 DEF Callers
    <3> QED BY <1>1, <3>1 DEF Taken
  <2>1. ASSUME NEW d \in Callers, Holds(d, k)'
        PROVE  (Taken(k) + Clamp(reading[d].cur, Against(d, k))
                  + Clamp(count[k], reading[d].cur) <= flown[k])'
    <3>1. /\ Holds(d, k) /\ reading'[d].cur = reading[d].cur
          /\ Against(d, k)' = Against(d, k)
      BY <1>1, <1>2, <1>3, <2>1 DEF Holds, Against
    <3>2. Taken(k) + Clamp(reading[d].cur, Against(d, k)) + Clamp(count[k], reading[d].cur)
            <= flown[k]
      BY <1>5, <3>1 DEF FlowIsReal
    <3>3. /\ Clamp(reading[d].cur, Against(d, k))' = Clamp(reading[d].cur, Against(d, k))
          /\ Clamp(count[k], reading[d].cur)' = Clamp(count[k], reading[d].cur)
      BY <1>1, <3>1
    <3> QED BY <1>1, <2>0, <3>2, <3>3
  <2>2. (\A d \in Callers : ~Holds(d, k)') => (\A d \in Callers : ~Holds(d, k))
    BY <1>1, <1>2, <1>3 DEF Holds
  <2>3. (\A d \in Callers : ~Holds(d, k)) => (Taken(k) + Clamp(count[k], last[k]) <= flown[k])'
    BY <1>1, <1>5, <2>0 DEF FlowIsReal, Clamp
  <2> QED BY <2>1, <2>2, <2>3 DEF FlowIsReal
<1>6. OneCollects => OneCollects'
  BY <1>1, <1>2, StaysOne DEF Collects
<1> QED BY <1>1, <1>2, <1>3, <1>5, <1>6 DEF CallersOK, HostHolds

LEMMA PutHost ==
  ASSUME MonitoringTypeOK, HostHolds, NEW c \in Callers, Put(c)
  PROVE  CountersOK' /\ CallersOK' /\ HostHolds'
<1>0. CountersOK /\ CallersOK
  BY TypesAre
<1> DEFINE k == reading[c].kind
<1>1. phase[c] = "put" /\ UNCHANGED <<count, flown, stored, upsets>>
  BY DEF Put, Stands, KeepCounters, KeepStore, Unnoted
<1>2. k \in Kinds /\ reading[c].cur \in Nat /\ reading[c].old \in Nat /\ reading[c] \in Reading
  BY <1>0 DEF CallersOK, Reading
<1>3. /\ last' = [last EXCEPT ![k] = reading[c].cur] /\ last' \in [Kinds -> Nat]
      /\ CountersOK'
  BY <1>0, <1>1, <1>2 DEF Put, CountersOK
<1>4. /\ phase' \in [Callers -> Phases] /\ phase'[c] \in {"read", "done"}
      /\ \A d \in Callers \ {c} : phase'[d] = phase[d]
  <2>1. After(c) \in {"read", "done"} /\ After(c) \in Phases
    BY DEF After, Phases
  <2> QED BY <1>0, <2>1, GoesOn DEF Put
<1>5. Delta(c) \in Nat /\ Delta(c) = Clamp(reading[c].cur, reading[c].old)
  BY <1>2, ClampIs DEF Delta
<1>6. /\ reading' \in [Callers -> Reading]
      /\ reading'[c].got = [reading[c].got EXCEPT ![k] = Delta(c)]
      /\ \A d \in Callers \ {c} : reading'[d] = reading[d]
  <2>1. /\ Turn(c) \in [Callers -> Reading] /\ Turn(c)[c].got = reading[c].got
        /\ \A d \in Callers \ {c} : Turn(c)[d] = reading[d]
    BY <1>0 DEF Turn, CallersOK, Reading, Kinds
  <2>2. reading' = [Turn(c) EXCEPT ![c].got[k] = Delta(c), ![c].cur = 0, ![c].old = 0]
    BY DEF Put
  <2> HIDE DEF k
  <2>3. reading' = [Turn(c) EXCEPT ![c] = [Turn(c)[c] EXCEPT
                      !.got = [Turn(c)[c].got EXCEPT ![k] = Delta(c)], !.cur = 0, !.old = 0]]
    BY <2>1, <2>2 DEF Reading
  <2>4. [Turn(c)[c].got EXCEPT ![k] = Delta(c)] \in [Kinds -> Nat]
    BY <1>2, <1>5, <2>1 DEF Reading
  <2>5. Turn(c)[c] \in Reading
    BY <2>1
  <2> DEFINE r == [Turn(c)[c] EXCEPT
                     !.got = [Turn(c)[c].got EXCEPT ![k] = Delta(c)], !.cur = 0, !.old = 0]
  <2>6. r \in Reading /\ r.got = [reading[c].got EXCEPT ![k] = Delta(c)]
    BY <2>1, <2>4, <2>5 DEF Reading
  <2> HIDE DEF r
  <2>7. reading' = [Turn(c) EXCEPT ![c] = r]
    BY <2>3 DEF r
  <2> QED BY <2>1, <2>6, <2>7
<1>7. ASSUME upsets' = {} PROVE OneCollects' /\ \A j \in Kinds : FlowIsReal(j)'
  <2>1. OneCollects /\ \A j \in Kinds : FlowIsReal(j)
    BY <1>1, <1>7 DEF HostHolds
  <2>2. OneCollects'
    BY <1>1, <1>4, <2>1, StaysOne DEF Collects
  <2>3. ASSUME NEW j \in Kinds PROVE FlowIsReal(j)'
    <3>0. /\ count[j] \in Nat /\ last[j] \in Nat /\ flown[j] \in Nat /\ Taken(j) \in Nat
          /\ stored[j] \in Nat /\ reading[Ticker].got[j] \in Nat
      BY <1>0, TakenIs DEF CountersOK
    <3>1. \A d \in Callers \ {c} : ~Holds(d, j)
      BY <1>1, <2>1, AloneHolds DEF Collects
    <3>2. \A d \in Callers : ~Holds(d, j)'
      BY <1>4, <1>6, <3>1 DEF Holds
    <3>3. (Taken(j) + Clamp(count[j], last[j]) <= flown[j])'
      <4>1. CASE j = k
        <5>1. Holds(c, j) /\ Against(c, j) = reading[c].old
          BY <1>1, <4>1 DEF Holds, Against
        <5>2. Taken(j) + Delta(c) + Clamp(count[j], reading[c].cur) <= flown[j]
          BY <1>5, <2>1, <5>1 DEF FlowIsReal
        <5>3. Taken(j)' <= Taken(j) + Delta(c) /\ Taken(j)' \in Nat
          <6>1. CASE c = Ticker
            <7>1. reading'[Ticker].got[j] = Delta(c)
              BY <1>2, <1>6, <4>1, <6>1 DEF Reading
            <7> QED BY <1>1, <1>5, <3>0, <7>1 DEF Taken
          <6>2. CASE c # Ticker
            <7>1. reading'[Ticker] = reading[Ticker]
              BY <1>6, <6>2 DEF Callers
            <7>2. Taken(j)' = Taken(j)
              BY <1>1, <7>1 DEF Taken
            <7> HIDE DEF Taken, Delta
            <7> QED BY <1>5, <3>0, <7>2
          <6> QED BY <6>1, <6>2
        <5>4. last'[j] = reading[c].cur
          BY <1>0, <1>3, <4>1 DEF CountersOK
        <5>5. Clamp(count[j], last[j])' = Clamp(count[j], reading[c].cur)
          BY <1>1, <5>4 DEF Clamp
        <5>6. Clamp(count[j], reading[c].cur) \in Nat
          BY <1>2, <3>0, ClampIs
        <5> HIDE DEF Taken, Delta
        <5> QED BY <1>1, <1>5, <3>0, <5>2, <5>3, <5>5, <5>6
      <4>2. CASE j # k
        <5>1. ~Holds(c, j)
          BY <4>2 DEF Holds
        <5>2. Taken(j) + Clamp(count[j], last[j]) <= flown[j]
          BY <2>1, <3>1, <5>1 DEF FlowIsReal
        <5>3. last'[j] = last[j]
          BY <1>0, <1>3, <4>2 DEF CountersOK
        <5>4. reading'[Ticker].got[j] = reading[Ticker].got[j]
          BY <1>2, <1>6, <4>2 DEF Reading, Callers
        <5>5. Taken(j)' = Taken(j)
          BY <1>1, <5>4 DEF Taken
        <5> QED BY <1>1, <5>2, <5>3, <5>5 DEF Clamp
      <4> QED BY <4>1, <4>2
    <3> QED BY <3>2, <3>3 DEF FlowIsReal
  <2> QED BY <2>2, <2>3
<1> QED BY <1>3, <1>4, <1>6, <1>7 DEF CallersOK, HostHolds

\* The handler's answer, and what follows the collection in a tick.
LEMMA AnswerHost ==
  ASSUME MonitoringTypeOK, HostHolds, NEW w \in Pages, Answer(w)
  PROVE  CallersOK' /\ HostHolds'
<1>0. CountersOK /\ CallersOK /\ w \in Callers /\ Ticker \in Callers /\ w # Ticker
  BY TypesAre DEF Callers, Answer
<1>1. phase[w] = "done" /\ UNCHANGED <<count, flown, last, stored, upsets>>
  BY DEF Answer, Stands, KeepCounters, KeepStore, Unnoted
<1>2. /\ CallersOK' /\ phase'[w] = "idle"
      /\ \A d \in Callers \ {w} : phase'[d] = phase[d] /\ reading'[d] = reading[d]
  BY <1>0, Retires DEF Answer
<1>3. CountersOK'
  BY <1>0, <1>1 DEF CountersOK
<1>4. \A k \in Kinds : Taken(k)' <= Taken(k)
  <2>1. reading'[Ticker] = reading[Ticker]
    BY <1>0, <1>2
  <2>2. \A k \in Kinds : Taken(k) \in Nat /\ Taken(k)' = Taken(k)
    BY <1>0, <1>1, <2>1, TakenIs DEF Taken
  <2> HIDE DEF Taken
  <2> QED BY <2>2
<1> QED BY <1>0, <1>1, <1>2, <1>3, <1>4, AsideHost DEF Collects

LEMMA SnapshotHost ==
  ASSUME MonitoringTypeOK, HostHolds, Snapshot(Ticker)
  PROVE  CountersOK' /\ CallersOK' /\ HostHolds'
<1>0. CountersOK /\ CallersOK /\ Ticker \in Callers
  BY TypesAre DEF Callers
<1>1. phase[Ticker] = "done" /\ UNCHANGED <<count, flown, last, upsets>>
  BY DEF Snapshot, Stands, KeepCounters, Unnoted
<1>2. /\ phase' \in [Callers -> Phases] /\ phase'[Ticker] \in {"stats", "prune"}
      /\ \A d \in Callers \ {Ticker} : phase'[d] = phase[d]
  <2>1. CASE GoOn(Ticker, "stats")
    BY <1>0, <2>1, GoesOn DEF Phases
  <2>2. CASE GoOn(Ticker, "prune")
    BY <1>0, <2>2, GoesOn DEF Phases
  <2> QED BY <2>1, <2>2 DEF Snapshot
<1>3. /\ reading' \in [Callers -> Reading] /\ reading'[Ticker] = NoReading
      /\ \A d \in Callers \ {Ticker} : reading'[d] = reading[d]
  BY <1>0, NoReadingIs, Reads DEF Snapshot
<1>4. \/ stored' = [k \in Kinds |-> stored[k] + reading[Ticker].got[k]]
      \/ stored' = stored
  BY DEF Snapshot
<1>5. \A k \in Kinds : stored'[k] \in Nat /\ stored'[k] <= Taken(k)
  <2>1. ASSUME NEW k \in Kinds PROVE stored'[k] \in Nat /\ stored'[k] <= Taken(k)
    <3>1. Taken(k) \in Nat /\ stored[k] \in Nat /\ reading[Ticker].got[k] \in Nat
      BY <1>0, TakenIs
    <3> QED BY <1>4, <3>1 DEF Taken
  <2> QED BY <2>1
<1>6. CountersOK'
  <2>1. stored' \in [Kinds -> Nat]
    <3>1. CASE stored' = [k \in Kinds |-> stored[k] + reading[Ticker].got[k]]
      <4> DEFINE s == [k \in Kinds |-> stored[k] + reading[Ticker].got[k]]
      <4>1. \A k \in Kinds : s[k] \in Nat
        BY <1>0, TakenIs
      <4>2. s \in [Kinds -> Nat]
        BY <4>1
      <4> QED BY <3>1, <4>2
    <3> QED BY <1>0, <1>4, <3>1 DEF CountersOK
  <2> QED BY <1>0, <1>1, <2>1 DEF CountersOK
<1>7. CallersOK'
  BY <1>2, <1>3 DEF CallersOK
<1>8. \A k \in Kinds : Taken(k)' <= Taken(k)
  <2>1. ASSUME NEW k \in Kinds PROVE Taken(k)' <= Taken(k)
    <3>1. reading'[Ticker].got[k] = 0
      BY <1>3, NoReadingIs
    <3>2. Taken(k)' = stored'[k]
      BY <1>5, <3>1 DEF Taken
    <3> QED BY <1>5, <3>2
  <2> QED BY <2>1
<1> QED BY <1>0, <1>1, <1>2, <1>3, <1>6, <1>7, <1>8, AsideHost DEF Collects

LEMMA StatsHost ==
  ASSUME MonitoringTypeOK, HostHolds, Stats(Ticker)
  PROVE  CountersOK' /\ CallersOK' /\ HostHolds'
<1>0. CountersOK /\ CallersOK /\ Ticker \in Callers
  BY TypesAre DEF Callers
<1>1. phase[Ticker] = "stats" /\ UNCHANGED <<count, flown, last, stored, reading, upsets>>
  BY DEF Stats, Stands, KeepCounters, Unnoted
<1>2. /\ phase' \in [Callers -> Phases] /\ phase'[Ticker] = "prune"
      /\ \A d \in Callers \ {Ticker} : phase'[d] = phase[d]
  BY <1>0, GoesOn DEF Stats, Phases
<1>3. CountersOK' /\ CallersOK'
  BY <1>0, <1>1, <1>2 DEF CountersOK, CallersOK
<1>4. \A k \in Kinds : Taken(k)' <= Taken(k)
  <2>1. \A k \in Kinds : Taken(k) \in Nat /\ Taken(k)' = Taken(k)
    BY <1>0, <1>1, TakenIs DEF Taken
  <2> HIDE DEF Taken
  <2> QED BY <2>1
<1> QED BY <1>0, <1>1, <1>2, <1>3, <1>4, AsideHost DEF Collects

LEMMA PruneHost ==
  ASSUME MonitoringTypeOK, HostHolds, PruneRows(Ticker)
  PROVE  CountersOK' /\ CallersOK' /\ HostHolds'
<1>0. CountersOK /\ CallersOK /\ Ticker \in Callers
  BY TypesAre DEF Callers
<1>1. phase[Ticker] = "prune" /\ UNCHANGED <<count, flown, last, stored, upsets>>
  BY DEF PruneRows, Stands, KeepCounters, Unnoted
<1>2. /\ CallersOK' /\ phase'[Ticker] = "idle" /\ reading'[Ticker] = NoReading
      /\ \A d \in Callers \ {Ticker} : phase'[d] = phase[d] /\ reading'[d] = reading[d]
  BY <1>0, Retires DEF PruneRows
<1>3. CountersOK'
  BY <1>0, <1>1 DEF CountersOK
<1>4. \A k \in Kinds : Taken(k)' <= Taken(k)
  <2>1. ASSUME NEW k \in Kinds PROVE Taken(k)' <= Taken(k)
    <3>1. stored[k] \in Nat /\ reading[Ticker].got[k] \in Nat
      BY <1>0, TakenIs
    <3>2. reading'[Ticker].got[k] = 0 /\ stored'[k] = stored[k]
      BY <1>1, <1>2, NoReadingIs
    <3> QED BY <3>1, <3>2 DEF Taken
  <2> QED BY <2>1
<1> QED BY <1>0, <1>1, <1>2, <1>3, <1>4, AsideHost DEF Collects

-----------------------------------------------------------------------------
(* The history holds, whatever step is taken.                              *)

LEMMA HistoryInit == MonitoringInit => HistoryHolds
<1> SUFFICES ASSUME MonitoringInit PROVE HistoryHolds
  OBVIOUS
<1>1. CountersOK
  BY DEF MonitoringInit, CountersOK
<1>2. BoxesOK /\ RowsOK
  BY DEF MonitoringInit, BoxesOK, RowsOK
<1>3. CallersOK
  BY NoReadingIs DEF MonitoringInit, CallersOK, Phases
<1>4. LimitsOK
  BY MonitoringAssumption DEF MonitoringInit, LimitsOK
<1>5. BoxesHold
  <2>1. \A b \in Containers : Since(b) = 0 /\ used[b] = 0 /\ marked[b] = 0
    BY DEF MonitoringInit, Since
  <2>2. rows \in Seq(Honest)
    BY DEF MonitoringInit
  <2> QED BY <2>1, <2>2 DEF BoxesHold
<1>6. HostHolds
  <2>1. ASSUME upsets = {} PROVE OneCollects /\ \A k \in Kinds : FlowIsReal(k)
    <3>1. \A c \in Callers : phase[c] = "idle"
      BY DEF MonitoringInit
    <3>2. ASSUME NEW k \in Kinds PROVE FlowIsReal(k)
      <4>1. count[k] = 1 /\ stored[k] = 0 /\ flown[k] = 0 /\ last[k] \in {0, 1}
        BY DEF MonitoringInit
      <4>2. last[k] = 1
        BY <2>1, <4>1 DEF MonitoringInit
      <4>3. Taken(k) = 0
        BY <4>1, NoReadingIs DEF Taken, MonitoringInit, Callers
      <4> QED BY <3>1, <4>1, <4>2, <4>3 DEF FlowIsReal, Holds, Clamp
    <3> QED BY <3>1, <3>2 DEF OneCollects, Collects
  <2> QED BY <2>1 DEF HostHolds
<1> QED BY <1>1, <1>2, <1>3, <1>4, <1>5, <1>6, TypesAre DEF HistoryHolds

LEMMA LimitsHold ==
  ASSUME LimitsOK, MonitoringNext
  PROVE  LimitsOK'
<1>1. upsets' = upsets \/ (\E m \in SUBSET {"raced", "missed"} : Note(m))
  <2>1. CASE \E c \in Callers : Begin(c)
    <3>1. PICK c \in Callers : Begin(c)
      BY <2>1
    <3> DEFINE m == {x \in {"raced"} :
                       \E d \in Callers \ {c} : phase[d] \in {"read", "take", "put"}}
    <3>2. m \in SUBSET {"raced", "missed"}
      OBVIOUS
    <3>3. Note(m)
      BY <3>1 DEF Begin
    <3> QED BY <3>2, <3>3
  <2>2. CASE \E c \in Callers : Read(c)
    <3>1. {"missed"} \in SUBSET {"raced", "missed"}
      OBVIOUS
    <3> QED BY <2>2, <3>1 DEF Read, Unnoted
  <2>3. CASE \E c \in Callers : Take(c) \/ Put(c)
    BY <2>3 DEF Take, Put, Unnoted
  <2>4. CASE Flow \/ Reset \/ (\E w \in Pages : Answer(w))
               \/ Snapshot(Ticker) \/ Stats(Ticker) \/ PruneRows(Ticker)
    BY <2>4 DEF Flow, Reset, Answer, Snapshot, Stats, PruneRows, Unnoted
  <2> QED BY <2>1, <2>2, <2>3, <2>4 DEF MonitoringNext, Collecting
<1>2. upsets' \subseteq {"raced", "missed"}
  BY <1>1 DEF LimitsOK, Note
<1>3. spare' = spare \/ Spend("traffic") \/ Spend("fault")
  BY DEF MonitoringNext, Flow, Reset, Begin, Collecting, Read, Take, Put, Answer, Snapshot,
         Stats, PruneRows
<1>4. ASSUME NEW what \in {"traffic", "fault"}, Spend(what)
      PROVE  spare' \in [{"traffic", "fault"} -> Nat]
  <2>1. spare[what] \in Nat /\ spare[what] > 0
    BY <1>4 DEF LimitsOK, Spend
  <2>2. spare[what] - 1 \in Nat
    BY <2>1
  <2> QED BY <1>4, <2>2 DEF LimitsOK, Spend
<1>5. spare' \in [{"traffic", "fault"} -> Nat]
  BY <1>3, <1>4 DEF LimitsOK
<1> QED BY <1>2, <1>5 DEF LimitsOK

\* What leaves the containers and the rows alone.
LEMMA BoxesStay ==
  ASSUME BoxesOK, BoxesHold, UNCHANGED <<boxes, used, rows, prev, marked>>
  PROVE  BoxesOK' /\ BoxesHold'
  BY DEF BoxesOK, BoxesHold, Since, Honest, Row

LEMMA HistoryNext == HistoryHolds /\ MonitoringNext => HistoryHolds'
<1> SUFFICES ASSUME HistoryHolds, MonitoringNext PROVE HistoryHolds'
  OBVIOUS
<1>0. /\ CountersOK /\ BoxesOK /\ RowsOK /\ CallersOK /\ LimitsOK'
      /\ MonitoringTypeOK /\ HostHolds /\ BoxesHold
  BY TypesAre, LimitsHold DEF HistoryHolds
<1> DEFINE Kept == CountersOK' /\ BoxesOK' /\ RowsOK' /\ CallersOK' /\ HostHolds' /\ BoxesHold'
<1>1. ASSUME Flow PROVE Kept
  <2>1. CallersOK' /\ RowsOK'
    BY <1>0, <1>1 DEF Flow, KeepStore, CallersOK, RowsOK
  <2> QED BY <1>0, <1>1, <2>1, FlowHost, FlowBoxes
<1>2. ASSUME Reset PROVE Kept
  <2>1. CallersOK' /\ RowsOK'
    BY <1>0, <1>2 DEF Reset, KeepStore, CallersOK, RowsOK
  <2> QED BY <1>0, <1>2, <2>1, ResetHost, ResetBoxes
<1>3. ASSUME NEW c \in Callers, Begin(c) \/ Collecting(c) PROVE Kept
  <2>1. /\ UNCHANGED <<boxes, used, rows, prev, marked, tick, count, flown, stored>>
        /\ Begin(c) \/ Read(c) \/ Take(c) => UNCHANGED last
    BY <1>3 DEF Begin, Collecting, Read, Take, Put, KeepCounters, KeepBoxes, KeepStore
  <2>2. BoxesOK' /\ BoxesHold' /\ RowsOK'
    BY <1>0, <2>1, BoxesStay DEF RowsOK
  <2>3. CASE Begin(c) \/ Read(c) \/ Take(c)
    <3>1. CountersOK'
      BY <1>0, <2>1, <2>3 DEF CountersOK
    <3> QED BY <1>0, <2>2, <2>3, <3>1, BeginHolds, ReadHost, TakeHost
  <2>4. CASE Put(c)
    BY <1>0, <2>2, <2>4, PutHost
  <2> QED BY <1>3, <2>3, <2>4 DEF Collecting
<1>4. ASSUME NEW w \in Pages, Answer(w) PROVE Kept
  <2>1. UNCHANGED <<boxes, used, rows, prev, marked, tick, count, flown, stored, last>>
    BY <1>4 DEF Answer, KeepCounters, KeepBoxes, KeepStore
  <2>2. BoxesOK' /\ BoxesHold' /\ RowsOK' /\ CountersOK'
    BY <1>0, <2>1, BoxesStay DEF RowsOK, CountersOK
  <2> QED BY <1>0, <1>4, <2>2, AnswerHost
<1>5. ASSUME Snapshot(Ticker) PROVE Kept
  <2>1. UNCHANGED <<boxes, used, rows, prev, marked>> /\ tick' = tick + 1
    BY <1>5 DEF Snapshot, KeepBoxes
  <2>2. BoxesOK' /\ BoxesHold' /\ RowsOK'
    BY <1>0, <2>1, BoxesStay DEF RowsOK
  <2> QED BY <1>0, <1>5, <2>2, SnapshotHost
<1>6. ASSUME Stats(Ticker) PROVE Kept
  BY <1>0, <1>6, StatsHost, StatsBoxes
<1>7. ASSUME PruneRows(Ticker) PROVE Kept
  BY <1>0, <1>7, PruneHost, PruneBoxes
<1>8. Kept
  <2> HIDE DEF Kept
  <2> QED BY <1>1, <1>2, <1>3, <1>4, <1>5, <1>6, <1>7 DEF MonitoringNext
<1>9. MonitoringTypeOK'
  BY <1>0, <1>8 DEF MonitoringTypeOK, CountersOK, BoxesOK, RowsOK, CallersOK, LimitsOK, Reading,
     Phases
<1> QED BY <1>8, <1>9 DEF HistoryHolds

LEMMA HistoryStays == HistoryHolds /\ UNCHANGED monitoringVars => HistoryHolds'
<1> SUFFICES ASSUME HistoryHolds, UNCHANGED monitoringVars PROVE HistoryHolds'
  OBVIOUS
<1>1. MonitoringTypeOK'
  BY DEF HistoryHolds, monitoringVars, MonitoringTypeOK, Row
<1>2. BoxesHold'
  BY DEF HistoryHolds, monitoringVars, BoxesHold, Since, Honest, Row
<1>3. HostHolds'
  BY DEF HistoryHolds, monitoringVars, HostHolds, OneCollects, Collects, FlowIsReal, Taken,
         Holds, Against, Clamp
<1> QED BY <1>1, <1>2, <1>3 DEF HistoryHolds

LEMMA HistoryIsReal == HistoryHolds => MonitoringInv
<1> SUFFICES ASSUME HistoryHolds PROVE RecordedIsReal
  BY DEF HistoryHolds, MonitoringInv
<1>0. CountersOK /\ CallersOK
  BY TypesAre DEF HistoryHolds
<1>1. ASSUME upsets = {}, NEW k \in Kinds PROVE stored[k] <= flown[k]
  <2>0. FlowIsReal(k)
    BY <1>1 DEF HistoryHolds, HostHolds
  <2>1. /\ Taken(k) \in Nat /\ stored[k] \in Nat /\ reading[Ticker].got[k] \in Nat
        /\ count[k] \in Nat /\ last[k] \in Nat /\ flown[k] \in Nat
    BY <1>0, TakenIs DEF CountersOK
  <2>2. stored[k] <= Taken(k)
    BY <2>1 DEF Taken
  <2>3. Taken(k) <= flown[k]
    <3>1. CASE \E c \in Callers : Holds(c, k)
      <4>1. PICK c \in Callers : Holds(c, k)
        BY <3>1
      <4>2. reading[c].cur \in Nat /\ Against(c, k) \in Nat
        BY <1>0, <2>1 DEF CallersOK, Reading, Against
      <4>3. /\ Clamp(reading[c].cur, Against(c, k)) \in Nat
            /\ Clamp(count[k], reading[c].cur) \in Nat
        BY <2>1, <4>2, ClampIs
      <4>4. Taken(k) + Clamp(reading[c].cur, Against(c, k)) + Clamp(count[k], reading[c].cur)
              <= flown[k]
        BY <2>0, <4>1 DEF FlowIsReal
      <4> HIDE DEF Taken
      <4> QED BY <2>1, <4>3, <4>4
    <3>2. CASE \A c \in Callers : ~Holds(c, k)
      <4>1. Clamp(count[k], last[k]) \in Nat
        BY <2>1, ClampIs
      <4> QED BY <2>0, <2>1, <3>2, <4>1 DEF FlowIsReal
    <3> QED BY <3>1, <3>2
  <2> QED BY <2>1, <2>2, <2>3
<1>2. ASSUME NEW i \in DOMAIN rows PROVE rows[i].delta <= rows[i].moved
  <2>1. rows \in Seq(Honest)
    BY DEF HistoryHolds, BoxesHold
  <2>2. rows[i] \in Honest
    BY <2>1
  <2> QED BY <2>2 DEF Honest
<1> QED BY <1>1, <1>2 DEF RecordedIsReal

\* Whatever the containers, the pages that ask and the ticks there are: of the
\* host no more is stored than flowed, as long as no two goroutines collect at
\* once and the network counters are read, and no row of a container shows
\* more than it moved since its last stats (host.go:247-310).
THEOREM RecordsAreReal == MonitoringSpec => []MonitoringInv
<1>1. MonitoringInit => HistoryHolds
  BY HistoryInit
<1>2. HistoryHolds /\ [MonitoringNext]_monitoringVars => HistoryHolds'
  BY HistoryNext, HistoryStays
<1>3. HistoryHolds => MonitoringInv
  BY HistoryIsReal
<1> QED BY <1>1, <1>2, <1>3, PTL DEF MonitoringSpec
=============================================================================
