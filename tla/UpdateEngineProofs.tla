------------------------- MODULE UpdateEngineProofs -------------------------
(***************************************************************************)
(* Proofs about the update engine for any registry, any versions and any   *)
(* number of goroutines.  The first part rests on one inductive invariant, *)
(* UpdateInv, proved one conjunct at a time.  The second is about the      *)
(* tables: the log implements its lifecycle, offers and attempts name two  *)
(* versions, and success clears the alert.                                 *)
(***************************************************************************)
EXTENDS UpdateProperties, SequenceTheorems, TLAPS

-----------------------------------------------------------------------------
(* Lemmas about the operators of the model.                                *)

\* UpdateLogStatus keeps the log a log and changes the status of one row.
LEMMA SetStatusKeepsRows ==
  ASSUME NEW rows \in Seq(Rows), NEW i, NEW st \in Statuses
  PROVE  LET new == [rows EXCEPT ![i].status = st] IN
         /\ new \in Seq(Rows)
         /\ DOMAIN new = DOMAIN rows
         /\ \A k \in DOMAIN rows :
              /\ new[k].svc = rows[k].svc /\ new[k].to = rows[k].to
              /\ new[k].status = IF k = i THEN st ELSE rows[k].status
<1> DEFINE new == [rows EXCEPT ![i].status = st]
<1>1. rows \in [1..Len(rows) -> Rows] /\ Len(rows) \in Nat
  BY LenProperties
<1>2. CASE i \in 1..Len(rows)
  <2>1. rows[i] \in Rows
    BY <1>1, <1>2
  <2>2. [rows[i] EXCEPT !.status = st] \in Rows
    BY <2>1 DEF Rows
  <2>3. new = [rows EXCEPT ![i] = [rows[i] EXCEPT !.status = st]]
    OBVIOUS
  <2>4. new \in Seq(Rows) /\ Len(new) = Len(rows)
    BY <1>2, <2>2, <2>3, ExceptSeq
  <2>5. \A k \in 1..Len(rows) :
          new[k] = IF k = i THEN [rows[i] EXCEPT !.status = st] ELSE rows[k]
    BY <1>1, <2>3
  <2>6. \A k \in 1..Len(rows) : rows[k] \in Rows
    BY <1>1
  <2> QED
    BY <1>1, <2>1, <2>4, <2>5, <2>6 DEF Rows
<1>3. CASE i \notin 1..Len(rows)
  <2>1. new = rows
    BY <1>1, <1>3
  <2> QED
    BY <1>1, <1>3, <2>1
<1> QED
  BY <1>2, <1>3

\* CreateUpdateLog adds one row at the end.
LEMMA AppendKeepsRows ==
  ASSUME NEW rows \in Seq(Rows), NEW r \in Rows
  PROVE  /\ Append(rows, r) \in Seq(Rows)
         /\ DOMAIN Append(rows, r) = DOMAIN rows \cup {Len(rows) + 1}
         /\ Len(rows) + 1 \notin DOMAIN rows
         /\ Append(rows, r)[Len(rows) + 1] = r
         /\ \A k \in DOMAIN rows : Append(rows, r)[k] = rows[k]
<1>1. Len(rows) \in Nat /\ DOMAIN rows = 1..Len(rows)
  BY LenProperties
<1>2. Append(rows, r) \in Seq(Rows) /\ Len(Append(rows, r)) = Len(rows) + 1
  OBVIOUS
<1>3. DOMAIN Append(rows, r) = 1..(Len(rows) + 1)
  BY <1>2, LenProperties
<1> QED
  BY <1>1, <1>2, <1>3

\* The check loop is always at a service of the registry.
LEMMA CheckedIsAService ==
  ASSUME TypeOK PROVE Checked \in Services /\ chk.pos \in 1..Len(Registry)
<1>1. Registry \in Seq(Services)
  BY RegistryAssumption
<1>2. chk.pos \in 1..Len(Registry)
  BY DEF TypeOK
<1> QED
  BY <1>1, <1>2, ElementOfSeq DEF Checked

\* What a restart of the project leaves is still one version per service.
LEMMA ContainersAreTyped ==
  ASSUME TypeOK, NEW s \in Services
  PROVE  Gone(s) \in [Services -> Maybe] /\ Started(s) \in [Services -> Maybe]
BY DEF TypeOK, Gone, Started, Maybe

-----------------------------------------------------------------------------
(* Types and locals.                                                       *)

\* A goroutine at any point but "idle" has a typed job.
LEMMA JobIsTyped ==
  ASSUME LocalsOK, TypeOK, NEW w \in Workers, pc[w] # "idle"
  PROVE  /\ job[w] \in Jobs
         /\ Svc(w) \in Services /\ job[w].from \in Maybe
         /\ job[w].to \in Maybe /\ job[w].out \in {"failed", "rolled_back"}
BY DEF LocalsOK, Busy, Jobs, Svc

\* Goroutines step only while the process serves, and only after Request.
LEMMA StepServes ==
  ASSUME NEW w \in Workers, Step(w)
  PROVE  mode = "serving" /\ pc[w] # "idle"
BY DEF Step, At, ReadCheck, FindPrevious, CompareCurrent, CreateLog,
       BeginFetch, RefuseBuilt, Fetch, FetchFails, Rewrite, Mark, Down, Up,
       CheckHealth, Revert, RevertDown, RevertUp, MarkBad, RaiseAlert,
       MarkDone, ResolveAlert, Record, Release

\* Every step of a goroutine but the last keeps it busy with the service it
\* locked, and touches neither the locks nor what other processes hold.
Moves(w) ==
  /\ Busy(w)
  /\ \E p \in PCs \ {"idle"} : pc' = [pc EXCEPT ![w] = p]
  /\ \E j \in Jobs : j.svc = Svc(w) /\ job' = [job EXCEPT ![w] = j]
  /\ UNCHANGED <<mode, updating, recon, chk, trigger, budget, upstream>>

LEMMA StepMoves ==
  ASSUME TypeOK, LocalsOK, NEW w \in Workers, Step(w)
  PROVE  Release(w) \/ Moves(w)
<1> DEFINE Put(j) == job' = [job EXCEPT ![w] = j]
<1> USE DEF At, KeepEngine, KeepWorld
<1>1. pc[w] # "idle"
  BY StepServes
<1>2. /\ job[w] \in Jobs
      /\ Svc(w) \in Services /\ job[w].from \in Maybe
      /\ job[w].to \in Maybe /\ job[w].out \in {"failed", "rolled_back"}
  BY <1>1, JobIsTyped
<1>3. ASSUME NEW p \in PCs \ {"idle"}, Goto(w, p), NEW j \in Jobs,
             j.svc = Svc(w), Put(j),
             UNCHANGED <<mode, updating, recon, chk, trigger, budget, upstream>>
      PROVE  Moves(w)
  BY <1>1, <1>3 DEF Moves, Busy, Goto
<1>4. ASSUME UNCHANGED job PROVE Put(job[w])
  BY <1>4 DEF TypeOK
<1>5. CASE ReadCheck(w)
  <2> DEFINE c == check[Svc(w)]
             j == [job[w] EXCEPT !.from = c.cur, !.to = c.latest]
  <2>1. c.cur \in Maybe /\ c.latest \in Maybe
    BY <1>2 DEF TypeOK
  <2>2. j \in Jobs /\ j.svc = Svc(w)
    BY <1>2, <2>1 DEF Jobs, Svc
  <2>3. CASE c.has
    <3>1. Put(j) /\ Goto(w, "create")
      BY <1>5, <2>3 DEF ReadCheck
    <3> QED
      BY <1>5, <1>3, <2>2, <3>1 DEF ReadCheck, PCs
  <2>4. CASE ~c.has
    BY <1>5, <2>4, <1>2, <1>3, <1>4 DEF ReadCheck, PCs, Svc
  <2> QED
    BY <2>3, <2>4
<1>6. CASE FindPrevious(w)
  <2>1. ASSUME NEW i \in DOMAIN logs, Goto(w, "compare"),
               job' = [job EXCEPT ![w].to = logs[i].from]
        PROVE  Moves(w)
    <3> DEFINE j == [job[w] EXCEPT !.to = logs[i].from]
    <3>1. logs[i] \in Rows
      BY LenProperties DEF TypeOK
    <3>2. logs[i].from \in Maybe
      BY <3>1 DEF Rows
    <3>3. j \in Jobs /\ j.svc = Svc(w) /\ Put(j)
      BY <1>2, <2>1, <3>2 DEF Jobs, Svc
    <3> QED
      BY <1>6, <1>3, <2>1, <3>3 DEF FindPrevious, PCs
  <2>2. CASE Goto(w, "release") /\ UNCHANGED job
    BY <1>6, <2>2, <1>2, <1>3, <1>4 DEF FindPrevious, PCs, Svc
  <2> QED
    BY <1>6, <2>1, <2>2 DEF FindPrevious
<1>7. CASE CompareCurrent(w)
  <2> DEFINE cur == check[Svc(w)].cur
             j == [job[w] EXCEPT !.from = cur]
  <2>1. cur \in Maybe
    BY <1>2 DEF TypeOK
  <2>2. j \in Jobs /\ j.svc = Svc(w)
    BY <1>2, <2>1 DEF Jobs, Svc
  <2>3. CASE cur # job[w].to
    <3>1. Put(j) /\ Goto(w, "create")
      BY <1>7, <2>3 DEF CompareCurrent
    <3> QED
      BY <1>7, <1>3, <2>2, <3>1 DEF CompareCurrent, PCs
  <2>4. CASE cur = job[w].to
    BY <1>7, <2>4, <1>2, <1>3, <1>4 DEF CompareCurrent, PCs, Svc
  <2> QED
    BY <2>3, <2>4
<1>8. CASE CreateLog(w)
  <2> DEFINE j == [job[w] EXCEPT !.log = Len(logs) + 1]
  <2>1. Len(logs) + 1 \in Nat
    BY LenProperties DEF TypeOK
  <2>2. j \in Jobs /\ j.svc = Svc(w) /\ Put(j)
    BY <1>8, <1>2, <2>1 DEF CreateLog, Jobs, Svc
  <2> QED
    BY <1>8, <1>3, <2>2 DEF CreateLog, PCs
<1>9. CASE BeginFetch(w)
  BY <1>9, <1>2, <1>3, <1>4 DEF BeginFetch, PCs, Svc
<1>10. CASE RefuseBuilt(w)
  BY <1>10, <1>2, <1>3, <1>4 DEF RefuseBuilt, PCs, Svc
<1>11. CASE Fetch(w)
  BY <1>11, <1>2, <1>3, <1>4 DEF Fetch, PCs, Svc
<1>12. CASE FetchFails(w)
  BY <1>12, <1>2, <1>3, <1>4 DEF FetchFails, PCs, Svc
<1>13. CASE Rewrite(w)
  BY <1>13, <1>2, <1>3, <1>4 DEF Rewrite, PCs, Svc
<1>14. CASE Mark(w)
  BY <1>14, <1>2, <1>3, <1>4 DEF Mark, PCs, Svc
<1>15. CASE Down(w)
  BY <1>15, <1>2, <1>3, <1>4 DEF Down, PCs, Svc
<1>16. CASE Up(w)
  BY <1>16, <1>2, <1>3, <1>4 DEF Up, PCs, Svc, AfterTrouble
<1>17. CASE CheckHealth(w)
  BY <1>17, <1>2, <1>3, <1>4 DEF CheckHealth, PCs, Svc, AfterTrouble
<1>18. CASE Revert(w)
  BY <1>18, <1>2, <1>3, <1>4 DEF Revert, PCs, Svc
<1>19. CASE RevertDown(w)
  BY <1>19, <1>2, <1>3, <1>4 DEF RevertDown, PCs, Svc
<1>20. CASE RevertUp(w)
  <2> DEFINE j == [job[w] EXCEPT !.out = "rolled_back"]
  <2>1. j \in Jobs /\ j.svc = Svc(w) /\ Put(j)
    BY <1>20, <1>2 DEF RevertUp, Jobs, Svc
  <2> QED
    BY <1>20, <1>3, <2>1 DEF RevertUp, PCs
<1>21. CASE MarkBad(w)
  BY <1>21, <1>2, <1>3, <1>4 DEF MarkBad, PCs, Svc
<1>22. CASE RaiseAlert(w)
  BY <1>22, <1>2, <1>3, <1>4 DEF RaiseAlert, PCs, Svc
<1>23. CASE MarkDone(w)
  BY <1>23, <1>2, <1>3, <1>4 DEF MarkDone, PCs, Svc
<1>24. CASE ResolveAlert(w)
  BY <1>24, <1>2, <1>3, <1>4 DEF ResolveAlert, PCs, Svc
<1>25. CASE Record(w)
  BY <1>25, <1>2, <1>3, <1>4 DEF Record, PCs, Svc
<1> QED
  BY <1>5, <1>6, <1>7, <1>8, <1>9, <1>10, <1>11, <1>12, <1>13, <1>14, <1>15, <1>16, <1>17, <1>18, <1>19, <1>20, <1>21, <1>22, <1>23, <1>24, <1>25 DEF Step

\* The tables and the containers a step of a goroutine leaves.
TablesOK ==
  /\ check \in [Services -> [cur : Maybe, latest : Maybe, has : BOOLEAN]]
  /\ logs \in Seq(Rows)
  /\ alert \in [Services -> BOOLEAN]
  /\ staged \in [Services -> Maybe]
  /\ cont \in [Services -> Maybe]

LEMMA StepKeepsTables ==
  ASSUME TypeOK, LocalsOK, NEW w \in Workers, Step(w)
  PROVE  TablesOK'
<1> USE DEF KeepTables, KeepWorld, docker, TablesOK
<1>1. pc[w] # "idle"
  BY StepServes
<1>2. /\ Svc(w) \in Services /\ job[w].from \in Maybe
      /\ job[w].to \in Maybe /\ job[w].out \in {"failed", "rolled_back"}
  BY <1>1, JobIsTyped
<1>3. ASSUME NEW st \in Statuses, SetStatus(w, st)
      PROVE  logs' \in Seq(Rows)
  BY <1>3, SetStatusKeepsRows DEF SetStatus, TypeOK
<1>4. Gone(Svc(w)) \in [Services -> Maybe]
      /\ Started(Svc(w)) \in [Services -> Maybe]
  BY <1>2, ContainersAreTyped
<1>5. TablesOK
  BY DEF TypeOK
<1>6. CASE \/ ReadCheck(w) \/ FindPrevious(w) \/ CompareCurrent(w)
           \/ CheckHealth(w) \/ Release(w)
  BY <1>5, <1>6 DEF ReadCheck, FindPrevious, CompareCurrent,
                    CheckHealth, Release, tables
<1>7. CASE \/ BeginFetch(w) \/ RefuseBuilt(w) \/ Mark(w)
           \/ MarkBad(w) \/ MarkDone(w)
  BY <1>2, <1>3, <1>5, <1>7
     DEF BeginFetch, RefuseBuilt, Mark, MarkBad, MarkDone, Statuses
<1>8. CASE CreateLog(w)
  <2> DEFINE r == [svc |-> Svc(w), from |-> job[w].from,
                   to |-> job[w].to, status |-> "pending"]
  <2>1. r \in Rows
    BY <1>2 DEF Rows, Statuses
  <2> QED
    BY <1>5, <1>8, <2>1, AppendKeepsRows DEF CreateLog
<1>9. CASE Fetch(w) \/ FetchFails(w) \/ Rewrite(w) \/ Revert(w)
  BY <1>2, <1>5, <1>9 DEF Fetch, FetchFails, Rewrite, Revert, TypeOK, Maybe
<1>10. CASE Down(w) \/ Up(w) \/ RevertDown(w) \/ RevertUp(w)
  BY <1>4, <1>5, <1>10 DEF Down, Up, RevertDown, RevertUp,
                           DownOK, DownFails, UpOK, UpFails
<1>11. CASE RaiseAlert(w) \/ ResolveAlert(w)
  BY <1>5, <1>11 DEF RaiseAlert, ResolveAlert
<1>12. CASE Record(w)
  BY <1>2, <1>5, <1>12 DEF Record
<1> QED
  BY <1>6, <1>7, <1>8, <1>9, <1>10, <1>11, <1>12 DEF Step

\* The type of every variable survives a step of a goroutine.
LEMMA TypeOfStep ==
  ASSUME TypeOK, LocalsOK, NEW w \in Workers, Step(w)
  PROVE  TypeOK' /\ LocalsOK'
<1>1. TablesOK'
  BY StepKeepsTables
<1>2. CASE Moves(w)
  <2>1. pc' \in [Workers -> PCs] /\ job' \in [Workers -> Jobs \cup {NoJob}]
    BY <1>2 DEF Moves, TypeOK
  <2>2. TypeOK'
    BY <1>1, <1>2, <2>1 DEF Moves, TypeOK, TablesOK
  <2>3. \A v \in Workers : IF Busy(v)' THEN job'[v] \in Jobs ELSE job'[v] = NoJob
    BY <1>2 DEF Moves, TypeOK, LocalsOK, Busy
  <2>4. recon'.pc = "next"
    BY <1>2, StepServes DEF Moves, LocalsOK
  <2> QED
    BY <2>2, <2>3, <2>4 DEF LocalsOK
<1>3. CASE Release(w)
  BY <1>1, <1>3 DEF Release, KeepWorld, docker, Goto, At, TypeOK, LocalsOK,
                    TablesOK, PCs, Busy, tables
<1> QED
  BY <1>2, <1>3, StepMoves

\* Of the bounded events, one fewer remains.
LEMMA SpendKeepsBudget ==
  ASSUME TypeOK, NEW k \in Limited, Spend(k)
  PROVE  budget' \in [Limited -> Nat]
<1>1. budget[k] \in Nat /\ budget[k] > 0
  BY DEF TypeOK, Spend
<1>2. budget[k] - 1 \in Nat
  BY <1>1
<1> QED
  BY <1>2 DEF TypeOK, Spend

LEMMA TypeOfRequest ==
  ASSUME TypeOK, LocalsOK, NEW w \in Workers, NEW s \in Services,
         NEW op \in {"update", "rollback"}, Request(w, s, op)
  PROVE  TypeOK' /\ LocalsOK'
<1> DEFINE j == [NoJob EXCEPT !.svc = s, !.op = op]
<1>1. j \in Jobs
  BY DEF NoJob, Jobs, Maybe
<1>2. budget' \in [Limited -> Nat]
  BY SpendKeepsBudget DEF Request, Limited
<1>3. /\ pc' = [pc EXCEPT ![w] = "locked"]
      /\ job' = [job EXCEPT ![w] = j]
      /\ updating' = updating \cup {s}
      /\ UNCHANGED <<mode, recon, chk, trigger, check, logs, alert, staged,
                     cont, upstream>>
  BY DEF Request, Goto, tables, KeepWorld, docker
<1>4. pc' \in [Workers -> PCs] /\ job' \in [Workers -> Jobs \cup {NoJob}]
  BY <1>1, <1>3 DEF TypeOK, PCs
<1>5. TypeOK'
  BY <1>2, <1>3, <1>4 DEF TypeOK
<1>6. \A v \in Workers : IF Busy(v)' THEN job'[v] \in Jobs ELSE job'[v] = NoJob
  BY <1>1, <1>3 DEF TypeOK, LocalsOK, Busy
<1> QED
  BY <1>3, <1>5, <1>6 DEF LocalsOK

\* A step that leaves goroutines and reconciliation alone keeps their locals.
LEMMA LocalsKept ==
  ASSUME LocalsOK, UNCHANGED <<mode, pc, job, recon, logs>>
  PROVE  LocalsOK'
BY DEF LocalsOK, Busy

LEMMA TypeOfChecker ==
  ASSUME TypeOK, LocalsOK, Checker
  PROVE  TypeOK' /\ LocalsOK'
<1> USE DEF KeepWorkers, KeepWorld, docker
<1>1. /\ UNCHANGED <<mode, updating, pc, job, recon, budget>>
      /\ UNCHANGED <<logs, alert, staged, cont, upstream>>
  BY DEF Checker, Tick, TakeTrigger, StartCheck, Inspect, InspectFails,
         Fallback, StoreCheck, tables
<1>2. Checked \in Services /\ chk.pos \in 1..Len(Registry)
  BY CheckedIsAService
<1>3. Registry \in Seq(Services) /\ Len(Registry) \in Nat
  BY RegistryAssumption, LenProperties
<1> DEFINE Loop == [pc : {"off", "idle", "inspect", "fallback", "store"},
                    pos : 1..Len(Registry), cur : Maybe]
           Row == [cur : Maybe, latest : Maybe, has : BOOLEAN]
<1>4. chk \in Loop /\ check \in [Services -> Row] /\ None \in Maybe
  BY DEF TypeOK, Maybe
<1>5. NextService \in Loop
  BY <1>2, <1>3, <1>4 DEF NextService
<1>6. NoCheck \in Row
  BY DEF NoCheck, Maybe
<1>7. chk' \in Loop /\ check' \in [Services -> Row] /\ trigger' \in BOOLEAN
  <2>1. CASE Tick \/ TakeTrigger
    <3>1. chk' = [pc |-> "inspect", pos |-> 1, cur |-> None]
          /\ check' = check /\ trigger' \in {trigger, FALSE}
      BY <2>1 DEF Tick, TakeTrigger, StartCheck, tables
    <3>2. 1 \in 1..Len(Registry)
      BY <1>2, <1>3
    <3>3. trigger \in BOOLEAN
      BY DEF TypeOK
    <3> QED
      BY <3>1, <3>2, <3>3, <1>4
  <2>2. ASSUME NEW s \in Services, Inspect(s)
        PROVE  chk' \in Loop /\ UNCHANGED <<trigger, check>>
    <3>1. Inspected(s) \in Maybe
      BY DEF Inspected, TypeOK, Maybe
    <3> QED
      BY <2>2, <3>1, <1>4 DEF Inspect, tables
  <2>3. CASE InspectFails
    BY <2>3, <1>4 DEF InspectFails, tables, TypeOK
  <2>4. CASE Fallback
    <3> DEFINE v == IF Kind[Checked] = "digest" THEN None ELSE check[Checked].cur
    <3>1. v \in Maybe
      BY <1>2, <1>4
    <3>2. CASE v = None /\ Kind[Checked] # "source"
      BY <2>4, <3>2, <1>4, <1>5, <1>6 DEF Fallback, TypeOK
    <3>3. CASE ~(v = None /\ Kind[Checked] # "source")
      BY <2>4, <3>1, <3>3, <1>4 DEF Fallback, TypeOK
    <3> QED
      BY <3>2, <3>3
  <2>5. CASE StoreCheck
    <3> DEFINE head == upstream[Checked]
               known == chk.cur
    <3>1. head \in Maybe /\ known \in Maybe
      BY <1>2, <1>4 DEF TypeOK, Maybe
    <3>2. Verdict(IF known = None THEN head ELSE known, head) \in Row
      BY <3>1 DEF Verdict
    <3>3. [cur |-> known, latest |-> None, has |-> FALSE] \in Row
      BY <3>1, <1>4
    <3>4. check' \in [Services -> Row]
      BY <2>5, <3>2, <3>3, <1>4 DEF StoreCheck
    <3> QED
      BY <2>5, <3>4, <1>5 DEF StoreCheck, TypeOK
  <2> QED
    BY <2>1, <2>2, <2>3, <2>4, <2>5, <1>4 DEF Checker, TypeOK
<1>8. TypeOK'
  BY <1>1, <1>7 DEF TypeOK
<1> QED
  BY <1>1, <1>8, LocalsKept

LEMMA TypeOfCrash ==
  ASSUME TypeOK, LocalsOK, Crash
  PROVE  TypeOK' /\ LocalsOK'
<1>1. budget' \in [Limited -> Nat]
  BY SpendKeepsBudget DEF Crash, Limited
<1>2. 1 \in 1..Len(Registry)
  BY CheckedIsAService, RegistryAssumption, LenProperties
<1>3. ChkOff \in [pc : {"off", "idle", "inspect", "fallback", "store"},
                   pos : 1..Len(Registry), cur : Maybe]
  BY <1>2 DEF ChkOff, Maybe
<1>4. NoRecon \in [todo : SUBSET Nat, log : Nat,
                    pc : {"next", "raise", "resolve", "record"}]
      /\ NoRecon.pc = "next"
  BY DEF NoRecon
<1>5. TypeOK'
  BY <1>1, <1>3, <1>4 DEF TypeOK, Crash, KeepWorld, docker, tables, PCs
<1> QED
  BY <1>4, <1>5 DEF Crash, LocalsOK, Busy

LEMMA TypeOfStartup ==
  ASSUME TypeOK, LocalsOK, Startup
  PROVE  TypeOK' /\ LocalsOK'
<1> USE DEF KeepReconciled, KeepWorld, docker
<1> DEFINE Locals == [todo : SUBSET Nat, log : Nat,
                      pc : {"next", "raise", "resolve", "record"}]
<1>1. /\ UNCHANGED <<updating, pc, job, trigger, budget>>
      /\ UNCHANGED <<staged, cont, upstream>>
  BY DEF Startup, Boot, JudgeStuck, ReconcileAlert, ReconcileRecord, Serve
<1>2. /\ recon \in Locals /\ logs \in Seq(Rows)
      /\ alert \in [Services -> BOOLEAN]
      /\ check \in [Services -> [cur : Maybe, latest : Maybe, has : BOOLEAN]]
      /\ chk \in [pc : {"off", "idle", "inspect", "fallback", "store"},
                  pos : 1..Len(Registry), cur : Maybe]
  BY DEF TypeOK
<1>3. DOMAIN logs \subseteq Nat
  BY <1>2, LenProperties
<1>4. NoRecon \in Locals /\ NoRecon.pc = "next"
  BY DEF NoRecon
<1>5. CASE Boot
  <2>1. recon' \in Locals /\ recon'.pc = "next"
    BY <1>3, <1>5 DEF Boot, NoRecon
  <2>2. TypeOK'
    BY <1>1, <1>5, <2>1 DEF Boot, tables, TypeOK
  <2> QED
    BY <1>1, <1>5, <2>1, <2>2 DEF Boot, LocalsOK, Busy
<1>6. ASSUME NEW i \in DOMAIN logs, JudgeStuck(i)
      PROVE  TypeOK' /\ LocalsOK'
  <2>1. PICK st \in {"done", "failed"} : logs' = [logs EXCEPT ![i].status = st]
    BY <1>6 DEF JudgeStuck
  <2>2. logs' \in Seq(Rows) /\ DOMAIN logs' = DOMAIN logs
    BY <1>2, <2>1, SetStatusKeepsRows DEF Statuses
  <2>3. recon' \in Locals /\ recon'.log = i
    BY <1>2, <1>3, <1>6 DEF JudgeStuck
  <2>4. TypeOK'
    BY <1>1, <1>6, <2>2, <2>3 DEF JudgeStuck, TypeOK
  <2>5. mode' = "booting"
    BY <1>6 DEF JudgeStuck
  <2>6. \A w \in Workers : IF Busy(w)' THEN job'[w] \in Jobs ELSE job'[w] = NoJob
    BY <1>1 DEF LocalsOK, Busy
  <2> QED
    BY <2>2, <2>3, <2>4, <2>5, <2>6 DEF LocalsOK, Busy
<1>7. CASE ReconcileAlert \/ ReconcileRecord
  <2>1. logs[recon.log] \in Rows
    BY <1>2, <1>7, LenProperties DEF ReconcileAlert, ReconcileRecord, LocalsOK
  <2>2. logs[recon.log].svc \in Services /\ logs[recon.log].to \in Maybe
    BY <2>1 DEF Rows
  <2>3. alert' \in [Services -> BOOLEAN]
    BY <1>2, <1>7, <2>2 DEF ReconcileAlert, ReconcileRecord
  <2>4. check' \in [Services -> [cur : Maybe, latest : Maybe, has : BOOLEAN]]
    <3>1. CASE ReconcileAlert
      BY <1>2, <3>1 DEF ReconcileAlert
    <3>2. CASE ReconcileRecord
      <4> DEFINE to == logs[recon.log].to
                 row == [cur |-> to, latest |-> to, has |-> FALSE]
      <4>1. row \in [cur : Maybe, latest : Maybe, has : BOOLEAN]
        BY <2>2
      <4>2. check' = [check EXCEPT ![logs[recon.log].svc] = row]
        BY <3>2 DEF ReconcileRecord
      <4> QED
        BY <1>2, <4>1, <4>2
    <3> QED
      BY <1>7, <3>1, <3>2
  <2>5. recon' \in Locals /\ recon'.log = recon.log /\ recon.pc # "next"
    BY <1>2, <1>7 DEF ReconcileAlert, ReconcileRecord
  <2>6. UNCHANGED <<mode, chk, logs>>
    BY <1>7 DEF ReconcileAlert, ReconcileRecord
  <2>7. TypeOK'
    BY <1>1, <2>3, <2>4, <2>5, <2>6 DEF TypeOK
  <2> QED
    BY <1>1, <2>5, <2>6, <2>7 DEF LocalsOK, Busy
<1>8. CASE Serve
  <2>1. chk' \in [pc : {"off", "idle", "inspect", "fallback", "store"},
                  pos : 1..Len(Registry), cur : Maybe]
    <3>1. 1 \in 1..Len(Registry)
      BY CheckedIsAService, RegistryAssumption, LenProperties
    <3> QED
      BY <1>8, <3>1 DEF Serve, ChkOff, Maybe
  <2>2. TypeOK'
    BY <1>1, <1>4, <1>8, <2>1 DEF Serve, tables, TypeOK
  <2> QED
    BY <1>1, <1>4, <1>8, <2>2 DEF Serve, LocalsOK, Busy
<1> QED
  BY <1>5, <1>6, <1>7, <1>8 DEF Startup

\* What the rest of the world leaves alone: the goroutines, their locks and
\* the compose files.
Outside ==
  /\ UNCHANGED <<mode, updating, pc, job, recon, chk, check, logs>>
  /\ \A s \in Services : Kind[s] = "tag" => staged'[s] = staged[s]

LEMMA TypeOfOutside ==
  ASSUME TypeOK, LocalsOK, TriggerCheck \/ World
  PROVE  TypeOK' /\ LocalsOK' /\ Outside
<1>1. CASE TriggerCheck
  <2>1. budget' \in [Limited -> Nat]
    BY <1>1, SpendKeepsBudget DEF TriggerCheck, Limited
  <2>2. Outside /\ TypeOK'
    BY <1>1, <2>1
       DEF TriggerCheck, Outside, tables, KeepWorld, docker, TypeOK
  <2> QED
    BY <2>2, LocalsKept DEF Outside
<1>2. ASSUME NEW s \in Services, ServiceUp(s) \/ ServiceDown(s)
      PROVE  TypeOK' /\ LocalsOK' /\ Outside
  <2>1. cont' \in [Services -> Maybe]
    BY <1>2, ContainersAreTyped DEF ServiceUp, ServiceDown, UpOK, DownOK
  <2>2. /\ UNCHANGED <<mode, updating, pc, job, recon, chk, trigger, check>>
        /\ UNCHANGED <<logs, alert, staged, upstream, budget>>
    BY <1>2 DEF ServiceUp, ServiceDown, KeepProcess, memory, tables
  <2>3. TypeOK'
    BY <2>1, <2>2 DEF TypeOK
  <2> QED
    BY <2>2, <2>3, LocalsKept DEF Outside
<1>3. ASSUME NEW s \in Services, PullRestart(s)
      PROVE  TypeOK' /\ LocalsOK' /\ Outside
  <2>1. staged' \in [Services -> Maybe]
    BY <1>3 DEF PullRestart, TypeOK, Maybe
  <2>2. /\ UNCHANGED <<mode, updating, pc, job, recon, chk, trigger, check>>
        /\ UNCHANGED <<logs, alert, cont, upstream, budget>>
    BY <1>3 DEF PullRestart, KeepProcess, memory, tables
  <2>3. \A t \in Services : Kind[t] = "tag" => staged'[t] = staged[t]
    BY <1>3 DEF PullRestart, TypeOK
  <2>4. TypeOK'
    BY <2>1, <2>2 DEF TypeOK
  <2> QED
    BY <2>2, <2>3, <2>4, LocalsKept DEF Outside
<1>4. ASSUME NEW s \in Services, Dismiss(s)
      PROVE  TypeOK' /\ LocalsOK' /\ Outside
  <2>1. budget' \in [Limited -> Nat]
    BY <1>4, SpendKeepsBudget DEF Dismiss, Limited
  <2>2. Outside /\ TypeOK'
    BY <1>4, <2>1 DEF Dismiss, Outside, memory, KeepWorld, docker, TypeOK
  <2> QED
    BY <2>2, LocalsKept DEF Outside
<1>5. ASSUME NEW s \in Services, NEW v \in Versions, Publish(s, v)
      PROVE  TypeOK' /\ LocalsOK' /\ Outside
  <2>1. budget' \in [Limited -> Nat]
    BY <1>5, SpendKeepsBudget DEF Publish, Limited
  <2>2. Outside /\ TypeOK'
    BY <1>5, <2>1 DEF Publish, Outside, memory, tables, docker, TypeOK
  <2> QED
    BY <2>2, LocalsKept DEF Outside
<1> QED
  BY <1>1, <1>2, <1>3, <1>4, <1>5 DEF World

-----------------------------------------------------------------------------
(* Locks.                                                                  *)

\* The lock of a service passes from Request to Release, through Moves.
LEMMA LocksOfStep ==
  ASSUME UpdateInv, NEW w \in Workers, Step(w)
  PROVE  MutualExclusion' /\ LockHeld'
<1> USE DEF UpdateInv
<1>1. Busy(w) /\ mode = "serving" /\ Svc(w) \in updating
  BY StepServes DEF Busy, LockHeld
<1>2. CASE Moves(w)
  <2>1. \A v \in Workers : (Busy(v)' <=> Busy(v)) /\ Svc(v)' = Svc(v)
    BY <1>1, <1>2 DEF Moves, TypeOK, Busy, Svc
  <2>2. updating' = updating /\ mode' = mode
    BY <1>2 DEF Moves
  <2>3. MutualExclusion'
    BY <2>1, <2>2 DEF MutualExclusion
  <2> QED
    BY <2>1, <2>2, <2>3 DEF LockHeld
<1>3. CASE Release(w)
  <2>1. ~Busy(w)' /\ \A v \in Workers \ {w} :
          (Busy(v)' <=> Busy(v)) /\ Svc(v)' = Svc(v) /\ (Busy(v) => Svc(v) # Svc(w))
    BY <1>1, <1>3 DEF Release, Goto, TypeOK, Busy, Svc, MutualExclusion
  <2>2. updating' = updating \ {Svc(w)} /\ mode' = mode
    BY <1>3 DEF Release
  <2>3. MutualExclusion'
    BY <1>1, <2>1, <2>2 DEF MutualExclusion
  <2> QED
    BY <1>1, <2>1, <2>2, <2>3 DEF LockHeld
<1> QED
  BY <1>2, <1>3, StepMoves

LEMMA LocksOfRequest ==
  ASSUME UpdateInv, NEW w \in Workers, NEW s \in Services,
         NEW op \in {"update", "rollback"}, Request(w, s, op)
  PROVE  MutualExclusion' /\ LockHeld'
<1> USE DEF UpdateInv
<1>1. /\ ~Busy(w) /\ mode = "serving" /\ s \notin updating
      /\ updating' = updating \cup {s} /\ mode' = mode
  BY DEF Request, At, Busy
<1>2. Busy(w)' /\ Svc(w)' = s
  BY DEF Request, Goto, TypeOK, Busy, Svc, NoJob
<1>3. \A v \in Workers \ {w} : (Busy(v)' <=> Busy(v)) /\ Svc(v)' = Svc(v)
  BY DEF Request, Goto, TypeOK, Busy, Svc
<1>4. \A v \in Workers : Busy(v) => Svc(v) # s
  BY <1>1 DEF LockHeld
<1>5. MutualExclusion'
  BY <1>1, <1>2, <1>3, <1>4 DEF MutualExclusion
<1> QED
  BY <1>1, <1>2, <1>3, <1>5 DEF LockHeld

\* While the process does not serve, no goroutine works.
LEMMA IdleUnlessServing ==
  ASSUME UpdateInv, mode # "serving"
  PROVE  updating = {} /\ \A w \in Workers : ~Busy(w) /\ job[w] = NoJob
BY DEF UpdateInv, LockHeld, MutualExclusion, LocalsOK

-----------------------------------------------------------------------------
(* Rows and containers.                                                    *)

\* What a step of w can do to the rows and the services of other goroutines.
LEMMA StepIsBounded ==
  ASSUME UpdateInv, NEW w \in Workers, Step(w)
  PROVE  /\ DOMAIN logs \subseteq DOMAIN logs'
         /\ \A i \in DOMAIN logs :
              logs'[i].svc = logs[i].svc /\ logs'[i].to = logs[i].to
         /\ \A s \in Services \ {Svc(w)} : staged'[s] = staged[s]
         /\ \A s \in Services : cont'[s] \in {cont[s], None, staged[s]}
<1> USE DEF UpdateInv, KeepTables, KeepWorld, docker
<1>1. TypeOK /\ logs \in Seq(Rows) /\ job[w].out \in {"failed", "rolled_back"}
      /\ Svc(w) \in Services /\ job[w].from \in Maybe /\ job[w].to \in Maybe
  BY StepServes, JobIsTyped DEF TypeOK
<1> DEFINE Rest == /\ DOMAIN logs \subseteq DOMAIN logs'
                   /\ \A i \in DOMAIN logs : logs'[i].svc = logs[i].svc
                                            /\ logs'[i].to = logs[i].to
           Places == /\ \A s \in Services \ {Svc(w)} : staged'[s] = staged[s]
                     /\ \A s \in Services : cont'[s] \in {cont[s], None, staged[s]}
<1>2. ASSUME NEW st \in Statuses, SetStatus(w, st) PROVE Rest
  BY <1>1, <1>2, SetStatusKeepsRows DEF SetStatus
<1>3. ASSUME UNCHANGED logs PROVE Rest
  BY <1>3
<1>4. ASSUME KeepWorld PROVE Places
  BY <1>4
<1>5. CASE \/ ReadCheck(w) \/ FindPrevious(w) \/ CompareCurrent(w)
           \/ CheckHealth(w) \/ Release(w) \/ RaiseAlert(w)
           \/ ResolveAlert(w) \/ Record(w)
  BY <1>3, <1>4, <1>5 DEF ReadCheck, FindPrevious, CompareCurrent, CheckHealth, Release, RaiseAlert, ResolveAlert, Record, tables
<1>6. CASE \/ BeginFetch(w) \/ RefuseBuilt(w) \/ Mark(w)
           \/ MarkBad(w) \/ MarkDone(w)
  BY <1>1, <1>2, <1>4, <1>6
     DEF BeginFetch, RefuseBuilt, Mark, MarkBad, MarkDone, Statuses
<1>7. CASE CreateLog(w)
  <2> DEFINE r == [svc |-> Svc(w), from |-> job[w].from,
                   to |-> job[w].to, status |-> "pending"]
  <2>1. r \in Rows
    BY <1>1 DEF Rows, Statuses
  <2>2. Rest
    BY <1>1, <1>7, <2>1, AppendKeepsRows DEF CreateLog
  <2> QED
    BY <1>4, <1>7, <2>2 DEF CreateLog
<1>8. CASE Fetch(w) \/ FetchFails(w) \/ Rewrite(w) \/ Revert(w)
  BY <1>8 DEF Fetch, FetchFails, Rewrite, Revert, TypeOK
<1>9. CASE Down(w) \/ Up(w) \/ RevertDown(w) \/ RevertUp(w)
  <2>1. \A s \in Services : /\ Gone(Svc(w))[s] \in {cont[s], None, staged[s]}
                            /\ Started(Svc(w))[s] \in {cont[s], None, staged[s]}
    BY DEF Gone, Started
  <2> QED
    BY <1>9, <2>1 DEF Down, Up, RevertDown, RevertUp, DownOK, DownFails, UpOK, UpFails
<1> QED
  BY <1>5, <1>6, <1>7, <1>8, <1>9 DEF Step

\* OwnsRow and Installing, of one goroutine.
OwnsRowOf(w) ==
  LET i == job[w].log IN
  i # 0 => /\ pc[w] \notin Unlogged
           /\ i \in DOMAIN logs
           /\ logs[i].svc = Svc(w) /\ logs[i].to = job[w].to
InstallingOf(w) ==
  Busy(w) /\ Kind[Svc(w)] = "tag" =>
    /\ pc[w] \in {"mark", "down", "up", "health", "done"}
         => staged[Svc(w)] = job[w].to
    /\ pc[w] \in {"health", "done"}
         => cont[Svc(w)] \in {job[w].to, None}

LEMMA OwnRowKept ==
  ASSUME UpdateInv, NEW w \in Workers, Step(w)
  PROVE  OwnsRowOf(w)'
<1> USE DEF UpdateInv, At, Goto, Unlogged
<1>1. /\ job \in [Workers -> Jobs \cup {NoJob}] /\ job[w] \in Jobs
      /\ pc \in [Workers -> PCs] /\ logs \in Seq(Rows)
      /\ Svc(w) \in Services /\ job[w].from \in Maybe /\ job[w].to \in Maybe
  BY StepServes, JobIsTyped DEF TypeOK
<1>2. /\ DOMAIN logs \subseteq DOMAIN logs'
      /\ \A i \in DOMAIN logs :
           logs'[i].svc = logs[i].svc /\ logs'[i].to = logs[i].to
  BY StepIsBounded
<1>3. OwnsRowOf(w)
  BY DEF OwnsRow, OwnsRowOf
<1>4. ASSUME pc[w] \notin Unlogged, pc'[w] \notin Unlogged,
             job'[w].log = job[w].log, job'[w].to = job[w].to,
             job'[w].svc = job[w].svc
      PROVE  OwnsRowOf(w)'
  BY <1>2, <1>3, <1>4 DEF OwnsRowOf, Svc
<1>5. ASSUME pc[w] \in Unlogged, job'[w].log = job[w].log
      PROVE  OwnsRowOf(w)'
  BY <1>3, <1>5 DEF OwnsRowOf
<1>6. CASE ReadCheck(w) \/ FindPrevious(w) \/ CompareCurrent(w)
  BY <1>1, <1>5, <1>6 DEF ReadCheck, FindPrevious, CompareCurrent, Jobs
<1>7. CASE CreateLog(w)
  <2> DEFINE r == [svc |-> Svc(w), from |-> job[w].from,
                   to |-> job[w].to, status |-> "pending"]
  <2>1. r \in Rows
    BY <1>1 DEF Rows, Statuses
  <2>2. Len(logs) + 1 \in DOMAIN logs' /\ logs'[Len(logs) + 1] = r
    BY <1>1, <1>7, <2>1, AppendKeepsRows DEF CreateLog
  <2>3. /\ job'[w].log = Len(logs) + 1 /\ pc'[w] = "begin"
        /\ job'[w].svc = job[w].svc /\ job'[w].to = job[w].to
    BY <1>1, <1>7 DEF CreateLog, Jobs
  <2> QED
    BY <2>2, <2>3 DEF OwnsRowOf, Svc
<1>8. CASE RevertUp(w)
  BY <1>1, <1>4, <1>8 DEF RevertUp, Jobs
<1>9. CASE Release(w)
  BY <1>1, <1>9 DEF Release, OwnsRowOf, NoJob
<1>10. CASE \/ BeginFetch(w) \/ RefuseBuilt(w) \/ Fetch(w) \/ FetchFails(w)
            \/ Rewrite(w) \/ Mark(w) \/ Down(w)
  BY <1>1, <1>4, <1>10 DEF BeginFetch, RefuseBuilt, Fetch, FetchFails, Rewrite,
     Mark, Down
<1>11. CASE \/ Up(w) \/ CheckHealth(w) \/ Revert(w) \/ RevertDown(w)
  BY <1>1, <1>4, <1>11 DEF Up, CheckHealth, Revert, RevertDown, AfterTrouble
<1>12. CASE \/ MarkBad(w) \/ RaiseAlert(w) \/ MarkDone(w)
            \/ ResolveAlert(w) \/ Record(w)
  BY <1>1, <1>4, <1>12 DEF MarkBad, RaiseAlert, MarkDone, ResolveAlert, Record
<1> QED
  BY <1>6, <1>7, <1>8, <1>9, <1>10, <1>11, <1>12 DEF Step

LEMMA OwnInstallKept ==
  ASSUME UpdateInv, NEW w \in Workers, Step(w)
  PROVE  InstallingOf(w)'
<1> USE DEF UpdateInv, At, Goto
<1> DEFINE Early == {"idle", "locked", "compare", "create", "begin", "fetch",
                     "rewrite", "revert", "revert_down", "revert_up", "bad",
                     "raise", "resolve", "record", "release"}
<1>1. /\ pc \in [Workers -> PCs] /\ Svc(w) \in Services /\ Busy(w)
      /\ job \in [Workers -> Jobs \cup {NoJob}]
      /\ staged \in [Services -> Maybe] /\ cont \in [Services -> Maybe]
      /\ Kind[Svc(w)] \in {"tag", "digest", "source"}
  BY StepServes, JobIsTyped, KindAssumption DEF TypeOK, Busy
<1>2. InstallingOf(w)
  BY DEF Installing, InstallingOf
<1>3. ASSUME pc'[w] \in Early PROVE InstallingOf(w)'
  BY <1>3 DEF InstallingOf
<1>4. CASE \/ ReadCheck(w) \/ FindPrevious(w) \/ CompareCurrent(w)
           \/ CreateLog(w) \/ BeginFetch(w) \/ RefuseBuilt(w) \/ FetchFails(w)
  BY <1>1, <1>3, <1>4 DEF ReadCheck, FindPrevious, CompareCurrent, CreateLog,
     BeginFetch, RefuseBuilt, FetchFails
<1>5. CASE \/ Revert(w) \/ RevertDown(w) \/ RevertUp(w) \/ MarkBad(w)
           \/ RaiseAlert(w) \/ MarkDone(w) \/ ResolveAlert(w) \/ Record(w)
           \/ Release(w)
  BY <1>1, <1>3, <1>5 DEF Revert, RevertDown, RevertUp, MarkBad, RaiseAlert,
     MarkDone, ResolveAlert, Record, Release
<1>6. CASE Fetch(w)
  BY <1>1, <1>6 DEF Fetch, InstallingOf, Svc
<1>7. CASE Rewrite(w)
  BY <1>1, <1>7 DEF Rewrite, InstallingOf, Svc
<1>8. CASE Mark(w)
  BY <1>1, <1>2, <1>8 DEF Mark, InstallingOf, Svc, Busy, KeepWorld, docker
<1>9. CASE Down(w)
  BY <1>1, <1>2, <1>9 DEF Down, InstallingOf, Svc, Busy
<1>10. CASE Up(w)
  <2>1. CASE pc' = [pc EXCEPT ![w] = "health"] /\ cont' = Started(Svc(w))
    <3>1. cont'[Svc(w)] = staged[Svc(w)]
      BY <1>1, <2>1 DEF Started, Siblings
    <3> QED
      BY <1>1, <1>2, <1>10, <2>1, <3>1 DEF Up, InstallingOf, Svc, Busy
  <2>2. CASE pc' = [pc EXCEPT ![w] = AfterTrouble(w)]
    BY <1>1, <1>3, <2>2 DEF AfterTrouble
  <2> QED
    BY <1>10, <2>1, <2>2 DEF Up, UpOK
<1>11. CASE CheckHealth(w)
  <2>1. CASE pc' = [pc EXCEPT ![w] = "done"]
    BY <1>1, <1>2, <1>11, <2>1
       DEF CheckHealth, InstallingOf, Svc, Busy, KeepWorld, docker
  <2>2. CASE pc' = [pc EXCEPT ![w] = AfterTrouble(w)]
    BY <1>1, <1>3, <2>2 DEF AfterTrouble
  <2> QED
    BY <1>11, <2>1, <2>2 DEF CheckHealth
<1> QED
  BY <1>4, <1>5, <1>6, <1>7, <1>8, <1>9, <1>10, <1>11 DEF Step

\* A goroutine that does not step keeps its row and its installation, as long
\* as its service's own entries are left alone and containers only go or start.
LEMMA BystanderKept ==
  ASSUME UpdateInv, NEW v \in Workers,
         pc'[v] = pc[v], job'[v] = job[v],
         DOMAIN logs \subseteq DOMAIN logs',
         \A i \in DOMAIN logs :
           logs'[i].svc = logs[i].svc /\ logs'[i].to = logs[i].to,
         Busy(v) /\ Kind[Svc(v)] = "tag" =>
           /\ staged'[Svc(v)] = staged[Svc(v)]
           /\ cont'[Svc(v)] \in {cont[Svc(v)], None, staged[Svc(v)]}
  PROVE  OwnsRowOf(v)' /\ InstallingOf(v)'
<1>1. OwnsRowOf(v) /\ InstallingOf(v)
  BY DEF UpdateInv, OwnsRow, OwnsRowOf, Installing, InstallingOf
<1>2. Svc(v)' = Svc(v) /\ (Busy(v)' <=> Busy(v))
  BY DEF Svc, Busy
<1>3. OwnsRowOf(v)'
  BY <1>1, <1>2 DEF OwnsRowOf
<1>4. InstallingOf(v)'
  BY <1>1, <1>2 DEF InstallingOf
<1> QED
  BY <1>3, <1>4

LEMMA StepKeepsUpdateInv ==
  ASSUME UpdateInv, NEW w \in Workers, Step(w)
  PROVE  UpdateInv'
<1>1. TypeOK' /\ LocalsOK'
  BY TypeOfStep DEF UpdateInv
<1>2. MutualExclusion' /\ LockHeld'
  BY LocksOfStep
<1>3. ASSUME NEW v \in Workers PROVE OwnsRowOf(v)' /\ InstallingOf(v)'
  <2>1. CASE v = w
    BY <2>1, OwnRowKept, OwnInstallKept
  <2>2. CASE v # w
    <3>1. Busy(w)
      BY StepServes DEF Busy
    <3>2. pc'[v] = pc[v] /\ job'[v] = job[v]
      BY <2>2, StepMoves DEF Moves, Release, Goto, UpdateInv, TypeOK
    <3>3. Busy(v) => Svc(v) \in Services \ {Svc(w)}
      BY <2>2, <3>1, JobIsTyped DEF UpdateInv, MutualExclusion, Busy
    <3> QED
      BY <3>2, <3>3, StepIsBounded, BystanderKept
  <2> QED
    BY <2>1, <2>2
<1> QED
  BY <1>1, <1>2, <1>3 DEF UpdateInv, OwnsRow, OwnsRowOf, Installing, InstallingOf

LEMMA RequestKeepsUpdateInv ==
  ASSUME UpdateInv, NEW w \in Workers, NEW s \in Services,
         NEW op \in {"update", "rollback"}, Request(w, s, op)
  PROVE  UpdateInv'
<1>1. TypeOK' /\ LocalsOK'
  BY TypeOfRequest DEF UpdateInv
<1>2. MutualExclusion' /\ LockHeld'
  BY LocksOfRequest
<1>3. UNCHANGED <<logs, staged, cont>>
  BY DEF Request, tables, KeepWorld, docker
<1>4. ASSUME NEW v \in Workers PROVE OwnsRowOf(v)' /\ InstallingOf(v)'
  <2>1. CASE v = w
    <3>1. pc'[w] = "locked" /\ job'[w].log = 0
      BY DEF Request, Goto, NoJob, UpdateInv, TypeOK
    <3> QED
      BY <2>1, <3>1 DEF OwnsRowOf, InstallingOf
  <2>2. CASE v # w
    <3>1. pc'[v] = pc[v] /\ job'[v] = job[v]
      BY <2>2 DEF Request, Goto, UpdateInv, TypeOK
    <3> QED
      BY <1>3, <3>1, BystanderKept
  <2> QED
    BY <2>1, <2>2
<1> QED
  BY <1>1, <1>2, <1>4 DEF UpdateInv, OwnsRow, OwnsRowOf, Installing, InstallingOf

\* The check loop and the rest of the world touch no goroutine and no lock.
LEMMA QuietKeepsUpdateInv ==
  ASSUME UpdateInv, Checker \/ TriggerCheck \/ World
  PROVE  UpdateInv'
<1>1. TypeOK' /\ LocalsOK'
  BY TypeOfChecker, TypeOfOutside DEF UpdateInv
<1>2. /\ UNCHANGED <<mode, updating, pc, job, logs>>
      /\ \A s \in Services : Kind[s] = "tag" => staged'[s] = staged[s]
  <2>1. CASE Checker
    BY <2>1 DEF Checker, Tick, TakeTrigger, StartCheck, Inspect, InspectFails,
       Fallback, StoreCheck, tables, KeepWorkers, KeepWorld, docker
  <2>2. CASE TriggerCheck \/ World
    BY <2>2, TypeOfOutside DEF UpdateInv, Outside
  <2> QED
    BY <2>1, <2>2
<1>3. \A s \in Services : cont'[s] \in {cont[s], None, staged[s]}
  <2>1. CASE Checker \/ TriggerCheck
    BY <2>1 DEF Checker, Tick, TakeTrigger, StartCheck, Inspect, InspectFails,
       Fallback, StoreCheck, TriggerCheck, KeepWorld, docker
  <2>2. ASSUME NEW s \in Services, ServiceUp(s) \/ ServiceDown(s)
        PROVE  \A t \in Services : cont'[t] \in {cont[t], None, staged[t]}
    BY <2>2 DEF ServiceUp, ServiceDown, UpOK, DownOK, Gone, Started
  <2>3. ASSUME NEW s \in Services, NEW v \in Versions, Publish(s, v)
        PROVE  cont' = cont
    BY <2>3 DEF Publish, docker
  <2>4. ASSUME NEW s \in Services, Dismiss(s) \/ PullRestart(s)
        PROVE  cont' = cont
    BY <2>4 DEF Dismiss, PullRestart, KeepWorld, docker
  <2> QED
    BY <2>1, <2>2, <2>3, <2>4 DEF World
<1>4. MutualExclusion' /\ LockHeld'
  BY <1>2 DEF UpdateInv, MutualExclusion, LockHeld, Busy, Svc
<1>5. ASSUME NEW v \in Workers PROVE OwnsRowOf(v)' /\ InstallingOf(v)'
  <2>1. Busy(v) => Svc(v) \in Services
    BY JobIsTyped DEF UpdateInv, Busy
  <2> QED
    BY <1>2, <1>3, <2>1, BystanderKept
<1> QED
  BY <1>1, <1>4, <1>5 DEF UpdateInv, OwnsRow, OwnsRowOf, Installing, InstallingOf

\* Death and start happen with no goroutine left to disturb.
LEMMA ProcessKeepsUpdateInv ==
  ASSUME UpdateInv, Crash \/ Startup
  PROVE  UpdateInv'
<1>1. TypeOK' /\ LocalsOK'
  BY TypeOfCrash, TypeOfStartup DEF UpdateInv
<1>2. updating' = {} /\ \A w \in Workers : ~Busy(w)' /\ job'[w] = NoJob
  <2>1. CASE Crash
    BY <2>1 DEF Crash, Busy
  <2>2. CASE Startup
    <3>1. mode # "serving" /\ UNCHANGED <<updating, pc, job>>
      BY <2>2 DEF Startup, Boot, JudgeStuck, ReconcileAlert, ReconcileRecord,
                  Serve, KeepReconciled
    <3> QED
      BY <3>1, IdleUnlessServing DEF Busy
  <2> QED
    BY <2>1, <2>2
<1> QED
  BY <1>1, <1>2
     DEF UpdateInv, MutualExclusion, LockHeld, OwnsRow, Installing, NoJob

LEMMA InitSatisfiesUpdateInv ==
  ASSUME Init PROVE UpdateInv
<1>1. Registry \in Seq(Services) /\ Len(Registry) \in Nat /\ Registry # <<>>
  BY RegistryAssumption, LenProperties
<1>2. 1 \in 1..Len(Registry)
  BY <1>1, EmptySeq
<1>3. TypeOK
  <2>1. chk \in [pc : {"off", "idle", "inspect", "fallback", "store"},
                pos : 1..Len(Registry), cur : Maybe]
    BY <1>2 DEF Init, ChkOff, Maybe
  <2>2. check \in [Services -> [cur : Maybe, latest : Maybe, has : BOOLEAN]]
    BY DEF Init, NoCheck, Maybe
  <2>3. recon \in [todo : SUBSET Nat, log : Nat,
                  pc : {"next", "raise", "resolve", "record"}]
    BY DEF Init, NoRecon
  <2>4. logs \in Seq(Rows) /\ budget \in [Limited -> Nat]
    BY BoundsAssumption DEF Init
  <2>5. staged \in [Services -> Maybe] /\ cont \in [Services -> Maybe]
    BY DEF Init, Maybe
  <2> QED
    BY <2>1, <2>2, <2>3, <2>4, <2>5 DEF Init, TypeOK, PCs
<1> QED
  BY <1>3 DEF Init, UpdateInv, LocalsOK, MutualExclusion, LockHeld, OwnsRow,
              Installing, Busy, NoJob, NoRecon

LEMMA NextKeepsUpdateInv ==
  ASSUME UpdateInv, [Next]_vars PROVE UpdateInv'
<1>1. CASE Requests
  BY <1>1, RequestKeepsUpdateInv DEF Requests
<1>2. ASSUME NEW w \in Workers, Step(w) PROVE UpdateInv'
  BY <1>2, StepKeepsUpdateInv
<1>3. CASE Checker \/ TriggerCheck \/ World
  BY <1>3, QuietKeepsUpdateInv
<1>4. CASE Crash \/ Startup
  BY <1>4, ProcessKeepsUpdateInv
<1>5. CASE UNCHANGED vars
  BY <1>5 DEF vars, memory, tables, docker, UpdateInv, TypeOK, LocalsOK,
     MutualExclusion, LockHeld, OwnsRow, Installing, Busy, Svc
<1> QED
  BY <1>1, <1>2, <1>3, <1>4, <1>5 DEF Next

-----------------------------------------------------------------------------
(* Theorems.                                                               *)

\* The inductive invariant holds, for any registry, any number of goroutines
\* and any interleaving of their statements with crashes and the world
\* (engine.go:386-540, 543-651, 747-785).
THEOREM Invariance == Spec => []UpdateInv
<1>1. Init => UpdateInv
  BY InitSatisfiesUpdateInv
<1>2. UpdateInv /\ [Next]_vars => UpdateInv'
  BY NextKeepsUpdateInv
<1> QED
  BY <1>1, <1>2, PTL DEF Spec

\* Two goroutines never work on one service, and every lock has an owner that
\* is at work: the map Engine.updating never leaks an entry (engine.go:395).
THEOREM Exclusion == Spec => []MutualExclusion
<1>1. UpdateInv => MutualExclusion
  BY DEF UpdateInv
<1> QED
  BY <1>1, Invariance, PTL

\* Of all the steps, only MarkDone turns a row to "done" while serving.
LEMMA DoneIsTrue ==
  ASSUME UpdateInv, [Next]_vars, NEW i \in DOMAIN logs, TurnsDone(i),
         mode = "serving", Kind[logs[i].svc] = "tag"
  PROVE  IsTrue(i)
<1> USE DEF UpdateInv
<1>1. logs' # logs
  BY DEF TurnsDone
<1>2. PICK w \in Workers : Step(w)
  BY <1>1 DEF Next, Requests, Request, Checker, Tick, TakeTrigger, StartCheck,
     Inspect, InspectFails, Fallback, StoreCheck, TriggerCheck, World, ServiceUp,
     ServiceDown, PullRestart, Dismiss, Publish, KeepProcess, Crash, Startup,
     Boot, JudgeStuck, ReconcileAlert, ReconcileRecord, Serve, vars, tables
<1>3. logs \in Seq(Rows) /\ job[w].out \in {"failed", "rolled_back"}
  BY <1>2, StepServes, JobIsTyped DEF TypeOK
<1>4. ASSUME NEW st \in Statuses, SetStatus(w, st), TurnsDone(i)
      PROVE  i = job[w].log /\ st = "done"
  BY <1>3, <1>4, SetStatusKeepsRows DEF SetStatus, TurnsDone
<1>5. pc[w] = "done" /\ i = job[w].log
  <2>1. CASE CreateLog(w)
    <3> DEFINE r == [svc |-> Svc(w), from |-> job[w].from,
                     to |-> job[w].to, status |-> "pending"]
    <3>1. r \in Rows
      BY <1>2, StepServes, JobIsTyped DEF Rows, Statuses
    <3> QED
      BY <1>3, <2>1, <3>1, AppendKeepsRows DEF CreateLog, TurnsDone
  <2>2. CASE BeginFetch(w) \/ RefuseBuilt(w) \/ Mark(w) \/ MarkBad(w)
    BY <1>3, <1>4, <2>2 DEF BeginFetch, RefuseBuilt, Mark, MarkBad, Statuses
  <2>3. CASE MarkDone(w)
    BY <1>4, <2>3 DEF MarkDone, At, Statuses
  <2>4. CASE ~(CreateLog(w) \/ BeginFetch(w) \/ RefuseBuilt(w) \/ Mark(w)
               \/ MarkBad(w) \/ MarkDone(w))
    BY <1>1, <1>2, <2>4 DEF Step, ReadCheck, FindPrevious, CompareCurrent,
       Fetch, FetchFails, Rewrite, Down, Up, CheckHealth, Revert, RevertDown,
       RevertUp, RaiseAlert, ResolveAlert, Record, Release, tables
  <2> QED
    BY <2>1, <2>2, <2>3, <2>4
<1>6. i # 0
  BY <1>3, LenProperties
<1>7. logs[i].svc = Svc(w) /\ logs[i].to = job[w].to
  BY <1>5, <1>6 DEF OwnsRow
<1>8. staged[Svc(w)] = job[w].to /\ cont[Svc(w)] \in {job[w].to, None}
  BY <1>5, <1>7 DEF Installing, Busy
<1> QED
  BY <1>7, <1>8 DEF IsTrue

\* A goroutine that closes a row of a tagged service as "done" has left its
\* compose file, and any container it has, at the version the row names, in
\* every deployment (engine.go:509-524, 636-640).
THEOREM Truth == Spec => DoneTellsTheTruth
<1> DEFINE True == \A i \in DOMAIN logs :
             TurnsDone(i) /\ mode = "serving" /\ Kind[logs[i].svc] = "tag"
               => IsTrue(i)
<1>1. UpdateInv /\ [Next]_vars => [True]_vars
  BY DoneIsTrue
<1> QED
  BY <1>1, Invariance, PTL DEF Spec, DoneTellsTheTruth

-----------------------------------------------------------------------------
(* The tables.                                                             *)

-----------------------------------------------------------------------------
(* What the invariants rest on.                                            *)

\* What the row of a goroutine says, wherever the goroutine is.
StatusAt(p) ==
  CASE p = "begin" -> {"pending"}
    [] p \in {"fetch", "rewrite", "mark"} -> {"pulling", "building"}
    [] p \in {"down", "up", "health", "done", "revert", "revert_down", "revert_up"}
         -> {"restarting"}
    [] p = "bad" -> {"pulling", "building", "restarting"}
    [] p = "raise" -> {"failed", "rolled_back"}
    [] p \in {"resolve", "record"} -> {"done"}
    [] OTHER -> Terminal

\* It is the newest of its service, and "rolled_back" is only written over
\* "restarting".
FollowsRow(w) ==
  LET i == job[w].log IN
  /\ pc[w] \notin Unlogged \cup {"release"} => i # 0
  /\ i # 0 => /\ logs[i].status \in StatusAt(pc[w])
              /\ \A j \in DOMAIN logs : logs[j].svc = Svc(w) => j <= i
  /\ job[w].out = "rolled_back" => pc[w] \in {"bad", "raise", "release"}
  /\ pc[w] = "bad" /\ job[w].out = "rolled_back" => logs[i].status = "restarting"
RowsFollow == \A w \in Workers : FollowsRow(w)

\* The reconciliation has all the interrupted restarts before it, and only
\* they; the check loop starts when it is through.
ReconFollows ==
  /\ mode = "booting" =>
       recon.todo = {i \in DOMAIN logs : logs[i].status = "restarting"}
  /\ mode # "serving" => chk.pc = "off"

\* An attempt has two versions from the moment it is decided; a floating tag
\* is never rolled back by hand.
Undecided == {"idle", "locked", "release"}
NamesVersions(w) ==
  /\ pc[w] \notin Undecided => job[w].to # None
  /\ pc[w] \notin Undecided \cup {"compare"} =>
       job[w].from # None /\ job[w].from # job[w].to
  /\ pc[w] = "compare" => job[w].op = "rollback"
  /\ pc[w] # "idle" /\ job[w].op = "rollback" => Kind[Svc(w)] # "digest"
JobsNameVersions == \A w \in Workers : NamesVersions(w)

\* Once an attempt was decided, the service keeps a current version, but for a
\* digest, whose row the check loop deletes with the container.
Tried(s) ==
  \/ \E i \in DOMAIN logs : logs[i].svc = s
  \/ \E w \in Workers : pc[w] \notin Undecided /\ Svc(w) = s
KnownOnceTried ==
  \A s \in Services : Kind[s] # "digest" /\ Tried(s) => check[s].cur # None

\* Only for a service whose version cannot be inspected does the check loop go
\* on without one, and then none has been recorded meanwhile.
ChecksFollow ==
  chk.pc = "store" /\ chk.cur = None =>
    Kind[Checked] = "source" /\ check[Checked].cur = None

\* Without a crash there is nothing to reconcile, and an alert stands at most
\* until the goroutine that succeeded resolves it.
NoCrash == budget["crash"] = Budget["crash"]
AlertsFollow ==
  /\ budget["crash"] <= Budget["crash"]
  /\ NoCrash /\ mode # "serving" => logs = <<>> /\ recon.pc = "next"
  /\ NoCrash => \A s \in Services, i \in DOMAIN logs :
       LastRow(s, i) /\ logs[i].status = "done" /\ alert[s]
         => \E w \in Workers : pc[w] = "resolve" /\ Svc(w) = s

LogInv ==
  /\ UpdateInv /\ RowsFollow /\ ReconFollows
  /\ OffersAreReal /\ AttemptsNameVersions
  /\ JobsNameVersions /\ KnownOnceTried /\ ChecksFollow /\ AlertsFollow

-----------------------------------------------------------------------------
(* The log, and the steps of a goroutine.                                  *)

LEMMA StatusIsSet ==
  ASSUME TypeOK, NEW w \in Workers, job[w].log \in DOMAIN logs,
         NEW st \in Statuses, SetStatus(w, st)
  PROVE  /\ logs' \in Seq(Rows) /\ DOMAIN logs' = DOMAIN logs
         /\ \A k \in DOMAIN logs :
              /\ logs'[k].svc = logs[k].svc
              /\ logs'[k].from = logs[k].from /\ logs'[k].to = logs[k].to
              /\ logs'[k].status = IF k = job[w].log THEN st ELSE logs[k].status
<1> DEFINE i == job[w].log
<1>1. logs \in Seq(Rows) /\ logs \in [1..Len(logs) -> Rows] /\ DOMAIN logs = 1..Len(logs)
  BY LenProperties DEF TypeOK
<1>2. logs' = [logs EXCEPT ![i] = [logs[i] EXCEPT !.status = st]]
  BY DEF SetStatus
<1>3. \A k \in DOMAIN logs : logs[k] \in Rows
  BY <1>1
<1>4. \A k \in DOMAIN logs :
        logs'[k] = IF k = i THEN [logs[i] EXCEPT !.status = st] ELSE logs[k]
  BY <1>1, <1>2
<1>5. logs' \in Seq(Rows) /\ DOMAIN logs' = DOMAIN logs
  BY <1>1, SetStatusKeepsRows DEF SetStatus
<1>6. i \in DOMAIN logs
  OBVIOUS
<1> HIDE DEF i
<1>7. \A k \in DOMAIN logs :
        /\ logs'[k].svc = logs[k].svc
        /\ logs'[k].from = logs[k].from /\ logs'[k].to = logs[k].to
        /\ logs'[k].status = IF k = i THEN st ELSE logs[k].status
  BY <1>3, <1>4, <1>6 DEF Rows
<1> QED
  BY <1>5, <1>7 DEF i

\* A busy goroutine, its row, and the others, who are elsewhere.
LEMMA OwnRow ==
  ASSUME UpdateInv, NEW w \in Workers, pc[w] # "idle"
  PROVE  /\ job[w] \in Jobs /\ Svc(w) \in Services /\ mode = "serving"
         /\ job[w].from \in Maybe /\ job[w].to \in Maybe
         /\ job[w].out \in {"failed", "rolled_back"}
         /\ pc \in [Workers -> PCs] /\ job \in [Workers -> Jobs \cup {NoJob}]
         /\ logs \in Seq(Rows)
         /\ job[w].log # 0 => /\ job[w].log \in DOMAIN logs
                              /\ logs[job[w].log].svc = Svc(w)
                              /\ logs[job[w].log].to = job[w].to
         /\ pc[w] \in Unlogged => job[w].log = 0
         /\ \A v \in Workers \ {w} : IF pc[v] = "idle" THEN job[v] = NoJob
                                     ELSE Svc(v) \in Services \ {Svc(w)}
<1>1. job[w] \in Jobs /\ Svc(w) \in Services
      /\ job[w].from \in Maybe /\ job[w].to \in Maybe
      /\ job[w].out \in {"failed", "rolled_back"}
  BY JobIsTyped DEF UpdateInv
<1>2. \A v \in Workers \ {w} : IF pc[v] = "idle" THEN job[v] = NoJob
                               ELSE Svc(v) \in Services \ {Svc(w)}
  BY JobIsTyped DEF UpdateInv, MutualExclusion, LocalsOK, Busy
<1>3. mode = "serving"
  BY DEF UpdateInv, LockHeld, Busy
<1> QED
  BY <1>1, <1>2, <1>3 DEF UpdateInv, OwnsRow, TypeOK

LEMMA OthersStand ==
  ASSUME UpdateInv, NEW w \in Workers, Step(w)
  PROVE  /\ pc[w] # "idle" /\ mode' = "serving"
         /\ \A v \in Workers \ {w} : pc'[v] = pc[v] /\ job'[v] = job[v]
         /\ UNCHANGED <<mode, recon, chk, trigger, budget, upstream>>
         /\ pc'[w] # "idle" => Svc(w)' = Svc(w)
<1>1. pc[w] # "idle" /\ mode = "serving"
  BY StepServes
<1>2. TypeOK /\ LocalsOK
  BY DEF UpdateInv
<1>3. CASE Release(w)
  BY <1>1, <1>2, <1>3 DEF Release, Goto, TypeOK, KeepWorld
<1>4. CASE Moves(w)
  BY <1>1, <1>2, <1>4 DEF Moves, Svc, TypeOK
<1> QED
  BY <1>2, <1>3, <1>4, StepMoves

\* The steps that mark a row, and what they write.
Marks(w, st) ==
  /\ SetStatus(w, st) /\ UNCHANGED <<job, check, alert>>
  /\ \/ pc[w] = "begin" /\ pc'[w] = "fetch" /\ st \in {"pulling", "building"}
     \/ pc[w] = "fetch" /\ pc'[w] = "release" /\ st = "failed"
     \/ pc[w] = "mark" /\ pc'[w] = "down" /\ st = "restarting"
     \/ pc[w] = "bad" /\ pc'[w] = "raise" /\ st = job[w].out
     \/ pc[w] = "done" /\ pc'[w] = "resolve" /\ st = "done"

LEMMA WritesAre ==
  ASSUME UpdateInv, NEW w \in Workers, Step(w)
  PROVE  CreateLog(w) \/ UNCHANGED logs \/ \E st \in Statuses : Marks(w, st)
<1>1. pc \in [Workers -> PCs] /\ job[w].out \in Statuses
  BY OthersStand, OwnRow DEF Statuses
<1>2. CASE BeginFetch(w)
  BY <1>1, <1>2 DEF BeginFetch, Marks, At, Goto, KeepTables, Statuses
<1>3. CASE RefuseBuilt(w)
  BY <1>1, <1>3 DEF RefuseBuilt, Marks, At, Goto, KeepTables, Statuses
<1>4. CASE Mark(w)
  BY <1>1, <1>4 DEF Mark, Marks, At, Goto, KeepTables, Statuses
<1>5. CASE MarkBad(w)
  BY <1>1, <1>5 DEF MarkBad, Marks, At, Goto, KeepTables
<1>6. CASE MarkDone(w)
  BY <1>1, <1>6 DEF MarkDone, Marks, At, Goto, KeepTables, Statuses
<1>7. CASE ~(BeginFetch(w) \/ RefuseBuilt(w) \/ Mark(w) \/ MarkBad(w) \/ MarkDone(w)
             \/ CreateLog(w))
  BY <1>7 DEF Step, ReadCheck, FindPrevious, CompareCurrent, Fetch, FetchFails, Rewrite,
     Down, Up, CheckHealth, Revert, RevertDown, RevertUp, RaiseAlert, ResolveAlert,
     Record, Release, tables
<1> QED
  BY <1>2, <1>3, <1>4, <1>5, <1>6, <1>7

\* The new row of CreateLog.
NewRow(w) == [svc |-> Svc(w), from |-> job[w].from, to |-> job[w].to, status |-> "pending"]

LEMMA RowIsAdded ==
  ASSUME UpdateInv, NEW w \in Workers, CreateLog(w)
  PROVE  /\ pc[w] = "create" /\ pc'[w] = "begin" /\ UNCHANGED <<check, alert>>
         /\ logs' = Append(logs, NewRow(w)) /\ logs' \in Seq(Rows)
         /\ DOMAIN logs' = DOMAIN logs \cup {Len(logs) + 1}
         /\ logs'[Len(logs) + 1] = NewRow(w)
         /\ \A k \in DOMAIN logs : logs'[k] = logs[k] /\ k <= Len(logs)
         /\ Len(logs) \in Nat /\ Len(logs) + 1 \notin DOMAIN logs
         /\ job'[w] = [job[w] EXCEPT !.log = Len(logs) + 1]
<1>1. pc[w] = "create"
  BY DEF CreateLog, At
<1>2. pc \in [Workers -> PCs] /\ job \in [Workers -> Jobs \cup {NoJob}] /\ job[w] \in Jobs
      /\ logs \in Seq(Rows) /\ Svc(w) \in Services /\ job[w].from \in Maybe
      /\ job[w].to \in Maybe
  BY <1>1, OwnRow
<1>3. NewRow(w) \in Rows
  BY <1>2 DEF NewRow, Rows, Statuses
<1>4. logs' = Append(logs, NewRow(w)) /\ pc'[w] = "begin" /\ UNCHANGED <<check, alert>>
  BY <1>2 DEF CreateLog, NewRow, Goto, KeepTables
<1>5. job'[w] = [job[w] EXCEPT !.log = Len(logs) + 1]
  BY <1>2 DEF CreateLog
<1>6. Len(logs) \in Nat /\ DOMAIN logs = 1..Len(logs)
  BY <1>2, LenProperties
<1> QED
  BY <1>1, <1>2, <1>3, <1>4, <1>5, <1>6, AppendKeepsRows

\* What a step of a goroutine makes of the rows.
LEMMA RowsGrow ==
  ASSUME UpdateInv, RowsFollow, NEW w \in Workers, Step(w)
  PROVE  /\ logs' \in Seq(Rows)
         /\ \A k \in DOMAIN logs :
              /\ k \in DOMAIN logs' /\ logs'[k].svc = logs[k].svc
              /\ logs'[k].from = logs[k].from /\ logs'[k].to = logs[k].to
              /\ k # job[w].log => logs'[k].status = logs[k].status
         /\ \A k \in DOMAIN logs' \ DOMAIN logs :
              pc[w] = "create" /\ logs'[k] = NewRow(w)
<1>1. pc[w] # "idle" /\ logs \in Seq(Rows)
      /\ (job[w].log # 0 => job[w].log \in DOMAIN logs)
  BY OthersStand, OwnRow
<1>2. CASE CreateLog(w)
  BY <1>2, RowIsAdded
<1>3. ASSUME NEW st \in Statuses, Marks(w, st)
      PROVE  /\ logs' \in Seq(Rows) /\ DOMAIN logs' = DOMAIN logs
             /\ \A k \in DOMAIN logs :
                  /\ logs'[k].svc = logs[k].svc
                  /\ logs'[k].from = logs[k].from /\ logs'[k].to = logs[k].to
                  /\ k # job[w].log => logs'[k].status = logs[k].status
  <2>1. job[w].log \in DOMAIN logs
    BY <1>1, <1>3 DEF Marks, RowsFollow, FollowsRow, Unlogged
  <2> QED
    BY <1>3, <2>1, StatusIsSet DEF Marks, UpdateInv
<1>4. CASE UNCHANGED logs
  BY <1>1, <1>4
<1> QED
  BY <1>2, <1>3, <1>4, WritesAre

\* A step that leaves the log alone leaves the row right for where it goes.
LEMMA SameRowFollows ==
  ASSUME UpdateInv, NEW w \in Workers, FollowsRow(w), pc[w] # "idle",
         UNCHANGED logs, job'[w].log = job[w].log, Svc(w)' = Svc(w),
         pc'[w] \notin Unlogged \cup {"release"} => job[w].log # 0,
         StatusAt(pc[w]) \subseteq StatusAt(pc'[w]),
         job'[w].out = "rolled_back" => pc'[w] \in {"bad", "raise", "release"},
         pc'[w] = "bad" /\ job'[w].out = "rolled_back"
           => logs[job[w].log].status = "restarting"
  PROVE  FollowsRow(w)'
BY DEF FollowsRow

LEMMA OwnRowFollows ==
  ASSUME UpdateInv, RowsFollow, NEW w \in Workers, Step(w)
  PROVE  FollowsRow(w)'
<1> DEFINE i == job[w].log
<1>1. /\ pc[w] # "idle" /\ pc \in [Workers -> PCs] /\ FollowsRow(w)
      /\ job \in [Workers -> Jobs \cup {NoJob}] /\ job[w] \in Jobs
      /\ (i # 0 => i \in DOMAIN logs /\ logs[i].svc = Svc(w))
      /\ (pc[w] \in Unlogged => i = 0)
      /\ (pc'[w] # "idle" => Svc(w)' = Svc(w))
  BY OthersStand, OwnRow DEF RowsFollow
<1> USE DEF At, Goto
<1>2. CASE ReadCheck(w) \/ FindPrevious(w) \/ CompareCurrent(w)
  <2>1. /\ job'[w].log = 0 /\ job'[w].out = job[w].out /\ pc[w] \in Unlogged
        /\ pc'[w] \in {"create", "compare", "release"}
    BY <1>1, <1>2 DEF ReadCheck, FindPrevious, CompareCurrent, Unlogged, Jobs
  <2> QED
    BY <1>1, <2>1 DEF FollowsRow, Unlogged
<1>3. CASE CreateLog(w)
  <2>1. /\ pc[w] = "create" /\ pc'[w] = "begin" /\ job'[w].log = Len(logs) + 1
        /\ job'[w].out = job[w].out /\ Len(logs) \in Nat
        /\ logs'[Len(logs) + 1].status = "pending"
        /\ \A j \in DOMAIN logs' : j <= Len(logs) + 1
    <3>1. /\ pc[w] = "create" /\ pc'[w] = "begin" /\ Len(logs) \in Nat
          /\ logs'[Len(logs) + 1] = NewRow(w)
          /\ job'[w] = [job[w] EXCEPT !.log = Len(logs) + 1]
          /\ DOMAIN logs' = DOMAIN logs \cup {Len(logs) + 1}
      BY <1>3, RowIsAdded
    <3>2. \A j \in DOMAIN logs : j \in Nat /\ j <= Len(logs)
      BY LenProperties DEF UpdateInv, TypeOK
    <3>3. \A j \in DOMAIN logs' : j <= Len(logs) + 1
      BY <3>1, <3>2
    <3>4. job'[w].log = Len(logs) + 1 /\ job'[w].out = job[w].out
      BY <1>1, <3>1 DEF Jobs
    <3> QED
      BY <3>1, <3>3, <3>4 DEF NewRow
  <2> QED
    BY <1>1, <2>1 DEF FollowsRow, StatusAt, Unlogged
<1>4. ASSUME NEW st \in Statuses, Marks(w, st) PROVE FollowsRow(w)'
  <2>1. /\ i \in DOMAIN logs /\ job'[w] = job[w] /\ Svc(w)' = Svc(w)
        /\ \A j \in DOMAIN logs : logs[j].svc = Svc(w) => j <= i
    BY <1>1, <1>4 DEF Marks, FollowsRow, Unlogged, Svc
  <2>2. /\ DOMAIN logs' = DOMAIN logs /\ logs'[i].status = st
        /\ \A j \in DOMAIN logs : logs'[j].svc = logs[j].svc
    <3>1. TypeOK /\ SetStatus(w, st)
      BY <1>4 DEF Marks, UpdateInv
    <3> QED
      BY <2>1, <3>1, StatusIsSet
  <2>3. st \in StatusAt(pc'[w])
    BY <1>1, <1>4 DEF Marks, StatusAt, Terminal, Jobs
  <2>4. job[w].out = "rolled_back" => pc'[w] \in {"bad", "raise", "release"}
    BY <1>1, <1>4 DEF Marks, FollowsRow
  <2>5. pc'[w] # "bad" /\ i # 0
    BY <1>1, <1>4 DEF Marks, FollowsRow, Unlogged
  <2> QED
    BY <2>1, <2>2, <2>3, <2>4, <2>5 DEF FollowsRow
<1>5. CASE Fetch(w) \/ FetchFails(w) \/ Rewrite(w)
  <2>1. /\ UNCHANGED <<logs, job>> /\ pc[w] \in {"fetch", "rewrite"}
        /\ pc'[w] \in {"rewrite", "mark", "bad"}
    BY <1>1, <1>5 DEF Fetch, FetchFails, Rewrite
  <2>2. StatusAt(pc[w]) \subseteq StatusAt(pc'[w])
    BY <2>1 DEF StatusAt
  <2> QED
    BY <1>1, <2>1, <2>2, SameRowFollows DEF FollowsRow, Unlogged
<1>6. CASE Down(w) \/ Up(w) \/ CheckHealth(w) \/ Revert(w) \/ RevertDown(w)
  <2>1. /\ UNCHANGED <<logs, job>>
        /\ pc[w] \in {"down", "up", "health", "revert", "revert_down"}
        /\ pc'[w] \in {"up", "health", "done", "revert", "revert_down", "revert_up", "bad"}
    BY <1>1, <1>6 DEF Down, Up, CheckHealth, Revert, RevertDown, AfterTrouble
  <2>2. StatusAt(pc[w]) \subseteq StatusAt(pc'[w])
    BY <2>1 DEF StatusAt
  <2> QED
    BY <1>1, <2>1, <2>2, SameRowFollows DEF FollowsRow, Unlogged
<1>7. CASE RevertUp(w)
  <2>1. /\ UNCHANGED logs /\ pc[w] = "revert_up" /\ pc'[w] = "bad"
        /\ job'[w].log = i /\ job'[w].out = "rolled_back"
    BY <1>1, <1>7 DEF RevertUp, Jobs
  <2>2. i # 0 /\ logs[i].status = "restarting"
    BY <1>1, <2>1 DEF FollowsRow, StatusAt, Unlogged
  <2>3. StatusAt(pc[w]) \subseteq StatusAt(pc'[w])
    BY <2>1 DEF StatusAt
  <2> QED
    BY <1>1, <2>1, <2>2, <2>3, SameRowFollows
<1>8. CASE RaiseAlert(w) \/ ResolveAlert(w) \/ Record(w)
  <2>1. /\ UNCHANGED <<logs, job>> /\ pc[w] \in {"raise", "resolve", "record"}
        /\ pc'[w] \in {"release", "record"} /\ (pc'[w] = "record" => pc[w] = "resolve")
    BY <1>1, <1>8 DEF RaiseAlert, ResolveAlert, Record
  <2>2. StatusAt(pc[w]) \subseteq StatusAt(pc'[w])
    BY <2>1 DEF StatusAt, Terminal
  <2> QED
    BY <1>1, <2>1, <2>2, SameRowFollows DEF FollowsRow, Unlogged
<1>9. CASE Release(w)
  BY <1>1, <1>9 DEF Release, FollowsRow, NoJob, Unlogged
<1>10. CASE BeginFetch(w) \/ RefuseBuilt(w) \/ Mark(w) \/ MarkBad(w) \/ MarkDone(w)
  <2>1. ~CreateLog(w)
    BY <1>10 DEF BeginFetch, RefuseBuilt, Mark, MarkBad, MarkDone, CreateLog
  <2>2. logs' # logs \/ \E st \in Statuses : Marks(w, st)
    <3>1. job[w].out \in Statuses
      BY <1>1, JobIsTyped DEF UpdateInv, Statuses
    <3> QED
      BY <1>1, <1>10, <3>1 DEF BeginFetch, RefuseBuilt, Mark, MarkBad, MarkDone, Marks,
         KeepTables, Statuses
  <2> QED
    BY <1>4, <2>1, <2>2, WritesAre
<1> QED
  BY <1>2, <1>3, <1>5, <1>6, <1>7, <1>8, <1>9, <1>10 DEF Step

\* The row of a goroutine that does not step.
LEMMA BystanderFollows ==
  ASSUME UpdateInv, RowsFollow, NEW w \in Workers, Step(w), NEW v \in Workers \ {w}
  PROVE  FollowsRow(v)'
<1>1. /\ pc[w] # "idle" /\ pc'[v] = pc[v] /\ job'[v] = job[v] /\ FollowsRow(v)
      /\ Svc(v)' = Svc(v)
  BY OthersStand DEF RowsFollow, Svc
<1>2. CASE pc[v] = "idle"
  BY <1>1, <1>2, OwnRow DEF FollowsRow, NoJob, Unlogged
<1>3. CASE pc[v] # "idle"
  <2> DEFINE i == job[v].log
  <2>1. Svc(v) # Svc(w) /\ (i # 0 => i \in DOMAIN logs /\ logs[i].svc = Svc(v))
        /\ (job[w].log # 0 => logs[job[w].log].svc = Svc(w))
    BY <1>1, <1>3, OwnRow
  <2>2. i # 0 => /\ i # job[w].log /\ logs'[i].status = logs[i].status
    BY <2>1, RowsGrow
  <2>3. \A j \in DOMAIN logs' : logs'[j].svc = Svc(v) =>
          j \in DOMAIN logs /\ logs[j].svc = Svc(v)
    BY <2>1, RowsGrow DEF NewRow
  <2> QED
    BY <1>1, <2>2, <2>3 DEF FollowsRow, Unlogged
<1> QED
  BY <1>2, <1>3

LEMMA StepKeepsRows ==
  ASSUME UpdateInv, RowsFollow, NEW w \in Workers, Step(w)
  PROVE  RowsFollow'
BY OwnRowFollows, BystanderFollows DEF RowsFollow

\* What is not a step of a goroutine.
LEMMA RequestsAre ==
  ASSUME UpdateInv, NEW w \in Workers, NEW s \in Services,
         NEW op \in {"update", "rollback"}, Request(w, s, op)
  PROVE  /\ mode = "serving" /\ pc[w] = "idle" /\ job[w] = NoJob
         /\ pc'[w] = "locked" /\ Svc(w)' = s /\ job'[w].op = op
         /\ job'[w].log = 0 /\ job'[w].out = "failed"
         /\ \A v \in Workers \ {w} :
              pc'[v] = pc[v] /\ job'[v] = job[v] /\ Svc(v)' = Svc(v)
         /\ op = "rollback" => Kind[s] # "digest"
         /\ budget'["crash"] = budget["crash"]
         /\ UNCHANGED <<mode, recon, chk, check, logs, alert>>
<1> DEFINE j == [NoJob EXCEPT !.svc = s, !.op = op]
<1>1. j.svc = s /\ j.op = op /\ j.log = 0 /\ j.out = "failed"
  BY DEF NoJob
<1>2. job' = [job EXCEPT ![w] = j] /\ pc' = [pc EXCEPT ![w] = "locked"]
  BY DEF Request, Goto
<1> HIDE DEF j
<1>3. pc \in [Workers -> PCs] /\ job \in [Workers -> Jobs \cup {NoJob}]
      /\ budget \in [Limited -> Nat]
  BY DEF UpdateInv, TypeOK
<1>4. job'[w] = j /\ pc'[w] = "locked"
      /\ \A v \in Workers \ {w} : pc'[v] = pc[v] /\ job'[v] = job[v]
  BY <1>2, <1>3
<1>5. /\ mode = "serving" /\ pc[w] = "idle"
      /\ op = "rollback" => Kind[s] # "digest"
      /\ budget' = [budget EXCEPT !["request"] = @ - 1]
      /\ UNCHANGED <<mode, recon, chk, check, logs, alert>>
  BY DEF Request, At, Spend, tables
<1>6. budget'["crash"] = budget["crash"] /\ job[w] = NoJob
  BY <1>3, <1>5 DEF UpdateInv, LocalsOK, Busy, Limited
<1> QED
  BY <1>1, <1>4, <1>5, <1>6 DEF Svc

\* The outside world and the trigger leave all but the alert a user dismisses.
LEMMA OutsideStands ==
  ASSUME UpdateInv, TriggerCheck \/ World
  PROVE  /\ UNCHANGED <<mode, pc, job, recon, logs, chk, check>>
         /\ budget'["crash"] = budget["crash"]
         /\ \A s \in Services : alert'[s] => alert[s]
<1>1. CASE TriggerCheck
  BY <1>1 DEF TriggerCheck, Spend, UpdateInv, TypeOK, tables
<1>2. ASSUME NEW s \in Services, \/ ServiceUp(s) \/ ServiceDown(s) \/ PullRestart(s)
      PROVE  UNCHANGED <<mode, memory, tables, budget>>
  BY <1>2 DEF ServiceUp, ServiceDown, PullRestart, KeepProcess
<1>3. ASSUME NEW s \in Services, NEW v \in Versions, Publish(s, v)
      PROVE  UNCHANGED <<mode, memory, tables>> /\ budget'["crash"] = budget["crash"]
  BY <1>3 DEF Publish, Spend, UpdateInv, TypeOK
<1>4. ASSUME NEW s \in Services, Dismiss(s)
      PROVE  /\ UNCHANGED <<mode, memory, check, logs>>
             /\ budget'["crash"] = budget["crash"]
             /\ \A t \in Services : alert'[t] => alert[t]
  BY <1>4 DEF Dismiss, Spend, UpdateInv, TypeOK
<1> QED
  BY <1>1, <1>2, <1>3, <1>4 DEF World, memory, tables

\* So does the check loop, but for its own variables and its table.
LEMMA CheckerStands ==
  ASSUME UpdateInv, Checker
  PROVE  mode = "serving" /\ UNCHANGED <<mode, pc, job, recon, budget, logs, alert>>
BY DEF Checker, Tick, TakeTrigger, StartCheck, Inspect, InspectFails,
     Fallback, StoreCheck, KeepWorkers, tables

\* While the process does not serve there are no goroutines.
LEMMA StartupStands ==
  ASSUME UpdateInv, Startup
  PROVE  /\ mode # "serving" /\ UNCHANGED <<updating, pc, job, trigger, budget>>
         /\ \A w \in Workers : pc[w] = "idle" /\ job[w] = NoJob
<1>1. mode # "serving"
  BY DEF Startup, Boot, JudgeStuck, ReconcileAlert, ReconcileRecord, Serve
<1>2. UNCHANGED <<updating, pc, job, trigger, budget>>
  BY DEF Startup, Boot, JudgeStuck, ReconcileAlert, ReconcileRecord, Serve, KeepReconciled
<1> QED
  BY <1>1, <1>2, IdleUnlessServing DEF Busy

\* A crash leaves no goroutine.
LEMMA CrashStands ==
  ASSUME UpdateInv, Crash
  PROVE  /\ \A w \in Workers : pc'[w] = "idle" /\ job'[w] = NoJob
         /\ mode' = "down" /\ chk' = ChkOff /\ UNCHANGED tables
         /\ budget["crash"] \in Nat /\ budget["crash"] > 0
         /\ budget'["crash"] = budget["crash"] - 1
<1>1. budget \in [Limited -> Nat] /\ "crash" \in Limited
  BY DEF UpdateInv, TypeOK, Limited
<1> QED
  BY <1>1 DEF Crash, Spend

\* A goroutine that is idle has no row to follow.
LEMMA IdleFollows ==
  ASSUME NEW w \in Workers, pc'[w] = "idle", job'[w] = NoJob
  PROVE  FollowsRow(w)'
BY DEF FollowsRow, NoJob, Unlogged

LEMMA NextKeepsRows ==
  ASSUME UpdateInv, RowsFollow, [Next]_vars PROVE RowsFollow'
<1>1. ASSUME NEW w \in Workers, NEW s \in Services,
             NEW op \in {"update", "rollback"}, Request(w, s, op)
      PROVE  RowsFollow'
  <2>1. /\ pc'[w] = "locked" /\ job'[w].log = 0 /\ job'[w].out = "failed"
        /\ \A v \in Workers \ {w} : pc'[v] = pc[v] /\ job'[v] = job[v]
        /\ logs' = logs
    BY <1>1, RequestsAre
  <2>2. FollowsRow(w)'
    BY <2>1 DEF FollowsRow, Unlogged
  <2>3. ASSUME NEW v \in Workers \ {w} PROVE FollowsRow(v)'
    BY <2>1 DEF RowsFollow, FollowsRow, Svc
  <2> QED
    BY <2>2, <2>3 DEF RowsFollow
<1>2. CASE Checker \/ TriggerCheck \/ World
  BY <1>2, OutsideStands, CheckerStands DEF RowsFollow, FollowsRow, Svc
<1>3. CASE Crash
  BY <1>3, CrashStands, IdleFollows DEF RowsFollow
<1>4. CASE Startup
  BY <1>4, StartupStands, IdleFollows DEF RowsFollow
<1>5. CASE UNCHANGED vars
  BY <1>5 DEF vars, memory, tables, RowsFollow, FollowsRow, Svc
<1> QED
  BY <1>1, <1>2, <1>3, <1>4, <1>5, StepKeepsRows DEF Next, Requests

\* The verdict of the reconciliation on one row.
LEMMA VerdictIs ==
  ASSUME UpdateInv, NEW i \in DOMAIN logs, JudgeStuck(i)
  PROVE  /\ mode = "booting" /\ i \in recon.todo /\ recon'.todo = recon.todo \ {i}
         /\ \E st \in {"done", "failed"} :
              /\ logs' = [logs EXCEPT ![i].status = st]
              /\ logs'[i].status = st
         /\ DOMAIN logs' = DOMAIN logs
         /\ \A k \in DOMAIN logs :
              /\ logs'[k].svc = logs[k].svc
              /\ logs'[k].from = logs[k].from /\ logs'[k].to = logs[k].to
              /\ k # i => logs'[k].status = logs[k].status
<1>1. mode = "booting" /\ i \in recon.todo /\ recon'.todo = recon.todo \ {i}
  BY DEF JudgeStuck
<1>2. PICK st \in {"done", "failed"} : logs' = [logs EXCEPT ![i].status = st]
  BY DEF JudgeStuck
<1>3. logs \in Seq(Rows) /\ logs \in [1..Len(logs) -> Rows] /\ DOMAIN logs = 1..Len(logs)
  BY LenProperties DEF UpdateInv, TypeOK
<1>4. \A k \in DOMAIN logs : logs[k] \in Rows
  BY <1>3
<1> QED
  BY <1>1, <1>2, <1>3, <1>4 DEF Rows

-----------------------------------------------------------------------------
(* The reconciliation.                                                     *)

LEMMA NextKeepsRecon ==
  ASSUME UpdateInv, ReconFollows, [Next]_vars PROVE ReconFollows'
<1>1. ASSUME NEW w \in Workers, Step(w) PROVE ReconFollows'
  BY <1>1, OthersStand DEF ReconFollows
<1>2. CASE Requests
  <2>1. mode' = "serving"
    BY <1>2, RequestsAre DEF Requests
  <2> QED
    BY <2>1 DEF ReconFollows
<1>3. CASE TriggerCheck \/ World
  BY <1>3, OutsideStands DEF ReconFollows
<1>4. CASE Checker
  BY <1>4, CheckerStands DEF ReconFollows
<1>5. CASE Crash
  BY <1>5, CrashStands DEF ReconFollows, ChkOff
<1>6. CASE Boot
  BY <1>6 DEF Boot, NoRecon, ReconFollows, tables
<1>7. ASSUME NEW i \in DOMAIN logs, JudgeStuck(i) PROVE ReconFollows'
  <2>1. mode = "booting" /\ mode' = mode /\ chk' = chk
    BY <1>7 DEF JudgeStuck, KeepReconciled
  <2>2. \A k \in DOMAIN logs' : logs'[k].status = "restarting" <=>
          k # i /\ logs[k].status = "restarting"
    BY <1>7, VerdictIs
  <2> QED
    BY <1>7, <2>1, <2>2, VerdictIs DEF ReconFollows
<1>8. CASE ReconcileAlert \/ ReconcileRecord
  <2>1. recon'.todo = recon.todo /\ UNCHANGED <<mode, chk, logs>>
    BY <1>8 DEF ReconcileAlert, ReconcileRecord, KeepReconciled, UpdateInv, TypeOK
  <2> QED
    BY <2>1 DEF ReconFollows
<1>9. CASE Serve
  BY <1>9 DEF Serve, ReconFollows
<1>10. CASE UNCHANGED vars
  BY <1>10 DEF vars, memory, tables, ReconFollows
<1> QED
  BY <1>1, <1>2, <1>3, <1>4, <1>5, <1>6, <1>7, <1>8, <1>9, <1>10 DEF Next, Startup

-----------------------------------------------------------------------------
(* Versions: what the check row offers and the attempts name.              *)

Settled(w) == pc[w] \notin Undecided \cup {"compare"}

\* Once an attempt is decided, its operation and its versions stand.
LEMMA SettledStands ==
  ASSUME UpdateInv, NEW w \in Workers, Step(w), ~Release(w),
         ~ReadCheck(w), ~FindPrevious(w), ~CompareCurrent(w)
  PROVE  /\ Settled(w) /\ job'[w].op = job[w].op
         /\ job'[w].from = job[w].from /\ job'[w].to = job[w].to
<1>1. job \in [Workers -> Jobs \cup {NoJob}] /\ job[w] \in Jobs
  BY OthersStand, OwnRow
<1>2. CASE CreateLog(w)
  <2> DEFINE j == [job[w] EXCEPT !.log = Len(logs) + 1]
  <2>1. job'[w] = j /\ j.op = job[w].op /\ j.from = job[w].from /\ j.to = job[w].to
    BY <1>1, <1>2 DEF CreateLog, Jobs
  <2> QED
    BY <1>2, <2>1 DEF CreateLog, Settled, Undecided, At
<1>3. CASE RevertUp(w)
  <2> DEFINE j == [job[w] EXCEPT !.out = "rolled_back"]
  <2>1. job'[w] = j /\ j.op = job[w].op /\ j.from = job[w].from /\ j.to = job[w].to
    BY <1>1, <1>3 DEF RevertUp, Jobs
  <2> QED
    BY <1>3, <2>1 DEF RevertUp, Settled, Undecided, At
<1>4. CASE ~CreateLog(w) /\ ~RevertUp(w)
  BY <1>4 DEF Step, Settled, Undecided, At, BeginFetch, RefuseBuilt, Fetch, FetchFails,
     Rewrite, Mark, Down, Up, CheckHealth, Revert, RevertDown, MarkBad, RaiseAlert,
     MarkDone, ResolveAlert, Record
<1> QED
  BY <1>2, <1>3, <1>4

\* How a goroutine decides what to do, and how it ends.
LEMMA DecisionsAre ==
  ASSUME UpdateInv, NEW w \in Workers,
         ReadCheck(w) \/ FindPrevious(w) \/ CompareCurrent(w)
  PROVE  /\ job'[w].op = job[w].op /\ Svc(w)' = Svc(w) /\ UNCHANGED <<check, logs, alert>>
         /\ pc[w] \in {"locked", "compare"}
         /\ pc[w] = "compare" => job'[w].to = job[w].to
         /\ \/ pc'[w] = "release"
            \/ /\ pc[w] = "locked" /\ pc'[w] = "create" /\ check[Svc(w)].has
               /\ job'[w].from = check[Svc(w)].cur /\ job'[w].to = check[Svc(w)].latest
            \/ /\ pc[w] = "locked" /\ pc'[w] = "compare" /\ job[w].op = "rollback"
               /\ \E i \in DOMAIN logs :
                    /\ logs[i].svc = Svc(w)
                    /\ logs[i].from # None /\ job'[w].to = logs[i].from
            \/ /\ pc[w] = "compare" /\ pc'[w] = "create"
               /\ job'[w].from = check[Svc(w)].cur /\ check[Svc(w)].cur # job[w].to
<1>1. job \in [Workers -> Jobs \cup {NoJob}] /\ job[w] \in Jobs
      /\ pc \in [Workers -> PCs]
  <2>1. pc[w] # "idle"
    BY DEF ReadCheck, FindPrevious, CompareCurrent, At
  <2> QED
    BY <2>1, OwnRow
<1>2. CASE ReadCheck(w)
  <2> DEFINE j == [job[w] EXCEPT !.from = check[Svc(w)].cur, !.to = check[Svc(w)].latest]
  <2>1. j.op = job[w].op /\ j.svc = job[w].svc /\ j.from = check[Svc(w)].cur
        /\ j.to = check[Svc(w)].latest
    BY <1>1 DEF Jobs
  <2>2. check[Svc(w)].has => job'[w] = j /\ pc'[w] = "create"
    BY <1>1, <1>2 DEF ReadCheck, Goto
  <2>3. ~check[Svc(w)].has => job'[w] = job[w] /\ pc'[w] = "release"
    BY <1>1, <1>2 DEF ReadCheck, Goto
  <2> QED
    BY <1>2, <2>1, <2>2, <2>3 DEF ReadCheck, At, KeepTables, Svc
<1>3. CASE FindPrevious(w)
  <2>1. ASSUME NEW i \in DOMAIN logs, NewestDone(Svc(w), i), logs[i].from # None,
               job' = [job EXCEPT ![w].to = logs[i].from], Goto(w, "compare")
        PROVE  /\ pc'[w] = "compare" /\ logs[i].svc = Svc(w) /\ job'[w].to = logs[i].from
               /\ job'[w].op = job[w].op /\ job'[w].svc = job[w].svc
    BY <1>1, <2>1 DEF NewestDone, DoneRows, RecentRows, RowsOf, Goto, Jobs
  <2>2. job[w].op = "rollback"
    BY <1>1, <1>3 DEF FindPrevious, IsUpdate, Jobs
  <2> QED
    BY <1>1, <1>3, <2>1, <2>2 DEF FindPrevious, At, Goto, KeepTables, Svc
<1>4. CASE CompareCurrent(w)
  <2> DEFINE j == [job[w] EXCEPT !.from = check[Svc(w)].cur]
  <2>1. j.op = job[w].op /\ j.svc = job[w].svc /\ j.from = check[Svc(w)].cur
        /\ j.to = job[w].to
    BY <1>1 DEF Jobs
  <2>2. check[Svc(w)].cur # job[w].to => job'[w] = j /\ pc'[w] = "create"
    BY <1>1, <1>4 DEF CompareCurrent, Goto
  <2>3. check[Svc(w)].cur = job[w].to => job'[w] = job[w] /\ pc'[w] = "release"
    BY <1>1, <1>4 DEF CompareCurrent, Goto
  <2> QED
    BY <1>4, <2>1, <2>2, <2>3 DEF CompareCurrent, At, KeepTables, Svc
<1> QED
  BY <1>2, <1>3, <1>4

LEMMA NamesOfStep ==
  ASSUME UpdateInv, OffersAreReal, JobsNameVersions, KnownOnceTried,
         NEW w \in Workers, Step(w)
  PROVE  NamesVersions(w)'
<1>1. pc[w] # "idle" /\ Svc(w) \in Services /\ NamesVersions(w)
      /\ (pc'[w] # "idle" => Svc(w)' = Svc(w))
  BY OthersStand, OwnRow DEF JobsNameVersions
<1>2. CASE Release(w)
  BY <1>2, OthersStand, OwnRow DEF Release, Goto, NamesVersions, Undecided
<1>3. CASE ReadCheck(w) \/ FindPrevious(w) \/ CompareCurrent(w)
  <2>1. CASE pc'[w] = "release"
    BY <1>1, <1>3, <2>1, DecisionsAre DEF NamesVersions, Undecided
  <2>2. CASE pc[w] = "locked" /\ pc'[w] # "release"
    BY <1>1, <1>3, <2>2, DecisionsAre DEF NamesVersions, Undecided, OffersAreReal
  <2>3. CASE pc[w] = "compare" /\ pc'[w] # "release"
    <3>1. job[w].op = "rollback" /\ Kind[Svc(w)] # "digest" /\ job[w].to # None
      BY <1>1, <2>3 DEF NamesVersions, Undecided
    <3>2. check[Svc(w)].cur # None
      BY <1>1, <2>3, <3>1 DEF KnownOnceTried, Tried, Undecided
    <3> QED
      BY <1>1, <1>3, <2>3, <3>1, <3>2, DecisionsAre DEF NamesVersions, Undecided
  <2> QED
    BY <1>3, <2>1, <2>2, <2>3, DecisionsAre
<1>4. CASE ~(Release(w) \/ ReadCheck(w) \/ FindPrevious(w) \/ CompareCurrent(w))
  <2>1. pc'[w] # "compare"
    BY <1>4 DEF Step, At, Goto, CreateLog, BeginFetch, RefuseBuilt, Fetch, FetchFails,
       Rewrite, Mark, Down, Up, CheckHealth, Revert, RevertDown, RevertUp, MarkBad,
       RaiseAlert, MarkDone, ResolveAlert, Record, AfterTrouble, UpdateInv, TypeOK
  <2> QED
    BY <1>1, <1>4, <2>1, SettledStands DEF NamesVersions, Settled
<1> QED
  BY <1>2, <1>3, <1>4

LEMMA NextKeepsNames ==
  ASSUME UpdateInv, OffersAreReal, JobsNameVersions, KnownOnceTried, [Next]_vars
  PROVE  JobsNameVersions'
<1>1. ASSUME NEW w \in Workers, Step(w) PROVE JobsNameVersions'
  <2>1. ASSUME NEW v \in Workers \ {w} PROVE NamesVersions(v)'
    BY <1>1, OthersStand DEF JobsNameVersions, NamesVersions, Svc
  <2> QED
    BY <1>1, <2>1, NamesOfStep DEF JobsNameVersions
<1>2. ASSUME NEW w \in Workers, NEW s \in Services,
             NEW op \in {"update", "rollback"}, Request(w, s, op)
      PROVE  JobsNameVersions'
  <2>1. NamesVersions(w)'
    BY <1>2, RequestsAre DEF NamesVersions, Undecided
  <2>2. ASSUME NEW v \in Workers \ {w} PROVE NamesVersions(v)'
    BY <1>2, RequestsAre DEF JobsNameVersions, NamesVersions, Svc
  <2> QED
    BY <2>1, <2>2 DEF JobsNameVersions
<1>3. CASE Checker \/ TriggerCheck \/ World
  BY <1>3, OutsideStands, CheckerStands DEF JobsNameVersions, NamesVersions, Svc
<1>4. CASE Crash
  BY <1>4, CrashStands DEF JobsNameVersions, NamesVersions, Undecided
<1>5. CASE Startup \/ UNCHANGED vars
  BY <1>5, StartupStands DEF vars, memory, JobsNameVersions, NamesVersions, Svc
<1> QED
  BY <1>1, <1>2, <1>3, <1>4, <1>5 DEF Next, Requests

\* What the check loop writes.
Forgets ==
  /\ check' = [check EXCEPT ![Checked] = NoCheck] /\ chk'.pc # "store"
  /\ Kind[Checked] # "digest" => check[Checked].cur = None
Learns ==
  \E r \in [cur : Maybe, latest : Maybe, has : BOOLEAN] :
    /\ check' = [check EXCEPT ![Checked] = r]
    /\ chk.pc = "store" /\ chk'.pc # "store"
    /\ r.cur = None => chk.cur = None
    /\ r.has => r.cur # None /\ r.latest # None /\ r.cur # r.latest
Looks ==
  /\ check' = check
  /\ chk'.pc = "store" /\ chk'.cur = None =>
       Kind[Checked]' = "source" /\ check[Checked'].cur = None

LEMMA CheckerWrites ==
  ASSUME UpdateInv, Checker PROVE Forgets \/ Learns \/ Looks
<1> DEFINE Loop == [pc : {"off", "idle", "inspect", "fallback", "store"},
                    pos : 1..Len(Registry), cur : Maybe]
<1>1. /\ chk \in Loop /\ check \in [Services -> [cur : Maybe, latest : Maybe, has : BOOLEAN]]
      /\ upstream \in [Services -> Versions] /\ Checked \in Services
  BY CheckedIsAService DEF UpdateInv, TypeOK
<1>2. NextService.pc # "store"
  BY DEF NextService
<1>3. CASE Tick \/ TakeTrigger \/ InspectFails
  <2>1. check' = check /\ chk'.pc # "store"
    BY <1>1, <1>3 DEF Tick, TakeTrigger, StartCheck, InspectFails, tables
  <2> QED
    BY <2>1 DEF Looks
<1>4. ASSUME NEW s \in Services, Inspect(s) PROVE Looks
  <2>1. check' = check /\ (chk'.pc = "store" => chk'.cur # None)
    BY <1>1, <1>4 DEF Inspect, tables
  <2> QED
    BY <2>1 DEF Looks
<1>5. CASE Fallback
  <2> DEFINE v == IF Kind[Checked] = "digest" THEN None ELSE check[Checked].cur
  <2>1. CASE v = None /\ Kind[Checked] # "source"
    BY <1>2, <1>5, <2>1 DEF Fallback, Forgets
  <2>2. CASE ~(v = None /\ Kind[Checked] # "source")
    <3>1. chk' = [chk EXCEPT !.pc = "store", !.cur = v] /\ check' = check
      BY <1>5, <2>2 DEF Fallback
    <3>2. chk'.pos = chk.pos /\ chk'.cur = v
      BY <1>1, <3>1
    <3>3. Checked' = Checked
      BY <3>2 DEF Checked
    <3> QED
      BY <2>2, <3>1, <3>2, <3>3 DEF Looks
  <2> QED
    BY <2>1, <2>2
<1>6. CASE StoreCheck
  <2> DEFINE head == upstream[Checked]
             c == IF chk.cur = None THEN head ELSE chk.cur
             full == [cur |-> c, latest |-> head,
                      has |-> c # None /\ head # None /\ c # head]
             bare == [cur |-> chk.cur, latest |-> None, has |-> FALSE]
  <2>1. head \in Versions /\ head # None /\ head \in Maybe /\ chk.cur \in Maybe /\ None \in Maybe
    BY <1>1, NoneAssumption DEF Maybe
  <2>2. c \in Maybe /\ c # None
    BY <2>1
  <2>3. full \in [cur : Maybe, latest : Maybe, has : BOOLEAN]
        /\ bare \in [cur : Maybe, latest : Maybe, has : BOOLEAN]
    BY <2>1, <2>2
  <2>4. /\ chk' = NextService /\ chk.pc = "store"
        /\ \/ check' = [check EXCEPT ![Checked] = full]
           \/ check' = [check EXCEPT ![Checked] = bare]
    BY <1>6 DEF StoreCheck, Verdict
  <2>5. ASSUME check' = [check EXCEPT ![Checked] = full] PROVE Learns
    <3>1. full.cur # None /\ (full.has => full.latest # None /\ full.cur # full.latest)
      BY <2>1, <2>2
    <3> QED
      BY <1>2, <2>3, <2>4, <2>5, <3>1 DEF Learns
  <2>6. ASSUME check' = [check EXCEPT ![Checked] = bare] PROVE Learns
    <3>1. bare.cur = chk.cur /\ ~bare.has
      OBVIOUS
    <3> QED
      BY <1>2, <2>3, <2>4, <2>6, <3>1 DEF Learns
  <2> QED
    BY <2>4, <2>5, <2>6
<1> QED
  BY <1>3, <1>4, <1>5, <1>6 DEF Checker

\* The only other writers: a goroutine that succeeded, and the reconciliation.
LEMMA CheckOfStep ==
  ASSUME NEW w \in Workers, Step(w) PROVE check' = check \/ Record(w)
BY DEF Step, Release, tables, KeepTables, ReadCheck, FindPrevious, CompareCurrent,
       CreateLog, BeginFetch, RefuseBuilt, Fetch, FetchFails, Rewrite, Mark, Down, Up,
       CheckHealth, Revert, RevertDown, RevertUp, MarkBad, RaiseAlert, MarkDone,
       ResolveAlert

LEMMA CheckOfStartup ==
  ASSUME Startup PROVE check' = check \/ ReconcileRecord
BY DEF Startup, Boot, JudgeStuck, ReconcileAlert, Serve, tables

\* The row of Record.
LEMMA RecordWrites ==
  ASSUME UpdateInv, JobsNameVersions, NEW w \in Workers, Record(w)
  PROVE  \E r \in [cur : Maybe, latest : Maybe, has : BOOLEAN] :
           /\ check' = [check EXCEPT ![Svc(w)] = r] /\ r.cur # None
           /\ r.has => r.latest # None /\ r.cur # r.latest
<1>1. pc[w] = "record"
  BY DEF Record, At
<1>2. job[w].to \in Maybe /\ job[w].from \in Maybe /\ job[w].to # None
      /\ job[w].from # None /\ job[w].from # job[w].to
  BY <1>1, OwnRow DEF JobsNameVersions, NamesVersions, Undecided
<1> DEFINE up == [cur |-> job[w].to, latest |-> job[w].to, has |-> FALSE]
           down == [cur |-> job[w].to, latest |-> job[w].from, has |-> TRUE]
<1>3. check' = [check EXCEPT ![Svc(w)] = up] \/ check' = [check EXCEPT ![Svc(w)] = down]
  BY DEF Record, Svc
<1>4. /\ up \in [cur : Maybe, latest : Maybe, has : BOOLEAN]
      /\ down \in [cur : Maybe, latest : Maybe, has : BOOLEAN]
  BY <1>2
<1> QED
  BY <1>2, <1>3, <1>4

LEMMA ReconcileWrites ==
  ASSUME UpdateInv, AttemptsNameVersions, ReconcileRecord
  PROVE  /\ mode = "booting" /\ recon.log \in DOMAIN logs /\ logs[recon.log].svc \in Services
         /\ \E r \in [cur : Maybe, latest : Maybe, has : BOOLEAN] :
              /\ check' = [check EXCEPT ![logs[recon.log].svc] = r]
              /\ r.cur # None /\ ~r.has
<1>1. mode = "booting" /\ recon.log \in DOMAIN logs /\ logs \in Seq(Rows)
  BY DEF ReconcileRecord, UpdateInv, LocalsOK, TypeOK
<1>2. logs[recon.log] \in Rows
  BY <1>1, ElementOfSeq, LenProperties
<1> DEFINE l == logs[recon.log]
           r == [cur |-> l.to, latest |-> l.to, has |-> FALSE]
<1>3. l.to \in Maybe /\ l.to # None /\ l.svc \in Services
  BY <1>1, <1>2 DEF Rows, AttemptsNameVersions
<1>4. r \in [cur : Maybe, latest : Maybe, has : BOOLEAN]
  BY <1>3
<1>5. check' = [check EXCEPT ![l.svc] = r]
  BY DEF ReconcileRecord
<1> QED
  BY <1>1, <1>3, <1>4, <1>5

\* An update on offer stays real, whoever writes the row.
LEMMA NextKeepsOffers ==
  ASSUME UpdateInv, OffersAreReal, AttemptsNameVersions, JobsNameVersions, [Next]_vars
  PROVE  OffersAreReal'
<1> DEFINE Row == [cur : Maybe, latest : Maybe, has : BOOLEAN]
<1>1. check \in [Services -> Row] /\ Checked \in Services
  BY CheckedIsAService DEF UpdateInv, TypeOK
<1>2. ASSUME NEW s \in Services, NEW r \in Row, check' = [check EXCEPT ![s] = r],
             r.has => r.cur # None /\ r.latest # None /\ r.cur # r.latest
      PROVE  OffersAreReal'
  BY <1>1, <1>2 DEF OffersAreReal
<1>3. ASSUME check' = check PROVE OffersAreReal'
  BY <1>3 DEF OffersAreReal
<1>4. ASSUME NEW w \in Workers, Step(w) PROVE OffersAreReal'
  <2>1. CASE Record(w)
    <3>1. Svc(w) \in Services
      BY <1>4, OthersStand, OwnRow
    <3> QED
      BY <1>2, <2>1, <3>1, RecordWrites
  <2> QED
    BY <1>3, <1>4, <2>1, CheckOfStep
<1>5. CASE Checker
  <2>1. CASE Forgets
    <3>1. NoCheck \in Row /\ ~NoCheck.has
      BY DEF NoCheck, Maybe
    <3> QED
      BY <1>1, <1>2, <2>1, <3>1 DEF Forgets
  <2>2. CASE Learns
    BY <1>1, <1>2, <2>2 DEF Learns
  <2> QED
    BY <1>3, <1>5, <2>1, <2>2, CheckerWrites DEF Looks
<1>6. CASE Startup
  <2>1. CASE ReconcileRecord
    BY <1>2, <2>1, ReconcileWrites
  <2> QED
    BY <1>3, <1>6, <2>1, CheckOfStartup
<1>7. CASE Requests \/ TriggerCheck \/ World \/ Crash \/ UNCHANGED vars
  BY <1>3, <1>7, RequestsAre, OutsideStands, CrashStands DEF Requests, vars, tables
<1> QED
  BY <1>4, <1>5, <1>6, <1>7 DEF Next

\* A row names two versions from the insert on.
LEMMA NextKeepsAttempts ==
  ASSUME UpdateInv, RowsFollow, AttemptsNameVersions, JobsNameVersions, [Next]_vars
  PROVE  AttemptsNameVersions'
<1>1. ASSUME NEW w \in Workers, Step(w) PROVE AttemptsNameVersions'
  <2>1. \A k \in DOMAIN logs' \ DOMAIN logs :
          logs'[k].from # None /\ logs'[k].to # None /\ logs'[k].from # logs'[k].to
    <3>1. ASSUME NEW k \in DOMAIN logs' \ DOMAIN logs
          PROVE  pc[w] = "create" /\ logs'[k].from = job[w].from /\ logs'[k].to = job[w].to
      BY <1>1, <3>1, RowsGrow DEF NewRow
    <3> QED
      BY <3>1 DEF JobsNameVersions, NamesVersions, Undecided
  <2> QED
    BY <1>1, <2>1, RowsGrow DEF AttemptsNameVersions
<1>2. ASSUME NEW i \in DOMAIN logs, JudgeStuck(i) PROVE AttemptsNameVersions'
  BY <1>2, VerdictIs DEF AttemptsNameVersions
<1>3. CASE Startup /\ ~\E i \in DOMAIN logs : JudgeStuck(i)
  BY <1>3 DEF Startup, Boot, ReconcileAlert, ReconcileRecord, Serve, tables,
     AttemptsNameVersions
<1>4. CASE Requests \/ Checker \/ TriggerCheck \/ World \/ Crash \/ UNCHANGED vars
  <2>1. logs' = logs
    BY <1>4, RequestsAre, OutsideStands, CheckerStands, CrashStands
       DEF Requests, vars, tables
  <2> QED
    BY <2>1 DEF AttemptsNameVersions
<1> QED
  BY <1>1, <1>2, <1>3, <1>4 DEF Next

\* Which services were ever tried, after a step.
LEMMA TriedBefore ==
  ASSUME UpdateInv, RowsFollow, OffersAreReal, NEW w \in Workers, Step(w),
         NEW s \in Services, Tried(s)'
  PROVE  Tried(s) \/ (s = Svc(w) /\ check[s].has /\ check' = check)
<1>1. /\ pc[w] # "idle" /\ (pc'[w] # "idle" => Svc(w)' = Svc(w))
      /\ \A v \in Workers \ {w} : pc'[v] = pc[v] /\ job'[v] = job[v] /\ Svc(v)' = Svc(v)
  BY OthersStand DEF Svc
<1>2. CASE \E i \in DOMAIN logs' : logs'[i].svc = s
  BY <1>2, RowsGrow DEF Tried, NewRow, Undecided
<1>3. ASSUME NEW v \in Workers, pc'[v] \notin Undecided, Svc(v)' = s
      PROVE  Tried(s) \/ (s = Svc(w) /\ check[s].has /\ check' = check)
  <2>1. CASE v # w
    BY <1>1, <1>3, <2>1 DEF Tried
  <2>2. CASE v = w
    <3>1. s = Svc(w)
      BY <1>1, <1>3, <2>2 DEF Undecided
    <3>2. CASE ReadCheck(w) \/ FindPrevious(w) \/ CompareCurrent(w)
      BY <1>3, <2>2, <3>1, <3>2, DecisionsAre DEF Tried, Undecided
    <3>3. CASE Release(w)
      BY <1>3, <2>2, <3>3 DEF Release, Goto, Undecided, UpdateInv, TypeOK
    <3>4. CASE ~(ReadCheck(w) \/ FindPrevious(w) \/ CompareCurrent(w) \/ Release(w))
      BY <3>1, <3>4, SettledStands DEF Settled, Tried
    <3> QED
      BY <3>2, <3>3, <3>4
  <2> QED
    BY <2>1, <2>2
<1> QED
  BY <1>2, <1>3 DEF Tried

LEMMA NextKeepsKnown ==
  ASSUME UpdateInv, RowsFollow, OffersAreReal, AttemptsNameVersions,
         JobsNameVersions, KnownOnceTried, ChecksFollow, [Next]_vars
  PROVE  KnownOnceTried'
<1> DEFINE Row == [cur : Maybe, latest : Maybe, has : BOOLEAN]
<1>1. check \in [Services -> Row] /\ Checked \in Services
  BY CheckedIsAService DEF UpdateInv, TypeOK
<1>2. ASSUME NEW w \in Workers, Step(w) PROVE KnownOnceTried'
  <2>1. CASE Record(w)
    <3>1. Svc(w) \in Services /\ pc[w] = "record"
      BY <1>2, <2>1, OthersStand, OwnRow DEF Record, At
    <3>2. \A s \in Services : check'[s].cur = check[s].cur \/ check'[s].cur # None
      BY <1>1, <2>1, <3>1, RecordWrites
    <3>3. Tried(Svc(w))
      BY <3>1 DEF Tried, Undecided
    <3> QED
      BY <1>2, <3>2, <3>3, TriedBefore DEF KnownOnceTried
  <2>2. CASE check' = check
    BY <1>2, <2>2, TriedBefore DEF KnownOnceTried, OffersAreReal
  <2> QED
    BY <1>2, <2>1, <2>2, CheckOfStep
<1>3. CASE Checker
  <2>1. \A s \in Services : Tried(s)' => Tried(s)
    BY <1>3, CheckerStands DEF Tried, Svc
  <2>2. ASSUME NEW s \in Services, Kind[s] # "digest", Tried(s) PROVE check'[s].cur # None
    <3>1. check[s].cur # None
      BY <2>2 DEF KnownOnceTried
    <3>2. CASE Forgets
      BY <1>1, <2>2, <3>1, <3>2 DEF Forgets
    <3>3. CASE Learns
      BY <1>1, <3>1, <3>3 DEF Learns, ChecksFollow
    <3> QED
      BY <1>3, <3>1, <3>2, <3>3, CheckerWrites DEF Looks
  <2> QED
    BY <2>1, <2>2 DEF KnownOnceTried
<1>4. CASE Requests
  <2>1. PICK w \in Workers, s \in Services, op \in {"update", "rollback"} : Request(w, s, op)
    BY <1>4 DEF Requests
  <2>2. /\ pc'[w] = "locked" /\ UNCHANGED <<check, logs>>
        /\ \A v \in Workers \ {w} : pc'[v] = pc[v] /\ Svc(v)' = Svc(v)
    BY <2>1, RequestsAre
  <2>3. \A t \in Services : Tried(t)' => Tried(t)
    BY <2>2 DEF Tried, Undecided
  <2> QED
    BY <2>2, <2>3 DEF KnownOnceTried
<1>5. CASE Crash
  <2>1. \A t \in Services : Tried(t)' => Tried(t)
    BY <1>5, CrashStands DEF Tried, Undecided, tables
  <2> QED
    BY <1>5, <2>1, CrashStands DEF KnownOnceTried, tables
<1>6. CASE Startup
  <2>1. \A t \in Services : Tried(t)' => Tried(t)
    <3>1. \A v \in Workers : pc'[v] = "idle"
      BY <1>6, StartupStands
    <3>2. \A k \in DOMAIN logs' : k \in DOMAIN logs /\ logs'[k].svc = logs[k].svc
      <4>1. ASSUME NEW i \in DOMAIN logs, JudgeStuck(i)
            PROVE  \A k \in DOMAIN logs' : k \in DOMAIN logs /\ logs'[k].svc = logs[k].svc
        BY <4>1, VerdictIs
      <4>2. CASE ~\E i \in DOMAIN logs : JudgeStuck(i)
        BY <1>6, <4>2 DEF Startup, Boot, ReconcileAlert, ReconcileRecord, Serve, tables
      <4> QED
        BY <4>1, <4>2
    <3> QED
      BY <3>1, <3>2 DEF Tried, Undecided
  <2>2. \A s \in Services : check'[s].cur = check[s].cur \/ check'[s].cur # None
    BY <1>1, <1>6, CheckOfStartup, ReconcileWrites
  <2> QED
    BY <2>1, <2>2 DEF KnownOnceTried
<1>7. CASE TriggerCheck \/ World \/ UNCHANGED vars
  <2>1. UNCHANGED <<pc, job, logs, check>>
    BY <1>7, OutsideStands DEF vars, memory, tables
  <2> QED
    BY <2>1 DEF KnownOnceTried, Tried, Svc
<1> QED
  BY <1>2, <1>3, <1>4, <1>5, <1>6, <1>7 DEF Next

LEMMA NextKeepsChecks ==
  ASSUME UpdateInv, ReconFollows, AttemptsNameVersions, JobsNameVersions,
         KnownOnceTried, ChecksFollow, [Next]_vars
  PROVE  ChecksFollow'
<1> DEFINE Row == [cur : Maybe, latest : Maybe, has : BOOLEAN]
<1>1. check \in [Services -> Row] /\ Checked \in Services
  BY CheckedIsAService DEF UpdateInv, TypeOK
<1>2. ASSUME UNCHANGED <<chk, check>> PROVE ChecksFollow'
  BY <1>2 DEF ChecksFollow, Checked
<1>3. ASSUME NEW w \in Workers, Step(w) PROVE ChecksFollow'
  <2>1. chk' = chk
    BY <1>3, OthersStand
  <2>2. CASE Record(w)
    <3>1. pc[w] = "record" /\ Svc(w) \in Services
      BY <1>3, <2>2, OthersStand, OwnRow DEF Record, At
    <3>2. Tried(Svc(w))
      BY <3>1 DEF Tried, Undecided
    <3>3. chk.pc = "store" /\ chk.cur = None => Svc(w) # Checked
      BY <3>1, <3>2 DEF ChecksFollow, KnownOnceTried
    <3>4. Svc(w) # Checked => check'[Checked] = check[Checked]
      BY <1>1, <2>2, <3>1, RecordWrites
    <3>5. Checked' = Checked
      BY <2>1 DEF Checked
    <3> QED
      BY <2>1, <3>3, <3>4, <3>5 DEF ChecksFollow
  <2> QED
    BY <1>2, <1>3, <2>1, <2>2, CheckOfStep
<1>4. CASE Checker
  <2>1. CASE Looks
    BY <2>1 DEF Looks, ChecksFollow
  <2> QED
    BY <1>4, <2>1, CheckerWrites DEF Forgets, Learns, ChecksFollow
<1>5. CASE Startup \/ Crash
  <2>1. chk'.pc # "store"
    BY <1>5, CrashStands, StartupStands DEF Startup, Boot, JudgeStuck, ReconcileAlert,
       ReconcileRecord, Serve, KeepReconciled, ReconFollows, ChkOff
  <2> QED
    BY <2>1 DEF ChecksFollow
<1>6. CASE Requests \/ TriggerCheck \/ World \/ UNCHANGED vars
  BY <1>2, <1>6, RequestsAre, OutsideStands DEF Requests, vars, memory, tables
<1> QED
  BY <1>3, <1>4, <1>5, <1>6 DEF Next

-----------------------------------------------------------------------------
(* The alert of a failed update.                                           *)

\* A success whose alert stands is a success whose goroutine is about to
\* resolve it.
Standing(s) ==
  \A i \in DOMAIN logs : LastRow(s, i) /\ logs[i].status = "done" /\ alert[s]
    => \E w \in Workers : pc[w] = "resolve" /\ Svc(w) = s

LEMMA AlertOfStep ==
  ASSUME NEW w \in Workers, Step(w)
  PROVE  alert' = alert \/ RaiseAlert(w) \/ ResolveAlert(w)
BY DEF Step, Release, tables, KeepTables, ReadCheck, FindPrevious, CompareCurrent,
       CreateLog, BeginFetch, RefuseBuilt, Fetch, FetchFails, Rewrite, Mark, Down, Up,
       CheckHealth, Revert, RevertDown, RevertUp, MarkBad, Record, MarkDone

\* Only ResolveAlert leaves "resolve".
LEMMA ResolveIsNext ==
  ASSUME NEW w \in Workers, Step(w), pc[w] = "resolve" PROVE ResolveAlert(w)
BY DEF Step, At, Release, ReadCheck, FindPrevious, CompareCurrent,
       CreateLog, BeginFetch, RefuseBuilt, Fetch, FetchFails, Rewrite, Mark, Down, Up,
       CheckHealth, Revert, RevertDown, RevertUp, MarkBad, RaiseAlert, Record, MarkDone

\* The newest row of another service is the one it was.
LEMMA OthersLast ==
  ASSUME UpdateInv, RowsFollow, NEW w \in Workers, Step(w),
         NEW s \in Services, s # Svc(w), Standing(s)
  PROVE  Standing(s)'
<1>1. /\ \A v \in Workers \ {w} : pc'[v] = pc[v] /\ Svc(v)' = Svc(v)
  BY OthersStand DEF Svc
<1>2. alert'[s] = alert[s]
  BY AlertOfStep, OwnRow DEF RaiseAlert, ResolveAlert, UpdateInv, TypeOK
<1>3. \A k \in DOMAIN logs : logs[k].svc = s => k # job[w].log
  BY OthersStand, OwnRow
<1>4. \A k \in DOMAIN logs' : logs'[k].svc = s =>
        k \in DOMAIN logs /\ logs[k].svc = s /\ logs'[k].status = logs[k].status
  <2>1. ASSUME NEW k \in DOMAIN logs', logs'[k].svc = s
        PROVE  k \in DOMAIN logs /\ logs[k].svc = s /\ logs'[k].status = logs[k].status
    <3>1. k \in DOMAIN logs
      BY <2>1, RowsGrow DEF NewRow
    <3> QED
      BY <1>3, <2>1, <3>1, RowsGrow
  <2> QED
    BY <2>1
<1>5. \A k \in DOMAIN logs : logs[k].svc = s => k \in DOMAIN logs' /\ logs'[k].svc = s
  BY RowsGrow
<1>6. \A i \in DOMAIN logs' : LastRow(s, i)' => i \in DOMAIN logs /\ LastRow(s, i)
  BY <1>4, <1>5 DEF LastRow, RowsOf
<1>7. ASSUME NEW i \in DOMAIN logs', LastRow(s, i)', logs'[i].status = "done", alert'[s]
      PROVE  \E v \in Workers : pc'[v] = "resolve" /\ Svc(v)' = s
  <2>1. i \in DOMAIN logs /\ LastRow(s, i) /\ logs[i].status = "done" /\ alert[s]
    BY <1>2, <1>4, <1>6, <1>7 DEF LastRow, RowsOf
  <2>2. PICK v \in Workers : pc[v] = "resolve" /\ Svc(v) = s
    BY <2>1 DEF Standing
  <2> QED
    BY <1>1, <2>2
<1> QED
  BY <1>7 DEF Standing

\* Its own: a success is about to be resolved, a failure is not a success.
LEMMA OwnLast ==
  ASSUME UpdateInv, RowsFollow, NEW w \in Workers, Step(w),
         NEW s \in Services, s = Svc(w), Standing(s)
  PROVE  Standing(s)'
<1>1. /\ pc[w] # "idle" /\ (pc'[w] # "idle" => Svc(w)' = s)
      /\ FollowsRow(w) /\ alert \in [Services -> BOOLEAN]
      /\ \A v \in Workers \ {w} : pc[v] # "idle" => Svc(v) # s
  BY OthersStand, OwnRow DEF RowsFollow, UpdateInv, TypeOK
<1>2. DOMAIN logs \subseteq Nat
  BY LenProperties DEF UpdateInv, TypeOK
<1>3. SUFFICES ASSUME NEW i \in DOMAIN logs', LastRow(s, i)',
                      logs'[i].status = "done", alert'[s]
               PROVE  \E v \in Workers : pc'[v] = "resolve" /\ Svc(v)' = s
  BY DEF Standing
<1>4. i \in DOMAIN logs' /\ logs'[i].svc = s
      /\ \A j \in DOMAIN logs' : logs'[j].svc = s => j <= i
  BY <1>3 DEF LastRow, RowsOf
<1>5. CASE CreateLog(w)
  <2>1. /\ logs'[Len(logs) + 1] = NewRow(w) /\ Len(logs) + 1 \in DOMAIN logs'
        /\ Len(logs) \in Nat /\ \A k \in DOMAIN logs : k <= Len(logs)
        /\ DOMAIN logs' = DOMAIN logs \cup {Len(logs) + 1}
    BY <1>5, RowIsAdded
  <2>2. NewRow(w).svc = s /\ NewRow(w).status = "pending"
    BY DEF NewRow
  <2>3. i >= Len(logs) + 1
    BY <1>4, <2>1, <2>2
  <2>4. i = Len(logs) + 1
    BY <1>2, <1>4, <2>1, <2>3
  <2> QED
    BY <1>3, <2>1, <2>2, <2>4
<1>6. ASSUME NEW st \in Statuses, Marks(w, st)
      PROVE  \E v \in Workers : pc'[v] = "resolve" /\ Svc(v)' = s
  <2> DEFINE l == job[w].log
  <2>1. l # 0
    BY <1>1, <1>6 DEF Marks, FollowsRow, Unlogged
  <2>2. l \in DOMAIN logs /\ logs[l].svc = s
        /\ \A j \in DOMAIN logs : logs[j].svc = s => j <= l
    BY <1>1, <2>1, OwnRow DEF FollowsRow
  <2>3. DOMAIN logs' = DOMAIN logs /\ logs'[l].status = st
        /\ \A k \in DOMAIN logs : logs'[k].svc = logs[k].svc
    BY <1>6, <2>2, StatusIsSet DEF Marks, UpdateInv
  <2> HIDE DEF l
  <2>4. l <= i /\ i <= l
    BY <1>4, <2>2, <2>3
  <2>5. i = l
    BY <1>2, <2>2, <2>3, <1>4, <2>4
  <2>6. st = "done"
    BY <1>3, <2>3, <2>5
  <2>7. job[w].out # "done"
    BY <1>1, OwnRow
  <2> QED
    BY <1>1, <1>6, <2>6, <2>7 DEF Marks
<1>7. CASE UNCHANGED logs /\ alert' = alert /\ ~ResolveAlert(w)
  <2>1. \E v \in Workers : pc[v] = "resolve" /\ Svc(v) = s
    BY <1>3, <1>4, <1>7 DEF Standing, LastRow, RowsOf
  <2> QED
    BY <1>1, <1>7, <2>1, ResolveIsNext
<1>8. CASE ResolveAlert(w)
  BY <1>1, <1>3, <1>8 DEF ResolveAlert
<1>9. CASE RaiseAlert(w)
  <2> DEFINE l == job[w].log
  <2>1. pc[w] = "raise" /\ logs' = logs
    BY <1>9 DEF RaiseAlert, At
  <2>2. l # 0
    BY <1>1, <2>1 DEF FollowsRow, Unlogged
  <2>3. l \in DOMAIN logs /\ logs[l].svc = s
        /\ \A j \in DOMAIN logs : logs[j].svc = s => j <= l
    BY <1>1, <2>2, OwnRow DEF FollowsRow
  <2>4. logs[l].status \in {"failed", "rolled_back"}
    BY <1>1, <2>1, <2>2 DEF FollowsRow, StatusAt
  <2> HIDE DEF l
  <2>5. i = l
    BY <1>2, <1>4, <2>1, <2>3
  <2> QED
    BY <1>3, <2>1, <2>4, <2>5
<1> QED
  BY <1>5, <1>6, <1>7, <1>8, <1>9, WritesAre, AlertOfStep

LEMMA NextKeepsAlerts ==
  ASSUME UpdateInv, RowsFollow, AlertsFollow, [Next]_vars
  PROVE  AlertsFollow'
<1> USE DEF NoCrash
<1>1. budget["crash"] \in Nat /\ Budget["crash"] \in Nat
  BY BoundsAssumption DEF UpdateInv, TypeOK, Limited
<1>2. NoCrash => \A s \in Services : Standing(s)
  BY DEF AlertsFollow, Standing
<1>3. ASSUME budget'["crash"] = budget["crash"], mode' = "serving",
             NoCrash => \A s \in Services : Standing(s)'
      PROVE  AlertsFollow'
  BY <1>3 DEF AlertsFollow, Standing
<1>4. ASSUME NEW w \in Workers, Step(w) PROVE AlertsFollow'
  <2>1. budget'["crash"] = budget["crash"] /\ mode' = "serving"
    BY <1>4, OthersStand
  <2>2. ASSUME NoCrash, NEW s \in Services PROVE Standing(s)'
    BY <1>2, <1>4, <2>2, OwnLast, OthersLast
  <2> QED
    BY <1>3, <2>1, <2>2
<1>5. CASE Requests
  <2>1. PICK w \in Workers, s \in Services, op \in {"update", "rollback"} : Request(w, s, op)
    BY <1>5 DEF Requests
  <2>2. /\ mode' = "serving" /\ pc[w] = "idle" /\ UNCHANGED <<logs, alert>>
        /\ \A v \in Workers \ {w} : pc'[v] = pc[v] /\ Svc(v)' = Svc(v)
        /\ budget'["crash"] = budget["crash"]
    BY <2>1, RequestsAre
  <2>3. ASSUME NEW t \in Services, Standing(t) PROVE Standing(t)'
    BY <2>2, <2>3 DEF Standing, LastRow, RowsOf
  <2> QED
    BY <1>2, <1>3, <2>2, <2>3
<1>6. CASE Checker
  <2>1. ASSUME NEW t \in Services, Standing(t) PROVE Standing(t)'
    BY <1>6, <2>1, CheckerStands DEF Standing, LastRow, RowsOf, Svc
  <2> QED
    BY <1>2, <1>3, <1>6, <2>1, CheckerStands
<1>7. CASE TriggerCheck \/ World
  <2>1. ASSUME NEW t \in Services, Standing(t) PROVE Standing(t)'
    BY <1>7, <2>1, OutsideStands DEF Standing, LastRow, RowsOf, Svc
  <2>2. UNCHANGED <<mode, logs, recon>> /\ budget'["crash"] = budget["crash"]
    BY <1>7, OutsideStands
  <2> QED
    BY <1>2, <2>1, <2>2 DEF AlertsFollow, Standing
<1>8. CASE Crash
  BY <1>1, <1>8, CrashStands DEF AlertsFollow
<1>9. CASE Startup
  <2>1. mode # "serving" /\ budget' = budget
    BY <1>9, StartupStands
  <2>2. NoCrash => logs = <<>> /\ recon.pc = "next" /\ DOMAIN logs = {}
    BY <2>1 DEF AlertsFollow
  <2>3. NoCrash => logs' = <<>> /\ (mode' # "serving" => recon'.pc = "next")
    BY <1>9, <2>2 DEF Startup, Boot, JudgeStuck, ReconcileAlert, ReconcileRecord, Serve,
       NoRecon, tables
  <2>4. NoCrash => DOMAIN logs' = {}
    BY <2>3
  <2> QED
    BY <1>1, <2>1, <2>3, <2>4 DEF AlertsFollow
<1>10. CASE UNCHANGED vars
  BY <1>10 DEF vars, memory, tables, AlertsFollow, LastRow, RowsOf, Svc
<1> QED
  BY <1>4, <1>5, <1>6, <1>7, <1>8, <1>9, <1>10 DEF Next

-----------------------------------------------------------------------------
(* The invariants.                                                         *)

LEMMA InitSatisfiesLogInv ==
  ASSUME Init PROVE LogInv
<1>1. UpdateInv
  BY InitSatisfiesUpdateInv
<1>2. logs = <<>> /\ DOMAIN logs = {} /\ mode = "down" /\ chk.pc = "off"
  BY DEF Init, ChkOff
<1>3. RowsFollow /\ JobsNameVersions
  BY DEF Init, RowsFollow, FollowsRow, JobsNameVersions, NamesVersions, Unlogged,
     Undecided, NoJob
<1>4. ReconFollows /\ AttemptsNameVersions /\ ChecksFollow
  BY <1>2 DEF ReconFollows, AttemptsNameVersions, ChecksFollow
<1>5. OffersAreReal
  BY DEF Init, OffersAreReal, NoCheck
<1>6. KnownOnceTried
  BY <1>2 DEF Init, KnownOnceTried, Tried, Undecided
<1>7. AlertsFollow
  <2>1. budget["crash"] = Budget["crash"] /\ Budget["crash"] \in Nat
    BY BoundsAssumption DEF Init, Limited
  <2> QED
    BY <1>2, <2>1 DEF Init, AlertsFollow, NoRecon
<1> QED
  BY <1>1, <1>3, <1>4, <1>5, <1>6, <1>7 DEF LogInv

LEMMA NextKeepsLogInv ==
  ASSUME LogInv, [Next]_vars PROVE LogInv'
BY NextKeepsUpdateInv, NextKeepsRows, NextKeepsRecon, NextKeepsOffers,
   NextKeepsAttempts, NextKeepsNames, NextKeepsKnown, NextKeepsChecks,
   NextKeepsAlerts DEF LogInv

\* Everything the tables promise, at once.
THEOREM LogInvariance == Spec => []LogInv
<1>1. Init => LogInv
  BY InitSatisfiesLogInv
<1>2. LogInv /\ [Next]_vars => LogInv'
  BY NextKeepsLogInv
<1> QED
  BY <1>1, <1>2, PTL DEF Spec

\* An update on offer always has two known, different versions, whichever of
\* its writers wrote the check row (engine.go:206, 529, 642).
THEOREM Offers == Spec => []OffersAreReal
<1>1. LogInv => OffersAreReal
  BY DEF LogInv
<1> QED
  BY <1>1, LogInvariance, PTL

\* Every attempt in the log names two different versions, although the check
\* row a rollback reads may be deleted and rewritten meanwhile (engine.go:176,
\* 582).
THEOREM Attempts == Spec => []AttemptsNameVersions
<1>1. LogInv => AttemptsNameVersions
  BY DEF LogInv
<1> QED
  BY <1>1, LogInvariance, PTL

\* In a history without a crash, a service at rest after a success has no
\* alert of an earlier failure (engine.go:524, 637).
THEOREM Clears == Spec => []SuccessClearsAlert
<1>1. LogInv => SuccessClearsAlert
  <2>1. SUFFICES ASSUME LogInv, NoCrash, NEW s \in Services \ updating,
                        NEW i \in DOMAIN logs, LastRow(s, i), logs[i].status = "done"
                 PROVE  ~alert[s]
    BY DEF SuccessClearsAlert, NoCrash
  <2>2. alert[s] => \E w \in Workers : pc[w] = "resolve" /\ Svc(w) = s
    BY <2>1 DEF LogInv, AlertsFollow
  <2>3. \A w \in Workers : pc[w] = "resolve" => Svc(w) \in updating
    BY <2>1 DEF LogInv, UpdateInv, LockHeld, Busy
  <2> QED
    BY <2>2, <2>3
<1> QED
  BY <1>1, LogInvariance, PTL

-----------------------------------------------------------------------------
(* The log implements its lifecycle.                                       *)

\* The rows some goroutine carries, and the promise's own step on them.
Active == {job[w].log : w \in Workers} \ {0}
LogStep == [Lifecycle!Next]_<<logs, Active, mode = "serving">>

LEMMA StutterIsAStep ==
  ASSUME UNCHANGED logs, Active' = Active, (mode' = "serving") = (mode = "serving")
  PROVE  LogStep
BY DEF LogStep

\* Goroutines on two services carry two rows.
LEMMA RowsAreApart ==
  ASSUME UpdateInv, NEW w \in Workers, NEW v \in Workers, job[w].log # 0,
         job[v].log = job[w].log
  PROVE  v = w
<1>1. ASSUME NEW u \in Workers, job[u].log # 0 PROVE Busy(u) /\ logs[job[u].log].svc = Svc(u)
  BY <1>1 DEF UpdateInv, OwnsRow, Busy, Unlogged
<1> QED
  BY <1>1 DEF UpdateInv, MutualExclusion

\* What a goroutine carries, when only one of them steps.
LEMMA ActiveAre ==
  ASSUME NEW w \in Workers, \A v \in Workers \ {w} : job'[v] = job[v]
  PROVE  /\ job'[w].log = job[w].log => Active' = Active
         /\ job[w].log = 0 /\ job'[w].log # 0 => Active' = Active \cup {job'[w].log}
         /\ UpdateInv /\ job[w].log # 0 /\ job'[w].log = 0
              => Active' = Active \ {job[w].log}
<1>1. job'[w].log = job[w].log => Active' = Active
  BY DEF Active
<1>2. job[w].log = 0 /\ job'[w].log # 0 => Active' = Active \cup {job'[w].log}
  BY DEF Active
<1>3. ASSUME UpdateInv, job[w].log # 0, job'[w].log = 0
      PROVE  Active' = Active \ {job[w].log}
  <2>1. \A v \in Workers \ {w} : job[v].log # job[w].log
    BY <1>3, RowsAreApart
  <2> QED
    BY <1>3, <2>1 DEF Active
<1> QED
  BY <1>1, <1>2, <1>3

LEMMA CreationBegins ==
  ASSUME UpdateInv, NEW w \in Workers, CreateLog(w), Step(w)
  PROVE  LogStep
<1> PICK s \in Services : s = Svc(w)
  BY OthersStand, OwnRow
<1>1. mode = "serving" /\ mode' = "serving"
      /\ job[w].from \in Maybe /\ job[w].to \in Maybe
  BY OthersStand, StepServes, OwnRow
<1>2. job[w].log = 0
  BY OwnRow, OthersStand, RowIsAdded DEF Unlogged
<1>3. /\ logs' = Append(logs, NewRow(w)) /\ Len(logs) \in Nat
      /\ job'[w].log = Len(logs) + 1
  <2>1. job[w] \in Jobs
    BY OthersStand, OwnRow
  <2> QED
    BY <2>1, RowIsAdded DEF Jobs
<1>4. Active' = Active \cup {Len(logs) + 1}
  BY <1>2, <1>3, OthersStand, ActiveAre
<1>5. ASSUME NEW i \in Active PROVE logs[i].svc # s
  <2>1. PICK v \in Workers : job[v].log = i /\ i # 0
    BY DEF Active
  <2>2. v # w /\ pc[v] # "idle"
    BY <1>2, <2>1 DEF UpdateInv, OwnsRow, Unlogged
  <2>3. logs[i].svc = Svc(v)
    BY <2>1, <2>2, OwnRow
  <2>4. Svc(v) # s
    BY <2>2, OthersStand, OwnRow
  <2> QED
    BY <2>3, <2>4
<1>6. NewRow(w) = Lifecycle!Row(s, job[w].from, job[w].to, "pending")
  BY DEF NewRow, Lifecycle!Row
<1>7. Lifecycle!Begin(s)
  BY <1>1, <1>3, <1>4, <1>5, <1>6 DEF Lifecycle!Begin, Active
<1> QED
  BY <1>1, <1>7 DEF LogStep, Lifecycle!Next

LEMMA MarksAdvance ==
  ASSUME UpdateInv, RowsFollow, NEW w \in Workers, Step(w),
         NEW st \in Statuses, Marks(w, st)
  PROVE  LogStep
<1> DEFINE i == job[w].log
<1>1. mode = "serving" /\ mode' = "serving" /\ job[w].out \in {"failed", "rolled_back"}
  BY OthersStand, StepServes, OwnRow
<1>2. i # 0 /\ logs[i].status \in StatusAt(pc[w])
      /\ (pc[w] = "bad" /\ job[w].out = "rolled_back" => logs[i].status = "restarting")
  BY DEF Marks, RowsFollow, FollowsRow, Unlogged
<1>3. i \in Active /\ logs' = [logs EXCEPT ![i].status = st]
  BY <1>2 DEF Active, Marks, SetStatus
<1>4. Active' = Active
  BY OthersStand, ActiveAre DEF Marks
<1>5. st \in Lifecycle!After(logs[i].status)
  BY <1>1, <1>2 DEF Marks, StatusAt, Lifecycle!After
<1>6. Lifecycle!Advance(i)
  BY <1>1, <1>3, <1>4, <1>5 DEF Lifecycle!Advance, Active
<1> QED
  BY <1>3, <1>6 DEF LogStep, Lifecycle!Next, Active

LEMMA ReleaseFinishes ==
  ASSUME UpdateInv, RowsFollow, NEW w \in Workers, Step(w), Release(w)
  PROVE  LogStep
<1> PICK i : i = job[w].log
  OBVIOUS
<1>1. mode = "serving" /\ mode' = "serving" /\ logs' = logs /\ job'[w].log = 0
  <2>1. job \in [Workers -> Jobs \cup {NoJob}]
    BY OthersStand, OwnRow
  <2>2. job'[w] = NoJob
    BY <2>1 DEF Release
  <2> QED
    BY <2>2, OthersStand, StepServes DEF Release, tables, NoJob
<1>2. CASE i = 0
  BY <1>1, <1>2, OthersStand, ActiveAre, StutterIsAStep
<1>3. CASE i # 0
  <2>1. i \in Active /\ Active' = Active \ {i}
    <3>1. i \in Active
      BY <1>3 DEF Active
    <3> QED
      BY <1>1, <1>3, <3>1, OthersStand, ActiveAre
  <2>2. logs[i].status \in Terminal
    BY <1>3 DEF Release, At, RowsFollow, FollowsRow, StatusAt
  <2>3. Lifecycle!After(logs[i].status) = {}
    BY <2>2 DEF Terminal, Lifecycle!After
  <2>4. Lifecycle!Finish(i)
    BY <1>1, <2>1, <2>3 DEF Lifecycle!Finish, Active
  <2> QED
    BY <2>1, <2>4 DEF LogStep, Lifecycle!Next, Active
<1> QED
  BY <1>2, <1>3

\* Every other step of a goroutine leaves the log and who carries it.
LEMMA StepIsALogStep ==
  ASSUME UpdateInv, RowsFollow, NEW w \in Workers, Step(w)
  PROVE  LogStep
<1>1. CASE UNCHANGED logs /\ ~CreateLog(w) /\ ~Release(w)
  <2>1. job'[w].log = job[w].log
    <3>1. job \in [Workers -> Jobs \cup {NoJob}] /\ job[w] \in Jobs
      BY OthersStand, OwnRow
    <3> QED
      BY <1>1, <3>1 DEF Step, Jobs, ReadCheck, FindPrevious, CompareCurrent, BeginFetch,
         RefuseBuilt, Fetch, FetchFails, Rewrite, Mark, Down, Up, CheckHealth, Revert,
         RevertDown, RevertUp, MarkBad, RaiseAlert, MarkDone, ResolveAlert, Record
  <2>2. mode = "serving" /\ mode' = "serving"
    BY OthersStand, StepServes
  <2> QED
    BY <1>1, <2>1, <2>2, OthersStand, ActiveAre, StutterIsAStep
<1> QED
  BY <1>1, WritesAre, CreationBegins, MarksAdvance, ReleaseFinishes

\* A crash abandons the attempts; the reconciliation recovers.
LEMMA ProcessIsALogStep ==
  ASSUME UpdateInv, ReconFollows, Crash \/ Startup
  PROVE  LogStep
<1>1. CASE Crash
  <2>1. Active' = {} /\ logs' = logs /\ mode' # "serving"
    BY <1>1, CrashStands DEF Active, NoJob, tables
  <2>2. CASE mode = "serving"
    <3>1. Lifecycle!Crash
      BY <2>1, <2>2 DEF Lifecycle!Crash, Active
    <3> QED
      BY <3>1 DEF LogStep, Lifecycle!Next
  <2>3. CASE mode # "serving"
    <3>1. Active = {}
      BY <2>3, IdleUnlessServing DEF Active, NoJob
    <3> QED
      BY <2>1, <2>3, <3>1, StutterIsAStep
  <2> QED
    BY <2>2, <2>3
<1>2. CASE Startup
  <2>1. mode # "serving" /\ Active' = Active
    BY <1>2, StartupStands DEF Active
  <2>2. ASSUME NEW i \in DOMAIN logs, JudgeStuck(i) PROVE LogStep
    <3>1. logs[i].status = "restarting" /\ mode' # "serving"
      BY <2>1, <2>2, VerdictIs DEF ReconFollows, JudgeStuck, KeepReconciled
    <3>2. \E st \in {"done", "failed"} : logs' = [logs EXCEPT ![i].status = st]
      BY <2>2, VerdictIs
    <3>3. Lifecycle!Recover(i)
      BY <2>1, <3>1, <3>2 DEF Lifecycle!Recover, Active
    <3> QED
      BY <3>3 DEF LogStep, Lifecycle!Next
  <2>3. CASE Serve
    <3>1. mode' = "serving" /\ logs' = logs
          /\ \A i \in DOMAIN logs : logs[i].status # "restarting"
      BY <2>3 DEF Serve, ReconFollows, tables
    <3>2. Lifecycle!Serve
      BY <2>1, <3>1 DEF Lifecycle!Serve, Active
    <3> QED
      BY <3>2 DEF LogStep, Lifecycle!Next
  <2>4. CASE Boot \/ ReconcileAlert \/ ReconcileRecord
    <3>1. logs' = logs /\ mode' # "serving"
      BY <2>4 DEF Boot, ReconcileAlert, ReconcileRecord, KeepReconciled, tables
    <3> QED
      BY <2>1, <3>1, StutterIsAStep
  <2> QED
    BY <1>2, <2>2, <2>3, <2>4 DEF Startup
<1> QED
  BY <1>1, <1>2

LEMMA NextIsALogStep ==
  ASSUME LogInv, [Next]_vars PROVE LogStep
<1> USE DEF LogInv
<1>1. CASE Requests
  <2>1. PICK w \in Workers, s \in Services, op \in {"update", "rollback"} : Request(w, s, op)
    BY <1>1 DEF Requests
  <2>2. /\ UNCHANGED <<mode, logs>> /\ job'[w].log = 0 /\ job[w] = NoJob
        /\ \A v \in Workers \ {w} : job'[v] = job[v]
    BY <2>1, RequestsAre
  <2>3. job'[w].log = job[w].log
    BY <2>2 DEF NoJob
  <2> QED
    BY <2>2, <2>3, ActiveAre, StutterIsAStep
<1>2. CASE Checker \/ TriggerCheck \/ World
  BY <1>2, OutsideStands, CheckerStands, StutterIsAStep DEF Active
<1>3. CASE UNCHANGED vars
  BY <1>3, StutterIsAStep DEF vars, memory, tables, Active
<1> QED
  BY <1>1, <1>2, <1>3, StepIsALogStep, ProcessIsALogStep DEF Next

\* The log is what its readers take it for, for any number of goroutines and
\* crashes: every attempt moves forward through its statuses, is the only one
\* of its service while it is carried, and is closed exactly once, by its
\* goroutine or by the reconciliation (engine.go:386, 543, 747).
THEOREM Refinement == Spec => LogIsALifecycle
<1>1. Init => Lifecycle!Init
  BY DEF Init, Lifecycle!Init, NoJob
<1>2. LogInv /\ [Next]_vars
        => [Lifecycle!Next]_<<logs, {job[w].log : w \in Workers} \ {0}, mode = "serving">>
  BY NextIsALogStep DEF LogStep, Active
<1> QED
  BY <1>1, <1>2, LogInvariance, PTL DEF Spec, LogIsALifecycle, Lifecycle!Spec

=============================================================================
