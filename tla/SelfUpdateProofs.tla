-------------------------- MODULE SelfUpdateProofs --------------------------
(***************************************************************************)
(* Proofs about the self-update, for any releases, any stack of images and *)
(* any number of requests, crashes and lost scripts.  Everything rests on  *)
(* one inductive invariant, SelfUpdateInv, proved one conjunct at a time.  *)
(***************************************************************************)
EXTENDS SelfUpdateProperties, SequenceTheorems, TLAPS

-----------------------------------------------------------------------------
(* The log, and the steps of a goroutine.                                  *)

\* UpdateLogStatus changes the status of one row and nothing else.
LEMMA SetStatusKeepsRows ==
  ASSUME NEW rows \in Seq(Rows), NEW i \in DOMAIN rows, NEW st \in Statuses
  PROVE  LET new == [rows EXCEPT ![i].status = st] IN
         /\ new \in Seq(Rows) /\ Len(new) = Len(rows) /\ DOMAIN new = DOMAIN rows
         /\ \A k \in DOMAIN rows :
              /\ new[k].from = rows[k].from /\ new[k].to = rows[k].to
              /\ new[k].status = IF k = i THEN st ELSE rows[k].status
<1> DEFINE new == [rows EXCEPT ![i].status = st]
<1>1. rows \in [1..Len(rows) -> Rows] /\ Len(rows) \in Nat /\ DOMAIN rows = 1..Len(rows)
  BY LenProperties
<1>2. [rows[i] EXCEPT !.status = st] \in Rows
  BY <1>1 DEF Rows
<1>3. new = [rows EXCEPT ![i] = [rows[i] EXCEPT !.status = st]]
  OBVIOUS
<1>4. new \in Seq(Rows) /\ Len(new) = Len(rows)
  BY <1>1, <1>2, <1>3, ExceptSeq
<1>5. \A k \in 1..Len(rows) :
        new[k] = IF k = i THEN [rows[i] EXCEPT !.status = st] ELSE rows[k]
  BY <1>1, <1>3
<1>6. \A k \in 1..Len(rows) : rows[k] \in Rows
  BY <1>1
<1> QED
  BY <1>1, <1>4, <1>5, <1>6, LenProperties DEF Rows

\* CreateUpdateLog adds one row at the end.
LEMMA AppendKeepsRows ==
  ASSUME NEW rows \in Seq(Rows), NEW r \in Rows
  PROVE  LET new == Append(rows, r) IN
         /\ new \in Seq(Rows) /\ Len(new) = Len(rows) + 1
         /\ DOMAIN new = DOMAIN rows \cup {Len(rows) + 1}
         /\ Len(rows) + 1 \notin DOMAIN rows
         /\ new[Len(rows) + 1] = r
         /\ \A k \in DOMAIN rows : new[k] = rows[k]
<1>1. Len(rows) \in Nat /\ DOMAIN rows = 1..Len(rows)
  BY LenProperties
<1>2. Append(rows, r) \in Seq(Rows) /\ Len(Append(rows, r)) = Len(rows) + 1
  OBVIOUS
<1>3. DOMAIN Append(rows, r) = 1..(Len(rows) + 1)
  BY <1>2, LenProperties
<1> QED
  BY <1>1, <1>2, <1>3

LEMMA RowIsTyped ==
  ASSUME TypeOK, NEW i \in DOMAIN logs
  PROVE  /\ logs[i] \in Rows /\ i \in 1..Len(logs) /\ Len(logs) \in Nat
         /\ logs[i].from \in Maybe /\ logs[i].to \in Maybe /\ logs[i].status \in Statuses
<1>1. logs \in [1..Len(logs) -> Rows] /\ Len(logs) \in Nat /\ DOMAIN logs = 1..Len(logs)
  BY LenProperties DEF TypeOK
<1>2. logs[i] \in Rows
  BY <1>1
<1> QED
  BY <1>1, <1>2 DEF Rows

\* A goroutine steps while the process serves and it is busy.
LEMMA StepServes ==
  ASSUME NEW w \in Workers, Step(w)
  PROVE  mode = "serving" /\ Busy(w)
BY DEF Step, At, Busy, ReadCheck, CreateLog, BeginFetch, Checkout, Rewrite,
       EnterBuild, Build, Mark, Detach, MarkBad, RaiseAlert, Release, Enter

\* It moves itself alone, and keeps the lock to the end.
Moves(w) ==
  /\ Busy(w) /\ mode = "serving"
  /\ \E p \in PCs : pc' = [pc EXCEPT ![w] = p]
  /\ \E j \in Jobs : job' = [job EXCEPT ![w] = j]
  /\ UNCHANGED <<mode, recon, pruners, budget, upstream, stack>>
  /\ IF pc'[w] = "idle" THEN updating' = FALSE ELSE UNCHANGED updating

LEMMA StepMoves ==
  ASSUME TypeOK, NEW w \in Workers, Step(w)
  PROVE  Moves(w)
<1>1. mode = "serving" /\ Busy(w)
  BY StepServes
<1>2. /\ job[w] \in Jobs /\ job[w].from \in Maybe /\ job[w].to \in Maybe
      /\ job[w].log \in Nat /\ job[w].next \in Nat
      /\ check.cur \in Maybe /\ check.latest \in Maybe
      /\ Len(logs) + 1 \in Nat
  BY DEF TypeOK, Jobs
<1>3. ASSUME NEW p \in PCs \ {"idle"}, Goto(w, p), NEW j \in Jobs,
             job' = [job EXCEPT ![w] = j],
             UNCHANGED <<mode, updating, recon, pruners, budget, upstream, stack>>
      PROVE  Moves(w)
  <2>1. pc'[w] = p
    BY <1>3 DEF Goto, TypeOK
  <2> QED
    BY <1>1, <1>3, <2>1 DEF Moves, Goto
<1>4. ASSUME UNCHANGED job PROVE job' = [job EXCEPT ![w] = job[w]]
  BY <1>4 DEF TypeOK
<1>5. ASSUME NEW at, NEW st, NEW to \in PCs \ {"idle"}, Enter(w, at, st, to)
      PROVE  Moves(w)
  BY <1>2, <1>3, <1>4, <1>5 DEF Enter, KeepEngine, KeepHost, host
<1>6. CASE ReadCheck(w)
  <2>1. CASE check.has
    <3> DEFINE j == [job[w] EXCEPT !.from = check.cur, !.to = check.latest]
    <3>1. j \in Jobs
      BY <1>2 DEF Jobs
    <3>2. job' = [job EXCEPT ![w] = j]
      BY <1>6, <2>1 DEF ReadCheck, TypeOK
    <3> QED
      BY <1>3, <1>6, <2>1, <3>1, <3>2 DEF ReadCheck, KeepEngine, KeepHost, host, PCs
  <2>2. CASE ~check.has
    BY <1>2, <1>3, <1>4, <1>6, <2>2 DEF ReadCheck, KeepEngine, KeepHost, host, PCs
  <2> QED
    BY <2>1, <2>2
<1>7. CASE CreateLog(w)
  <2> DEFINE j == [job[w] EXCEPT !.log = Len(logs) + 1]
  <2>1. j \in Jobs
    BY <1>2 DEF Jobs
  <2>2. job' = [job EXCEPT ![w] = j]
    BY <1>7 DEF CreateLog, TypeOK
  <2> QED
    BY <1>3, <1>7, <2>1, <2>2 DEF CreateLog, KeepEngine, KeepHost, host, PCs
<1>8. CASE BeginFetch(w) \/ EnterBuild(w) \/ Mark(w) \/ MarkBad(w)
  BY <1>5, <1>8 DEF BeginFetch, EnterBuild, Mark, MarkBad, PCs
<1>9. CASE Checkout(w) \/ Rewrite(w) \/ Detach(w)
  BY <1>2, <1>3, <1>4, <1>9 DEF Checkout, Rewrite, Detach, KeepEngine, PCs
<1>10. CASE Build(w)
  <2>1. UNCHANGED <<mode, updating, recon, pruners, budget, upstream, stack>>
    BY <1>10 DEF Build, KeepEngine
  <2>2. CASE /\ job' = [job EXCEPT ![w].next = job[w].next + 1]
             /\ Goto(w, IF job[w].next = Len(Order) THEN "mark" ELSE "build")
    <3> DEFINE j == [job[w] EXCEPT !.next = job[w].next + 1]
    <3>1. j \in Jobs
      BY <1>2 DEF Jobs
    <3>2. job' = [job EXCEPT ![w] = j]
      BY <2>2 DEF TypeOK
    <3> QED
      BY <1>3, <2>1, <2>2, <3>1, <3>2 DEF PCs
  <2>3. CASE Goto(w, "bad") /\ UNCHANGED job
    BY <1>2, <1>3, <1>4, <2>1, <2>3 DEF PCs
  <2> QED
    BY <1>10, <2>2, <2>3 DEF Build
<1>11. CASE RaiseAlert(w)
  BY <1>2, <1>3, <1>4, <1>11 DEF RaiseAlert, KeepEngine, KeepHost, host, PCs
<1>12. CASE Release(w)
  <2>1. NoJob \in Jobs
    BY DEF NoJob, Jobs, Maybe
  <2>2. pc'[w] = "idle" /\ "idle" \in PCs
    BY <1>12 DEF Release, Goto, TypeOK, PCs
  <2> QED
    BY <1>1, <1>12, <2>1, <2>2 DEF Release, Goto, Moves, KeepHost, host
<1> QED
  BY <1>6, <1>7, <1>8, <1>9, <1>10, <1>11, <1>12 DEF Step

\* The others are idle, before and after.
LEMMA OthersAreIdle ==
  ASSUME TypeOK, OneAtATime, NEW w \in Workers, Moves(w)
  PROVE  /\ pc' \in [Workers -> PCs] /\ job' \in [Workers -> Jobs]
         /\ \A v \in Workers \ {w} : pc[v] = "idle" /\ pc'[v] = "idle" /\ job'[v] = job[v]
<1>1. pc' \in [Workers -> PCs] /\ job' \in [Workers -> Jobs]
  BY DEF TypeOK, Moves
<1>2. \A v \in Workers \ {w} : pc'[v] = pc[v] /\ job'[v] = job[v] /\ ~Busy(v)
  BY DEF TypeOK, Moves, OneAtATime
<1> QED
  BY <1>1, <1>2 DEF Busy

LEMMA StatusIsSet ==
  ASSUME TypeOK, OwnsRow, NEW w \in Workers, Owns(w), NEW st \in Statuses, SetStatus(w, st)
  PROVE  /\ logs' \in Seq(Rows) /\ Len(logs') = Len(logs) /\ DOMAIN logs' = DOMAIN logs
         /\ job[w].log \in DOMAIN logs
         /\ \A i \in DOMAIN logs :
              /\ logs'[i].from = logs[i].from /\ logs'[i].to = logs[i].to
              /\ logs'[i].status = IF i = job[w].log THEN st ELSE logs[i].status
<1>1. logs \in Seq(Rows) /\ job[w].log \in DOMAIN logs
  BY DEF TypeOK, OwnsRow
<1> QED
  BY <1>1, SetStatusKeepsRows DEF SetStatus

\* What a goroutine does to the log: it adds its own row, or marks it, and
\* never as done.
LEMMA StepLog ==
  ASSUME TypeOK, OwnsRow, NEW w \in Workers, Step(w)
  PROVE  /\ logs' \in Seq(Rows)
         /\ \A i \in DOMAIN logs :
              /\ i \in DOMAIN logs'
              /\ logs'[i].from = logs[i].from /\ logs'[i].to = logs[i].to
              /\ logs'[i].status = logs[i].status
                 \/ (Owns(w) /\ i = job[w].log /\ logs'[i].status # "done")
         /\ \A i \in DOMAIN logs' \ DOMAIN logs :
              i = Len(logs') /\ logs'[i].status = "pending" /\ pc[w] = "create"
         /\ pc[w] \notin {"create", "fetch", "enter_build", "mark", "bad"} => logs' = logs
<1>1. job[w] \in Jobs /\ logs \in Seq(Rows)
  BY DEF TypeOK
<1>2. CASE CreateLog(w)
  <2> DEFINE r == [from |-> job[w].from, to |-> job[w].to, status |-> "pending"]
  <2>1. r \in Rows
    BY <1>1 DEF Jobs, Rows, Statuses
  <2>2. logs' = Append(logs, r) /\ pc[w] = "create"
    BY <1>2 DEF CreateLog, At
  <2> QED
    BY <1>1, <2>1, <2>2, AppendKeepsRows
<1>3. ASSUME Owns(w), NEW st \in Statuses \ {"done"}, SetStatus(w, st),
             pc[w] \in {"fetch", "enter_build", "mark", "bad"}
      PROVE  /\ logs' \in Seq(Rows)
             /\ DOMAIN logs' = DOMAIN logs
             /\ \A i \in DOMAIN logs :
                  /\ logs'[i].from = logs[i].from /\ logs'[i].to = logs[i].to
                  /\ logs'[i].status = logs[i].status
                     \/ (Owns(w) /\ i = job[w].log /\ logs'[i].status # "done")
  <2>1. job[w].log \in DOMAIN logs
    BY <1>3 DEF OwnsRow
  <2> QED
    BY <1>1, <1>3, <2>1, SetStatusKeepsRows DEF SetStatus
<1>4. CASE BeginFetch(w) \/ EnterBuild(w) \/ Mark(w) \/ MarkBad(w)
  <2>1. /\ Owns(w) /\ pc[w] \in {"fetch", "enter_build", "mark", "bad"}
        /\ \E st \in Statuses \ {"done"} : SetStatus(w, st)
    BY <1>4 DEF BeginFetch, EnterBuild, Mark, MarkBad, Enter, At, Owns, Statuses, Terminal
  <2> QED
    BY <1>3, <2>1
<1>5. CASE UNCHANGED logs
  BY <1>1, <1>5
<1> QED
  BY <1>2, <1>4, <1>5 DEF Step, ReadCheck, Checkout, Rewrite, Build, Detach, RaiseAlert,
     Release, KeepTables, tables

-----------------------------------------------------------------------------
(* Types.                                                                  *)

LEMMA ObsoleteIsTyped ==
  ASSUME TypeOK
  PROVE  Obsolete \subseteq Maybe
<1>1. \A i \in DoneRows : Ends(i) \subseteq Maybe
  BY RowIsTyped DEF DoneRows, Ends
<1> QED
  BY <1>1 DEF Obsolete

LEMMA StepTypes ==
  ASSUME TypeOK, OwnsRow, HasStaged, NEW w \in Workers, Step(w)
  PROVE  TypeOK'
<1>1. Moves(w) /\ logs' \in Seq(Rows)
  BY StepMoves, StepLog
<1>2. pc' \in [Workers -> PCs] /\ job' \in [Workers -> Jobs]
  BY <1>1 DEF TypeOK, Moves
<1>3. UNCHANGED <<mode, recon, pruners, budget, upstream, stack>> /\ updating' \in BOOLEAN
  BY <1>1 DEF Moves, TypeOK
<1>4. job[w].to \in Maybe
  BY DEF TypeOK, Jobs
<1>5. alert' \in BOOLEAN /\ UNCHANGED check
  BY DEF TypeOK, Step, ReadCheck, CreateLog, BeginFetch, Checkout, Rewrite,
     EnterBuild, Build, Mark, Detach, MarkBad, RaiseAlert, Release, Enter, KeepTables,
     tables
<1>6. /\ tree' \in Maybe /\ file' \in Maybe /\ images' \in SUBSET (Images \X Maybe)
      /\ script' \in {"none", "asleep", "torn"}
  <2>1. CASE Build(w)
    <3>1. Order[job[w].next] \in Images
      BY <2>1 DEF HasStaged, Build, At, Images
    <3> QED
      BY <2>1, <3>1 DEF Build, BuildOK, BuildFails, TypeOK
  <2>2. CASE Checkout(w) \/ Rewrite(w) \/ Detach(w)
    BY <1>4, <2>2 DEF Checkout, Rewrite, Detach, CheckoutOK, CheckoutFails, RewriteOK,
       RewriteFails, RestartOK, RestartFails, TypeOK
  <2>3. CASE UNCHANGED host
    BY <2>3 DEF host, TypeOK
  <2> QED
    BY <2>1, <2>2, <2>3 DEF Step, ReadCheck, CreateLog, BeginFetch, EnterBuild, Mark,
       MarkBad, RaiseAlert, Release, Enter, KeepHost
<1> QED
  BY <1>1, <1>2, <1>3, <1>5, <1>6 DEF TypeOK

LEMMA ReconTypes ==
  ASSUME TypeOK, ReconFollows, Startup
  PROVE  TypeOK'
<1>1. \A i \in DOMAIN logs : i \in Nat
  BY RowIsTyped
<1>2. CASE Boot
  BY <1>1, <1>2 DEF Boot, TypeOK, NoRecon, KeepTables, tables, KeepHost, host
<1>3. CASE Serve
  BY <1>3 DEF Serve, TypeOK, NoRecon, KeepTables, tables, KeepHost, host
<1>4. CASE ReconcileAlert
  BY <1>4 DEF ReconcileAlert, TypeOK, KeepBoot, KeepHost, host
<1>5. CASE ReconcileRecord
  <2>1. recon.log \in DOMAIN logs /\ recon.log \in Nat
    BY <1>1, <1>5 DEF ReconcileRecord, ReconFollows
  <2>2. logs[recon.log].to \in Maybe
    BY <2>1, RowIsTyped
  <2>3. [id |-> recon.log, pc |-> "read", todo |-> {}] \in Pruners
    BY <2>1 DEF Pruners
  <2>4. recon' \in [todo : SUBSET Nat, pc : {"next", "raise", "resolve", "record"},
                    log : Nat]
    BY <1>5 DEF ReconcileRecord, TypeOK
  <2> QED
    BY <1>5, <2>2, <2>3, <2>4 DEF ReconcileRecord, TypeOK, KeepBoot, KeepHost, host
<1>6. ASSUME NEW i \in DOMAIN logs, JudgeStuck(i) PROVE TypeOK'
  <2>1. logs' \in Seq(Rows)
    <3>1. \E st \in Statuses : logs' = [logs EXCEPT ![i].status = st]
      BY <1>6 DEF JudgeStuck, Statuses, Terminal
    <3> QED
      BY <3>1, SetStatusKeepsRows DEF TypeOK
  <2>2. recon' \in [todo : SUBSET Nat, pc : {"next", "raise", "resolve", "record"},
                    log : Nat]
    BY <1>1, <1>6 DEF JudgeStuck, TypeOK
  <2> QED
    BY <1>6, <2>1, <2>2 DEF JudgeStuck, TypeOK, KeepBoot, KeepHost, host
<1> QED
  BY <1>2, <1>3, <1>4, <1>5, <1>6 DEF Startup

LEMMA ForgetTypes ==
  ASSUME TypeOK, Forget
  PROVE  /\ mode' = "down" /\ updating' = FALSE /\ pruners' = {} /\ recon' = NoRecon
         /\ pc' = [w \in Workers |-> "idle"] /\ job' = [w \in Workers |-> NoJob]
         /\ pc' \in [Workers -> PCs] /\ job' \in [Workers -> Jobs]
         /\ recon' \in [todo : SUBSET Nat, pc : {"next", "raise", "resolve", "record"},
                        log : Nat]
BY DEF Forget, NoRecon, NoJob, Jobs, Maybe, PCs

LEMMA SpendTypes ==
  ASSUME TypeOK, NEW k \in Limited, Spend(k)
  PROVE  /\ budget' \in [Limited -> Nat] /\ budget'[k] = budget[k] - 1
         /\ \A j \in Limited : budget'[j] <= budget[j]
BY DEF Spend, TypeOK

LEMMA HostTypes ==
  ASSUME TypeOK, Crash \/ TearDown \/ BringUp \/ Strand
  PROVE  TypeOK'
<1>1. CASE Crash
  BY <1>1, ForgetTypes, SpendTypes
     DEF Crash, TypeOK, tables, KeepHost, host, Limited
<1>2. CASE TearDown
  BY <1>2, ForgetTypes DEF TearDown, TypeOK, KeepTables, tables, NoStack, Maybe
<1>3. CASE BringUp
  BY <1>3 DEF BringUp, TypeOK, KeepTables, tables, memory
<1>4. CASE Strand
  BY <1>4, ForgetTypes, SpendTypes DEF Strand, TypeOK, KeepTables, tables, Limited
<1> QED
  BY <1>1, <1>2, <1>3, <1>4

LEMMA OtherTypes ==
  ASSUME TypeOK,
         \/ \E w \in Workers : Request(w)
         \/ StoreCheck \/ Prune
         \/ \E v \in Versions : Publish(v)
  PROVE  TypeOK'
<1>1. ASSUME NEW w \in Workers, Request(w) PROVE TypeOK'
  BY <1>1, SpendTypes DEF Request, Goto, TypeOK, PCs, KeepTables, tables, KeepHost, host, Limited
<1>2. CASE StoreCheck
  <2>1. check' \in [cur : Maybe, latest : Maybe, has : BOOLEAN]
    <3>1. \A c, l \in Maybe :
            /\ Verdict(c, l) \in [cur : Maybe, latest : Maybe, has : BOOLEAN]
            /\ [Verdict(c, None) EXCEPT !.has = FALSE]
                 \in [cur : Maybe, latest : Maybe, has : BOOLEAN]
      BY DEF Verdict, Maybe
    <3>2. NoCheck \in [cur : Maybe, latest : Maybe, has : BOOLEAN]
      BY DEF NoCheck, Maybe
    <3>3. stack.tag \in Maybe /\ check.cur \in Maybe /\ upstream \in Maybe
      BY DEF TypeOK, Maybe
    <3>4. PICK cur \in {stack.tag, check.cur} :
            \/ check' = NoCheck
            \/ check' = Verdict(cur, upstream)
            \/ check' = [Verdict(cur, None) EXCEPT !.has = FALSE]
      BY <1>2, Zenon DEF StoreCheck
    <3>5. cur \in Maybe /\ None \in Maybe
      BY <3>3 DEF Maybe
    <3>6. CASE check' = NoCheck
      BY <3>2, <3>6
    <3>7. CASE check' = Verdict(cur, upstream)
      BY <3>1, <3>3, <3>5, <3>7, Zenon
    <3>8. CASE check' = [Verdict(cur, None) EXCEPT !.has = FALSE]
      BY <3>1, <3>5, <3>8, Zenon
    <3> QED
      BY <3>4, <3>6, <3>7, <3>8
  <2> QED
    BY <1>2, <2>1 DEF StoreCheck, TypeOK, memory, KeepHost, host
<1>3. ASSUME NEW p \in pruners, PruneRead(p) PROVE TypeOK'
  <2>1. [p EXCEPT !.pc = "remove", !.todo = Images \X Obsolete] \in Pruners
    <3>1. p \in Pruners
      BY DEF TypeOK
    <3>2. Images \X Obsolete \in SUBSET (Images \X Maybe)
      <4>1. Obsolete \subseteq Maybe
        BY ObsoleteIsTyped
      <4> HIDE DEF Obsolete, Images, Maybe
      <4> QED
        BY <4>1
    <3> QED
      BY <3>1, <3>2 DEF Pruners
  <2> QED
    BY <1>3, <2>1 DEF PruneRead, TypeOK, KeepPruned, KeepTables, tables, KeepHost, host
<1>4. ASSUME NEW p \in pruners, PruneRemove(p) PROVE TypeOK'
  <2>1. \A x : [p EXCEPT !.todo = @ \ {x}] \in Pruners
    BY DEF TypeOK, Pruners
  <2>2. pruners' \subseteq Pruners /\ images' \subseteq images
    BY <1>4, <2>1 DEF PruneRemove, RemoveImage, TypeOK
  <2> QED
    BY <1>4, <2>2 DEF PruneRemove, TypeOK, KeepPruned, KeepTables, tables
<1>5. ASSUME NEW v \in Versions, Publish(v) PROVE TypeOK'
  BY <1>5, SpendTypes DEF Publish, TypeOK, memory, tables, KeepHost, host, Limited
<1> QED
  BY <1>1, <1>2, <1>3, <1>4, <1>5 DEF Prune

LEMMA NextTypes ==
  ASSUME SelfUpdateInv, Next
  PROVE  TypeOK'
BY StepTypes, ReconTypes, HostTypes, OtherTypes DEF Next, Script, SelfUpdateInv

-----------------------------------------------------------------------------
(* One goroutine at a time.                                                *)

\* What does not move the goroutines.
Calm == StoreCheck \/ Prune \/ Startup \/ BringUp \/ \E v \in Versions : Publish(v)
Fatal == Crash \/ TearDown \/ Strand

LEMMA CalmKeepsWorkers ==
  ASSUME Calm
  PROVE  UNCHANGED <<pc, job, updating>> /\ (mode = "serving" => mode' = "serving")
BY DEF Calm, StoreCheck, Prune, PruneRead, PruneRemove, Startup, Boot, JudgeStuck,
       ReconcileAlert, ReconcileRecord, Serve, BringUp, Publish, memory, KeepBoot,
       KeepPruned

LEMMA FatalForgets ==
  ASSUME Fatal
  PROVE  /\ Forget /\ UNCHANGED <<tables, tree, file, images>>
         /\ \A w \in Workers : pc'[w] = "idle" /\ job'[w] = NoJob
BY DEF Fatal, Crash, TearDown, Strand, Forget, KeepTables, KeepHost, host

LEMMA ActionsAre ==
  ASSUME Next
  PROVE  \/ \E w \in Workers : Request(w)
         \/ \E w \in Workers : Step(w)
         \/ Calm
         \/ Fatal
BY DEF Next, Script, Calm, Fatal

\* A request comes when nobody is busy, and has done nothing yet.
LEMMA RequestIs ==
  ASSUME TypeOK, OneAtATime, NEW w \in Workers, Request(w)
  PROVE  /\ mode = "serving" /\ updating' = TRUE /\ pc[w] = "idle" /\ pc'[w] = "locked"
         /\ \A v \in Workers \ {w} : pc[v] = "idle" /\ pc'[v] = "idle"
         /\ UNCHANGED <<mode, job, recon, pruners, check, logs, alert, tree, file,
                        images, stack, script, upstream>>
         /\ budget' = [budget EXCEPT !["request"] = @ - 1] /\ budget["request"] > 0
<1>1. \A v \in Workers : pc[v] = "idle"
  BY DEF Request, OneAtATime, Busy
<1>2. pc' = [pc EXCEPT ![w] = "locked"]
  BY DEF Request, Goto
<1> QED
  BY <1>1, <1>2 DEF Request, At, TypeOK, KeepTables, tables, KeepHost, host, Spend

LEMMA OneAtATimeKept ==
  ASSUME SelfUpdateInv, Next
  PROVE  OneAtATime'
<1>1. TypeOK /\ OneAtATime
  BY DEF SelfUpdateInv
<1>2. ASSUME NEW w \in Workers, Request(w) PROVE OneAtATime'
  BY <1>1, <1>2, RequestIs DEF OneAtATime, Busy
<1>3. ASSUME NEW w \in Workers, Step(w) PROVE OneAtATime'
  <2>1. Moves(w) /\ updating
    BY <1>1, <1>3, StepMoves DEF Moves, OneAtATime
  <2>2. \A v \in Workers \ {w} : pc'[v] = "idle"
    BY <1>1, <2>1, OthersAreIdle
  <2> QED
    BY <2>1, <2>2 DEF OneAtATime, Busy, Moves
<1>4. CASE Calm
  BY <1>1, <1>4, CalmKeepsWorkers DEF OneAtATime, Busy
<1>5. CASE Fatal
  BY <1>5, FatalForgets DEF OneAtATime, Busy, Forget
<1> QED
  BY <1>2, <1>3, <1>4, <1>5, ActionsAre

-----------------------------------------------------------------------------
(* The row of a goroutine, and what it has achieved.                       *)

LEMMA CalmKeepsLog ==
  ASSUME TypeOK, OneAtATime, Calm
  PROVE  logs' = logs \/ \A w \in Workers : ~Busy(w) /\ ~Busy(w)'
<1>1. CASE \E i \in DOMAIN logs : JudgeStuck(i)
  BY <1>1 DEF JudgeStuck, KeepBoot, OneAtATime, Busy
<1>2. CASE ~\E i \in DOMAIN logs : JudgeStuck(i)
  BY <1>2 DEF Calm, StoreCheck, Prune, PruneRead, PruneRemove, Startup, Boot,
     ReconcileAlert, ReconcileRecord, Serve, BringUp, Publish, KeepPruned, KeepTables,
     tables
<1> QED
  BY <1>1, <1>2

LEMMA OwnsRowKept ==
  ASSUME SelfUpdateInv, Next
  PROVE  OwnsRow'
<1>1. TypeOK /\ OneAtATime /\ OwnsRow
  BY DEF SelfUpdateInv
<1>2. ASSUME NEW w \in Workers, Request(w) PROVE OwnsRow'
  <2>1. \A v \in Workers : ~Owns(v)'
    BY <1>1, <1>2, RequestIs DEF Owns
  <2> QED
    BY <2>1 DEF OwnsRow
<1>3. ASSUME NEW w \in Workers, Step(w) PROVE OwnsRow'
  <2>1. /\ Moves(w) /\ job[w] \in Jobs /\ logs \in Seq(Rows)
        /\ job[w].log = job[w].log
    BY <1>1, <1>3, StepMoves DEF TypeOK
  <2>2. \A v \in Workers \ {w} : ~Owns(v)'
    BY <1>1, <2>1, OthersAreIdle DEF Owns
  <2> SUFFICES ASSUME Owns(w)'
               PROVE  /\ job'[w].log = Len(logs') /\ job'[w].log \in DOMAIN logs'
                      /\ logs'[job'[w].log].to = job'[w].to
                      /\ logs'[job'[w].log].status \notin Terminal
                      /\ pc'[w] \in {"checkout", "rewrite"}
                           => logs'[job'[w].log].status = "pulling"
    BY <2>2 DEF OwnsRow
  <2>3. CASE CreateLog(w)
    <3> DEFINE r == [from |-> job[w].from, to |-> job[w].to, status |-> "pending"]
    <3>1. r \in Rows
      BY <2>1 DEF Jobs, Rows, Statuses
    <3>2. /\ logs' = Append(logs, r) /\ pc'[w] = "fetch"
          /\ job'[w].log = Len(logs) + 1 /\ job'[w].to = job[w].to
      BY <1>1, <2>1, <2>3 DEF CreateLog, Goto, TypeOK, Jobs
    <3> QED
      BY <2>1, <3>1, <3>2, AppendKeepsRows DEF Terminal
  <2>4. ASSUME NEW at, NEW st \in Statuses \ Terminal, NEW p, Enter(w, at, st, p),
               at \in {"fetch", "enter_build", "mark"},
               p \in {"checkout", "build", "detach"},
               p = "checkout" => st = "pulling"
        PROVE  OwnsRow'
    <3>1. /\ Owns(w) /\ job' = job /\ pc'[w] = p
          /\ logs' = [logs EXCEPT ![job[w].log].status = st]
      BY <1>1, <2>4 DEF Enter, At, Owns, Goto, SetStatus, TypeOK
    <3>2. job[w].log \in DOMAIN logs
      BY <1>1, <3>1 DEF OwnsRow
    <3>3. /\ Len(logs') = Len(logs) /\ DOMAIN logs' = DOMAIN logs
          /\ logs'[job[w].log].to = logs[job[w].log].to
          /\ logs'[job[w].log].status = st
      <4>1. st \in Statuses
        BY <2>4
      <4>2. SetStatus(w, st)
        BY <2>4 DEF Enter
      <4>3. \A i \in DOMAIN logs :
              /\ logs'[i].to = logs[i].to
              /\ logs'[i].status = IF i = job[w].log THEN st ELSE logs[i].status
        BY <1>1, <3>1, <4>1, <4>2, StatusIsSet
      <4>4. Len(logs') = Len(logs) /\ DOMAIN logs' = DOMAIN logs
        BY <1>1, <3>1, <4>1, <4>2, StatusIsSet
      <4> QED
        BY <3>2, <4>3, <4>4
    <3> QED
      BY <1>1, <2>2, <2>4, <3>1, <3>3 DEF OwnsRow
  <2>5. CASE BeginFetch(w) \/ EnterBuild(w) \/ Mark(w)
    <3>1. "pulling" \in Statuses \ Terminal /\ "building" \in Statuses \ Terminal
          /\ "restarting" \in Statuses \ Terminal
      BY DEF Statuses, Terminal
    <3>2. OwnsRow'
      BY <2>4, <2>5, <3>1 DEF BeginFetch, EnterBuild, Mark
    <3> QED
      BY <3>2 DEF OwnsRow
  <2>6. CASE Checkout(w) \/ Rewrite(w) \/ Detach(w)
    <3>1. /\ Owns(w) /\ job' = job /\ logs' = logs
          /\ pc'[w] \in {"checkout", "rewrite"} => pc[w] = "checkout"
      BY <1>1, <2>6 DEF Checkout, Rewrite, Detach, Goto, At, Owns, TypeOK, KeepTables, tables
    <3> QED
      BY <1>1, <3>1 DEF OwnsRow
  <2>7. CASE Build(w)
    <3>1. /\ Owns(w) /\ logs' = logs /\ pc'[w] \in {"mark", "build", "bad"}
          /\ job'[w].log = job[w].log /\ job'[w].to = job[w].to
      BY <1>1, <2>1, <2>7 DEF Build, Goto, At, Owns, TypeOK, Jobs, KeepTables, tables
    <3> QED
      BY <1>1, <3>1 DEF OwnsRow
  <2>8. CASE ReadCheck(w) \/ MarkBad(w) \/ RaiseAlert(w) \/ Release(w)
    <3>1. ~Owns(w)'
      BY <1>1, <2>8 DEF ReadCheck, MarkBad, RaiseAlert, Release, Enter, Goto, Owns, TypeOK
    <3> QED
      BY <3>1
  <2> QED
    BY <1>3, <2>3, <2>5, <2>6, <2>7, <2>8 DEF Step
<1>4. CASE Calm
  BY <1>1, <1>4, CalmKeepsWorkers, CalmKeepsLog DEF OwnsRow, Owns, Busy
<1>5. CASE Fatal
  BY <1>5, FatalForgets DEF OwnsRow, Owns
<1> QED
  BY <1>2, <1>3, <1>4, <1>5, ActionsAre

LEMMA HasStagedKept ==
  ASSUME SelfUpdateInv, Next
  PROVE  HasStaged'
<1>1. TypeOK /\ OneAtATime /\ HasStaged
  BY DEF SelfUpdateInv
<1>2. ASSUME NEW w \in Workers, Request(w) PROVE HasStaged'
  BY <1>1, <1>2, RequestIs DEF HasStaged
<1>3. ASSUME NEW w \in Workers, Step(w) PROVE HasStaged'
  <2>1. Moves(w) /\ job[w] \in Jobs
    BY <1>1, <1>3, StepMoves DEF TypeOK
  <2>2. \A v \in Workers \ {w} : pc[v] = "idle" /\ pc'[v] = "idle" /\ job'[v] = job[v]
    BY <1>1, <2>1, OthersAreIdle
  <2> SUFFICES /\ pc'[w] \notin {"mark", "detach", "bad", "raise", "release"}
                    => job'[w].next \in DOMAIN Order
               /\ pc'[w] = "rewrite" => tree' = job'[w].to
               /\ pc'[w] \in {"enter_build", "build", "mark", "detach"}
                    => tree' = job'[w].to /\ file' = job'[w].to
    BY <1>1, <2>2 DEF HasStaged
  <2>3. CASE ReadCheck(w) \/ CreateLog(w)
    <3>1. job'[w].next = job[w].next
      BY <1>1, <2>1, <2>3 DEF ReadCheck, CreateLog, TypeOK, Jobs
    <3>2. pc[w] \in {"locked", "create"} /\ pc'[w] \in {"create", "release", "fetch"}
      BY <1>1, <2>3 DEF ReadCheck, CreateLog, Goto, At, TypeOK
    <3> QED
      BY <1>1, <3>1, <3>2 DEF HasStaged
  <2>4. CASE BeginFetch(w) \/ EnterBuild(w) \/ Mark(w) \/ MarkBad(w)
    BY <1>1, <2>4 DEF BeginFetch, EnterBuild, Mark, MarkBad, Enter, Goto, At, HasStaged,
       TypeOK, KeepHost, host
  <2>5. CASE Checkout(w) \/ Rewrite(w) \/ Detach(w)
    BY <1>1, <2>5 DEF Checkout, Rewrite, Detach, CheckoutOK, RewriteOK, Goto, At,
       HasStaged, TypeOK
  <2>6. CASE Build(w)
    <3>1. /\ Order \in Seq(Images) /\ job[w].next \in DOMAIN Order
          /\ tree = job[w].to /\ file = job[w].to /\ UNCHANGED <<tree, file>>
      BY <1>1, <2>6, OrderAssumption DEF Build, At, HasStaged
    <3>2. Len(Order) \in Nat /\ DOMAIN Order = 1..Len(Order)
      BY <3>1, LenProperties
    <3>3. job[w].next # Len(Order) => job[w].next + 1 \in DOMAIN Order
      BY <3>1, <3>2
    <3> QED
      BY <1>1, <2>1, <2>6, <3>1, <3>3 DEF Build, Goto, TypeOK, Jobs
  <2>7. CASE RaiseAlert(w) \/ Release(w)
    <3>1. 1 \in DOMAIN Order
      BY OrderAssumption, LenProperties
    <3> QED
      BY <1>1, <2>7, <3>1 DEF RaiseAlert, Release, Goto, TypeOK, NoJob
  <2> QED
    BY <1>3, <2>3, <2>4, <2>5, <2>6, <2>7 DEF Step
<1>4. CASE Calm
  <2>1. UNCHANGED <<tree, file>>
    BY <1>4 DEF Calm, StoreCheck, Prune, PruneRead, PruneRemove, Startup, Boot,
       JudgeStuck, ReconcileAlert, ReconcileRecord, Serve, BringUp, Publish, KeepBoot,
       KeepPruned, KeepHost, host
  <2> QED
    BY <1>1, <1>4, <2>1, CalmKeepsWorkers DEF HasStaged
<1>5. CASE Fatal
  <2>1. 1 \in DOMAIN Order
    BY OrderAssumption, LenProperties
  <2> QED
    BY <1>5, <2>1, FatalForgets DEF HasStaged, NoJob
<1> QED
  BY <1>2, <1>3, <1>4, <1>5, ActionsAre

-----------------------------------------------------------------------------
(* The reconciliation and the pruning goroutines.                          *)

\* The reconciliation closes one row, and only one left at "restarting".
LEMMA JudgeLog ==
  ASSUME TypeOK, ReconFollows, NEW i, JudgeStuck(i)
  PROVE  /\ i \in DOMAIN logs /\ logs[i].status = "restarting" /\ mode = "booting"
         /\ i \in recon.todo /\ \A j \in recon.todo : j <= i
         /\ DOMAIN logs' = DOMAIN logs /\ Len(logs') = Len(logs) /\ logs' \in Seq(Rows)
         /\ \A k \in DOMAIN logs :
              /\ logs'[k].from = logs[k].from /\ logs'[k].to = logs[k].to
              /\ k # i => logs'[k].status = logs[k].status
         /\ recon'.todo = recon.todo \ {i} /\ recon'.log = i
         /\ \/ logs'[i].status = "done" /\ recon'.pc = "resolve"
            \/ logs'[i].status = "failed" /\ recon'.pc = "raise"
         /\ UNCHANGED <<mode, updating, pc, job, pruners, tree, file, images, stack,
                        script, budget>>
<1>1. i \in DOMAIN logs /\ logs[i].status = "restarting" /\ logs \in Seq(Rows)
  BY DEF JudgeStuck, ReconFollows, TypeOK
<1>2. "done" \in Statuses /\ "failed" \in Statuses
  BY DEF Statuses, Terminal
<1>3. CASE logs' = [logs EXCEPT ![i].status = "done"]
           /\ recon' = [todo |-> recon.todo \ {i}, pc |-> "resolve", log |-> i]
  <2>1. /\ DOMAIN logs' = DOMAIN logs /\ Len(logs') = Len(logs) /\ logs' \in Seq(Rows)
        /\ \A k \in DOMAIN logs :
              /\ logs'[k].from = logs[k].from /\ logs'[k].to = logs[k].to
              /\ logs'[k].status = IF k = i THEN "done" ELSE logs[k].status
    BY <1>1, <1>2, <1>3, SetStatusKeepsRows
  <2> QED
    BY <1>1, <1>3, <2>1 DEF JudgeStuck, KeepBoot, KeepHost, host
<1>4. CASE logs' = [logs EXCEPT ![i].status = "failed"]
           /\ recon' = [todo |-> recon.todo \ {i}, pc |-> "raise", log |-> i]
  <2>1. /\ DOMAIN logs' = DOMAIN logs /\ Len(logs') = Len(logs) /\ logs' \in Seq(Rows)
        /\ \A k \in DOMAIN logs :
              /\ logs'[k].from = logs[k].from /\ logs'[k].to = logs[k].to
              /\ logs'[k].status = IF k = i THEN "failed" ELSE logs[k].status
    BY <1>1, <1>2, <1>4, SetStatusKeepsRows
  <2> QED
    BY <1>1, <1>4, <2>1 DEF JudgeStuck, KeepBoot, KeepHost, host
<1> QED
  BY <1>3, <1>4 DEF JudgeStuck

\* The other calm steps leave the log alone.
LEMMA CalmLog ==
  ASSUME Calm
  PROVE  logs' = logs \/ \E i \in DOMAIN logs : JudgeStuck(i)
BY DEF Calm, StoreCheck, Prune, PruneRead, PruneRemove, Startup, Boot,
     ReconcileAlert, ReconcileRecord, Serve, BringUp, Publish, KeepPruned, KeepTables,
     tables

\* No row is lost or renamed, a success stays one, and only the reconciliation
\* makes one.
LEMMA LogGrows ==
  ASSUME SelfUpdateInv, Next
  PROVE  /\ \A i \in DOMAIN logs :
              /\ i \in DOMAIN logs'
              /\ logs'[i].from = logs[i].from /\ logs'[i].to = logs[i].to
              /\ logs[i].status = "done" => logs'[i].status = "done"
         /\ \A i \in DOMAIN logs' : logs'[i].status = "done" =>
              i \in DOMAIN logs /\ (logs[i].status = "done" \/ JudgeStuck(i))
<1>1. TypeOK /\ OneAtATime /\ OwnsRow /\ ReconFollows
  BY DEF SelfUpdateInv
<1>2. ASSUME NEW w \in Workers, Request(w) PROVE logs' = logs
  BY <1>1, <1>2, RequestIs
<1>3. ASSUME NEW w \in Workers, Step(w)
      PROVE  /\ \A i \in DOMAIN logs :
                  /\ i \in DOMAIN logs'
                  /\ logs'[i].from = logs[i].from /\ logs'[i].to = logs[i].to
                  /\ logs[i].status = "done" => logs'[i].status = "done"
             /\ \A i \in DOMAIN logs' : logs'[i].status = "done" =>
                  i \in DOMAIN logs /\ logs[i].status = "done"
  <2>1. Owns(w) => logs[job[w].log].status # "done"
    BY <1>1 DEF OwnsRow, Terminal
  <2> QED
    BY <1>1, <1>3, <2>1, StepLog
<1>4. CASE Calm
  BY <1>1, <1>4, CalmLog, JudgeLog
<1>5. CASE Fatal
  BY <1>5, FatalForgets DEF tables
<1> QED
  BY <1>2, <1>3, <1>4, <1>5, ActionsAre

LEMMA ServingIsCalm ==
  ASSUME SelfUpdateInv, \E w \in Workers : Request(w) \/ Step(w)
  PROVE  /\ mode = "serving" /\ UNCHANGED <<mode, recon, pruners, stack>>
         /\ recon = NoRecon
<1>1. ASSUME NEW w \in Workers, Request(w)
      PROVE  mode = "serving" /\ UNCHANGED <<mode, recon, pruners, stack>>
  BY <1>1, RequestIs DEF SelfUpdateInv
<1>2. ASSUME NEW w \in Workers, Step(w)
      PROVE  mode = "serving" /\ UNCHANGED <<mode, recon, pruners, stack>>
  BY <1>2, StepMoves DEF Moves, SelfUpdateInv
<1> QED
  BY <1>1, <1>2 DEF SelfUpdateInv, ReconFollows

LEMMA ReconFollowsKept ==
  ASSUME SelfUpdateInv, Next
  PROVE  ReconFollows'
<1>1. TypeOK /\ ReconFollows
  BY DEF SelfUpdateInv
<1>2. CASE \E w \in Workers : Request(w) \/ Step(w)
  BY <1>2, ServingIsCalm DEF ReconFollows, NoRecon
<1>3. CASE Fatal
  BY <1>3, FatalForgets DEF Forget, ReconFollows, NoRecon
<1>4. CASE Boot
  BY <1>1, <1>4 DEF Boot, ReconFollows, NoRecon, KeepTables, tables
<1>5. CASE Serve
  BY <1>1, <1>5 DEF Serve, ReconFollows, NoRecon, KeepTables, tables
<1>6. ASSUME NEW i \in DOMAIN logs, JudgeStuck(i) PROVE ReconFollows'
  <2>1. \A j \in recon.todo : j \in Nat
    BY <1>1 DEF TypeOK
  <2> QED
    BY <1>1, <1>6, <2>1, JudgeLog DEF ReconFollows
<1>7. CASE ReconcileAlert \/ ReconcileRecord
  <2>1. /\ mode = "booting" /\ UNCHANGED <<mode, logs>>
        /\ recon'.todo = recon.todo /\ recon'.log = recon.log
        /\ recon'.pc \in {"next", "record"}
        /\ recon'.pc = "record" => recon.pc = "resolve"
    BY <1>1, <1>7 DEF ReconcileAlert, ReconcileRecord, KeepBoot, TypeOK
  <2> QED
    BY <1>1, <2>1 DEF ReconFollows
<1>8. CASE StoreCheck \/ BringUp \/ \E v \in Versions : Publish(v)
  BY <1>1, <1>8 DEF StoreCheck, BringUp, Publish, memory, KeepTables, tables, ReconFollows
<1>9. CASE Prune
  <2>1. UNCHANGED <<mode, recon, logs>> /\ pruners # {}
    BY <1>9 DEF Prune, PruneRead, PruneRemove, KeepPruned, KeepTables, tables
  <2> QED
    BY <1>1, <2>1 DEF ReconFollows
<1> QED
  BY <1>2, <1>3, <1>4, <1>5, <1>6, <1>7, <1>8, <1>9, ActionsAre DEF Calm, Startup

\* Where a pruning goroutine comes from.
LEMMA PrunersAre ==
  ASSUME SelfUpdateInv, Next
  PROVE  \A q \in pruners' :
           \/ \E p \in pruners : q.id = p.id
                /\ \/ q.todo \subseteq p.todo
                   \/ q.todo = Images \X Obsolete /\ UNCHANGED logs
           \/ q = [id |-> recon.log, pc |-> "read", todo |-> {}] /\ ReconcileRecord
<1>1. TypeOK
  BY DEF SelfUpdateInv
<1>2. CASE \E w \in Workers : Request(w) \/ Step(w)
  BY <1>2, ServingIsCalm
<1>3. CASE Fatal
  BY <1>3, FatalForgets DEF Forget
<1>4. ASSUME NEW p \in pruners, PruneRead(p), NEW q \in pruners'
      PROVE  \E r \in pruners : q.id = r.id
               /\ \/ q.todo \subseteq r.todo
                  \/ q.todo = Images \X Obsolete /\ UNCHANGED logs
  <2>1. UNCHANGED logs /\ p \in Pruners
    BY <1>1, <1>4 DEF PruneRead, KeepPruned, KeepTables, tables, TypeOK
  <2>2. CASE q \in pruners
    BY <2>2
  <2>3. CASE q = [p EXCEPT !.pc = "remove", !.todo = Images \X Obsolete]
    BY <2>1, <2>3 DEF Pruners
  <2> QED
    BY <1>4, <2>2, <2>3 DEF PruneRead
<1>5. ASSUME NEW p \in pruners, PruneRemove(p), NEW q \in pruners'
      PROVE  \E r \in pruners : q.id = r.id /\ q.todo \subseteq r.todo
  <2>1. p \in Pruners
    BY <1>1 DEF TypeOK
  <2>2. CASE q \in pruners
    BY <2>2
  <2>3. CASE \E x \in p.todo : q = [p EXCEPT !.todo = @ \ {x}]
    BY <2>1, <2>3 DEF Pruners
  <2> QED
    BY <1>5, <2>2, <2>3 DEF PruneRemove
<1>6. CASE ReconcileRecord
  BY <1>6 DEF ReconcileRecord
<1>7. CASE StoreCheck \/ BringUp \/ (\E v \in Versions : Publish(v)) \/ Boot \/ Serve
           \/ ReconcileAlert \/ \E i \in DOMAIN logs : JudgeStuck(i)
  BY <1>7 DEF StoreCheck, BringUp, Publish, memory, Boot, Serve, ReconcileAlert,
     JudgeStuck
<1> QED
  BY <1>2, <1>3, <1>4, <1>5, <1>6, <1>7, ActionsAre DEF Calm, Startup, Prune

LEMMA PrunersFollowKept ==
  ASSUME SelfUpdateInv, Next
  PROVE  PrunersFollow'
<1>1. TypeOK /\ ReconFollows /\ PrunersFollow
  BY DEF SelfUpdateInv
<1> SUFFICES ASSUME NEW q \in pruners'
             PROVE  /\ q.id \in DOMAIN logs' /\ logs'[q.id].status = "done"
                    /\ \A j \in recon'.todo : j < q.id
  BY DEF PrunersFollow
<1>2. CASE q = [id |-> recon.log, pc |-> "read", todo |-> {}] /\ ReconcileRecord
  <2>1. /\ recon.pc = "record" /\ q.id = recon.log
        /\ logs' = logs /\ recon'.todo = recon.todo
    BY <1>1, <1>2 DEF ReconcileRecord, TypeOK
  <2> QED
    BY <1>1, <2>1 DEF ReconFollows
<1>3. ASSUME NEW p \in pruners, q.id = p.id
      PROVE  /\ q.id \in DOMAIN logs' /\ logs'[q.id].status = "done"
             /\ \A j \in recon'.todo : j < q.id
  <2>1. /\ p.id \in DOMAIN logs /\ logs[p.id].status = "done"
        /\ \A j \in recon.todo : j < p.id
    BY <1>1 DEF PrunersFollow
  <2>2. p.id \in DOMAIN logs' /\ logs'[p.id].status = "done"
    BY <2>1, LogGrows
  <2>3. recon'.todo \subseteq recon.todo \/ mode = "down" \/ pruners' = {}
    <3>1. CASE \E w \in Workers : Request(w) \/ Step(w)
      BY <3>1, ServingIsCalm
    <3>2. CASE Fatal
      BY <3>2, FatalForgets DEF Forget
    <3>3. CASE \E i \in DOMAIN logs : JudgeStuck(i)
      BY <1>1, <3>3, JudgeLog
    <3>4. CASE Calm /\ ~\E i \in DOMAIN logs : JudgeStuck(i)
      <4>1. CASE Boot \/ Serve
        BY <4>1 DEF Boot, Serve, NoRecon
      <4>2. CASE ReconcileAlert \/ ReconcileRecord
        BY <1>1, <4>2 DEF ReconcileAlert, ReconcileRecord, TypeOK
      <4>3. CASE StoreCheck \/ Prune \/ BringUp \/ \E v \in Versions : Publish(v)
        BY <4>3 DEF StoreCheck, Prune, PruneRead, PruneRemove, BringUp, Publish,
           KeepPruned, memory
      <4> QED
        BY <3>4, <4>1, <4>2, <4>3 DEF Calm, Startup
    <3> QED
      BY <3>1, <3>2, <3>3, <3>4, ActionsAre
  <2>4. mode # "down"
    BY <1>1 DEF ReconFollows
  <2> QED
    BY <1>3, <2>1, <2>2, <2>3, <2>4
<1> QED
  BY <1>2, <1>3, PrunersAre

\* What is obsolete spares the newest success of the whole log.
LEMMA ObsoleteSpares ==
  ASSUME TypeOK, NEW i, LastDone(i), NEW v \in Obsolete
  PROVE  v \notin Ends(i)
<1>1. PICK k \in DoneRows : v \in Ends(k)
  BY DEF Obsolete
<1>2. k \in DOMAIN logs /\ k > Len(logs) - PruneWindow /\ k <= i
      /\ i \in DOMAIN logs /\ logs[i].status = "done"
  BY DEF DoneRows, LastDone
<1>3. k \in 1..Len(logs) /\ i \in 1..Len(logs) /\ Len(logs) \in Nat /\ PruneWindow \in Nat
  BY <1>2, RowIsTyped, BoundsAssumption
<1>4. i \in DoneRows
  BY <1>2, <1>3 DEF DoneRows
<1>5. \A j \in DoneRows : j <= i
  BY DEF DoneRows, LastDone
<1>6. NewestDone(i)
  BY <1>4, <1>5 DEF NewestDone
<1> DEFINE newest == {j \in DoneRows : NewestDone(j)}
<1>7. i \in newest
  BY <1>4, <1>6
<1>8. v \notin UNION {Ends(j) : j \in newest}
  BY Zenon DEF Obsolete
<1> HIDE DEF newest
<1> QED
  BY <1>7, <1>8

\* While a pruning goroutine runs, the newest success stays the newest: the
\* rows that the reconciliation still judges are older.
LEMMA LastDoneStays ==
  ASSUME SelfUpdateInv, Next, NEW p \in pruners, NEW i, LastDone(i)'
  PROVE  LastDone(i)
<1>1. TypeOK /\ ReconFollows /\ PrunersFollow
  BY DEF SelfUpdateInv
<1>2. i \in DOMAIN logs' /\ logs'[i].status = "done"
      /\ \A j \in DOMAIN logs' : logs'[j].status = "done" => j <= i
  BY DEF LastDone
<1>3. i \in DOMAIN logs /\ (logs[i].status = "done" \/ JudgeStuck(i))
  BY <1>2, LogGrows
<1>4. \A j \in DOMAIN logs : logs[j].status = "done" => j <= i
  BY <1>2, LogGrows
<1>5. ~JudgeStuck(i)
  <2> SUFFICES ASSUME JudgeStuck(i) PROVE FALSE
    OBVIOUS
  <2>1. p.id \in DOMAIN logs /\ logs[p.id].status = "done" /\ i < p.id
    BY <1>1, JudgeLog DEF PrunersFollow
  <2>2. p.id \in Nat /\ i \in Nat
    BY <1>1, <1>3, <2>1, RowIsTyped
  <2> QED
    BY <1>4, <2>1, <2>2
<1> QED
  BY <1>3, <1>4, <1>5 DEF LastDone

LEMMA HoldsSpareKept ==
  ASSUME SelfUpdateInv, Next
  PROVE  HoldsSpare'
<1>1. TypeOK /\ HoldsSpare
  BY DEF SelfUpdateInv
<1> SUFFICES ASSUME NEW q \in pruners', NEW i \in DOMAIN logs', LastDone(i)',
                    NEW x \in q.todo
             PROVE  x[2] \notin Ends(i)'
  BY DEF HoldsSpare
<1>2. PICK p \in pruners : \/ q.todo \subseteq p.todo
                           \/ q.todo = Images \X Obsolete /\ UNCHANGED logs
  BY PrunersAre
<1>3. LastDone(i)
  BY LastDoneStays
<1>4. i \in DOMAIN logs /\ Ends(i)' = Ends(i)
  BY <1>3, LogGrows DEF LastDone, Ends
<1>5. CASE q.todo \subseteq p.todo
  BY <1>1, <1>3, <1>4, <1>5 DEF HoldsSpare
<1>6. CASE q.todo = Images \X Obsolete
  <2>1. x[2] \in Obsolete
    BY <1>6
  <2> QED
    BY <1>1, <1>3, <1>4, <2>1, ObsoleteSpares
<1> QED
  BY <1>2, <1>5, <1>6

\* Only pruning removes images, and only those its list holds.
LEMMA PruneIsSparing ==
  ASSUME SelfUpdateInv, [Next]_vars
  PROVE  \A i \in DOMAIN logs : LastDone(i) =>
           \A x \in images \ images' : x[2] \notin Ends(i)
<1>1. HoldsSpare
  BY DEF SelfUpdateInv
<1>2. \A x \in images \ images' : \E p \in pruners : x \in p.todo
  <2>1. ASSUME NEW p \in pruners, PruneRemove(p)
        PROVE  \A x \in images \ images' : x \in p.todo
    BY <2>1 DEF PruneRemove, RemoveImage
  <2>2. CASE ~\E p \in pruners : PruneRemove(p)
    <3>1. images \subseteq images'
      <4>1. CASE \E w \in Workers : Request(w) \/ Step(w)
        BY <4>1 DEF Request, Step, ReadCheck, CreateLog, BeginFetch, Checkout, Rewrite,
           EnterBuild, Build, BuildOK, BuildFails, Mark, Detach, MarkBad, RaiseAlert,
           Release, Enter, KeepHost, host
      <4>2. CASE Calm
        BY <2>2, <4>2 DEF Calm, StoreCheck, Prune, PruneRead, Startup, Boot,
           JudgeStuck, ReconcileAlert, ReconcileRecord, Serve, BringUp, Publish,
           KeepBoot, KeepPruned, KeepHost, host
      <4>3. CASE Fatal
        BY <4>3, FatalForgets
      <4>4. CASE UNCHANGED vars
        BY <4>4 DEF vars, host
      <4> QED
        BY <4>1, <4>2, <4>3, <4>4, ActionsAre
    <3> QED
      BY <3>1
  <2> QED
    BY <2>1, <2>2
<1> QED
  BY <1>1, <1>2 DEF HoldsSpare

-----------------------------------------------------------------------------
(* The script, the working tree and the code that runs.                    *)

\* What calm steps do to the host.
LEMMA CalmHost ==
  ASSUME TypeOK, Calm
  PROVE  /\ UNCHANGED <<tree, file>>
         /\ \/ UNCHANGED <<stack, script>>
            \/ BringUp
         /\ \A k \in {"crash", "strand"} : budget'[k] = budget[k]
         /\ \A k \in Limited : budget'[k] <= budget[k]
<1>1. CASE \E v \in Versions : Publish(v)
  BY <1>1 DEF Publish, Spend, KeepHost, host, TypeOK, Limited
<1>2. CASE ~\E v \in Versions : Publish(v)
  <2>1. UNCHANGED <<budget, tree, file>>
    BY <1>2 DEF Calm, StoreCheck, Prune, PruneRead, PruneRemove, Startup, Boot,
       JudgeStuck, ReconcileAlert, ReconcileRecord, Serve, BringUp, KeepBoot,
       KeepPruned, KeepHost, host
  <2>2. BringUp \/ UNCHANGED <<stack, script>>
    BY <1>2 DEF Calm, StoreCheck, Prune, PruneRead, PruneRemove, Startup, Boot,
       JudgeStuck, ReconcileAlert, ReconcileRecord, Serve, KeepBoot,
       KeepPruned, KeepHost, host
  <2> QED
    BY <2>1, <2>2 DEF TypeOK
<1> QED
  BY <1>1, <1>2

LEMMA ServingBudget ==
  ASSUME TypeOK, OneAtATime, \E w \in Workers : Request(w) \/ Step(w)
  PROVE  /\ \A k \in {"crash", "strand"} : budget'[k] = budget[k]
         /\ \A k \in Limited : budget'[k] <= budget[k]
<1>1. ASSUME NEW w \in Workers, Request(w)
      PROVE  /\ budget' = [budget EXCEPT !["request"] = @ - 1]
  BY <1>1, RequestIs
<1>2. ASSUME NEW w \in Workers, Step(w) PROVE budget' = budget
  BY <1>2, StepMoves DEF Moves
<1>3. \A k \in Limited : budget[k] \in Nat
  BY DEF TypeOK
<1> QED
  BY <1>1, <1>2, <1>3 DEF TypeOK, Limited

LEMMA ScriptFollowsKept ==
  ASSUME SelfUpdateInv, Next
  PROVE  ScriptFollows'
<1>1. TypeOK /\ OneAtATime /\ ScriptFollows
  BY DEF SelfUpdateInv
<1>2. \A k \in Limited : budget'[k] <= budget[k]
  <2>1. CASE \E w \in Workers : Request(w) \/ Step(w)
    BY <1>1, <2>1, ServingBudget
  <2>2. CASE Calm
    BY <1>1, <2>2, CalmHost
  <2>3. CASE Fatal
    BY <1>1, <2>3, SpendTypes DEF Fatal, Crash, TearDown, Strand, Limited, TypeOK
  <2> QED
    BY <2>1, <2>2, <2>3, ActionsAre
<1>3. \A k \in Limited : budget'[k] <= Budget[k]
  <2>1. \A k \in Limited : budget[k] \in Nat /\ budget'[k] \in Nat /\ Budget[k] \in Nat
    BY NextTypes, BoundsAssumption DEF TypeOK, SelfUpdateInv
  <2> QED
    BY <1>1, <1>2, <2>1 DEF ScriptFollows
<1>4. script' = "torn" => mode' = "down" /\ stack' = NoStack
  <2>1. CASE \E w \in Workers : Request(w) \/ Step(w)
    <3>1. mode = "serving"
      BY <2>1, ServingIsCalm
    <3>2. script # "torn"
      BY <1>1, <3>1 DEF ScriptFollows
    <3> QED
      BY <2>1, <3>2 DEF Request, Step, ReadCheck, CreateLog, BeginFetch, Checkout,
         Rewrite, EnterBuild, Build, Mark, Detach, RestartOK, RestartFails, MarkBad,
         RaiseAlert, Release, Enter, KeepHost, host
  <2>2. CASE BringUp
    BY <2>2 DEF BringUp
  <2>3. CASE Calm /\ UNCHANGED <<stack, script>>
    <3>1. mode = "down" /\ mode' # "down" => stack # NoStack
      BY <2>3 DEF Calm, StoreCheck, Prune, PruneRead, PruneRemove, Startup, Boot,
         JudgeStuck, ReconcileAlert, ReconcileRecord, Serve, BringUp, Publish, KeepBoot,
         KeepPruned, memory
    <3> QED
      BY <1>1, <2>3, <3>1 DEF ScriptFollows
  <2>4. CASE Fatal
    <3>1. mode' = "down" /\ (script' = "torn" => stack' = NoStack)
      BY <1>1, <2>4 DEF Fatal, Crash, TearDown, Strand, Forget, ScriptFollows, KeepHost,
         host
    <3> QED
      BY <3>1
  <2> QED
    BY <1>1, <2>1, <2>2, <2>3, <2>4, ActionsAre, CalmHost
<1> QED
  BY <1>3, <1>4 DEF ScriptFollows

\* A goroutine goes on with its row, or makes a new one.
LEMMA OwnsStays ==
  ASSUME TypeOK, NEW w \in Workers, Step(w), Owns(w)'
  PROVE  (Owns(w) /\ job'[w].log = job[w].log) \/ job'[w].log \notin DOMAIN logs
<1>1. job[w] \in Jobs /\ Len(logs) + 1 \notin DOMAIN logs
  BY LenProperties DEF TypeOK
<1>2. CASE CreateLog(w)
  BY <1>1, <1>2 DEF CreateLog, TypeOK, Jobs
<1>3. CASE Build(w)
  BY <1>1, <1>3 DEF Build, At, Owns, TypeOK, Jobs
<1>4. CASE BeginFetch(w) \/ Checkout(w) \/ Rewrite(w) \/ EnterBuild(w) \/ Mark(w)
           \/ Detach(w)
  BY <1>4 DEF BeginFetch, Checkout, Rewrite, EnterBuild, Mark, Detach, Enter, At, Owns
<1>5. CASE ReadCheck(w) \/ MarkBad(w) \/ RaiseAlert(w) \/ Release(w)
  BY <1>5 DEF ReadCheck, MarkBad, RaiseAlert, Release, Enter, Goto, Owns, TypeOK
<1> QED
  BY <1>2, <1>3, <1>4, <1>5 DEF Step

\* Nobody writes a row that was cut off, but the goroutine that owns it.
LEMMA CutOffStays ==
  ASSUME SelfUpdateInv, Next, NEW i, CutOff(i),
         \A w \in Workers : Owns(w) => job[w].log # i
  PROVE  /\ CutOff(i)' /\ i \in DOMAIN logs /\ logs'[i].to = logs[i].to
         /\ \A w \in Workers : Owns(w)' => job'[w].log # i
<1>1. TypeOK /\ OneAtATime /\ OwnsRow /\ ReconFollows
  BY DEF SelfUpdateInv
<1>2. i \in DOMAIN logs /\ logs[i].status \in {"pulling", "failed"}
  BY DEF CutOff
<1>3. CASE \E w \in Workers : Request(w)
  BY <1>1, <1>2, <1>3, RequestIs DEF CutOff, Owns
<1>4. ASSUME NEW w \in Workers, Step(w)
      PROVE  /\ CutOff(i)' /\ logs'[i].to = logs[i].to
             /\ \A v \in Workers : Owns(v)' => job'[v].log # i
  <2>1. /\ i \in DOMAIN logs' /\ logs'[i].status = logs[i].status
        /\ logs'[i].to = logs[i].to
    BY <1>1, <1>2, <1>4, StepLog
  <2>2. \A v \in Workers \ {w} : ~Owns(v)'
    BY <1>1, <1>4, StepMoves, OthersAreIdle DEF Owns
  <2>3. Owns(w)' => job'[w].log # i
    BY <1>1, <1>2, <1>4, OwnsStays
  <2> QED
    BY <1>2, <2>1, <2>2, <2>3 DEF CutOff
<1>5. CASE Calm
  <2>1. /\ i \in DOMAIN logs' /\ logs'[i].status = logs[i].status
        /\ logs'[i].to = logs[i].to
    BY <1>1, <1>2, <1>5, CalmLog, JudgeLog
  <2> QED
    BY <1>2, <1>5, <2>1, CalmKeepsWorkers DEF CutOff, Owns
<1>6. CASE Fatal
  BY <1>2, <1>6, FatalForgets DEF CutOff, Owns, tables
<1> QED
  BY <1>2, <1>3, <1>4, <1>5, <1>6, ActionsAre

\* The row that explains a working tree apart from the compose file.
MovedTree(i) ==
  /\ CutOff(i) /\ logs[i].to = tree
  /\ \A w \in Workers : Owns(w) /\ job[w].log = i => pc[w] \in {"rewrite", "bad"}

LEMMA TreeIsKnownKept ==
  ASSUME SelfUpdateInv, Next
  PROVE  TreeIsKnown'
<1>1. TypeOK /\ OneAtATime /\ OwnsRow /\ HasStaged /\ TreeIsKnown
  BY DEF SelfUpdateInv
<1> SUFFICES ASSUME tree' # file' PROVE \E i \in DOMAIN logs' : MovedTree(i)'
  BY DEF TreeIsKnown, MovedTree
<1>2. ASSUME UNCHANGED <<tree, file>>,
             \A w \in Workers : Owns(w) => pc[w] \notin {"rewrite", "bad"}
      PROVE  \E i \in DOMAIN logs' : MovedTree(i)'
  <2>1. PICK i \in DOMAIN logs : MovedTree(i)
    BY <1>1, <1>2 DEF TreeIsKnown, MovedTree
  <2>2. \A w \in Workers : Owns(w) => job[w].log # i
    BY <1>2, <2>1 DEF MovedTree
  <2>3. CutOff(i)
    BY <2>1 DEF MovedTree
  <2>4. /\ CutOff(i)' /\ logs'[i].to = logs[i].to
        /\ \A w \in Workers : Owns(w)' => job'[w].log # i
    BY <2>2, <2>3, CutOffStays
  <2>5. MovedTree(i)' /\ i \in DOMAIN logs'
    BY <1>2, <2>1, <2>4 DEF MovedTree, CutOff
  <2> QED
    BY <2>5
<1>3. CASE \E w \in Workers : Request(w)
  BY <1>1, <1>2, <1>3, RequestIs DEF Owns
<1>4. ASSUME NEW w \in Workers, Step(w)
      PROVE  \E i \in DOMAIN logs' : MovedTree(i)'
  <2> DEFINE own == job[w].log
  <2>1. /\ \A v \in Workers \ {w} : pc[v] = "idle"
        /\ \A v \in Workers \ {w} : ~Owns(v) /\ ~Owns(v)'
    BY <1>1, <1>4, StepMoves, OthersAreIdle DEF Owns
  <2>2. CASE Checkout(w) \/ Rewrite(w)
    <3>1. /\ Owns(w) /\ UNCHANGED <<logs, job>> /\ pc[w] \in {"checkout", "rewrite"}
          /\ pc'[w] \in {"rewrite", "enter_build", "bad"}
      BY <1>1, <2>2 DEF Checkout, Rewrite, Owns, At, Goto, KeepTables, tables, TypeOK
    <3>2. PICK k \in DOMAIN logs : logs[k].to = job[w].to /\ logs[k].status = "pulling"
      BY <1>1, <3>1 DEF OwnsRow
    <3>3. ASSUME tree' = job[w].to, pc'[w] \in {"rewrite", "bad"}
          PROVE  \E i \in DOMAIN logs' : MovedTree(i)'
      <4>1. \A v \in Workers : Owns(v)' => pc'[v] \in {"rewrite", "bad"}
        BY <2>1, <3>3
      <4>2. MovedTree(k)' /\ k \in DOMAIN logs'
        BY <3>1, <3>2, <3>3, <4>1 DEF MovedTree, CutOff
      <4> QED
        BY <4>2
    <3>4. CASE Checkout(w)
      <4>1. CASE tree' = job[w].to
        <5>1. pc'[w] \in {"rewrite", "bad"}
          BY <1>1, <3>4 DEF Checkout, Goto, TypeOK
        <5> QED
          BY <3>3, <4>1, <5>1
      <4>2. CASE UNCHANGED <<tree, file>>
        <5>1. pc[w] = "checkout"
          BY <3>4 DEF Checkout, At
        <5> QED
          BY <1>2, <2>1, <4>2, <5>1
      <4> QED
        BY <3>4, <4>1, <4>2 DEF Checkout, CheckoutOK, CheckoutFails
    <3>5. CASE Rewrite(w)
      <4>1. tree' = job[w].to
        BY <1>1, <3>5 DEF Rewrite, At, HasStaged
      <4>2. pc'[w] = "bad"
        BY <1>1, <3>5, <4>1 DEF Rewrite, RewriteOK, Goto, TypeOK
      <4> QED
        BY <3>3, <4>1, <4>2
    <3> QED
      BY <2>2, <3>4, <3>5
  <2>3. CASE EnterBuild(w) \/ Build(w) \/ Mark(w) \/ Detach(w)
    <3>1. pc[w] \in {"enter_build", "build", "mark", "detach"}
      BY <2>3 DEF EnterBuild, Build, Mark, Detach, Enter, At
    <3>2. UNCHANGED <<tree, file>>
      BY <2>3 DEF EnterBuild, Build, Mark, Detach, Enter, KeepHost, host
    <3> QED
      BY <1>1, <3>1, <3>2 DEF HasStaged
  <2>4. CASE MarkBad(w)
    <3>1. /\ pc[w] = "bad" /\ Owns(w) /\ UNCHANGED <<tree, file>> /\ SetStatus(w, "failed")
          /\ pc'[w] = "raise"
      BY <1>1, <2>4 DEF MarkBad, Enter, At, Owns, Goto, TypeOK, KeepHost, host
    <3>2. /\ "failed" \in Statuses /\ \A v \in Workers : ~Owns(v)'
      BY <2>1, <3>1 DEF Statuses, Terminal, Owns
    <3>3. /\ DOMAIN logs' = DOMAIN logs
          /\ \A i \in DOMAIN logs :
               /\ logs'[i].to = logs[i].to
               /\ logs'[i].status = IF i = own THEN "failed" ELSE logs[i].status
      BY <1>1, <3>1, <3>2, StatusIsSet
    <3>4. PICK i \in DOMAIN logs : CutOff(i) /\ logs[i].to = tree
      BY <1>1, <3>1 DEF TreeIsKnown
    <3>5. MovedTree(i)' /\ i \in DOMAIN logs'
      BY <3>1, <3>2, <3>3, <3>4 DEF MovedTree, CutOff
    <3> QED
      BY <3>5
  <2>5. CASE ReadCheck(w) \/ CreateLog(w) \/ BeginFetch(w) \/ RaiseAlert(w) \/ Release(w)
    <3>1. pc[w] \in {"locked", "create", "fetch", "raise", "release"}
      BY <2>5 DEF ReadCheck, CreateLog, BeginFetch, RaiseAlert, Release, Enter, At
    <3>2. UNCHANGED <<tree, file>>
      BY <2>5 DEF ReadCheck, CreateLog, BeginFetch, RaiseAlert, Release, Enter, KeepHost,
         host
    <3> QED
      BY <1>2, <2>1, <3>1, <3>2
  <2> QED
    BY <1>4, <2>2, <2>3, <2>4, <2>5 DEF Step
<1>5. CASE Calm
  <2>1. UNCHANGED <<tree, file, pc, job>>
    BY <1>1, <1>5, CalmHost, CalmKeepsWorkers
  <2>2. PICK i \in DOMAIN logs : MovedTree(i)
    BY <1>1, <2>1 DEF TreeIsKnown, MovedTree
  <2>3. i \in DOMAIN logs' /\ logs'[i].to = logs[i].to /\ logs'[i].status = logs[i].status
    BY <1>1, <1>5, <2>2, CalmLog, JudgeLog DEF MovedTree, CutOff, SelfUpdateInv
  <2>4. MovedTree(i)'
    BY <2>1, <2>2, <2>3 DEF MovedTree, CutOff, Owns
  <2> QED
    BY <2>3, <2>4
<1>6. CASE Fatal
  <2>1. UNCHANGED <<tree, file, logs>> /\ \A w \in Workers : ~Owns(w)'
    BY <1>6, FatalForgets DEF Owns, tables
  <2>2. PICK i \in DOMAIN logs : MovedTree(i)
    BY <1>1, <2>1 DEF TreeIsKnown, MovedTree
  <2>3. MovedTree(i)'
    BY <2>1, <2>2 DEF MovedTree, CutOff
  <2> QED
    BY <2>1, <2>2, <2>3
<1> QED
  BY <1>3, <1>4, <1>5, <1>6, ActionsAre

LEMMA CodeIsKnownKept ==
  ASSUME SelfUpdateInv, Next
  PROVE  CodeIsKnown'
<1>1. TypeOK /\ OneAtATime /\ ScriptFollows /\ TreeIsKnown /\ CodeIsKnown
  BY DEF SelfUpdateInv
<1>2. ASSUME UNCHANGED stack PROVE CodeIsKnown'
  <2> SUFFICES ASSUME stack.code # stack.tag
               PROVE  \E i \in DOMAIN logs' :
                        /\ CutOff(i)' /\ logs'[i].to = stack.code
                        /\ \A w \in Workers : Owns(w)' => job'[w].log # i
    BY <1>2 DEF CodeIsKnown
  <2>1. PICK i \in DOMAIN logs : /\ CutOff(i) /\ logs[i].to = stack.code
                                 /\ \A w \in Workers : Owns(w) => job[w].log # i
    BY <1>1 DEF CodeIsKnown
  <2>2. /\ CutOff(i)' /\ logs'[i].to = logs[i].to
        /\ \A w \in Workers : Owns(w)' => job'[w].log # i
    BY <2>1, CutOffStays
  <2> QED
    BY <2>1, <2>2 DEF CutOff
<1>3. CASE TearDown
  BY <1>3 DEF TearDown, NoStack, CodeIsKnown
<1>4. CASE BringUp
  <2>1. /\ stack'.tag = file /\ stack'.code = tree
        /\ UNCHANGED <<logs, pc, job, tree, file>> /\ script = "torn"
    BY <1>4 DEF BringUp, memory, KeepTables, tables
  <2>2. \A w \in Workers : ~Owns(w) /\ ~Owns(w)'
    BY <1>1, <2>1 DEF ScriptFollows, OneAtATime, Busy, Owns
  <2> QED
    BY <1>1, <2>1, <2>2 DEF TreeIsKnown, CodeIsKnown, CutOff
<1>5. CASE Crash \/ Strand
  BY <1>2, <1>5 DEF Crash, Strand, KeepHost, host
<1>6. CASE \E w \in Workers : Request(w) \/ Step(w)
  BY <1>2, <1>6, ServingIsCalm
<1>7. CASE Calm
  BY <1>1, <1>2, <1>4, <1>7, CalmHost
<1> QED
  BY <1>3, <1>5, <1>6, <1>7, ActionsAre DEF Fatal

LEMMA LastIsThere ==
  ASSUME NEW rows \in Seq(Rows)
  PROVE  rows # <<>> <=> Len(rows) \in DOMAIN rows
BY LenProperties, EmptySeq

\* A row at "restarting" that nobody followed names what the compose file does.
LastRestart == logs # <<>> /\ logs[Len(logs)].status = "restarting"

LEMMA RestartNamesFile ==
  ASSUME SelfUpdateInv, Next, LastRestart'
  PROVE  file' = logs'[Len(logs')].to
<1>1. TypeOK /\ OneAtATime /\ OwnsRow /\ HasStaged /\ ReconFollows
      /\ (LastRestart => file = logs[Len(logs)].to)
  BY DEF SelfUpdateInv, RestartsToFile, LastRestart
<1>2. logs \in Seq(Rows) /\ logs' \in Seq(Rows)
  BY <1>1, NextTypes DEF TypeOK
<1>3. ASSUME UNCHANGED <<logs, file>> PROVE file' = logs'[Len(logs')].to
  BY <1>1, <1>3 DEF LastRestart
<1>4. ASSUME NEW w \in Workers, Step(w) PROVE file' = logs'[Len(logs')].to
  <2>1. CASE CreateLog(w)
    <3> DEFINE r == [from |-> job[w].from, to |-> job[w].to, status |-> "pending"]
    <3>1. logs' = Append(logs, r)
      BY <2>1 DEF CreateLog
    <3>2. Len(logs') = Len(logs) + 1 /\ logs'[Len(logs) + 1] = r
      BY <1>2, <3>1
    <3> QED
      BY <3>2 DEF LastRestart
  <2>2. ASSUME Owns(w), NEW st \in Statuses, SetStatus(w, st), UNCHANGED file,
               st = "restarting" => file = job[w].to
        PROVE  file' = logs'[Len(logs')].to
    <3>1. /\ job[w].log = Len(logs) /\ job[w].log \in DOMAIN logs
          /\ logs[job[w].log].to = job[w].to
      BY <1>1, <2>2 DEF OwnsRow
    <3>2. /\ Len(logs') = Len(logs)
          /\ \A i \in DOMAIN logs :
               /\ logs'[i].to = logs[i].to
               /\ logs'[i].status = IF i = job[w].log THEN st ELSE logs[i].status
      BY <1>1, <2>2, StatusIsSet
    <3>3. logs'[Len(logs')].status = st /\ logs'[Len(logs')].to = job[w].to
      BY <3>1, <3>2
    <3> QED
      BY <2>2, <3>3 DEF LastRestart
  <2>3. CASE BeginFetch(w) \/ EnterBuild(w) \/ MarkBad(w)
    <3>1. Owns(w) /\ UNCHANGED file
          /\ \E st \in Statuses \ {"restarting"} : SetStatus(w, st)
      BY <2>3 DEF BeginFetch, EnterBuild, MarkBad, Enter, At, Owns, Statuses, Terminal,
         KeepHost, host
    <3> QED
      BY <2>2, <3>1
  <2>4. CASE Mark(w)
    <3>1. pc[w] = "mark" /\ Owns(w) /\ UNCHANGED file /\ SetStatus(w, "restarting")
          /\ "restarting" \in Statuses
      BY <2>4 DEF Mark, Enter, At, Owns, Statuses, Terminal, KeepHost, host
    <3>2. file = job[w].to
      BY <1>1, <3>1 DEF HasStaged
    <3> QED
      BY <2>2, <3>1, <3>2
  <2>5. CASE Rewrite(w)
    <3>1. Owns(w) /\ pc[w] = "rewrite" /\ UNCHANGED logs
      BY <2>5 DEF Rewrite, At, Owns, KeepTables, tables
    <3>2. logs[Len(logs)].status = "pulling"
      BY <1>1, <3>1 DEF OwnsRow
    <3> QED
      BY <3>1, <3>2 DEF LastRestart
  <2>6. CASE ReadCheck(w) \/ Checkout(w) \/ Build(w) \/ Detach(w) \/ RaiseAlert(w)
             \/ Release(w)
    BY <1>3, <2>6 DEF ReadCheck, Checkout, Build, Detach, RaiseAlert, Release, KeepTables,
       tables, KeepHost, host
  <2> QED
    BY <1>4, <2>1, <2>3, <2>4, <2>5, <2>6 DEF Step
<1>5. CASE Calm
  <2>1. UNCHANGED file
    BY <1>1, <1>5, CalmHost
  <2>2. ASSUME NEW i \in DOMAIN logs, JudgeStuck(i)
        PROVE  file' = logs'[Len(logs')].to
    <3>1. /\ Len(logs') = Len(logs) /\ DOMAIN logs' = DOMAIN logs
          /\ \A k \in DOMAIN logs :
               logs'[k].to = logs[k].to /\ (k # i => logs'[k].status = logs[k].status)
          /\ logs'[i].status # "restarting"
      BY <1>1, <2>2, JudgeLog
    <3>2. Len(logs) \in DOMAIN logs
      BY <1>2, <3>1, LastIsThere DEF LastRestart
    <3>3. logs # <<>>
      BY <1>2, <3>2, LastIsThere
    <3> QED
      BY <1>1, <2>1, <3>1, <3>2, <3>3 DEF LastRestart
  <2> QED
    BY <1>3, <1>5, <2>1, <2>2, CalmLog
<1>6. CASE \E w \in Workers : Request(w)
  BY <1>1, <1>3, <1>6, RequestIs
<1>7. CASE Fatal
  BY <1>3, <1>7, FatalForgets DEF tables
<1> QED
  BY <1>4, <1>5, <1>6, <1>7, ActionsAre

LEMMA RestartsToFileKept ==
  ASSUME SelfUpdateInv, Next
  PROVE  RestartsToFile'
<1>1. TypeOK /\ OneAtATime /\ ScriptFollows
      /\ (Undisturbed /\ mode # "serving" /\ script # "torn" => stack.tag = file)
  BY DEF SelfUpdateInv, RestartsToFile
<1> SUFFICES ASSUME Undisturbed', mode' # "serving", script' # "torn"
             PROVE  stack'.tag = file'
  BY RestartNamesFile DEF RestartsToFile, LastRestart
<1>2. CASE \E w \in Workers : Request(w) \/ Step(w)
  BY <1>2, ServingIsCalm
<1>3. CASE BringUp
  BY <1>3 DEF BringUp
<1>4. CASE Calm /\ UNCHANGED <<stack, script>>
  BY <1>1, <1>4, CalmHost, CalmKeepsWorkers DEF Undisturbed
<1>5. CASE TearDown
  BY <1>5 DEF TearDown
<1>6. ASSUME NEW k \in {"crash", "strand"}, Spend(k) PROVE FALSE
  <2>1. budget[k] \in Nat /\ Budget[k] \in Nat /\ budget[k] <= Budget[k]
        /\ budget'[k] = budget[k] - 1
    BY <1>1, <1>6, BoundsAssumption DEF Spend, TypeOK, ScriptFollows, Limited
  <2>2. budget'[k] = Budget[k]
    BY DEF Undisturbed
  <2> QED
    BY <2>1, <2>2
<1>7. CASE Crash \/ Strand
  BY <1>6, <1>7 DEF Crash, Strand
<1> QED
  BY <1>1, <1>2, <1>3, <1>4, <1>5, <1>7, ActionsAre, CalmHost DEF Fatal

-----------------------------------------------------------------------------
(* The invariant, and what follows from it.                                *)

LEMMA InitIsSound ==
  ASSUME Init
  PROVE  SelfUpdateInv
<1>1. TypeOK
  <2>1. NoJob \in Jobs /\ NoCheck \in [cur : Maybe, latest : Maybe, has : BOOLEAN]
    BY DEF NoJob, Jobs, NoCheck, Maybe
  <2>2. NoRecon \in [todo : SUBSET Nat, pc : {"next", "raise", "resolve", "record"},
                     log : Nat]
    BY DEF NoRecon
  <2>3. <<>> \in Seq(Rows) /\ Images \X {tree} \subseteq Images \X Maybe
    BY DEF Init, Maybe
  <2>4. [tag |-> tree, code |-> tree] \in [tag : Maybe, code : Maybe]
    BY DEF Init, Maybe
  <2> QED
    BY <2>1, <2>2, <2>3, <2>4, BoundsAssumption DEF Init, TypeOK, PCs, Maybe
<1>2. 1 \in DOMAIN Order
  BY OrderAssumption, LenProperties
<1>3. OneAtATime /\ OwnsRow /\ HasStaged
  BY <1>2 DEF Init, OneAtATime, Busy, OwnsRow, Owns, HasStaged, NoJob
<1>4. ReconFollows /\ PrunersFollow /\ HoldsSpare
  BY DEF Init, ReconFollows, PrunersFollow, HoldsSpare, NoRecon
<1>5. ScriptFollows /\ RestartsToFile
  BY BoundsAssumption DEF Init, ScriptFollows, RestartsToFile, Undisturbed
<1>6. TreeIsKnown /\ CodeIsKnown
  BY DEF Init, TreeIsKnown, CodeIsKnown
<1> QED
  BY <1>1, <1>3, <1>4, <1>5, <1>6 DEF SelfUpdateInv

LEMMA NextIsSound ==
  ASSUME SelfUpdateInv, [Next]_vars
  PROVE  SelfUpdateInv'
<1>1. CASE Next
  <2>1. TypeOK' /\ OneAtATime' /\ OwnsRow' /\ HasStaged'
    BY <1>1, NextTypes, OneAtATimeKept, OwnsRowKept, HasStagedKept DEF SelfUpdateInv
  <2>2. ReconFollows' /\ PrunersFollow' /\ ScriptFollows' /\ HoldsSpare'
    BY <1>1, ReconFollowsKept, PrunersFollowKept, ScriptFollowsKept, HoldsSpareKept
  <2>3. TreeIsKnown' /\ CodeIsKnown' /\ RestartsToFile'
    BY <1>1, TreeIsKnownKept, CodeIsKnownKept, RestartsToFileKept
  <2> QED
    BY <2>1, <2>2, <2>3 DEF SelfUpdateInv
<1>2. CASE UNCHANGED vars
  <2>1. UNCHANGED <<mode, updating, pc, job, recon, pruners, check, logs, alert, tree,
                    file, images, stack, script, upstream, budget>>
    BY <1>2 DEF vars, memory, tables, host
  <2>2. TypeOK' /\ OneAtATime' /\ OwnsRow' /\ HasStaged'
    BY <2>1 DEF SelfUpdateInv, TypeOK, OneAtATime, Busy, OwnsRow, Owns, HasStaged
  <2>3. ReconFollows' /\ PrunersFollow' /\ ScriptFollows' /\ HoldsSpare'
    BY <2>1 DEF SelfUpdateInv, ReconFollows, PrunersFollow, ScriptFollows, HoldsSpare,
       LastDone, Ends
  <2>4. TreeIsKnown' /\ CodeIsKnown' /\ RestartsToFile'
    BY <2>1 DEF SelfUpdateInv, TreeIsKnown, CodeIsKnown, CutOff, Owns, RestartsToFile,
       Undisturbed
  <2> QED
    BY <2>2, <2>3, <2>4 DEF SelfUpdateInv
<1> QED
  BY <1>1, <1>2

LEMMA DoneIsRunning ==
  ASSUME SelfUpdateInv, [Next]_vars
  PROVE  \A i \in DOMAIN logs :
           TurnsDone(i) /\ Undisturbed => stack.tag = logs[i].to \/ i < Len(logs)
<1> SUFFICES ASSUME NEW i \in DOMAIN logs, TurnsDone(i), Undisturbed, ~(i < Len(logs))
             PROVE  stack.tag = logs[i].to
  OBVIOUS
<1>1. TypeOK /\ ReconFollows /\ ScriptFollows /\ RestartsToFile
  BY DEF SelfUpdateInv
<1>2. Next
  BY DEF TurnsDone, vars, tables
<1>3. JudgeStuck(i)
  BY <1>2, LogGrows DEF TurnsDone, SelfUpdateInv
<1>4. mode = "booting" /\ logs[i].status = "restarting"
  BY <1>1, <1>3, JudgeLog
<1>5. i = Len(logs)
  BY <1>1, RowIsTyped
<1>6. logs # <<>> /\ script # "torn"
  BY <1>1, <1>4, <1>5, LastIsThere DEF ScriptFollows, TypeOK
<1> QED
  BY <1>1, <1>4, <1>5, <1>6 DEF RestartsToFile

\* One goroutine works on the stack, writes its own row, and what it leaves
\* behind, and the reconciliation and the pruning make of it, is as
\* SelfUpdateProperties says (engine.go:395, 680-735, 745-800).
THEOREM SelfUpdateIsSound == Spec => []SelfUpdateInv
<1>1. Init => SelfUpdateInv
  BY InitIsSound
<1>2. SelfUpdateInv /\ [Next]_vars => SelfUpdateInv'
  BY NextIsSound
<1> QED
  BY <1>1, <1>2, PTL DEF Spec

\* What runs was built from the tag it is labelled with, unless an attempt
\* moved the working tree under a pending restart and came to nothing
\* (engine.go:700, 710; agent main.go:1301).
THEOREM CodeMatchesTag == Spec => []CoherentOrCutOff
<1>1. SelfUpdateInv => CoherentOrCutOff
  BY DEF SelfUpdateInv, CodeIsKnown, CutOff, CoherentOrCutOff
<1> QED
  BY <1>1, SelfUpdateIsSound, PTL

\* Pruning spares the images of the newest success and of the version before
\* it, whatever happens between its snapshot and its last call
\* (engine.go:787-820).
THEOREM PruningSparesTheNewest == Spec => PruneSpares
<1> DEFINE A == \A i \in DOMAIN logs : LastDone(i) =>
                  \A x \in images \ images' : x[2] \notin Ends(i)
<1>1. SelfUpdateInv /\ [Next]_vars => [A]_vars
  BY PruneIsSparing
<1> QED
  BY <1>1, SelfUpdateIsSound, PTL DEF Spec, PruneSpares

\* A row closed as done names the version that runs, if nothing disturbed the
\* restart and no attempt began after it (engine.go:731, 759-774).
THEOREM DoneMeansRunning == Spec => DoneRunsIt
<1> DEFINE A == \A i \in DOMAIN logs :
                  TurnsDone(i) /\ Undisturbed => stack.tag = logs[i].to \/ i < Len(logs)
<1>1. SelfUpdateInv /\ [Next]_vars => [A]_vars
  BY DoneIsRunning
<1> QED
  BY <1>1, SelfUpdateIsSound, PTL DEF Spec, DoneRunsIt

=============================================================================
