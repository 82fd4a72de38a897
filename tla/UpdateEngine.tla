---------------------------- MODULE UpdateEngine ----------------------------
(***************************************************************************)
(* The update engine of truffels-api (internal/updates/engine.go) with the *)
(* three tables it keeps in SQLite and the containers it drives through    *)
(* the agent.  Goroutines started by the HTTP handlers run ApplyUpdate and *)
(* RollbackService; one more runs the check loop; the process can crash    *)
(* between any two statements and reconciles its log when it starts again. *)
(*                                                                         *)
(* One action is one SQL statement or one call to the agent, so every      *)
(* interleaving of goroutines the code allows is a behaviour.              *)
(*                                                                         *)
(* Versions are opaque.  What a call of the agent answers, and whether a   *)
(* started container turns healthy, is the environment's choice.  Config   *)
(* revisions, audit rows and image pruning are written and never read back *)
(* here, and are left out.  The self-update flow (github_release sources)  *)
(* is not in this module.                                                  *)
(***************************************************************************)
EXTENDS Integers, Sequences, FiniteSets

CONSTANTS
  Registry,     \* the service IDs in registration order (service/registry.go)
  Kind,         \* Kind[s]: "tag", "digest" (floating tag) or "source" (built)
  Dir,          \* Dir[s]: the compose project a service lives in
  Versions,     \* tags, digests or commits
  None,         \* the empty string where a version is expected
  Workers,      \* goroutines of the update, update-all and rollback handlers
  Window,       \* how many logs RollbackService looks back (10 in the code)
  Budget        \* bounds: how many times each of Limited may happen

\* What the world does to the engine, without which nothing would happen.
Limited == {"request", "crash", "publish", "trigger", "dismiss"}

Services == {Registry[i] : i \in DOMAIN Registry}

ASSUME RegistryAssumption == Registry \in Seq(Services) \ {<<>>}
ASSUME KindAssumption == Kind \in [Services -> {"tag", "digest", "source"}]
ASSUME DirAssumption == DOMAIN Dir = Services
ASSUME NoneAssumption == None \notin Versions /\ None \notin Services
ASSUME BoundsAssumption ==
  Window \in Nat /\ Budget \in [Limited -> Nat]

VARIABLES
  mode,      \* the API process: "down", "booting" (reconciling) or "serving"
  updating,  \* Engine.updating: the services whose lock is held
  pc, job,   \* what each goroutine does next, and its local variables
  recon,     \* the local variables of reconcileStuckUpdates
  chk,       \* the check loop: program counter, position, version inspected
  trigger,   \* Engine.triggerCh holds a request
  check,     \* table update_checks: the latest row of each service
  logs,      \* table update_log, by ID
  alert,     \* table alerts: an unresolved update_failed per service
  staged,    \* the version the next `compose up` of the service starts
  cont,      \* the version of the service's container, None if there is none
  upstream,  \* the latest version the upstream registry or forge announces
  budget     \* what remains of Budget

memory == <<updating, pc, job, recon, chk, trigger>>
tables == <<check, logs, alert>>
docker == <<staged, cont>>
vars == <<mode, memory, tables, docker, upstream, budget>>

Maybe == Versions \cup {None}

Statuses == {"pending", "pulling", "building", "restarting",
             "done", "failed", "rolled_back"}
Terminal == {"done", "failed", "rolled_back"}

\* A service with no row in update_checks reads like one with an empty row.
NoCheck == [cur |-> None, latest |-> None, has |-> FALSE]
NoJob == [svc |-> None, op |-> "none", from |-> None, to |-> None,
          log |-> 0, out |-> "failed"]
NoRecon == [todo |-> {}, pc |-> "next", log |-> 0]
ChkOff == [pc |-> "off", pos |-> 1, cur |-> None]

Init ==
  /\ mode = "down"
  /\ updating = {}
  /\ pc = [w \in Workers |-> "idle"]
  /\ job = [w \in Workers |-> NoJob]
  /\ recon = NoRecon
  /\ chk = ChkOff
  /\ trigger = FALSE
  /\ check = [s \in Services |-> NoCheck]
  /\ logs = <<>>
  /\ alert = [s \in Services |-> FALSE]
  /\ staged \in [Services -> Versions]
  /\ cont = staged
  /\ upstream \in [Services -> Versions]
  /\ budget = Budget

Spend(k) == budget[k] > 0 /\ budget' = [budget EXCEPT ![k] = @ - 1]

-----------------------------------------------------------------------------
(* The compose project: the agent maps a service to a directory and runs   *)
(* docker compose on all of it, so siblings go down and come up together.  *)

Siblings(s) == {t \in Services : Dir[t] = Dir[s]}

Gone(s) == [t \in Services |-> IF t \in Siblings(s) THEN None ELSE cont[t]]
Started(s) == [t \in Services |->
                 IF t \in Siblings(s) THEN staged[t] ELSE cont[t]]

\* compose.Down and compose.Up: a failing call may or may not have acted.
DownOK(s) == cont' = Gone(s)
DownFails(s) == cont' \in {cont, Gone(s)}
UpOK(s) == cont' = Started(s)
UpFails(s) == cont' \in {cont, Started(s)}

-----------------------------------------------------------------------------
(* Goroutines of ApplyUpdate and RollbackService.                          *)

Svc(w) == job[w].svc
IsUpdate(w) == job[w].op = "update"

At(w, p) == mode = "serving" /\ pc[w] = p
Goto(w, p) == pc' = [pc EXCEPT ![w] = p]
SetStatus(w, st) == logs' = [logs EXCEPT ![job[w].log].status = st]

\* The worker touches at most its own program counter, job and log row.
KeepEngine == UNCHANGED <<mode, updating, recon, chk, trigger, budget>>
KeepTables == UNCHANGED <<check, alert>>
KeepWorld == UNCHANGED <<docker, upstream>>

\* Slip: the lock is set without being tested.
RequestUntested(w, s, op) ==
  /\ At(w, "idle") /\ Spend("request")
  /\ op = "rollback" => Kind[s] # "digest"
  /\ updating' = updating \cup {s}
  /\ job' = [job EXCEPT ![w] = [NoJob EXCEPT !.svc = s, !.op = op]]
  /\ Goto(w, "locked")
  /\ UNCHANGED <<mode, recon, chk, trigger, tables>> /\ KeepWorld

\* A handler's goroutine takes the service's lock; a second one is refused
\* ("update already in progress") and changes nothing.
Request(w, s, op) ==
  /\ At(w, "idle")
  /\ Spend("request")
  /\ op = "rollback" => Kind[s] # "digest"
  /\ s \notin updating
  /\ updating' = updating \cup {s}
  /\ job' = [job EXCEPT ![w] = [NoJob EXCEPT !.svc = s, !.op = op]]
  /\ Goto(w, "locked")
  /\ UNCHANGED <<mode, recon, chk, trigger, tables>> /\ KeepWorld

\* ApplyUpdate reads the last check and gives up unless it has an update.
ReadCheck(w) ==
  LET c == check[Svc(w)] IN
  /\ At(w, "locked") /\ IsUpdate(w)
  /\ IF c.has
     THEN /\ job' = [job EXCEPT ![w].from = c.cur, ![w].to = c.latest]
          /\ Goto(w, "create")
     ELSE Goto(w, "release") /\ UNCHANGED job
  /\ KeepEngine /\ KeepWorld /\ KeepTables /\ UNCHANGED logs

\* GetUpdateLogs(serviceID, Window): the newest rows of a service.
RowsOf(s) == {i \in DOMAIN logs : logs[i].svc = s}
RecentRows(s) == {i \in RowsOf(s) :
                    Cardinality({j \in RowsOf(s) : j > i}) < Window}

\* RollbackService looks for the newest successful update in the window and
\* goes back to the version it came from.
DoneRows(s) == {i \in RecentRows(s) : logs[i].status = "done"}
NewestDone(s, i) == i \in DoneRows(s) /\ \A j \in DoneRows(s) : j <= i

FindPrevious(w) ==
  /\ At(w, "locked") /\ ~IsUpdate(w)
  /\ \/ \E i \in DOMAIN logs :
          /\ NewestDone(Svc(w), i)
          /\ logs[i].from # None
          /\ job' = [job EXCEPT ![w].to = logs[i].from]
          /\ Goto(w, "compare")
     \/ /\ \A i \in DOMAIN logs : NewestDone(Svc(w), i) => logs[i].from = None
        /\ Goto(w, "release") /\ UNCHANGED job
  /\ KeepEngine /\ KeepWorld /\ KeepTables /\ UNCHANGED logs

\* Slip: the version to go back to is not compared with the current one.
CompareNothing(w) ==
  /\ At(w, "compare")
  /\ job' = [job EXCEPT ![w].from = check[Svc(w)].cur]
  /\ Goto(w, "create")
  /\ KeepEngine /\ KeepWorld /\ KeepTables /\ UNCHANGED logs

\* ... unless the check says that version is the current one.
CompareCurrent(w) ==
  LET cur == check[Svc(w)].cur IN
  /\ At(w, "compare")
  /\ IF cur = job[w].to
     THEN Goto(w, "release") /\ UNCHANGED job
     ELSE /\ job' = [job EXCEPT ![w].from = cur]
          /\ Goto(w, "create")
  /\ KeepEngine /\ KeepWorld /\ KeepTables /\ UNCHANGED logs

\* store.CreateUpdateLog
CreateLog(w) ==
  /\ At(w, "create")
  /\ logs' = Append(logs, [svc |-> Svc(w), from |-> job[w].from,
                           to |-> job[w].to, status |-> "pending"])
  /\ job' = [job EXCEPT ![w].log = Len(logs) + 1]
  /\ Goto(w, "begin")
  /\ KeepEngine /\ KeepWorld /\ KeepTables

\* The row is marked before the slow call: "building" when an update builds.
BeginFetch(w) ==
  /\ At(w, "begin")
  /\ SetStatus(w, IF IsUpdate(w) /\ Kind[Svc(w)] = "source"
                  THEN "building" ELSE "pulling")
  /\ Goto(w, "fetch")
  /\ KeepEngine /\ KeepWorld /\ KeepTables /\ UNCHANGED job

\* Slip: the refusal returns without closing the row.
RefuseSilently(w) ==
  /\ At(w, "fetch") /\ ~IsUpdate(w) /\ Kind[Svc(w)] = "source"
  /\ Goto(w, "release")
  /\ KeepEngine /\ KeepWorld /\ KeepTables /\ UNCHANGED <<job, logs>>

\* Custom builds cannot be rolled back by hand; the row fails, with no alert.
RefuseBuilt(w) ==
  /\ At(w, "fetch") /\ ~IsUpdate(w) /\ Kind[Svc(w)] = "source"
  /\ SetStatus(w, "failed")
  /\ Goto(w, "release")
  /\ KeepEngine /\ KeepWorld /\ KeepTables /\ UNCHANGED job

\* Pull or build.  A floating tag resolves to whatever upstream holds now.
\* A build recompiles the revision the installer pinned or cloned
\* (install.sh:489, install.sh:883), which no step of the engine moves.
Fetch(w) ==
  LET s == Svc(w) IN
  /\ At(w, "fetch") /\ (IsUpdate(w) \/ Kind[s] # "source")
  /\ staged' = IF Kind[s] = "digest"
               THEN [staged EXCEPT ![s] = upstream[s]] ELSE staged
  /\ Goto(w, IF Kind[s] = "tag" THEN "rewrite" ELSE "mark")
  /\ KeepEngine /\ KeepTables /\ UNCHANGED <<job, logs, cont, upstream>>

\* A pull whose answer is lost may have moved the floating tag.
FetchFails(w) ==
  LET s == Svc(w) IN
  /\ At(w, "fetch") /\ (IsUpdate(w) \/ Kind[s] # "source")
  /\ \/ UNCHANGED staged
     \/ Kind[s] = "digest" /\ staged' = [staged EXCEPT ![s] = upstream[s]]
  /\ Goto(w, "bad")
  /\ KeepEngine /\ KeepTables /\ UNCHANGED <<job, logs, cont, upstream>>

\* Slip: the error of the rewrite is ignored, as in rollback().
RewriteIgnored(w) ==
  /\ At(w, "rewrite")
  /\ staged' \in {staged, [staged EXCEPT ![Svc(w)] = job[w].to]}
  /\ Goto(w, "mark")
  /\ KeepEngine /\ KeepTables /\ UNCHANGED <<job, logs, cont, upstream>>

\* compose.RewriteTags: the compose file now names the new tag.  A call that
\* fails may have written it all the same, if only its answer was lost.
Rewrite(w) ==
  LET new == [staged EXCEPT ![Svc(w)] = job[w].to] IN
  /\ At(w, "rewrite")
  /\ \/ staged' = new /\ Goto(w, "mark")
     \/ staged' \in {staged, new} /\ Goto(w, "bad")
  /\ KeepEngine /\ KeepTables /\ UNCHANGED <<job, logs, cont, upstream>>

Mark(w) ==
  /\ At(w, "mark")
  /\ SetStatus(w, "restarting")
  /\ Goto(w, "down")
  /\ KeepEngine /\ KeepWorld /\ KeepTables /\ UNCHANGED job

\* A failing Down ends an update and is ignored by a manual rollback.
Down(w) ==
  /\ At(w, "down")
  /\ \/ DownOK(Svc(w)) /\ Goto(w, "up")
     \/ DownFails(Svc(w)) /\ Goto(w, IF IsUpdate(w) THEN "bad" ELSE "up")
  /\ KeepEngine /\ KeepTables /\ UNCHANGED <<job, logs, staged, upstream>>

\* Where a failed start or a bad health verdict leads: only an update of a
\* service without a floating tag is rolled back, and only a tag is reverted.
AfterTrouble(w) ==
  CASE ~IsUpdate(w) \/ Kind[Svc(w)] = "digest" -> "bad"
    [] IsUpdate(w) /\ Kind[Svc(w)] = "tag" -> "revert"
    [] OTHER -> "revert_down"

Up(w) ==
  /\ At(w, "up")
  /\ \/ UpOK(Svc(w)) /\ Goto(w, "health")
     \/ UpFails(Svc(w)) /\ Goto(w, AfterTrouble(w))
  /\ KeepEngine /\ KeepTables /\ UNCHANGED <<job, logs, staged, upstream>>

\* checkHealth after healthWait: every container exists, runs and is not
\* unhealthy.  Nothing compares the version that runs.
MayBeHealthy(s) == cont[s] # None

CheckHealth(w) ==
  /\ At(w, "health")
  /\ \/ MayBeHealthy(Svc(w)) /\ Goto(w, "done")
     \/ Goto(w, AfterTrouble(w))
  /\ KeepEngine /\ KeepWorld /\ KeepTables /\ UNCHANGED <<job, logs>>

\* rollback(): an error of the rewrite, Down or Up is at most logged.
Revert(w) ==
  /\ At(w, "revert")
  /\ staged' \in {staged, [staged EXCEPT ![Svc(w)] = job[w].from]}
  /\ Goto(w, "revert_down")
  /\ KeepEngine /\ KeepTables /\ UNCHANGED <<job, logs, cont, upstream>>

RevertDown(w) ==
  /\ At(w, "revert_down")
  /\ DownFails(Svc(w))
  /\ Goto(w, "revert_up")
  /\ KeepEngine /\ KeepTables /\ UNCHANGED <<job, logs, staged, upstream>>

\* Slip: the old version must pass the health check too.
RevertUpChecked(w) ==
  /\ At(w, "revert_up")
  /\ UpFails(Svc(w))
  /\ job' = [job EXCEPT ![w].out = "rolled_back"]
  /\ Goto(w, "health")
  /\ KeepEngine /\ KeepTables /\ UNCHANGED <<logs, staged, upstream>>

RevertUp(w) ==
  /\ At(w, "revert_up")
  /\ UpFails(Svc(w))
  /\ job' = [job EXCEPT ![w].out = "rolled_back"]
  /\ Goto(w, "bad")
  /\ KeepEngine /\ KeepTables /\ UNCHANGED <<logs, staged, upstream>>

\* The failure exits: the row, then the alert, then the deferred unlock.
MarkBad(w) ==
  /\ At(w, "bad")
  /\ SetStatus(w, job[w].out)
  /\ Goto(w, "raise")
  /\ KeepEngine /\ KeepWorld /\ KeepTables /\ UNCHANGED job

RaiseAlert(w) ==
  /\ At(w, "raise")
  /\ alert' = [alert EXCEPT ![Svc(w)] = TRUE]
  /\ Goto(w, "release")
  /\ KeepEngine /\ KeepWorld /\ UNCHANGED <<job, logs, check>>

\* Slip: success leaves the alert of an earlier failure.
MarkDoneOnly(w) ==
  /\ At(w, "done")
  /\ SetStatus(w, "done")
  /\ Goto(w, "record")
  /\ KeepEngine /\ KeepWorld /\ KeepTables /\ UNCHANGED job

\* The success exit: the row, the alert, the check, the unlock.
MarkDone(w) ==
  /\ At(w, "done")
  /\ SetStatus(w, "done")
  /\ Goto(w, "resolve")
  /\ KeepEngine /\ KeepWorld /\ KeepTables /\ UNCHANGED job

ResolveAlert(w) ==
  /\ At(w, "resolve")
  /\ alert' = [alert EXCEPT ![Svc(w)] = FALSE]
  /\ Goto(w, "record")
  /\ KeepEngine /\ KeepWorld /\ UNCHANGED <<job, logs, check>>

\* An update records that nothing is pending; a manual rollback records the
\* version it left as the update on offer.
Record(w) ==
  LET j == job[w] IN
  /\ At(w, "record")
  /\ check' = [check EXCEPT ![j.svc] =
                 IF IsUpdate(w)
                 THEN [cur |-> j.to, latest |-> j.to, has |-> FALSE]
                 ELSE [cur |-> j.to, latest |-> j.from, has |-> TRUE]]
  /\ Goto(w, "release")
  /\ KeepEngine /\ KeepWorld /\ UNCHANGED <<job, logs, alert>>

Release(w) ==
  /\ At(w, "release")
  /\ updating' = updating \ {Svc(w)}
  /\ job' = [job EXCEPT ![w] = NoJob]
  /\ Goto(w, "idle")
  /\ UNCHANGED <<mode, recon, chk, trigger, tables, budget>> /\ KeepWorld

\* What a goroutine that holds a lock does next.
Step(w) ==
  \/ ReadCheck(w) \/ FindPrevious(w) \/ CompareCurrent(w)
  \/ CreateLog(w) \/ BeginFetch(w) \/ RefuseBuilt(w)
  \/ Fetch(w) \/ FetchFails(w) \/ Rewrite(w) \/ Mark(w)
  \/ Down(w) \/ Up(w) \/ CheckHealth(w)
  \/ Revert(w) \/ RevertDown(w) \/ RevertUp(w)
  \/ MarkBad(w) \/ RaiseAlert(w)
  \/ MarkDone(w) \/ ResolveAlert(w) \/ Record(w)
  \/ Release(w)

-----------------------------------------------------------------------------
(* The check loop.                                                         *)

Checking == chk.pc \in {"inspect", "fallback", "store"}
Checked == Registry[chk.pos]

KeepWorkers == UNCHANGED <<mode, updating, pc, job, recon, budget>>

\* handleCheckUpdates: a non-blocking send on a channel of capacity one.
TriggerCheck ==
  /\ mode = "serving" /\ Spend("trigger")
  /\ trigger' = TRUE
  /\ UNCHANGED <<mode, updating, pc, job, recon>> /\ KeepWorld /\ UNCHANGED <<chk, tables>>

\* One turn of loop(): the ticker (or the first check), while enabled, or a
\* trigger, which runs the checks whether enabled or not.
StartCheck ==
  /\ mode = "serving" /\ chk.pc = "idle"
  /\ chk' = [pc |-> "inspect", pos |-> 1, cur |-> None]
  /\ KeepWorkers /\ KeepWorld /\ UNCHANGED tables

Tick == StartCheck /\ UNCHANGED trigger
TakeTrigger == trigger /\ StartCheck /\ trigger' = FALSE

\* Slip: the loop over the registry starts over.
NextServiceWraps == [pc |-> "inspect", cur |-> None,
                     pos |-> IF chk.pos < Len(Registry) THEN chk.pos + 1 ELSE 1]

\* The next service of the registry, or the end of checkAll.
NextService == IF chk.pos < Len(Registry)
               THEN [pc |-> "inspect", pos |-> chk.pos + 1, cur |-> None]
               ELSE [pc |-> "idle", pos |-> 1, cur |-> None]

\* ImageInspect fails without a container; a digest is that of the local
\* image of the tag, a commit cannot be read off an image at all.
Inspected(s) ==
  CASE Kind[s] = "source" \/ cont[s] = None -> None
    [] Kind[s] = "digest" /\ cont[s] # None -> staged[s]
    [] OTHER -> cont[s]

\* Slip: what the table says wins over what the container runs.
InspectTable(s) ==
  LET v == IF check[s].cur # None THEN check[s].cur ELSE Inspected(s) IN
  /\ mode = "serving" /\ chk.pc = "inspect" /\ Checked = s
  /\ chk' = [chk EXCEPT !.cur = v,
                        !.pc = IF v = None THEN "fallback" ELSE "store"]
  /\ KeepWorkers /\ KeepWorld /\ UNCHANGED <<trigger, tables>>

Inspect(s) ==
  /\ mode = "serving" /\ chk.pc = "inspect" /\ Checked = s
  /\ chk' = [chk EXCEPT !.cur = Inspected(s),
                        !.pc = IF Inspected(s) = None THEN "fallback" ELSE "store"]
  /\ KeepWorkers /\ KeepWorld /\ UNCHANGED <<trigger, tables>>

InspectFails ==
  /\ mode = "serving" /\ chk.pc = "inspect"
  /\ chk' = [chk EXCEPT !.pc = "fallback"]
  /\ KeepWorkers /\ KeepWorld /\ UNCHANGED <<trigger, tables>>

\* Slip: a service without a container is forgotten with its last version.
FallbackForgets ==
  /\ mode = "serving" /\ chk.pc = "fallback"
  /\ check' = [check EXCEPT ![Checked] = NoCheck]
  /\ chk' = NextService
  /\ KeepWorkers /\ KeepWorld /\ UNCHANGED <<trigger, alert, logs>>

\* The version last recorded, except for a digest; with none at all the row
\* is deleted and the service skipped.
Fallback ==
  LET v == IF Kind[Checked] = "digest" THEN None ELSE check[Checked].cur IN
  /\ mode = "serving" /\ chk.pc = "fallback"
  /\ IF v = None /\ Kind[Checked] # "source"
     THEN /\ check' = [check EXCEPT ![Checked] = NoCheck]
          /\ chk' = NextService
     ELSE /\ chk' = [chk EXCEPT !.pc = "store", !.cur = v]
          /\ UNCHANGED check
  /\ KeepWorkers /\ KeepWorld /\ UNCHANGED <<trigger, alert, logs>>

\* CheckLatestVersion and the upsert of what it found; a first check of a
\* commit-based source takes the latest commit for the current one.
Verdict(cur, latest) ==
  [cur |-> cur, latest |-> latest,
   has |-> cur # None /\ latest # None /\ cur # latest]

StoreCheck ==
  LET known == chk.cur
      head == upstream[Checked]
  IN
  /\ mode = "serving" /\ chk.pc = "store"
  /\ \/ check' = [check EXCEPT ![Checked] =
                    Verdict(IF known = None THEN head ELSE known, head)]
     \/ check' = [check EXCEPT ![Checked] = 
                    [cur |-> known, latest |-> None, has |-> FALSE]]
  /\ chk' = NextService
  /\ KeepWorkers /\ KeepWorld /\ UNCHANGED <<trigger, alert, logs>>

Checker ==
  \/ Tick \/ TakeTrigger
  \/ \E s \in Services : Inspect(s)
  \/ InspectFails \/ Fallback \/ StoreCheck

-----------------------------------------------------------------------------
(* The process: crash, start, reconcileStuckUpdates.                       *)

\* All of the process's memory goes; SQLite and the containers stay.
Crash ==
  /\ mode # "down" /\ Spend("crash")
  /\ mode' = "down"
  /\ updating' = {}
  /\ pc' = [w \in Workers |-> "idle"]
  /\ job' = [w \in Workers |-> NoJob]
  /\ recon' = NoRecon
  /\ chk' = ChkOff
  /\ trigger' = FALSE
  /\ UNCHANGED tables /\ KeepWorld

KeepReconciled == UNCHANGED <<mode, updating, pc, job, chk, trigger, budget>>

\* Slip: no open row is taken for an interrupted restart.
BootNone ==
  /\ mode = "down"
  /\ mode' = "booting"
  /\ recon' = NoRecon
  /\ UNCHANGED <<updating, pc, job, chk, trigger, tables, budget>>
  /\ KeepWorld

\* Engine.Start runs before the HTTP server listens.
Boot ==
  /\ mode = "down"
  /\ mode' = "booting"
  /\ recon' = [NoRecon EXCEPT !.todo =
                 {i \in DOMAIN logs : logs[i].status = "restarting"}]
  /\ UNCHANGED <<updating, pc, job, chk, trigger, tables, budget>>
  /\ KeepWorld

\* After the wait, newest row first: a healthy service is taken as updated,
\* another as failed.
JudgeStuck(i) ==
  /\ mode = "booting" /\ recon.pc = "next"
  /\ i \in recon.todo /\ \A j \in recon.todo : j <= i
  /\ \/ /\ MayBeHealthy(logs[i].svc)
        /\ logs' = [logs EXCEPT ![i].status = "done"]
        /\ recon' = [todo |-> recon.todo \ {i}, pc |-> "resolve", log |-> i]
     \/ /\ logs' = [logs EXCEPT ![i].status = "failed"]
        /\ recon' = [todo |-> recon.todo \ {i}, pc |-> "raise", log |-> i]
  /\ KeepReconciled /\ KeepWorld /\ UNCHANGED <<check, alert>>

ReconcileAlert ==
  LET s == logs[recon.log].svc IN
  /\ mode = "booting"
  /\ \/ /\ recon.pc = "raise"
        /\ alert' = [alert EXCEPT ![s] = TRUE]
        /\ recon' = [recon EXCEPT !.pc = "next"]
     \/ /\ recon.pc = "resolve"
        /\ alert' = [alert EXCEPT ![s] = FALSE]
        /\ recon' = [recon EXCEPT !.pc = "record"]
  /\ KeepReconciled /\ KeepWorld /\ UNCHANGED <<check, logs>>

ReconcileRecord ==
  LET l == logs[recon.log] IN
  /\ mode = "booting" /\ recon.pc = "record"
  /\ check' = [check EXCEPT ![l.svc] =
                 [cur |-> l.to, latest |-> l.to, has |-> FALSE]]
  /\ recon' = [recon EXCEPT !.pc = "next"]
  /\ KeepReconciled /\ KeepWorld /\ UNCHANGED <<alert, logs>>

Serve ==
  /\ mode = "booting" /\ recon.pc = "next" /\ recon.todo = {}
  /\ mode' = "serving"
  /\ recon' = NoRecon
  /\ chk' = [ChkOff EXCEPT !.pc = "idle"]
  /\ UNCHANGED <<updating, pc, job, trigger, tables, budget>> /\ KeepWorld

Startup ==
  \/ Boot \/ ReconcileAlert \/ ReconcileRecord \/ Serve
  \/ \E i \in DOMAIN logs : JudgeStuck(i)

-----------------------------------------------------------------------------
(* The rest of the world: upstream publishes; other handlers, the alert    *)
(* engine and the operator start and stop services, with no look at the    *)
(* update lock.  Stopping or restarting containers in place changes none   *)
(* of them, and no step here depends on it.                                *)

KeepProcess == UNCHANGED <<mode, memory, tables, budget>>

Publish(s, v) ==
  /\ upstream[s] # v /\ Spend("publish")
  /\ upstream' = [upstream EXCEPT ![s] = v]
  /\ UNCHANGED <<mode, memory, tables, docker>>

ServiceUp(s) == UpOK(s) /\ KeepProcess /\ UNCHANGED <<staged, upstream>>
ServiceDown(s) == DownOK(s) /\ KeepProcess /\ UNCHANGED <<staged, upstream>>

\* The pull-restart action of the services page pulls, then starts, and takes
\* no lock; of the versions, it moves only what a floating tag resolves to.
PullRestart(s) ==
  /\ Kind[s] = "digest" /\ cont[s] # None
  /\ staged' = [staged EXCEPT ![s] = upstream[s]]
  /\ KeepProcess /\ UNCHANGED <<cont, upstream>>

\* handleResolveAlert: the user dismisses the alert.
Dismiss(s) ==
  /\ mode = "serving" /\ Spend("dismiss")
  /\ alert' = [alert EXCEPT ![s] = FALSE]
  /\ UNCHANGED <<mode, memory, check, logs>> /\ KeepWorld

World == \E s \in Services :
  \/ ServiceUp(s) \/ ServiceDown(s) \/ PullRestart(s) \/ Dismiss(s)
  \/ \E v \in Versions : Publish(s, v)

Requests == \E w \in Workers, s \in Services, op \in {"update", "rollback"} :
  Request(w, s, op)

Next ==
  \/ Requests
  \/ \E w \in Workers : Step(w)
  \/ TriggerCheck \/ Checker
  \/ Crash \/ Startup
  \/ World

\* Goroutines are scheduled and every call of the agent has a timeout; the
\* container of the API restarts "unless-stopped"; the ticker fires.  The
\* select of loop() picks among its ready channels at random, so it cannot
\* pass a trigger by for ever; and the agent is not unreachable for ever.
Fairness ==
  /\ \A w \in Workers : WF_vars(Step(w))
  /\ WF_vars(Checker)
  /\ SF_vars(TakeTrigger)
  /\ \A s \in Services : SF_vars(Inspect(s))
  /\ WF_vars(Startup)

Spec == Init /\ [][Next]_vars /\ Fairness
=============================================================================
