------------------------------ MODULE SelfUpdate ------------------------------
(***************************************************************************)
(* truffels updates itself: applySelfUpdate of the update engine checks a  *)
(* tag out, rewrites the compose file, builds three images and asks the    *)
(* agent for a detached restart, which kills the agent, the API and every  *)
(* goroutine in it; the API that comes up closes the row it finds, and     *)
(* prunes old images in the background.                                    *)
(*                                                                         *)
(* One action is one SQL statement or one call to the agent.  The script   *)
(* of the restart runs on the host, outlives the containers, and takes     *)
(* whatever the working tree and the compose file hold when it builds.     *)
(* Versions are opaque; what a call answers is the environment's choice.   *)
(* Config revisions and audit rows are written and never read back here.   *)
(***************************************************************************)
EXTENDS Integers, Sequences, FiniteSets

CONSTANTS
  Versions,    \* release tags
  None,        \* the empty string where a version is expected
  Order,       \* the images of the stack in the order they are built
  Workers,     \* goroutines of the update handlers
  PruneWindow, \* how many rows pruneOldImages looks back (20 in the code)
  Budget       \* bounds: how many times each of Limited may happen

\* "strand": the host loses the script half way, or its build fails.
Limited == {"request", "crash", "publish", "strand"}
Images == {Order[i] : i \in DOMAIN Order}

ASSUME OrderAssumption == Order \in Seq(Images) \ {<<>>}
ASSUME NoneAssumption == None \notin Versions
ASSUME BoundsAssumption ==
  PruneWindow \in Nat \ {0} /\ Budget \in [Limited -> Nat]

VARIABLES
  mode,      \* the API process: "down", "booting" (reconciling) or "serving"
  updating,  \* Engine.updating holds "truffels"
  pc, job,   \* what each goroutine does next, and its local variables
  recon,     \* the local variables of reconcileStuckUpdates
  pruners,   \* the goroutines of pruneOldImages
  check,     \* the row of truffels in update_checks
  logs,      \* the rows of truffels in update_log, by ID
  alert,     \* an unresolved update_failed alert of truffels
  tree,      \* the tag checked out in /repo
  file,      \* the tag the compose file names, images and VERSION alike
  images,    \* <<image, tag>>: the images docker holds
  stack,     \* the containers: their tag and the code in them, or NoStack
  script,    \* the transient unit on the host: "none", "asleep" or "torn"
  upstream,  \* the release the channel announces
  budget     \* what remains of Budget

memory == <<updating, pc, job, recon, pruners>>
tables == <<check, logs, alert>>
host == <<tree, file, images, stack, script>>
vars == <<mode, memory, tables, host, upstream, budget>>

Maybe == Versions \cup {None}
Terminal == {"done", "failed"}
Statuses == {"pending", "pulling", "building", "restarting"} \cup Terminal

NoCheck == [cur |-> None, latest |-> None, has |-> FALSE]
NoJob == [from |-> None, to |-> None, log |-> 0, next |-> 1]
NoRecon == [todo |-> {}, pc |-> "next", log |-> 0]
NoStack == [tag |-> None, code |-> None]

\* An installed node: everything is of one version, and the API serves it.
Init ==
  /\ mode = "serving"
  /\ updating = FALSE
  /\ pc = [w \in Workers |-> "idle"]
  /\ job = [w \in Workers |-> NoJob]
  /\ recon = NoRecon
  /\ pruners = {}
  /\ check = NoCheck
  /\ logs = <<>>
  /\ alert = FALSE
  /\ tree \in Versions
  /\ file = tree
  /\ images = Images \X {tree}
  /\ stack = [tag |-> tree, code |-> tree]
  /\ script = "none"
  /\ upstream \in Versions
  /\ budget = Budget

Spend(k) == budget[k] > 0 /\ budget' = [budget EXCEPT ![k] = @ - 1]

-----------------------------------------------------------------------------
(* The calls of the agent.  A call that answers an error, or whose answer  *)
(* is lost, may have acted all the same.                                   *)

CheckoutOK(t) == tree' = t
CheckoutFails(t) == tree' \in {tree, t}

RewriteOK(t) == file' = t
RewriteFails(t) == file' \in {file, t}

BuildOK(i) == images' = images \cup {<<i, file>>}
BuildFails(i) == images' \in {images, images \cup {<<i, file>>}}

\* The unit of an earlier request is stopped, wherever its script is.
RestartOK == script' = "asleep"
RestartFails == script' \in {script, "none", "asleep"}

\* docker rmi refuses an image that a container uses; the agent answers ok.
RemoveImage(x) ==
  images' \in {images, IF x[2] = stack.tag THEN images ELSE images \ {x}}

-----------------------------------------------------------------------------
(* ApplyUpdate and applySelfUpdate.                                        *)

At(w, p) == mode = "serving" /\ pc[w] = p
Goto(w, p) == pc' = [pc EXCEPT ![w] = p]
SetStatus(w, st) == logs' = [logs EXCEPT ![job[w].log].status = st]

KeepEngine == UNCHANGED <<mode, updating, recon, pruners, upstream, budget>>
KeepTables == UNCHANGED tables
KeepHost == UNCHANGED host

\* Slip: the lock is taken whether or not it is held.
RequestAnyway(w) ==
  /\ At(w, "idle") /\ Spend("request")
  /\ updating' = TRUE
  /\ Goto(w, "locked")
  /\ UNCHANGED <<mode, job, recon, pruners, upstream>> /\ KeepTables /\ KeepHost

\* A second request is refused while the lock is held.
Request(w) ==
  /\ At(w, "idle") /\ Spend("request")
  /\ ~updating /\ updating' = TRUE
  /\ Goto(w, "locked")
  /\ UNCHANGED <<mode, job, recon, pruners, upstream>> /\ KeepTables /\ KeepHost

ReadCheck(w) ==
  /\ At(w, "locked")
  /\ IF check.has
     THEN /\ job' = [job EXCEPT ![w].from = check.cur, ![w].to = check.latest]
          /\ Goto(w, "create")
     ELSE Goto(w, "release") /\ UNCHANGED job
  /\ KeepEngine /\ KeepTables /\ KeepHost

CreateLog(w) ==
  /\ At(w, "create")
  /\ logs' = Append(logs, [from |-> job[w].from, to |-> job[w].to,
                           status |-> "pending"])
  /\ job' = [job EXCEPT ![w].log = Len(logs) + 1]
  /\ Goto(w, "fetch")
  /\ KeepEngine /\ KeepHost /\ UNCHANGED <<check, alert>>

Enter(w, at, st, to) ==
  /\ At(w, at) /\ SetStatus(w, st) /\ Goto(w, to)
  /\ KeepEngine /\ KeepHost /\ UNCHANGED <<job, check, alert>>

BeginFetch(w) == Enter(w, "fetch", "pulling", "checkout")

Checkout(w) ==
  LET t == job[w].to IN
  /\ At(w, "checkout")
  /\ \/ CheckoutOK(t) /\ Goto(w, "rewrite")
     \/ CheckoutFails(t) /\ Goto(w, "bad")
  /\ KeepEngine /\ KeepTables /\ UNCHANGED <<job, file, images, stack, script>>

\* Slip: the compose file is left to the detached restart.
RewriteLater(w) ==
  /\ At(w, "rewrite")
  /\ Goto(w, "enter_build")
  /\ KeepEngine /\ KeepTables /\ KeepHost /\ UNCHANGED job

\* Before the builds, so that they make images of the new tag.
Rewrite(w) ==
  LET t == job[w].to IN
  /\ At(w, "rewrite")
  /\ \/ RewriteOK(t) /\ Goto(w, "enter_build")
     \/ RewriteFails(t) /\ Goto(w, "bad")
  /\ KeepEngine /\ KeepTables /\ UNCHANGED <<job, tree, images, stack, script>>

EnterBuild(w) == Enter(w, "enter_build", "building", "build")

Build(w) ==
  LET i == job[w].next IN
  /\ At(w, "build")
  /\ \/ /\ BuildOK(Order[i])
        /\ job' = [job EXCEPT ![w].next = i + 1]
        /\ Goto(w, IF i = Len(Order) THEN "mark" ELSE "build")
     \/ BuildFails(Order[i]) /\ Goto(w, "bad") /\ UNCHANGED job
  /\ KeepEngine /\ KeepTables /\ UNCHANGED <<tree, file, stack, script>>

\* Slip: the row is closed at once instead of by the next process.
MarkDone(w) == Enter(w, "mark", "done", "detach")

Mark(w) == Enter(w, "mark", "restarting", "detach")

\* The last step: the lock is released while the row says "restarting".
Detach(w) ==
  /\ At(w, "detach")
  /\ \/ RestartOK /\ Goto(w, "release")
     \/ RestartFails /\ Goto(w, "bad")
  /\ KeepEngine /\ KeepTables /\ UNCHANGED <<job, tree, file, images, stack>>

\* Every failure exit: the row, then the alert.  Nothing is undone.
MarkBad(w) == Enter(w, "bad", "failed", "raise")

RaiseAlert(w) ==
  /\ At(w, "raise")
  /\ alert' = TRUE
  /\ Goto(w, "release")
  /\ KeepEngine /\ KeepHost /\ UNCHANGED <<job, check, logs>>

Release(w) ==
  /\ At(w, "release")
  /\ updating' = FALSE
  /\ job' = [job EXCEPT ![w] = NoJob]
  /\ Goto(w, "idle")
  /\ UNCHANGED <<mode, recon, pruners, upstream, budget>> /\ KeepTables /\ KeepHost

Step(w) ==
  \/ ReadCheck(w) \/ CreateLog(w) \/ BeginFetch(w) \/ Checkout(w)
  \/ Rewrite(w) \/ EnterBuild(w) \/ Build(w) \/ Mark(w) \/ Detach(w)
  \/ MarkBad(w) \/ RaiseAlert(w) \/ Release(w)

-----------------------------------------------------------------------------
(* The check of truffels: the tag of the agent's container, or the version *)
(* last recorded, against the release its channel announces.               *)

Verdict(cur, latest) ==
  [cur |-> cur, latest |-> latest,
   has |-> cur # None /\ latest # None /\ cur # latest]

StoreCheck ==
  /\ mode = "serving"
  /\ \E cur \in {stack.tag, check.cur} :
       IF cur = None
       THEN check' = NoCheck
       ELSE check' \in {Verdict(cur, upstream), [Verdict(cur, None) EXCEPT !.has = FALSE]}
  /\ UNCHANGED <<mode, memory, logs, alert, upstream, budget>> /\ KeepHost

-----------------------------------------------------------------------------
(* The process and the host.                                               *)

Forget ==
  /\ mode' = "down"
  /\ updating' = FALSE
  /\ pc' = [w \in Workers |-> "idle"]
  /\ job' = [w \in Workers |-> NoJob]
  /\ recon' = NoRecon
  /\ pruners' = {}

Crash ==
  /\ mode # "down" /\ Spend("crash")
  /\ Forget
  /\ UNCHANGED <<upstream, tables>> /\ KeepHost

\* Slip: the script runs in a container that it takes down.
TearDownInside ==
  /\ script = "asleep" /\ script' = "none"
  /\ stack' = NoStack
  /\ Forget
  /\ UNCHANGED <<tree, file, images, upstream, budget>> /\ KeepTables

\* The script: down, with which the API dies, then up with a fresh build.
TearDown ==
  /\ script = "asleep" /\ script' = "torn"
  /\ stack' = NoStack
  /\ Forget
  /\ UNCHANGED <<tree, file, images, upstream, budget>> /\ KeepTables

BringUp ==
  /\ script = "torn" /\ script' = "none"
  /\ images' = images \cup Images \X {file}
  /\ stack' = [tag |-> file, code |-> tree]
  /\ UNCHANGED <<mode, memory, tree, file, upstream, budget>> /\ KeepTables

\* The build of the script fails, or the host restarts under it: a stack that
\* is down stays down, and one that still runs restarts with its API.
Strand ==
  /\ script # "none" /\ script' = "none" /\ Spend("strand")
  /\ Forget
  /\ UNCHANGED <<tree, file, images, stack, upstream>> /\ KeepTables

\* Slip: the API serves without looking at the log.
BootBlind ==
  /\ mode = "down" /\ stack # NoStack
  /\ mode' = "booting"
  /\ recon' = NoRecon
  /\ UNCHANGED <<updating, pc, job, pruners, upstream, budget>>
  /\ KeepTables /\ KeepHost

Boot ==
  /\ mode = "down" /\ stack # NoStack
  /\ mode' = "booting"
  /\ recon' = [NoRecon EXCEPT !.todo =
                 {i \in DOMAIN logs : logs[i].status = "restarting"}]
  /\ UNCHANGED <<updating, pc, job, pruners, upstream, budget>>
  /\ KeepTables /\ KeepHost

KeepBoot == UNCHANGED <<mode, updating, pc, job, upstream, budget>> /\ KeepHost

\* Newest row first; whether the three containers are healthy is the
\* environment's choice, which version they run is not asked.
JudgeStuck(i) ==
  /\ mode = "booting" /\ recon.pc = "next"
  /\ i \in recon.todo /\ \A j \in recon.todo : j <= i
  /\ \/ /\ logs' = [logs EXCEPT ![i].status = "done"]
        /\ recon' = [todo |-> recon.todo \ {i}, pc |-> "resolve", log |-> i]
     \/ /\ logs' = [logs EXCEPT ![i].status = "failed"]
        /\ recon' = [todo |-> recon.todo \ {i}, pc |-> "raise", log |-> i]
  /\ KeepBoot /\ UNCHANGED <<pruners, check, alert>>

ReconcileAlert ==
  /\ mode = "booting"
  /\ \/ recon.pc = "raise" /\ alert' = TRUE /\ recon' = [recon EXCEPT !.pc = "next"]
     \/ recon.pc = "resolve" /\ alert' = FALSE /\ recon' = [recon EXCEPT !.pc = "record"]
  /\ KeepBoot /\ UNCHANGED <<pruners, check, logs>>

\* The check is overwritten and the pruning goroutine started.
ReconcileRecord ==
  LET v == logs[recon.log].to IN
  /\ mode = "booting" /\ recon.pc = "record"
  /\ check' = [cur |-> v, latest |-> v, has |-> FALSE]
  /\ recon' = [recon EXCEPT !.pc = "next"]
  /\ pruners' = pruners \cup {[id |-> recon.log, pc |-> "read", todo |-> {}]}
  /\ KeepBoot /\ UNCHANGED <<logs, alert>>

Serve ==
  /\ mode = "booting" /\ recon.pc = "next" /\ recon.todo = {}
  /\ mode' = "serving"
  /\ recon' = NoRecon
  /\ UNCHANGED <<updating, pc, job, pruners, upstream, budget>>
  /\ KeepTables /\ KeepHost

Startup ==
  \/ Boot \/ ReconcileAlert \/ ReconcileRecord \/ Serve
  \/ \E i \in DOMAIN logs : JudgeStuck(i)

-----------------------------------------------------------------------------
(* pruneOldImages, one goroutine per row the reconciliation closed.        *)

DoneRows == {i \in DOMAIN logs :
               i > Len(logs) - PruneWindow /\ logs[i].status = "done"}
NewestDone(i) == i \in DoneRows /\ \A j \in DoneRows : j <= i
Ends(i) == {logs[i].from, logs[i].to}

\* Slip: only the current version is kept.
ObsoleteAllOlder == (UNION {Ends(i) : i \in DoneRows})
                 \ ({None} \cup {logs[i].to : i \in {j \in DoneRows : NewestDone(j)}})

\* The versions successful rows name, but the two of the newest.
Obsolete == (UNION {Ends(i) : i \in DoneRows})
         \ ({None} \cup UNION {Ends(i) : i \in {j \in DoneRows : NewestDone(j)}})

KeepPruned == UNCHANGED <<mode, updating, pc, job, recon, upstream, budget>> /\ KeepTables

\* update_keep_old_images, then the log; or nothing, if the setting says so.
PruneRead(p) ==
  /\ p \in pruners /\ p.pc = "read"
  /\ \/ pruners' = pruners \ {p}
     \/ pruners' = (pruners \ {p})
          \cup {[p EXCEPT !.pc = "remove", !.todo = Images \X Obsolete]}
  /\ KeepPruned /\ KeepHost

\* The calls fall in some order, and an error is only logged.
PruneRemove(p) ==
  /\ p \in pruners /\ p.pc = "remove"
  /\ \/ \E x \in p.todo :
          /\ RemoveImage(x)
          /\ pruners' = (pruners \ {p}) \cup {[p EXCEPT !.todo = @ \ {x}]}
     \/ /\ p.todo = {}
        /\ pruners' = pruners \ {p} /\ UNCHANGED images
  /\ KeepPruned /\ UNCHANGED <<tree, file, stack, script>>

Prune == \E p \in pruners : PruneRead(p) \/ PruneRemove(p)

-----------------------------------------------------------------------------
\* A release, or the user switches the channel: the announced version moves
\* either way.
Publish(v) ==
  /\ upstream # v /\ Spend("publish")
  /\ upstream' = v
  /\ UNCHANGED <<mode, memory, tables>> /\ KeepHost

Script == TearDown \/ BringUp

Next ==
  \/ \E w \in Workers : Request(w) \/ Step(w)
  \/ StoreCheck \/ Prune
  \/ Crash \/ Startup
  \/ Script \/ Strand
  \/ \E v \in Versions : Publish(v)

\* Goroutines are scheduled and every call of the agent has a timeout; the
\* containers restart "unless-stopped"; systemd runs the unit it accepted.
Fairness ==
  /\ \A w \in Workers : WF_vars(Step(w))
  /\ WF_vars(Startup)
  /\ WF_vars(Script)
  /\ WF_vars(Prune)

Spec == Init /\ [][Next]_vars /\ Fairness
=============================================================================
