------------------------- MODULE SelfUpdateProperties -------------------------
(***************************************************************************)
(* What a self-update guarantees, and what it does not.                    *)
(***************************************************************************)
EXTENDS SelfUpdate

Busy(w) == pc[w] # "idle"

PCs == {"idle", "locked", "create", "fetch", "checkout", "rewrite",
        "enter_build", "build", "mark", "detach", "bad", "raise", "release"}
Jobs == [from : Maybe, to : Maybe, log : Nat, next : Nat]
Rows == [from : Maybe, to : Maybe, status : Statuses]
Pruners == [id : Nat, pc : {"read", "remove"}, todo : SUBSET (Images \X Maybe)]

\* The types of the variables (engine.go:18, model/update.go:40).
TypeOK ==
  /\ mode \in {"down", "booting", "serving"}
  /\ updating \in BOOLEAN
  /\ pc \in [Workers -> PCs]
  /\ job \in [Workers -> Jobs]
  /\ recon \in [todo : SUBSET Nat, pc : {"next", "raise", "resolve", "record"},
                log : Nat]
  /\ pruners \in SUBSET Pruners
  /\ check \in [cur : Maybe, latest : Maybe, has : BOOLEAN]
  /\ logs \in Seq(Rows)
  /\ alert \in BOOLEAN
  /\ tree \in Maybe /\ file \in Maybe
  /\ images \in SUBSET (Images \X Maybe)
  /\ stack \in [tag : Maybe, code : Maybe]
  /\ script \in {"none", "asleep", "torn"}
  /\ upstream \in Versions
  /\ budget \in [Limited -> Nat]

\* One goroutine at a time works on the stack, under the lock, in a process
\* that serves; the death of the process frees both (engine.go:395).
OneAtATime ==
  /\ \A w, v \in Workers : Busy(w) /\ Busy(v) => w = v
  /\ \A w \in Workers : Busy(w) => updating /\ mode = "serving"
  /\ updating => \E w \in Workers : Busy(w)

\* The row a goroutine writes is the last of the log, for its version, and not
\* closed; no other goroutine and no reconciliation writes it.
Owns(w) == pc[w] \in {"fetch", "checkout", "rewrite", "enter_build", "build",
                      "mark", "detach", "bad"}
OwnsRow ==
  \A w \in Workers : Owns(w) =>
    /\ job[w].log = Len(logs) /\ job[w].log \in DOMAIN logs
    /\ logs[job[w].log].to = job[w].to
    /\ logs[job[w].log].status \notin Terminal
    /\ pc[w] \in {"checkout", "rewrite"} => logs[job[w].log].status = "pulling"

\* What a goroutine has achieved so far.
HasStaged ==
  \A w \in Workers :
    /\ pc[w] \notin {"mark", "detach", "bad", "raise", "release"}
         => job[w].next \in DOMAIN Order
    /\ pc[w] = "rewrite" => tree = job[w].to
    /\ pc[w] \in {"enter_build", "build", "mark", "detach"}
         => tree = job[w].to /\ file = job[w].to

\* The reconciliation judges open rows, the newest first, before the process
\* serves; the process takes its goroutines with it.
ReconFollows ==
  /\ mode # "booting" => recon = NoRecon
  /\ mode = "down" => pruners = {}
  /\ \A i \in recon.todo : i \in DOMAIN logs /\ logs[i].status = "restarting"
  /\ recon.pc \in {"resolve", "record"} =>
       /\ recon.log \in DOMAIN logs /\ logs[recon.log].status = "done"
       /\ \A j \in recon.todo : j < recon.log

\* A pruning goroutine was started by a row that is done, and every row still
\* to be judged is older (store/updates.go:145).
PrunersFollow ==
  \A p \in pruners :
    /\ p.id \in DOMAIN logs /\ logs[p.id].status = "done"
    /\ \A j \in recon.todo : j < p.id

\* The script brings up what the compose file names while no process serves.
ScriptFollows ==
  /\ script = "torn" => mode = "down" /\ stack = NoStack
  /\ \A k \in Limited : budget[k] <= Budget[k]

\* The newest successful row of the whole log.
LastDone(i) ==
  /\ i \in DOMAIN logs /\ logs[i].status = "done"
  /\ \A j \in DOMAIN logs : logs[j].status = "done" => j <= i

\* What a pruning goroutine holds to remove spares the newest success.
HoldsSpare ==
  \A p \in pruners, i \in DOMAIN logs :
    LastDone(i) => \A x \in p.todo : x[2] \notin Ends(i)

\* A row cut off or failed after its checkout: it will not be closed as done.
CutOff(i) == i \in DOMAIN logs /\ logs[i].status \in {"pulling", "failed"}
TreeIsKnown ==
  tree # file => \E i \in DOMAIN logs :
    /\ CutOff(i) /\ logs[i].to = tree
    /\ \A w \in Workers : Owns(w) /\ job[w].log = i => pc[w] \in {"rewrite", "bad"}
CodeIsKnown ==
  stack.code # stack.tag => \E i \in DOMAIN logs :
    /\ CutOff(i) /\ logs[i].to = stack.code
    /\ \A w \in Workers : Owns(w) => job[w].log # i

\* If neither the process nor the script was disturbed, the process that comes
\* up runs what the last row was to bring.
Undisturbed == \A k \in {"crash", "strand"} : budget[k] = Budget[k]
RestartsToFile ==
  /\ logs # <<>> /\ logs[Len(logs)].status = "restarting"
       => file = logs[Len(logs)].to
  /\ Undisturbed /\ mode # "serving" /\ script # "torn" => stack.tag = file

\* The inductive invariant from which the properties follow.
SelfUpdateInv ==
  /\ TypeOK /\ OneAtATime /\ OwnsRow /\ HasStaged /\ ReconFollows /\ PrunersFollow
  /\ ScriptFollows /\ HoldsSpare /\ TreeIsKnown /\ CodeIsKnown /\ RestartsToFile

\* Pruning never removes an image of the version of the newest successful
\* update, nor of the one it came from, although it works from a snapshot of
\* the log while newer attempts run (engine.go:787-789).
PruneSpares ==
  [][\A i \in DOMAIN logs : LastDone(i) =>
       \A x \in images \ images' : x[2] \notin Ends(i)]_vars

\* What runs was built from the tag it is labelled with, unless an attempt
\* that moved the working tree to it while a restart was pending was cut off
\* or failed (engine.go:700, 710; agent main.go:1301).
CoherentOrCutOff ==
  stack.code # stack.tag =>
    \E i \in DOMAIN logs : logs[i].to = stack.code /\ logs[i].status # "done"

\* If neither the process nor the script was disturbed, a row closed as done
\* names the version that runs, unless another attempt began after it gave
\* its lock back (engine.go:731, 759-774).
TurnsDone(i) ==
  i \in DOMAIN logs /\ logs[i].status # "done" /\ logs'[i].status = "done"
DoneRunsIt ==
  [][\A i \in DOMAIN logs :
       TurnsDone(i) /\ Undisturbed
         => stack.tag = logs[i].to \/ i < Len(logs)]_vars

\* A row left at "restarting" is closed by the process that comes next, and
\* one does come, unless the host loses the script or a later attempt fails,
\* whose call may have stopped it (engine.go:728, 745; agent main.go:1317).
Lost == budget["strand"] < Budget["strand"]
RowIs(i, set) == i \in DOMAIN logs /\ logs[i].status \in set
RestartIsClosed ==
  \A i \in 1..Budget["request"] :
    RowIs(i, {"restarting"})
      ~> Lost \/ RowIs(i, Terminal)
         \/ \E j \in i+1..Budget["request"] : RowIs(j, {"failed"})

\* Whatever the restart interrupts, the node serves again, unless the script
\* is lost half way (agent main.go:1301-1304).
StackComesBack == script # "none" ~> (Lost \/ mode = "serving")
=============================================================================
