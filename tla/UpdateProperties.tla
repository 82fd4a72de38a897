-------------------------- MODULE UpdateProperties --------------------------
(***************************************************************************)
(* What the update engine guarantees, and what it says but does not.       *)
(***************************************************************************)
EXTENDS UpdateEngine

Busy(w) == pc[w] # "idle"

Jobs == [svc : Services, op : {"update", "rollback"}, from : Maybe,
         to : Maybe, log : Nat, out : {"failed", "rolled_back"}]
PCs == {"idle", "locked", "compare", "create", "begin", "fetch", "rewrite",
        "mark", "down", "up", "health", "revert", "revert_down", "revert_up",
        "bad", "raise", "done", "resolve", "record", "release"}
Rows == [svc : Services, from : Maybe, to : Maybe, status : Statuses]

\* The types of the variables (engine.go:18, model/update.go:40).
TypeOK ==
  /\ mode \in {"down", "booting", "serving"}
  /\ updating \subseteq Services
  /\ pc \in [Workers -> PCs]
  /\ job \in [Workers -> Jobs \cup {NoJob}]
  /\ recon \in [todo : SUBSET Nat, pc : {"next", "raise", "resolve", "record"},
                log : Nat]
  /\ chk \in [pc : {"off", "idle", "inspect", "fallback", "store"},
              pos : 1..Len(Registry), cur : Maybe]
  /\ trigger \in BOOLEAN
  /\ check \in [Services -> [cur : Maybe, latest : Maybe, has : BOOLEAN]]
  /\ logs \in Seq(Rows)
  /\ alert \in [Services -> BOOLEAN]
  /\ staged \in [Services -> Maybe]
  /\ cont \in [Services -> Maybe]
  /\ upstream \in [Services -> Versions]
  /\ budget \in [Limited -> Nat]

\* A goroutine has local variables exactly while it works, and the row being
\* reconciled exists, before the process serves.
LocalsOK ==
  /\ \A w \in Workers : IF Busy(w) THEN job[w] \in Jobs ELSE job[w] = NoJob
  /\ recon.pc # "next" => mode = "booting" /\ recon.log \in DOMAIN logs

\* Two goroutines never work on one service at a time (engine.go:395), and a
\* lock that is held is held by a goroutine that will release it.
MutualExclusion ==
  /\ \A w, v \in Workers : Busy(w) /\ Busy(v) /\ w # v => Svc(w) # Svc(v)
  /\ \A s \in updating : \E w \in Workers : Busy(w) /\ Svc(w) = s

\* A goroutine that works holds the lock of its service, and works only while
\* the process serves.
LockHeld ==
  \A w \in Workers : Busy(w) => Svc(w) \in updating /\ mode = "serving"

\* The row a goroutine writes to is the one it created.
Unlogged == {"idle", "locked", "compare", "create"}
OwnsRow ==
  \A w \in Workers : LET i == job[w].log IN
    i # 0 => /\ pc[w] \notin Unlogged
             /\ i \in DOMAIN logs
             /\ logs[i].svc = Svc(w) /\ logs[i].to = job[w].to

\* From the rewrite of the compose file to the verdict, the service's next
\* start is of the version the goroutine installs; from its own start on, so
\* is any container of it.
Installing ==
  \A w \in Workers :
    Busy(w) /\ Kind[Svc(w)] = "tag" =>
      /\ pc[w] \in {"mark", "down", "up", "health", "done"}
           => staged[Svc(w)] = job[w].to
      /\ pc[w] \in {"health", "done"}
           => cont[Svc(w)] \in {job[w].to, None}

\* The inductive invariant from which DoneTellsTheTruth follows.
UpdateInv ==
  TypeOK /\ LocalsOK /\ MutualExclusion /\ LockHeld /\ OwnsRow /\ Installing

\* The update log implements the promise of UpdateLifecycle: one attempt per
\* service, statuses that only move forward, closed rows that stay as they
\* are, through crashes and reconciliation (engine.go:386, 543, 747).
Lifecycle == INSTANCE UpdateLifecycle
  WITH rows <- logs, active <- {job[w].log : w \in Workers} \ {0},
       alive <- mode = "serving"
LogIsALifecycle == Lifecycle!Spec

\* An update on offer always has two known, different versions, whoever wrote
\* the row: the check loop, an update or a manual rollback (engine.go:206,
\* 529, 642).  ApplyUpdate builds image references from both.
OffersAreReal ==
  \A s \in Services :
    check[s].has => /\ check[s].cur # None
                    /\ check[s].latest # None
                    /\ check[s].cur # check[s].latest

\* Every attempt has a version to go to and, but for an image that was never
\* seen, one to come from: a manual rollback never writes an attempt from or
\* to the empty version, although the check row it takes its current version
\* from may have been deleted meanwhile (engine.go:176, 582).
AttemptsNameVersions ==
  \A i \in DOMAIN logs :
    logs[i].from # None /\ logs[i].to # None /\ logs[i].from # logs[i].to

\* A row a goroutine turns to "done" tells the truth for a service whose
\* version is a tag: its compose file names that tag, and any container it
\* has runs it, whatever siblings of its project, other handlers or the
\* operator did since the restart (engine.go:509-524, 636-640).
TurnsDone(i) ==
  i \in DOMAIN logs /\ logs[i].status # "done" /\ logs'[i].status = "done"
IsTrue(i) ==
  LET s == logs[i].svc IN
  staged[s] = logs[i].to /\ cont[s] \in {logs[i].to, None}
DoneTellsTheTruth ==
  [][\A i \in DOMAIN logs :
       TurnsDone(i) /\ mode = "serving" /\ Kind[logs[i].svc] = "tag"
         => IsTrue(i)]_vars

\* Once a service is at rest after a success, no alert of an earlier failure
\* remains, unless a crash fell between the two statements (engine.go:524).
LastRow(s, i) == i \in RowsOf(s) /\ \A j \in RowsOf(s) : j <= i
SuccessClearsAlert ==
  budget["crash"] = Budget["crash"] =>
    \A s \in Services \ updating : \A i \in DOMAIN logs :
      LastRow(s, i) /\ logs[i].status = "done" => ~alert[s]

\* Every goroutine that takes a lock gives it back: no path of ApplyUpdate
\* or RollbackService leaves the service locked (engine.go:402, 565).
LocksAreReleased == \A w \in Workers : Busy(w) ~> ~Busy(w)

\* A row that says "restarting" is eventually closed, by its goroutine or, if
\* the process dies, by the reconciliation of the next one (engine.go:747).
RestartsAreClosed ==
  \A i \in 1..Budget["request"] :
    (i \in DOMAIN logs /\ logs[i].status = "restarting")
      ~> (i \in DOMAIN logs /\ logs[i].status \in Terminal)

\* A manual check request is never lost: the loop takes it, however long the
\* check it is in the middle of lasts and however often the ticker fires
\* (engine.go:51, 117).  Only the death of the process loses it.
TriggersAreServed == trigger ~> ~trigger

\* The check loop corrects what races left in update_checks: once the
\* container of a tagged service settles on a version, so does the current
\* version the service is checked against (engine.go:155, 213).
ChecksConverge ==
  \A s \in Services, v \in Versions :
    Kind[s] = "tag" => (<>[](cont[s] = v) => <>[](check[s].cur = v))
-----------------------------------------------------------------------------
(* What the code or its documents say and the engine does not do.          *)

\* A row closed as "update completed successfully" by the reconciliation
\* (engine.go:766) is of a service that runs the version it names: the health
\* check asks whether the service runs, not what it runs.
ReconciledTellsTheTruth ==
  [][\A i \in DOMAIN logs :
       TurnsDone(i) /\ mode = "booting" /\ Kind[logs[i].svc] = "tag"
         => IsTrue(i)]_vars
=============================================================================
