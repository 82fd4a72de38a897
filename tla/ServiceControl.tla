---------------------------- MODULE ServiceControl ----------------------------
(***************************************************************************)
(* What the user does to a service: handleServiceAction (start, stop,      *)
(* restart, pull-restart, enable, disable), handleUpdateConfig and the     *)
(* preflight of an update.                                                 *)
(*                                                                         *)
(* Every request is a goroutine of its own and no lock orders them: each   *)
(* inspection, SQL statement and compose command is one action.  A compose *)
(* command acts on the whole project of a service.  "happened" is a        *)
(* history variable: it records what the handlers do not guard against,    *)
(* so that the properties can say what holds without it.  Audit rows are   *)
(* written and never read here; the updates are in UpdateEngine.           *)
(***************************************************************************)
EXTENDS Integers, FiniteSets

CONSTANTS
  Services,     \* the registry
  Deps,         \* the services each one depends on
  Project,      \* the compose project of each
  Containers,   \* the containers of each
  ReadOnly,     \* infrastructure: only pull-restart is allowed
  Needs,        \* those that require a synced or an unpruned chain
  Configurable, \* those with a config file
  Texts,        \* what the user may write into a config file
  Torn,         \* what a failed write leaves of one
  Workers,      \* request goroutines
  Events        \* bound: how many requests and changes of the host happen

All == UNION {Containers[s] : s \in Services}

\* What the templates guarantee (internal/service/templates/*.go).
ASSUME RegistryAssumption ==
  /\ Services # {} /\ ReadOnly \subseteq Services /\ Needs \subseteq Services \ ReadOnly
  /\ Configurable \subseteq Services
  /\ Deps \in [Services -> SUBSET Services]
  /\ \A s \in ReadOnly : Deps[s] = {}
  /\ \A s, t \in Services \ ReadOnly : Project[s] = Project[t] => s = t
  /\ \A s \in Services, r \in ReadOnly : r \in Deps[s] => Project[s] = Project[r]
  /\ \A s \in Services : Containers[s] # {}
  /\ \A s, t \in Services : s # t => Containers[s] \cap Containers[t] = {}
ASSUME BoundsAssumption == Torn \notin Texts /\ Events \in Nat

VARIABLES
  status,    \* the status docker reports of each container
  enabled,   \* services.enabled
  file,      \* the config file of each configurable service
  revision,  \* the snapshot of its newest row in config_revisions
  fit,       \* the chain is synced and unpruned, as far as Needs goes
  pc, job,   \* what each goroutine does next, and its local variables
  happened,  \* history: see Mishaps
  left       \* what remains of Events

vars == <<status, enabled, file, revision, fit, pc, job, happened, left>>

Acts == {"start", "stop", "restart", "pull-restart", "enable", "disable",
         "config", "preflight"}
\* "crossed": two requests that conflict were in flight together; "blind": an
\* answer that did not come let a check pass; "changed", "moved": a container
\* or the chain changed by itself; "failed": a command or a write failed;
\* "forced": a command was run without a check; "disabled": a disable stopped
\* a service; "unsaved": a revision was not stored.
Mishaps == {"crossed", "blind", "changed", "moved", "failed", "forced",
            "disabled", "unsaved"}

Manageable == Services \ ReadOnly
Siblings(s) == UNION {Containers[t] : t \in {u \in Services : Project[u] = Project[s]}}
Dependents(s) == {t \in Services : s \in Deps[t]}
\* A dependency of the same project needs no check: up starts it too.
Upstream(s) == {d \in Deps[s] : Project[d] # Project[s]}

\* "running", running but "unhealthy", or "exited" (and whatever else).
DeriveState(s) ==
  CASE \A c \in Containers[s] : status[c] = "running" -> "running"
    [] \A c \in Containers[s] : status[c] = "exited" -> "stopped"
    [] OTHER -> "degraded"
Running(s) == DeriveState(s) = "running"

NoJob == [svc |-> CHOOSE s \in Services : TRUE, act |-> "none", todo |-> {},
          text |-> Torn, again |-> FALSE]

\* Whole services run, each after those it depends on, and the enabled ones
\* only; those that need the chain, if it is fit.
Init ==
  /\ \E up \in SUBSET Services :
       /\ \A s \in up : Upstream(s) \subseteq up
       /\ \A s, t \in Services : Project[s] = Project[t] => (s \in up <=> t \in up)
       /\ status = [c \in All |->
            IF \E s \in up : c \in Containers[s] THEN "running" ELSE "exited"]
       /\ enabled \in {f \in [Services -> BOOLEAN] :
            /\ \A s \in up \cup ReadOnly : f[s]}
       /\ fit \in IF up \cap Needs = {} THEN BOOLEAN ELSE {TRUE}
  /\ \E t \in Texts : file = [s \in Configurable |-> t]
  /\ revision = file
  /\ pc = [w \in Workers |-> "idle"]
  /\ job = [w \in Workers |-> NoJob]
  /\ happened = {}
  /\ left = Events

Spend == left > 0 /\ left' = left - 1

-----------------------------------------------------------------------------
(* The compose commands.  One that fails may have acted in part.           *)

UpOK(s) ==
  status' = [c \in All |-> IF c \in Siblings(s) /\ status[c] = "exited"
                           THEN "running" ELSE status[c]]
UpFails(s) ==
  \E part \in SUBSET Siblings(s) :
    status' = [c \in All |-> IF c \in part /\ status[c] = "exited"
                             THEN "running" ELSE status[c]]
StopOK(s) ==
  status' = [c \in All |-> IF c \in Siblings(s) THEN "exited" ELSE status[c]]
StopFails(s) ==
  \E part \in SUBSET Siblings(s) :
    status' = [c \in All |-> IF c \in part THEN "exited" ELSE status[c]]
\* It starts what is stopped, too.
RestartOK(s) ==
  status' = [c \in All |-> IF c \in Siblings(s) THEN "running" ELSE status[c]]
RestartFails(s) ==
  \E up, down \in SUBSET Siblings(s) :
    status' = [c \in All |-> IF c \in up THEN "running"
                             ELSE IF c \in down THEN "exited" ELSE status[c]]

-----------------------------------------------------------------------------
(* The requests.                                                           *)

Busy(w) == pc[w] # "idle"
At(w, p) == pc[w] = p
Goto(w, p) == pc' = [pc EXCEPT ![w] = p] /\ UNCHANGED job
Finish(w) == pc' = [pc EXCEPT ![w] = "idle"] /\ job' = [job EXCEPT ![w] = NoJob]
Svc(w) == job[w].svc
Record(m) == happened' = happened \cup m
Quiet == happened' = happened

KeepTables == UNCHANGED <<enabled, file, revision>>
KeepHost == UNCHANGED <<status, fit>>

\* One brings a service up, or says it can be, while the other takes it or
\* what it needs down; or both write the same file.
Opposed(s, a, t, b) ==
  \/ a \in {"start", "preflight"} /\ b \in {"stop", "disable"} /\ t \in Deps[s]
  \/ <<a, b>> \in {<<"start", "disable">>, <<"preflight", "stop">>,
                  <<"preflight", "disable">>, <<"config", "config">>} /\ s = t
Conflict(s, a, t, b) == Opposed(s, a, t, b) \/ Opposed(t, b, s, a)

First == [a \in Acts |->
  CASE a = "start" -> "enabled" [] a = "stop" -> "dependents"
    [] a = "restart" -> "restart" [] a = "pull-restart" -> "pull"
    [] a = "enable" -> "enable" [] a = "disable" -> "look"
    [] a = "config" -> "write" [] a = "preflight" -> "preflight"]

Allowed(s, a) ==
  CASE a = "config" -> s \in Configurable
    [] a \in {"preflight", "pull-restart"} -> TRUE
    [] OTHER -> s \notin ReadOnly

Request(w, s, a, text, again) ==
  /\ ~Busy(w) /\ Spend
  /\ Allowed(s, a)
  /\ pc' = [pc EXCEPT ![w] = First[a]]
  /\ job' = [job EXCEPT ![w] =
       [svc |-> s, act |-> a, text |-> text, again |-> again,
        todo |-> IF a = "start" THEN Upstream(s)
                 ELSE IF a = "preflight" THEN Deps[s]
                 ELSE IF a = "stop" THEN Dependents(s) ELSE {}]]
  /\ Record({m \in {"crossed"} : \E v \in Workers \ {w} :
               Busy(v) /\ Conflict(s, a, job[v].svc, job[v].act)})
  /\ KeepTables /\ KeepHost

\* Slip: the flag is not asked for.
StartAnyway(w) ==
  /\ At(w, "enabled") /\ Goto(w, "deps")
  /\ KeepTables /\ KeepHost /\ Quiet

\* An answer that does not come counts as disabled.
CheckEnabled(w) ==
  /\ At(w, "enabled")
  /\ \/ enabled[Svc(w)] /\ Goto(w, "deps")
     \/ Finish(w)
  /\ KeepTables /\ KeepHost /\ Quiet

\* Slip: one dependency that runs is enough.
CheckAnyDep(w) ==
  /\ At(w, "deps")
  /\ \/ job[w].todo = {} \/ \E d \in job[w].todo : Running(d)
  /\ pc' = [pc EXCEPT ![w] = IF job[w].act = "start" THEN "chain" ELSE "green"]
  /\ job' = [job EXCEPT ![w].todo = {}]
  /\ KeepTables /\ KeepHost /\ Quiet

\* One inspection for each dependency; without an answer it is not running.
CheckDeps(w) ==
  /\ At(w, "deps")
  /\ \/ \E d \in job[w].todo :
          /\ Running(d)
          /\ job' = [job EXCEPT ![w].todo = @ \ {d}] /\ UNCHANGED pc
     \/ /\ job[w].todo = {}
        /\ Goto(w, IF job[w].act = "start" THEN "chain" ELSE "green")
     \/ job[w].todo # {} /\ Finish(w)
  /\ KeepTables /\ KeepHost /\ Quiet

\* Slip: an answer that refuses is taken for none.
CheckChainOpen(w) ==
  /\ At(w, "chain") /\ Goto(w, "admit")
  /\ KeepTables /\ KeepHost /\ Quiet

\* The RPC of bitcoind is asked; without an answer the check is skipped.
CheckChain(w) ==
  /\ At(w, "chain")
  /\ \/ (fit \/ Svc(w) \notin Needs) /\ Goto(w, "admit") /\ Quiet
     \/ ~fit /\ Svc(w) \in Needs /\ Finish(w) /\ Quiet
     \/ ~fit /\ Svc(w) \in Needs /\ Goto(w, "admit") /\ Record({"blind"})
  /\ KeepTables /\ KeepHost

\* Temperature and disk space: what the sensors say.
Admit(w) ==
  /\ At(w, "admit")
  /\ Goto(w, "up") \/ Finish(w)
  /\ KeepTables /\ KeepHost /\ Quiet

Forced(w) == IF job[w].act = "start" THEN {} ELSE {"forced"}

Up(w) ==
  /\ At(w, "up")
  /\ \/ UpOK(Svc(w)) /\ Record(Forced(w))
     \/ UpFails(Svc(w)) /\ Record(Forced(w) \cup {"failed"})
  /\ Finish(w)
  /\ KeepTables /\ UNCHANGED fit

\* Slip: the dependents are not looked at.
StopUnasked(w) ==
  /\ At(w, "dependents") /\ pc' = [pc EXCEPT ![w] = "stop"]
  /\ job' = [job EXCEPT ![w].todo = {}]
  /\ KeepTables /\ KeepHost /\ Quiet

\* One inspection for each dependent; only one that runs in good health
\* refuses the stop, and one without an answer does not.
CheckDependents(w) ==
  /\ At(w, "dependents")
  /\ \/ \E d \in job[w].todo :
          /\ job' = [job EXCEPT ![w].todo = @ \ {d}] /\ UNCHANGED pc
          /\ IF Running(d) THEN Record({"blind"}) ELSE Quiet
     \/ job[w].todo = {} /\ Goto(w, "stop") /\ Quiet
     \/ (\E d \in job[w].todo : Running(d)) /\ Finish(w) /\ Quiet
  /\ KeepTables /\ KeepHost

\* A disable goes on whether or not its stop succeeds.
Stop(w) ==
  LET m == IF job[w].act = "disable" THEN {"disabled"} ELSE {} IN
  /\ At(w, "stop")
  /\ \/ StopOK(Svc(w)) /\ Record(m)
     \/ StopFails(Svc(w)) /\ Record(m \cup {"failed"})
  /\ IF job[w].act = "disable" THEN Goto(w, "clear") ELSE Finish(w)
  /\ KeepTables /\ UNCHANGED fit

Restart(w) ==
  /\ At(w, "restart")
  /\ \/ RestartOK(Svc(w)) /\ Record({"forced"})
     \/ RestartFails(Svc(w)) /\ Record({"forced", "failed"})
  /\ Finish(w)
  /\ KeepTables /\ UNCHANGED fit

\* Up if an image changed; an image up to date or an error ends the request.
Pull(w) ==
  /\ At(w, "pull")
  /\ Goto(w, "up") \/ Finish(w)
  /\ KeepTables /\ KeepHost /\ Quiet

\* The error of the statement is ignored.
SetEnabled(w, b) ==
  /\ \/ enabled' = [enabled EXCEPT ![Svc(w)] = b]
     \/ UNCHANGED enabled
  /\ Finish(w)
  /\ UNCHANGED <<file, revision>> /\ KeepHost /\ Quiet

Enable(w) == At(w, "enable") /\ SetEnabled(w, TRUE)

\* Slip: the stop is left to the user.
LookAway(w) ==
  /\ At(w, "look")
  /\ Goto(w, "clear")
  /\ KeepTables /\ KeepHost /\ Quiet

\* A service that is only degraded is not stopped, nor one without an answer.
Look(w) ==
  /\ At(w, "look")
  /\ \/ Running(Svc(w)) /\ Goto(w, "stop") /\ Quiet
     \/ ~Running(Svc(w)) /\ Goto(w, "clear") /\ Quiet
     \/ Running(Svc(w)) /\ Goto(w, "clear") /\ Record({"blind"})
  /\ KeepTables /\ KeepHost

Clear(w) == At(w, "clear") /\ SetEnabled(w, FALSE)

-----------------------------------------------------------------------------
(* handleUpdateConfig: the file first, then its revision.                  *)

WriteConfig(w) ==
  /\ At(w, "write")
  /\ \/ /\ file' = [file EXCEPT ![Svc(w)] = job[w].text]
        /\ Goto(w, "revise") /\ Quiet
     \/ /\ \E got \in {file[Svc(w)], Torn} : file' = [file EXCEPT ![Svc(w)] = got]
        /\ Finish(w) /\ Record({"failed"})
  /\ KeepHost /\ UNCHANGED <<enabled, revision>>

\* Slip: the snapshot is the text that was there before.
ReviseOld(w) ==
  /\ At(w, "revise")
  /\ IF job[w].again THEN Goto(w, "restart") ELSE Finish(w)
  /\ KeepHost /\ KeepTables /\ Quiet

Revise(w) ==
  /\ At(w, "revise")
  /\ \/ revision' = [revision EXCEPT ![Svc(w)] = job[w].text] /\ Quiet
     \/ UNCHANGED revision /\ Record({"unsaved"})
  /\ IF job[w].again THEN Goto(w, "restart") ELSE Finish(w)
  /\ KeepHost /\ UNCHANGED <<enabled, file>>

-----------------------------------------------------------------------------
(* RunPreflight: it reads and answers; ApplyUpdate does not ask again.     *)

\* A check with an update, no update under way, the compose file and 2 GB.
Preflight(w) ==
  /\ At(w, "preflight")
  /\ Goto(w, "deps") \/ Finish(w)
  /\ KeepTables /\ KeepHost /\ Quiet

\* "can_proceed": the warnings about dependents do not block.
Green(w) ==
  /\ At(w, "green")
  /\ Finish(w)
  /\ KeepTables /\ KeepHost /\ Quiet

-----------------------------------------------------------------------------
\* A container stops, gets sick or well, or someone starts it.
Change(c, st) ==
  /\ Spend /\ st # status[c]
  /\ status' = [status EXCEPT ![c] = st]
  /\ Record({"changed"})
  /\ UNCHANGED <<fit, pc, job>> /\ KeepTables

\* The chain falls behind, is pruned, or catches up.
MoveChain ==
  /\ Spend
  /\ fit' = ~fit
  /\ Record(IF fit THEN {"moved"} ELSE {})
  /\ UNCHANGED <<status, pc, job>> /\ KeepTables

Step(w) ==
  /\ \/ CheckEnabled(w) \/ CheckDeps(w) \/ CheckChain(w) \/ Admit(w) \/ Up(w)
     \/ CheckDependents(w) \/ Stop(w) \/ Restart(w) \/ Pull(w)
     \/ Enable(w) \/ Look(w) \/ Clear(w)
     \/ WriteConfig(w) \/ Revise(w) \/ Preflight(w) \/ Green(w)
  /\ UNCHANGED left

Next ==
  \/ \E w \in Workers, s \in Services :
       \/ \E a \in Acts \ {"config"} : Request(w, s, a, Torn, FALSE)
       \/ \E text \in Texts, again \in BOOLEAN : Request(w, s, "config", text, again)
  \/ \E w \in Workers : Step(w)
  \/ \E c \in All, st \in {"running", "unhealthy", "exited"} : Change(c, st)
  \/ MoveChain

Spec == Init /\ [][Next]_vars
=============================================================================
