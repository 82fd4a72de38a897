----------------------------- MODULE AlertEngine -----------------------------
(***************************************************************************)
(* The alert engine of truffels-api (internal/alerts/engine.go).  One      *)
(* goroutine sweeps the registry every 30 s: it inspects each container    *)
(* through the agent, raises and resolves alerts, detects restart loops    *)
(* from the growth of RestartCount, and may stop a service.  Containers,   *)
(* the admin, the user who dismisses alerts and the clock move on between  *)
(* any two of its calls; a restart of the process loses its memory.        *)
(*                                                                         *)
(* Times are ages: a recorded restart grows older with the clock and is    *)
(* out of the window at age Window.  Host alerts (disk, temperature) and   *)
(* metric snapshots are left out; texts and severities too.                *)
(***************************************************************************)
EXTENDS Integers, Sequences, FiniteSets, Selections

CONSTANTS
  Order,       \* the service IDs in registry order
  Conts,       \* Conts[s]: ContainerNames, a sequence
  Deps,        \* Deps[s]: Dependencies, a sequence of services
  ReadOnly,    \* the infrastructure services, which no one can disable
  Stack,       \* Stack[s]: the containers of the compose project of s
  Threshold, Window, MaxRetries,   \* the restart_loop_* settings
  Modes,       \* the values of dep_handling_mode the admin picks from
  Unseen,      \* no entry in a map
  Budget       \* bounds: how many times each of Limited may happen

\* restart: containers by their policy; change: whatever else becomes of
\* them; outage: the agent answers nothing useful; fail: a stop fails;
\* dismiss, admin: clicks; crash: of the process.
Limited == {"restart", "change", "outage", "fail", "dismiss", "admin", "crash"}

Services == {Order[i] : i \in DOMAIN Order}
Of(seq) == {seq[i] : i \in DOMAIN seq}
Containers == UNION {Of(Conts[s]) : s \in Services}
Types == {"service_unhealthy", "restart_loop", "upstream_unhealthy"}
Keys == Types \X Services

ASSUME OrderAssumption == Order \in Seq(Services) \ {<<>>}
ASSUME ContsAssumption ==
  Conts \in [Services -> Seq(Containers) \ {<<>>}]
\* No two containers of the templates have one name.
ASSUME RegistryAssumption ==
  \A s, t \in Services : \A i \in DOMAIN Conts[s], j \in DOMAIN Conts[t] :
    Conts[s][i] = Conts[t][j] => s = t /\ i = j
ASSUME DepsAssumption == Deps \in [Services -> Seq(Services)]
ASSUME StackAssumption == Stack \in [Services -> SUBSET Containers]
ASSUME SettingsAssumption ==
  /\ Threshold \in Nat /\ Window \in Nat /\ MaxRetries \in Nat
  /\ Modes \subseteq {"flag_only", "flag_and_stop"} /\ Modes # {}
ASSUME BudgetAssumption == Budget \in [Limited -> Nat]

VARIABLES
  at,           \* the sweep: where it is, and its local variables
  last,         \* Engine.lastRestartCounts
  history,      \* Engine.restartHistory: the ages of restarts
  autoStopped,  \* Engine.autoStopped: pairs of a service and a reason
  prev,         \* Engine.prevStates
  open,         \* table alerts: unresolved rows of each type and service
  dismissed,    \* keys whose last unresolved row the user resolved
  reported,     \* table service_events: restarts its "restart" rows add up to
  enabled,      \* table services
  mode,         \* setting dep_handling_mode
  cont,         \* the containers
  real,         \* how often each container really restarted by itself
  budget        \* what remains of Budget

memory == <<at, last, history, autoStopped, prev>>
tables == <<open, dismissed, reported>>
admin == <<enabled, mode>>
world == <<cont, real>>
vars == <<memory, tables, admin, world, budget>>

State(st, sick, n) == [status |-> st, sick |-> sick, count |-> n]
Running == State("running", FALSE, 0)
NotFound == State("not_found", FALSE, 0)

Idle == [pc |-> "idle", i |-> 1, k |-> 1, m |-> 1, on |-> FALSE,
         seen |-> NotFound, found |-> FALSE, mode |-> "flag_only"]

Init ==
  /\ at = Idle
  /\ last = [c \in Containers |-> Unseen]
  /\ history = [c \in Containers |-> <<>>]
  /\ autoStopped = {}
  /\ prev = [c \in Containers |-> Unseen]
  /\ open = [k \in Keys |-> 0]
  /\ dismissed = {}
  /\ reported = [c \in Containers |-> 0]
  /\ enabled = [s \in Services |-> TRUE]
  /\ mode \in Modes
  /\ cont = [c \in Containers |-> Running]
  /\ real = [c \in Containers |-> 0]
  /\ budget = Budget

Spend(b) == budget[b] > 0 /\ budget' = [budget EXCEPT ![b] = @ - 1]

-----------------------------------------------------------------------------
(* The alerts table.  UpsertAlert is a SELECT and, after it, an INSERT or  *)
(* an UPDATE; only the INSERT adds an unresolved row.                      *)

Select(k) == open[k] > 0

\* Slip: an INSERT without the SELECT.
UpsertBlind(k) ==
  /\ open' = [open EXCEPT ![k] = @ + 1]
  /\ dismissed' = dismissed \ {k}

Upsert(k) ==
  IF at.found
  THEN UNCHANGED <<open, dismissed>>
  ELSE /\ open' = [open EXCEPT ![k] = @ + 1]
       /\ dismissed' = dismissed \ {k}

Resolve(k) ==
  /\ open' = [open EXCEPT ![k] = 0]
  /\ dismissed' = dismissed \ {k}

-----------------------------------------------------------------------------
(* The agent.                                                              *)

\* InspectContainer never fails: an agent that does not answer makes of any
\* container one that is "unknown", a docker that is slow one "not_found".
NoAnswer == {State("unknown", FALSE, 0), NotFound}
Answers(c) == {cont[c]} \cup (IF budget["outage"] > 0 THEN NoAnswer ELSE {})
Charge(honest) ==
  budget' = IF honest THEN budget ELSE [budget EXCEPT !["outage"] = @ - 1]

\* compose.Down takes the whole compose project away.
Gone(s) == [c \in Containers |-> IF c \in Stack[s] THEN NotFound ELSE cont[c]]

-----------------------------------------------------------------------------
(* evaluate: checkService for every service in registry order, then        *)
(* checkDependencyHealth.                                                  *)

Svc == Order[at.i]
Cont == Conts[Svc][at.k]
Dep == Deps[Svc][at.k]

At(p) == at.pc = p
Goto(p) == [at EXCEPT !.pc = p]

\* What the loops do next; local variables of the body end with it.
EnterService(i) ==
  IF i <= Len(Order) THEN [Idle EXCEPT !.pc = "service", !.i = i]
  ELSE [Idle EXCEPT !.pc = "mode"]

EnterContainer(k) ==
  IF k <= Len(Conts[Svc])
  THEN [Idle EXCEPT !.pc = "inspect", !.i = at.i, !.k = k, !.on = at.on]
  ELSE EnterService(at.i + 1)

EnterDeps(i) ==
  IF i <= Len(Order) THEN [Idle EXCEPT !.pc = "deps", !.i = i, !.mode = at.mode]
  ELSE Idle

\* Slip: counting from the second dependency.
EnterDepLate(k) ==
  IF k < Len(Deps[Svc])
  THEN [Idle EXCEPT !.pc = "upstream", !.i = at.i, !.k = k + 1, !.mode = at.mode]
  ELSE EnterDeps(at.i + 1)

EnterDep(k) ==
  IF k <= Len(Deps[Svc])
  THEN [Idle EXCEPT !.pc = "upstream", !.i = at.i, !.k = k, !.mode = at.mode]
  ELSE EnterDeps(at.i + 1)

KeepMemory == UNCHANGED <<last, history, autoStopped, prev>>

\* The ticker fires.
Sweep ==
  /\ At("idle") /\ at' = EnterService(1)
  /\ KeepMemory /\ UNCHANGED <<tables, admin, world, budget>>

Dependents(s) == {t \in Services : s \in Of(Deps[t])}

\* An infrastructure service whose dependents are all disabled counts as
\* disabled itself.
Wanted(s) ==
  /\ enabled[s]
  /\ s \in ReadOnly /\ Dependents(s) # {} => \E t \in Dependents(s) : enabled[t]

ReadEnabled ==
  /\ At("service")
  /\ at' = [EnterContainer(1) EXCEPT !.on = Wanted(Svc)]
  /\ KeepMemory /\ UNCHANGED <<tables, admin, world, budget>>

InspectOne ==
  /\ At("inspect")
  /\ \E a \in Answers(Cont) :
       /\ at' = [Goto("health") EXCEPT !.seen = a]
       /\ Charge(a = cont[Cont])
  /\ KeepMemory /\ UNCHANGED <<tables, admin, world>>

\* Slips: only stopped containers count; the enabled flag does not.
AilsStopped(seen, on) == seen.status \in {"exited", "not_found"} /\ on
AilsAlways(seen, on) == seen.sick \/ seen.status \in {"exited", "not_found"}

Ails(seen, on) == seen.sick \/ (seen.status \in {"exited", "not_found"} /\ on)

CheckHealth ==
  LET k == <<"service_unhealthy", Svc>> IN
  /\ At("health")
  /\ \/ /\ Ails(at.seen, at.on)
        /\ at' = [Goto("raiseHealth") EXCEPT !.found = Select(k)]
        /\ UNCHANGED <<open, dismissed>>
     \/ /\ ~Ails(at.seen, at.on)
        /\ at' = Goto("count") /\ Resolve(k)
  /\ KeepMemory /\ UNCHANGED <<reported, admin, world, budget>>

RaiseHealth ==
  /\ At("raiseHealth") /\ at' = Goto("count")
  /\ Upsert(<<"service_unhealthy", Svc>>)
  /\ KeepMemory /\ UNCHANGED <<reported, admin, world, budget>>

\* Slip: a count that differs is growth, the one of a new container too.
GrowthEither(before, now) ==
  IF before = Unseen THEN 0 ELSE IF now > before THEN now - before ELSE before - now

\* A smaller count is a new container, and the first one seen a baseline.
Growth(before, now) ==
  IF before # Unseen /\ now > before THEN now - before ELSE 0

\* Slip: no restart is ever too old.
InWindowEver(age) == age <= Window

InWindow(age) == age < Window
Recent(c) == SelectAt(history[c], {n \in DOMAIN history[c] : InWindow(history[c][n])})

\* Slip: one restart too many.
LoopsLate(recent) == Len(recent) > Threshold

Loops(recent) == Len(recent) >= Threshold
Calm(recent) == recent = <<>>

\* recordRestartIncrements.
Count ==
  /\ At("count") /\ at' = Goto("loop")
  /\ last' = [last EXCEPT ![Cont] = at.seen.count]
  /\ history' = [history EXCEPT ![Cont] =
       @ \o [n \in 1..Growth(last[Cont], at.seen.count) |-> 0]]
  /\ UNCHANGED <<autoStopped, prev, tables, admin, world, budget>>

\* Slip: the mark of the other reason.
ForgottenOther == autoStopped \ {<<Svc, "dep">>}
Forgotten == autoStopped \ {<<Svc, "loop">>}

\* evalRestartLoop, up to its first statement.
EvalLoop ==
  LET k == <<"restart_loop", Svc>>  recent == Recent(Cont) IN
  /\ At("loop")
  /\ history' = [history EXCEPT ![Cont] = recent]
  /\ \/ /\ Loops(recent)
        /\ at' = [Goto("raiseLoop") EXCEPT !.found = Select(k)]
        /\ UNCHANGED <<open, dismissed, autoStopped>>
     \/ /\ ~Loops(recent) /\ Calm(recent)
        /\ at' = Goto("events") /\ Resolve(k)
        /\ autoStopped' = Forgotten
     \/ /\ ~Loops(recent) /\ ~Calm(recent)
        /\ at' = Goto("events")
        /\ UNCHANGED <<open, dismissed, autoStopped>>
  /\ UNCHANGED <<last, prev, reported, admin, world, budget>>

RaiseLoop ==
  /\ At("raiseLoop")
  /\ Upsert(<<"restart_loop", Svc>>)
  /\ at' = Goto(IF /\ MaxRetries > 0 /\ Len(history[Cont]) >= MaxRetries
                   /\ <<Svc, "loop">> \notin autoStopped
                THEN "stopLoop" ELSE "events")
  /\ KeepMemory /\ UNCHANGED <<reported, admin, world, budget>>

\* Slip: a stop that succeeds is not remembered either.
StopForgets(reason) ==
  /\ cont' = Gone(Svc)
  /\ UNCHANGED <<autoStopped, budget>>

\* A stop that fails, and may have acted, is not remembered.
Stop(reason) ==
  \/ /\ cont' = Gone(Svc)
     /\ autoStopped' = autoStopped \cup {<<Svc, reason>>}
     /\ UNCHANGED budget
  \/ /\ Spend("fail")
     /\ cont' \in {cont, Gone(Svc)}
     /\ UNCHANGED autoStopped

StopLoop ==
  /\ At("stopLoop") /\ at' = Goto("events")
  /\ Stop("loop")
  /\ UNCHANGED <<last, history, prev, tables, admin, real>>

\* The service_events rows, and the state they will be compared with.
Events ==
  /\ At("events") /\ at' = EnterContainer(at.k + 1)
  /\ reported' = [reported EXCEPT ![Cont] = @ +
       (IF prev[Cont] = Unseen THEN 0
        ELSE Growth(prev[Cont].count, at.seen.count))]
  /\ prev' = [prev EXCEPT ![Cont] = at.seen]
  /\ UNCHANGED <<last, history, autoStopped>>
  /\ UNCHANGED <<open, dismissed, admin, world, budget>>

ReadMode ==
  /\ At("mode") /\ at' = [EnterDeps(1) EXCEPT !.mode = mode]
  /\ KeepMemory /\ UNCHANGED <<tables, admin, world, budget>>

CheckDeps ==
  /\ At("deps")
  /\ \/ /\ Deps[Svc] # <<>> /\ ~enabled[Svc]
        /\ Resolve(<<"upstream_unhealthy", Svc>>)
        /\ at' = EnterDeps(at.i + 1)
     \/ /\ Deps[Svc] = <<>> \/ enabled[Svc]
        /\ at' = EnterDep(1)
        /\ UNCHANGED <<open, dismissed>>
  /\ KeepMemory /\ UNCHANGED <<reported, admin, world, budget>>

Down(seen) ==
  seen.sick \/ seen.status \in {"exited", "restarting", "not_found"}

\* One container of one upstream service.
InspectUpstream ==
  /\ At("upstream")
  /\ \E a \in Answers(Conts[Dep][at.m]) :
       /\ at' = CASE Down(a) -> Goto("flag")
                  [] ~Down(a) /\ at.m < Len(Conts[Dep]) ->
                       [at EXCEPT !.m = @ + 1]
                  [] OTHER -> Goto("clear")
       /\ Charge(a = cont[Conts[Dep][at.m]])
  /\ KeepMemory /\ UNCHANGED <<tables, admin, world>>

ClearUpstream ==
  /\ At("clear") /\ at' = EnterDep(at.k + 1)
  /\ Resolve(<<"upstream_unhealthy", Svc>>)
  /\ autoStopped' = autoStopped \ {<<Svc, "dep">>}
  /\ UNCHANGED <<last, history, prev, reported, admin, world, budget>>

FlagUpstream ==
  /\ At("flag")
  /\ at' = [Goto("raiseDep") EXCEPT !.found = Select(<<"upstream_unhealthy", Svc>>)]
  /\ KeepMemory /\ UNCHANGED <<tables, admin, world, budget>>

RaiseUpstream ==
  /\ At("raiseDep")
  /\ Upsert(<<"upstream_unhealthy", Svc>>)
  /\ at' = IF at.mode = "flag_and_stop" /\ <<Svc, "dep">> \notin autoStopped
           THEN Goto("stopDep") ELSE EnterDep(at.k + 1)
  /\ KeepMemory /\ UNCHANGED <<reported, admin, world, budget>>

StopDependent ==
  /\ At("stopDep") /\ at' = EnterDep(at.k + 1)
  /\ Stop("dep")
  /\ UNCHANGED <<last, history, prev, tables, admin, real>>

-----------------------------------------------------------------------------
(* Everyone else.                                                          *)

\* A container changes state or health by itself or by someone's command.
Happen(c) ==
  /\ cont[c].status # "not_found" /\ Spend("change")
  /\ \E st \in {"running", "exited", "restarting"}, sick \in BOOLEAN :
       /\ sick => st = "running"
       /\ cont' = [cont EXCEPT ![c] = State(st, sick, @.count)]
  /\ UNCHANGED <<memory, tables, admin, real>>

\* Its restart policy starts it again.
Restarts(c) ==
  /\ cont[c].status # "not_found" /\ Spend("restart")
  /\ cont' = [cont EXCEPT ![c] = State("running", FALSE, @.count + 1)]
  /\ real' = [real EXCEPT ![c] = @ + 1]
  /\ UNCHANGED <<memory, tables, admin>>

\* compose up, by a user or by an update, which also recreates.
Start(s) ==
  /\ Spend("change")
  /\ \E new \in SUBSET Stack[s] :
       cont' = [c \in Containers |->
         IF c \in Stack[s] /\ (c \in new \/ cont[c].status # "running")
         THEN Running ELSE cont[c]]
  /\ UNCHANGED <<memory, tables, admin, real>>

\* compose down, by an update.
Remove(s) ==
  /\ Spend("change")
  /\ cont' = Gone(s)
  /\ UNCHANGED <<memory, tables, admin, real>>

\* Disabling a service whose containers all run stops its project first; a
\* failure to stop is ignored.  (That the flag changes some time after the
\* stop is covered too: Happen may stop a container before a Disable that
\* leaves the containers alone.)
Disable(s) ==
  /\ Spend("admin") /\ s \notin ReadOnly
  /\ enabled' = [enabled EXCEPT ![s] = FALSE]
  /\ \/ UNCHANGED cont
     \/ /\ \A c \in Of(Conts[s]) : cont[c].status = "running" /\ ~cont[c].sick
        /\ cont' = [c \in Containers |->
             IF c \in Stack[s] /\ cont[c].status # "not_found"
             THEN State("exited", FALSE, cont[c].count) ELSE cont[c]]
  /\ UNCHANGED <<memory, tables, mode, real>>

Enable(s) ==
  /\ Spend("admin") /\ s \notin ReadOnly
  /\ enabled' = [enabled EXCEPT ![s] = TRUE]
  /\ UNCHANGED <<memory, tables, mode, world>>

SetMode ==
  /\ Spend("admin") /\ mode' \in Modes
  /\ UNCHANGED <<memory, tables, enabled, world>>

\* ResolveAlertByID: refused when the row is resolved already.
Dismiss(k) ==
  /\ Spend("dismiss") /\ open[k] > 0
  /\ open' = [open EXCEPT ![k] = @ - 1]
  /\ dismissed' = dismissed \cup {k}
  /\ UNCHANGED <<memory, reported, admin, world>>

Older(age) == IF age < Window THEN age + 1 ELSE Window

Time ==
  /\ history' = [c \in Containers |->
       [n \in DOMAIN history[c] |-> Older(history[c][n])]]
  /\ UNCHANGED <<at, last, autoStopped, prev, tables, admin, world, budget>>

\* The process dies and starts again with an empty memory.
Restart ==
  /\ Spend("crash")
  /\ at' = Idle
  /\ last' = [c \in Containers |-> Unseen]
  /\ history' = [c \in Containers |-> <<>>]
  /\ autoStopped' = {}
  /\ prev' = [c \in Containers |-> Unseen]
  /\ UNCHANGED <<tables, admin, world>>

-----------------------------------------------------------------------------

Engine ==
  \/ Sweep \/ ReadEnabled \/ InspectOne \/ CheckHealth \/ RaiseHealth
  \/ Count \/ EvalLoop \/ RaiseLoop \/ StopLoop \/ Events
  \/ ReadMode \/ CheckDeps \/ InspectUpstream \/ ClearUpstream
  \/ FlagUpstream \/ RaiseUpstream \/ StopDependent

Environment ==
  \/ \E c \in Containers : Happen(c) \/ Restarts(c)
  \/ \E s \in Services : Start(s) \/ Remove(s) \/ Disable(s) \/ Enable(s)
  \/ \E k \in Keys : Dismiss(k)
  \/ SetMode \/ Time \/ Restart

Next == Engine \/ Environment

Spec == Init /\ [][Next]_vars

\* The loop is one goroutine whose every call has a timeout, and its ticker
\* keeps firing; and the clock goes on.
Fairness == WF_vars(Engine) /\ WF_vars(Time)

LiveSpec == Spec /\ Fairness
=============================================================================
