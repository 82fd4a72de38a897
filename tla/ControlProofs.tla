---------------------------- MODULE ControlProofs ----------------------------
(***************************************************************************)
(* Proofs about the handlers of services, for any registry the templates   *)
(* may describe and any number of requests in flight.  Everything rests on *)
(* one inductive invariant, ControlInv.                                    *)
(***************************************************************************)
EXTENDS ControlProperties, TLAPS

-----------------------------------------------------------------------------
(* Containers, projects and the compose commands.                          *)

\* A service runs when every one of its containers does.
LEMMA RunningIs ==
  ASSUME NEW s \in Services
  PROVE  /\ Running(s) <=> \A c \in Containers[s] : status[c] = "running"
         /\ Running(s)' <=> \A c \in Containers[s] : status'[c] = "running"
<1>1. Containers[s] # {}
  BY RegistryAssumption
<1>2. Running(s) <=> \A c \in Containers[s] : status[c] = "running"
  BY <1>1 DEF Running, DeriveState
<1>3. Running(s)' <=> \A c \in Containers[s] : status'[c] = "running"
  BY <1>1 DEF Running, DeriveState
<1> QED
  BY <1>2, <1>3

\* A compose project has one service that the user manages; the others are
\* infrastructure, which depends on nothing.
LEMMA ProjectMates ==
  ASSUME NEW s \in Manageable, NEW t \in Services, Project[t] = Project[s]
  PROVE  t = s \/ (t \in ReadOnly /\ Deps[t] = {})
BY RegistryAssumption DEF Manageable

\* So a dependency in another project is managed, and alone there.
LEMMA UpstreamIsManaged ==
  ASSUME NEW s \in Manageable, NEW t \in Services, NEW d \in Upstream(t),
         Project[d] = Project[s]
  PROVE  d = s
<1>1. d \in Deps[t] /\ d \in Services /\ Project[d] # Project[t]
  BY RegistryAssumption DEF Upstream
<1>2. d \notin ReadOnly
  BY <1>1, RegistryAssumption
<1> QED
  BY <1>1, <1>2, ProjectMates

\* A command on a project touches all containers of its services, and none of
\* the services of other projects.
LEMMA ProjectContainers ==
  ASSUME NEW s \in Services, NEW t \in Services
  PROVE  /\ Containers[t] \subseteq All
         /\ Project[t] = Project[s] => Containers[t] \subseteq Siblings(s)
         /\ Project[t] # Project[s] => Containers[t] \cap Siblings(s) = {}
BY RegistryAssumption DEF All, Siblings

\* "up" stops nothing, "stop" starts nothing, and each leaves alone the
\* containers of other projects.
Raises(s) ==
  /\ status' \in [All -> {"running", "unhealthy", "exited"}]
  /\ \A c \in All : status[c] = "running" => status'[c] = "running"
  /\ \A c \in All \ Siblings(s) : status'[c] = status[c]
Lowers(s) ==
  /\ status' \in [All -> {"running", "unhealthy", "exited"}]
  /\ \A c \in All : status'[c] \in {status[c], "exited"}
  /\ \A c \in All \ Siblings(s) : status'[c] = status[c]

LEMMA UpRaises ==
  ASSUME TypeOK, NEW s \in Services, UpOK(s) \/ UpFails(s)
  PROVE  Raises(s)
BY DEF TypeOK, UpOK, UpFails, Raises

LEMMA StopLowers ==
  ASSUME TypeOK, NEW s \in Services, StopOK(s) \/ StopFails(s)
  PROVE  Lowers(s)
BY DEF TypeOK, StopOK, StopFails, Lowers

LEMMA RaisedKeepRunning ==
  ASSUME NEW s \in Services, NEW t \in Services, Raises(s)
  PROVE  /\ Running(t) => Running(t)'
         /\ Project[t] # Project[s] =>
              (Running(t)' <=> Running(t)) /\ (Down(t)' <=> Down(t))
BY RunningIs, ProjectContainers DEF Raises, Down

LEMMA LoweredKeepDown ==
  ASSUME NEW s \in Services, NEW t \in Services, Lowers(s)
  PROVE  /\ Running(t)' => Running(t)
         /\ Down(t) => Down(t)'
         /\ Project[t] # Project[s] =>
              (Running(t)' <=> Running(t)) /\ (Down(t)' <=> Down(t))
<1>1. \A c \in Containers[t] : c \in All
  BY ProjectContainers
<1>2. Running(t)' => Running(t)
  BY <1>1, RunningIs DEF Lowers
<1>3. Down(t) => Down(t)'
  BY <1>1 DEF Lowers, Down
<1>4. ASSUME Project[t] # Project[s]
      PROVE  (Running(t)' <=> Running(t)) /\ (Down(t)' <=> Down(t))
  BY <1>4, RunningIs, ProjectContainers DEF Lowers, Down
<1> QED
  BY <1>2, <1>3, <1>4

\* A whole project goes up, or down, together.
LEMMA UpIsWhole ==
  ASSUME TypeOK, NEW s \in Services, NEW t \in Services, UpOK(s), Whole(t)
  PROVE  Whole(t)'
<1>1. \A c \in Containers[t] : c \in All
  BY ProjectContainers
<1>2. CASE Project[t] = Project[s]
  BY <1>1, <1>2, RunningIs, ProjectContainers DEF Whole, UpOK, Down
<1>3. CASE Project[t] # Project[s]
  BY <1>1, <1>3, RunningIs, ProjectContainers DEF Whole, UpOK, Down
<1> QED
  BY <1>2, <1>3

LEMMA StopIsWhole ==
  ASSUME TypeOK, NEW s \in Services, NEW t \in Services, StopOK(s)
  PROVE  /\ Whole(t) => Whole(t)'
         /\ Project[t] = Project[s] => Down(t)'
<1>1. \A c \in Containers[t] : c \in All
  BY ProjectContainers
<1>2. ASSUME Project[t] = Project[s] PROVE Down(t)'
  BY <1>1, <1>2, ProjectContainers DEF StopOK, Down
<1>3. ASSUME Project[t] # Project[s] PROVE Whole(t) => Whole(t)'
  BY <1>1, <1>3, RunningIs, ProjectContainers DEF Whole, StopOK, Down
<1> QED
  BY <1>2, <1>3 DEF Whole

-----------------------------------------------------------------------------
(* What steps of requests have in common.                                  *)

\* Everything ControlInv says of one request in flight.
Sound(w) ==
  /\ InStep(w) /\ StartSound(w) /\ StopSound(w) /\ DisableSound(w)
  /\ WriteSound(w) /\ GreenHolds(w)

Same(v) == pc'[v] = pc[v] /\ job'[v] = job[v]
Grows == happened \subseteq happened' /\ happened' \in SUBSET Mishaps

\* A step of request w: it stays what it is, or ends.
Advances(w) ==
  /\ Busy(w)
  /\ \E p \in PCs : pc' = [pc EXCEPT ![w] = p]
  /\ \E j \in Jobs : job' = [job EXCEPT ![w] = j]
  /\ \/ pc'[w] = "idle"
     \/ /\ job'[w].svc = job[w].svc /\ job'[w].act = job[w].act
        /\ job'[w].text = job[w].text

LEMMA NoJobIsTyped == NoJob \in Jobs
BY RegistryAssumption DEF NoJob, Jobs

\* Where a request stands says what it is about.
LEMMA ActIs ==
  ASSUME TypeOK, NEW w \in Workers, InStep(w), Busy(w)
  PROVE  LET a == job[w].act IN
         /\ Svc(w) \in Services /\ Allowed(Svc(w), a)
         /\ pc[w] \in {"enabled", "chain", "admit"} => a = "start"
         /\ pc[w] = "deps" => a \in {"start", "preflight"}
         /\ pc[w] = "up" => a \in {"start", "pull-restart"}
         /\ pc[w] = "dependents" => a = "stop"
         /\ pc[w] = "stop" => a \in {"stop", "disable"}
         /\ pc[w] = "restart" => a \in {"restart", "config"}
         /\ pc[w] = "pull" => a = "pull-restart"
         /\ pc[w] = "enable" => a = "enable"
         /\ pc[w] \in {"look", "clear"} => a = "disable"
         /\ pc[w] \in {"write", "revise"} => a = "config"
         /\ pc[w] \in {"preflight", "green"} => a = "preflight"
<1> DEFINE a == job[w].act
<1>1. job[w] \in Jobs /\ pc[w] \in Steps(a) /\ Allowed(Svc(w), a)
  BY DEF TypeOK, InStep
<1>2. a \in Acts \cup {"none"} /\ Svc(w) \in Services
  BY <1>1 DEF Jobs, Svc
<1>3. CASE a = "start"
  BY <1>1, <1>2, <1>3 DEF Steps
<1>4. CASE a = "stop"
  BY <1>1, <1>2, <1>4 DEF Steps
<1>5. CASE a = "restart"
  BY <1>1, <1>2, <1>5 DEF Steps
<1>6. CASE a = "pull-restart"
  BY <1>1, <1>2, <1>6 DEF Steps
<1>7. CASE a = "enable"
  BY <1>1, <1>2, <1>7 DEF Steps
<1>8. CASE a = "disable"
  BY <1>1, <1>2, <1>8 DEF Steps
<1>9. CASE a = "config"
  BY <1>1, <1>2, <1>9 DEF Steps
<1>10. CASE a = "preflight"
  BY <1>1, <1>2, <1>10 DEF Steps
<1>11. CASE a = "none"
  BY <1>1, <1>2, <1>11 DEF Steps
<1> QED
  BY <1>2, <1>3, <1>4, <1>5, <1>6, <1>7, <1>8, <1>9, <1>10, <1>11 DEF Acts

\* Only the services that the user manages are started, stopped or disabled.
LEMMA ManagedIs ==
  ASSUME NEW s \in Services, NEW a \in Acts, Allowed(s, a),
         a \in {"start", "stop", "disable"}
  PROVE  s \in Manageable
BY DEF Allowed, Manageable

LEMMA StepAdvances ==
  ASSUME TypeOK, NEW w \in Workers, Step(w)
  PROVE  Advances(w) /\ Grows
<1> USE DEF At, Quiet, Record
<1>1. job[w] \in Jobs /\ NoJob \in Jobs /\ happened \in SUBSET Mishaps
  BY NoJobIsTyped DEF TypeOK
<1>2. ASSUME NEW p \in PCs, Goto(w, p), Busy(w) PROVE Advances(w)
  <2>1. pc' = [pc EXCEPT ![w] = p] /\ job' = job
    BY <1>2 DEF Goto
  <2>2. job' = [job EXCEPT ![w] = job[w]]
    BY <2>1 DEF TypeOK
  <2> QED
    BY <1>1, <1>2, <2>1, <2>2 DEF Advances
<1>3. ASSUME Finish(w), Busy(w) PROVE Advances(w)
  <2>1. pc'[w] = "idle" /\ "idle" \in PCs
    BY <1>3 DEF Finish, TypeOK, PCs
  <2> QED
    BY <1>1, <1>3, <2>1 DEF Advances, Finish
<1>4. ASSUME NEW d, job' = [job EXCEPT ![w].todo = @ \ {d}], pc' = pc, Busy(w)
      PROVE  Advances(w)
  <2> DEFINE j == [job[w] EXCEPT !.todo = @ \ {d}]
  <2>1. j \in Jobs /\ j.svc = job[w].svc /\ j.act = job[w].act /\ j.text = job[w].text
    BY <1>1 DEF Jobs
  <2>2. job' = [job EXCEPT ![w] = j] /\ job'[w] = j
    BY <1>4 DEF TypeOK
  <2>3. pc' = [pc EXCEPT ![w] = pc[w]] /\ pc[w] \in PCs
    BY <1>4 DEF TypeOK
  <2> QED
    BY <1>4, <2>1, <2>2, <2>3 DEF Advances
<1>5. CASE CheckEnabled(w)
  BY <1>1, <1>2, <1>3, <1>5 DEF CheckEnabled, PCs, Busy, Grows
<1>6. CASE CheckDeps(w)
  <2>1. Busy(w) /\ Grows
    BY <1>1, <1>6 DEF CheckDeps, Busy, Grows
  <2>2. CASE \E d \in job[w].todo : Running(d) /\ job' = [job EXCEPT ![w].todo = @ \ {d}] /\ UNCHANGED pc
    BY <1>4, <2>1, <2>2
  <2>3. CASE Goto(w, IF job[w].act = "start" THEN "chain" ELSE "green")
    BY <1>2, <2>1, <2>3 DEF PCs
  <2>4. CASE Finish(w)
    BY <1>3, <2>1, <2>4
  <2> QED
    BY <1>6, <2>1, <2>2, <2>3, <2>4 DEF CheckDeps
<1>7. CASE CheckChain(w)
  BY <1>1, <1>2, <1>3, <1>7 DEF CheckChain, PCs, Busy, Grows, Mishaps
<1>8. CASE Admit(w)
  BY <1>1, <1>2, <1>3, <1>8 DEF Admit, PCs, Busy, Grows
<1>9. CASE Up(w)
  BY <1>1, <1>3, <1>9 DEF Up, Forced, Busy, Grows, Mishaps
<1>10. CASE CheckDependents(w)
  <2>1. Busy(w) /\ Grows
    BY <1>1, <1>10 DEF CheckDependents, Busy, Grows, Mishaps
  <2>2. CASE \E d \in job[w].todo : job' = [job EXCEPT ![w].todo = @ \ {d}] /\ UNCHANGED pc
    BY <1>4, <2>1, <2>2
  <2>3. CASE Goto(w, "stop")
    BY <1>2, <2>1, <2>3 DEF PCs
  <2>4. CASE Finish(w)
    BY <1>3, <2>1, <2>4
  <2> QED
    BY <1>10, <2>1, <2>2, <2>3, <2>4 DEF CheckDependents
<1>11. CASE Stop(w)
  BY <1>1, <1>2, <1>3, <1>11 DEF Stop, PCs, Busy, Grows, Mishaps
<1>12. CASE Restart(w)
  BY <1>1, <1>3, <1>12 DEF Restart, Busy, Grows, Mishaps
<1>13. CASE Pull(w)
  BY <1>1, <1>2, <1>3, <1>13 DEF Pull, PCs, Busy, Grows
<1>14. CASE Enable(w)
  BY <1>1, <1>3, <1>14 DEF Enable, SetEnabled, Busy, Grows
<1>15. CASE Look(w)
  BY <1>1, <1>2, <1>15 DEF Look, PCs, Busy, Grows, Mishaps
<1>16. CASE Clear(w)
  BY <1>1, <1>3, <1>16 DEF Clear, SetEnabled, Busy, Grows
<1>17. CASE WriteConfig(w)
  BY <1>1, <1>2, <1>3, <1>17 DEF WriteConfig, PCs, Busy, Grows, Mishaps
<1>18. CASE Revise(w)
  BY <1>1, <1>2, <1>3, <1>18 DEF Revise, PCs, Busy, Grows, Mishaps
<1>19. CASE Preflight(w)
  BY <1>1, <1>2, <1>3, <1>19 DEF Preflight, PCs, Busy, Grows
<1>20. CASE Green(w)
  BY <1>1, <1>3, <1>20 DEF Green, Busy, Grows
<1> QED
  BY <1>5, <1>6, <1>7, <1>8, <1>9, <1>10, <1>11, <1>12, <1>13, <1>14, <1>15,
     <1>16, <1>17, <1>18, <1>19, <1>20 DEF Step

\* The others stand where they stood, and nothing new conflicts.
LEMMA AdvanceKeeps ==
  ASSUME TypeOK, Crossing, NEW w \in Workers, Advances(w), Grows
  PROVE  /\ pc' \in [Workers -> PCs] /\ job' \in [Workers -> Jobs]
         /\ \A v \in Workers \ {w} : Same(v)
         /\ Crossing'
<1>1. pc' \in [Workers -> PCs] /\ job' \in [Workers -> Jobs]
  BY DEF TypeOK, Advances
<1>2. \A v \in Workers \ {w} : Same(v)
  BY DEF TypeOK, Advances, Same
<1>3. ASSUME Without({"crossed"})', NEW v \in Workers, NEW u \in Workers,
             v # u, Busy(v)', Busy(u)'
      PROVE  ~Conflict(Svc(v), job[v].act, Svc(u), job[u].act)'
  <2>1. Without({"crossed"})
    BY <1>3 DEF Without, Grows
  <2>2. \A x \in {v, u} : Busy(x) /\ job'[x].svc = job[x].svc /\ job'[x].act = job[x].act
    BY <1>2, <1>3 DEF Advances, Busy, Same
  <2>3. ~Conflict(Svc(v), job[v].act, Svc(u), job[u].act)
    BY <1>3, <2>1, <2>2 DEF Crossing
  <2> QED
    BY <2>2, <2>3 DEF Conflict, Opposed, Svc
<1>4. Crossing'
  BY <1>3 DEF Crossing
<1> QED
  BY <1>1, <1>2, <1>4

-----------------------------------------------------------------------------
(* A request that does not move, while the world does.                     *)

LEMMA SameStandsStill ==
  ASSUME NEW v \in Workers, Same(v), Grows
  PROVE  /\ InStep(v) => InStep(v)'
         /\ \A a, steps : Doing(v, a, steps)' <=> Doing(v, a, steps)
         /\ \A m : Without(m)' => Without(m)
         /\ Svc(v)' = Svc(v) /\ job'[v].todo = job[v].todo
BY DEF Same, Grows, InStep, Busy, Svc, Doing, Without, Allowed, Upstream

\* Its checks stay sound if the services it found running, or not running, or
\* down, stay so, and its own service keeps its flag and its file.
LEMMA BystanderSound ==
  ASSUME NEW v \in Workers, Sound(v), Same(v), Grows,
         Doing(v, "start", {"deps", "chain", "admit", "up"}) =>
           /\ Without({"crossed"})' /\ enabled[Svc(v)] => enabled'[Svc(v)]
           /\ Without({"crossed", "changed", "forced"})' =>
                \A d \in Upstream(Svc(v)) : Running(d) => Running(d)',
         Doing(v, "start", {"admit", "up"}) /\ Without({"blind", "moved"})' /\ fit
           => fit',
         Doing(v, "stop", {"dependents", "stop"})
           /\ Without({"crossed", "blind", "changed", "forced"})'
           => \A d \in Dependents(Svc(v)) : Running(d)' => Running(d),
         Doing(v, "disable", {"clear"})
           /\ Without({"crossed", "blind", "failed", "changed", "forced"})'
           /\ Down(Svc(v)) => Down(Svc(v))',
         Doing(v, "config", {"revise"}) /\ Without({"crossed"})'
           => file'[Svc(v)] = file[Svc(v)],
         Doing(v, "preflight", {"deps", "green"})
           /\ Without({"crossed", "changed", "forced"})'
           => \A d \in Deps[Svc(v)] : Running(d) => Running(d)'
  PROVE  Sound(v)'
<1>1. /\ InStep(v)'
      /\ \A a, steps : Doing(v, a, steps)' <=> Doing(v, a, steps)
      /\ \A m : Without(m)' => Without(m)
      /\ Svc(v)' = Svc(v) /\ job'[v].todo = job[v].todo
  BY SameStandsStill DEF Sound
<1>2. pc'[v] = pc[v] /\ job'[v] = job[v]
  BY DEF Same
<1>3. StartSound(v)'
  <2>1. StartSound(v)
    BY DEF Sound
  <2>2. Doing(v, "start", {"chain", "admit", "up"})' => job'[v].todo = {}
    BY <1>1, <2>1 DEF StartSound
  <2>3. ASSUME Doing(v, "start", {"deps", "chain", "admit", "up"})'
        PROVE  /\ Without({"crossed"})' => enabled'[Svc(v)']
               /\ Without({"crossed", "changed", "forced"})' =>
                    \A d \in Upstream(Svc(v))' \ job'[v].todo : Running(d)'
    <3>1. Doing(v, "start", {"deps", "chain", "admit", "up"})
      BY <1>1, <2>3
    <3>2. Without({"crossed"})' => enabled'[Svc(v)']
      BY <1>1, <2>1, <3>1 DEF StartSound
    <3>3. ASSUME Without({"crossed", "changed", "forced"})',
                 NEW d \in Upstream(Svc(v))' \ job'[v].todo
          PROVE  Running(d)'
      <4>1. d \in Upstream(Svc(v)) \ job[v].todo
        BY <1>1, <3>3 DEF Upstream
      <4> QED
        BY <1>1, <2>1, <3>1, <3>3, <4>1 DEF StartSound
    <3> QED
      BY <3>2, <3>3
  <2>4. ASSUME Doing(v, "start", {"admit", "up"})', Svc(v)' \in Needs,
               Without({"blind", "moved"})'
        PROVE  fit'
    <3>1. Doing(v, "start", {"admit", "up"}) /\ Svc(v) \in Needs
          /\ Without({"blind", "moved"})
      BY <1>1, <2>4
    <3>2. fit
      BY <2>1, <3>1, Zenon DEF StartSound
    <3> QED
      BY <2>4, <3>1, <3>2
  <2> QED
    BY <2>2, <2>3, <2>4 DEF StartSound
<1>4. StopSound(v)'
  <2>1. StopSound(v)
    BY DEF Sound
  <2>2. Doing(v, "stop", {"stop"})' => job'[v].todo = {}
    BY <1>1, <2>1 DEF StopSound
  <2>3. ASSUME Doing(v, "stop", {"dependents", "stop"})',
               Without({"crossed", "blind", "changed", "forced"})',
               NEW d \in Dependents(Svc(v))' \ job'[v].todo
        PROVE  ~Running(d)'
    <3>1. d \in Dependents(Svc(v)) \ job[v].todo
      BY <1>1, <2>3 DEF Dependents
    <3> QED
      BY <1>1, <2>1, <2>3, <3>1 DEF StopSound
  <2> QED
    BY <2>2, <2>3 DEF StopSound
<1>5. DisableSound(v)'
  <2>1. DisableSound(v)
    BY DEF Sound
  <2>2. Down(Svc(v))' <=> \A c \in Containers[Svc(v)] : status'[c] = "exited"
    BY <1>1 DEF Down
  <2> QED
    BY <1>1, <2>1, <2>2 DEF DisableSound, Down
<1>6. WriteSound(v)'
  BY <1>1, <1>2 DEF Sound, WriteSound
<1>7. GreenHolds(v)'
  <2>1. GreenHolds(v)
    BY DEF Sound
  <2> QED
    BY <1>1, <1>2, <2>1 DEF GreenHolds
<1> QED
  BY <1>1, <1>3, <1>4, <1>5, <1>6, <1>7 DEF Sound

\* What holds of the services, whatever the requests are about to do.
World ==
  /\ WholeOrDown /\ InfraIsEnabled /\ OrderKept /\ DisabledIsDown /\ UnfitStaysDown

LEMMA WorldKept ==
  ASSUME World, UNCHANGED <<status, enabled, fit>>, Grows
  PROVE  World'
<1>1. \A m : Without(m)' => Without(m)
  BY DEF Grows, Without
<1>2. \A s : Running(s)' <=> Running(s)
  BY DEF Running, DeriveState
<1>3. \A s : Down(s)' <=> Down(s)
  BY DEF Down
<1>4. WholeOrDown' /\ InfraIsEnabled'
  BY <1>1, <1>2, <1>3 DEF World, WholeOrDown, Whole, InfraIsEnabled
<1>5. OrderKept'
  <2>1. \A s : Upstream(s)' = Upstream(s)
    BY DEF Upstream
  <2> QED
    BY <1>1, <1>2, <2>1 DEF World, OrderKept
<1>6. DisabledIsDown' /\ UnfitStaysDown'
  BY <1>1, <1>3 DEF World, DisabledIsDown, UnfitStaysDown
<1> QED
  BY <1>4, <1>5, <1>6 DEF World

\* A restart, a pull-restart or a change of the containers excuses the rest.
LEMMA MishapsExcuse ==
  ASSUME World, UNCHANGED <<enabled, fit>>, Grows,
         {"forced", "changed"} \cap happened' # {}
  PROVE  World'
<1>1. /\ ~Without({"failed", "changed", "forced"})'
      /\ ~Without({"crossed", "blind", "changed", "forced", "disabled"})'
      /\ ~Without({"crossed", "blind", "failed", "changed", "forced"})'
      /\ ~Without({"blind", "changed", "moved", "forced"})'
  BY DEF Without
<1> QED
  BY <1>1 DEF World, WholeOrDown, InfraIsEnabled, OrderKept, DisabledIsDown,
              UnfitStaysDown

LEMMA MishapsExcuseChecks ==
  ASSUME NEW v \in Workers, Sound(v), Same(v), Grows,
         UNCHANGED <<enabled, fit, file>>, {"forced", "changed"} \cap happened' # {}
  PROVE  Sound(v)'
<1>1. /\ ~Without({"crossed", "changed", "forced"})'
      /\ ~Without({"crossed", "blind", "changed", "forced"})'
      /\ ~Without({"crossed", "blind", "failed", "changed", "forced"})'
  BY DEF Without
<1> QED
  BY <1>1, BystanderSound

LEMMA NothingChanges ==
  ASSUME NEW v \in Workers, Sound(v), Same(v), Grows,
         UNCHANGED <<status, enabled, fit, file>>
  PROVE  Sound(v)'
<1>1. \A s : Running(s)' <=> Running(s)
  BY DEF Running, DeriveState
<1>2. Down(Svc(v)) => Down(Svc(v))'
  BY DEF Down, Svc, Same
<1> QED
  BY <1>1, <1>2, BystanderSound

-----------------------------------------------------------------------------
(* Steps that only read: the checks of a request.                          *)

LEMMA Assemble ==
  ASSUME TypeOK', Crossing', World', FileIsRecorded',
         \A w \in Workers : Sound(w)'
  PROVE  ControlInv'
BY DEF ControlInv, Sound, World, InFlight, ChecksAreSound, PreflightHolds

LEMMA Parts ==
  ASSUME ControlInv
  PROVE  TypeOK /\ Crossing /\ World /\ FileIsRecorded /\ \A w \in Workers : Sound(w)
BY DEF ControlInv, Sound, World, InFlight, ChecksAreSound, PreflightHolds

LEMMA IdleIsSound ==
  ASSUME NEW w \in Workers, pc'[w] = "idle"
  PROVE  Sound(w)'
BY DEF Sound, InStep, Busy, StartSound, StopSound, DisableSound, WriteSound,
       GreenHolds, Doing

LEMMA FinishIsSound ==
  ASSUME TypeOK, NEW w \in Workers, Finish(w)
  PROVE  Sound(w)'
<1>1. pc'[w] = "idle"
  BY DEF TypeOK, Finish
<1> QED
  BY <1>1, IdleIsSound

\* A request that was not about to store a revision, and leaves the files alone.
LEMMA RecordedKept ==
  ASSUME FileIsRecorded, NEW w \in Workers, ~Doing(w, "config", {"revise"}),
         \A v \in Workers \ {w} : Same(v), Grows, UNCHANGED <<file, revision>>
  PROVE  FileIsRecorded'
<1> SUFFICES ASSUME Without({"crossed", "failed", "unsaved"})', NEW s \in Configurable,
                    file[s] # revision[s]
             PROVE  \E v \in Workers : (/\ Doing(v, "config", {"revise"}) /\ Svc(v) = s
                                        /\ job[v].text = file[s])'
  BY DEF FileIsRecorded
<1>1. PICK v \in Workers : /\ Doing(v, "config", {"revise"}) /\ Svc(v) = s
                           /\ job[v].text = file[s]
  BY DEF FileIsRecorded, Without, Grows
<1>2. Same(v)
  BY <1>1
<1> QED
  BY <1>1, <1>2 DEF Same, Doing, Svc

LEMMA ReadingKeeps ==
  ASSUME ControlInv, NEW w \in Workers, Advances(w), Grows,
         UNCHANGED <<status, enabled, file, revision, fit, left>>,
         pc[w] # "revise", Sound(w)'
  PROVE  ControlInv'
<1>1. TypeOK /\ Crossing /\ World /\ FileIsRecorded /\ \A v \in Workers : Sound(v)
  BY Parts
<1>2. /\ pc' \in [Workers -> PCs] /\ job' \in [Workers -> Jobs]
      /\ \A v \in Workers \ {w} : Same(v)
      /\ Crossing'
  BY <1>1, AdvanceKeeps
<1>3. TypeOK'
  BY <1>1, <1>2 DEF TypeOK, Grows
<1>4. \A v \in Workers : Sound(v)'
  BY <1>1, <1>2, NothingChanges
<1>5. World'
  BY <1>1, WorldKept
<1>6. FileIsRecorded'
  BY <1>1, <1>2, RecordedKept DEF Doing
<1> QED
  BY <1>2, <1>3, <1>4, <1>5, <1>6, Assemble

LEMMA CheckEnabledSound ==
  ASSUME ControlInv, NEW w \in Workers, CheckEnabled(w)
  PROVE  Sound(w)'
<1>1. TypeOK /\ Sound(w)
  BY Parts
<1>2. CASE Finish(w)
  BY <1>1, <1>2, FinishIsSound
<1>3. CASE enabled[Svc(w)] /\ Goto(w, "deps")
  <2>1. pc[w] = "enabled" /\ pc'[w] = "deps" /\ job' = job /\ enabled' = enabled
    BY <1>1, <1>3 DEF CheckEnabled, At, Goto, TypeOK, KeepTables
  <2>2. job[w].act = "start" /\ Allowed(Svc(w), "start") /\ job[w].todo = Upstream(Svc(w))
    BY <1>1, <2>1, ActIs DEF Sound, InStep, Busy
  <2>3. Svc(w)' = Svc(w) /\ job'[w].act = "start" /\ job'[w].todo = Upstream(Svc(w))'
    BY <2>1, <2>2 DEF Svc, Upstream
  <2>4. InStep(w)'
    BY <2>1, <2>2, <2>3 DEF InStep, Busy, Steps, Allowed
  <2>5. StartSound(w)'
    BY <1>3, <2>1, <2>3 DEF StartSound, Doing
  <2> QED
    BY <2>1, <2>3, <2>4, <2>5 DEF Sound, StopSound, DisableSound, WriteSound,
                                  GreenHolds, Doing
<1> QED
  BY <1>2, <1>3 DEF CheckEnabled

LEMMA CheckDepsSound ==
  ASSUME ControlInv, NEW w \in Workers, CheckDeps(w)
  PROVE  Sound(w)'
<1>1. TypeOK /\ Sound(w) /\ pc[w] = "deps" /\ UNCHANGED <<status, enabled, happened>>
  BY Parts DEF CheckDeps, At, KeepTables, KeepHost, Quiet
<1>2. job[w].act \in {"start", "preflight"} /\ Allowed(Svc(w), job[w].act)
  BY <1>1, ActIs DEF Sound, Busy
<1>3. \A s : Running(s)' <=> Running(s)
  BY <1>1 DEF Running, DeriveState
<1>4. \A m : Without(m)' <=> Without(m)
  BY <1>1 DEF Without
<1>5. CASE Finish(w)
  BY <1>1, <1>5, FinishIsSound
<1>6. ASSUME pc'[w] \in {"deps", IF job[w].act = "start" THEN "chain" ELSE "green"},
             job'[w].svc = job[w].svc, job'[w].act = job[w].act,
             \A d \in job[w].todo \ job'[w].todo : Running(d),
             pc'[w] # "deps" => job'[w].todo = {}
      PROVE  Sound(w)'
  <2>1. Svc(w)' = Svc(w)
    BY <1>6 DEF Svc
  <2>2. InStep(w)'
    BY <1>2, <1>6, <2>1 DEF InStep, Busy, Steps, Allowed
  <2>3. StartSound(w)'
    <3>1. StartSound(w)
      BY <1>1 DEF Sound
    <3>2. ASSUME Doing(w, "start", {"deps", "chain", "admit", "up"})'
          PROVE  /\ Without({"crossed"})' => enabled'[Svc(w)']
                 /\ Without({"crossed", "changed", "forced"})' =>
                      \A d \in Upstream(Svc(w))' \ job'[w].todo : Running(d)'
      <4>1. Doing(w, "start", {"deps", "chain", "admit", "up"})
        BY <1>1, <1>6, <3>2 DEF Doing
      <4>2. Upstream(Svc(w))' = Upstream(Svc(w))
        BY <2>1 DEF Upstream
      <4> QED
        BY <1>1, <1>3, <1>4, <1>6, <2>1, <3>1, <4>1, <4>2 DEF StartSound
    <3> QED
      BY <1>6, <3>2 DEF StartSound, Doing
  <2>4. GreenHolds(w)'
    <3>1. GreenHolds(w)
      BY <1>1 DEF Sound
    <3>2. ASSUME Doing(w, "preflight", {"deps", "green"})'
          PROVE  /\ pc'[w] = "green" => job'[w].todo = {}
                 /\ Without({"crossed", "changed", "forced"})' =>
                      \A d \in Deps[Svc(w)'] \ job'[w].todo : Running(d)'
      <4>1. Doing(w, "preflight", {"deps", "green"})
        BY <1>1, <1>6, <3>2 DEF Doing
      <4> QED
        BY <1>3, <1>4, <1>6, <2>1, <3>1, <4>1 DEF GreenHolds
    <3> QED
      BY <3>2 DEF GreenHolds
  <2> QED
    BY <1>2, <1>6, <2>2, <2>3, <2>4 DEF Sound, StopSound, DisableSound, WriteSound,
                                        Doing
<1>7. CASE \E d \in job[w].todo :
             /\ Running(d)
             /\ job' = [job EXCEPT ![w].todo = @ \ {d}] /\ UNCHANGED pc
  <2>1. PICK d \in job[w].todo :
             /\ Running(d)
             /\ job' = [job EXCEPT ![w].todo = @ \ {d}] /\ UNCHANGED pc
    BY <1>7
  <2>2. /\ job'[w].todo = job[w].todo \ {d}
        /\ job'[w].svc = job[w].svc /\ job'[w].act = job[w].act
    BY <1>1, <2>1 DEF TypeOK, Jobs
  <2> QED
    BY <1>1, <1>6, <2>1, <2>2
<1>8. CASE job[w].todo = {} /\ Goto(w, IF job[w].act = "start" THEN "chain" ELSE "green")
  <2>1. job' = job /\ pc'[w] = IF job[w].act = "start" THEN "chain" ELSE "green"
    BY <1>1, <1>8 DEF Goto, TypeOK
  <2> QED
    BY <1>6, <1>8, <2>1
<1> QED
  BY <1>5, <1>7, <1>8 DEF CheckDeps

LEMMA CheckChainSound ==
  ASSUME ControlInv, NEW w \in Workers, CheckChain(w) \/ Admit(w)
  PROVE  Sound(w)'
<1>1. /\ TypeOK /\ Sound(w) /\ pc[w] \in {"chain", "admit"}
      /\ UNCHANGED <<status, enabled, fit>>
  BY Parts DEF CheckChain, Admit, At, KeepTables, KeepHost
<1>2. job[w].act = "start" /\ Allowed(Svc(w), "start")
  BY <1>1, ActIs DEF Sound, Busy
<1>3. CASE Finish(w)
  BY <1>1, <1>3, FinishIsSound
<1>4. CASE ~Finish(w)
  <2>1. /\ job' = job /\ pc'[w] \in {"admit", "up"} /\ Grows
        /\ fit \/ Svc(w) \notin Needs \/ pc[w] = "admit" \/ "blind" \in happened'
    BY <1>1, <1>4 DEF CheckChain, Admit, Goto, TypeOK, Grows, Quiet, Record, Mishaps, At
  <2>2. Svc(w)' = Svc(w) /\ Upstream(Svc(w))' = Upstream(Svc(w))
    BY <2>1 DEF Svc, Upstream
  <2>3. InStep(w)'
    BY <1>2, <2>1, <2>2 DEF InStep, Busy, Steps, Allowed
  <2>4. \A m : Without(m)' => Without(m)
    BY <2>1 DEF Without, Grows
  <2>5. \A s : Running(s)' <=> Running(s)
    BY <1>1 DEF Running, DeriveState
  <2>6. StartSound(w)
    BY <1>1 DEF Sound
  <2>7. job'[w].todo = {} /\ job'[w].act = "start"
    BY <1>1, <1>2, <2>1, <2>6 DEF StartSound, Doing
  <2>8. /\ Without({"crossed"})' => enabled'[Svc(w)']
        /\ Without({"crossed", "changed", "forced"})' =>
             \A d \in Upstream(Svc(w))' \ job'[w].todo : Running(d)'
    BY <1>1, <1>2, <2>1, <2>2, <2>4, <2>5, <2>6 DEF StartSound, Doing
  <2>9. ASSUME Svc(w)' \in Needs, Without({"blind", "moved"})' PROVE fit'
    <3>1. "blind" \notin happened'
      BY <2>9 DEF Without
    <3>2. Without({"blind", "moved"}) /\ Svc(w) \in Needs
      BY <2>2, <2>4, <2>9
    <3>3. CASE pc[w] = "admit"
      <4>1. Doing(w, "start", {"admit", "up"})
        BY <1>2, <3>3 DEF Doing
      <4>2. fit
        BY <2>6, <3>2, <4>1, Zenon DEF StartSound
      <4> QED
        BY <1>1, <4>2
    <3>4. CASE fit
      BY <1>1, <3>4
    <3> QED
      BY <2>1, <3>1, <3>2, <3>3, <3>4
  <2>10. StartSound(w)'
    BY <2>1, <2>7, <2>8, <2>9 DEF StartSound, Doing
  <2> QED
    BY <2>1, <2>3, <2>7, <2>10 DEF Sound, StopSound, DisableSound, WriteSound,
                                   GreenHolds, Doing
<1> QED
  BY <1>3, <1>4

LEMMA CheckDependentsSound ==
  ASSUME ControlInv, NEW w \in Workers, CheckDependents(w)
  PROVE  Sound(w)'
<1>1. /\ TypeOK /\ Sound(w) /\ pc[w] = "dependents" /\ UNCHANGED <<status, enabled>>
  BY Parts DEF CheckDependents, At, KeepTables, KeepHost
<1>2. job[w].act = "stop" /\ Allowed(Svc(w), "stop")
  BY <1>1, ActIs DEF Sound, Busy
<1>3. \A s : Running(s)' <=> Running(s)
  BY <1>1 DEF Running, DeriveState
<1>4. Grows
  BY <1>1 DEF CheckDependents, Quiet, Record, Grows, Mishaps, TypeOK
<1>5. \A m : Without(m)' => Without(m)
  BY <1>4 DEF Without, Grows
<1>6. CASE Finish(w)
  BY <1>1, <1>6, FinishIsSound
<1>7. ASSUME pc'[w] \in {"dependents", "stop"}, job'[w].svc = job[w].svc,
             job'[w].act = job[w].act,
             \A d \in job[w].todo \ job'[w].todo : Running(d) => "blind" \in happened',
             pc'[w] = "stop" => job'[w].todo = {}
      PROVE  Sound(w)'
  <2>1. Svc(w)' = Svc(w) /\ Dependents(Svc(w))' = Dependents(Svc(w))
    BY <1>7 DEF Svc, Dependents
  <2>2. InStep(w)'
    BY <1>2, <1>7, <2>1 DEF InStep, Busy, Steps, Allowed
  <2>3. StopSound(w) /\ Doing(w, "stop", {"dependents", "stop"})
    BY <1>1, <1>2 DEF Sound, Doing
  <2>4. ASSUME Without({"crossed", "blind", "changed", "forced"})',
               NEW d \in Dependents(Svc(w))' \ job'[w].todo
        PROVE  ~Running(d)'
    <3>1. "blind" \notin happened'
      BY <2>4 DEF Without
    <3>2. CASE d \in job[w].todo
      BY <1>3, <1>7, <2>4, <3>1, <3>2
    <3>3. CASE d \notin job[w].todo
      BY <1>3, <1>5, <2>1, <2>3, <2>4, <3>3 DEF StopSound
    <3> QED
      BY <3>2, <3>3
  <2>5. StopSound(w)'
    BY <1>7, <2>4 DEF StopSound, Doing
  <2> QED
    BY <1>2, <1>7, <2>2, <2>5 DEF Sound, StartSound, DisableSound, WriteSound,
                                  GreenHolds, Doing
<1>8. CASE \E d \in job[w].todo :
             /\ job' = [job EXCEPT ![w].todo = @ \ {d}] /\ UNCHANGED pc
             /\ IF Running(d) THEN Record({"blind"}) ELSE Quiet
  <2>1. PICK d \in job[w].todo :
             /\ job' = [job EXCEPT ![w].todo = @ \ {d}] /\ UNCHANGED pc
             /\ IF Running(d) THEN Record({"blind"}) ELSE Quiet
    BY <1>8
  <2>2. /\ job'[w].todo = job[w].todo \ {d}
        /\ job'[w].svc = job[w].svc /\ job'[w].act = job[w].act
    BY <1>1, <2>1 DEF TypeOK, Jobs
  <2>3. Running(d) => "blind" \in happened'
    BY <2>1 DEF Record
  <2> QED
    BY <1>1, <1>7, <2>1, <2>2, <2>3
<1>9. CASE job[w].todo = {} /\ Goto(w, "stop")
  <2>1. job' = job /\ pc'[w] = "stop"
    BY <1>1, <1>9 DEF Goto, TypeOK
  <2> QED
    BY <1>7, <1>9, <2>1
<1> QED
  BY <1>6, <1>8, <1>9 DEF CheckDependents

LEMMA LookSound ==
  ASSUME ControlInv, NEW w \in Workers, Look(w)
  PROVE  Sound(w)'
<1>1. /\ TypeOK /\ Sound(w) /\ World /\ pc[w] = "look" /\ UNCHANGED status
  BY Parts DEF Look, At, KeepHost
<1>2. job[w].act = "disable" /\ Allowed(Svc(w), "disable") /\ Svc(w) \in Services
  BY <1>1, ActIs DEF Sound, Busy
<1>3. /\ job' = job /\ pc'[w] \in {"stop", "clear"} /\ Grows
      /\ pc'[w] = "clear" => ~Running(Svc(w)) \/ "blind" \in happened'
  BY <1>1 DEF Look, Goto, TypeOK, Grows, Quiet, Record, Mishaps
<1>4. Svc(w)' = Svc(w)
  BY <1>3 DEF Svc
<1>5. InStep(w)'
  BY <1>2, <1>3, <1>4 DEF InStep, Busy, Steps, Allowed
<1>6. ASSUME Doing(w, "disable", {"clear"})',
             Without({"crossed", "blind", "failed", "changed", "forced"})'
      PROVE  Down(Svc(w))'
  <2>1. ~Running(Svc(w)) /\ Without({"failed", "changed", "forced"})
    BY <1>3, <1>6 DEF Doing, Without, Grows
  <2>2. Down(Svc(w))
    BY <1>1, <1>2, <2>1 DEF World, WholeOrDown, Whole
  <2> QED
    BY <1>1, <1>4, <2>2 DEF Down
<1> QED
  BY <1>2, <1>3, <1>5, <1>6 DEF Sound, StartSound, StopSound, DisableSound,
                                WriteSound, GreenHolds, Doing

LEMMA OtherReadsSound ==
  ASSUME ControlInv, NEW w \in Workers, Pull(w) \/ Preflight(w) \/ Green(w)
  PROVE  Sound(w)'
<1>1. TypeOK /\ Sound(w) /\ UNCHANGED happened
  BY Parts DEF Pull, Preflight, Green, Quiet
<1>2. CASE Finish(w)
  BY <1>1, <1>2, FinishIsSound
<1>3. CASE Pull(w) /\ Goto(w, "up")
  <2>1. pc[w] = "pull" /\ job' = job /\ pc'[w] = "up"
    BY <1>1, <1>3 DEF Pull, At, Goto, TypeOK
  <2>2. job[w].act = "pull-restart" /\ Allowed(Svc(w), "pull-restart")
    BY <1>1, <2>1, ActIs DEF Sound, Busy
  <2>3. InStep(w)'
    BY <2>1, <2>2 DEF InStep, Busy, Steps, Allowed, Svc
  <2> QED
    BY <2>1, <2>2, <2>3 DEF Sound, StartSound, StopSound, DisableSound,
                            WriteSound, GreenHolds, Doing
<1>4. CASE Preflight(w) /\ Goto(w, "deps")
  <2>1. pc[w] = "preflight" /\ job' = job /\ pc'[w] = "deps"
    BY <1>1, <1>4 DEF Preflight, At, Goto, TypeOK
  <2>2. /\ job[w].act = "preflight" /\ Allowed(Svc(w), "preflight")
        /\ job[w].todo = Deps[Svc(w)]
    BY <1>1, <2>1, ActIs DEF Sound, Busy, InStep
  <2>3. Svc(w)' = Svc(w)
    BY <2>1 DEF Svc
  <2>4. InStep(w)'
    BY <2>1, <2>2, <2>3 DEF InStep, Busy, Steps, Allowed
  <2> QED
    BY <2>1, <2>2, <2>3, <2>4 DEF Sound, StartSound, StopSound, DisableSound,
                            WriteSound, GreenHolds, Doing
<1> QED
  BY <1>2, <1>3, <1>4 DEF Pull, Preflight, Green

\* Every step of a request that only reads keeps the invariant.
LEMMA ReadingStepKeeps ==
  ASSUME ControlInv, NEW w \in Workers, UNCHANGED left,
         \/ CheckEnabled(w) \/ CheckDeps(w) \/ CheckChain(w) \/ Admit(w)
         \/ CheckDependents(w) \/ Pull(w) \/ Look(w) \/ Preflight(w) \/ Green(w)
  PROVE  ControlInv'
<1>1. TypeOK /\ Step(w)
  BY Parts DEF Step
<1>2. Advances(w) /\ Grows
  BY <1>1, StepAdvances
<1>3. UNCHANGED <<status, enabled, file, revision, fit, left>> /\ pc[w] # "revise"
  BY DEF CheckEnabled, CheckDeps, CheckChain, Admit, CheckDependents, Pull, Look,
         Preflight, Green, KeepTables, KeepHost, At
<1>4. Sound(w)'
  BY CheckEnabledSound, CheckDepsSound, CheckChainSound, CheckDependentsSound,
     LookSound, OtherReadsSound
<1> QED
  BY <1>2, <1>3, <1>4, ReadingKeeps

\* A new request conflicts with none in flight, or is recorded as crossing.
LEMMA RequestKeeps ==
  ASSUME ControlInv, NEW w \in Workers, NEW s \in Services, NEW a \in Acts,
         NEW text \in Texts \cup {Torn}, NEW again \in BOOLEAN,
         Request(w, s, a, text, again)
  PROVE  ControlInv'
<1>1. TypeOK /\ Crossing /\ World /\ FileIsRecorded /\ \A v \in Workers : Sound(v)
  BY Parts
<1> DEFINE todo == IF a = "start" THEN Upstream(s)
                   ELSE IF a = "preflight" THEN Deps[s]
                   ELSE IF a = "stop" THEN Dependents(s) ELSE {}
           j == [svc |-> s, act |-> a, text |-> text, again |-> again, todo |-> todo]
<1>2. /\ pc[w] = "idle" /\ Allowed(s, a)
      /\ pc' = [pc EXCEPT ![w] = First[a]] /\ job' = [job EXCEPT ![w] = j]
      /\ UNCHANGED <<status, enabled, file, revision, fit>>
      /\ left \in Nat /\ left > 0 /\ left' = left - 1
  BY <1>1 DEF Request, Busy, KeepTables, KeepHost, Spend, TypeOK
<1>3. j \in Jobs
  <2>1. todo \in SUBSET Services
    BY RegistryAssumption DEF Upstream, Dependents
  <2> QED
    BY <2>1 DEF Jobs
<1>4. /\ a = "start" => First[a] = "enabled"
      /\ a = "stop" => First[a] = "dependents"
      /\ a = "restart" => First[a] = "restart"
      /\ a = "pull-restart" => First[a] = "pull"
      /\ a = "enable" => First[a] = "enable"
      /\ a = "disable" => First[a] = "look"
      /\ a = "config" => First[a] = "write"
      /\ a = "preflight" => First[a] = "preflight"
  BY DEF First, Acts
<1>5. First[a] \in PCs \ {"idle"} /\ First[a] \in Steps(a)
  BY <1>4 DEF Acts, PCs, Steps
<1>6. /\ pc'[w] = First[a] /\ job'[w] = j
      /\ \A v \in Workers \ {w} : Same(v)
      /\ pc' \in [Workers -> PCs] /\ job' \in [Workers -> Jobs]
  BY <1>1, <1>2, <1>3, <1>5 DEF TypeOK, Same
<1>7. Grows
  BY <1>1 DEF Request, Record, Grows, Mishaps, TypeOK
<1>8. TypeOK'
  BY <1>1, <1>2, <1>6, <1>7 DEF TypeOK, Grows
<1>9. Crossing'
  <2> SUFFICES ASSUME Without({"crossed"})', NEW v \in Workers, NEW u \in Workers,
                      v # u, Busy(v)', Busy(u)'
               PROVE  ~Conflict(Svc(v), job[v].act, Svc(u), job[u].act)'
    BY DEF Crossing
  <2>1. Without({"crossed"}) /\ "crossed" \notin happened'
    BY <1>7 DEF Without, Grows
  <2>2. \A x \in Workers \ {w} : Busy(x)' => ~Conflict(s, a, Svc(x), job[x].act)
    <3>1. "crossed" \notin {m \in {"crossed"} : \E x \in Workers \ {w} :
               Busy(x) /\ Conflict(s, a, job[x].svc, job[x].act)}
      BY <2>1 DEF Request, Record
    <3>2. \A x \in Workers \ {w} : ~(Busy(x) /\ Conflict(s, a, job[x].svc, job[x].act))
      BY <3>1
    <3> QED
      BY <1>6, <3>2 DEF Busy, Same, Svc
  <2>3. \A x \in Workers \ {w} : job'[x] = job[x] /\ (Busy(x)' => Busy(x))
    BY <1>6 DEF Same, Busy
  <2>4. CASE v = w
    BY <1>6, <2>2, <2>3, <2>4 DEF Svc, Conflict, Opposed
  <2>5. CASE u = w
    BY <1>6, <2>2, <2>3, <2>5 DEF Svc, Conflict, Opposed
  <2>6. CASE v # w /\ u # w
    <3>1. ~Conflict(Svc(v), job[v].act, Svc(u), job[u].act)
      BY <1>1, <2>1, <2>3, <2>6 DEF Crossing
    <3> QED
      BY <2>3, <2>6, <3>1 DEF Svc, Conflict, Opposed
  <2> QED
    BY <2>4, <2>5, <2>6
<1>10. Sound(w)'
  <2>1. Svc(w)' = s /\ job'[w].act = a /\ job'[w].todo = todo
    BY <1>6 DEF Svc
  <2>2. First[a] = "enabled" => a = "start"
    BY <1>4 DEF Acts
  <2>3. First[a] = "preflight" => a = "preflight"
    BY <1>4 DEF Acts
  <2>4. InStep(w)'
    BY <1>2, <1>5, <1>6, <2>1, <2>2, <2>3 DEF InStep, Busy, Allowed, Upstream
  <2>5. StartSound(w)'
    BY <1>4, <1>6, <2>1 DEF StartSound, Doing
  <2>6. StopSound(w)'
    BY <1>4, <1>6, <2>1 DEF StopSound, Doing, Dependents
  <2>7. DisableSound(w)' /\ WriteSound(w)' /\ GreenHolds(w)'
    BY <1>4, <1>6, <2>1 DEF DisableSound, WriteSound, GreenHolds, Doing
  <2> QED
    BY <2>4, <2>5, <2>6, <2>7 DEF Sound
<1>11. \A v \in Workers : Sound(v)'
  BY <1>1, <1>2, <1>6, <1>7, <1>10, NothingChanges
<1>12. World'
  BY <1>1, <1>2, <1>7, WorldKept
<1>13. FileIsRecorded'
  BY <1>1, <1>2, <1>6, <1>7, RecordedKept DEF Doing
<1> QED
  BY <1>8, <1>9, <1>11, <1>12, <1>13, Assemble

-----------------------------------------------------------------------------
(* Commands.                                                               *)

\* A restart, a pull-restart and a change of the host excuse everything that
\* depends on containers.
LEMMA ForcedKeeps ==
  ASSUME ControlInv, NEW w \in Workers, Advances(w), Grows, Sound(w)',
         {"forced", "changed"} \cap happened' # {},
         status' \in [All -> {"running", "unhealthy", "exited"}],
         UNCHANGED <<enabled, file, revision, fit, left>>, pc[w] # "revise"
  PROVE  ControlInv'
<1>1. TypeOK /\ Crossing /\ World /\ FileIsRecorded /\ \A v \in Workers : Sound(v)
  BY Parts
<1>2. /\ pc' \in [Workers -> PCs] /\ job' \in [Workers -> Jobs]
      /\ \A v \in Workers \ {w} : Same(v)
      /\ Crossing'
  BY <1>1, AdvanceKeeps
<1>3. TypeOK'
  BY <1>1, <1>2 DEF TypeOK, Grows
<1>4. \A v \in Workers : Sound(v)'
  BY <1>1, <1>2, MishapsExcuseChecks
<1>5. World'
  BY <1>1, MishapsExcuse
<1>6. FileIsRecorded'
  BY <1>1, <1>2, RecordedKept DEF Doing
<1> QED
  BY <1>2, <1>3, <1>4, <1>5, <1>6, Assemble

LEMMA NoConflict ==
  ASSUME Crossing, Without({"crossed"}), NEW w \in Workers, NEW v \in Workers,
         v # w, Busy(w), Busy(v)
  PROVE  ~Conflict(Svc(v), job[v].act, Svc(w), job[w].act)
BY DEF Crossing

LEMMA RestartKeeps ==
  ASSUME ControlInv, NEW w \in Workers, Restart(w), UNCHANGED left
  PROVE  ControlInv'
<1>1. TypeOK /\ Advances(w) /\ Grows
  BY Parts, StepAdvances DEF Step
<1>2. Sound(w)'
  BY <1>1, FinishIsSound DEF Restart
<1>3. status' \in [All -> {"running", "unhealthy", "exited"}]
  BY <1>1 DEF Restart, RestartOK, RestartFails, TypeOK
<1>4. "forced" \in happened'
  BY DEF Restart, Record
<1> QED
  BY <1>1, <1>2, <1>3, <1>4, ForcedKeeps DEF Restart, KeepTables, At

\* A start that was not forced: its checks were sound, and nobody may have
\* done what they excluded.
LEMMA StartKeepsOthers ==
  ASSUME ControlInv, NEW w \in Workers, Up(w), job[w].act = "start",
         NEW v \in Workers, v # w, Same(v), Grows
  PROVE  Sound(v)'
<1>1. TypeOK /\ Crossing /\ Sound(v) /\ Sound(w) /\ Busy(w)
  BY Parts DEF Up, At, Busy
<1>2. /\ Svc(w) \in Services /\ Svc(w) \in Manageable
      /\ UNCHANGED <<enabled, file, fit>>
  BY <1>1, ActIs, ManagedIs DEF Sound, Up, Acts, KeepTables
<1>3. Raises(Svc(w))
  BY <1>1, <1>2, UpRaises DEF Up
<1>4. \A m : Without(m)' => Without(m)
  BY DEF Without, Grows
<1>5. \A d \in Services : Running(d) => Running(d)'
  BY <1>2, <1>3, RaisedKeepRunning
<1>6. /\ \A s \in Services : Upstream(s) \subseteq Services /\ Deps[s] \subseteq Services
      /\ \A s : Dependents(s) \subseteq Services
  BY RegistryAssumption DEF Upstream, Dependents
<1>7. Busy(v) => Svc(v) \in Services /\ Allowed(Svc(v), job[v].act)
  BY <1>1, ActIs DEF Sound
<1>8. ASSUME Doing(v, "stop", {"dependents", "stop"}), Without({"crossed"})',
             NEW d \in Dependents(Svc(v)), Running(d)'
      PROVE  Running(d)
  <2>1. Busy(v) /\ job[v].act = "stop"
    BY <1>8 DEF Doing, Busy
  <2>2. Svc(v) \in Services /\ d \in Services /\ Svc(v) \in Deps[d]
    BY <1>6, <1>7, <1>8, <2>1 DEF Dependents
  <2>3. d # Svc(w)
    BY <1>1, <1>4, <1>8, <2>1, <2>2, NoConflict DEF Conflict, Opposed
  <2>4. d \notin ReadOnly
    BY <2>2, RegistryAssumption
  <2>5. Project[d] # Project[Svc(w)]
    BY <1>2, <2>2, <2>3, <2>4, ProjectMates
  <2> QED
    BY <1>2, <1>3, <1>8, <2>2, <2>5, RaisedKeepRunning
<1>9. ASSUME Doing(v, "disable", {"clear"}), Without({"crossed"})', Down(Svc(v))
      PROVE  Down(Svc(v))'
  <2>1. Busy(v) /\ job[v].act = "disable"
    BY <1>9 DEF Doing, Busy
  <2>2. Svc(v) \in Services /\ Svc(v) \in Manageable
    BY <1>7, <2>1, ManagedIs DEF Acts
  <2>3. Svc(v) # Svc(w)
    BY <1>1, <1>4, <1>9, <2>1, NoConflict DEF Conflict, Opposed
  <2>4. Project[Svc(v)] # Project[Svc(w)]
    BY <1>2, <2>2, <2>3, ProjectMates DEF Manageable
  <2>5. \A t \in Services : Project[t] # Project[Svc(w)] => (Down(t)' <=> Down(t))
    BY <1>2, <1>3, RaisedKeepRunning
  <2>6. \A c \in Containers[Svc(v)] : status'[c] = "exited"
    BY <1>9, <2>2, <2>4, <2>5 DEF Down
  <2> QED
    BY <2>6 DEF Down, Same, Svc
<1>10. \A m : "crossed" \in m /\ Without(m)' => Without({"crossed"})'
  BY DEF Without
<1>11. Doing(v, "start", {"deps", "chain", "admit", "up"})
       => \A d \in Upstream(Svc(v)) : Running(d) => Running(d)'
  BY <1>5, <1>6, <1>7 DEF Doing, Busy
<1>12. Doing(v, "preflight", {"deps", "green"})
       => \A d \in Deps[Svc(v)] : Running(d) => Running(d)'
  BY <1>5, <1>6, <1>7 DEF Doing, Busy
<1> QED
  BY <1>1, <1>2, <1>8, <1>9, <1>10, <1>11, <1>12, BystanderSound

LEMMA StartKeepsWorld ==
  ASSUME ControlInv, NEW w \in Workers, Up(w), job[w].act = "start", Grows
  PROVE  World'
<1>1. TypeOK /\ World /\ Sound(w) /\ Doing(w, "start", {"up"})
  BY Parts DEF Up, At, Doing
<1> DEFINE s == Svc(w)
<1>2. s \in Services /\ s \in Manageable /\ UNCHANGED <<enabled, fit>>
  BY <1>1, ActIs, ManagedIs DEF Sound, Up, Acts, KeepTables, Doing, Busy
<1>3. Raises(s)
  BY <1>1, <1>2, UpRaises DEF Up
<1>4. \A m : Without(m)' => Without(m)
  BY DEF Without, Grows
<1>5. /\ job[w].todo = {}
      /\ Without({"crossed"}) => enabled[s]
      /\ Without({"crossed", "changed", "forced"}) => \A d \in Upstream(s) : Running(d)
      /\ s \in Needs /\ Without({"blind", "moved"}) => fit
  BY <1>1 DEF Sound, StartSound, Doing
<1>6. \A t \in Services : Running(t) => Running(t)'
  BY <1>2, <1>3, RaisedKeepRunning
<1>7. \A t \in Services : Project[t] # Project[s] =>
        (Running(t)' <=> Running(t)) /\ (Down(t)' <=> Down(t))
  BY <1>2, <1>3, RaisedKeepRunning
<1>8. \A t \in Services : Project[t] = Project[s] =>
        t = s \/ (t \in ReadOnly /\ Deps[t] = {})
  BY <1>2, ProjectMates
<1>9. WholeOrDown'
  <2> SUFFICES ASSUME Without({"failed", "changed", "forced"})', NEW t \in Services
               PROVE  Whole(t)'
    BY DEF WholeOrDown
  <2>1. UpOK(s)
    BY DEF Up, Record, Without
  <2>2. Whole(t)
    BY <1>1, <1>4 DEF World, WholeOrDown
  <2> QED
    BY <1>1, <1>2, <2>1, <2>2, UpIsWhole
<1>10. InfraIsEnabled'
  BY <1>1, <1>2 DEF World, InfraIsEnabled
<1>11. OrderKept'
  <2> SUFFICES ASSUME Without({"crossed", "blind", "changed", "forced", "disabled"})',
                      NEW t \in Services, Running(t)', NEW d \in Upstream(t)'
               PROVE  Running(d)'
    BY Zenon DEF OrderKept
  <2>0. Without({"crossed", "blind", "changed", "forced", "disabled"})
    BY <1>4
  <2>1. /\ Without({"crossed", "blind", "changed", "forced", "disabled"})
        /\ Without({"crossed", "changed", "forced"})
        /\ d \in Services /\ d \in Upstream(t)
    BY <2>0, RegistryAssumption DEF Without, Upstream
  <2>2. CASE Project[t] # Project[s]
    <3>1. Running(t)
      BY <1>7, <2>2
    <3>2. Running(d)
      BY <1>1, <2>1, <3>1, Zenon DEF World, OrderKept
    <3> QED
      BY <1>6, <2>1, <3>2
  <2>3. CASE Project[t] = Project[s]
    <3>1. t = s
      BY <1>8, <2>3 DEF Upstream
    <3> QED
      BY <1>5, <1>6, <2>1, <3>1
  <2> QED
    BY <2>2, <2>3
<1>12. DisabledIsDown'
  <2> SUFFICES ASSUME Without({"crossed", "blind", "failed", "changed", "forced"})',
                      NEW t \in Services, ~enabled'[t]
               PROVE  Down(t)'
    BY DEF DisabledIsDown
  <2>1. /\ Without({"crossed", "blind", "failed", "changed", "forced"})
        /\ Without({"crossed"}) /\ ~enabled[t]
    BY <1>2, <1>4 DEF Without
  <2>2. t # s /\ t \notin ReadOnly
    BY <1>1, <1>5, <2>1 DEF World, InfraIsEnabled
  <2>3. Down(t) /\ Project[t] # Project[s]
    BY <1>1, <1>8, <2>1, <2>2 DEF World, DisabledIsDown
  <2> QED
    BY <1>7, <2>3
<1>13. UnfitStaysDown'
  <2> SUFFICES ASSUME Without({"blind", "changed", "moved", "forced"})', ~fit',
                      NEW t \in Needs
               PROVE  Down(t)'
    BY DEF UnfitStaysDown
  <2>1. /\ Without({"blind", "changed", "moved", "forced"})
        /\ Without({"blind", "moved"})
    BY <1>4 DEF Without
  <2>2. ~fit
    BY <1>2
  <2>3. t \in Services /\ t \notin ReadOnly
    BY RegistryAssumption
  <2>4. t # s
    BY <1>5, <2>1, <2>2
  <2>5. Down(t) /\ Project[t] # Project[s]
    BY <1>1, <1>8, <2>1, <2>2, <2>3, <2>4 DEF World, UnfitStaysDown
  <2> QED
    BY <1>7, <2>3, <2>5
<1> QED
  BY <1>9, <1>10, <1>11, <1>12, <1>13 DEF World

LEMMA UpKeeps ==
  ASSUME ControlInv, NEW w \in Workers, Up(w), UNCHANGED left
  PROVE  ControlInv'
<1>1. /\ TypeOK /\ Crossing /\ FileIsRecorded /\ \A v \in Workers : Sound(v)
      /\ Advances(w) /\ Grows
  BY Parts, StepAdvances DEF Step
<1>2. Sound(w)'
  BY <1>1, FinishIsSound DEF Up
<1>3. Svc(w) \in Services
  BY <1>1, ActIs DEF Sound, Up, At, Busy
<1>4. status' \in [All -> {"running", "unhealthy", "exited"}]
  BY <1>1, <1>3, UpRaises DEF Up, Raises
<1>5. UNCHANGED <<enabled, file, revision, fit>> /\ pc[w] = "up"
  BY DEF Up, KeepTables, At
<1>6. CASE job[w].act # "start"
  <2>1. "forced" \in happened'
    BY <1>6 DEF Up, Forced, Record
  <2> QED
    BY <1>1, <1>2, <1>4, <1>5, <2>1, ForcedKeeps
<1>7. CASE job[w].act = "start"
  <2>1. /\ pc' \in [Workers -> PCs] /\ job' \in [Workers -> Jobs]
        /\ \A v \in Workers \ {w} : Same(v)
        /\ Crossing'
    BY <1>1, AdvanceKeeps
  <2>2. TypeOK'
    BY <1>1, <1>4, <1>5, <2>1 DEF TypeOK, Grows
  <2>3. \A v \in Workers : Sound(v)'
    BY <1>1, <1>2, <1>7, <2>1, StartKeepsOthers
  <2>4. World'
    BY <1>1, <1>7, StartKeepsWorld
  <2>5. FileIsRecorded'
    BY <1>1, <1>5, <2>1, RecordedKept DEF Doing
  <2> QED
    BY <2>1, <2>2, <2>3, <2>4, <2>5, Assemble
<1> QED
  BY <1>6, <1>7

\* A stop, of its own or of a disable: no request in flight counts on what it
\* takes down.
LEMMA StopKeepsOthers ==
  ASSUME ControlInv, NEW w \in Workers, Stop(w),
         NEW v \in Workers, v # w, Same(v), Grows
  PROVE  Sound(v)'
<1>1. TypeOK /\ Crossing /\ Sound(v) /\ Sound(w) /\ Busy(w)
  BY Parts DEF Stop, At, Busy
<1>2. /\ Svc(w) \in Services /\ Svc(w) \in Manageable
      /\ job[w].act \in {"stop", "disable"}
      /\ UNCHANGED <<enabled, file, fit>>
  BY <1>1, ActIs, ManagedIs DEF Sound, Stop, Acts, KeepTables, At
<1>3. Lowers(Svc(w))
  BY <1>1, <1>2, StopLowers DEF Stop
<1>4. \A m : Without(m)' => Without(m)
  BY DEF Without, Grows
<1>5. \A d \in Services : /\ Running(d)' => Running(d)
                          /\ Down(d) => Down(d)'
                          /\ Project[d] # Project[Svc(w)] => (Running(d)' <=> Running(d))
  BY <1>2, <1>3, LoweredKeepDown
<1>6. /\ \A s \in Services : Upstream(s) \subseteq Deps[s] /\ Deps[s] \subseteq Services
      /\ \A s : Dependents(s) \subseteq Services
  BY RegistryAssumption DEF Upstream, Dependents
<1>7. Busy(v) => Svc(v) \in Services /\ Allowed(Svc(v), job[v].act)
  BY <1>1, ActIs DEF Sound
<1>8. ASSUME Without({"crossed"})', Busy(v)
      PROVE  ~Conflict(Svc(v), job[v].act, Svc(w), job[w].act)
  BY <1>1, <1>4, <1>8, NoConflict
<1>9. \A m : "crossed" \in m /\ Without(m)' => Without({"crossed"})'
  BY DEF Without
<1>10. ASSUME Doing(v, "start", {"deps", "chain", "admit", "up"}),
              Without({"crossed"})',
              NEW d \in Upstream(Svc(v)), Running(d)
       PROVE  Running(d)'
  <2>1. Busy(v) /\ job[v].act = "start"
    BY <1>10 DEF Doing, Busy
  <2>2. Svc(v) \in Services /\ d \in Services /\ d \in Deps[Svc(v)]
    BY <1>6, <1>7, <1>10, <2>1
  <2>3. d # Svc(w)
    BY <1>2, <1>8, <1>10, <2>1, <2>2 DEF Conflict, Opposed
  <2>4. Project[d] # Project[Svc(w)]
    BY <1>2, <1>10, <2>2, <2>3, UpstreamIsManaged
  <2> QED
    BY <1>5, <1>10, <2>2, <2>4
<1>11. ASSUME Doing(v, "preflight", {"deps", "green"}), Without({"crossed"})',
              NEW d \in Deps[Svc(v)], Running(d)
       PROVE  Running(d)'
  <2>1. Busy(v) /\ job[v].act = "preflight"
    BY <1>11 DEF Doing, Busy
  <2>2. Svc(v) \in Services /\ d \in Services
    BY <1>6, <1>7, <1>11, <2>1
  <2>3. d # Svc(w) /\ Svc(v) # Svc(w)
    BY <1>2, <1>8, <1>11, <2>1 DEF Conflict, Opposed
  <2>4. Project[d] # Project[Svc(w)]
    <3>1. CASE d \in ReadOnly
      <4>1. Project[Svc(v)] = Project[d]
        BY <1>11, <2>2, <3>1, RegistryAssumption
      <4>2. Deps[Svc(v)] # {}
        BY <1>11
      <4> QED
        BY <1>2, <2>2, <2>3, <4>1, <4>2, ProjectMates
    <3>2. CASE d \notin ReadOnly
      BY <1>2, <2>2, <2>3, <3>2, ProjectMates
    <3> QED
      BY <3>1, <3>2
  <2> QED
    BY <1>5, <1>11, <2>2, <2>4
<1>12. Doing(v, "stop", {"dependents", "stop"})
       => \A d \in Dependents(Svc(v)) : Running(d)' => Running(d)
  BY <1>5, <1>6
<1>13. ASSUME Doing(v, "disable", {"clear"}), Down(Svc(v)) PROVE Down(Svc(v))'
  <2>1. Svc(v) \in Services
    BY <1>7, <1>13 DEF Doing, Busy
  <2>2. \A c \in Containers[Svc(v)] : status'[c] = "exited"
    BY <1>5, <1>13, <2>1 DEF Down
  <2> QED
    BY <2>2 DEF Down, Same, Svc
<1> QED
  BY <1>1, <1>2, <1>9, <1>10, <1>11, <1>12, <1>13, BystanderSound

\* The requests that stop a service have seen that no dependent runs, but a
\* disable, which is recorded.
LEMMA StopKeepsWorld ==
  ASSUME ControlInv, NEW w \in Workers, Stop(w), Grows
  PROVE  World'
<1>1. TypeOK /\ World /\ Sound(w) /\ pc[w] = "stop"
  BY Parts DEF Stop, At
<1> DEFINE s == Svc(w)
<1>2. /\ s \in Services /\ s \in Manageable /\ UNCHANGED <<enabled, fit>>
      /\ job[w].act \in {"stop", "disable"}
  BY <1>1, ActIs, ManagedIs DEF Sound, Stop, Acts, KeepTables, Busy
<1>3. Lowers(s)
  BY <1>1, <1>2, StopLowers DEF Stop
<1>4. \A m : Without(m)' => Without(m)
  BY DEF Without, Grows
<1>5. \A t \in Services : /\ Running(t)' => Running(t)
                          /\ Down(t) => Down(t)'
                          /\ Project[t] # Project[s] => (Running(t)' <=> Running(t))
  BY <1>2, <1>3, LoweredKeepDown
<1>6. WholeOrDown'
  <2> SUFFICES ASSUME Without({"failed", "changed", "forced"})', NEW t \in Services
               PROVE  Whole(t)'
    BY DEF WholeOrDown
  <2>1. StopOK(s)
    BY DEF Stop, Record, Without
  <2>2. Whole(t)
    BY <1>1, <1>4 DEF World, WholeOrDown
  <2> QED
    BY <1>1, <1>2, <2>1, <2>2, StopIsWhole
<1>7. InfraIsEnabled'
  BY <1>1, <1>2 DEF World, InfraIsEnabled
<1>8. OrderKept'
  <2> SUFFICES ASSUME Without({"crossed", "blind", "changed", "forced", "disabled"})',
                      NEW t \in Services, Running(t)', NEW d \in Upstream(t)'
               PROVE  Running(d)'
    BY Zenon DEF OrderKept
  <2>1. Without({"crossed", "blind", "changed", "forced", "disabled"})
    BY <1>4
  <2>2. /\ Without({"crossed", "blind", "changed", "forced"})
        /\ d \in Services /\ d \in Upstream(t) /\ d \in Deps[t]
    BY <2>1, RegistryAssumption DEF Without, Upstream
  <2>3. Running(t)
    BY <1>5
  <2>4. Running(d)
    BY <1>1, <2>1, <2>2, <2>3, Zenon DEF World, OrderKept
  <2>5. job[w].act = "stop"
    BY <1>2 DEF Stop, Record, Without
  <2>6. \A x \in Dependents(s) : ~Running(x)
    BY <1>1, <2>2, <2>5 DEF Sound, StopSound, Doing
  <2>7. d # s
    BY <2>2, <2>3, <2>6 DEF Dependents
  <2> QED
    BY <1>2, <1>5, <2>2, <2>4, <2>7, UpstreamIsManaged
<1>9. DisabledIsDown'
  <2> SUFFICES ASSUME Without({"crossed", "blind", "failed", "changed", "forced"})',
                      NEW t \in Services, ~enabled'[t]
               PROVE  Down(t)'
    BY DEF DisabledIsDown
  <2>1. Down(t)
    BY <1>1, <1>2, <1>4 DEF World, DisabledIsDown
  <2> QED
    BY <1>5, <2>1
<1>10. UnfitStaysDown'
  <2> SUFFICES ASSUME Without({"blind", "changed", "moved", "forced"})', ~fit',
                      NEW t \in Needs
               PROVE  Down(t)'
    BY DEF UnfitStaysDown
  <2>1. t \in Services /\ ~fit
    BY <1>2, RegistryAssumption
  <2>2. Down(t)
    BY <1>1, <1>4, <2>1 DEF World, UnfitStaysDown
  <2> QED
    BY <1>5, <2>1, <2>2
<1> QED
  BY <1>6, <1>7, <1>8, <1>9, <1>10 DEF World

LEMMA StopKeeps ==
  ASSUME ControlInv, NEW w \in Workers, Stop(w), UNCHANGED left
  PROVE  ControlInv'
<1>1. /\ TypeOK /\ Crossing /\ FileIsRecorded /\ \A v \in Workers : Sound(v)
      /\ Advances(w) /\ Grows /\ pc[w] = "stop"
  BY Parts, StepAdvances DEF Step, Stop, At
<1>2. Svc(w) \in Services /\ job[w].act \in {"stop", "disable"}
      /\ Allowed(Svc(w), job[w].act)
  BY <1>1, ActIs DEF Sound, Busy
<1>3. status' \in [All -> {"running", "unhealthy", "exited"}]
  BY <1>1, <1>2, StopLowers DEF Stop, Lowers
<1>4. UNCHANGED <<enabled, file, revision, fit>>
  BY DEF Stop, KeepTables
<1>5. Sound(w)'
  <2>1. CASE job[w].act # "disable"
    BY <1>1, <2>1, FinishIsSound DEF Stop
  <2>2. CASE job[w].act = "disable"
    <3>1. job' = job /\ pc'[w] = "clear"
      BY <1>1, <2>2 DEF Stop, Goto, TypeOK
    <3>2. Svc(w)' = Svc(w)
      BY <3>1 DEF Svc
    <3>3. InStep(w)'
      BY <1>2, <2>2, <3>1, <3>2 DEF InStep, Busy, Steps, Allowed
    <3>4. ASSUME Without({"crossed", "blind", "failed", "changed", "forced"})'
          PROVE  Down(Svc(w))'
      <4>1. StopOK(Svc(w))
        BY <3>4 DEF Stop, Record, Without
      <4>2. \A c \in Containers[Svc(w)] : status'[c] = "exited"
        BY <1>1, <1>2, <4>1, StopIsWhole DEF Down
      <4> QED
        BY <3>2, <4>2 DEF Down
    <3> QED
      BY <2>2, <3>1, <3>3, <3>4 DEF Sound, StartSound, StopSound, DisableSound,
                                    WriteSound, GreenHolds, Doing
  <2> QED
    BY <2>1, <2>2
<1>6. /\ pc' \in [Workers -> PCs] /\ job' \in [Workers -> Jobs]
      /\ \A v \in Workers \ {w} : Same(v)
      /\ Crossing'
  BY <1>1, AdvanceKeeps
<1>7. TypeOK'
  BY <1>1, <1>3, <1>4, <1>6 DEF TypeOK, Grows
<1>8. \A v \in Workers : Sound(v)'
  BY <1>1, <1>5, <1>6, StopKeepsOthers
<1>9. World'
  BY <1>1, StopKeepsWorld
<1>10. FileIsRecorded'
  BY <1>1, <1>4, <1>6, RecordedKept DEF Doing
<1> QED
  BY <1>6, <1>7, <1>8, <1>9, <1>10, Assemble

-----------------------------------------------------------------------------
(* The flag, the config file, and what happens by itself.                  *)

LEMMA ContainersStay ==
  ASSUME UNCHANGED status
  PROVE  \A s : (Running(s)' <=> Running(s)) /\ (Down(s)' <=> Down(s))
BY DEF Running, DeriveState, Down

\* Only a disable clears a flag, its service is down by then, and no start of
\* it is in flight.
LEMMA FlagKeeps ==
  ASSUME ControlInv, NEW w \in Workers, Enable(w) \/ Clear(w), UNCHANGED left
  PROVE  ControlInv'
<1>1. /\ TypeOK /\ Crossing /\ World /\ FileIsRecorded /\ \A v \in Workers : Sound(v)
      /\ Advances(w) /\ Grows
  BY Parts, StepAdvances DEF Step
<1>2. /\ Busy(w) /\ Svc(w) \in Services /\ Allowed(Svc(w), job[w].act)
      /\ pc[w] = "clear" => job[w].act = "disable"
  BY <1>1, ActIs DEF Sound, Enable, Clear, At, Busy
<1>3. /\ UNCHANGED <<status, file, revision, fit>> /\ Finish(w)
      /\ enabled' \in [Services -> BOOLEAN] /\ pc[w] # "revise"
      /\ \A t \in Services : (t = Svc(w) /\ Clear(w)) \/ (enabled[t] => enabled'[t])
  BY <1>1, <1>2 DEF Enable, Clear, SetEnabled, TypeOK, KeepHost, At
<1>4. Sound(w)'
  BY <1>1, <1>3, FinishIsSound
<1>5. /\ pc' \in [Workers -> PCs] /\ job' \in [Workers -> Jobs]
      /\ \A v \in Workers \ {w} : Same(v)
      /\ Crossing'
  BY <1>1, AdvanceKeeps
<1>6. TypeOK'
  BY <1>1, <1>3, <1>5 DEF TypeOK, Grows
<1>7. \A m : Without(m)' => Without(m)
  BY <1>1 DEF Without, Grows
<1>8. ASSUME NEW v \in Workers, v # w PROVE Sound(v)'
  <2>1. ASSUME Doing(v, "start", {"deps", "chain", "admit", "up"}),
               Without({"crossed"})', enabled[Svc(v)]
        PROVE  enabled'[Svc(v)]
    <3>1. Busy(v) /\ job[v].act = "start" /\ Svc(v) \in Services
      BY <1>1, <2>1, ActIs DEF Doing, Busy, Sound
    <3>2. CASE Clear(w)
      <4>1. job[w].act = "disable"
        BY <1>2, <3>2 DEF Clear, At
      <4>2. Svc(v) # Svc(w)
        BY <1>1, <1>2, <1>7, <1>8, <2>1, <3>1, <4>1, NoConflict DEF Conflict, Opposed
      <4> QED
        BY <1>3, <2>1, <3>1, <4>2
    <3>3. CASE ~Clear(w)
      BY <1>3, <2>1, <3>1, <3>3
    <3> QED
      BY <3>2, <3>3
  <2>2. \A s : (Running(s)' <=> Running(s)) /\ (Down(s)' <=> Down(s))
    BY <1>3, ContainersStay
  <2>3. Down(Svc(v)) => Down(Svc(v))'
    BY <1>3, <1>5, <1>8 DEF Down, Svc, Same
  <2> QED
    BY <1>1, <1>3, <1>5, <1>8, <2>1, <2>2, <2>3, BystanderSound
<1>9. WholeOrDown' /\ UnfitStaysDown'
  BY <1>1, <1>3, <1>7, ContainersStay DEF World, WholeOrDown, Whole, UnfitStaysDown
<1>10. OrderKept'
  <2>1. \A s : Upstream(s)' = Upstream(s)
    BY DEF Upstream
  <2> QED
    BY <1>1, <1>3, <1>7, <2>1, ContainersStay DEF World, OrderKept
<1>11. InfraIsEnabled'
  <2>1. Clear(w) => Svc(w) \notin ReadOnly
    BY <1>2 DEF Clear, At, Allowed
  <2> QED
    BY <1>1, <1>3, <2>1, RegistryAssumption DEF World, InfraIsEnabled
<1>12. DisabledIsDown'
  <2> SUFFICES ASSUME Without({"crossed", "blind", "failed", "changed", "forced"})',
                      NEW t \in Services, ~enabled'[t]
               PROVE  Down(t)'
    BY DEF DisabledIsDown
  <2>1. Without({"crossed", "blind", "failed", "changed", "forced"})
    BY <1>7
  <2>2. CASE t = Svc(w) /\ Clear(w)
    <3>1. Doing(w, "disable", {"clear"})
      BY <1>2, <2>2 DEF Clear, At, Doing
    <3>2. Down(t)
      BY <1>1, <2>1, <2>2, <3>1 DEF Sound, DisableSound
    <3> QED
      BY <1>3, <3>2, ContainersStay
  <2>3. CASE ~(t = Svc(w) /\ Clear(w))
    <3>1. ~enabled[t]
      BY <1>3, <2>3
    <3>2. Down(t)
      BY <1>1, <2>1, <3>1 DEF World, DisabledIsDown
    <3> QED
      BY <1>3, <3>2, ContainersStay
  <2> QED
    BY <2>2, <2>3
<1>13. FileIsRecorded'
  BY <1>1, <1>3, <1>5, RecordedKept DEF Doing
<1> QED
  BY <1>4, <1>5, <1>6, <1>8, <1>9, <1>10, <1>11, <1>12, <1>13, Assemble DEF World

\* A write makes the file what its request is about to store, and no other
\* request writes the same file meanwhile.
LEMMA WriteConfigKeeps ==
  ASSUME ControlInv, NEW w \in Workers, WriteConfig(w), UNCHANGED left
  PROVE  ControlInv'
<1>1. /\ TypeOK /\ Crossing /\ World /\ FileIsRecorded /\ \A v \in Workers : Sound(v)
      /\ Advances(w) /\ Grows /\ pc[w] = "write"
  BY Parts, StepAdvances DEF Step, WriteConfig, At
<1>2. /\ Busy(w) /\ job[w].act = "config" /\ Allowed(Svc(w), "config")
      /\ job[w] \in Jobs
  BY <1>1, ActIs DEF Sound, Busy, TypeOK
<1>3. UNCHANGED <<status, enabled, revision, fit>> /\ Svc(w) \in Configurable
  BY <1>2 DEF WriteConfig, KeepHost, Allowed
<1>4. file' \in [Configurable -> Texts \cup {Torn}]
      /\ \A t \in Configurable : t # Svc(w) => file'[t] = file[t]
  BY <1>1, <1>2, <1>3 DEF WriteConfig, TypeOK, Jobs
<1>5. /\ pc' \in [Workers -> PCs] /\ job' \in [Workers -> Jobs]
      /\ \A v \in Workers \ {w} : Same(v)
      /\ Crossing'
  BY <1>1, AdvanceKeeps
<1>6. TypeOK'
  BY <1>1, <1>3, <1>4, <1>5 DEF TypeOK, Grows
<1>7. \A m : Without(m)' => Without(m)
  BY <1>1 DEF Without, Grows
<1>8. Sound(w)' /\ FileIsRecorded'
  <2>1. CASE Finish(w) /\ Record({"failed"})
    <3>1. Sound(w)'
      BY <1>1, <2>1, FinishIsSound
    <3>2. FileIsRecorded'
      BY <2>1 DEF FileIsRecorded, Without, Record
    <3> QED
      BY <3>1, <3>2
  <2>2. CASE /\ file' = [file EXCEPT ![Svc(w)] = job[w].text]
             /\ Goto(w, "revise")
    <3>1. /\ pc'[w] = "revise" /\ job' = job
          /\ file'[Svc(w)] = job[w].text
      BY <1>1, <1>3, <2>2 DEF Goto, TypeOK
    <3>2. Svc(w)' = Svc(w)
      BY <3>1 DEF Svc
    <3>3. InStep(w)'
      BY <1>2, <3>1, <3>2 DEF InStep, Busy, Steps, Allowed
    <3>4. WriteSound(w)'
      BY <3>1, <3>2 DEF WriteSound
    <3>5. Sound(w)'
      BY <1>2, <3>1, <3>3, <3>4 DEF Sound, StartSound, StopSound, DisableSound,
                                    GreenHolds, Doing
    <3>6. FileIsRecorded'
      <4> SUFFICES ASSUME Without({"crossed", "failed", "unsaved"})',
                          NEW s \in Configurable, file'[s] # revision'[s]
                   PROVE  \E v \in Workers : (/\ Doing(v, "config", {"revise"})
                                              /\ Svc(v) = s /\ job[v].text = file[s])'
        BY DEF FileIsRecorded
      <4>1. CASE s = Svc(w)
        <5>1. (Doing(w, "config", {"revise"}) /\ Svc(w) = s /\ job[w].text = file[s])'
          BY <1>2, <3>1, <3>2, <4>1 DEF Doing
        <5> QED
          BY <5>1
      <4>2. CASE s # Svc(w)
        <5>1. file[s] # revision[s] /\ file'[s] = file[s]
          BY <1>3, <1>4, <4>2
        <5>2. PICK v \in Workers : /\ Doing(v, "config", {"revise"}) /\ Svc(v) = s
                                   /\ job[v].text = file[s]
          BY <1>1, <1>7, <5>1 DEF FileIsRecorded
        <5>3. Same(v)
          BY <1>1, <1>5, <5>2 DEF Doing
        <5>4. (Doing(v, "config", {"revise"}) /\ Svc(v) = s /\ job[v].text = file[s])'
          BY <5>1, <5>2, <5>3 DEF Same, Doing, Svc
        <5> QED
          BY <5>4
      <4> QED
        BY <4>1, <4>2
    <3> QED
      BY <3>5, <3>6
  <2> QED
    BY <2>1, <2>2 DEF WriteConfig
<1>9. ASSUME NEW v \in Workers, v # w PROVE Sound(v)'
  <2>1. ASSUME Doing(v, "config", {"revise"}), Without({"crossed"})'
        PROVE  file'[Svc(v)] = file[Svc(v)]
    <3>1. Busy(v) /\ job[v].act = "config"
      BY <2>1 DEF Doing, Busy
    <3>2. Svc(v) # Svc(w)
      BY <1>1, <1>2, <1>7, <1>9, <2>1, <3>1, NoConflict DEF Conflict, Opposed
    <3>3. Svc(v) \in Configurable
      BY <1>1, <3>1, ActIs DEF Sound, Allowed
    <3> QED
      BY <1>4, <3>2, <3>3
  <2>2. Down(Svc(v)) => Down(Svc(v))'
    BY <1>3, <1>5, <1>9 DEF Down, Svc, Same
  <2>3. \A s : Running(s)' <=> Running(s)
    BY <1>3, ContainersStay
  <2>4. Sound(v) /\ Same(v)
    BY <1>1, <1>5, <1>9
  <2> QED
    BY <1>1, <1>3, <2>1, <2>2, <2>3, <2>4, BystanderSound
<1>10. World'
  BY <1>1, <1>3, WorldKept
<1> QED
  BY <1>5, <1>6, <1>8, <1>9, <1>10, Assemble

\* What is stored is still what the file holds.
LEMMA ReviseKeeps ==
  ASSUME ControlInv, NEW w \in Workers, Revise(w), UNCHANGED left
  PROVE  ControlInv'
<1>1. /\ TypeOK /\ Crossing /\ World /\ FileIsRecorded /\ \A v \in Workers : Sound(v)
      /\ Advances(w) /\ Grows /\ pc[w] = "revise"
  BY Parts, StepAdvances DEF Step, Revise, At
<1>2. /\ Busy(w) /\ job[w].act = "config" /\ Allowed(Svc(w), "config")
      /\ job[w] \in Jobs
  BY <1>1, ActIs DEF Sound, Busy, TypeOK
<1>3. UNCHANGED <<status, enabled, file, fit>> /\ Svc(w) \in Configurable
  BY <1>2 DEF Revise, KeepHost, Allowed
<1>4. revision' \in [Configurable -> Texts \cup {Torn}]
      /\ \A t \in Configurable : t # Svc(w) => revision'[t] = revision[t]
  BY <1>1, <1>2, <1>3 DEF Revise, TypeOK, Jobs
<1>5. /\ pc' \in [Workers -> PCs] /\ job' \in [Workers -> Jobs]
      /\ \A v \in Workers \ {w} : Same(v)
      /\ Crossing'
  BY <1>1, AdvanceKeeps
<1>6. TypeOK'
  BY <1>1, <1>3, <1>4, <1>5 DEF TypeOK, Grows
<1>7. \A m : Without(m)' => Without(m)
  BY <1>1 DEF Without, Grows
<1>8. Sound(w)'
  <2>1. CASE Finish(w)
    BY <1>1, <2>1, FinishIsSound
  <2>2. CASE Goto(w, "restart")
    <3>1. pc'[w] = "restart" /\ job' = job
      BY <1>1, <2>2 DEF Goto, TypeOK
    <3>2. InStep(w)'
      BY <1>2, <3>1 DEF InStep, Busy, Steps, Allowed, Svc
    <3> QED
      BY <3>1, <3>2 DEF Sound, StartSound, StopSound, DisableSound, WriteSound,
                        GreenHolds, Doing
  <2> QED
    BY <2>1, <2>2 DEF Revise
<1>9. \A v \in Workers : Sound(v)'
  BY <1>1, <1>3, <1>5, <1>8, NothingChanges
<1>10. World'
  BY <1>1, <1>3, WorldKept
<1>11. FileIsRecorded'
  <2> SUFFICES ASSUME Without({"crossed", "failed", "unsaved"})',
                      NEW s \in Configurable, file'[s] # revision'[s]
               PROVE  \E v \in Workers : (/\ Doing(v, "config", {"revise"})
                                          /\ Svc(v) = s /\ job[v].text = file[s])'
    BY DEF FileIsRecorded
  <2>1. revision' = [revision EXCEPT ![Svc(w)] = job[w].text]
    BY DEF Revise, Record, Without
  <2>2. Without({"crossed", "failed", "unsaved"})
    BY <1>7
  <2>3. Without({"crossed"})
    BY <2>2 DEF Without
  <2>4. job[w].text = file[Svc(w)]
    BY <1>1, <1>2, <2>3 DEF Sound, WriteSound, Doing
  <2>5. s # Svc(w)
    BY <1>1, <1>3, <2>1, <2>4 DEF TypeOK
  <2>6. file[s] # revision[s] /\ file'[s] = file[s]
    BY <1>3, <1>4, <2>5
  <2>7. PICK v \in Workers : /\ Doing(v, "config", {"revise"}) /\ Svc(v) = s
                             /\ job[v].text = file[s]
    BY <1>1, <2>2, <2>6 DEF FileIsRecorded
  <2>8. Same(v)
    BY <1>5, <2>5, <2>7
  <2>9. (Doing(v, "config", {"revise"}) /\ Svc(v) = s /\ job[v].text = file[s])'
    BY <2>6, <2>7, <2>8 DEF Same, Doing, Svc
  <2> QED
    BY <2>9
<1> QED
  BY <1>5, <1>6, <1>9, <1>10, <1>11, Assemble

\* While no request moves, nothing new conflicts and the files stay recorded.
LEMMA StillKeeps ==
  ASSUME Crossing, FileIsRecorded, Grows, UNCHANGED <<pc, job, file, revision>>
  PROVE  Crossing' /\ FileIsRecorded' /\ \A v \in Workers : Same(v)
<1>1. \A m : Without(m)' => Without(m)
  BY DEF Without, Grows
<1>2. \A v \in Workers : Same(v) /\ (Busy(v)' <=> Busy(v)) /\ Svc(v)' = Svc(v)
  BY DEF Same, Busy, Svc
<1>3. Crossing'
  BY <1>1, <1>2 DEF Crossing, Conflict, Opposed
<1>4. FileIsRecorded'
  BY <1>1, <1>2 DEF FileIsRecorded, Doing
<1> QED
  BY <1>2, <1>3, <1>4

LEMMA ChangeKeeps ==
  ASSUME ControlInv, NEW c \in All, NEW st \in {"running", "unhealthy", "exited"},
         Change(c, st)
  PROVE  ControlInv'
<1>1. TypeOK /\ Crossing /\ World /\ FileIsRecorded /\ \A v \in Workers : Sound(v)
  BY Parts
<1>2. UNCHANGED <<enabled, file, revision, fit, pc, job>>
  BY DEF Change, KeepTables
<1>3. Grows /\ "changed" \in happened'
  BY <1>1 DEF Change, Record, Grows, Mishaps, TypeOK
<1>4. TypeOK'
  BY <1>1, <1>2, <1>3 DEF Change, Spend, TypeOK, Grows
<1>5. Crossing' /\ FileIsRecorded' /\ \A v \in Workers : Same(v)
  BY <1>1, <1>2, <1>3, StillKeeps
<1>6. \A v \in Workers : Sound(v)'
  BY <1>1, <1>2, <1>3, <1>5, MishapsExcuseChecks
<1>7. World'
  BY <1>1, <1>2, <1>3, MishapsExcuse
<1> QED
  BY <1>4, <1>5, <1>6, <1>7, Assemble

LEMMA MoveChainKeeps ==
  ASSUME ControlInv, MoveChain
  PROVE  ControlInv'
<1>1. TypeOK /\ Crossing /\ World /\ FileIsRecorded /\ \A v \in Workers : Sound(v)
  BY Parts
<1>2. UNCHANGED <<status, enabled, file, revision, pc, job>> /\ fit' = ~fit
  BY DEF MoveChain, KeepTables
<1>3. Grows /\ (fit => "moved" \in happened')
  BY <1>1 DEF MoveChain, Record, Grows, Mishaps, TypeOK
<1>4. TypeOK'
  BY <1>1, <1>2, <1>3 DEF MoveChain, Spend, TypeOK, Grows
<1>5. Crossing' /\ FileIsRecorded' /\ \A v \in Workers : Same(v)
  BY <1>1, <1>2, <1>3, StillKeeps
<1>6. \A m : Without(m)' => Without(m)
  BY <1>3 DEF Without, Grows
<1>7. "moved" \in happened' => ~Without({"blind", "moved"})'
                               /\ ~Without({"blind", "changed", "moved", "forced"})'
  BY DEF Without
<1>8. ASSUME NEW v \in Workers PROVE Sound(v)'
  <2>1. Doing(v, "start", {"admit", "up"}) /\ Without({"blind", "moved"})' /\ fit => fit'
    BY <1>3, <1>7
  <2>2. Down(Svc(v)) => Down(Svc(v))'
    BY <1>2 DEF Down, Svc
  <2>3. \A s : Running(s)' <=> Running(s)
    BY <1>2, ContainersStay
  <2> QED
    BY <1>1, <1>2, <1>3, <1>5, <2>1, <2>2, <2>3, BystanderSound
<1>9. WholeOrDown' /\ InfraIsEnabled' /\ DisabledIsDown'
  BY <1>1, <1>2, <1>6, ContainersStay
     DEF World, WholeOrDown, Whole, InfraIsEnabled, DisabledIsDown
<1>10. OrderKept'
  <2>1. \A s : Upstream(s)' = Upstream(s)
    BY DEF Upstream
  <2> QED
    BY <1>1, <1>2, <1>6, <2>1, ContainersStay DEF World, OrderKept
<1>11. UnfitStaysDown'
  <2> SUFFICES ASSUME Without({"blind", "changed", "moved", "forced"})', ~fit'
               PROVE  FALSE
    BY DEF UnfitStaysDown
  <2>1. fit
    BY <1>1, <1>2, Zenon DEF TypeOK
  <2> QED
    BY <1>3, <1>7, <2>1
<1> QED
  BY <1>4, <1>5, <1>8, <1>9, <1>10, <1>11, Assemble DEF World

-----------------------------------------------------------------------------
(* The theorems.                                                           *)

LEMMA InitHolds ==
  ASSUME Init
  PROVE  ControlInv
<1>1. PICK up \in SUBSET Services :
        /\ \A s \in up : Upstream(s) \subseteq up
        /\ \A s, t \in Services : Project[s] = Project[t] => (s \in up <=> t \in up)
        /\ status = [c \in All |->
             IF \E s \in up : c \in Containers[s] THEN "running" ELSE "exited"]
        /\ enabled \in {f \in [Services -> BOOLEAN] :
             /\ \A s \in up \cup ReadOnly : f[s]}
        /\ fit \in IF up \cap Needs = {} THEN BOOLEAN ELSE {TRUE}
  BY DEF Init
<1>2. /\ happened = {} /\ left = Events
      /\ pc = [w \in Workers |-> "idle"] /\ job = [w \in Workers |-> NoJob]
      /\ file \in [Configurable -> Texts \cup {Torn}] /\ revision = file
  BY DEF Init
<1>3. \A s \in Services : IF s \in up THEN Running(s) ELSE Down(s)
  <2> TAKE s \in Services
  <2>1. Containers[s] \subseteq All /\ Containers[s] # {}
    BY RegistryAssumption DEF All
  <2>2. CASE s \in up
    BY <1>1, <2>1, <2>2, RunningIs
  <2>3. CASE s \notin up
    <3>1. \A t \in up : Containers[t] \cap Containers[s] = {}
      BY <2>3, RegistryAssumption
    <3> QED
      BY <1>1, <2>1, <2>3, <3>1 DEF Down
  <2> QED
    BY <2>2, <2>3
<1>4. \A s \in Services : Running(s) => s \in up
  <2> TAKE s \in Services
  <2>1. Containers[s] # {}
    BY RegistryAssumption
  <2> QED
    BY <1>3, <2>1, RunningIs DEF Down
<1>5. TypeOK
  <2>1. status \in [All -> {"running", "unhealthy", "exited"}]
    BY <1>1
  <2>2. fit \in BOOLEAN
    BY <1>1
  <2>3. enabled \in [Services -> BOOLEAN]
    BY <1>1
  <2>4. pc \in [Workers -> PCs] /\ job \in [Workers -> Jobs]
    BY <1>2, NoJobIsTyped DEF PCs
  <2> QED
    BY <1>2, <2>1, <2>2, <2>3, <2>4, BoundsAssumption DEF TypeOK
<1>6. \A w \in Workers : pc[w] = "idle"
  BY <1>2
<1>7. Crossing /\ InFlight /\ ChecksAreSound /\ PreflightHolds
  BY <1>6 DEF Crossing, InFlight, ChecksAreSound, PreflightHolds, InStep, Busy,
              StartSound, StopSound, DisableSound, WriteSound, GreenHolds, Doing
<1>8. WholeOrDown /\ FileIsRecorded
  BY <1>2, <1>3 DEF WholeOrDown, Whole, FileIsRecorded
<1>9. InfraIsEnabled
  BY <1>1, RegistryAssumption DEF InfraIsEnabled
<1>10. OrderKept
  <2> SUFFICES ASSUME NEW s \in Services, Running(s), NEW d \in Upstream(s)
               PROVE  Running(d)
    BY Zenon DEF OrderKept
  <2>1. d \in up /\ d \in Services
    BY <1>1, <1>4
  <2> QED
    BY <1>3, <2>1
<1>11. DisabledIsDown
  BY <1>1, <1>3 DEF DisabledIsDown
<1>12. UnfitStaysDown
  <2> SUFFICES ASSUME ~fit, NEW s \in Needs PROVE Down(s)
    BY DEF UnfitStaysDown
  <2>1. s \notin up /\ s \in Services
    BY <1>1, RegistryAssumption
  <2> QED
    BY <1>3, <2>1
<1> QED
  BY <1>5, <1>7, <1>8, <1>9, <1>10, <1>11, <1>12 DEF ControlInv

LEMMA NextKeeps ==
  ASSUME ControlInv, [Next]_vars
  PROVE  ControlInv'
<1>1. ASSUME NEW w \in Workers, NEW s \in Services, NEW a \in Acts \ {"config"},
             Request(w, s, a, Torn, FALSE)
      PROVE  ControlInv'
  BY <1>1, RequestKeeps
<1>2. ASSUME NEW w \in Workers, NEW s \in Services, NEW text \in Texts,
             NEW again \in BOOLEAN, Request(w, s, "config", text, again)
      PROVE  ControlInv'
  BY <1>2, RequestKeeps DEF Acts
<1>3. ASSUME NEW w \in Workers, Step(w)
      PROVE  ControlInv'
  BY <1>3, ReadingStepKeeps, UpKeeps, StopKeeps, RestartKeeps, FlagKeeps,
     WriteConfigKeeps, ReviseKeeps DEF Step
<1>4. ASSUME NEW c \in All, NEW st \in {"running", "unhealthy", "exited"},
             Change(c, st)
      PROVE  ControlInv'
  BY <1>4, ChangeKeeps
<1>5. CASE MoveChain
  BY <1>5, MoveChainKeeps
<1>6. CASE UNCHANGED vars
  <2>1. /\ TypeOK /\ Crossing /\ World /\ FileIsRecorded
        /\ \A v \in Workers : Sound(v)
        /\ UNCHANGED <<status, enabled, file, revision, fit, pc, job, happened, left>>
    BY <1>6, Parts DEF vars
  <2>2. TypeOK' /\ Grows
    BY <2>1 DEF TypeOK, Grows
  <2>3. Crossing' /\ FileIsRecorded' /\ \A v \in Workers : Same(v)
    BY <2>1, <2>2, StillKeeps
  <2>4. World'
    BY <2>1, <2>2, WorldKept
  <2>5. \A v \in Workers : Sound(v)'
    BY <2>1, <2>2, <2>3, NothingChanges
  <2> QED
    BY <2>2, <2>3, <2>4, <2>5, Assemble
<1> QED
  BY <1>1, <1>2, <1>3, <1>4, <1>5, <1>6 DEF Next

\* Whatever requests interleave, everything a request has checked is still so
\* when it acts, and the services are as the properties say, but for the
\* mishaps that each of them names (services.go, engine.go RunPreflight).
THEOREM ControlIsSound == Spec => []ControlInv
<1>1. Init => ControlInv
  BY InitHolds
<1>2. ControlInv /\ [Next]_vars => ControlInv'
  BY NextKeeps
<1> QED
  BY <1>1, <1>2, PTL DEF Spec

\* Unrelated requests never leave a service running without one it depends on
\* (services.go:184-199, 237-245).
THEOREM StartsAndStopsKeepOrder == Spec => []OrderKept
<1>1. ControlInv => OrderKept
  BY DEF ControlInv
<1> QED
  BY <1>1, ControlIsSound, PTL

\* A disabled service is down, unless a start raced with the disable or a
\* command failed, was blind or forced (services.go:176-181, 306-315).
THEOREM DisabledServicesAreDown == Spec => []DisabledIsDown
<1>1. ControlInv => DisabledIsDown
  BY DEF ControlInv
<1> QED
  BY <1>1, ControlIsSound, PTL

\* No service that needs the whole chain is up without it while the RPC
\* answers and the chain stays (services.go:202-218).
THEOREM ServicesWaitForTheChain == Spec => []UnfitStaysDown
<1>1. ControlInv => UnfitStaysDown
  BY DEF ControlInv
<1> QED
  BY <1>1, ControlIsSound, PTL

\* The newest revision of a config file is its content, or a request is about
\* to make it so (services.go:418-433).
THEOREM RevisionsMatchFiles == Spec => []FileIsRecorded
<1>1. ControlInv => FileIsRecorded
  BY DEF ControlInv
<1> QED
  BY <1>1, ControlIsSound, PTL

\* What a preflight has found running still runs when it answers
\* (engine.go:307-336).
THEOREM PreflightsHold == Spec => []PreflightHolds
<1>1. ControlInv => PreflightHolds
  BY DEF ControlInv
<1> QED
  BY <1>1, ControlIsSound, PTL

=============================================================================
