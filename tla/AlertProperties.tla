--------------------------- MODULE AlertProperties ---------------------------
(***************************************************************************)
(* What the alert engine promises, and where the code does not keep it.    *)
(***************************************************************************)
EXTENDS AlertEngine

Labels == {"idle", "service", "inspect", "health", "raiseHealth", "count",
           "loop", "raiseLoop", "stopLoop", "events", "mode", "deps",
           "upstream", "clear", "flag", "raiseDep", "stopDep"}

States == [status : {"running", "exited", "restarting", "not_found", "unknown"},
           sick : BOOLEAN, count : Nat]

\* Where the sweep stands at a container, or at a dependency.
AtContainer == {"inspect", "health", "raiseHealth", "count", "loop",
                "raiseLoop", "stopLoop", "events"}
AtDependency == {"upstream", "clear", "flag", "raiseDep", "stopDep"}

Placed(a) ==
  /\ a \in [pc : Labels, i : DOMAIN Order, k : Nat, m : Nat, on : BOOLEAN,
            seen : States, found : BOOLEAN,
            mode : {"flag_only", "flag_and_stop"}]
  /\ a.pc \in AtContainer => a.k \in DOMAIN Conts[Order[a.i]]
  /\ a.pc \in AtDependency =>
       /\ a.k \in DOMAIN Deps[Order[a.i]]
       /\ a.m \in DOMAIN Conts[Deps[Order[a.i]][a.k]]

AtOK == Placed(at)

MemoryOK ==
  /\ last \in [Containers -> Nat \cup {Unseen}]
  /\ autoStopped \subseteq Services \X {"loop", "dep"}
  /\ prev \in [Containers -> States \cup {Unseen}]

TablesOK ==
  /\ open \in [Keys -> Nat]
  /\ dismissed \subseteq Keys
  /\ reported \in [Containers -> Nat]
  /\ enabled \in [Services -> BOOLEAN]
  /\ mode \in Modes

WorldOK ==
  /\ cont \in [Containers -> States]
  /\ real \in [Containers -> Nat]
  /\ budget \in [Limited -> Nat]

HistoryOK == history \in [Containers -> Seq(0..Window)]

\* Type invariant: every variable holds a value of its kind, and the sweep
\* stands at a container or a dependency that exists.
AlertTypeOK == AtOK /\ MemoryOK /\ TablesOK /\ WorldOK /\ HistoryOK

-----------------------------------------------------------------------------
(* Safety.                                                                 *)

\* An alert has one unresolved row at most, although UpsertAlert looks and
\* writes in two statements: no one else writes the engine's keys but the
\* user, who only resolves.
OneOpenAlert == \A k \in Keys : open[k] <= 1

\* The key of the row the engine is about to insert, having found none.
Inserting ==
  CASE at.pc = "raiseHealth" -> {<<"service_unhealthy", Svc>>}
    [] at.pc = "raiseLoop" -> {<<"restart_loop", Svc>>}
    [] at.pc = "raiseDep" -> {<<"upstream_unhealthy", Svc>>}
    [] OTHER -> {}

NoneMeanwhile == ~at.found => \A k \in Inserting : open[k] = 0

AlertInv == AlertTypeOK /\ OneOpenAlert /\ NoneMeanwhile

\* The agent has answered every inspection.
Answered == budget["outage"] = Budget["outage"]

\* The restarts the engine counts towards a restart loop, and those the event
\* log tells of, have really happened, however containers are recreated and
\* the engine restarted between an inspection and the count it is compared
\* with; unless the agent failed to answer, which reads as a count of 0.
RestartsAreReal ==
  Answered =>
    \A c \in Containers : Len(history[c]) <= real[c] /\ reported[c] <= real[c]

Shown(k) == open[k] > 0 \/ k \in dismissed

LastOf(s) == Conts[s][Len(Conts[s])]
Fit(state) == ~state.sick /\ state.status \notin {"exited", "not_found"}

\* Between sweeps, the alert of a service tells of its last container alone,
\* and whatever was found of the others is overwritten: a container seen
\* unhealthy has its alert shown, unless the user resolved it, and one seen
\* up and not unhealthy has none (alerts/engine.go:222-236).
SicknessIsShown ==
  At("idle") =>
    \A s \in Services :
      prev[LastOf(s)] # Unseen =>
        /\ prev[LastOf(s)].sick => Shown(<<"service_unhealthy", s>>)
        /\ Fit(prev[LastOf(s)]) => open[<<"service_unhealthy", s>>] = 0

\* Between sweeps, a service has its alert, unless the user resolved it, if
\* one of its containers is over the restart threshold and none that comes
\* after it is without a restart in the window.
LoopIsShown ==
  At("idle") =>
    \A s \in Services : \A k \in DOMAIN Conts[s] :
      /\ last[Conts[s][k]] # Unseen
      /\ Len(history[Conts[s][k]]) >= Threshold
      /\ \A j \in (k + 1)..Len(Conts[s]) : history[Conts[s][j]] # <<>>
      => Shown(<<"restart_loop", s>>)

\* Between sweeps, a service whose last container had no restart in the window
\* has no such alert, and no stop of it is remembered, whatever its other
\* containers do (alerts/engine.go:399-401).
LastIsCalm ==
  At("idle") =>
    \A s \in Services :
      last[LastOf(s)] # Unseen /\ history[LastOf(s)] = <<>> /\ Threshold > 0 =>
        open[<<"restart_loop", s>>] = 0 /\ <<s, "loop">> \notin autoStopped

-----------------------------------------------------------------------------
(* Liveness.                                                               *)

Ill(c) == cont[c].sick \/ cont[c].status \in {"exited", "restarting", "not_found"}

UpstreamIll(s) == \E d \in Of(Deps[s]) : \E c \in Of(Conts[d]) : Ill(c)

\* While an upstream of an enabled service is down for good, the service has
\* its alert for good.
UpstreamIsShown ==
  \A s \in Services :
    <>[](enabled[s] /\ UpstreamIll(s)) => <>[](open[<<"upstream_unhealthy", s>>] > 0)

\* A disabled service whose containers are stopped ends up without an alert
\* about them or about its upstreams.
DisabledIsQuiet ==
  \A s \in Services :
    <>[](~enabled[s] /\ \A c \in Of(Conts[s]) : cont[c].status # "running") =>
      <>[](/\ open[<<"service_unhealthy", s>>] = 0
           /\ open[<<"upstream_unhealthy", s>>] = 0)

\* While an upstream is down for good, a service is not stopped over and
\* over for it.
StopsEnd ==
  \A s \in Services :
    <>[]UpstreamIll(s) => <>[]~(At("stopDep") /\ Svc = s)

\* Once containers stop restarting, the restart alert goes and the service
\* may be stopped again.
LoopEnds ==
  <>[](\A s \in Services :
         open[<<"restart_loop", s>>] = 0 /\ <<s, "loop">> \notin autoStopped)
=============================================================================
