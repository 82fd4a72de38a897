-------------------------- MODULE ControlProperties --------------------------
(***************************************************************************)
(* What holds of the services as long as nothing that the handlers leave   *)
(* unguarded happens: each property names exactly the mishaps it excuses,  *)
(* so every other interleaving and failure is covered.                     *)
(***************************************************************************)
EXTENDS ServiceControl

PCs == {"idle", "enabled", "deps", "chain", "admit", "up", "dependents",
        "stop", "restart", "pull", "enable", "look", "clear", "write",
        "revise", "preflight", "green"}
Jobs == [svc : Services, act : Acts \cup {"none"}, todo : SUBSET Services,
         text : Texts \cup {Torn}, again : BOOLEAN]

\* The types of the variables (model/service.go, store/sqlite.go).
TypeOK ==
  /\ status \in [All -> {"running", "unhealthy", "exited"}]
  /\ enabled \in [Services -> BOOLEAN]
  /\ file \in [Configurable -> Texts \cup {Torn}]
  /\ revision \in [Configurable -> Texts \cup {Torn}]
  /\ fit \in BOOLEAN
  /\ pc \in [Workers -> PCs]
  /\ job \in [Workers -> Jobs]
  /\ happened \in SUBSET Mishaps
  /\ left \in Nat

Without(m) == happened \cap m = {}
Down(s) == \A c \in Containers[s] : status[c] = "exited"

\* A request in flight is one that was allowed, at a step of its own act, and
\* has inspected nothing before its first inspection.
Steps(a) ==
  CASE a = "start" -> {"enabled", "deps", "chain", "admit", "up"}
    [] a = "stop" -> {"dependents", "stop"}
    [] a = "restart" -> {"restart"}
    [] a = "pull-restart" -> {"pull", "up"}
    [] a = "enable" -> {"enable"}
    [] a = "disable" -> {"look", "stop", "clear"}
    [] a = "config" -> {"write", "revise", "restart"}
    [] a = "preflight" -> {"preflight", "deps", "green"}
    [] OTHER -> {}
InStep(w) ==
  Busy(w) =>
    /\ Allowed(Svc(w), job[w].act)
    /\ pc[w] \in Steps(job[w].act)
    /\ pc[w] = "enabled" => job[w].todo = Upstream(Svc(w))
    /\ pc[w] = "preflight" => job[w].todo = Deps[Svc(w)]
InFlight == \A w \in Workers : InStep(w)

\* Requests in flight conflict only if "crossed" was recorded.
Crossing ==
  Without({"crossed"}) =>
    \A w, v \in Workers : w # v /\ Busy(w) /\ Busy(v)
      => ~Conflict(Svc(w), job[w].act, Svc(v), job[v].act)

\* Nothing but a failed or forced command, or the containers themselves,
\* leaves a service half up.
Whole(s) == Running(s) \/ Down(s)
WholeOrDown ==
  Without({"failed", "changed", "forced"}) => \A s \in Services : Whole(s)

Doing(w, a, steps) == job[w].act = a /\ pc[w] \in steps

\* What the checks of a request found is still so when it acts.
StartSound(w) ==
  /\ Doing(w, "start", {"chain", "admit", "up"}) => job[w].todo = {}
  /\ Doing(w, "start", {"deps", "chain", "admit", "up"}) =>
       /\ Without({"crossed"}) => enabled[Svc(w)]
       /\ Without({"crossed", "changed", "forced"}) =>
            \A d \in Upstream(Svc(w)) \ job[w].todo : Running(d)
  /\ /\ Doing(w, "start", {"admit", "up"})
     /\ Svc(w) \in Needs /\ Without({"blind", "moved"})
     => fit
StopSound(w) ==
  /\ Doing(w, "stop", {"stop"}) => job[w].todo = {}
  /\ /\ Doing(w, "stop", {"dependents", "stop"})
     /\ Without({"crossed", "blind", "changed", "forced"})
     => \A d \in Dependents(Svc(w)) \ job[w].todo : ~Running(d)
DisableSound(w) ==
  /\ Doing(w, "disable", {"clear"})
  /\ Without({"crossed", "blind", "failed", "changed", "forced"})
  => Down(Svc(w))
WriteSound(w) ==
  Doing(w, "config", {"revise"}) /\ Without({"crossed"})
    => job[w].text = file[Svc(w)]
ChecksAreSound ==
  \A w \in Workers :
    StartSound(w) /\ StopSound(w) /\ DisableSound(w) /\ WriteSound(w)

\* Infrastructure cannot be disabled (services.go:164-176).
InfraIsEnabled == \A s \in ReadOnly : enabled[s]

\* A green preflight is still true when it is read: every dependency runs,
\* unless a request took one down meanwhile (engine.go:307-336).
GreenHolds(w) ==
  Doing(w, "preflight", {"deps", "green"}) =>
    /\ pc[w] = "green" => job[w].todo = {}
    /\ Without({"crossed", "changed", "forced"}) =>
         \A d \in Deps[Svc(w)] \ job[w].todo : Running(d)
PreflightHolds == \A w \in Workers : GreenHolds(w)

\* No service runs while one it depends on is down, however starts and stops
\* of unrelated services interleave; a disable takes dependencies down, and
\* a restart starts what is stopped (services.go:184-199, 237-245).
OrderKept ==
  Without({"crossed", "blind", "changed", "forced", "disabled"}) =>
    \A s \in Services : Running(s) => \A d \in Upstream(s) : Running(d)

\* A disabled service has no container up, unless a start raced with the
\* disable, the disable could not see or stop it, or it was restarted without
\* being asked for (services.go:176-181, 306-315).
DisabledIsDown ==
  Without({"crossed", "blind", "failed", "changed", "forced"}) =>
    \A s \in Services : ~enabled[s] => Down(s)

\* A service that needs the whole chain is not up on a node that lacks it, but
\* for an RPC that did not answer (services.go:202-218).
UnfitStaysDown ==
  Without({"blind", "changed", "moved", "forced"}) /\ ~fit =>
    \A s \in Needs : Down(s)

\* The newest revision is what the file holds, or is about to be, unless two
\* writes raced or one failed (services.go:418-433).
FileIsRecorded ==
  Without({"crossed", "failed", "unsaved"}) =>
    \A s \in Configurable :
      \/ file[s] = revision[s]
      \/ \E w \in Workers : /\ Doing(w, "config", {"revise"}) /\ Svc(w) = s
                            /\ job[w].text = file[s]

\* The inductive invariant.
ControlInv ==
  /\ TypeOK /\ InFlight /\ Crossing /\ WholeOrDown /\ InfraIsEnabled
  /\ ChecksAreSound /\ PreflightHolds
  /\ OrderKept /\ DisabledIsDown /\ UnfitStaysDown /\ FileIsRecorded
=============================================================================
