-------------------------- MODULE AlertEngineProofs --------------------------
(***************************************************************************)
(* Proofs about the alert engine.                                          *)
(*                                                                         *)
(* UpsertAlert inserts on the strength of a SELECT made earlier.  The      *)
(* invariant says where that may have happened (`NoneMeanwhile`: between   *)
(* the two statements the key of the missing row has none), which needs    *)
(* the sweep to stand at a service that exists and the tables to be well   *)
(* typed.                                                                  *)
(* The sections after that follow the sweep through the containers of one  *)
(* service: the restarts it counts, and what the row of the service, the   *)
(* one of its restarts and its mark tell once the last container is done.  *)
(***************************************************************************)
EXTENDS AlertProperties, SelectionLemmas

SingleWriter ==
  /\ AtOK /\ MemoryOK /\ TablesOK /\ WorldOK
  /\ OneOpenAlert /\ NoneMeanwhile

-----------------------------------------------------------------------------
(* Constants.                                                              *)

LEMMA OrderIsSeq ==
  /\ Len(Order) \in Nat \ {0} /\ DOMAIN Order = 1..Len(Order)
  /\ \A i \in DOMAIN Order : Order[i] \in Services
  BY OrderAssumption DEF Services

LEMMA ContsAreSeqs ==
  ASSUME NEW s \in Services
  PROVE  /\ Len(Conts[s]) \in Nat \ {0} /\ DOMAIN Conts[s] = 1..Len(Conts[s])
         /\ \A k \in DOMAIN Conts[s] : Conts[s][k] \in Containers
<1>1. Conts[s] \in Seq(Containers) \ {<<>>}
  BY ContsAssumption
<1> QED BY <1>1

LEMMA DepsAreSeqs ==
  ASSUME NEW s \in Services
  PROVE  /\ Len(Deps[s]) \in Nat /\ DOMAIN Deps[s] = 1..Len(Deps[s])
         /\ \A k \in DOMAIN Deps[s] : Deps[s][k] \in Services
<1>1. Deps[s] \in Seq(Services)
  BY DepsAssumption
<1> QED BY <1>1

-----------------------------------------------------------------------------
(* Places.                                                                 *)

LEMMA NotFoundIsState == NotFound \in States
  BY DEF NotFound, State, States

\* The record a place is.
Place(p, i, k, on, m) ==
  [pc |-> p, i |-> i, k |-> k, m |-> 1, on |-> on, seen |-> NotFound,
   found |-> FALSE, mode |-> m]

LEMMA PlaceIsPlaced ==
  ASSUME NEW p \in Labels, NEW i \in DOMAIN Order, NEW k \in Nat,
         NEW on \in BOOLEAN, NEW m \in {"flag_only", "flag_and_stop"},
         p \in AtContainer => k \in DOMAIN Conts[Order[i]],
         p \in AtDependency => /\ k \in DOMAIN Deps[Order[i]]
                               /\ 1 \in DOMAIN Conts[Deps[Order[i]][k]]
  PROVE  Placed(Place(p, i, k, on, m)) /\ Place(p, i, k, on, m).pc = p
<1> DEFINE a == Place(p, i, k, on, m)
<1>1. a \in [pc : Labels, i : DOMAIN Order, k : Nat, m : Nat, on : BOOLEAN,
            seen : States, found : BOOLEAN,
            mode : {"flag_only", "flag_and_stop"}]
  BY NotFoundIsState DEF Place
<1>2. a.pc = p /\ a.i = i /\ a.k = k /\ a.m = 1
  BY DEF Place
<1> HIDE DEF a
<1>3. Placed(a)
  BY <1>1, <1>2 DEF Placed
<1> QED BY <1>2, <1>3 DEF a

\* Between containers and dependencies no index is constrained.
Between == {"idle", "service", "mode", "deps"}

LEMMA BetweenIsPlaced ==
  ASSUME NEW p \in Between, NEW i \in DOMAIN Order, NEW on \in BOOLEAN,
         NEW m \in {"flag_only", "flag_and_stop"}
  PROVE  Placed(Place(p, i, 1, on, m)) /\ Place(p, i, 1, on, m).pc = p
<1>1. p \in Labels /\ p \notin AtContainer /\ p \notin AtDependency
  BY DEF Between, Labels, AtContainer, AtDependency
<1>2. /\ p \in AtContainer => 1 \in DOMAIN Conts[Order[i]]
      /\ p \in AtDependency => /\ 1 \in DOMAIN Deps[Order[i]]
                               /\ 1 \in DOMAIN Conts[Deps[Order[i]][1]]
  BY <1>1
<1>3. 1 \in Nat
  OBVIOUS
<1> QED BY <1>1, <1>2, <1>3, PlaceIsPlaced, SMTT(30)

LEMMA IdleIsPlaced == Placed(Idle) /\ Idle.pc = "idle"
<1>1. Idle = Place("idle", 1, 1, FALSE, "flag_only")
  BY DEF Idle, Place
<1>2. "idle" \in Between /\ 1 \in DOMAIN Order
  BY OrderIsSeq DEF Between
<1> QED BY <1>1, <1>2, BetweenIsPlaced

LEMMA ServiceIsPlaced ==
  ASSUME NEW i \in Nat \ {0}
  PROVE  Placed(EnterService(i)) /\ EnterService(i).pc \in {"service", "mode"}
<1>1. CASE i <= Len(Order)
  <2>1. EnterService(i) = Place("service", i, 1, FALSE, "flag_only")
    BY <1>1 DEF EnterService, Idle, Place
  <2>2. "service" \in Between /\ i \in DOMAIN Order
    BY <1>1, OrderIsSeq DEF Between
  <2>3. LET a == Place("service", i, 1, FALSE, "flag_only")
        IN Placed(a) /\ a.pc = "service"
    BY <2>2, BetweenIsPlaced
  <2> QED BY <2>1, <2>3
<1>2. CASE ~(i <= Len(Order))
  <2>1. EnterService(i) = Place("mode", 1, 1, FALSE, "flag_only")
    BY <1>2 DEF EnterService, Idle, Place
  <2>2. "mode" \in Between /\ 1 \in DOMAIN Order
    BY OrderIsSeq DEF Between
  <2>3. LET a == Place("mode", 1, 1, FALSE, "flag_only")
        IN Placed(a) /\ a.pc = "mode"
    BY <2>2, BetweenIsPlaced
  <2> QED BY <2>1, <2>3
<1> QED BY <1>1, <1>2

LEMMA SvcIsService ==
  ASSUME AtOK PROVE Svc \in Services /\ at.i \in Nat \ {0} /\ at.k \in Nat
  BY OrderIsSeq DEF AtOK, Placed, Svc

LEMMA ContainerIsPlaced ==
  ASSUME AtOK, NEW k \in Nat \ {0}
  PROVE  /\ Placed(EnterContainer(k))
         /\ EnterContainer(k).pc \in {"inspect", "service", "mode"}
<1>1. CASE k <= Len(Conts[Svc])
  <2>1. EnterContainer(k) = Place("inspect", at.i, k, at.on, "flag_only")
    BY <1>1 DEF EnterContainer, Idle, Place
  <2>2. k \in DOMAIN Conts[Order[at.i]]
    BY <1>1, SvcIsService, ContsAreSeqs DEF Svc
  <2>3. "inspect" \in Labels /\ "inspect" \notin AtDependency
    BY DEF Labels, AtDependency
  <2>4. at.i \in DOMAIN Order /\ at.on \in BOOLEAN
    BY DEF AtOK, Placed
  <2> QED
    BY <2>1, <2>2, <2>3, <2>4, PlaceIsPlaced
<1>2. CASE ~(k <= Len(Conts[Svc]))
  BY <1>2, ServiceIsPlaced, SvcIsService DEF EnterContainer
<1> QED BY <1>1, <1>2

LEMMA DepsArePlaced ==
  ASSUME AtOK, NEW i \in Nat \ {0}
  PROVE  Placed(EnterDeps(i)) /\ EnterDeps(i).pc \in {"deps", "idle"}
<1>1. CASE i <= Len(Order)
  <2>1. EnterDeps(i) = Place("deps", i, 1, FALSE, at.mode)
    BY <1>1 DEF EnterDeps, Idle, Place
  <2>2. "deps" \in Between /\ i \in DOMAIN Order
    BY <1>1, OrderIsSeq DEF Between
  <2>3. at.mode \in {"flag_only", "flag_and_stop"}
    BY DEF AtOK, Placed
  <2>4. LET a == Place("deps", i, 1, FALSE, at.mode)
        IN Placed(a) /\ a.pc = "deps"
    BY <2>2, <2>3, BetweenIsPlaced
  <2> QED BY <2>1, <2>4
<1>2. CASE ~(i <= Len(Order))
  BY <1>2, IdleIsPlaced DEF EnterDeps
<1> QED BY <1>1, <1>2

LEMMA DepIsPlaced ==
  ASSUME AtOK, NEW k \in Nat \ {0}
  PROVE  Placed(EnterDep(k)) /\ EnterDep(k).pc \in {"upstream", "deps", "idle"}
<1>1. CASE k <= Len(Deps[Svc])
  <2>1. EnterDep(k) = Place("upstream", at.i, k, FALSE, at.mode)
    BY <1>1 DEF EnterDep, Idle, Place
  <2>2. k \in DOMAIN Deps[Svc] /\ Deps[Svc][k] \in Services
    BY <1>1, SvcIsService, DepsAreSeqs
  <2>3. 1 \in DOMAIN Conts[Deps[Svc][k]]
    BY <2>2, ContsAreSeqs
  <2>4. "upstream" \in Labels /\ "upstream" \notin AtContainer
    BY DEF Labels, AtContainer
  <2>5. at.i \in DOMAIN Order /\ at.mode \in {"flag_only", "flag_and_stop"}
    BY DEF AtOK, Placed
  <2>6. LET a == Place("upstream", at.i, k, FALSE, at.mode)
        IN Placed(a) /\ a.pc = "upstream"
    BY <2>2, <2>3, <2>4, <2>5, PlaceIsPlaced DEF Svc
  <2> QED BY <2>1, <2>6
<1>2. CASE ~(k <= Len(Deps[Svc]))
  BY <1>2, DepsArePlaced, SvcIsService DEF EnterDep
<1> QED BY <1>1, <1>2

-----------------------------------------------------------------------------
(* Moves within the body of a loop, and the tables.                        *)

\* The place reached within a body: the indices stay.
Moved(p, seen, found) ==
  [at EXCEPT !.pc = p, !.seen = seen, !.found = found]

LEMMA MovedIsPlaced ==
  ASSUME AtOK, NEW p \in Labels, NEW seen \in States, NEW found \in BOOLEAN,
         p \in AtContainer => at.pc \in AtContainer,
         p \in AtDependency => at.pc \in AtDependency
  PROVE  /\ Placed(Moved(p, seen, found)) /\ Moved(p, seen, found).pc = p
         /\ Moved(p, seen, found).i = at.i
         /\ Moved(p, seen, found).found = found
<1> DEFINE a == Moved(p, seen, found)
<1>1. a \in [pc : Labels, i : DOMAIN Order, k : Nat, m : Nat, on : BOOLEAN,
            seen : States, found : BOOLEAN,
            mode : {"flag_only", "flag_and_stop"}]
  BY DEF AtOK, Placed, Moved
<1>2. /\ a.pc = p /\ a.i = at.i /\ a.k = at.k /\ a.m = at.m
      /\ a.found = found
  BY DEF AtOK, Placed, Moved
<1> HIDE DEF a
<1>3. Placed(a)
  BY <1>1, <1>2 DEF AtOK, Placed
<1> QED BY <1>2, <1>3 DEF a

LEMMA GotoIsPlaced ==
  ASSUME AtOK, NEW p \in Labels,
         p \in AtContainer => at.pc \in AtContainer,
         p \in AtDependency => at.pc \in AtDependency
  PROVE  /\ Placed(Goto(p)) /\ Goto(p).pc = p /\ Goto(p).i = at.i
         /\ Goto(p).found = at.found
<1>1. Goto(p) = Moved(p, at.seen, at.found)
  BY DEF AtOK, Placed, Goto, Moved
<1>2. at.seen \in States /\ at.found \in BOOLEAN
  BY DEF AtOK, Placed
<1> QED BY <1>1, <1>2, MovedIsPlaced

LEMMA KeyOfSvc ==
  ASSUME AtOK, NEW t \in Types PROVE <<t, Svc>> \in Keys
  BY SvcIsService DEF Keys

LEMMA ContIsContainer ==
  ASSUME AtOK, at.pc \in AtContainer PROVE Cont \in Containers
<1>1. at.k \in DOMAIN Conts[Svc]
  BY DEF AtOK, Placed, Svc
<1> QED BY <1>1, SvcIsService, ContsAreSeqs DEF Cont

AlertsOK == open \in [Keys -> Nat] /\ dismissed \subseteq Keys /\ OneOpenAlert

LEMMA UpsertIsOne ==
  ASSUME AlertsOK, NEW k \in Keys, ~at.found => open[k] = 0, Upsert(k)
  PROVE  AlertsOK'
  BY DEF AlertsOK, OneOpenAlert, Upsert

LEMMA ResolveIsNone ==
  ASSUME AlertsOK, NEW k \in Keys, Resolve(k) PROVE AlertsOK'
  BY DEF AlertsOK, OneOpenAlert, Resolve

Raises == {"raiseHealth", "raiseLoop", "raiseDep"}

LEMMA NotInserting ==
  ASSUME at'.pc \notin Raises PROVE NoneMeanwhile'
  BY DEF Raises, NoneMeanwhile, Inserting

LEMMA GoneIsWorld ==
  ASSUME WorldOK, NEW s \in Services PROVE Gone(s) \in [Containers -> States]
  BY NotFoundIsState DEF WorldOK, Gone

-----------------------------------------------------------------------------
(* The steps of the sweep.                                                 *)

LEMMA SweepKeeps == ASSUME SingleWriter, Sweep PROVE SingleWriter'
<1>1. Placed(at') /\ at'.pc \notin Raises
  BY ServiceIsPlaced DEF Sweep, Raises
<1>2. NoneMeanwhile'
  BY <1>1, NotInserting
<1> QED
  BY <1>1, <1>2 DEF SingleWriter, Sweep, KeepMemory, tables, admin, world, AtOK,
     MemoryOK, TablesOK, WorldOK, OneOpenAlert

LEMMA ReadEnabledKeeps == ASSUME SingleWriter, ReadEnabled PROVE SingleWriter'
<1> DEFINE a == EnterContainer(1)
<1>1. Placed(a) /\ a.pc \in {"inspect", "service", "mode"}
  BY ContainerIsPlaced DEF SingleWriter
<1>2. Wanted(Svc) \in BOOLEAN
  BY SvcIsService DEF SingleWriter, TablesOK, Wanted
<1> HIDE DEF a
<1>3. Placed([a EXCEPT !.on = Wanted(Svc)]) /\ [a EXCEPT !.on = Wanted(Svc)].pc = a.pc
  BY <1>1, <1>2 DEF Placed
<1>4. at' = [a EXCEPT !.on = Wanted(Svc)]
  BY DEF ReadEnabled, a
<1>5. NoneMeanwhile'
  BY <1>1, <1>3, <1>4, NotInserting DEF Raises
<1> QED
  BY <1>3, <1>4, <1>5 DEF SingleWriter, ReadEnabled, KeepMemory, tables, admin,
     world, AtOK, MemoryOK, TablesOK, WorldOK, OneOpenAlert

LEMMA AnswerIsCharged ==
  ASSUME WorldOK, NEW c \in Containers, NEW a \in Answers(c), Charge(a = cont[c])
  PROVE  a \in States /\ budget' \in [Limited -> Nat]
<1>1. a \in States
  <2>1. State("unknown", FALSE, 0) \in States /\ cont[c] \in States
    BY DEF WorldOK, State, States
  <2> QED BY <2>1, NotFoundIsState DEF Answers, NoAnswer
<1>2. "outage" \in Limited /\ budget["outage"] \in Nat
  BY DEF WorldOK, Limited
<1>3. CASE a = cont[c]
  BY <1>1, <1>3 DEF WorldOK, Charge
<1>4. CASE a # cont[c]
  <2>1. budget["outage"] > 0
    BY <1>4 DEF Answers
  <2> QED BY <1>1, <1>2, <1>4, <2>1 DEF WorldOK, Charge
<1> QED BY <1>3, <1>4

LEMMA InspectOneKeeps == ASSUME SingleWriter, InspectOne PROVE SingleWriter'
<1>1. PICK a \in Answers(Cont) : /\ at' = [Goto("health") EXCEPT !.seen = a]
                                /\ Charge(a = cont[Cont])
  BY DEF InspectOne
<1>2. at.pc \in AtContainer
  BY DEF InspectOne, At, AtContainer
<1>3. a \in States /\ budget' \in [Limited -> Nat]
  BY <1>1, <1>2, ContIsContainer, AnswerIsCharged DEF SingleWriter
<1>4. at' = Moved("health", a, at.found) /\ at.found \in BOOLEAN
  BY <1>1 DEF Goto, Moved, SingleWriter, AtOK, Placed
<1>5. "health" \in Labels /\ "health" \notin AtDependency
  BY DEF Labels, AtDependency
<1>6. Placed(at') /\ at'.pc = "health"
  BY <1>2, <1>3, <1>4, <1>5, MovedIsPlaced DEF SingleWriter
<1>7. NoneMeanwhile'
  BY <1>6, NotInserting DEF Raises
<1> QED
  BY <1>3, <1>6, <1>7 DEF SingleWriter, InspectOne, KeepMemory, tables, admin,
     world, AtOK, MemoryOK, TablesOK, WorldOK, OneOpenAlert

\* What a step of the engine that only touches the alerts has to show.
AlertsStep ==
  /\ UNCHANGED <<last, prev, reported, enabled, mode, cont, real, budget>>
  /\ autoStopped' \subseteq autoStopped

LEMMA AlertsStepKeeps ==
  ASSUME SingleWriter, AlertsStep, Placed(at'), AlertsOK', NoneMeanwhile'
  PROVE  SingleWriter'
  BY DEF SingleWriter, AlertsStep, AlertsOK, AtOK, MemoryOK, TablesOK, WorldOK

LEMMA AlertsAreOK == ASSUME SingleWriter PROVE AlertsOK
  BY DEF SingleWriter, TablesOK, AlertsOK

RaisesFor == {<<"raiseHealth", "service_unhealthy">>,
              <<"raiseLoop", "restart_loop">>,
              <<"raiseDep", "upstream_unhealthy">>}

\* Looking for the row first: what the engine remembers of it is true.
LEMMA SelectThenRaise ==
  ASSUME SingleWriter, NEW p, NEW t, <<p, t>> \in RaisesFor,
         NEW found \in BOOLEAN, found <=> open[<<t, Svc>>] > 0,
         p \in AtContainer => at.pc \in AtContainer,
         p \in AtDependency => at.pc \in AtDependency,
         at' = Moved(p, at.seen, found),
         UNCHANGED <<open, dismissed>>
  PROVE  Placed(at') /\ AlertsOK' /\ NoneMeanwhile'
<1>1. p \in Labels /\ p \in Raises /\ t \in Types
  BY DEF RaisesFor, Raises, Labels, Types
<1>2. at.seen \in States /\ AtOK
  BY DEF SingleWriter, AtOK, Placed
<1>3. Placed(at') /\ at'.pc = p /\ at'.i = at.i /\ at'.found = found
  BY <1>1, <1>2, MovedIsPlaced
<1>4. Svc' = Svc
  BY <1>3 DEF Svc
<1>5. Inserting' = {<<t, Svc>>}
  BY <1>3, <1>4 DEF Inserting, RaisesFor
<1>6. <<t, Svc>> \in Keys /\ (~found => open[<<t, Svc>>] = 0)
  BY <1>1, <1>2, KeyOfSvc DEF SingleWriter, TablesOK
<1>7. NoneMeanwhile'
  BY <1>3, <1>5, <1>6 DEF NoneMeanwhile
<1> QED BY <1>3, <1>7, AlertsAreOK DEF AlertsOK, OneOpenAlert

LEMMA FoundIsMoved ==
  ASSUME SingleWriter, NEW p, NEW k, at' = [Goto(p) EXCEPT !.found = Select(k)]
  PROVE  \E found \in BOOLEAN :
           at' = Moved(p, at.seen, found) /\ (found <=> open[k] > 0)
<1>1. CASE open[k] > 0
  <2>1. Select(k) = TRUE
    BY <1>1 DEF Select
  <2>2. at' = Moved(p, at.seen, TRUE)
    BY <2>1 DEF Goto, Moved, SingleWriter, AtOK, Placed
  <2> QED BY <1>1, <2>2
<1>2. CASE ~(open[k] > 0)
  <2>1. Select(k) = FALSE
    BY <1>2 DEF Select
  <2>2. at' = Moved(p, at.seen, FALSE)
    BY <2>1 DEF Goto, Moved, SingleWriter, AtOK, Placed
  <2> QED BY <1>2, <2>2
<1> QED BY <1>1, <1>2

LEMMA CheckHealthKeeps == ASSUME SingleWriter, CheckHealth PROVE SingleWriter'
<1> DEFINE k == <<"service_unhealthy", Svc>>
<1>1. at.pc \in AtContainer /\ AlertsStep
  BY DEF CheckHealth, At, AtContainer, AlertsStep, KeepMemory, admin, world
<1>2. CASE /\ at' = [Goto("raiseHealth") EXCEPT !.found = Select(k)]
           /\ UNCHANGED <<open, dismissed>>
  <2>1. /\ <<"raiseHealth", "service_unhealthy">> \in RaisesFor
        /\ "raiseHealth" \notin AtDependency
    BY DEF RaisesFor, AtDependency
  <2>2. PICK found \in BOOLEAN : /\ at' = Moved("raiseHealth", at.seen, found)
                                 /\ found <=> open[k] > 0
    BY <1>2, FoundIsMoved
  <2>3. Placed(at') /\ AlertsOK' /\ NoneMeanwhile'
    BY <1>1, <1>2, <2>1, <2>2, SelectThenRaise
  <2> QED BY <1>1, <2>3, AlertsStepKeeps
<1>3. CASE at' = Goto("count") /\ Resolve(k)
  <2>1. "count" \in Labels /\ "count" \notin AtDependency
    BY DEF Labels, AtDependency
  <2>2. Placed(at') /\ at'.pc = "count"
    BY <1>1, <1>3, <2>1, GotoIsPlaced DEF SingleWriter
  <2>3. k \in Keys
    BY KeyOfSvc DEF SingleWriter, Types
  <2>4. AlertsOK'
    BY <1>3, <2>3, AlertsAreOK, ResolveIsNone
  <2> QED BY <1>1, <2>2, <2>4, NotInserting, AlertsStepKeeps DEF Raises
<1> QED BY <1>2, <1>3 DEF CheckHealth

LEMMA RaiseHealthKeeps == ASSUME SingleWriter, RaiseHealth PROVE SingleWriter'
<1> DEFINE k == <<"service_unhealthy", Svc>>
<1>1. /\ at.pc = "raiseHealth" /\ at.pc \in AtContainer
      /\ at' = Goto("count") /\ Upsert(k) /\ AlertsStep
  BY DEF RaiseHealth, At, AtContainer, AlertsStep, KeepMemory, admin, world
<1>2. k \in Keys /\ (~at.found => open[k] = 0)
  BY <1>1, KeyOfSvc DEF SingleWriter, Types, NoneMeanwhile, Inserting
<1>3. AlertsOK'
  BY <1>1, <1>2, AlertsAreOK, UpsertIsOne
<1>4. "count" \in Labels /\ "count" \notin AtDependency
  BY DEF Labels, AtDependency
<1>5. Placed(at') /\ at'.pc = "count"
  BY <1>1, <1>4, GotoIsPlaced DEF SingleWriter
<1> QED BY <1>1, <1>3, <1>5, NotInserting, AlertsStepKeeps DEF Raises

LEMMA CountKeeps == ASSUME SingleWriter, Count PROVE SingleWriter'
<1>1. at.pc \in AtContainer /\ at' = Goto("loop")
  BY DEF Count, At, AtContainer
<1>2. "loop" \in Labels /\ "loop" \notin AtDependency
  BY DEF Labels, AtDependency
<1>3. Placed(at') /\ at'.pc = "loop"
  BY <1>1, <1>2, GotoIsPlaced DEF SingleWriter
<1>4. at.seen.count \in Nat
  BY DEF SingleWriter, AtOK, Placed, States
<1>5. last' \in [Containers -> Nat \cup {Unseen}]
  BY <1>4 DEF SingleWriter, MemoryOK, Count
<1>6. NoneMeanwhile'
  BY <1>3, NotInserting DEF Raises
<1> QED
  BY <1>3, <1>5, <1>6 DEF SingleWriter, Count, tables, admin, world, AtOK,
     MemoryOK, TablesOK, WorldOK, OneOpenAlert

LEMMA EvalLoopKeeps == ASSUME SingleWriter, EvalLoop PROVE SingleWriter'
<1> DEFINE k == <<"restart_loop", Svc>>
<1>1. at.pc \in AtContainer /\ k \in Keys
  BY KeyOfSvc DEF EvalLoop, At, AtContainer, SingleWriter, Types
<1>2. AlertsStep
  BY DEF EvalLoop, Forgotten, AlertsStep, admin, world
<1>3. CASE /\ at' = [Goto("raiseLoop") EXCEPT !.found = Select(k)]
           /\ UNCHANGED <<open, dismissed>>
  <2>1. /\ <<"raiseLoop", "restart_loop">> \in RaisesFor
        /\ "raiseLoop" \notin AtDependency
    BY DEF RaisesFor, AtDependency
  <2>2. PICK found \in BOOLEAN : /\ at' = Moved("raiseLoop", at.seen, found)
                                 /\ found <=> open[k] > 0
    BY <1>3, FoundIsMoved
  <2>3. Placed(at') /\ AlertsOK' /\ NoneMeanwhile'
    BY <1>1, <1>3, <2>1, <2>2, SelectThenRaise
  <2> QED BY <1>2, <2>3, AlertsStepKeeps
<1>4. CASE /\ at' = Goto("events")
           /\ Resolve(k) \/ UNCHANGED <<open, dismissed>>
  <2>1. "events" \in Labels /\ "events" \notin AtDependency
    BY DEF Labels, AtDependency
  <2>2. Placed(at') /\ at'.pc = "events"
    BY <1>1, <1>4, <2>1, GotoIsPlaced DEF SingleWriter
  <2>3. CASE Resolve(k)
    BY <1>1, <1>2, <2>2, <2>3, AlertsAreOK, ResolveIsNone, NotInserting,
       AlertsStepKeeps DEF Raises
  <2>4. CASE UNCHANGED <<open, dismissed>>
    <3>1. AlertsOK'
      BY <2>4, AlertsAreOK DEF AlertsOK, OneOpenAlert
    <3> QED BY <1>2, <2>2, <3>1, NotInserting, AlertsStepKeeps DEF Raises
  <2> QED BY <1>4, <2>3, <2>4
<1> QED BY <1>3, <1>4 DEF EvalLoop

LEMMA RaiseLoopKeeps == ASSUME SingleWriter, RaiseLoop PROVE SingleWriter'
<1> DEFINE k == <<"restart_loop", Svc>>
<1>1. at.pc = "raiseLoop" /\ at.pc \in AtContainer /\ Upsert(k) /\ AlertsStep
  BY DEF RaiseLoop, At, AtContainer, AlertsStep, KeepMemory, admin, world
<1>2. k \in Keys /\ (~at.found => open[k] = 0)
  BY <1>1, KeyOfSvc DEF SingleWriter, Types, NoneMeanwhile, Inserting
<1>3. AlertsOK'
  BY <1>1, <1>2, AlertsAreOK, UpsertIsOne
<1>4. PICK p \in {"stopLoop", "events"} : at' = Goto(p)
  BY DEF RaiseLoop
<1>5. p \in Labels /\ p \notin AtDependency /\ p \notin Raises
  BY DEF Labels, AtDependency, Raises
<1>6. Placed(at') /\ at'.pc = p
  BY <1>1, <1>4, <1>5, GotoIsPlaced DEF SingleWriter
<1> QED BY <1>1, <1>3, <1>5, <1>6, NotInserting, AlertsStepKeeps

LEMMA StopIsTyped ==
  ASSUME SingleWriter, NEW reason \in {"loop", "dep"}, Stop(reason)
  PROVE  /\ cont' \in [Containers -> States]
         /\ autoStopped' \subseteq Services \X {"loop", "dep"}
         /\ budget' \in [Limited -> Nat]
<1>1. Svc \in Services /\ Gone(Svc) \in [Containers -> States]
  BY SvcIsService, GoneIsWorld DEF SingleWriter
<1>2. CASE /\ cont' = Gone(Svc)
           /\ autoStopped' = autoStopped \cup {<<Svc, reason>>}
           /\ UNCHANGED budget
  BY <1>1, <1>2 DEF SingleWriter, MemoryOK, WorldOK
<1>3. CASE /\ Spend("fail") /\ cont' \in {cont, Gone(Svc)}
           /\ UNCHANGED autoStopped
  <2>1. budget' \in [Limited -> Nat]
    BY <1>3 DEF SingleWriter, WorldOK, Spend, Limited
  <2> QED BY <1>1, <1>3, <2>1 DEF SingleWriter, MemoryOK, WorldOK
<1> QED BY <1>2, <1>3 DEF Stop

\* A step to a place where no row is about to be inserted, that leaves the
\* alerts alone.
LEMMA QuietStepKeeps ==
  ASSUME SingleWriter, Placed(at'), at'.pc \notin Raises, MemoryOK', WorldOK',
         UNCHANGED <<open, dismissed, admin>>, reported' \in [Containers -> Nat]
  PROVE  SingleWriter'
BY NotInserting DEF SingleWriter, AtOK, TablesOK, OneOpenAlert, admin

LEMMA StopLoopKeeps == ASSUME SingleWriter, StopLoop PROVE SingleWriter'
<1>1. at.pc \in AtContainer /\ at' = Goto("events") /\ Stop("loop")
  BY DEF StopLoop, At, AtContainer
<1>2. "events" \in Labels /\ "events" \notin AtDependency
  BY DEF Labels, AtDependency
<1>3. Placed(at') /\ at'.pc = "events"
  BY <1>1, <1>2, GotoIsPlaced DEF SingleWriter
<1>4. MemoryOK' /\ WorldOK'
  BY <1>1, StopIsTyped DEF SingleWriter, MemoryOK, WorldOK, StopLoop
<1> QED
  BY <1>3, <1>4, QuietStepKeeps DEF StopLoop, tables, Raises, SingleWriter, TablesOK

LEMMA StopDependentKeeps == ASSUME SingleWriter, StopDependent PROVE SingleWriter'
<1>1. at' = EnterDep(at.k + 1) /\ Stop("dep") /\ at.k + 1 \in Nat \ {0}
  BY SvcIsService DEF StopDependent, SingleWriter
<1>2. Placed(at') /\ at'.pc \in {"upstream", "deps", "idle"}
  BY <1>1, DepIsPlaced DEF SingleWriter
<1>3. MemoryOK' /\ WorldOK'
  BY <1>1, StopIsTyped DEF SingleWriter, MemoryOK, WorldOK, StopDependent
<1> QED
  BY <1>2, <1>3, QuietStepKeeps
     DEF StopDependent, tables, Raises, SingleWriter, TablesOK

LEMMA EventsKeeps == ASSUME SingleWriter, Events PROVE SingleWriter'
<1>1. /\ at.pc \in AtContainer /\ at' = EnterContainer(at.k + 1)
      /\ at.k + 1 \in Nat \ {0}
  BY SvcIsService DEF Events, At, AtContainer, SingleWriter
<1>2. Placed(at') /\ at'.pc \in {"inspect", "service", "mode"}
  BY <1>1, ContainerIsPlaced DEF SingleWriter
<1>3. Cont \in Containers /\ at.seen \in States /\ at.seen.count \in Nat
  BY <1>1, ContIsContainer DEF SingleWriter, AtOK, Placed, States
<1>4. MemoryOK'
  BY <1>3 DEF SingleWriter, MemoryOK, Events
<1>5. reported' \in [Containers -> Nat]
  <2> DEFINE g == IF prev[Cont] = Unseen THEN 0
                  ELSE Growth(prev[Cont].count, at.seen.count)
  <2>1. prev[Cont] # Unseen => prev[Cont].count \in Nat
    BY <1>3 DEF SingleWriter, MemoryOK, States
  <2>2. g \in Nat
    BY <1>3, <2>1 DEF Growth
  <2>3. reported' = [reported EXCEPT ![Cont] = @ + g]
    BY DEF Events
  <2>4. reported \in [Containers -> Nat] /\ reported[Cont] + g \in Nat
    BY <1>3, <2>2 DEF SingleWriter, TablesOK
  <2> HIDE DEF g
  <2> QED BY <2>3, <2>4
<1>6. WorldOK'
  BY DEF SingleWriter, WorldOK, Events, world
<1> QED
  BY <1>2, <1>4, <1>5, <1>6, QuietStepKeeps DEF Events, Raises, tables

LEMMA ReadModeKeeps == ASSUME SingleWriter, ReadMode PROVE SingleWriter'
<1> DEFINE a == EnterDeps(1)
<1>1. Placed(a) /\ a.pc \in {"deps", "idle"}
  BY DepsArePlaced DEF SingleWriter
<1>2. mode \in {"flag_only", "flag_and_stop"}
  BY SettingsAssumption DEF SingleWriter, TablesOK
<1>3. at' = [a EXCEPT !.mode = mode]
  BY DEF ReadMode
<1> HIDE DEF a
<1>4. Placed(at') /\ at'.pc = a.pc
  BY <1>1, <1>2, <1>3 DEF Placed
<1>5. MemoryOK' /\ WorldOK' /\ reported' \in [Containers -> Nat]
  BY DEF ReadMode, KeepMemory, tables, world, SingleWriter, MemoryOK, TablesOK,
         WorldOK
<1> QED
  BY <1>1, <1>4, <1>5, QuietStepKeeps DEF ReadMode, Raises, tables

LEMMA CheckDepsKeeps == ASSUME SingleWriter, CheckDeps PROVE SingleWriter'
<1> DEFINE k == <<"upstream_unhealthy", Svc>>
<1>1. AlertsStep /\ k \in Keys /\ at.i + 1 \in Nat \ {0}
  BY KeyOfSvc, SvcIsService
     DEF CheckDeps, AlertsStep, KeepMemory, admin, world, SingleWriter, Types
<1>2. CASE Resolve(k) /\ at' = EnterDeps(at.i + 1)
  <2>1. Placed(at') /\ at'.pc \in {"deps", "idle"}
    BY <1>1, <1>2, DepsArePlaced DEF SingleWriter
  <2>2. AlertsOK'
    BY <1>1, <1>2, AlertsAreOK, ResolveIsNone
  <2> QED BY <1>1, <2>1, <2>2, NotInserting, AlertsStepKeeps DEF Raises
<1>3. CASE at' = EnterDep(1) /\ UNCHANGED <<open, dismissed>>
  <2>1. Placed(at') /\ at'.pc \in {"upstream", "deps", "idle"}
    BY <1>3, DepIsPlaced DEF SingleWriter
  <2>2. AlertsOK'
    BY <1>3, AlertsAreOK DEF AlertsOK, OneOpenAlert
  <2> QED BY <1>1, <2>1, <2>2, NotInserting, AlertsStepKeeps DEF Raises
<1> QED BY <1>2, <1>3 DEF CheckDeps

LEMMA InspectUpstreamKeeps ==
  ASSUME SingleWriter, InspectUpstream PROVE SingleWriter'
<1> DEFINE c == Conts[Dep][at.m]
<1>1. at.pc = "upstream" /\ at.pc \in AtDependency
  BY DEF InspectUpstream, At, AtDependency
<1>2. at.k \in DOMAIN Deps[Svc] /\ at.m \in DOMAIN Conts[Dep]
  BY <1>1 DEF SingleWriter, AtOK, Placed, Svc, Dep
<1>3. Dep \in Services
  BY <1>2, SvcIsService, DepsAreSeqs DEF SingleWriter, Dep
<1>4. c \in Containers /\ DOMAIN Conts[Dep] = 1..Len(Conts[Dep])
      /\ Len(Conts[Dep]) \in Nat
  BY <1>2, <1>3, ContsAreSeqs
<1>5. PICK a \in Answers(c) :
        /\ at' = CASE Down(a) -> Goto("flag")
                   [] ~Down(a) /\ at.m < Len(Conts[Dep]) -> [at EXCEPT !.m = @ + 1]
                   [] OTHER -> Goto("clear")
        /\ Charge(a = cont[c])
  BY DEF InspectUpstream
<1>6. budget' \in [Limited -> Nat]
  BY <1>4, <1>5, AnswerIsCharged DEF SingleWriter
<1>7. \/ at' = Goto("flag") \/ at' = Goto("clear")
      \/ at.m < Len(Conts[Dep]) /\ at' = [at EXCEPT !.m = @ + 1]
  BY <1>5
<1>8. Placed(at') /\ at'.pc \in {"flag", "clear", "upstream"}
  <2>1. CASE at' = Goto("flag") \/ at' = Goto("clear")
    <3>1. {"flag", "clear"} \subseteq Labels
          /\ "flag" \notin AtContainer /\ "clear" \notin AtContainer
      BY DEF Labels, AtContainer
    <3> QED BY <1>1, <2>1, <3>1, GotoIsPlaced DEF SingleWriter
  <2>2. CASE at.m < Len(Conts[Dep]) /\ at' = [at EXCEPT !.m = @ + 1]
    <3>1. at.m + 1 \in DOMAIN Conts[Dep] /\ at.m + 1 \in Nat
      BY <1>2, <1>4, <2>2
    <3>2. Placed(at)
      BY DEF SingleWriter, AtOK
    <3> QED
      BY <1>1, <1>2, <2>2, <3>1, <3>2 DEF Placed, Svc, Dep, AtContainer
  <2> QED BY <1>7, <2>1, <2>2
<1>9. MemoryOK' /\ WorldOK' /\ reported' \in [Containers -> Nat]
  BY <1>6 DEF InspectUpstream, KeepMemory, tables, world, SingleWriter, MemoryOK,
     TablesOK, WorldOK
<1> QED
  BY <1>8, <1>9, QuietStepKeeps DEF InspectUpstream, Raises, tables

LEMMA ClearUpstreamKeeps == ASSUME SingleWriter, ClearUpstream PROVE SingleWriter'
<1> DEFINE k == <<"upstream_unhealthy", Svc>>
<1>1. AlertsStep /\ k \in Keys /\ at.k + 1 \in Nat \ {0}
  BY KeyOfSvc, SvcIsService
     DEF ClearUpstream, AlertsStep, admin, world, SingleWriter, Types
<1>2. Placed(at') /\ at'.pc \in {"upstream", "deps", "idle"}
  BY <1>1, DepIsPlaced DEF SingleWriter, ClearUpstream
<1>3. AlertsOK'
  BY <1>1, AlertsAreOK, ResolveIsNone DEF ClearUpstream
<1> QED BY <1>1, <1>2, <1>3, NotInserting, AlertsStepKeeps DEF Raises

LEMMA FlagUpstreamKeeps == ASSUME SingleWriter, FlagUpstream PROVE SingleWriter'
<1> DEFINE k == <<"upstream_unhealthy", Svc>>
<1>1. /\ at.pc \in AtDependency /\ AlertsStep
      /\ at' = [Goto("raiseDep") EXCEPT !.found = Select(k)]
      /\ UNCHANGED <<open, dismissed>>
  BY DEF FlagUpstream, At, AtDependency, AlertsStep, KeepMemory, tables, admin,
         world
<1>2. /\ <<"raiseDep", "upstream_unhealthy">> \in RaisesFor
      /\ "raiseDep" \notin AtContainer
  BY DEF RaisesFor, AtContainer
<1>3. PICK found \in BOOLEAN : /\ at' = Moved("raiseDep", at.seen, found)
                               /\ found <=> open[k] > 0
  BY <1>1, FoundIsMoved
<1>4. Placed(at') /\ AlertsOK' /\ NoneMeanwhile'
  BY <1>1, <1>2, <1>3, SelectThenRaise
<1> QED BY <1>1, <1>4, AlertsStepKeeps

LEMMA RaiseUpstreamKeeps == ASSUME SingleWriter, RaiseUpstream PROVE SingleWriter'
<1> DEFINE k == <<"upstream_unhealthy", Svc>>
<1>1. at.pc = "raiseDep" /\ at.pc \in AtDependency /\ Upsert(k) /\ AlertsStep
  BY DEF RaiseUpstream, At, AtDependency, AlertsStep, KeepMemory, admin, world
<1>2. k \in Keys /\ (~at.found => open[k] = 0)
  BY <1>1, KeyOfSvc DEF SingleWriter, Types, NoneMeanwhile, Inserting
<1>3. AlertsOK'
  BY <1>1, <1>2, AlertsAreOK, UpsertIsOne
<1>4. CASE at' = Goto("stopDep")
  <2>1. "stopDep" \in Labels /\ "stopDep" \notin AtContainer
    BY DEF Labels, AtContainer
  <2>2. Placed(at') /\ at'.pc = "stopDep"
    BY <1>1, <1>4, <2>1, GotoIsPlaced DEF SingleWriter
  <2> QED BY <1>1, <1>3, <2>2, NotInserting, AlertsStepKeeps DEF Raises
<1>5. CASE at' = EnterDep(at.k + 1)
  <2>1. Placed(at') /\ at'.pc \in {"upstream", "deps", "idle"}
    BY <1>5, DepIsPlaced, SvcIsService DEF SingleWriter
  <2> QED BY <1>1, <1>3, <2>1, NotInserting, AlertsStepKeeps DEF Raises
<1> QED BY <1>4, <1>5 DEF RaiseUpstream

-----------------------------------------------------------------------------
(* Everyone else.  Only Dismiss touches the alerts, and only Restart the   *)
(* sweep.                                                                  *)

LEMMA SpendIsTyped ==
  ASSUME WorldOK, NEW b \in Limited, Spend(b)
  PROVE  budget' \in [Limited -> Nat]
  BY DEF WorldOK, Spend

\* A step that leaves the sweep and the alerts alone.
LEMMA OutsideStepKeeps ==
  ASSUME SingleWriter, UNCHANGED <<at, open, dismissed>>,
         MemoryOK', TablesOK', WorldOK'
  PROVE  SingleWriter'
<1>1. Svc' = Svc
  BY DEF Svc
<1>2. Inserting' = Inserting
  BY <1>1 DEF Inserting
<1> QED
  BY <1>2 DEF SingleWriter, AtOK, OneOpenAlert, NoneMeanwhile

LEMMA ContainersKeep ==
  ASSUME SingleWriter, NEW c \in Containers, Happen(c) \/ Restarts(c)
  PROVE  SingleWriter'
<1>1. budget' \in [Limited -> Nat]
  BY SpendIsTyped DEF Happen, Restarts, SingleWriter, Limited
<1>2. cont' \in [Containers -> States] /\ real' \in [Containers -> Nat]
  <2>1. cont[c] \in States /\ cont[c].count \in Nat
    BY DEF SingleWriter, WorldOK, States
  <2>2. CASE Happen(c)
    <3>1. PICK st \in {"running", "exited", "restarting"}, sick \in BOOLEAN :
            cont' = [cont EXCEPT ![c] = State(st, sick, cont[c].count)]
      BY <2>2 DEF Happen
    <3>2. State(st, sick, cont[c].count) \in States
      BY <2>1 DEF State, States
    <3> QED BY <2>2, <3>1, <3>2 DEF Happen, SingleWriter, WorldOK
  <2>3. CASE Restarts(c)
    <3>1. State("running", FALSE, cont[c].count + 1) \in States
      BY <2>1 DEF State, States
    <3>2. /\ cont' = [cont EXCEPT ![c] = State("running", FALSE, cont[c].count + 1)]
          /\ real' = [real EXCEPT ![c] = real[c] + 1]
      BY <2>3 DEF Restarts
    <3>3. cont \in [Containers -> States] /\ real \in [Containers -> Nat]
      BY DEF SingleWriter, WorldOK
    <3>4. cont' \in [Containers -> States]
      BY <3>1, <3>2, <3>3
    <3>5. real' \in [Containers -> Nat]
      BY <3>2, <3>3
    <3> QED BY <3>4, <3>5
  <2> QED BY <2>2, <2>3
<1> QED
  BY <1>1, <1>2, OutsideStepKeeps
     DEF Happen, Restarts, memory, tables, admin, SingleWriter, MemoryOK,
         TablesOK, WorldOK

LEMMA ProjectsKeep ==
  ASSUME SingleWriter, NEW s \in Services,
         Start(s) \/ Remove(s) \/ Disable(s) \/ Enable(s)
  PROVE  SingleWriter'
<1>1. budget' \in [Limited -> Nat]
  BY SpendIsTyped DEF Start, Remove, Disable, Enable, SingleWriter, Limited
<1>2. cont' \in [Containers -> States]
  <2>1. \A c \in Containers : cont[c] \in States /\ cont[c].count \in Nat
    BY DEF SingleWriter, WorldOK, States
  <2>2. CASE Start(s)
    <3>1. Running \in States
      BY DEF Running, State, States
    <3> QED BY <2>1, <2>2, <3>1 DEF Start
  <2>3. CASE Remove(s)
    BY <2>3, GoneIsWorld DEF Remove, SingleWriter
  <2>4. CASE Disable(s)
    <3>1. \A c \in Containers : State("exited", FALSE, cont[c].count) \in States
      BY <2>1 DEF State, States
    <3> QED BY <2>1, <2>4, <3>1 DEF Disable, SingleWriter, WorldOK
  <2>5. CASE Enable(s)
    BY <2>5 DEF Enable, world, SingleWriter, WorldOK
  <2> QED BY <2>2, <2>3, <2>4, <2>5
<1>3. enabled' \in [Services -> BOOLEAN]
  BY DEF Start, Remove, Disable, Enable, admin, SingleWriter, TablesOK
<1> QED
  BY <1>1, <1>2, <1>3, OutsideStepKeeps
     DEF Start, Remove, Disable, Enable, memory, tables, admin, world,
         SingleWriter, MemoryOK, TablesOK, WorldOK

LEMMA DismissKeeps ==
  ASSUME SingleWriter, NEW k \in Keys, Dismiss(k) PROVE SingleWriter'
<1>1. budget' \in [Limited -> Nat]
  BY SpendIsTyped DEF Dismiss, SingleWriter, Limited
<1>2. open[k] \in Nat \ {0} /\ open' = [open EXCEPT ![k] = open[k] - 1]
  BY DEF Dismiss, SingleWriter, TablesOK
<1>3. open' \in [Keys -> Nat] /\ dismissed' \subseteq Keys
  BY <1>2 DEF Dismiss, SingleWriter, TablesOK
<1>4. \A j \in Keys : open'[j] <= open[j]
  BY <1>2 DEF SingleWriter, TablesOK
<1>5. Inserting' = Inserting /\ at' = at
  BY DEF Dismiss, memory, Inserting, Svc
<1>6. Inserting \subseteq Keys
  BY KeyOfSvc DEF Inserting, SingleWriter, Types
<1>7. OneOpenAlert' /\ NoneMeanwhile'
  BY <1>3, <1>4, <1>5, <1>6 DEF SingleWriter, TablesOK, OneOpenAlert, NoneMeanwhile
<1> QED
  BY <1>1, <1>3, <1>5, <1>7
     DEF Dismiss, memory, admin, world, SingleWriter, AtOK, MemoryOK, TablesOK,
         WorldOK

LEMMA RestKeeps ==
  ASSUME SingleWriter, SetMode \/ Time \/ UNCHANGED vars PROVE SingleWriter'
<1>1. budget' \in [Limited -> Nat] /\ mode' \in Modes
  BY SpendIsTyped
     DEF SetMode, Time, vars, admin, SingleWriter, TablesOK, WorldOK, Limited
<1> QED
  BY <1>1, OutsideStepKeeps
     DEF SetMode, Time, vars, memory, tables, admin, world, SingleWriter,
         MemoryOK, TablesOK, WorldOK

LEMMA RestartKeeps == ASSUME SingleWriter, Restart PROVE SingleWriter'
<1>1. budget' \in [Limited -> Nat]
  BY SpendIsTyped DEF Restart, SingleWriter, Limited
<1>2. Placed(at') /\ at'.pc = "idle"
  BY IdleIsPlaced DEF Restart
<1>3. MemoryOK' /\ WorldOK'
  BY <1>1 DEF Restart, world, SingleWriter, MemoryOK, WorldOK
<1> QED
  BY <1>2, <1>3, QuietStepKeeps
     DEF Restart, Raises, tables, SingleWriter, TablesOK

-----------------------------------------------------------------------------
(* Theorems.                                                               *)

LEMMA InitSingleWriter == Init => SingleWriter
<1> SUFFICES ASSUME Init PROVE SingleWriter
  OBVIOUS
<1>1. AtOK /\ at.pc = "idle"
  BY IdleIsPlaced DEF Init, AtOK
<1>2. MemoryOK
  BY DEF Init, MemoryOK
<1>3. TablesOK
  BY DEF Init, TablesOK
<1>4. WorldOK
  BY BudgetAssumption DEF Init, WorldOK, Running, State, States
<1>5. OneOpenAlert /\ NoneMeanwhile
  BY <1>1 DEF Init, OneOpenAlert, NoneMeanwhile, Inserting
<1> QED BY <1>1, <1>2, <1>3, <1>4, <1>5 DEF SingleWriter

LEMMA NextSingleWriter == SingleWriter /\ [Next]_vars => SingleWriter'
<1> SUFFICES ASSUME SingleWriter, [Next]_vars PROVE SingleWriter'
  OBVIOUS
<1>1. CASE Engine
  BY <1>1, SweepKeeps, ReadEnabledKeeps, InspectOneKeeps, CheckHealthKeeps,
     RaiseHealthKeeps, CountKeeps, EvalLoopKeeps, RaiseLoopKeeps, StopLoopKeeps,
     EventsKeeps, ReadModeKeeps, CheckDepsKeeps, InspectUpstreamKeeps,
     ClearUpstreamKeeps, FlagUpstreamKeeps, RaiseUpstreamKeeps,
     StopDependentKeeps DEF Engine
<1>2. CASE Environment
  BY <1>2, ContainersKeep, ProjectsKeep, DismissKeeps, RestKeeps, RestartKeeps
     DEF Environment
<1> QED BY <1>1, <1>2, RestKeeps DEF Next

\* No alert ever has two unresolved rows, although UpsertAlert looks and
\* writes in two statements, whatever the registry and the settings are.
THEOREM OneRowPerAlert == Spec => []OneOpenAlert
<1>1. SingleWriter => OneOpenAlert
  BY DEF SingleWriter
<1> QED BY <1>1, InitSingleWriter, NextSingleWriter, PTL DEF Spec

\* The sweep stands at a container or a dependency that exists, and the tables
\* and the world hold values of their kind.
THEOREM SweepIsPlaced == Spec => [](AtOK /\ MemoryOK /\ TablesOK /\ WorldOK)
<1>1. SingleWriter => AtOK /\ MemoryOK /\ TablesOK /\ WorldOK
  BY DEF SingleWriter
<1> QED BY <1>1, InitSingleWriter, NextSingleWriter, PTL DEF Spec

-----------------------------------------------------------------------------
(* The lists of restarts.                                                  *)

LEMMA GrowthIsNat ==
  ASSUME NEW b \in Nat \cup {Unseen}, NEW n \in Nat
  PROVE  Growth(b, n) \in Nat
  BY DEF Growth

LEMMA InitHistory == Init => HistoryOK
  BY DEF Init, HistoryOK

LEMMA RecentIsShorter ==
  ASSUME HistoryOK, NEW c \in Containers
  PROVE  /\ Recent(c) \in Seq(0..Window) /\ Len(history[c]) \in Nat
         /\ Len(Recent(c)) \in Nat /\ Len(Recent(c)) <= Len(history[c])
<1>1. history[c] \in Seq(0..Window)
  BY DEF HistoryOK
<1>2. {n \in DOMAIN history[c] : InWindow(history[c][n])} \in SUBSET DOMAIN history[c]
  OBVIOUS
<1>3. Recent(c) \in Seq(0..Window) /\ Len(Recent(c)) <= Len(history[c])
  BY <1>1, <1>2, SelectAtIsSeq DEF Recent
<1> QED BY <1>1, <1>3

\* Which step writes the list, and how long it is then.
Lengthens(c) ==
  Len(history'[c]) = Len(history[c]) + Growth(last[c], at.seen.count)

LEMMA CountWrites ==
  ASSUME SingleWriter, HistoryOK, Count
  PROVE  /\ HistoryOK' /\ Cont \in Containers /\ Lengthens(Cont)
         /\ \A c \in Containers : c # Cont => history'[c] = history[c]
<1>1. Cont \in Containers
  BY ContIsContainer DEF SingleWriter, Count, At, AtContainer
<1>2. at.seen.count \in Nat /\ last[Cont] \in Nat \cup {Unseen}
  BY <1>1 DEF SingleWriter, AtOK, Placed, States, MemoryOK
<1> DEFINE g == Growth(last[Cont], at.seen.count)
           more == [n \in 1..g |-> 0]
<1>3. g \in Nat
  BY <1>2, GrowthIsNat
<1>4. history' = [history EXCEPT ![Cont] = history[Cont] \o more]
  BY DEF Count
<1>5. history[Cont] \in Seq(0..Window) /\ 0 \in 0..Window
  BY <1>1, SettingsAssumption DEF HistoryOK
<1> HIDE DEF g
<1>6. more \in Seq(0..Window) /\ Len(more) = g
  BY <1>3, <1>5
<1> HIDE DEF more
<1>7. /\ history[Cont] \o more \in Seq(0..Window)
      /\ Len(history[Cont] \o more) = Len(history[Cont]) + g
  BY <1>5, <1>6
<1> QED BY <1>1, <1>4, <1>7 DEF HistoryOK, Lengthens, g

LEMMA EvalLoopWrites ==
  ASSUME SingleWriter, HistoryOK, EvalLoop
  PROVE  /\ HistoryOK' /\ Cont \in Containers
         /\ history' = [history EXCEPT ![Cont] = Recent(Cont)]
<1>1. Cont \in Containers
  BY ContIsContainer DEF SingleWriter, EvalLoop, At, AtContainer
<1>2. history' = [history EXCEPT ![Cont] = Recent(Cont)]
  BY DEF EvalLoop
<1> QED BY <1>1, <1>2, RecentIsShorter DEF HistoryOK

LEMMA TimeWrites ==
  ASSUME HistoryOK, Time
  PROVE  /\ HistoryOK'
         /\ \A c \in Containers : Len(history'[c]) = Len(history[c])
<1>1. \A a \in 0..Window : Older(a) \in 0..Window
  BY SettingsAssumption DEF Older
<1>2. ASSUME NEW c \in Containers
      PROVE  /\ history'[c] \in Seq(0..Window)
             /\ Len(history'[c]) = Len(history[c])
  <2>1. history[c] \in Seq(0..Window)
    BY DEF HistoryOK
  <2>2. history'[c] = [n \in 1..Len(history[c]) |-> Older(history[c][n])]
    BY <2>1 DEF Time
  <2>3. ASSUME NEW n \in 1..Len(history[c])
        PROVE  Older(history[c][n]) \in 0..Window
    <3>1. history[c][n] \in 0..Window
      BY <2>1, EntryOfSeq
    <3> QED BY <1>1, <3>1
  <2> QED BY <2>1, <2>2, <2>3
<1>3. history' = [c \in Containers |-> history'[c]]
  BY DEF Time
<1> QED BY <1>2, <1>3 DEF HistoryOK

LEMMA WhoWritesHistory ==
  ASSUME [Next]_vars
  PROVE  Count \/ EvalLoop \/ Time \/ Restart \/ UNCHANGED history
<1>1. CASE Engine
  BY <1>1 DEF Engine, Sweep, ReadEnabled, InspectOne, CheckHealth, RaiseHealth,
     RaiseLoop, StopLoop, Events, ReadMode, CheckDeps, InspectUpstream,
     ClearUpstream, FlagUpstream, RaiseUpstream, StopDependent, KeepMemory
<1>2. CASE Environment
  BY <1>2 DEF Environment, Happen, Restarts, Start, Remove, Disable, Enable,
     Dismiss, SetMode, memory
<1>3. CASE UNCHANGED vars
  BY <1>3 DEF vars, memory
<1> QED BY <1>1, <1>2, <1>3 DEF Next

LEMMA NextHistory == SingleWriter /\ HistoryOK /\ [Next]_vars => HistoryOK'
<1>1. ASSUME HistoryOK, Restart PROVE HistoryOK'
  BY <1>1 DEF Restart, HistoryOK
<1>2. ASSUME HistoryOK, UNCHANGED history PROVE HistoryOK'
  BY <1>2 DEF HistoryOK
<1> QED
  BY <1>1, <1>2, WhoWritesHistory, CountWrites, EvalLoopWrites, TimeWrites

EngineInv == SingleWriter /\ HistoryOK

LEMMA InitEngine == Init => EngineInv
  BY InitSingleWriter, InitHistory DEF EngineInv

LEMMA NextEngine == EngineInv /\ [Next]_vars => EngineInv'
  BY NextSingleWriter, NextHistory DEF EngineInv

\* Every variable holds a value of its kind, and no alert has two unresolved
\* rows (store/sqlite.go, UpsertAlert).
THEOREM AlertsAreSound == Spec => []AlertInv
<1>1. EngineInv => AlertInv
  BY DEF EngineInv, SingleWriter, AlertInv, AlertTypeOK
<1> QED BY <1>1, InitEngine, NextEngine, PTL DEF Spec

-----------------------------------------------------------------------------
(* The way of the sweep through one container, from the inspection to the  *)
(* event log.                                                              *)

Counting == {"health", "raiseHealth", "count"}
Reporting == Counting \cup {"loop", "raiseLoop", "stopLoop", "events"}
SameSpot == Svc' = Svc /\ Cont' = Cont /\ at'.k = at.k /\ at'.seen = at.seen
Walks(from, to) == at.pc \in from /\ at'.pc \in to /\ SameSpot

LEMMA MovedIsWalk ==
  ASSUME AtOK, NEW p, NEW seen, NEW found, at' = Moved(p, seen, found)
  PROVE  /\ at'.pc = p /\ at'.seen = seen /\ at'.found = found
         /\ Svc' = Svc /\ Cont' = Cont /\ at'.k = at.k
<1>1. /\ at'.pc = p /\ at'.seen = seen /\ at'.found = found
      /\ at'.i = at.i /\ at'.k = at.k
  BY DEF AtOK, Placed, Moved
<1> QED BY <1>1 DEF Svc, Cont

LEMMA GotoIsWalk ==
  ASSUME AtOK, NEW p, at' = Goto(p)
  PROVE  at'.pc = p /\ at'.found = at.found /\ SameSpot
<1>1. /\ at'.pc = p /\ at'.seen = at.seen /\ at'.found = at.found
      /\ at'.i = at.i /\ at'.k = at.k
  BY DEF AtOK, Placed, Goto
<1> QED BY <1>1 DEF SameSpot, Svc, Cont

LEMMA SelectIsWalk ==
  ASSUME SingleWriter, NEW p, NEW k, at' = [Goto(p) EXCEPT !.found = Select(k)]
  PROVE  at'.pc = p /\ (at'.found <=> open[k] > 0) /\ SameSpot
<1>1. PICK found \in BOOLEAN :
        at' = Moved(p, at.seen, found) /\ (found <=> open[k] > 0)
  BY FoundIsMoved
<1> QED BY <1>1, MovedIsWalk DEF SingleWriter, SameSpot

LEMMA CheckHealthWalks ==
  ASSUME SingleWriter, CheckHealth
  PROVE  LET k == <<"service_unhealthy", Svc>> IN
         \/ /\ Ails(at.seen, at.on) /\ Walks({"health"}, {"raiseHealth"})
            /\ at'.found <=> open[k] > 0
            /\ UNCHANGED <<open, dismissed>>
         \/ ~Ails(at.seen, at.on) /\ Walks({"health"}, {"count"}) /\ Resolve(k)
  BY SelectIsWalk, GotoIsWalk DEF CheckHealth, At, Walks, SingleWriter

LEMMA RaiseHealthWalks ==
  ASSUME SingleWriter, RaiseHealth PROVE Walks({"raiseHealth"}, {"count"})
  BY GotoIsWalk DEF RaiseHealth, At, Walks, SingleWriter

LEMMA CountWalks ==
  ASSUME SingleWriter, Count PROVE Walks({"count"}, {"loop"})
  BY GotoIsWalk DEF Count, At, Walks, SingleWriter

LEMMA EvalLoopWalks ==
  ASSUME SingleWriter, EvalLoop
  PROVE  LET k == <<"restart_loop", Svc>> IN
         \/ /\ Loops(Recent(Cont)) /\ Walks({"loop"}, {"raiseLoop"})
            /\ at'.found <=> open[k] > 0
            /\ UNCHANGED <<open, dismissed>>
         \/ /\ ~Loops(Recent(Cont)) /\ Walks({"loop"}, {"events"})
            /\ Resolve(k) \/ UNCHANGED <<open, dismissed>>
  BY SelectIsWalk, GotoIsWalk DEF EvalLoop, At, Walks, SingleWriter

LEMMA RaiseLoopWalks ==
  ASSUME SingleWriter, RaiseLoop
  PROVE  Walks({"raiseLoop"}, {"stopLoop", "events"})
<1>1. PICK p \in {"stopLoop", "events"} : at' = Goto(p)
  BY DEF RaiseLoop
<1> QED BY <1>1, GotoIsWalk DEF RaiseLoop, At, Walks, SingleWriter

LEMMA StopLoopWalks ==
  ASSUME SingleWriter, StopLoop PROVE Walks({"stopLoop"}, {"events"})
  BY GotoIsWalk DEF StopLoop, At, Walks, SingleWriter

LEMMA EventsLeaves ==
  ASSUME SingleWriter, Events
  PROVE  /\ at.pc = "events" /\ at'.pc \notin Reporting
         /\ \/ /\ at.k < Len(Conts[Svc]) /\ at'.pc = "inspect"
               /\ Svc' = Svc /\ at'.k = at.k + 1
            \/ at.k = Len(Conts[Svc]) /\ at'.pc \in {"service", "mode"}
<1>1. at.pc = "events" /\ at' = EnterContainer(at.k + 1)
  BY DEF Events, At
<1>2. Svc \in Services /\ at.i \in Nat \ {0} /\ at.k \in DOMAIN Conts[Svc]
  BY <1>1, SvcIsService DEF SingleWriter, AtOK, Placed, AtContainer, Svc
<1>3. Len(Conts[Svc]) \in Nat /\ at.k \in Nat /\ at.k <= Len(Conts[Svc])
  BY <1>2, ContsAreSeqs
<1>4. CASE at.k + 1 <= Len(Conts[Svc])
  <2>1. at' = Place("inspect", at.i, at.k + 1, at.on, "flag_only")
    BY <1>1, <1>4 DEF EnterContainer, Idle, Place
  <2>2. at'.pc = "inspect" /\ at'.i = at.i /\ at'.k = at.k + 1
    BY <2>1 DEF Place
  <2> QED BY <1>1, <1>3, <1>4, <2>2 DEF Svc, Reporting, Counting
<1>5. CASE ~(at.k + 1 <= Len(Conts[Svc]))
  <2>1. at'.pc \in {"service", "mode"}
    BY <1>1, <1>2, <1>5, ServiceIsPlaced DEF EnterContainer
  <2> QED BY <1>1, <1>3, <1>5, <2>1 DEF Reporting, Counting
<1> QED BY <1>4, <1>5

Elsewhere ==
  \/ Sweep \/ ReadEnabled \/ ReadMode \/ CheckDeps \/ InspectUpstream
  \/ ClearUpstream \/ FlagUpstream \/ RaiseUpstream \/ StopDependent

LEMMA ElsewhereIsAway ==
  ASSUME SingleWriter, Elsewhere
  PROVE  /\ at.pc \notin AtContainer /\ at'.pc \notin Reporting
         /\ \/ ReadEnabled /\ at'.pc = "inspect" /\ at'.k = 1 /\ Svc' = Svc
            \/ ~ReadEnabled /\ at'.pc \notin AtContainer
<1>1. AtOK /\ at.i + 1 \in Nat \ {0} /\ at.k + 1 \in Nat \ {0}
  BY SvcIsService DEF SingleWriter
<1>2. \A k \in Nat \ {0} : EnterDep(k).pc \in {"upstream", "deps", "idle"}
  BY <1>1, DepIsPlaced
<1>3. \A i \in Nat \ {0} : EnterDeps(i).pc \in {"deps", "idle"}
  BY <1>1, DepsArePlaced
<1>4. CASE Sweep
  BY <1>4, ServiceIsPlaced DEF Sweep, At, Reporting, Counting, AtContainer, ReadEnabled
<1>5. CASE ReadEnabled
  <2>1. at' = [EnterContainer(1) EXCEPT !.on = Wanted(Svc)] /\ at.pc = "service"
    BY <1>5 DEF ReadEnabled, At
  <2>2. 1 <= Len(Conts[Svc])
    BY <1>1, SvcIsService, ContsAreSeqs
  <2>3. EnterContainer(1) = Place("inspect", at.i, 1, at.on, "flag_only")
    BY <2>2 DEF EnterContainer, Idle, Place
  <2>4. at'.pc = "inspect" /\ at'.i = at.i /\ at'.k = 1
    BY <2>1, <2>3 DEF Place
  <2> QED BY <1>5, <2>1, <2>4 DEF Reporting, Counting, AtContainer, Svc
<1>6. CASE ReadMode
  <2> DEFINE a == EnterDeps(1)
  <2>1. Placed(a) /\ a.pc \in {"deps", "idle"}
    BY <1>1, DepsArePlaced
  <2>2. at' = [a EXCEPT !.mode = mode] /\ at.pc = "mode"
    BY <1>6 DEF ReadMode, At
  <2> HIDE DEF a
  <2>3. at'.pc = a.pc
    BY <2>1, <2>2 DEF Placed
  <2> QED BY <2>1, <2>2, <2>3 DEF Reporting, Counting, AtContainer, ReadEnabled, At
<1>7. CASE CheckDeps
  <2>1. at.pc = "deps" /\ (at' = EnterDeps(at.i + 1) \/ at' = EnterDep(1))
    BY <1>7 DEF CheckDeps, At
  <2> QED BY <1>1, <1>2, <1>3, <2>1 DEF Reporting, Counting, AtContainer, ReadEnabled, At
<1>8. CASE InspectUpstream
  <2>1. at.pc = "upstream" /\ at'.pc \in {"flag", "upstream", "clear"}
    BY <1>1, <1>8 DEF InspectUpstream, At, AtOK, Placed, Goto
  <2> QED BY <2>1 DEF Reporting, Counting, AtContainer, ReadEnabled, At
<1>9. CASE ClearUpstream
  <2>1. at.pc = "clear" /\ at' = EnterDep(at.k + 1)
    BY <1>9 DEF ClearUpstream, At
  <2> QED BY <1>1, <1>2, <2>1 DEF Reporting, Counting, AtContainer, ReadEnabled, At
<1>10. CASE FlagUpstream
  <2>1. at.pc = "flag" /\ at'.pc = "raiseDep"
    BY <1>10, SelectIsWalk DEF FlagUpstream, At
  <2> QED BY <2>1 DEF Reporting, Counting, AtContainer, ReadEnabled, At
<1>11. CASE RaiseUpstream
  <2>1. at.pc = "raiseDep" /\ (at' = Goto("stopDep") \/ at' = EnterDep(at.k + 1))
    BY <1>11 DEF RaiseUpstream, At
  <2>2. Goto("stopDep").pc = "stopDep"
    BY <1>1 DEF AtOK, Placed, Goto
  <2> QED BY <1>1, <1>2, <2>1, <2>2 DEF Reporting, Counting, AtContainer, ReadEnabled, At
<1>12. CASE StopDependent
  <2>1. at.pc = "stopDep" /\ at' = EnterDep(at.k + 1)
    BY <1>12 DEF StopDependent, At
  <2> QED BY <1>1, <1>2, <2>1 DEF Reporting, Counting, AtContainer, ReadEnabled, At
<1> QED
  BY <1>4, <1>5, <1>6, <1>7, <1>8, <1>9, <1>10, <1>11, <1>12 DEF Elsewhere

-----------------------------------------------------------------------------
(* The restarts that are counted are real.  A count that was read and not  *)
(* yet compared may be older than the container: what is counted, what the *)
(* comparison will add, and what the next one will, are never more than    *)
(* what happened.                                                          *)

\* h are counted, b is the count compared with, n that of the container, x
\* the one read, r what happened.
Within(h, b, n, r) == h + Growth(b, n) <= r
Pending(h, b, x, n, r) == h + Growth(b, x) + Growth(x, n) <= r

LEMMA FewerWithin ==
  ASSUME NEW h \in Nat, NEW h2 \in Nat, NEW b \in Nat \cup {Unseen},
         NEW n \in Nat, NEW n2 \in Nat, NEW r \in Nat,
         h2 <= h, n2 \in {0, n}, Within(h, b, n, r)
  PROVE  Within(h2, b, n2, r)
  BY DEF Within, Growth

LEMMA FewerPending ==
  ASSUME NEW h \in Nat, NEW h2 \in Nat, NEW b \in Nat \cup {Unseen},
         NEW x \in Nat, NEW n \in Nat, NEW n2 \in Nat, NEW r \in Nat,
         h2 <= h, n2 \in {0, n}, Pending(h, b, x, n, r)
  PROVE  Pending(h2, b, x, n2, r)
  BY DEF Pending, Growth

LEMMA OneMoreWithin ==
  ASSUME NEW h \in Nat, NEW b \in Nat \cup {Unseen}, NEW n \in Nat,
         NEW r \in Nat, Within(h, b, n, r)
  PROVE  Within(h, b, n + 1, r + 1)
  BY DEF Within, Growth

LEMMA OneMorePending ==
  ASSUME NEW h \in Nat, NEW b \in Nat \cup {Unseen}, NEW x \in Nat,
         NEW n \in Nat, NEW r \in Nat, Pending(h, b, x, n, r)
  PROVE  Pending(h, b, x, n + 1, r + 1)
  BY DEF Pending, Growth

LEMMA Inspected ==
  ASSUME NEW h \in Nat, NEW b \in Nat \cup {Unseen}, NEW n \in Nat,
         NEW r \in Nat, Within(h, b, n, r)
  PROVE  Pending(h, b, n, n, r)
  BY DEF Within, Pending, Growth

LEMMA Compared ==
  ASSUME NEW h \in Nat, NEW b \in Nat \cup {Unseen}, NEW n \in Nat,
         NEW x \in Nat, NEW r \in Nat, Pending(h, b, x, n, r)
  PROVE  Within(h + Growth(b, x), x, n, r)
  BY DEF Within, Pending

LEMMA WithinIsBounded ==
  ASSUME NEW h \in Nat, NEW b \in Nat \cup {Unseen}, NEW n \in Nat,
         NEW r \in Nat, Within(h, b, n, r)
  PROVE  h <= r
  BY DEF Within, Growth

LEMMA Afresh ==
  ASSUME NEW h \in Nat, NEW n, NEW r \in Nat, h <= r
  PROVE  Within(h, Unseen, n, r)
  BY DEF Within, Growth

\* The count of the last state that was reported.
Before(c) == IF prev[c] = Unseen THEN Unseen ELSE prev[c].count

\* Between the inspection and a comparison.
Visits(c, places) == at.pc \in places /\ Cont = c

CountedIsReal(c) ==
  /\ Within(Len(history[c]), last[c], cont[c].count, real[c])
  /\ Visits(c, Counting) =>
       Pending(Len(history[c]), last[c], at.seen.count, cont[c].count, real[c])

ReportedIsReal(c) ==
  /\ Within(reported[c], Before(c), cont[c].count, real[c])
  /\ Visits(c, Reporting) =>
       Pending(reported[c], Before(c), at.seen.count, cont[c].count, real[c])

\* What is compared is a number.
LEMMA Numbers ==
  ASSUME EngineInv, NEW c \in Containers
  PROVE  /\ cont[c].count \in Nat /\ at.seen.count \in Nat
         /\ last[c] \in Nat \cup {Unseen} /\ Len(history[c]) \in Nat
         /\ Before(c) \in Nat \cup {Unseen}
         /\ real[c] \in Nat /\ reported[c] \in Nat
<1>1. Len(history[c]) \in Nat
  BY RecentIsShorter DEF EngineInv
<1>2. prev[c] \in States \cup {Unseen}
  BY DEF EngineInv, SingleWriter, MemoryOK
<1>3. Before(c) \in Nat \cup {Unseen}
  BY <1>2 DEF Before, States
<1> QED
  BY <1>1, <1>3 DEF EngineInv, SingleWriter, AtOK, Placed, MemoryOK, TablesOK,
     WorldOK, States

\* The steps that neither read a count of c nor compare one.
Aside(c) ==
  /\ Len(history'[c]) <= Len(history[c])
  /\ last'[c] = last[c] /\ prev'[c] = prev[c]
  /\ reported'[c] = reported[c] /\ real'[c] = real[c]
  /\ cont'[c].count \in {0, cont[c].count}
  /\ \A places \in {Counting, Reporting} :
       Visits(c, places)' => Visits(c, places) /\ at'.seen = at.seen

LEMMA AsideIsReal ==
  ASSUME EngineInv, EngineInv', NEW c \in Containers, Aside(c),
         CountedIsReal(c), ReportedIsReal(c)
  PROVE  CountedIsReal(c)' /\ ReportedIsReal(c)'
<1> DEFINE h == Len(history[c])
           h2 == Len(history'[c])
           n == cont[c].count
           n2 == cont'[c].count
<1>0. /\ h \in Nat /\ h2 \in Nat /\ h2 <= h /\ h <= h
      /\ n \in Nat /\ n2 \in Nat /\ n2 \in {0, n} /\ reported[c] <= reported[c]
      /\ last[c] \in Nat \cup {Unseen} /\ Before(c) \in Nat \cup {Unseen}
      /\ real[c] \in Nat /\ reported[c] \in Nat /\ at.seen.count \in Nat
  BY Numbers DEF Aside
<1>1. /\ Before(c)' = Before(c) /\ real'[c] = real[c]
      /\ reported'[c] = reported[c] /\ last'[c] = last[c]
  BY DEF Aside, Before
<1>2. /\ Within(h2, last[c], n2, real[c])
      /\ Within(reported[c], Before(c), n2, real[c])
  <2>1. /\ Within(h, last[c], n, real[c])
        /\ Within(reported[c], Before(c), n, real[c])
    BY DEF CountedIsReal, ReportedIsReal
  <2> HIDE DEF h, h2, n, n2
  <2> QED BY <1>0, <2>1, FewerWithin
<1>3. ASSUME Visits(c, Counting)'
      PROVE  Pending(h2, last[c], at'.seen.count, n2, real[c])
  <2>1. Pending(h, last[c], at.seen.count, n, real[c]) /\ at'.seen = at.seen
    BY <1>3 DEF CountedIsReal, Aside
  <2> HIDE DEF h, h2, n, n2
  <2> QED BY <1>0, <2>1, FewerPending
<1>4. ASSUME Visits(c, Reporting)'
      PROVE  Pending(reported[c], Before(c), at'.seen.count, n2, real[c])
  <2>1. /\ Pending(reported[c], Before(c), at.seen.count, n, real[c])
        /\ at'.seen = at.seen
    BY <1>4 DEF ReportedIsReal, Aside
  <2> HIDE DEF h, h2, n, n2
  <2> QED BY <1>0, <2>1, FewerPending
<1>5. CountedIsReal(c)'
  BY <1>1, <1>2, <1>3 DEF CountedIsReal, Within, Pending, Growth
<1> QED
  BY <1>1, <1>2, <1>4, <1>5 DEF ReportedIsReal, Within, Pending, Growth

\* A container that is taken away and made anew starts to count again.
LEMMA GoneFalls ==
  ASSUME NEW s, NEW c \in Containers, cont' \in {cont, Gone(s)}
  PROVE  cont'[c].count \in {0, cont[c].count}
  BY DEF Gone, NotFound, State

LEMMA WorldFalls ==
  ASSUME SingleWriter, [Next]_vars, NEW c \in Containers,
         \A d \in Containers : ~Restarts(d)
  PROVE  cont'[c].count \in {0, cont[c].count} /\ real'[c] = real[c]
<1>0. cont \in [Containers -> States]
  BY DEF SingleWriter, WorldOK
<1>1. CASE Engine
  <2>1. CASE StopLoop \/ StopDependent
    <3>1. cont' \in {cont, Gone(Svc)} /\ real' = real
      BY <2>1 DEF StopLoop, StopDependent, Stop
    <3> QED BY <3>1, GoneFalls
  <2> QED
    BY <1>1, <2>1 DEF Engine, Sweep, ReadEnabled, InspectOne, CheckHealth,
       RaiseHealth, Count, EvalLoop, RaiseLoop, Events, ReadMode, CheckDeps,
       InspectUpstream, ClearUpstream, FlagUpstream, RaiseUpstream, world
<1>2. ASSUME NEW d \in Containers, Happen(d)
      PROVE  cont'[c].count \in {0, cont[c].count} /\ real'[c] = real[c]
  <2>1. PICK st, sick : cont' = [cont EXCEPT ![d] = State(st, sick, cont[d].count)]
    BY <1>2 DEF Happen
  <2> QED BY <1>0, <1>2, <2>1 DEF Happen, State
<1>3. ASSUME NEW s \in Services, Start(s) \/ Remove(s) \/ Disable(s) \/ Enable(s)
      PROVE  cont'[c].count \in {0, cont[c].count} /\ real'[c] = real[c]
  <2>1. CASE Start(s)
    BY <2>1 DEF Start, Running, State
  <2>2. CASE Remove(s)
    BY <2>2, GoneFalls DEF Remove
  <2>3. CASE Disable(s)
    BY <2>3 DEF Disable, State
  <2>4. CASE Enable(s)
    BY <2>4 DEF Enable, world
  <2> QED BY <1>3, <2>1, <2>2, <2>3, <2>4
<1>4. CASE (\E k \in Keys : Dismiss(k)) \/ SetMode \/ Time \/ Restart \/ UNCHANGED vars
  BY <1>4 DEF Dismiss, SetMode, Time, Restart, vars, world
<1> QED BY <1>1, <1>2, <1>3, <1>4 DEF Next, Environment

\* What the environment leaves alone.
LEMMA OthersStayAway ==
  ASSUME [Next]_vars, ~Engine, ~Restart
  PROVE  UNCHANGED <<at, last, prev, reported>>
  BY DEF Next, Environment, Happen, Restarts, Start, Remove, Disable, Enable,
     Dismiss, SetMode, Time, memory, tables, vars

LEMMA HistoryFalls ==
  ASSUME EngineInv, [Next]_vars, NEW c \in Containers, ~Restart,
         ~(Count /\ Cont = c)
  PROVE  Len(history'[c]) <= Len(history[c])
<1>1. Len(history[c]) \in Nat
  BY Numbers
<1>2. CASE Count
  BY <1>1, <1>2, CountWrites DEF EngineInv
<1>3. CASE EvalLoop
  <2>1. history' = [history EXCEPT ![Cont] = Recent(Cont)] /\ HistoryOK
    BY <1>3, EvalLoopWrites DEF EngineInv
  <2>2. history'[c] = history[c] \/ history'[c] = Recent(c)
    BY <2>1 DEF HistoryOK
  <2> QED BY <1>1, <2>1, <2>2, RecentIsShorter
<1>4. CASE Time
  BY <1>1, <1>4, TimeWrites DEF EngineInv
<1>5. CASE UNCHANGED history
  BY <1>1, <1>5
<1> QED BY <1>2, <1>3, <1>4, <1>5, WhoWritesHistory

\* A step of the sweep that stays at its container and is not the inspection.
Walking ==
  \/ Walks({"health"}, {"raiseHealth", "count"}) \/ Walks({"raiseHealth"}, {"count"})
  \/ Walks({"count"}, {"loop"}) \/ Walks({"loop"}, {"raiseLoop", "events"})
  \/ Walks({"raiseLoop"}, {"stopLoop", "events"}) \/ Walks({"stopLoop"}, {"events"})

LEMMA WhereTo ==
  ASSUME SingleWriter, Engine, ~InspectOne
  PROVE  Walking \/ at'.pc \notin Reporting
<1>1. CASE CheckHealth
  BY <1>1, CheckHealthWalks DEF Walks, Walking
<1>2. CASE EvalLoop
  BY <1>2, EvalLoopWalks DEF Walks, Walking
<1>3. CASE RaiseHealth \/ Count \/ RaiseLoop \/ StopLoop
  BY <1>3, RaiseHealthWalks, CountWalks, RaiseLoopWalks, StopLoopWalks DEF Walking
<1>4. CASE Events \/ Elsewhere
  BY <1>4, EventsLeaves, ElsewhereIsAway
<1> QED BY <1>1, <1>2, <1>3, <1>4 DEF Engine, Elsewhere

LEMMA StaysAtSpot ==
  ASSUME EngineInv, [Next]_vars, ~InspectOne, NEW c, NEW places \in {Counting, Reporting},
         Visits(c, places)'
  PROVE  Visits(c, places) /\ at'.seen = at.seen
<1>0. at'.pc \in places /\ Cont' = c /\ at'.pc \in Reporting
  BY DEF Visits, Reporting
<1>1. CASE Engine
  <2>1. Walking
    BY <1>0, <1>1, WhereTo DEF EngineInv
  <2>2. Cont' = Cont /\ at'.seen = at.seen
    BY <2>1 DEF Walking, Walks, SameSpot
  <2>3. at.pc \in places
    <3>1. CASE places = Counting
      BY <1>0, <2>1, <3>1 DEF Walking, Walks, Counting
    <3>2. CASE places = Reporting
      BY <1>0, <2>1, <3>2 DEF Walking, Walks, Counting, Reporting
    <3> QED BY <3>1, <3>2
  <2> QED BY <1>0, <2>2, <2>3 DEF Visits
<1>2. CASE Restart
  <2>1. at'.pc = "idle"
    BY <1>2, IdleIsPlaced DEF Restart
  <2> QED BY <1>0, <2>1 DEF Reporting, Counting
<1>3. CASE ~Engine /\ ~Restart
  <2>1. at' = at
    BY <1>3, OthersStayAway
  <2>2. Cont' = Cont
    BY <2>1 DEF Cont, Svc
  <2> QED BY <1>0, <2>1, <2>2 DEF Visits
<1> QED BY <1>1, <1>2, <1>3

LEMMA LastAndPrevStay ==
  ASSUME EngineInv, [Next]_vars, NEW c \in Containers, ~Restart
  PROVE  /\ ~(Count /\ Cont = c) => last'[c] = last[c]
         /\ ~(Events /\ Cont = c) => prev'[c] = prev[c]
<1>0. /\ last = [d \in Containers |-> last[d]]
      /\ prev = [d \in Containers |-> prev[d]]
  BY DEF EngineInv, SingleWriter, MemoryOK
<1>1. CASE Count
  BY <1>0, <1>1 DEF Count
<1>2. CASE Events
  BY <1>0, <1>2 DEF Events
<1>3. CASE Engine /\ ~Count /\ ~Events
  BY <1>3 DEF Engine, Sweep, ReadEnabled, InspectOne, CheckHealth,
     RaiseHealth, EvalLoop, RaiseLoop, StopLoop, ReadMode, CheckDeps,
     InspectUpstream, ClearUpstream, FlagUpstream, RaiseUpstream,
     StopDependent, KeepMemory
<1>4. CASE ~Engine
  BY <1>4, OthersStayAway
<1> QED BY <1>1, <1>2, <1>3, <1>4

\* Any other step is aside.
LEMMA OthersAreAside ==
  ASSUME EngineInv, [Next]_vars, NEW c \in Containers,
         ~InspectOne, ~Restart, ~(Count /\ Cont = c), ~(Events /\ Cont = c),
         \A d \in Containers : ~Restarts(d)
  PROVE  Aside(c)
<1>1. /\ Len(history'[c]) <= Len(history[c])
      /\ cont'[c].count \in {0, cont[c].count} /\ real'[c] = real[c]
  BY HistoryFalls, WorldFalls DEF EngineInv
<1>2. last'[c] = last[c] /\ prev'[c] = prev[c]
  BY LastAndPrevStay
<1>3. reported'[c] = reported[c]
  <2>0. reported = [d \in Containers |-> reported[d]]
    BY DEF EngineInv, SingleWriter, TablesOK
  <2>1. CASE Events
    BY <2>0, <2>1 DEF Events
  <2>2. CASE Engine /\ ~Events
    BY <2>2 DEF Engine, Sweep, ReadEnabled, InspectOne, CheckHealth,
       RaiseHealth, Count, EvalLoop, RaiseLoop, StopLoop, ReadMode, CheckDeps,
       InspectUpstream, ClearUpstream, FlagUpstream, RaiseUpstream,
       StopDependent, tables
  <2>3. CASE ~Engine
    BY <2>3, OthersStayAway
  <2> QED BY <2>1, <2>2, <2>3
<1> QED BY <1>1, <1>2, <1>3, StaysAtSpot DEF Aside

IsReal(c) == CountedIsReal(c) /\ ReportedIsReal(c)

\* What is read is the count of the container, if the agent answers.
LEMMA InspectOneIsReal ==
  ASSUME EngineInv, EngineInv', InspectOne, Answered, Answered',
         NEW c \in Containers, IsReal(c)
  PROVE  IsReal(c)'
<1>1. PICK a \in Answers(Cont) : /\ at' = [Goto("health") EXCEPT !.seen = a]
                                /\ Charge(a = cont[Cont])
  BY DEF InspectOne
<1>2. a = cont[Cont]
  <2> SUFFICES ASSUME a # cont[Cont] PROVE FALSE
    OBVIOUS
  <2>1. budget' = [budget EXCEPT !["outage"] = budget["outage"] - 1]
    BY <1>1 DEF Charge
  <2>2. budget \in [Limited -> Nat] /\ "outage" \in Limited
    BY DEF EngineInv, SingleWriter, WorldOK, Limited
  <2> QED BY <2>1, <2>2 DEF Answered
<1>3. at' = Moved("health", a, at.found) /\ AtOK
  BY <1>1 DEF Goto, Moved, EngineInv, SingleWriter, AtOK, Placed
<1>4. at'.pc = "health" /\ at'.seen = cont[Cont] /\ Cont' = Cont
  BY <1>2, <1>3, MovedIsWalk
<1>5. UNCHANGED <<last, history, prev, reported, cont, real>>
  BY DEF InspectOne, KeepMemory, tables, world
<1>6. /\ Within(Len(history[c]), last[c], cont[c].count, real[c])
      /\ Within(reported[c], Before(c), cont[c].count, real[c])
  BY DEF IsReal, CountedIsReal, ReportedIsReal
<1>7. ASSUME Cont = c
      PROVE  /\ Pending(Len(history[c]), last[c], at'.seen.count, cont[c].count, real[c])
             /\ Pending(reported[c], Before(c), at'.seen.count, cont[c].count, real[c])
  BY <1>4, <1>6, <1>7, Numbers, Inspected
<1>8. Before(c)' = Before(c)
  BY <1>5 DEF Before
<1>9. CountedIsReal(c)'
  BY <1>4, <1>5, <1>6, <1>7 DEF CountedIsReal, Visits, Within, Pending, Growth
<1>10. ReportedIsReal(c)'
  BY <1>4, <1>5, <1>6, <1>7, <1>8 DEF ReportedIsReal, Visits, Within, Pending, Growth
<1> QED BY <1>9, <1>10 DEF IsReal

LEMMA CountIsReal ==
  ASSUME EngineInv, EngineInv', Count, NEW c \in Containers, Cont = c, IsReal(c)
  PROVE  IsReal(c)'
<1>0. /\ Len(history[c]) \in Nat /\ reported[c] \in Nat /\ real[c] \in Nat
      /\ cont[c].count \in Nat /\ at.seen.count \in Nat
      /\ last[c] \in Nat \cup {Unseen} /\ Before(c) \in Nat \cup {Unseen}
  BY Numbers
<1>1. /\ at.pc = "count" /\ at'.pc = "loop" /\ Cont' = Cont
      /\ at'.seen = at.seen
  BY CountWalks DEF EngineInv, Walks, SameSpot
<1>2. UNCHANGED <<prev, reported, cont, real>> /\ last'[c] = at.seen.count
  BY DEF Count, tables, world, EngineInv, SingleWriter, MemoryOK
<1>3. Len(history'[c]) = Len(history[c]) + Growth(last[c], at.seen.count)
  BY CountWrites DEF EngineInv, Lengthens
<1>4. Pending(Len(history[c]), last[c], at.seen.count, cont[c].count, real[c])
  BY <1>1 DEF IsReal, CountedIsReal, Visits, Counting
<1>5. Within(Len(history'[c]), last'[c], cont[c].count, real[c])
  BY <1>0, <1>2, <1>3, <1>4, Compared
<1>6. CountedIsReal(c)'
  BY <1>1, <1>2, <1>5 DEF CountedIsReal, Visits, Counting, Within, Growth
<1>7. Before(c)' = Before(c)
  BY <1>2 DEF Before
<1>8. ReportedIsReal(c)'
  BY <1>1, <1>2, <1>7
     DEF IsReal, ReportedIsReal, Visits, Reporting, Counting, Within, Pending, Growth
<1> QED BY <1>6, <1>8 DEF IsReal

LEMMA EventsIsReal ==
  ASSUME EngineInv, EngineInv', Events, NEW c \in Containers, Cont = c, IsReal(c)
  PROVE  IsReal(c)'
<1>0. /\ Len(history[c]) \in Nat /\ reported[c] \in Nat /\ real[c] \in Nat
      /\ cont[c].count \in Nat /\ at.seen.count \in Nat
      /\ last[c] \in Nat \cup {Unseen} /\ Before(c) \in Nat \cup {Unseen}
  BY Numbers
<1>1. at.pc = "events" /\ at'.pc \notin Reporting
  BY EventsLeaves DEF EngineInv
<1>2. UNCHANGED <<last, history, cont, real>> /\ prev'[c] = at.seen
  BY DEF Events, world, EngineInv, SingleWriter, MemoryOK
<1>3. reported'[c] = reported[c] + Growth(Before(c), at.seen.count)
  <2>1. reported'[c] = reported[c] +
          (IF prev[c] = Unseen THEN 0 ELSE Growth(prev[c].count, at.seen.count))
    BY DEF Events, EngineInv, SingleWriter, TablesOK
  <2> QED BY <2>1, Numbers DEF Before, Growth
<1>4. Pending(reported[c], Before(c), at.seen.count, cont[c].count, real[c])
  BY <1>1 DEF IsReal, ReportedIsReal, Visits, Reporting
<1>5. Within(reported'[c], at.seen.count, cont[c].count, real[c])
  BY <1>0, <1>3, <1>4, Compared
<1>6. reported'[c] \in Nat
  BY DEF EngineInv, SingleWriter, TablesOK
<1>7. Within(reported'[c], Before(c)', cont[c].count, real[c])
  <2>1. CASE at.seen = Unseen
    <3>1. Before(c)' = Unseen
      BY <1>2, <2>1 DEF Before
    <3>2. reported'[c] <= real[c]
      BY <1>0, <1>5, <1>6, WithinIsBounded
    <3> QED BY <1>0, <1>6, <3>1, <3>2, Afresh
  <2>2. CASE at.seen # Unseen
    BY <1>2, <1>5, <2>2 DEF Before
  <2> QED BY <2>1, <2>2
<1>8. at'.pc \notin Counting
  BY <1>1 DEF Reporting
<1>9. CountedIsReal(c)' /\ ReportedIsReal(c)'
  BY <1>1, <1>2, <1>7, <1>8
     DEF IsReal, CountedIsReal, ReportedIsReal, Visits, Within, Growth
<1> QED BY <1>9 DEF IsReal

LEMMA RestartsIsReal ==
  ASSUME EngineInv, EngineInv', NEW d \in Containers, Restarts(d),
         NEW c \in Containers, IsReal(c)
  PROVE  IsReal(c)'
<1>0. /\ Len(history[c]) \in Nat /\ reported[c] \in Nat /\ real[c] \in Nat
      /\ cont[c].count \in Nat /\ at.seen.count \in Nat
      /\ last[c] \in Nat \cup {Unseen} /\ Before(c) \in Nat \cup {Unseen}
  BY Numbers
<1>1. UNCHANGED <<at, last, history, prev, reported>>
  BY DEF Restarts, memory, tables
<1>2. Before(c)' = Before(c) /\ Cont' = Cont
  BY <1>1 DEF Before, Cont, Svc
<1>3. \/ cont'[c].count = cont[c].count /\ real'[c] = real[c]
      \/ cont'[c].count = cont[c].count + 1 /\ real'[c] = real[c] + 1
  BY DEF Restarts, State, EngineInv, SingleWriter, WorldOK
<1>4. CountedIsReal(c)'
  <2>1. Within(Len(history[c]), last[c], cont'[c].count, real'[c])
    BY <1>0, <1>3, OneMoreWithin DEF IsReal, CountedIsReal
  <2>2. ASSUME Visits(c, Counting)
        PROVE  Pending(Len(history[c]), last[c], at.seen.count, cont'[c].count, real'[c])
    BY <1>0, <1>3, <2>2, OneMorePending DEF IsReal, CountedIsReal
  <2> QED
    BY <1>1, <1>2, <2>1, <2>2 DEF CountedIsReal, Visits, Within, Pending, Growth
<1>5. ReportedIsReal(c)'
  <2>1. Within(reported[c], Before(c), cont'[c].count, real'[c])
    BY <1>0, <1>3, OneMoreWithin DEF IsReal, ReportedIsReal
  <2>2. ASSUME Visits(c, Reporting)
        PROVE  Pending(reported[c], Before(c), at.seen.count, cont'[c].count, real'[c])
    BY <1>0, <1>3, <2>2, OneMorePending DEF IsReal, ReportedIsReal
  <2> QED
    BY <1>1, <1>2, <2>1, <2>2 DEF ReportedIsReal, Visits, Within, Pending, Growth
<1> QED BY <1>4, <1>5 DEF IsReal

LEMMA RestartIsReal ==
  ASSUME EngineInv, EngineInv', Restart, NEW c \in Containers, IsReal(c)
  PROVE  IsReal(c)'
<1>0. /\ Len(history[c]) \in Nat /\ reported[c] \in Nat /\ real[c] \in Nat
      /\ cont[c].count \in Nat /\ at.seen.count \in Nat
      /\ last[c] \in Nat \cup {Unseen} /\ Before(c) \in Nat \cup {Unseen}
  BY Numbers
<1>1. at'.pc = "idle" /\ at'.pc \notin Counting /\ at'.pc \notin Reporting
  BY IdleIsPlaced DEF Restart, Counting, Reporting
<1>2. /\ history'[c] = <<>> /\ last'[c] = Unseen /\ Before(c)' = Unseen
      /\ UNCHANGED <<reported, cont, real>>
  BY DEF Restart, tables, world, Before
<1>3. reported[c] <= real[c] /\ 0 <= real[c] /\ Len(<<>>) = 0
  <2>1. Within(reported[c], Before(c), cont[c].count, real[c])
    BY DEF IsReal, ReportedIsReal
  <2>2. reported[c] <= real[c]
    BY <1>0, <2>1, WithinIsBounded
  <2> QED BY <1>0, <2>2
<1>4. /\ Within(Len(history'[c]), Unseen, cont[c].count, real[c])
      /\ Within(reported[c], Unseen, cont[c].count, real[c])
  BY <1>0, <1>2, <1>3, Afresh
<1> QED
  BY <1>1, <1>2, <1>4 DEF IsReal, CountedIsReal, ReportedIsReal, Visits, Within, Growth

\* Once the agent has failed, it has.
OutagesSpent == budget["outage"] <= Budget["outage"]

LEMMA OutagesFall ==
  ASSUME SingleWriter, OutagesSpent, [Next]_vars
  PROVE  OutagesSpent' /\ (Answered' => Answered)
<1>0. /\ budget \in [Limited -> Nat] /\ "outage" \in Limited
      /\ budget["outage"] \in Nat /\ Budget["outage"] \in Nat
  BY BudgetAssumption DEF SingleWriter, WorldOK, Limited
<1>1. budget'["outage"] \in Int /\ budget'["outage"] <= budget["outage"]
  <2>1. CASE UNCHANGED budget
    BY <1>0, <2>1
  <2>2. ASSUME NEW b \in Limited \ {"outage"}, Spend(b)
        PROVE  budget'["outage"] = budget["outage"]
    BY <1>0, <2>2 DEF Spend
  <2>3. ASSUME NEW honest, Charge(honest)
        PROVE  budget'["outage"] \in {budget["outage"], budget["outage"] - 1}
    BY <1>0, <2>3 DEF Charge
  <2>4. {"restart", "change", "fail", "dismiss", "admin", "crash"} \subseteq Limited \ {"outage"}
    BY DEF Limited
  <2>5. CASE InspectOne \/ InspectUpstream
    BY <1>0, <2>3, <2>5 DEF InspectOne, InspectUpstream
  <2>6. CASE StopLoop \/ StopDependent
    BY <1>0, <2>2, <2>4, <2>6 DEF StopLoop, StopDependent, Stop
  <2>7. CASE Environment
    <3>1. (\E b \in Limited \ {"outage"} : Spend(b)) \/ UNCHANGED budget
      BY <2>4, <2>7 DEF Environment, Happen, Restarts, Start, Remove, Disable,
         Enable, Dismiss, SetMode, Time, Restart
    <3> QED BY <1>0, <2>2, <3>1
  <2>8. CASE Engine /\ ~InspectOne /\ ~InspectUpstream /\ ~StopLoop /\ ~StopDependent
    BY <2>1, <2>8 DEF Engine, Sweep, ReadEnabled, CheckHealth, RaiseHealth,
       Count, EvalLoop, RaiseLoop, Events, ReadMode, CheckDeps, ClearUpstream,
       FlagUpstream, RaiseUpstream
  <2> QED BY <2>1, <2>5, <2>6, <2>7, <2>8 DEF Next, vars
<1> QED BY <1>0, <1>1 DEF OutagesSpent, Answered

CountsAreReal ==
  OutagesSpent /\ (Answered => \A c \in Containers : IsReal(c))

LEMMA InitReal == Init => CountsAreReal
<1>1. Init => OutagesSpent
  BY BudgetAssumption DEF Init, OutagesSpent, Limited
<1> SUFFICES ASSUME Init, NEW c \in Containers PROVE IsReal(c)
  BY <1>1 DEF CountsAreReal
<1>2. at.pc = "idle" /\ at.pc \notin Counting /\ at.pc \notin Reporting
  BY IdleIsPlaced DEF Init, Counting, Reporting
<1>3. /\ history[c] = <<>> /\ last[c] = Unseen /\ prev[c] = Unseen
      /\ reported[c] = 0 /\ real[c] = 0 /\ cont[c].count = 0 /\ Len(<<>>) = 0
  BY DEF Init, Running, State
<1>4. Within(0, Unseen, 0, 0)
  BY DEF Within, Growth
<1> QED
  BY <1>2, <1>3, <1>4 DEF IsReal, CountedIsReal, ReportedIsReal, Before, Visits

LEMMA NextReal ==
  EngineInv /\ EngineInv' /\ CountsAreReal /\ [Next]_vars => CountsAreReal'
<1> SUFFICES ASSUME EngineInv, EngineInv', CountsAreReal, [Next]_vars
             PROVE  CountsAreReal'
  OBVIOUS
<1>1. OutagesSpent' /\ (Answered' => Answered)
  BY OutagesFall DEF EngineInv, CountsAreReal
<1>2. ASSUME Answered, Answered', NEW c \in Containers, IsReal(c) PROVE IsReal(c)'
  <2>1. CASE InspectOne
    BY <1>2, <2>1, InspectOneIsReal
  <2>2. CASE Count /\ Cont = c
    BY <1>2, <2>2, CountIsReal
  <2>3. CASE Events /\ Cont = c
    BY <1>2, <2>3, EventsIsReal
  <2>4. CASE Restart
    BY <1>2, <2>4, RestartIsReal
  <2>5. CASE \E d \in Containers : Restarts(d)
    BY <1>2, <2>5, RestartsIsReal
  <2>6. CASE Aside(c)
    BY <1>2, <2>6, AsideIsReal DEF IsReal
  <2> QED BY <2>1, <2>2, <2>3, <2>4, <2>5, <2>6, OthersAreAside
<1> QED BY <1>1, <1>2 DEF CountsAreReal

\* As long as the agent answers, no restart is counted, or written to the event
\* log, that did not happen, although containers are recreated, and the engine
\* restarts, between an inspection and a comparison (engine.go:359-367).
THEOREM CountedRestartsAreReal == Spec => []RestartsAreReal
<1>1. EngineInv /\ CountsAreReal => RestartsAreReal
  <2> SUFFICES ASSUME EngineInv, CountsAreReal, Answered, NEW c \in Containers
               PROVE  Len(history[c]) <= real[c] /\ reported[c] <= real[c]
    BY DEF RestartsAreReal
  <2>1. IsReal(c)
    BY DEF CountsAreReal
  <2>2. /\ Within(Len(history[c]), last[c], cont[c].count, real[c])
        /\ Within(reported[c], Before(c), cont[c].count, real[c])
    BY <2>1 DEF IsReal, CountedIsReal, ReportedIsReal
  <2> QED BY <2>2, Numbers, WithinIsBounded
<1> QED BY <1>1, InitEngine, NextEngine, InitReal, NextReal, PTL DEF Spec

-----------------------------------------------------------------------------
(* What the engine saw is shown.  The rows of a service are written for    *)
(* each of its containers in turn, so what a row tells depends on how far  *)
(* the sweep went through them; between sweeps the last one has decided.   *)

\* The sweep is at a container of s, at the last one.
On(s) == at.pc \in AtContainer /\ Svc = s
AtLast(s, places) == at.pc \in places /\ Svc = s /\ at.k = Len(Conts[s])

LEMMA LastIsThere ==
  ASSUME NEW s \in Services
  PROVE  /\ Len(Conts[s]) \in DOMAIN Conts[s] /\ DOMAIN Conts[s] = 1..Len(Conts[s])
         /\ Len(Conts[s]) \in Nat /\ LastOf(s) \in Containers
         /\ \A k \in DOMAIN Conts[s] : Conts[s][k] \in Containers
<1>1. /\ Len(Conts[s]) \in DOMAIN Conts[s] /\ DOMAIN Conts[s] = 1..Len(Conts[s])
      /\ Len(Conts[s]) \in Nat
  BY ContsAreSeqs
<1>2. \A k \in DOMAIN Conts[s] : Conts[s][k] \in Containers
  BY DEF Containers, Of
<1> QED BY <1>1, <1>2 DEF LastOf

\* A name tells the service and the place.
LEMMA NameTellsSpot ==
  ASSUME SingleWriter, at.pc \in AtContainer, NEW s \in Services,
         NEW k \in DOMAIN Conts[s]
  PROVE  Cont = Conts[s][k] <=> (Svc = s /\ at.k = k)
<1>1. Svc \in Services /\ at.k \in DOMAIN Conts[Svc]
  BY SvcIsService DEF SingleWriter, AtOK, Placed, Svc
<1> QED BY <1>1, RegistryAssumption DEF Cont

\* Where a step takes the sweep.
LEMMA WhoMoves ==
  ASSUME SingleWriter, [Next]_vars
  PROVE  \/ ~Engine /\ ~Restart /\ at' = at
         \/ /\ Elsewhere /\ at.pc \notin AtContainer
            /\ \/ at'.pc = "inspect" /\ at'.k = 1 /\ Svc' = Svc
               \/ at'.pc \notin AtContainer
         \/ /\ InspectOne /\ at.pc = "inspect" /\ at'.pc = "health"
            /\ Svc' = Svc /\ at'.k = at.k
         \/ CheckHealth /\ Walks({"health"}, {"raiseHealth", "count"})
         \/ RaiseHealth /\ Walks({"raiseHealth"}, {"count"})
         \/ Count /\ Walks({"count"}, {"loop"})
         \/ EvalLoop /\ Walks({"loop"}, {"raiseLoop", "events"})
         \/ RaiseLoop /\ Walks({"raiseLoop"}, {"stopLoop", "events"})
         \/ StopLoop /\ Walks({"stopLoop"}, {"events"})
         \/ /\ Events /\ at.pc = "events"
            /\ \/ /\ at.k < Len(Conts[Svc]) /\ at'.pc = "inspect"
                  /\ Svc' = Svc /\ at'.k = at.k + 1
               \/ at.k = Len(Conts[Svc]) /\ at'.pc \in {"service", "mode"}
         \/ Restart /\ at'.pc = "idle"
<1>1. CASE CheckHealth
  BY <1>1, CheckHealthWalks DEF Walks
<1>2. CASE EvalLoop
  BY <1>2, EvalLoopWalks DEF Walks
<1>3. CASE RaiseHealth \/ Count \/ RaiseLoop \/ StopLoop
  BY <1>3, RaiseHealthWalks, CountWalks, RaiseLoopWalks, StopLoopWalks
<1>4. CASE Events
  BY <1>4, EventsLeaves
<1>5. CASE Elsewhere
  BY <1>5, ElsewhereIsAway
<1>6. CASE InspectOne
  <2>1. PICK a : at' = [Goto("health") EXCEPT !.seen = a]
    BY <1>6 DEF InspectOne
  <2>2. at'.pc = "health" /\ at'.i = at.i /\ at'.k = at.k
    BY <2>1 DEF Goto, SingleWriter, AtOK, Placed
  <2> QED BY <1>6, <2>2 DEF InspectOne, At, Svc
<1>7. CASE Restart
  BY <1>7, IdleIsPlaced DEF Restart
<1>8. CASE ~Engine /\ ~Restart
  BY <1>8, OthersStayAway
<1> QED BY <1>1, <1>2, <1>3, <1>4, <1>5, <1>6, <1>7, <1>8 DEF Engine, Elsewhere

Concerns == {"service_unhealthy", "restart_loop"}

LEMMA UpsertShows ==
  ASSUME TablesOK, NEW k \in Keys, Upsert(k), at.found => Shown(k)
  PROVE  Shown(k)'
<1>1. open[k] + 1 > 0
  BY DEF TablesOK
<1> QED BY <1>1 DEF Upsert, Shown, TablesOK

LEMMA OtherTableStays ==
  ASSUME TablesOK, NEW j, NEW k \in Keys, Shown(k),
         Upsert(j) \/ (Resolve(j) /\ j # k) \/ UNCHANGED <<open, dismissed>>
  PROVE  Shown(k)'
<1>1. open[k] > 0 => open[k] + 1 > 0
  BY DEF TablesOK
<1>2. CASE Upsert(j)
  BY <1>1, <1>2 DEF Upsert, Shown, TablesOK
<1>3. CASE Resolve(j) /\ j # k
  BY <1>3 DEF Resolve, Shown, TablesOK
<1>4. CASE UNCHANGED <<open, dismissed>>
  BY <1>4 DEF Shown
<1> QED BY <1>2, <1>3, <1>4

\* Only a resolve for the same service hides what is shown.
LEMMA ShownStays ==
  ASSUME SingleWriter, [Next]_vars, NEW s \in Services, NEW t \in Concerns,
         Shown(<<t, s>>)
  PROVE  \/ Shown(<<t, s>>)'
         \/ CheckHealth /\ Svc = s /\ ~Ails(at.seen, at.on) /\ t = "service_unhealthy"
         \/ EvalLoop /\ Svc = s /\ ~Loops(Recent(Cont)) /\ t = "restart_loop"
<1> DEFINE k == <<t, s>>
<1>1. k \in Keys /\ TablesOK
  BY DEF Keys, Types, Concerns, SingleWriter
<1>2. \A x : k # <<"upstream_unhealthy", x>>
  BY DEF Concerns
<1>3. \A u, x : k = <<u, x>> => t = u /\ s = x
  OBVIOUS
<1>4. CASE CheckHealth
  <2>1. \/ UNCHANGED <<open, dismissed>>
        \/ ~Ails(at.seen, at.on) /\ Resolve(<<"service_unhealthy", Svc>>)
    BY <1>4 DEF CheckHealth
  <2> QED BY <1>1, <1>3, <1>4, <2>1, OtherTableStays
<1>5. CASE EvalLoop
  <2>1. \/ UNCHANGED <<open, dismissed>>
        \/ ~Loops(Recent(Cont)) /\ Resolve(<<"restart_loop", Svc>>)
    BY <1>5 DEF EvalLoop
  <2> QED BY <1>1, <1>3, <1>5, <2>1, OtherTableStays
<1>6. CASE RaiseHealth \/ RaiseLoop \/ RaiseUpstream
  <2>1. PICK j : Upsert(j)
    BY <1>6 DEF RaiseHealth, RaiseLoop, RaiseUpstream
  <2> QED BY <1>1, <2>1, OtherTableStays
<1>7. CASE CheckDeps \/ ClearUpstream
  <2>1. \/ UNCHANGED <<open, dismissed>>
        \/ Resolve(<<"upstream_unhealthy", Svc>>)
    BY <1>7 DEF CheckDeps, ClearUpstream
  <2> QED BY <1>1, <1>2, <2>1, OtherTableStays
<1>8. CASE \E j \in Keys : Dismiss(j)
  <2>1. PICK j \in Keys : Dismiss(j)
    BY <1>8
  <2> QED BY <1>1, <2>1 DEF Dismiss, Shown, TablesOK
<1>9. CASE UNCHANGED <<open, dismissed>>
  BY <1>9 DEF Shown
<1>10. \/ UNCHANGED <<open, dismissed>>
       \/ CheckHealth \/ EvalLoop \/ RaiseHealth \/ RaiseLoop \/ RaiseUpstream
       \/ CheckDeps \/ ClearUpstream \/ \E j \in Keys : Dismiss(j)
  <2>1. CASE Engine
    BY <2>1 DEF Engine, Sweep, ReadEnabled, InspectOne, Count, StopLoop, Events,
       ReadMode, InspectUpstream, FlagUpstream, StopDependent, tables
  <2>2. CASE Environment
    BY <2>2 DEF Environment, Happen, Restarts, Start, Remove, Disable, Enable,
       SetMode, Time, Restart, tables
  <2> QED BY <2>1, <2>2 DEF Next, vars, tables
<1> QED BY <1>4, <1>5, <1>6, <1>7, <1>8, <1>9, <1>10

\* Only a raise for the same service opens what is not.
LEMMA ClosedStays ==
  ASSUME SingleWriter, [Next]_vars, NEW s \in Services, NEW t \in Concerns,
         open[<<t, s>>] = 0
  PROVE  \/ open'[<<t, s>>] = 0
         \/ RaiseHealth /\ Svc = s /\ t = "service_unhealthy"
         \/ RaiseLoop /\ Svc = s /\ t = "restart_loop"
<1> DEFINE k == <<t, s>>
<1>1. k \in Keys /\ TablesOK
  BY DEF Keys, Types, Concerns, SingleWriter
<1>2. \A u, x : k = <<u, x>> => t = u /\ s = x
  OBVIOUS
<1>3. CASE \E j : Resolve(j)
  BY <1>1, <1>3 DEF Resolve, TablesOK
<1>4. ASSUME NEW j, j # k, Upsert(j) PROVE open'[k] = 0
  BY <1>1, <1>4 DEF Upsert, TablesOK
<1>5. CASE RaiseHealth
  BY <1>2, <1>4, <1>5 DEF RaiseHealth
<1>6. CASE RaiseLoop
  BY <1>2, <1>4, <1>6 DEF RaiseLoop
<1>7. CASE RaiseUpstream
  BY <1>2, <1>4, <1>7 DEF RaiseUpstream, Concerns
<1>8. CASE \E j \in Keys : Dismiss(j)
  <2>1. PICK j \in Keys : open[j] > 0 /\ open' = [open EXCEPT ![j] = open[j] - 1]
    BY <1>8 DEF Dismiss
  <2> QED BY <1>1, <2>1 DEF TablesOK
<1>9. CASE UNCHANGED open
  BY <1>9
<1>10. \/ UNCHANGED open \/ (\E j : Resolve(j))
       \/ RaiseHealth \/ RaiseLoop \/ RaiseUpstream \/ \E j \in Keys : Dismiss(j)
  <2>1. CASE Engine
    BY <2>1 DEF Engine, Sweep, ReadEnabled, InspectOne, CheckHealth, Count, EvalLoop,
       StopLoop, Events, ReadMode, CheckDeps, InspectUpstream, ClearUpstream,
       FlagUpstream, StopDependent, tables
  <2>2. CASE Environment
    BY <2>2 DEF Environment, Happen, Restarts, Start, Remove, Disable, Enable,
       SetMode, Time, Restart, tables
  <2> QED BY <2>1, <2>2 DEF Next, vars, tables
<1> QED BY <1>3, <1>5, <1>6, <1>7, <1>8, <1>9, <1>10

-----------------------------------------------------------------------------
(* The health alert.                                                       *)

\* Once the health of a container was judged, until its state is recorded.
Judged == {"count", "loop", "raiseLoop", "stopLoop", "events"}
Health(s) == <<"service_unhealthy", s>>

\* The rows of s tell of this state.
Verdict(s, state) ==
  (state.sick => Shown(Health(s))) /\ (Fit(state) => open[Health(s)] = 0)

SickInv(s) ==
  /\ ~On(s) => prev[LastOf(s)] = Unseen \/ Verdict(s, prev[LastOf(s)])
  /\ AtLast(s, Judged) => Verdict(s, at.seen)
  /\ AtLast(s, {"raiseHealth"}) =>
       ~Fit(at.seen) /\ (at.found => Shown(Health(s)))

LEMMA VerdictStays ==
  ASSUME SingleWriter, [Next]_vars, NEW s \in Services,
         ~(CheckHealth /\ Svc = s), ~(RaiseHealth /\ Svc = s)
  PROVE  /\ Shown(Health(s)) => Shown(Health(s))'
         /\ open[Health(s)] = 0 => open'[Health(s)] = 0
<1>1. "service_unhealthy" \in Concerns /\ "service_unhealthy" # "restart_loop"
  BY DEF Concerns
<1> QED BY <1>1, ShownStays, ClosedStays DEF Health

\* While the sweep is at no container of s, its last one has decided.
LEMMA SickElsewhere ==
  ASSUME EngineInv, [Next]_vars, NEW s \in Services, SickInv(s), ~On(s)
  PROVE  SickInv(s)'
<1>1. CASE at'.pc = "inspect" /\ Svc' = s
  BY <1>1 DEF SickInv, AtLast, On, AtContainer, Judged
<1>2. CASE Restart
  <2>1. at'.pc = "idle" /\ prev'[LastOf(s)] = Unseen
    BY <1>2, LastIsThere, IdleIsPlaced DEF Restart
  <2> QED BY <2>1 DEF SickInv, AtLast, Judged
<1>3. CASE ~Restart /\ ~(at'.pc = "inspect" /\ Svc' = s)
  <2>1. ~On(s)'
    BY <1>3, WhoMoves DEF EngineInv, On, Walks, SameSpot, AtContainer, Svc
  <2>2. ~(CheckHealth /\ Svc = s) /\ ~(RaiseHealth /\ Svc = s)
    BY DEF On, CheckHealth, RaiseHealth, At, AtContainer
  <2>3. prev'[LastOf(s)] = prev[LastOf(s)]
    <3>1. ~(Events /\ Cont = LastOf(s))
      BY NameTellsSpot, LastIsThere
         DEF EngineInv, On, Events, At, AtContainer, LastOf
    <3> QED BY <1>3, <3>1, LastIsThere, LastAndPrevStay
  <2>4. prev'[LastOf(s)] = Unseen \/ Verdict(s, prev[LastOf(s)])
    BY <2>3 DEF SickInv
  <2>5. Verdict(s, prev[LastOf(s)]) => Verdict(s, prev[LastOf(s)])'
    BY <2>2, <2>3, VerdictStays DEF EngineInv, Verdict, Fit
  <2>6. \A places \in {Judged, {"raiseHealth"}} : ~AtLast(s, places)'
    BY <2>1 DEF On, AtLast, Judged, AtContainer
  <2> QED BY <2>1, <2>3, <2>4, <2>5, <2>6 DEF SickInv
<1> QED BY <1>1, <1>2, <1>3

LEMMA SickHere ==
  ASSUME EngineInv, [Next]_vars, NEW s \in Services, SickInv(s), On(s)
  PROVE  SickInv(s)'
<1>0. Svc = s /\ at.pc \in AtContainer /\ SingleWriter
  BY DEF On, EngineInv
<1>1. CASE at' = at /\ ~Engine /\ ~Restart
  <2>1. Svc' = Svc /\ On(s)'
    BY <1>0, <1>1 DEF Svc, On
  <2>2. /\ Shown(Health(s)) => Shown(Health(s))'
        /\ open[Health(s)] = 0 => open'[Health(s)] = 0
    BY <1>0, <1>1, VerdictStays DEF Engine
  <2> QED BY <1>1, <2>1, <2>2 DEF SickInv, AtLast, Verdict, Fit
<1>2. CASE at'.pc \in {"inspect", "health"} /\ Svc' = s
  BY <1>2 DEF SickInv, On, AtLast, AtContainer, Judged
<1>3. CASE CheckHealth /\ Walks({"health"}, {"raiseHealth", "count"})
  <2>1. On(s)'
    BY <1>0, <1>3 DEF Walks, SameSpot, On, AtContainer
  <2>2. CASE /\ Ails(at.seen, at.on) /\ Walks({"health"}, {"raiseHealth"})
             /\ at'.found <=> open[Health(s)] > 0
             /\ UNCHANGED <<open, dismissed>>
    BY <2>1, <2>2 DEF SickInv, AtLast, Walks, SameSpot, Judged, Ails, Fit, Shown
  <2>3. CASE ~Ails(at.seen, at.on) /\ Walks({"health"}, {"count"}) /\ Resolve(Health(s))
    <3>1. open'[Health(s)] = 0 /\ ~at.seen.sick
      BY <1>0, <2>3 DEF Resolve, TablesOK, SingleWriter, Health, Keys, Types, Ails
    <3> QED BY <2>1, <2>3, <3>1 DEF SickInv, AtLast, Walks, SameSpot, Verdict
  <2> QED BY <1>0, <1>3, <2>2, <2>3, CheckHealthWalks DEF Health
<1>4. CASE RaiseHealth /\ Walks({"raiseHealth"}, {"count"})
  <2>1. On(s)'
    BY <1>0, <1>4 DEF Walks, SameSpot, On, AtContainer
  <2>2. ASSUME AtLast(s, Judged)' PROVE Verdict(s, at.seen)'
    <3>1. AtLast(s, {"raiseHealth"}) /\ at'.seen = at.seen
      BY <1>0, <1>4, <2>2 DEF AtLast, Walks, SameSpot
    <3>2. ~Fit(at.seen) /\ (at.found => Shown(Health(s)))
      BY <3>1 DEF SickInv
    <3>3. Health(s) \in Keys /\ Upsert(Health(s))
      BY <1>0, <1>4 DEF RaiseHealth, Health, Keys, Types
    <3>4. Shown(Health(s))'
      BY <1>0, <3>2, <3>3, UpsertShows DEF SingleWriter
    <3> QED BY <3>1, <3>2, <3>4 DEF Verdict, Fit
  <2>3. ~AtLast(s, {"raiseHealth"})'
    BY <1>4 DEF AtLast, Walks
  <2> QED BY <2>1, <2>2, <2>3 DEF SickInv
<1>5. CASE /\ Walks(Judged, Judged) /\ ~CheckHealth /\ ~RaiseHealth
  <2>1. On(s)' /\ ~AtLast(s, {"raiseHealth"})'
    BY <1>0, <1>5 DEF Walks, SameSpot, On, AtContainer, Judged, AtLast
  <2>2. AtLast(s, Judged)' => AtLast(s, Judged) /\ at'.seen = at.seen
    BY <1>5 DEF Walks, SameSpot, AtLast
  <2>3. /\ Shown(Health(s)) => Shown(Health(s))'
        /\ open[Health(s)] = 0 => open'[Health(s)] = 0
    BY <1>0, <1>5, VerdictStays
  <2> QED BY <2>1, <2>2, <2>3 DEF SickInv, Verdict, Fit
<1>6. CASE Events /\ at.pc = "events" /\ at.k = Len(Conts[Svc])
           /\ at'.pc \in {"service", "mode"}
  <2>1. AtLast(s, Judged) /\ Cont = LastOf(s)
    BY <1>0, <1>6 DEF AtLast, Judged, Cont, LastOf
  <2>2. prev'[LastOf(s)] = at.seen /\ UNCHANGED <<open, dismissed>>
    BY <1>0, <1>6, <2>1, LastIsThere DEF Events, SingleWriter, MemoryOK
  <2>3. Verdict(s, at.seen)
    BY <2>1 DEF SickInv
  <2>4. Verdict(s, prev[LastOf(s)])'
    BY <2>2, <2>3 DEF Verdict, Shown, Fit
  <2> QED BY <1>6, <2>4 DEF SickInv, AtLast, Judged
<1>7. CASE Restart
  <2>1. at'.pc = "idle" /\ prev'[LastOf(s)] = Unseen
    BY <1>7, LastIsThere, IdleIsPlaced DEF Restart
  <2> QED BY <2>1 DEF SickInv, AtLast, Judged
<1>8. ASSUME Count \/ EvalLoop \/ RaiseLoop \/ StopLoop
      PROVE  ~CheckHealth /\ ~RaiseHealth
  BY <1>8 DEF Count, EvalLoop, RaiseLoop, StopLoop, CheckHealth, RaiseHealth, At
<1>9. \/ Walks(Judged, Judged)
      \/ ~Walks({"count"}, {"loop"}) /\ ~Walks({"loop"}, {"raiseLoop", "events"})
         /\ ~Walks({"raiseLoop"}, {"stopLoop", "events"})
         /\ ~Walks({"stopLoop"}, {"events"})
  BY DEF Walks, Judged
<1> QED BY <1>0, <1>1, <1>2, <1>3, <1>4, <1>5, <1>6, <1>7, <1>8, <1>9, WhoMoves

\* Between sweeps the health alert of a service is the verdict about its last
\* container, whatever happens between the steps of a sweep and whatever was
\* found of its other containers (engine.go:215-236).
THEOREM SickServicesAreShown == Spec => []SicknessIsShown
<1> DEFINE AllSick == \A s \in Services : SickInv(s)
<1>1. Init => AllSick
  <2> SUFFICES ASSUME Init, NEW s \in Services PROVE SickInv(s)
    OBVIOUS
  <2>1. at.pc = "idle" /\ prev[LastOf(s)] = Unseen
    BY LastIsThere, IdleIsPlaced DEF Init
  <2> QED BY <2>1 DEF SickInv, AtLast, Judged
<1>2. EngineInv /\ AllSick /\ [Next]_vars => AllSick'
  BY SickElsewhere, SickHere
<1>3. AllSick => SicknessIsShown
  BY DEF SickInv, Verdict, Health, SicknessIsShown, At, On, AtContainer
<1> HIDE DEF AllSick
<1> QED BY <1>1, <1>2, <1>3, InitEngine, NextEngine, PTL DEF Spec

-----------------------------------------------------------------------------
(* The restart alert.                                                      *)

\* How many containers of s have their restarts judged: between sweeps all.
Done(s) ==
  CASE ~On(s) -> Len(Conts[s])
    [] On(s) /\ at.pc \in {"stopLoop", "events"} -> at.k
    [] OTHER -> at.k - 1

Looping(s) == <<"restart_loop", s>>

\* What the first m containers of s tell of its row.
LoopClaim(s, m) ==
  \A k \in 1..m :
    /\ last[Conts[s][k]] # Unseen
    /\ Len(history[Conts[s][k]]) >= Threshold
    /\ \A j \in (k + 1)..m : history[Conts[s][j]] # <<>>
    => Shown(Looping(s))

LoopInv(s) ==
  /\ LoopClaim(s, Done(s))
  /\ at.pc = "raiseLoop" /\ Svc = s => (at.found => Shown(Looping(s)))

LEMMA SpotOfOn ==
  ASSUME EngineInv, NEW s \in Services, On(s)
  PROVE  /\ at.k \in Nat \ {0} /\ at.k \in DOMAIN Conts[s] /\ at.k <= Len(Conts[s])
         /\ Cont = Conts[s][at.k]
<1>1. at.k \in DOMAIN Conts[s] /\ Cont = Conts[s][at.k]
  BY DEF EngineInv, SingleWriter, AtOK, Placed, On, Svc, Cont
<1> QED BY <1>1, LastIsThere

LEMMA DoneIsThere ==
  ASSUME EngineInv, NEW s \in Services
  PROVE  Done(s) \in Nat /\ Done(s) <= Len(Conts[s])
BY LastIsThere, SpotOfOn DEF Done

\* What was true of the containers judged remains so while they are left alone.
LEMMA LoopClaimStays ==
  ASSUME EngineInv, EngineInv', [Next]_vars, ~Restart,
         NEW s \in Services, NEW m \in Nat, m <= Len(Conts[s]), LoopClaim(s, m),
         Shown(Looping(s)) => Shown(Looping(s))',
         \A k \in 1..m : ~(Count /\ Cont = Conts[s][k])
  PROVE  LoopClaim(s, m)'
<1>1. ASSUME NEW k \in 1..m
      PROVE  /\ last'[Conts[s][k]] = last[Conts[s][k]]
             /\ Len(history'[Conts[s][k]]) \in Nat /\ Len(history[Conts[s][k]]) \in Nat
             /\ Len(history'[Conts[s][k]]) <= Len(history[Conts[s][k]])
             /\ history'[Conts[s][k]] # <<>> => history[Conts[s][k]] # <<>>
  <2>1. Conts[s][k] \in Containers
    BY LastIsThere
  <2>2. /\ last'[Conts[s][k]] = last[Conts[s][k]]
        /\ Len(history'[Conts[s][k]]) <= Len(history[Conts[s][k]])
    BY <2>1, LastAndPrevStay, HistoryFalls
  <2>3. history[Conts[s][k]] \in Seq(0..Window) /\ history'[Conts[s][k]] \in Seq(0..Window)
    BY <2>1 DEF EngineInv, HistoryOK
  <2> QED BY <2>2, <2>3
<1>2. Threshold \in Nat
  BY SettingsAssumption
<1> SUFFICES ASSUME NEW k \in 1..m,
                    (last[Conts[s][k]] # Unseen)',
                    (Len(history[Conts[s][k]]) >= Threshold)',
                    \A j \in (k + 1)..m : history'[Conts[s][j]] # <<>>
             PROVE  Shown(Looping(s))'
  BY DEF LoopClaim
<1>3. /\ last[Conts[s][k]] # Unseen
      /\ Len(history[Conts[s][k]]) >= Threshold
  BY <1>1, <1>2
<1>4. \A j \in (k + 1)..m : history[Conts[s][j]] # <<>>
  BY <1>1
<1> QED BY <1>3, <1>4 DEF LoopClaim

LEMMA LoopQuiet ==
  ASSUME EngineInv, EngineInv', [Next]_vars, NEW s \in Services, LoopInv(s),
         ~Restart, ~(EvalLoop /\ Svc = s), ~(RaiseLoop /\ Svc = s)
  PROVE  LoopInv(s)'
<1>0. PICK m \in Nat : m = Done(s) /\ m <= Len(Conts[s])
  BY DoneIsThere
<1>1. Done(s)' \in {m, 0} /\ (at'.pc = "raiseLoop" /\ Svc' = s => at' = at /\ Svc = s)
  <2>1. CASE On(s)
    BY <1>0, <2>1, WhoMoves, SpotOfOn
       DEF EngineInv, Done, On, Walks, SameSpot, AtContainer, Svc
  <2>2. CASE ~On(s)
    <3>1. CASE Elsewhere /\ at'.pc = "inspect" /\ at'.k = 1 /\ Svc' = Svc
      BY <1>0, <2>2, <3>1 DEF Done, On, AtContainer
    <3>2. CASE ~(Elsewhere /\ at'.pc = "inspect" /\ at'.k = 1 /\ Svc' = Svc)
      <4>1. ~On(s)'
        BY <2>2, <3>2, WhoMoves DEF EngineInv, On, Walks, SameSpot, AtContainer, Svc
      <4> QED BY <1>0, <2>2, <4>1 DEF Done, On, AtContainer
    <3> QED BY <3>1, <3>2
  <2> QED BY <2>1, <2>2
<1>2. Shown(Looping(s)) => Shown(Looping(s))'
  <2>1. "restart_loop" \in Concerns /\ "restart_loop" # "service_unhealthy"
    BY DEF Concerns
  <2> QED BY <2>1, ShownStays DEF EngineInv, Looping
<1>3. \A k \in 1..m : ~(Count /\ Cont = Conts[s][k])
  <2> SUFFICES ASSUME NEW k \in 1..m, Count, Cont = Conts[s][k] PROVE FALSE
    OBVIOUS
  <2>1. at.pc = "count" /\ k \in DOMAIN Conts[s]
    BY <1>0, LastIsThere DEF Count, At
  <2>2. Svc = s /\ at.k = k
    BY <2>1, NameTellsSpot DEF EngineInv, AtContainer
  <2> QED BY <1>0, <2>1, <2>2 DEF Done, On, AtContainer
<1>4. LoopClaim(s, m)'
  BY <1>0, <1>2, <1>3, LoopClaimStays DEF LoopInv
<1>5. LoopClaim(s, 0)'
  BY DEF LoopClaim
<1> QED BY <1>1, <1>2, <1>4, <1>5 DEF LoopInv

LEMMA EvalLoopLoop ==
  ASSUME EngineInv, EngineInv', NEW s \in Services, LoopInv(s), EvalLoop, Svc = s
  PROVE  LoopInv(s)'
<1>0. On(s) /\ On(s)' /\ at'.k = at.k /\ at.pc = "loop" /\ ~Restart /\ [Next]_vars
  BY EvalLoopWalks, IdleIsPlaced
     DEF EngineInv, Walks, SameSpot, On, AtContainer, Restart, Next, Engine
<1>1. PICK m \in Nat : m = at.k - 1 /\ m + 1 \in DOMAIN Conts[s] /\ m + 1 <= Len(Conts[s])
                       /\ Cont = Conts[s][m + 1]
  BY <1>0, SpotOfOn
<1>2. m = Done(s) /\ Cont \in Containers
  BY <1>0, <1>1, LastIsThere DEF Done
<1>3. \A k \in 1..m : ~(Count /\ Cont = Conts[s][k])
  BY <1>0 DEF Count, At
<1>4. CASE Loops(Recent(Cont))
  <2>1. /\ at'.pc = "raiseLoop" /\ UNCHANGED <<open, dismissed>>
        /\ at'.found <=> open[Looping(s)] > 0
    BY <1>4, EvalLoopWalks DEF EngineInv, Walks, Looping
  <2>2. LoopClaim(s, m)'
    BY <1>0, <1>1, <1>2, <1>3, <2>1, LoopClaimStays DEF LoopInv, Shown
  <2>3. Done(s)' = m
    BY <1>0, <1>1, <2>1 DEF Done
  <2> QED BY <2>1, <2>2, <2>3 DEF LoopInv, Shown
<1>5. CASE ~Loops(Recent(Cont))
  <2>1. at'.pc = "events" /\ Done(s)' = m + 1
    <3>1. at'.pc = "events"
      BY <1>5, EvalLoopWalks DEF EngineInv, Walks
    <3>2. at'.k = m + 1
      BY <1>0, <1>1, SpotOfOn
    <3> QED BY <1>0, <3>1, <3>2 DEF Done
  <2>2. history'[Cont] = Recent(Cont)
    BY <1>2, EvalLoopWrites DEF EngineInv, HistoryOK
  <2>3. ~(Len(history'[Conts[s][m + 1]]) >= Threshold)
    BY <1>1, <1>5, <2>2 DEF Loops
  <2>4. CASE Calm(Recent(Cont))
    <3>1. history'[Conts[s][m + 1]] = <<>>
      BY <1>1, <2>2, <2>4 DEF Calm
    <3>2. LoopClaim(s, m + 1)'
      <4> SUFFICES ASSUME NEW k \in 1..(m + 1),
                          Len(history'[Conts[s][k]]) >= Threshold,
                          \A j \in (k + 1)..(m + 1) : history'[Conts[s][j]] # <<>>
                   PROVE  FALSE
        BY DEF LoopClaim
      <4>1. k # m + 1
        BY <2>3
      <4>2. m + 1 \in (k + 1)..(m + 1)
        BY <4>1
      <4> QED BY <3>1, <4>2
    <3> QED BY <2>1, <3>2 DEF LoopInv
  <2>5. CASE ~Calm(Recent(Cont))
    <3>1. UNCHANGED <<open, dismissed>>
      BY <1>5, <2>5 DEF EvalLoop
    <3>2. LoopClaim(s, m)'
      <4>1. Shown(Looping(s)) => Shown(Looping(s))'
        BY <3>1 DEF Shown
      <4>2. LoopClaim(s, m) /\ m <= Len(Conts[s])
        BY <1>1, <1>2, LastIsThere DEF LoopInv
      <4> QED BY <1>0, <1>3, <4>1, <4>2, LoopClaimStays
    <3>3. LoopClaim(s, m + 1)'
      <4> SUFFICES ASSUME NEW k \in 1..(m + 1),
                          (last[Conts[s][k]] # Unseen)',
                          Len(history'[Conts[s][k]]) >= Threshold,
                          \A j \in (k + 1)..(m + 1) : history'[Conts[s][j]] # <<>>
                   PROVE  Shown(Looping(s))'
        BY DEF LoopClaim
      <4>1. k \in 1..m
        BY <2>3
      <4>2. \A j \in (k + 1)..m : history'[Conts[s][j]] # <<>>
        OBVIOUS
      <4> QED BY <3>2, <4>1, <4>2 DEF LoopClaim
    <3> QED BY <2>1, <3>3 DEF LoopInv
  <2> QED BY <2>4, <2>5
<1> QED BY <1>4, <1>5

LEMMA RaiseLoopLoop ==
  ASSUME EngineInv, NEW s \in Services, LoopInv(s), RaiseLoop, Svc = s
  PROVE  LoopInv(s)'
<1>1. at.pc = "raiseLoop" /\ at'.pc # "raiseLoop"
  BY RaiseLoopWalks DEF EngineInv, Walks
<1>2. Looping(s) \in Keys /\ Upsert(Looping(s))
  BY DEF RaiseLoop, Looping, Keys, Types
<1>3. Shown(Looping(s))'
  BY <1>1, <1>2, UpsertShows DEF LoopInv, EngineInv, SingleWriter
<1> QED BY <1>1, <1>3 DEF LoopInv, LoopClaim

LEMMA RestartLoop ==
  ASSUME NEW s \in Services, Restart
  PROVE  LoopInv(s)'
<1>1. at'.pc = "idle" /\ \A c \in Containers : last'[c] = Unseen
  BY IdleIsPlaced DEF Restart
<1>2. Done(s)' = Len(Conts[s])
  BY <1>1 DEF Done, On, AtContainer
<1>3. LoopClaim(s, Len(Conts[s]))'
  BY <1>1, LastIsThere DEF LoopClaim
<1> QED BY <1>1, <1>2, <1>3 DEF LoopInv

\* Between sweeps a service with a container over the restart threshold has its
\* alert, unless the user resolved it or a later container of it had no restart
\* in the window (engine.go:380-428); a sweep writes the one row of the service
\* for each container in turn, and anything may happen in between.
THEOREM LoopingServicesAreShown == Spec => []LoopIsShown
<1> DEFINE AllLoop == \A s \in Services : LoopInv(s)
<1>1. Init => AllLoop
  <2> SUFFICES ASSUME Init, NEW s \in Services PROVE LoopInv(s)
    OBVIOUS
  <2>1. at.pc = "idle" /\ \A c \in Containers : last[c] = Unseen
    BY IdleIsPlaced DEF Init
  <2>2. Done(s) = Len(Conts[s])
    BY <2>1 DEF Done, On, AtContainer
  <2> QED BY <2>1, <2>2, LastIsThere DEF LoopInv, LoopClaim
<1>2. EngineInv /\ EngineInv' /\ AllLoop /\ [Next]_vars => AllLoop'
  BY LoopQuiet, EvalLoopLoop, RaiseLoopLoop, RestartLoop
<1>3. AllLoop => LoopIsShown
  <2> SUFFICES ASSUME AllLoop, at.pc = "idle", NEW s \in Services
               PROVE  LoopClaim(s, Len(Conts[s]))
    BY LastIsThere DEF LoopIsShown, LoopClaim, Looping, At
  <2> QED BY DEF LoopInv, Done, On, AtContainer
<1> HIDE DEF AllLoop
<1> QED BY <1>1, <1>2, <1>3, InitEngine, NextEngine, PTL DEF Spec

-----------------------------------------------------------------------------
(* The end of a restart alert.                                             *)

\* Its last container leaves the row of s as it is.
Restless(s) == Threshold = 0 \/ history[LastOf(s)] # <<>>

CalmClaim(s) ==
  \/ Restless(s)
  \/ open[Looping(s)] = 0 /\ <<s, "loop">> \notin autoStopped

CalmInv(s) ==
  /\ ~On(s) => last[LastOf(s)] = Unseen \/ CalmClaim(s)
  /\ AtLast(s, {"events"}) => CalmClaim(s)
  /\ AtLast(s, {"raiseLoop", "stopLoop"}) => Restless(s)

\* Only the stop after a raise marks a service.
LEMMA WhoMarks ==
  ASSUME [Next]_vars, NEW s, <<s, "loop">> \notin autoStopped
  PROVE  (StopLoop /\ Svc = s) \/ <<s, "loop">> \notin autoStopped'
<1>1. CASE StopLoop
  BY <1>1 DEF StopLoop, Stop
<1>2. CASE StopDependent
  BY <1>2 DEF StopDependent, Stop
<1>3. CASE Engine /\ ~StopLoop /\ ~StopDependent
  BY <1>3 DEF Engine, Sweep, ReadEnabled, InspectOne, CheckHealth, RaiseHealth,
     Count, EvalLoop, Forgotten, RaiseLoop, Events, ReadMode, CheckDeps,
     InspectUpstream, ClearUpstream, FlagUpstream, RaiseUpstream, KeepMemory
<1>4. CASE Environment
  BY <1>4 DEF Environment, Happen, Restarts, Start, Remove, Disable, Enable,
     Dismiss, SetMode, Time, Restart, memory
<1>5. CASE UNCHANGED vars
  BY <1>5 DEF vars, memory
<1> QED BY <1>1, <1>2, <1>3, <1>4, <1>5 DEF Next

\* What the last container tells remains so while it is left alone.
LEMMA CalmStays ==
  ASSUME EngineInv, EngineInv', [Next]_vars, NEW s \in Services, ~Restart,
         ~((Count \/ EvalLoop) /\ Cont = LastOf(s))
  PROVE  /\ last'[LastOf(s)] = last[LastOf(s)]
         /\ Restless(s) => Restless(s)'
         /\ ~(StopLoop /\ Svc = s) /\ ~(RaiseLoop /\ Svc = s) /\ CalmClaim(s)
              => CalmClaim(s)'
<1> DEFINE c == LastOf(s)
<1>1. c \in Containers
  BY LastIsThere
<1>2. /\ history \in [Containers -> Seq(0..Window)]
      /\ history[c] \in Seq(0..Window) /\ history'[c] \in Seq(0..Window)
  BY <1>1 DEF EngineInv, HistoryOK
<1>3. Len(history'[c]) = Len(history[c])
  <2>1. CASE Count
    BY <1>1, <2>1, CountWrites DEF EngineInv
  <2>2. CASE EvalLoop
    BY <1>1, <1>2, <2>2, EvalLoopWrites DEF EngineInv
  <2>3. CASE Time
    BY <1>1, <2>3, TimeWrites DEF EngineInv
  <2> QED BY <2>1, <2>2, <2>3, WhoWritesHistory
<1>4. history'[c] = <<>> => history[c] = <<>>
  BY <1>2, <1>3
<1>5. Restless(s) => Restless(s)'
  BY <1>4 DEF Restless
<1>6. "restart_loop" \in Concerns /\ "restart_loop" # "service_unhealthy"
  BY DEF Concerns
<1>7. last'[c] = last[c]
  BY <1>1, LastAndPrevStay
<1>8. ASSUME ~(StopLoop /\ Svc = s), ~(RaiseLoop /\ Svc = s), CalmClaim(s)
      PROVE  CalmClaim(s)'
  BY <1>5, <1>6, <1>8, ClosedStays, WhoMarks
     DEF CalmClaim, Restless, EngineInv, Looping
<1> QED BY <1>5, <1>7, <1>8

LEMMA CalmElsewhere ==
  ASSUME EngineInv, EngineInv', [Next]_vars, NEW s \in Services, CalmInv(s), ~On(s),
         ~Restart
  PROVE  CalmInv(s)'
<1>1. ~((Count \/ EvalLoop) /\ Cont = LastOf(s))
  BY NameTellsSpot, LastIsThere
     DEF EngineInv, On, Count, EvalLoop, At, AtContainer, LastOf
<1>2. ~(StopLoop /\ Svc = s) /\ ~(RaiseLoop /\ Svc = s)
  BY DEF On, StopLoop, RaiseLoop, At, AtContainer
<1>3. last'[LastOf(s)] = Unseen \/ CalmClaim(s)'
  BY <1>1, <1>2, CalmStays DEF CalmInv
<1>4. \A places \in {{"events"}, {"raiseLoop", "stopLoop"}} : ~AtLast(s, places)'
  BY WhoMoves DEF EngineInv, On, AtLast, Walks, SameSpot, AtContainer, Svc
<1> QED BY <1>3, <1>4 DEF CalmInv

LEMMA CalmHere ==
  ASSUME EngineInv, EngineInv', [Next]_vars, NEW s \in Services, CalmInv(s), On(s),
         ~Restart
  PROVE  CalmInv(s)'
<1>0. Svc = s /\ at.pc \in AtContainer /\ SingleWriter /\ SingleWriter'
  BY DEF On, EngineInv
<1>1. CASE at' = at /\ ~Engine
  <2>1. On(s)' /\ \A places : AtLast(s, places)' <=> AtLast(s, places)
    BY <1>0, <1>1 DEF On, AtLast, Svc
  <2>2. ~Count /\ ~EvalLoop /\ ~StopLoop /\ ~RaiseLoop
    BY <1>1 DEF Engine
  <2> QED BY <2>1, <2>2, CalmStays DEF CalmInv
<1>2. CASE On(s)' /\ at'.pc \notin {"events", "raiseLoop", "stopLoop"}
  BY <1>2 DEF CalmInv, AtLast
<1>3. CASE EvalLoop /\ Walks({"loop"}, {"raiseLoop", "events"})
  <2>1. On(s)' /\ \A places : AtLast(s, places)' => at'.pc \in places /\ Cont = LastOf(s)
    BY <1>0, <1>3 DEF Walks, SameSpot, On, AtContainer, AtLast, Cont, LastOf
  <2>2. SUFFICES ASSUME Cont = LastOf(s)
                 PROVE  /\ at'.pc = "events" => CalmClaim(s)'
                        /\ at'.pc = "raiseLoop" => Restless(s)'
    BY <1>3, <2>1 DEF CalmInv, Walks
  <2>3. history'[LastOf(s)] = Recent(Cont)
    BY <1>3, <2>2, EvalLoopWrites DEF EngineInv, HistoryOK
  <2>4. CASE Loops(Recent(Cont))
    <3>1. at'.pc = "raiseLoop"
      BY <1>3, <2>4, EvalLoopWalks, <1>0 DEF Walks
    <3>2. Threshold = 0 \/ Recent(Cont) # <<>>
      BY <2>4, SettingsAssumption DEF Loops
    <3> QED BY <2>3, <3>1, <3>2 DEF Restless
  <2>5. CASE ~Loops(Recent(Cont)) /\ Calm(Recent(Cont))
    <3>1. Resolve(Looping(s)) /\ autoStopped' = Forgotten
      BY <1>0, <1>3, <2>5 DEF EvalLoop, Looping
    <3>2. open'[Looping(s)] = 0 /\ <<s, "loop">> \notin autoStopped'
      BY <1>0, <3>1 DEF Resolve, TablesOK, SingleWriter, Looping, Keys, Types, Forgotten
    <3>3. at'.pc = "events"
      BY <1>0, <1>3, <2>5, EvalLoopWalks DEF Walks
    <3> QED BY <3>2, <3>3 DEF CalmClaim
  <2>6. CASE ~Loops(Recent(Cont)) /\ ~Calm(Recent(Cont))
    <3>1. history'[LastOf(s)] # <<>>
      BY <2>3, <2>6 DEF Calm
    <3>2. at'.pc = "events"
      BY <1>0, <1>3, <2>6, EvalLoopWalks DEF Walks
    <3> QED BY <3>1, <3>2, SettingsAssumption DEF CalmClaim, Restless
  <2> QED BY <2>4, <2>5, <2>6
<1>4. CASE \/ RaiseLoop /\ Walks({"raiseLoop"}, {"stopLoop", "events"})
           \/ StopLoop /\ Walks({"stopLoop"}, {"events"})
  <2>1. On(s)'
    BY <1>0, <1>4 DEF Walks, SameSpot, On, AtContainer
  <2>2. SUFFICES ASSUME AtLast(s, {"events", "stopLoop"})'
                 PROVE  Restless(s)'
    BY <1>4, <2>1, SettingsAssumption DEF CalmInv, AtLast, Walks, CalmClaim, Restless
  <2>3. AtLast(s, {"raiseLoop", "stopLoop"})
    BY <1>0, <1>4, <2>2 DEF AtLast, Walks, SameSpot
  <2>4. ~Count /\ ~EvalLoop
    BY <1>4 DEF Walks, Count, EvalLoop, At
  <2> QED BY <2>3, <2>4, CalmStays DEF CalmInv
<1>5. CASE Events /\ at.k = Len(Conts[Svc]) /\ at'.pc \in {"service", "mode"}
  <2>1. AtLast(s, {"events"}) /\ ~On(s)'
    BY <1>0, <1>5 DEF AtLast, Events, At, On, AtContainer
  <2>2. ~Count /\ ~EvalLoop /\ ~StopLoop /\ ~RaiseLoop
    BY <1>5 DEF Events, Count, EvalLoop, StopLoop, RaiseLoop, At
  <2>3. CalmClaim(s)'
    BY <2>1, <2>2, CalmStays DEF CalmInv
  <2> QED BY <1>5, <2>1, <2>3 DEF CalmInv, AtLast
<1>6. \/ at' = at /\ ~Engine
      \/ On(s)' /\ at'.pc \notin {"events", "raiseLoop", "stopLoop"}
      \/ EvalLoop /\ Walks({"loop"}, {"raiseLoop", "events"})
      \/ RaiseLoop /\ Walks({"raiseLoop"}, {"stopLoop", "events"})
      \/ StopLoop /\ Walks({"stopLoop"}, {"events"})
      \/ Events /\ at.k = Len(Conts[Svc]) /\ at'.pc \in {"service", "mode"}
  BY <1>0, WhoMoves DEF On, AtContainer, Walks, SameSpot
<1> QED BY <1>1, <1>2, <1>3, <1>4, <1>5, <1>6

LEMMA RestartCalms ==
  ASSUME NEW s \in Services, Restart
  PROVE  CalmInv(s)'
<1>1. at'.pc = "idle" /\ last'[LastOf(s)] = Unseen
  BY LastIsThere, IdleIsPlaced DEF Restart
<1> QED BY <1>1 DEF CalmInv, AtLast

\* Between sweeps, a service whose last container had no restart in the window
\* has no restart alert and may be stopped for one again, whatever its other
\* containers do and whatever came between the steps (engine.go:399-401).
THEOREM CalmServicesAreQuiet == Spec => []LastIsCalm
<1> DEFINE AllCalm == \A s \in Services : CalmInv(s)
<1>1. Init => AllCalm
  <2> SUFFICES ASSUME Init, NEW s \in Services PROVE CalmInv(s)
    OBVIOUS
  <2>1. at.pc = "idle" /\ last[LastOf(s)] = Unseen
    BY LastIsThere, IdleIsPlaced DEF Init
  <2> QED BY <2>1 DEF CalmInv, AtLast
<1>2. EngineInv /\ EngineInv' /\ AllCalm /\ [Next]_vars => AllCalm'
  BY CalmElsewhere, CalmHere, RestartCalms
<1>3. AllCalm => LastIsCalm
  BY DEF CalmInv, CalmClaim, Restless, Looping, LastIsCalm, At, On, AtContainer
<1> HIDE DEF AllCalm
<1> QED BY <1>1, <1>2, <1>3, InitEngine, NextEngine, PTL DEF Spec
=============================================================================
