-------------------------- MODULE UpdateLifecycle --------------------------
(***************************************************************************)
(* What the update log promises a reader (the Updates page, and            *)
(* RollbackService and reconcileStuckUpdates, which decide from it).       *)
(*                                                                         *)
(* A row is an attempt.  While a goroutine carries it (`active`), it is    *)
(* the only one its service has, and its status only moves forward.  A     *)
(* crash abandons every active attempt where it stands; recovery closes    *)
(* those that had reached "restarting" and no other.  A closed row is      *)
(* never touched again, and rows never change services or versions.        *)
(***************************************************************************)
EXTENDS Integers, Sequences

CONSTANTS Services, Maybe

VARIABLES
  rows,     \* the log
  active,   \* the rows some goroutine carries
  alive     \* the process serves

Row(s, f, t, st) == [svc |-> s, from |-> f, to |-> t, status |-> st]

\* What may follow a status while the attempt is active.
After(st) ==
  CASE st = "pending" -> {"pulling", "building"}
    [] st \in {"pulling", "building"} -> {"restarting", "failed"}
    [] st = "restarting" -> {"done", "failed", "rolled_back"}
    [] OTHER -> {}

Init == rows = <<>> /\ active = {} /\ alive = FALSE

Begin(s) ==
  /\ alive
  /\ \A i \in active : rows[i].svc # s
  /\ \E f, t \in Maybe : rows' = Append(rows, Row(s, f, t, "pending"))
  /\ active' = active \cup {Len(rows) + 1}
  /\ UNCHANGED alive

Advance(i) ==
  /\ alive /\ i \in active
  /\ \E st \in After(rows[i].status) :
       rows' = [rows EXCEPT ![i].status = st]
  /\ UNCHANGED <<active, alive>>

\* The goroutine ends, and only with its attempt closed.
Finish(i) ==
  /\ alive /\ i \in active
  /\ After(rows[i].status) = {}
  /\ active' = active \ {i}
  /\ UNCHANGED <<rows, alive>>

Crash ==
  /\ alive /\ alive' = FALSE
  /\ active' = {}
  /\ UNCHANGED rows

\* Recovery happens before the process serves again.
Recover(i) ==
  /\ ~alive
  /\ rows[i].status = "restarting"
  /\ \E st \in {"done", "failed"} : rows' = [rows EXCEPT ![i].status = st]
  /\ UNCHANGED <<active, alive>>

\* The process serves once no interrupted restart is left.
Serve ==
  /\ ~alive /\ alive' = TRUE
  /\ \A i \in DOMAIN rows : rows[i].status # "restarting"
  /\ UNCHANGED <<rows, active>>

Next ==
  \/ \E s \in Services : Begin(s)
  \/ \E i \in active : Advance(i) \/ Finish(i)
  \/ Crash \/ Serve
  \/ \E i \in DOMAIN rows : Recover(i)

Spec == Init /\ [][Next]_<<rows, active, alive>>
=============================================================================
