----------------------------- MODULE MCHandlers -----------------------------
(***************************************************************************)
(* The administrator's requests, the backup archives and the monitoring    *)
(* history.  They share no state: no step of one reads what another        *)
(* writes, so one of them acts in a behaviour and the others stay put.     *)
(***************************************************************************)
EXTENDS Administration, Backups, Monitoring, TLC

VARIABLE focus  \* the component that acts

\* What does not act starts in one of its states only.
HandlersInit ==
  /\ focus \in {"administration", "backups", "monitoring"}
  /\ Init /\ BackupsInit /\ MonitoringInit
  /\ focus # "administration" => ~vault
  /\ focus # "monitoring" => last = count

Administer == focus = "administration" /\ Next /\ UNCHANGED <<focus, backupsVars, monitoringVars>>
BackUp == focus = "backups" /\ BackupsNext /\ UNCHANGED <<focus, vars, monitoringVars>>
Monitor == focus = "monitoring" /\ MonitoringNext /\ UNCHANGED <<focus, vars, backupsVars>>

HandlersSpec == HandlersInit /\ [][Administer \/ BackUp \/ Monitor]_<<focus, vars, backupsVars, monitoringVars>>

\* No step tells one goroutine from another.
Alike == Permutations(Workers) \cup Permutations(Exporters)

OneContainer == <<"bitcoind">>
=============================================================================
