------------------------------- MODULE Backups -------------------------------
(***************************************************************************)
(* The backup archives: handleBackupExport names an archive after the      *)
(* second, lets tar write it and prunes the oldest ones.  Two requests may *)
(* run at once, tar may fail half way, and the clock of a node without a   *)
(* battery may be set back.  What goes into an archive is left out.        *)
(***************************************************************************)
EXTENDS Integers, FiniteSets, FiniteSetsExt

CONSTANTS
  Exporters,   \* request goroutines
  MaxBackups,  \* archives kept (5 in the code)
  Exports,     \* bound: export requests
  Seconds      \* bound: the clock

ASSUME BackupsAssumption == MaxBackups \in Nat \ {0} /\ {Exports, Seconds} \subseteq Nat

VARIABLES
  dir,       \* the names of the archives in the directory
  whole,     \* those whose tar ended well
  now,       \* the clock of the node
  answered,  \* history: the archive of the newest "ok", or 0
  stage, name,  \* what each goroutine does next, and the archive it makes
  todo,      \* the names a goroutine is about to remove
  alert,     \* a backup_failed alert is open
  mishaps,   \* history: "crossed" (two exports at once), "again" (two in one
             \* second), "back" (the clock was set back)
  due        \* what remains of Exports

backupsVars == <<dir, whole, now, answered, stage, name, todo, alert, mishaps, due>>

BackupsInit ==
  /\ dir = {} /\ whole = {}
  /\ now = 1
  /\ answered = 0
  /\ stage = [w \in Exporters |-> "idle"]
  /\ name = [w \in Exporters |-> 0]
  /\ todo = [w \in Exporters |-> {}]
  /\ alert = FALSE
  /\ mishaps = {}
  /\ due = Exports

MoveTo(w, p) == stage' = [stage EXCEPT ![w] = p]

\* tar creates, or truncates, the archive of this second.
Export(w) ==
  /\ stage[w] = "idle" /\ due > 0 /\ due' = due - 1
  /\ name' = [name EXCEPT ![w] = now]
  /\ dir' = dir \cup {now} /\ whole' = whole \ {now}
  /\ mishaps' = mishaps
       \cup {m \in {"crossed"} : \E v \in Exporters \ {w} : stage[v] # "idle"}
       \cup {m \in {"again"} : now \in dir}
  /\ MoveTo(w, "tar")
  /\ UNCHANGED <<now, answered, todo, alert>>

\* An archive that two tars write is not one of either; one that was removed
\* meanwhile is gone.
Tar(w) ==
  /\ stage[w] = "tar"
  /\ \/ /\ whole' = whole \cup {n \in {name[w]} \cap dir :
                       \A v \in Exporters \ {w} : name[v] # n}
        /\ MoveTo(w, "list") /\ UNCHANGED alert
     \/ /\ alert' = TRUE
        /\ MoveTo(w, "leave") /\ UNCHANGED whole
  /\ UNCHANGED <<dir, now, answered, name, todo, mishaps, due>>

\* The newest by name, partial archives included.
Surplus == {n \in dir : Cardinality({m \in dir : m > n}) >= MaxBackups}

\* Slip: the list is sorted the other way round.
ListNewest(w) ==
  /\ stage[w] = "list"
  /\ todo' = [todo EXCEPT ![w] =
                {n \in dir : Cardinality({m \in dir : m < n}) >= MaxBackups}]
  /\ MoveTo(w, "prune")
  /\ UNCHANGED <<dir, whole, now, answered, name, alert, mishaps, due>>

List(w) ==
  /\ stage[w] = "list"
  /\ todo' = [todo EXCEPT ![w] = Surplus]
  /\ MoveTo(w, "prune")
  /\ UNCHANGED <<dir, whole, now, answered, name, alert, mishaps, due>>

\* Oldest first; an error is ignored.  Then the alert is resolved.
Prune(w) ==
  /\ stage[w] = "prune"
  /\ IF todo[w] = {}
     THEN /\ alert' = FALSE /\ answered' = name[w]
          /\ MoveTo(w, "leave") /\ UNCHANGED <<dir, whole, todo>>
     ELSE LET n == Min(todo[w]) IN
          /\ \/ dir' = dir \ {n} /\ whole' = whole \ {n}
             \/ UNCHANGED <<dir, whole>>
          /\ todo' = [todo EXCEPT ![w] = @ \ {n}]
          /\ UNCHANGED <<stage, alert, answered>>
  /\ UNCHANGED <<now, name, mishaps, due>>

Leave(w) ==
  /\ stage[w] = "leave"
  /\ name' = [name EXCEPT ![w] = 0]
  /\ MoveTo(w, "idle")
  /\ UNCHANGED <<dir, whole, now, answered, todo, alert, mishaps, due>>

SetClock(t) ==
  /\ t # now /\ now' = t
  /\ mishaps' = mishaps \cup {m \in {"back"} : t < now}
  /\ UNCHANGED <<dir, whole, answered, stage, name, todo, alert, due>>

BackupsStep(w) == Tar(w) \/ List(w) \/ Prune(w) \/ Leave(w)

BackupsNext ==
  \/ \E w \in Exporters : Export(w) \/ BackupsStep(w)
  \/ \E t \in 1..Seconds : SetClock(t)

BackupsSpec == BackupsInit /\ [][BackupsNext]_backupsVars

-----------------------------------------------------------------------------
BackupsTypeOK ==
  /\ whole \subseteq dir /\ dir \subseteq Nat
  /\ now \in Nat /\ answered \in Nat /\ alert \in BOOLEAN
  /\ stage \in [Exporters -> {"idle", "tar", "list", "prune", "leave"}]
  /\ name \in [Exporters -> Nat] /\ todo \in [Exporters -> SUBSET Nat]
  /\ mishaps \subseteq {"crossed", "again", "back"} /\ due \in Nat

\* The archive of the newest answer "ok" stays in the directory, whole, through
\* later exports that fail or are pruned, until a newer answer; unless exports
\* overlapped, shared a second, or the clock went back (api/backup.go:118-143,
\* where partial archives count and names decide what is old).
Pending(w) == stage[w] = "prune" /\ name[w] > answered
AnsweredIsThere ==
  (mishaps = {} /\ answered # 0) => answered \in whole \/ \E w \in Exporters : Pending(w)

BackupsInv == BackupsTypeOK /\ AnsweredIsThere
=============================================================================
