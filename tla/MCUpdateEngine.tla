--------------------------- MODULE MCUpdateEngine ---------------------------
(***************************************************************************)
(* Small instances of the update engine.                                   *)
(***************************************************************************)
EXTENDS UpdateProperties, TLC

\* Goroutines and versions are interchangeable; no temporal property of the
\* runs that use this is a liveness property.
Symmetry == Permutations(Workers) \cup Permutations(Versions)

CONSTANTS web, db, pool, v1, v2, w1, w2

CONSTANTS Attempts, Crashes, Publishes, Triggers, Dismissals

Bounds == ("request" :> Attempts) @@ ("crash" :> Crashes)
       @@ ("publish" :> Publishes) @@ ("trigger" :> Triggers)
       @@ ("dismiss" :> Dismissals)

\* One service that follows tags, alone in its compose project.
OneTag == <<web>>
OneTagKind == web :> "tag"
OneTagDir == web :> "web"

\* A service built from source and one of a floating tag, in one project.
Shared == <<db, pool>>
SharedKind == (pool :> "source") @@ (db :> "digest")
SharedDir == (pool :> "pool") @@ (db :> "pool")

\* No step tells the versions of a service apart: it starts at the first.
FirstInit == Init /\ staged = [s \in Services |-> v1]
FirstSpec == FirstInit /\ [][Next]_vars /\ Fairness

\* Nothing is on offer before something is published.
SettledInit == FirstInit /\ upstream = staged
SettledSpec == SettledInit /\ [][Next]_vars /\ Fairness
=============================================================================
