---------------------------- MODULE MCAlertEngine ----------------------------
(***************************************************************************)
(* Small instances of the alert engine.                                    *)
(***************************************************************************)
EXTENDS AlertProperties, TLC

CONSTANTS node, index, web, c1, c2, c3

CONSTANTS Restarting, Changes, Outages, Failures, Dismissals, Clicks, Crashes

Bounds == ("restart" :> Restarting) @@ ("change" :> Changes)
       @@ ("outage" :> Outages) @@ ("fail" :> Failures)
       @@ ("dismiss" :> Dismissals) @@ ("admin" :> Clicks)
       @@ ("crash" :> Crashes)

NoDeps == <<>>

\* bitcoind and electrs, which depends on it.
Two == <<node, index>>
TwoConts == (node :> <<c1>>) @@ (index :> <<c2>>)
TwoDeps == (node :> NoDeps) @@ (index :> <<node>>)
TwoStack == (node :> {c1}) @@ (index :> {c2})

\* mempool: two containers.
Pair == <<web>>
PairConts == web :> <<c1, c2>>
PairDeps == web :> NoDeps
PairStack == web :> {c1, c2}

\* mempool's dependencies: two services.
Fork == <<node, index, web>>
ForkConts == (node :> <<c1>>) @@ (index :> <<c2>>) @@ (web :> <<c3>>)
ForkDeps == (node :> NoDeps) @@ (index :> NoDeps) @@ (web :> <<node, index>>)
ForkStack == (node :> {c1}) @@ (index :> {c2}) @@ (web :> {c3})
=============================================================================
