---------------------------- MODULE MCSelfUpdate ----------------------------
(***************************************************************************)
(* A small instance of the self-update: two images, three releases.        *)
(***************************************************************************)
EXTENDS SelfUpdateProperties, TLC

CONSTANTS agent, web, v1, v2, v3, w1, w2
CONSTANTS Attempts, Crashes, Publishes, Strands

TwoImages == <<agent, web>>
Bounds == ("request" :> Attempts) @@ ("crash" :> Crashes)
       @@ ("publish" :> Publishes) @@ ("strand" :> Strands)

\* Versions are interchangeable, so any of them may be the one installed.
FirstInit == Init /\ tree = v1
FirstSpec == FirstInit /\ [][Next]_vars /\ Fairness
=============================================================================
