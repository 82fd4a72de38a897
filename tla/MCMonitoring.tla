----------------------------- MODULE MCMonitoring -----------------------------
(***************************************************************************)
(* The monitoring page of one container, and of two.                       *)
(***************************************************************************)
EXTENDS Monitoring

CONSTANTS page, c1, c2

OneContainer == <<c1>>

\* The order in which docker stats lists them, the same at every tick.
TwoContainers == <<c1, c2>>
=============================================================================
