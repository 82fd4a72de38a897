------------------------------ MODULE MCAccess ------------------------------
(***************************************************************************)
(* Two request goroutines over the password, the sessions and the limiter. *)
(***************************************************************************)
EXTENDS Access, TLC

\* No step tells one goroutine, password or key from another.
Alike == Permutations(Workers) \cup Permutations(Passwords) \cup Permutations(Keys)
=============================================================================
