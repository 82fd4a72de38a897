--------------------------- MODULE MCServiceControl ---------------------------
(***************************************************************************)
(* Three services of the registry: bitcoind; mempool, which depends on it  *)
(* and on the database of its own project; and that database, which is     *)
(* infrastructure.                                                         *)
(***************************************************************************)
EXTENDS ControlProperties, TLC

CONSTANTS bitcoind, mempool, db, cb, cm, cd, old, new, w1, w2

MCDeps == bitcoind :> {} @@ mempool :> {bitcoind, db} @@ db :> {}
MCProject == bitcoind :> bitcoind @@ mempool :> mempool @@ db :> mempool
MCContainers == bitcoind :> {cb} @@ mempool :> {cm} @@ db :> {cd}

\* No step tells one goroutine from another, or one text from another.
Alike == {p @@ q : p \in Permutations(Workers), q \in Permutations(Texts)}
=============================================================================
