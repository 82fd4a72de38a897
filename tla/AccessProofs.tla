----------------------------- MODULE AccessProofs -----------------------------
(***************************************************************************)
(* Proofs about the password, the secret of the cookies and the limiter of *)
(* the logins, for any number of requests, remotes, passwords and keys.  *)
(* The first two need no more of the goroutines than that each stands      *)
(* somewhere.                                                              *)
(***************************************************************************)
EXTENDS Access, SelectionLemmas

PcIsMap == pc = [w \in Workers |-> pc[w]]

LEMMA InitIsMap == Init => PcIsMap
BY DEF Init, PcIsMap

\* Requests are taken up, or go on, and the others stay where they are.
Moves(w, set) == \E p \in set : pc' = [pc EXCEPT ![w] = p]

Stays == {"idle", "password", "setup", "guard", "secret"}

\* Where a request may go, and what it writes on the way.
LEMMA StepIs ==
  ASSUME Next
  PROVE  \/ UNCHANGED <<hash, secret>>
            /\ \/ \E w \in Workers : Moves(w, Stays)
               \/ UNCHANGED pc
               \/ pc' = [v \in Workers |-> "idle"]
         \/ \E w \in Workers :
              /\ UNCHANGED <<hash, secret>> /\ secret = None
              /\ pc[w] = "secret" /\ Moves(w, {"generate"})
         \/ \E w \in Workers :
              /\ UNCHANGED <<hash, secret>> /\ (hash = None \/ blind')
              /\ pc[w] = "setup" /\ Moves(w, {"set"})
         \/ \E w \in Workers :
              UNCHANGED hash /\ pc[w] = "generate" /\ Moves(w, {"idle"})
         \/ \E w \in Workers :
              UNCHANGED secret /\ pc[w] = "set" /\ Moves(w, {"secret", "idle"})
<1>1. ASSUME NEW w \in Workers, NEW word \in Passwords, NEW a \in Remotes,
             Login(w, a, word)
      PROVE  UNCHANGED <<hash, secret>> /\ (Moves(w, Stays) \/ UNCHANGED pc)
  BY <1>1 DEF Login, Begin, KeepRows, Moves, Stays
<1>2. ASSUME NEW w \in Workers, NEW word \in Passwords, Setup(w, word)
      PROVE  UNCHANGED <<hash, secret>> /\ Moves(w, Stays)
  BY <1>2 DEF Setup, Begin, KeepRows, Moves, Stays
<1>3. ASSUME NEW w \in Workers, Call(w)
      PROVE  UNCHANGED <<hash, secret>> /\ Moves(w, Stays)
  BY <1>3 DEF Call, Begin, KeepRows, Moves, Stays
<1>4. ASSUME NEW w \in Workers, CheckPassword(w) \/ Guard(w)
      PROVE  UNCHANGED <<hash, secret>> /\ Moves(w, Stays)
  BY <1>4 DEF CheckPassword, Guard, Goto, Finish, KeepRows, Moves, Stays
<1>5. ASSUME NEW w \in Workers, CheckSetup(w)
      PROVE  /\ UNCHANGED <<hash, secret>> /\ pc[w] = "setup"
             /\ Moves(w, Stays) \/ ((hash = None \/ blind') /\ Moves(w, {"set"}))
  BY <1>5 DEF CheckSetup, At, Goto, Finish, KeepRows, Moves, Stays
<1>6. ASSUME NEW w \in Workers, SetPassword(w)
      PROVE  UNCHANGED secret /\ pc[w] = "set" /\ Moves(w, {"secret", "idle"})
  BY <1>6 DEF SetPassword, At, Goto, Finish, Moves
<1>7. ASSUME NEW w \in Workers, ReadSecret(w)
      PROVE  /\ UNCHANGED <<hash, secret>> /\ pc[w] = "secret"
             /\ Moves(w, Stays) \/ (secret = None /\ Moves(w, {"generate"}))
  BY <1>7 DEF ReadSecret, HandOut, At, Goto, Finish, KeepRows, Moves, Stays
<1>8. ASSUME NEW w \in Workers, Generate(w)
      PROVE  UNCHANGED hash /\ pc[w] = "generate" /\ Moves(w, {"idle"})
  BY <1>8 DEF Generate, HandOut, At, Finish, Moves
<1>9. CASE Tick
  BY <1>9 DEF Tick, KeepRows
<1>10. CASE Restart
  BY <1>10 DEF Restart, KeepRows
<1> QED
  BY <1>1, <1>2, <1>3, <1>4, <1>5, <1>6, <1>7, <1>8, <1>9, <1>10 DEF Next, Step

LEMMA MovedIs ==
  ASSUME PcIsMap, NEW w \in Workers, NEW set, Moves(w, set)
  PROVE  PcIsMap' /\ \A v \in Workers : pc'[v] \in set \/ pc'[v] = pc[v]
<1>1. PICK p \in set : pc' = [pc EXCEPT ![w] = p]
  BY DEF Moves
<1> QED
  BY <1>1 DEF PcIsMap

LEMMA NextIsMap == PcIsMap /\ [Next]_vars => PcIsMap'
<1> SUFFICES ASSUME PcIsMap, [Next]_vars PROVE PcIsMap'
  OBVIOUS
<1>1. CASE UNCHANGED pc
  BY <1>1 DEF PcIsMap
<1>2. CASE \E set : \E w \in Workers : Moves(w, set)
  BY <1>2, MovedIs
<1>3. CASE pc' = [v \in Workers |-> "idle"]
  BY <1>3 DEF PcIsMap
<1> QED
  BY <1>1, <1>2, <1>3, StepIs DEF vars

\* A secret, once there and with nobody about to write one, never changes
\* again: no request and no restart invalidates a cookie (auth/auth.go:66-83).
THEOREM SecretNeverMoves == Spec => SecretSettles
<1> DEFINE A == Settled => Settled' /\ secret' = secret
<1>1. PcIsMap /\ [Next]_vars => [A]_vars
  <2> SUFFICES ASSUME PcIsMap, Next, Settled
               PROVE  (\A v \in Workers : pc'[v] # "generate") /\ secret' = secret
    BY DEF Settled
  <2>1. \A v \in Workers : pc[v] # "generate"
    BY DEF Settled
  <2>2. ASSUME NEW w \in Workers, NEW set, Moves(w, set), "generate" \notin set
        PROVE  \A v \in Workers : pc'[v] # "generate"
    BY <2>1, <2>2, MovedIs
  <2> QED
    BY <2>1, <2>2, StepIs DEF Settled, Stays
<1> QED
  BY <1>1, InitIsMap, NextIsMap, PTL DEF Spec, SecretSettles

\* A password, once set and with no setup past its check, is never replaced by
\* a setup that could read it (api/auth.go:93-107).
THEOREM PasswordNeverMoves == Spec => PasswordSettles
<1> DEFINE A == Owned => (Owned' /\ hash' = hash) \/ blind'
<1>1. PcIsMap /\ [Next]_vars => [A]_vars
  <2> SUFFICES ASSUME PcIsMap, Next, Owned, ~blind'
               PROVE  (\A v \in Workers : pc'[v] # "set") /\ hash' = hash
    BY DEF Owned
  <2>1. \A v \in Workers : pc[v] # "set"
    BY DEF Owned
  <2>2. ASSUME NEW w \in Workers, NEW set, Moves(w, set), "set" \notin set
        PROVE  \A v \in Workers : pc'[v] # "set"
    BY <2>1, <2>2, MovedIs
  <2> QED
    BY <2>1, <2>2, StepIs DEF Owned, Stays
<1> QED
  BY <1>1, InitIsMap, NextIsMap, PTL DEF Spec, PasswordSettles

-----------------------------------------------------------------------------
(* The limiter.  What it remembers of a remote is the tail of all logins   *)
(* let through, from some index on.  Of those it forgot, no more are later *)
(* than the window's begin than Limit for each restart that is.            *)

Ordered(h, t) ==
  /\ \A i \in 1..Len(h) : h[i] <= t
  /\ \A i, j \in 1..Len(h) : i <= j => h[i] <= h[j]

\* r is h without its first k entries.
TailFrom(r, h, k) ==
  /\ k \in 0..Len(h) /\ Len(r) = Len(h) - k
  /\ \A n \in 1..(Len(h) - k) : r[n] = h[k + n]

\* The first n entries of h that are later than s.
Later(h, n, s) == {i \in 1..n : h[i] > s}

\* The first k logins are paid for by the restarts b, from cut on.
Paid(h, k, b, cut) ==
  \A s \in Int : s >= cut =>
    Cardinality(Later(h, k, s)) <= Limit * Cardinality(Later(b, Len(b), s))

Remembers(r, h, b, cut) == \E k \in 0..Len(h) : TailFrom(r, h, k) /\ Paid(h, k, b, cut)

Sparse(h, b, t) ==
  \A u \in 0..t :
    Cardinality(InWindowAt(h, u)) <= Limit * (1 + Cardinality(InWindowAt(b, u)))

\* Where the window begins in an ordered list.
LEMMA WindowBegins ==
  ASSUME NEW h \in Seq(Nat), NEW t, NEW cut \in Int, Ordered(h, t)
  PROVE  \E k \in 0..Len(h) : /\ \A i \in 1..k : h[i] <= cut
                              /\ \A i \in (k + 1)..Len(h) : h[i] > cut
<1> DEFINE L == Len(h)
           T == {k \in 0..L : \A i \in (k + 1)..L : h[i] > cut}
<1>1. L \in Nat /\ \A i \in 1..L : h[i] \in Nat
  BY EntryOfSeq
<1> HIDE DEF L
<1>2. L \in T /\ T \in SUBSET Nat
  BY <1>1
<1>3. PICK k \in T : \A y \in T : k <= y
  <2> HIDE DEF T
  <2> QED BY <1>2, NatMin
<1>4. ASSUME NEW i \in 1..k PROVE h[i] <= cut
  <2>1. k - 1 \in 0..L /\ k \in 1..L /\ i \in 1..L /\ k - 1 \notin T
    <3>1. k - 1 \in 0..L /\ k \in 1..L /\ i \in 1..L /\ ~(k <= k - 1)
      BY <1>1, <1>3
    <3> HIDE DEF T
    <3> QED BY <1>3, <3>1
  <2>2. PICK j \in k..L : ~(h[j] > cut)
    BY <1>1, <2>1
  <2>3. j = k
    BY <1>1, <1>3, <2>1, <2>2
  <2>4. h[i] <= h[k]
    <3>1. \A m, n \in 1..L : m <= n => h[m] <= h[n]
      BY DEF Ordered, L
    <3> QED BY <1>1, <2>1, <3>1
  <2> QED BY <1>1, <2>1, <2>2, <2>3, <2>4
<1> QED BY <1>3, <1>4 DEF L

LEMMA LaterIsFinite ==
  ASSUME NEW h, NEW n \in Nat, NEW s
  PROVE  IsFiniteSet(Later(h, n, s)) /\ Cardinality(Later(h, n, s)) \in Nat
<1>1. IsFiniteSet(1..n) /\ Later(h, n, s) \subseteq 1..n
  BY FS_Interval DEF Later
<1> QED BY <1>1, FS_Subset, FS_CardinalityType

\* Entries out of the window do not count.
LEMMA LaterIsKept ==
  ASSUME NEW h \in Seq(Nat), NEW k \in 0..Len(h), NEW m \in k..Len(h), NEW s \in Int,
         \A i \in (k + 1)..m : h[i] <= s
  PROVE  Later(h, m, s) = Later(h, k, s)
<1>1. Len(h) \in Nat /\ k \in Nat /\ m \in Nat /\ k <= m
  OBVIOUS
<1>2. \A i \in 1..m : i \in 1..k \/ i \in (k + 1)..m
  BY <1>1
<1>3. \A i \in (k + 1)..m : h[i] \in Nat /\ ~(h[i] > s)
  BY <1>1, EntryOfSeq
<1>4. \A i \in 1..k : i \in 1..m
  BY <1>1
<1> QED BY <1>2, <1>3, <1>4 DEF Later

\* The entries after the k-th add as many as there are.
LEMMA LaterGrows ==
  ASSUME NEW h, NEW k \in Nat, NEW m \in Nat, k <= m, NEW s
  PROVE  Cardinality(Later(h, m, s)) <= Cardinality(Later(h, k, s)) + (m - k)
<1> DEFINE A == Later(h, k, s)
           B == (k + 1)..m
<1>1. IsFiniteSet(A) /\ Cardinality(A) \in Nat
  BY LaterIsFinite
<1>2. IsFiniteSet(B) /\ Cardinality(B) = m - k
  <2>1. CASE k = m
    <3>1. B = {}
      BY <2>1
    <3> QED BY <2>1, <3>1, FS_EmptySet
  <2>2. CASE k # m
    <3> DEFINE lo == k + 1
    <3>1. lo \in Int /\ m \in Int /\ ~(lo > m) /\ m - lo + 1 = m - k
      BY <2>2
    <3> HIDE DEF lo
    <3>2. IsFiniteSet(lo..m) /\ Cardinality(lo..m) = m - lo + 1
      BY <3>1, FS_Interval
    <3> QED BY <3>1, <3>2 DEF lo
  <2> QED BY <2>1, <2>2
<1>3. Later(h, m, s) \subseteq A \cup B
  <2>1. \A i \in 1..m : i \in 1..k \/ i \in B
    OBVIOUS
  <2> QED BY <2>1 DEF Later
<1> HIDE DEF A, B
<1>4. /\ IsFiniteSet(A \cup B) /\ IsFiniteSet(A \cap B)
      /\ Cardinality(A \cup B) = Cardinality(A) + Cardinality(B) - Cardinality(A \cap B)
  BY <1>1, <1>2, FS_Union, FS_Intersection
<1>5. Cardinality(Later(h, m, s)) <= Cardinality(A \cup B)
  BY <1>3, <1>4, FS_Subset
<1>6. /\ Cardinality(A \cap B) \in Nat /\ Cardinality(A \cup B) \in Nat
      /\ Cardinality(Later(h, m, s)) \in Nat
  BY <1>4, FS_CardinalityType, LaterIsFinite
<1>7. Cardinality(Later(h, m, s)) <= Cardinality(A) + (m - k)
  BY <1>1, <1>2, <1>4, <1>5, <1>6
<1> QED BY <1>7 DEF A

\* What happened at t or before is what the window that ends at t holds.
LEMMA WindowIsLater ==
  ASSUME NEW h, NEW t \in Nat, \A i \in 1..Len(h) : h[i] <= t, DOMAIN h = 1..Len(h)
  PROVE  InWindowAt(h, t) = Later(h, Len(h), t - Window)
<1>1. \A i \in DOMAIN h : t - Window < h[i] <=> h[i] > t - Window
  OBVIOUS
<1> QED BY <1>1 DEF InWindowAt, Later

\* What the limiter keeps is what it remembered and is in the window.
LEMMA KeepsTheWindow ==
  ASSUME NEW h \in Seq(Nat), NEW r \in Seq(Nat), NEW b, NEW t, NEW cut \in Int,
         Ordered(h, t), Remembers(r, h, b, cut)
  PROVE  LET kept == SelectAt(r, {n \in DOMAIN r : r[n] > cut}) IN
         kept \in Seq(Nat) /\ Len(kept) <= Len(r) /\ Remembers(kept, h, b, cut)
<1> DEFINE L == Len(h)
           I == {n \in DOMAIN r : r[n] > cut}
<1>1. PICK k0 \in 0..L : TailFrom(r, h, k0) /\ Paid(h, k0, b, cut)
  BY DEF Remembers
<1>2. PICK k \in 0..L : /\ \A i \in 1..k : h[i] <= cut
                        /\ \A i \in (k + 1)..L : h[i] > cut
  BY WindowBegins
<1>3. L \in Nat /\ \A i \in 1..L : h[i] \in Nat
  BY EntryOfSeq
<1>4. /\ Len(r) = L - k0 /\ DOMAIN r = 1..(L - k0)
      /\ \A n \in 1..(L - k0) : r[n] = h[k0 + n]
  BY <1>1 DEF TailFrom
<1> HIDE DEF L
<1> DEFINE d == IF k <= k0 THEN 0 ELSE k - k0
<1>5. d \in 0..(L - k0) /\ k <= k0 + d /\ (d = 0 \/ k = k0 + d)
  BY <1>2, <1>1, <1>3
<1> HIDE DEF d
<1>6. I = (d + 1)..(L - k0)
  <2>1. ASSUME NEW n \in 1..(L - k0) PROVE r[n] > cut <=> n >= d + 1
    <3>1. CASE n >= d + 1
      <4>1. k0 + n \in (k + 1)..L
        BY <1>1, <1>2, <1>3, <1>5, <3>1
      <4> QED BY <1>2, <1>4, <3>1, <4>1
    <3>2. CASE ~(n >= d + 1)
      <4>1. k0 + n \in 1..k /\ k0 + n \in 1..L
        BY <1>1, <1>2, <1>3, <1>5, <3>2
      <4>2. h[k0 + n] <= cut /\ h[k0 + n] \in Nat /\ r[n] = h[k0 + n]
        BY <1>2, <1>3, <1>4, <4>1
      <4> QED BY <3>2, <4>2
    <3> QED BY <3>1, <3>2
  <2>2. I = {n \in 1..(L - k0) : n >= d + 1}
    BY <1>4, <2>1
  <2> QED BY <1>1, <1>3, <1>5, <2>2
<1> DEFINE kept == SelectAt(r, I)
<1> HIDE DEF I
<1>7. /\ kept \in Seq(Nat) /\ Len(kept) = (L - k0) - d
      /\ \A n \in 1..((L - k0) - d) : kept[n] = r[d + n]
  <2>1. d \in 0..Len(r) /\ I = (d + 1)..Len(r)
    BY <1>4, <1>5, <1>6
  <2> QED BY <1>4, <2>1, SelectAtIsTail
<1> HIDE DEF kept
<1>8. TailFrom(kept, h, k0 + d)
  <2>1. k0 + d \in 0..L /\ (L - k0) - d = L - (k0 + d)
    BY <1>1, <1>3, <1>5
  <2>2. ASSUME NEW n \in 1..(L - (k0 + d)) PROVE kept[n] = h[(k0 + d) + n]
    <3>1. /\ n \in 1..((L - k0) - d) /\ d + n \in 1..(L - k0)
          /\ k0 + (d + n) = (k0 + d) + n
      BY <1>1, <1>3, <1>5
    <3>2. kept[n] = r[d + n] /\ r[d + n] = h[k0 + (d + n)]
      BY <1>4, <1>7, <3>1
    <3> QED BY <3>1, <3>2
  <2> QED BY <1>7, <2>1, <2>2 DEF TailFrom, L
<1>9. Paid(h, k0 + d, b, cut)
  <2> SUFFICES ASSUME NEW s \in Int, s >= cut
               PROVE  Cardinality(Later(h, k0 + d, s))
                        <= Limit * Cardinality(Later(b, Len(b), s))
    BY DEF Paid
  <2>1. \A i \in (k0 + 1)..(k0 + d) : h[i] <= s
    <3> SUFFICES ASSUME NEW i \in (k0 + 1)..(k0 + d) PROVE h[i] <= s
      OBVIOUS
    <3>1. i \in 1..k /\ i \in 1..L
      BY <1>1, <1>2, <1>3, <1>5
    <3>2. h[i] <= cut /\ h[i] \in Nat
      BY <1>2, <1>3, <3>1
    <3> QED BY <3>2
  <2>2. k0 + d \in k0..Len(h) /\ k0 \in 0..Len(h)
    BY <1>1, <1>3, <1>5 DEF L
  <2>3. Later(h, k0 + d, s) = Later(h, k0, s)
    BY <2>1, <2>2, LaterIsKept
  <2> QED BY <1>1, <2>3 DEF Paid
<1>10. Len(kept) <= Len(r)
  BY <1>1, <1>3, <1>4, <1>5, <1>7
<1>11. k0 + d \in 0..Len(h)
  BY <1>1, <1>3, <1>5 DEF L
<1> QED BY <1>7, <1>8, <1>9, <1>10, <1>11 DEF kept, I, Remembers

\* So the window that ends now holds what the restarts in it pay for, and
\* what the limiter remembers.
LEMMA NowIsSparse ==
  ASSUME NEW h \in Seq(Nat), NEW b \in Seq(Nat), NEW r, NEW t \in Nat,
         Ordered(h, t), Ordered(b, t), Remembers(r, h, b, t - Window), Len(r) <= Limit
  PROVE  Cardinality(InWindowAt(h, t)) <= Limit * (1 + Cardinality(InWindowAt(b, t)))
<1>1. PICK k \in 0..Len(h) : TailFrom(r, h, k) /\ Paid(h, k, b, t - Window)
  BY DEF Remembers
<1>2. Window \in Nat /\ Limit \in Nat /\ Len(h) \in Nat /\ Len(b) \in Nat
  BY AccessAssumption
<1>3. /\ InWindowAt(h, t) = Later(h, Len(h), t - Window)
      /\ InWindowAt(b, t) = Later(b, Len(b), t - Window)
  BY WindowIsLater DEF Ordered
<1> DEFINE x == Cardinality(Later(h, Len(h), t - Window))
           y == Cardinality(Later(h, k, t - Window))
           z == Cardinality(Later(b, Len(b), t - Window))
<1>4. x \in Nat /\ y \in Nat /\ z \in Nat
  BY <1>1, <1>2, LaterIsFinite
<1>5. y <= Limit * z
  BY <1>1, <1>2 DEF Paid
<1>6. x <= y + (Len(h) - k) /\ Len(r) = Len(h) - k
  BY <1>1, <1>2, LaterGrows DEF TailFrom
<1> HIDE DEF x, y, z
<1>7. Limit * (1 + z) = Limit * z + Limit /\ Limit * z \in Nat
  BY <1>2, <1>4
<1>8. x <= Limit * (1 + z)
  BY <1>1, <1>2, <1>4, <1>5, <1>6, <1>7
<1> QED BY <1>3, <1>8 DEF x, z

LEMMA OrderedAppends ==
  ASSUME NEW h \in Seq(Nat), NEW t \in Nat, Ordered(h, t)
  PROVE  /\ Ordered(Append(h, t), t) /\ Append(h, t) \in Seq(Nat)
         /\ Len(Append(h, t)) = Len(h) + 1 /\ Append(h, t)[Len(h) + 1] = t
         /\ \A i \in 1..Len(h) : Append(h, t)[i] = h[i]
<1> DEFINE L == Len(h)
           g == Append(h, t)
<1>1. L \in Nat /\ \A i \in 1..L : h[i] \in Nat
  BY EntryOfSeq
<1>2. /\ g \in Seq(Nat) /\ Len(g) = L + 1 /\ g[L + 1] = t
      /\ \A i \in 1..L : g[i] = h[i]
  OBVIOUS
<1>3. /\ \A i \in 1..L : h[i] <= t
      /\ \A i, j \in 1..L : i <= j => h[i] <= h[j]
  BY DEF Ordered
<1> HIDE DEF L, g
<1>4. ASSUME NEW i \in 1..(L + 1) PROVE g[i] <= t /\ g[i] \in Nat
  <2>1. CASE i \in 1..L
    BY <1>1, <1>2, <1>3, <2>1
  <2>2. CASE i = L + 1
    BY <1>2, <2>2
  <2> QED BY <1>1, <2>1, <2>2
<1>5. ASSUME NEW i \in 1..(L + 1), NEW j \in 1..(L + 1), i <= j
      PROVE  g[i] <= g[j]
  <2>1. CASE j = L + 1
    BY <1>2, <1>4, <2>1
  <2>2. CASE j # L + 1
    <3>1. i \in 1..L /\ j \in 1..L
      BY <1>1, <1>5, <2>2
    <3> QED BY <1>2, <1>3, <1>5, <3>1
  <2> QED BY <2>1, <2>2
<1>6. Ordered(g, t)
  BY <1>2, <1>4, <1>5 DEF Ordered
<1> QED BY <1>2, <1>6 DEF g, L

\* A time added to a list changes no window that ended before it.
LEMMA EarlierWindows ==
  ASSUME NEW h \in Seq(Nat), NEW t \in Nat, NEW u \in Nat, u < t
  PROVE  InWindowAt(Append(h, t), u) = InWindowAt(h, u)
<1> DEFINE L == Len(h)
           g == Append(h, t)
<1>1. L \in Nat /\ DOMAIN h = 1..L /\ DOMAIN g = 1..(L + 1) /\ g[L + 1] = t
      /\ \A i \in 1..L : g[i] = h[i]
  OBVIOUS
<1> HIDE DEF L, g
<1>2. /\ \A i \in 1..(L + 1) : i \in 1..L \/ i = L + 1
      /\ \A i \in 1..L : i \in 1..(L + 1)
  BY <1>1
<1>3. ~(g[L + 1] <= u)
  BY <1>1
<1>4. InWindowAt(g, u) = InWindowAt(h, u)
  BY <1>1, <1>2, <1>3 DEF InWindowAt
<1> QED BY <1>4 DEF g

\* The first k entries are what they were.
LEMMA LaterStays ==
  ASSUME NEW h \in Seq(Nat), NEW t \in Nat, NEW k \in 0..Len(h), NEW s
  PROVE  Later(Append(h, t), k, s) = Later(h, k, s)
<1>1. \A i \in 1..k : i \in 1..Len(h)
  OBVIOUS
<1>2. \A i \in 1..Len(h) : Append(h, t)[i] = h[i]
  OBVIOUS
<1> QED BY <1>1, <1>2 DEF Later

\* One login more.
LEMMA OneMoreLogin ==
  ASSUME NEW h \in Seq(Nat), NEW b \in Seq(Nat), NEW r \in Seq(Nat), NEW t \in Nat,
         Ordered(h, t), Ordered(b, t), Sparse(h, b, t),
         Remembers(r, h, b, t - Window), Len(r) < Limit
  PROVE  /\ Ordered(Append(h, t), t) /\ Sparse(Append(h, t), b, t)
         /\ Remembers(Append(r, t), Append(h, t), b, t - Window)
         /\ Len(Append(r, t)) <= Limit
<1> DEFINE L == Len(h)
           g == Append(h, t)
           q == Append(r, t)
<1>1. PICK k \in 0..L : TailFrom(r, h, k) /\ Paid(h, k, b, t - Window)
  BY DEF Remembers
<1>2. L \in Nat /\ Limit \in Nat /\ Len(r) \in Nat
  BY AccessAssumption
<1>3. /\ Ordered(g, t) /\ g \in Seq(Nat) /\ Len(g) = L + 1 /\ g[L + 1] = t
      /\ \A i \in 1..L : g[i] = h[i]
  BY OrderedAppends
<1>4. /\ Len(r) = L - k /\ \A n \in 1..(L - k) : r[n] = h[k + n]
  BY <1>1 DEF TailFrom
<1>5. /\ q \in Seq(Nat) /\ Len(q) = Len(r) + 1 /\ q[Len(r) + 1] = t
      /\ \A n \in 1..Len(r) : q[n] = r[n]
  OBVIOUS
<1>6. Paid(g, k, b, t - Window)
  BY <1>1, LaterStays DEF Paid
<1> HIDE DEF L, g, q
<1>7. TailFrom(q, g, k)
  <2>1. Len(q) = (L + 1) - k /\ k \in 0..(L + 1)
    BY <1>1, <1>2, <1>4, <1>5
  <2>2. ASSUME NEW n \in 1..((L + 1) - k) PROVE q[n] = g[k + n]
    <3>1. CASE n \in 1..(L - k)
      <4>1. k + n \in 1..L
        BY <1>1, <1>2, <3>1
      <4> QED BY <1>3, <1>4, <1>5, <3>1, <4>1
    <3>2. CASE n = L - k + 1
      <4>1. k + n = L + 1
        BY <1>1, <1>2, <3>2
      <4> QED BY <1>3, <1>4, <1>5, <3>2, <4>1
    <3>3. n \in 1..(L - k) \/ n = L - k + 1
      BY <1>1, <1>2
    <3> QED BY <3>1, <3>2, <3>3
  <2> QED BY <1>3, <2>1, <2>2 DEF TailFrom
<1>8. Remembers(q, g, b, t - Window) /\ Len(q) <= Limit
  <2>1. k \in 0..Len(g)
    BY <1>1, <1>2, <1>3
  <2> QED BY <1>2, <1>5, <1>6, <1>7, <2>1 DEF Remembers
<1>9. Sparse(g, b, t)
  <2> SUFFICES ASSUME NEW u \in 0..t
               PROVE  Cardinality(InWindowAt(g, u))
                        <= Limit * (1 + Cardinality(InWindowAt(b, u)))
    BY DEF Sparse
  <2>1. CASE u < t
    <3>1. InWindowAt(g, u) = InWindowAt(h, u)
      BY <2>1, EarlierWindows DEF g
    <3> QED BY <3>1 DEF Sparse
  <2>2. CASE u = t
    BY <1>3, <1>8, <2>2, NowIsSparse
  <2> QED BY <2>1, <2>2
<1> QED BY <1>3, <1>8, <1>9 DEF g, q

\* A restart pays for what the process remembered.
LEMMA OneMoreRestart ==
  ASSUME NEW h \in Seq(Nat), NEW b \in Seq(Nat), NEW r, NEW t \in Nat,
         Ordered(h, t), Ordered(b, t), Sparse(h, b, t),
         Remembers(r, h, b, t - Window), Len(r) <= Limit
  PROVE  /\ Ordered(Append(b, t), t) /\ Sparse(h, Append(b, t), t)
         /\ Remembers(<<>>, h, Append(b, t), t - Window)
<1> DEFINE L == Len(h)
           B == Len(b)
           c == Append(b, t)
<1>1. PICK k \in 0..L : TailFrom(r, h, k) /\ Paid(h, k, b, t - Window)
  BY DEF Remembers
<1>2. /\ L \in Nat /\ B \in Nat /\ Limit \in Nat /\ Window \in Nat
      /\ \A i \in 1..L : h[i] <= t /\ h[i] \in Nat
  <2>1. \A i \in 1..L : h[i] \in Nat
    BY EntryOfSeq
  <2> QED BY <2>1, AccessAssumption DEF Ordered
<1>3. /\ Ordered(c, t) /\ c \in Seq(Nat) /\ Len(c) = B + 1 /\ c[B + 1] = t
      /\ \A i \in 1..B : c[i] = b[i]
  BY OrderedAppends
<1>4. Len(r) = L - k
  BY <1>1 DEF TailFrom
<1>5. \A s : Later(c, B, s) = Later(b, B, s)
  BY LaterStays
<1> HIDE DEF L, B, c
<1>6. Paid(h, L, c, t - Window)
  <2> SUFFICES ASSUME NEW s \in Int, s >= t - Window
               PROVE  Cardinality(Later(h, L, s)) <= Limit * Cardinality(Later(c, B + 1, s))
    BY <1>3 DEF Paid
  <2> DEFINE x == Cardinality(Later(h, L, s))
             y == Cardinality(Later(h, k, s))
             z == Cardinality(Later(b, B, s))
             w == Cardinality(Later(c, B + 1, s))
  <2>1. x \in Nat /\ y \in Nat /\ z \in Nat /\ w \in Nat
    BY <1>1, <1>2, LaterIsFinite
  <2>2. CASE s < t
    <3>1. w = z + 1
      <4>1. Later(c, B + 1, s) = Later(c, B, s) \cup {B + 1}
        <5>1. \A i \in 1..(B + 1) : i \in 1..B \/ i = B + 1
          BY <1>2
        <5>2. \A i \in 1..B : i \in 1..(B + 1)
          BY <1>2
        <5>3. c[B + 1] > s /\ B + 1 \in 1..(B + 1)
          BY <1>2, <1>3, <2>2
        <5> QED BY <5>1, <5>2, <5>3 DEF Later
      <4>2. B + 1 \notin Later(c, B, s)
        BY <1>2 DEF Later
      <4>3. IsFiniteSet(Later(c, B, s))
        BY <1>2, LaterIsFinite
      <4> QED BY <1>5, <4>1, <4>2, <4>3, FS_AddElement
    <3>2. y <= Limit * z
      BY <1>1 DEF Paid, B
    <3>3. x <= y + (L - k)
      BY <1>1, <1>2, LaterGrows
    <3> HIDE DEF x, y, z, w
    <3>4. Limit * (z + 1) = Limit * z + Limit /\ Limit * z \in Nat
      BY <1>2, <2>1
    <3>5. x <= Limit * (z + 1)
      BY <1>1, <1>2, <1>4, <2>1, <3>2, <3>3, <3>4
    <3>6. x <= Limit * w
      BY <3>1, <3>5
    <3> QED BY <3>6 DEF x, w
  <2>3. CASE ~(s < t)
    <3>1. Later(h, L, s) = {}
      BY <1>2, <2>3 DEF Later
    <3>2. x = 0
      BY <3>1, FS_EmptySet
    <3> HIDE DEF x, w
    <3>3. Limit * w \in Nat
      BY <1>2, <2>1
    <3>4. x <= Limit * w
      BY <3>2, <3>3
    <3> QED BY <3>4 DEF x, w
  <2> QED BY <2>2, <2>3
<1>7. Remembers(<<>>, h, c, t - Window)
  <2>1. L \in 0..L /\ Len(<<>>) = L - L /\ 1..(L - L) = {}
    BY <1>2
  <2>2. TailFrom(<<>>, h, L)
    BY <2>1 DEF TailFrom, L
  <2> QED BY <1>6, <2>1, <2>2 DEF Remembers, L
<1>8. Sparse(h, c, t)
  <2> SUFFICES ASSUME NEW u \in 0..t
               PROVE  Cardinality(InWindowAt(h, u))
                        <= Limit * (1 + Cardinality(InWindowAt(c, u)))
    BY DEF Sparse
  <2>1. CASE u < t
    <3>1. InWindowAt(c, u) = InWindowAt(b, u)
      BY <2>1, EarlierWindows DEF c
    <3> QED BY <3>1 DEF Sparse
  <2>2. CASE u = t
    <3>1. Len(<<>>) <= Limit
      BY <1>2
    <3> QED BY <1>3, <1>7, <2>2, <3>1, NowIsSparse
  <2> QED BY <2>1, <2>2
<1> QED BY <1>3, <1>7, <1>8 DEF c

\* Time goes on.
LEMMA OneTickMore ==
  ASSUME NEW h \in Seq(Nat), NEW b \in Seq(Nat), NEW r, NEW t \in Nat,
         Ordered(h, t), Ordered(b, t), Sparse(h, b, t),
         Remembers(r, h, b, t - Window), Len(r) <= Limit
  PROVE  /\ Ordered(h, t + 1) /\ Ordered(b, t + 1) /\ Sparse(h, b, t + 1)
         /\ Remembers(r, h, b, (t + 1) - Window)
<1>1. /\ Window \in Nat /\ Limit \in Nat
      /\ \A i \in 1..Len(h) : h[i] \in Nat
      /\ \A i \in 1..Len(b) : b[i] \in Nat
  BY AccessAssumption, EntryOfSeq
<1>2. Ordered(h, t + 1) /\ Ordered(b, t + 1)
  <2>1. /\ \A i \in 1..Len(h) : h[i] <= t + 1
        /\ \A i \in 1..Len(b) : b[i] <= t + 1
    BY <1>1 DEF Ordered
  <2> QED BY <2>1 DEF Ordered
<1>3. Remembers(r, h, b, (t + 1) - Window)
  <2>1. \A s \in Int : s >= (t + 1) - Window => s >= t - Window
    BY <1>1
  <2> QED BY <2>1 DEF Remembers, Paid
<1>4. Sparse(h, b, t + 1)
  <2> SUFFICES ASSUME NEW u \in 0..(t + 1)
               PROVE  Cardinality(InWindowAt(h, u))
                        <= Limit * (1 + Cardinality(InWindowAt(b, u)))
    BY DEF Sparse
  <2>1. CASE u \in 0..t
    BY <2>1 DEF Sparse
  <2>2. CASE u = t + 1
    <3>1. t + 1 \in Nat
      OBVIOUS
    <3> QED BY <1>2, <1>3, <2>2, <3>1, NowIsSparse
  <2> QED BY <2>1, <2>2
<1> QED BY <1>2, <1>3, <1>4

LEMMA BootsStayOrdered ==
  ASSUME NEW b \in Seq(Nat), NEW t \in Nat, Ordered(b, t)
  PROVE  Ordered(b, t + 1)
<1>1. \A i \in 1..Len(b) : b[i] \in Nat /\ b[i] <= t
  BY EntryOfSeq DEF Ordered
<1>2. \A i \in 1..Len(b) : b[i] <= t + 1
  BY <1>1
<1> QED BY <1>2 DEF Ordered

LEMMA NoLoginYet ==
  ASSUME NEW t \in Nat
  PROVE  /\ Ordered(<<>>, t) /\ Sparse(<<>>, <<>>, t)
         /\ Remembers(<<>>, <<>>, <<>>, t - Window)
<1>1. Cardinality({}) = 0 /\ 0 <= Limit * (1 + 0) /\ 0 <= Limit * 0
  BY FS_EmptySet, AccessAssumption
<1>2. /\ \A u : InWindowAt(<<>>, u) = {}
      /\ \A s : Later(<<>>, 0, s) = {}
  BY DEF InWindowAt, Later
<1>3. Sparse(<<>>, <<>>, t)
  BY <1>1, <1>2 DEF Sparse
<1>4. TailFrom(<<>>, <<>>, 0) /\ 0 \in 0..Len(<<>>) /\ Len(<<>>) = 0
  BY DEF TailFrom
<1>5. Paid(<<>>, 0, <<>>, t - Window)
  BY <1>1, <1>2, <1>4 DEF Paid
<1> QED BY <1>3, <1>4, <1>5 DEF Ordered, Remembers

-----------------------------------------------------------------------------
(* Types.                                                                  *)

Labels == {"idle", "password", "setup", "set", "guard", "secret", "generate"}
Jobs == [act : {"none", "login", "setup", "call"},
         word : Passwords \cup {None}]

RequestsOK ==
  /\ pc \in [Workers -> Labels] /\ job \in [Workers -> Jobs]
  /\ left \in [{"login", "other"} -> Nat]
RowsOK == hash \in Passwords \cup {None} /\ secret \in Keys \cup {None}
SessionOK == cookies \subseteq Keys /\ blind \in BOOLEAN
TimesOK ==
  /\ attempts \in [Remotes -> Seq(Nat)] /\ tried \in [Remotes -> Seq(Nat)]
  /\ boots \in Seq(Nat) /\ now \in Nat

LEMMA TypesAre == TypeOK <=> RequestsOK /\ RowsOK /\ SessionOK /\ TimesOK
  BY DEF TypeOK, RequestsOK, RowsOK, SessionOK, TimesOK, Labels, Jobs

LEMMA BeginIsTyped ==
  ASSUME RequestsOK, NEW w \in Workers, NEW k \in {"login", "other"},
         NEW p \in Labels, NEW act \in {"login", "setup", "call"},
         NEW word \in Passwords \cup {None}, Begin(w, k, p, act, word)
  PROVE  RequestsOK'
<1>1. left' \in [{"login", "other"} -> Nat]
  BY DEF Begin, RequestsOK
<1>2. [act |-> act, word |-> word] \in Jobs
  BY DEF Jobs
<1> QED BY <1>1, <1>2 DEF Begin, RequestsOK

LEMMA GotoIsTyped ==
  ASSUME RequestsOK, NEW w \in Workers, NEW p \in Labels, Goto(w, p) \/ Finish(w)
  PROVE  RequestsOK'
<1>1. NoJob \in Jobs /\ "idle" \in Labels
  BY DEF NoJob, Jobs, Labels
<1> QED BY <1>1 DEF Goto, Finish, RequestsOK

LEMMA StepIsTyped ==
  ASSUME TypeOK, NEW w \in Workers, Step(w)
  PROVE  RequestsOK' /\ RowsOK' /\ SessionOK' /\ UNCHANGED <<attempts, tried, boots, now>>
<1>0. RequestsOK /\ RowsOK /\ SessionOK
  BY TypesAre
<1>1. {"idle", "set", "secret", "generate"} \subseteq Labels
  BY DEF Labels
<1>2. job[w].word \in Passwords \cup {None}
  BY <1>0 DEF RequestsOK, Jobs
<1>3. CASE CheckPassword(w) \/ Guard(w)
  BY <1>0, <1>1, <1>3, GotoIsTyped
     DEF CheckPassword, Guard, KeepRows, KeepSession, KeepLimiter, RowsOK, SessionOK
<1>4. CASE CheckSetup(w)
  BY <1>0, <1>1, <1>4, GotoIsTyped
     DEF CheckSetup, KeepRows, KeepLimiter, RowsOK, SessionOK
<1>5. CASE SetPassword(w)
  BY <1>0, <1>1, <1>2, <1>5, GotoIsTyped
     DEF SetPassword, KeepSession, KeepLimiter, RowsOK, SessionOK
<1>6. CASE ReadSecret(w)
  <2>1. ASSUME secret # None, HandOut(w, secret) PROVE RequestsOK' /\ cookies' \subseteq Keys
    BY <1>0, <1>1, <2>1, GotoIsTyped DEF HandOut, RowsOK, SessionOK
  <2>2. RequestsOK' /\ cookies' \subseteq Keys
    BY <1>0, <1>1, <1>6, <2>1, GotoIsTyped DEF ReadSecret, SessionOK
  <2> QED BY <1>0, <1>6, <2>2 DEF ReadSecret, KeepRows, KeepLimiter, RowsOK, SessionOK
<1>7. CASE Generate(w)
  <2>1. ASSUME NEW k \in Keys, secret' = k, HandOut(w, k)
        PROVE  RequestsOK' /\ cookies' \subseteq Keys /\ secret' \in Keys
    BY <1>0, <1>1, <2>1, GotoIsTyped DEF HandOut, SessionOK
  <2>2. ASSUME UNCHANGED <<secret, cookies>>, Finish(w)
        PROVE  RequestsOK' /\ cookies' \subseteq Keys /\ secret' \in Keys \cup {None}
    BY <1>0, <1>1, <2>2, GotoIsTyped DEF RowsOK, SessionOK
  <2>3. RequestsOK' /\ cookies' \subseteq Keys /\ secret' \in Keys \cup {None}
    BY <1>7, <2>1, <2>2 DEF Generate
  <2> QED BY <1>0, <1>7, <2>3 DEF Generate, KeepLimiter, RowsOK, SessionOK
<1> QED BY <1>3, <1>4, <1>5, <1>6, <1>7 DEF Step

\* The limiter of every remote.
LimiterOK ==
  /\ Ordered(boots, now)
  /\ \A a \in Remotes :
       /\ Ordered(tried[a], now) /\ Sparse(tried[a], boots, now)
       /\ Remembers(attempts[a], tried[a], boots, now - Window)
       /\ Len(attempts[a]) <= Limit

LEMMA LoginKeepsLimiter ==
  ASSUME TypeOK, LimiterOK, NEW w \in Workers, NEW a \in Remotes,
         NEW word \in Passwords, Login(w, a, word)
  PROVE  RequestsOK' /\ TimesOK' /\ LimiterOK'
<1> DEFINE kept == Recent(a)
<1>0. RequestsOK /\ TimesOK /\ now' = now /\ boots' = boots
  BY TypesAre DEF Login
<1>1. /\ tried[a] \in Seq(Nat) /\ attempts[a] \in Seq(Nat) /\ now \in Nat
      /\ boots \in Seq(Nat) /\ now - Window \in Int /\ Limit \in Nat
  BY <1>0, AccessAssumption DEF TimesOK
<1>2. /\ Ordered(boots, now)
      /\ Ordered(tried[a], now) /\ Sparse(tried[a], boots, now)
      /\ Remembers(attempts[a], tried[a], boots, now - Window)
      /\ Len(attempts[a]) <= Limit
  BY DEF LimiterOK
<1>3. /\ kept \in Seq(Nat) /\ Len(kept) <= Len(attempts[a])
      /\ Remembers(kept, tried[a], boots, now - Window)
  BY <1>1, <1>2, KeepsTheWindow DEF Recent
<1>4. CASE Len(kept) >= Limit
  <2>1. /\ attempts' = [attempts EXCEPT ![a] = kept]
        /\ left["login"] > 0 /\ left' = [left EXCEPT !["login"] = left["login"] - 1]
        /\ UNCHANGED <<tried, pc, job>>
    BY <1>4 DEF Login
  <2>2. Len(kept) <= Limit
    BY <1>1, <1>2, <1>3
  <2> HIDE DEF kept
  <2>3. RequestsOK'
    BY <1>0, <2>1 DEF RequestsOK
  <2>4. TimesOK' /\ attempts'[a] = kept
        /\ \A b \in Remotes \ {a} : attempts'[b] = attempts[b]
    BY <1>0, <1>3, <2>1 DEF TimesOK
  <2>5. LimiterOK'
    BY <1>0, <1>3, <2>1, <2>2, <2>4 DEF LimiterOK
  <2> QED BY <2>3, <2>4, <2>5
<1>5. CASE ~(Len(kept) >= Limit)
  <2>1. /\ attempts' = [attempts EXCEPT ![a] = Append(kept, now)]
        /\ tried' = [tried EXCEPT ![a] = Append(tried[a], now)]
        /\ Begin(w, "login", "password", "login", word)
    BY <1>5 DEF Login
  <2>2. Len(kept) < Limit
    BY <1>1, <1>3, <1>5
  <2> HIDE DEF kept
  <2>3. RequestsOK'
    <3>1. "password" \in Labels
      BY DEF Labels
    <3> QED BY <1>0, <2>1, <3>1, BeginIsTyped
  <2>4. /\ Ordered(Append(tried[a], now), now)
        /\ Sparse(Append(tried[a], now), boots, now)
        /\ Remembers(Append(kept, now), Append(tried[a], now), boots, now - Window)
        /\ Len(Append(kept, now)) <= Limit
    BY <1>1, <1>2, <1>3, <2>2, OneMoreLogin
  <2>5. /\ TimesOK' /\ attempts'[a] = Append(kept, now)
        /\ tried'[a] = Append(tried[a], now)
        /\ \A b \in Remotes \ {a} : attempts'[b] = attempts[b] /\ tried'[b] = tried[b]
    BY <1>0, <1>1, <1>3, <2>1 DEF TimesOK
  <2>6. LimiterOK'
    BY <1>0, <1>2, <2>4, <2>5 DEF LimiterOK
  <2> QED BY <2>3, <2>5, <2>6
<1> QED BY <1>4, <1>5

LEMMA RestartKeepsLimiter ==
  ASSUME TypeOK, LimiterOK, Restart
  PROVE  TimesOK' /\ LimiterOK'
<1>1. /\ TimesOK /\ UNCHANGED <<tried, now>> /\ boots' = Append(boots, now)
      /\ attempts' = [a \in Remotes |-> <<>>]
  BY TypesAre DEF Restart
<1>2. TimesOK'
  BY <1>1 DEF TimesOK
<1>3. boots \in Seq(Nat) /\ now \in Nat /\ Ordered(boots, now) /\ Limit \in Nat
  BY <1>1, AccessAssumption DEF TimesOK, LimiterOK
<1>4. Ordered(boots', now')
  BY <1>1, <1>3, OrderedAppends
<1>5. ASSUME NEW a \in Remotes
      PROVE  /\ Ordered(tried[a]', now') /\ Sparse(tried[a]', boots', now')
             /\ Remembers(attempts[a]', tried[a]', boots', now' - Window)
             /\ Len(attempts[a]') <= Limit
  <2>1. tried[a] \in Seq(Nat)
    BY <1>1 DEF TimesOK
  <2>2. /\ Ordered(tried[a], now) /\ Sparse(tried[a], boots, now)
        /\ Remembers(attempts[a], tried[a], boots, now - Window)
        /\ Len(attempts[a]) <= Limit
    BY DEF LimiterOK
  <2>3. /\ Sparse(tried[a], Append(boots, now), now)
        /\ Remembers(<<>>, tried[a], Append(boots, now), now - Window)
    BY <1>3, <2>1, <2>2, OneMoreRestart
  <2>4. attempts[a]' = <<>> /\ Len(<<>>) <= Limit
    BY <1>1, <1>3
  <2> QED BY <1>1, <2>2, <2>3, <2>4
<1> QED BY <1>2, <1>4, <1>5 DEF LimiterOK

AccessIs == TypeOK /\ LimiterOK

LEMMA InitAccess == Init => AccessIs
<1> SUFFICES ASSUME Init PROVE AccessIs
  OBVIOUS
<1>1. RequestsOK
  BY AccessAssumption DEF Init, RequestsOK, Labels, Jobs, NoJob
<1>2. RowsOK /\ SessionOK /\ TimesOK
  <2>1. <<>> \in Seq(Nat) /\ 0 \in Nat
    OBVIOUS
  <2>2. TimesOK
    BY <2>1 DEF Init, TimesOK
  <2> QED BY <2>2 DEF Init, RowsOK, SessionOK
<1>3. LimiterOK
  <2>1. Len(<<>>) <= Limit
    BY AccessAssumption
  <2> QED BY <2>1, NoLoginYet DEF Init, LimiterOK
<1> QED BY <1>1, <1>2, <1>3, TypesAre DEF AccessIs

LEMMA NextAccess == AccessIs /\ [Next]_vars => AccessIs'
<1> SUFFICES ASSUME AccessIs, [Next]_vars PROVE AccessIs'
  OBVIOUS
<1>0. TypeOK /\ LimiterOK /\ RequestsOK /\ RowsOK /\ SessionOK /\ TimesOK
  BY TypesAre DEF AccessIs
<1>1. ASSUME UNCHANGED <<attempts, tried, boots, now>> PROVE LimiterOK' /\ TimesOK'
  BY <1>0, <1>1 DEF LimiterOK, TimesOK
<1>2. ASSUME NEW w \in Workers, NEW word \in Passwords, NEW a \in Remotes,
             Login(w, a, word)
      PROVE  AccessIs'
  <2>1. RequestsOK' /\ TimesOK' /\ LimiterOK'
    BY <1>0, <1>2, LoginKeepsLimiter
  <2>2. RowsOK' /\ SessionOK'
    BY <1>0, <1>2 DEF Login, KeepRows, KeepSession, RowsOK, SessionOK
  <2> QED BY <2>1, <2>2, TypesAre DEF AccessIs, TypeOK, RequestsOK, RowsOK,
             SessionOK, TimesOK, Labels, Jobs
<1>3. ASSUME NEW w \in Workers, NEW word \in Passwords, Setup(w, word)
      PROVE  RequestsOK' /\ RowsOK' /\ SessionOK' /\ UNCHANGED <<attempts, tried, boots, now>>
  <2>1. "setup" \in Labels
    BY DEF Labels
  <2> QED
    BY <1>0, <1>3, <2>1, BeginIsTyped
       DEF Setup, KeepRows, KeepSession, KeepLimiter, RowsOK, SessionOK
<1>4. ASSUME NEW w \in Workers, Call(w)
      PROVE  RequestsOK' /\ RowsOK' /\ SessionOK' /\ UNCHANGED <<attempts, tried, boots, now>>
  <2>1. "guard" \in Labels /\ "secret" \in Labels
    BY DEF Labels
  <2> QED
    BY <1>0, <1>4, <2>1, BeginIsTyped
       DEF Call, KeepRows, KeepSession, KeepLimiter, RowsOK, SessionOK
<1>5. CASE Tick
  <2>1. now' = now + 1 /\ UNCHANGED <<attempts, tried, boots, pc, job, left>>
    BY <1>5 DEF Tick
  <2>2. TimesOK'
    BY <1>0, <2>1 DEF TimesOK
  <2>3. LimiterOK'
    <3>1. /\ Ordered(boots, now) /\ boots \in Seq(Nat) /\ now \in Nat
          /\ Ordered(boots, now + 1)
      BY <1>0, BootsStayOrdered DEF LimiterOK, TimesOK
    <3>2. ASSUME NEW a \in Remotes
          PROVE  /\ Ordered(tried[a], now + 1) /\ Sparse(tried[a], boots, now + 1)
                 /\ Remembers(attempts[a], tried[a], boots, (now + 1) - Window)
                 /\ Len(attempts[a]) <= Limit
      BY <1>0, <3>1, OneTickMore DEF LimiterOK, TimesOK
    <3> QED BY <2>1, <3>1, <3>2 DEF LimiterOK
  <2>4. RequestsOK' /\ RowsOK' /\ SessionOK'
    BY <1>0, <1>5, <2>1 DEF Tick, KeepRows, KeepSession, RequestsOK, RowsOK, SessionOK
  <2> QED BY <2>2, <2>3, <2>4, TypesAre DEF AccessIs, TypeOK, RequestsOK, RowsOK,
             SessionOK, TimesOK, Labels, Jobs
<1>6. CASE Restart
  <2>1. TimesOK' /\ LimiterOK'
    BY <1>0, <1>6, RestartKeepsLimiter
  <2>2. RowsOK' /\ SessionOK'
    BY <1>0, <1>6 DEF Restart, KeepRows, KeepSession, RowsOK, SessionOK
  <2>3. RequestsOK'
    <3>1. NoJob \in Jobs /\ "idle" \in Labels
      BY DEF NoJob, Jobs, Labels
    <3> QED BY <1>0, <1>6, <3>1 DEF Restart, RequestsOK
  <2> QED BY <2>1, <2>2, <2>3 DEF AccessIs, TypeOK, RequestsOK, RowsOK,
             SessionOK, TimesOK, Labels, Jobs
<1>7. ASSUME RequestsOK', RowsOK', SessionOK', UNCHANGED <<attempts, tried, boots, now>>
      PROVE  AccessIs'
  BY <1>1, <1>7 DEF AccessIs, TypeOK, RequestsOK, RowsOK, SessionOK, TimesOK, Labels, Jobs
<1>8. CASE UNCHANGED vars
  BY <1>0, <1>7, <1>8 DEF vars, RequestsOK, RowsOK, SessionOK
<1> QED
  BY <1>0, <1>2, <1>3, <1>4, <1>5, <1>6, <1>7, <1>8, StepIsTyped DEF Next

\* However logins of a remote are spaced and interleaved, and whenever the
\* process restarts, no window of time holds more of them than the limit, and
\* the limit once more for each restart in it (api/auth.go:13-39).
THEOREM LoginsAreLimited == Spec => []AccessInv
<1>1. AccessIs => AccessInv
  BY DEF AccessIs, AccessInv, LimiterOK, RateHolds, Sparse, InWindowAt
<1> QED BY <1>1, InitAccess, NextAccess, PTL DEF Spec
=============================================================================
