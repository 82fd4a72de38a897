--------------------------- MODULE SelectionLemmas ---------------------------
(***************************************************************************)
(* Facts about the entries a loop keeps.  The n-th smallest of a set is    *)
(* there because the number of members up to i grows by one at most with   *)
(* i: the least i where it reaches n is a member.                          *)
(***************************************************************************)
EXTENDS Selections, Sequences, TLAPS, WellFoundedInduction, FiniteSetTheorems

LEMMA EntryOfSeq ==
  ASSUME NEW S, NEW seq \in Seq(S), NEW n \in 1..Len(seq)
  PROVE  seq[n] \in S
  OBVIOUS

LEMMA NatMin ==
  ASSUME NEW T \in SUBSET Nat, T # {}
  PROVE  \E x \in T : \A y \in T : x <= y
<1>1. PICK x \in T : \A y \in T : ~(<<y, x>> \in OpToRel(<, Nat))
  BY NatLessThanWellFounded, WFMin
<1>2. ASSUME NEW y \in T PROVE x <= y
  <2>1. ~(y < x)
    BY <1>1 DEF OpToRel
  <2> QED BY <2>1
<1> QED BY <1>2

\* The members of I up to i.
UpTo(I, i) == {j \in I : j <= i}

LEMMA UpToIsFinite ==
  ASSUME NEW L \in Nat, NEW I \in SUBSET (1..L), NEW i \in Nat
  PROVE  /\ IsFiniteSet(I) /\ Cardinality(I) \in Nat /\ Cardinality(I) <= L
         /\ IsFiniteSet(UpTo(I, i)) /\ Cardinality(UpTo(I, i)) \in Nat
<1>1. IsFiniteSet(1..L) /\ Cardinality(1..L) = L
  BY FS_Interval
<1>2. IsFiniteSet(I) /\ Cardinality(I) <= L
  BY <1>1, FS_Subset
<1>3. UpTo(I, i) \subseteq I
  BY DEF UpTo
<1>4. IsFiniteSet(UpTo(I, i))
  BY <1>2, <1>3, FS_Subset
<1> QED BY <1>2, <1>4, FS_CardinalityType

LEMMA UpToGrows ==
  ASSUME NEW L \in Nat, NEW I \in SUBSET (1..L), NEW i \in 1..L
  PROVE  /\ i \in I => Cardinality(UpTo(I, i)) = Cardinality(UpTo(I, i - 1)) + 1
         /\ i \notin I => UpTo(I, i) = UpTo(I, i - 1)
<1>1. i - 1 \in Nat /\ \A j \in I : j <= i <=> (j <= i - 1 \/ j = i)
  OBVIOUS
<1>2. i \notin I => UpTo(I, i) = UpTo(I, i - 1)
  BY <1>1 DEF UpTo
<1>3. ASSUME i \in I
      PROVE  Cardinality(UpTo(I, i)) = Cardinality(UpTo(I, i - 1)) + 1
  <2>1. UpTo(I, i) = UpTo(I, i - 1) \cup {i}
    BY <1>1, <1>3 DEF UpTo
  <2>2. i \notin UpTo(I, i - 1)
    BY DEF UpTo
  <2>3. IsFiniteSet(UpTo(I, i - 1))
    BY <1>1, UpToIsFinite
  <2> QED BY <2>1, <2>2, <2>3, FS_AddElement
<1> QED BY <1>2, <1>3

LEMMA UpToEnds ==
  ASSUME NEW L \in Nat, NEW I \in SUBSET (1..L)
  PROVE  UpTo(I, L) = I /\ Cardinality(UpTo(I, 0)) = 0
<1>1. \A j \in I : j <= L /\ ~(j <= 0)
  OBVIOUS
<1>2. UpTo(I, L) = I /\ UpTo(I, 0) = {}
  BY <1>1 DEF UpTo
<1> QED BY <1>2, FS_EmptySet

LEMMA NthIsMember ==
  ASSUME NEW L \in Nat, NEW I \in SUBSET (1..L), NEW n \in 1..Cardinality(I)
  PROVE  Nth(I, n) \in I /\ Cardinality(UpTo(I, Nth(I, n))) = n
<1>0. Cardinality(I) \in Nat /\ n \in Nat
  BY UpToIsFinite
<1> DEFINE Count(i) == Cardinality(UpTo(I, i))
           T == {i \in 0..L : Count(i) >= n}
<1>1. L \in T /\ T \in SUBSET Nat
  BY <1>0, UpToEnds
<1>2. PICK i \in T : \A y \in T : i <= y
  <2> HIDE DEF T
  <2> QED BY <1>1, NatMin
<1>3. i \in 0..L /\ Count(i) >= n /\ Count(i) \in Nat
  BY UpToIsFinite
<1>4. Count(0) = 0
  BY UpToEnds
<1>5. i \in 1..L
  BY <1>0, <1>3, <1>4
<1>6. i - 1 \in 0..L /\ i - 1 \in Nat /\ ~(i <= i - 1)
  BY <1>5
<1>7. Count(i - 1) < n /\ Count(i - 1) \in Nat
  <2>1. i - 1 \notin T
    BY <1>2, <1>6
  <2>2. Count(i - 1) \in Nat
    BY <1>6, UpToIsFinite
  <2> QED BY <1>0, <1>6, <2>1, <2>2
<1>8. i \in I /\ Count(i) = n
  <2>1. /\ i \in I => Count(i) = Count(i - 1) + 1
        /\ i \notin I => Count(i) = Count(i - 1)
    BY <1>5, UpToGrows
  <2> HIDE DEF Count
  <2> QED BY <1>0, <1>3, <1>7, <2>1
<1>9. \E j \in I : Cardinality(UpTo(I, j)) = n
  BY <1>8
<1> QED BY <1>9 DEF Nth, UpTo

\* What is kept is a sequence of the same kind, as long as there are indices,
\* and never longer.
LEMMA SelectAtIsSeq ==
  ASSUME NEW S, NEW seq \in Seq(S), NEW I \in SUBSET (DOMAIN seq)
  PROVE  /\ SelectAt(seq, I) \in Seq(S)
         /\ Len(SelectAt(seq, I)) = Cardinality(I)
         /\ Len(SelectAt(seq, I)) <= Len(seq)
         /\ SelectAt(seq, I) = <<>> <=> I = {}
<1>1. Len(seq) \in Nat /\ I \in SUBSET (1..Len(seq))
  OBVIOUS
<1>2. IsFiniteSet(I) /\ Cardinality(I) \in Nat /\ Cardinality(I) <= Len(seq)
  BY <1>1, UpToIsFinite
<1>3. ASSUME NEW n \in 1..Cardinality(I) PROVE seq[Nth(I, n)] \in S
  <2>1. Nth(I, n) \in I
    BY <1>1, NthIsMember
  <2> QED BY <2>1
<1>4. SelectAt(seq, I) \in [1..Cardinality(I) -> S]
  BY <1>3 DEF SelectAt
<1>5. SelectAt(seq, I) \in Seq(S) /\ Len(SelectAt(seq, I)) = Cardinality(I)
  BY <1>2, <1>4
<1>6. Cardinality(I) = 0 <=> I = {}
  BY <1>2, FS_EmptySet
<1> QED BY <1>2, <1>5, <1>6
\* What is kept of a list from an index on is its tail.
LEMMA SelectAtIsTail ==
  ASSUME NEW S, NEW seq \in Seq(S), NEW k \in 0..Len(seq)
  PROVE  LET kept == SelectAt(seq, (k + 1)..Len(seq)) IN
         /\ kept \in Seq(S) /\ Len(kept) = Len(seq) - k
         /\ \A n \in 1..(Len(seq) - k) : kept[n] = seq[k + n]
<1> DEFINE L == Len(seq)
           I == (k + 1)..L
<1>0. L \in Nat /\ k \in Nat /\ k <= L
  OBVIOUS
<1> HIDE DEF L
<1>1. I \in SUBSET (1..L) /\ k + 1 \in Int /\ L \in Int
  BY <1>0
<1>2. Cardinality(I) = L - k
  <2>1. Cardinality(I) = IF k + 1 > L THEN 0 ELSE L - (k + 1) + 1
    BY <1>1, FS_Interval
  <2> QED BY <1>0, <2>1
<1>3. ASSUME NEW n \in 1..(L - k) PROVE Nth(I, n) = k + n
  <2> DEFINE x == Nth(I, n)
  <2>1. x \in I /\ Cardinality(UpTo(I, x)) = n
    <3>1. n \in 1..Cardinality(I)
      BY <1>2
    <3> HIDE DEF I
    <3> QED BY <1>0, <1>1, <3>1, NthIsMember
  <2> HIDE DEF x
  <2>2. UpTo(I, x) = (k + 1)..x
    BY <1>0, <2>1 DEF UpTo
  <2>3. x \in Int /\ k + 1 <= x
    BY <1>0, <2>1
  <2>4. Cardinality((k + 1)..x) = IF k + 1 > x THEN 0 ELSE x - (k + 1) + 1
    BY <1>1, <2>3, FS_Interval
  <2>5. x = k + n
    BY <1>0, <2>1, <2>2, <2>3, <2>4
  <2> QED BY <2>5 DEF x
<1>4. SelectAt(seq, I) \in Seq(S)
  BY <1>1, SelectAtIsSeq DEF L
<1>5. SelectAt(seq, I) = [n \in 1..(L - k) |-> seq[k + n]]
  <2>1. SelectAt(seq, I) = [n \in 1..(L - k) |-> seq[Nth(I, n)]]
    BY <1>2 DEF SelectAt
  <2> HIDE DEF I
  <2> QED BY <1>3, <2>1
<1> HIDE DEF I
<1>6. Len(SelectAt(seq, I)) = L - k
  BY <1>0, <1>2, <1>5 DEF SelectAt
<1>7. \A n \in 1..(L - k) : SelectAt(seq, I)[n] = seq[k + n]
  BY <1>5
<1> QED BY <1>4, <1>6, <1>7 DEF I, L
=============================================================================
