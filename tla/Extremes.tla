------------------------------ MODULE Extremes ------------------------------
(***************************************************************************)
(* The largest and the smallest element of a set of instants: what         *)
(* ORDER BY ... LIMIT 1, max() and sorted() find in the code.  The other   *)
(* proofs rest on these facts alone.                                       *)
(***************************************************************************)
EXTENDS Integers, FiniteSetsExt, TLAPS, WellFoundedInduction

\* A nonempty set of natural numbers has a smallest element.  (Used with a set
\* of counterexamples, this is induction.)
LEMMA MinOfNaturals ==
    ASSUME NEW T \in SUBSET Nat, T # {}
    PROVE  /\ Min(T) \in T
           /\ \A t \in T : Min(T) <= t
<1> DEFINE Less == OpToRel(<, Nat)
<1>1. PICK d \in T : \A e \in T : <<e, d>> \notin Less
  <2>1. IsWellFoundedOn(Less, Nat)
    BY NatLessThanWellFounded
  <2> HIDE DEF Less
  <2>2. QED
    BY <2>1, WFMin
<1>2. ASSUME NEW e \in T
      PROVE  d <= e
  <2>1. <<e, d>> \notin Less /\ e \in Nat /\ d \in Nat
    BY <1>1
  <2>2. ~(e < d)
    BY <2>1 DEF OpToRel
  <2> HIDE DEF Less
  <2>3. QED
    BY <2>1, <2>2
<1>3. QED
    BY <1>2 DEF Min

\* A nonempty set of numbers with an upper bound has a largest element.
LEMMA MaxOfBounded ==
    ASSUME NEW b \in Nat, NEW T \in SUBSET (1..b), T # {}
    PROVE  /\ Max(T) \in T
           /\ \A t \in T : t <= Max(T)
<1> DEFINE D == {b - t : t \in T}
<1>1. D \in SUBSET Nat /\ D # {}
  <2>1. \A t \in T : b - t \in Nat
    OBVIOUS
  <2>2. PICK t \in T : TRUE
    OBVIOUS
  <2>3. b - t \in D
    OBVIOUS
  <2>4. QED
    BY <2>1, <2>3
<1>2. Min(D) \in D /\ \A e \in D : Min(D) <= e
  <2> HIDE DEF D
  <2>1. QED
    BY <1>1, MinOfNaturals
<1>3. PICK m \in T : Min(D) = b - m
    BY <1>2
<1>4. ASSUME NEW t \in T
      PROVE  t <= m
  <2>1. b - m <= b - t
    BY <1>2, <1>3
  <2>2. QED
    BY <2>1
<1>5. QED
    BY <1>4 DEF Max

\* The same of numbers that may be zero.
LEMMA MaxUpTo ==
    ASSUME NEW b \in Nat, NEW T \in SUBSET (0..b), T # {}
    PROVE  /\ Max(T) \in T
           /\ \A t \in T : t <= Max(T)
<1> DEFINE D == {b - t : t \in T}
<1>1. D \in SUBSET Nat /\ D # {}
  <2>1. \A t \in T : b - t \in Nat
    OBVIOUS
  <2>2. PICK t \in T : TRUE
    OBVIOUS
  <2>3. b - t \in D
    OBVIOUS
  <2>4. QED
    BY <2>1, <2>3
<1>2. Min(D) \in D /\ \A e \in D : Min(D) <= e
  <2> HIDE DEF D
  <2>1. QED
    BY <1>1, MinOfNaturals
<1>3. PICK m \in T : Min(D) = b - m
    BY <1>2
<1>4. ASSUME NEW t \in T
      PROVE  t <= m
  <2>1. b - m <= b - t
    BY <1>2, <1>3
  <2>2. QED
    BY <2>1
<1>5. QED
    BY <1>4 DEF Max
=============================================================================
