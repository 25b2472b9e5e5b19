-------------------------------- MODULE RowIds --------------------------------
(***************************************************************************)
(* Ids and sizes.  SQLite gives an INTEGER PRIMARY KEY the largest id of   *)
(* the table plus one; the modules of the legacy board choose it as below, *)
(* and it never is the id of a row that is there.  The lemmas on sets of   *)
(* ids and their sizes are those that the proofs about tables, queues and  *)
(* tiles share.                                                            *)
(***************************************************************************)
EXTENDS FiniteSetTheorems, Naturals, WellFoundedInduction, TLAPS

\* A finite table has a row with the largest id.
LEMMA LargestId ==
  ASSUME NEW N \in Nat, NEW S, S \subseteq 1..N, S # {}
  PROVE  \E i \in S : \A j \in S : j <= i
<1> DEFINE D == {N - i : i \in S}
<1>1. D \subseteq Nat
  OBVIOUS
<1>2. D # {}
  <2>1. PICK i \in S : TRUE
    OBVIOUS
  <2>2. N - i \in D
    BY <2>1
  <2> QED
    BY <2>2
<1>3. PICK d \in D : \A e \in D : ~(<<e, d>> \in OpToRel(<, Nat))
  BY <1>1, <1>2, NatLessThanWellFounded, WFMin
<1>4. PICK i \in S : d = N - i
  BY <1>3
<1>5. ASSUME NEW j \in S PROVE j <= i
  <2>1. ~(<<N - j, d>> \in OpToRel(<, Nat))
    BY <1>3
  <2>2. N - j \in Nat /\ d \in Nat
    BY <1>1
  <2>3. ~(N - j < d)
    BY <2>1, <2>2 DEF OpToRel
  <2> QED
    BY <2>3, <1>4
<1> QED
  BY <1>5

NewId(S) == IF S = {} THEN 1 ELSE 1 + CHOOSE i \in S : \A j \in S : j <= i

\* A new row takes no row's place.
LEMMA NewIdIsFree ==
  ASSUME NEW N \in Nat, NEW S, S \subseteq 1..N
  PROVE  NewId(S) \in Nat \ {0} /\ NewId(S) \notin S
<1>1. CASE S = {}
  BY <1>1 DEF NewId
<1>2. CASE S # {}
  <2> DEFINE m == CHOOSE i \in S : \A j \in S : j <= i
  <2>1. m \in S /\ \A j \in S : j <= m
    BY <1>2, LargestId
  <2>2. NewId(S) = 1 + m
    BY <1>2 DEF NewId
  <2> HIDE DEF m
  <2> QED
    BY <2>1, <2>2
<1> QED
  BY <1>1, <1>2

\* Among some ids one is the smallest.
LEMMA SmallestId ==
  ASSUME NEW S, S \subseteq Nat, S # {}
  PROVE  \E i \in S : \A j \in S : i <= j
<1>1. PICK i \in S : \A j \in S : ~(<<j, i>> \in OpToRel(<, Nat))
  BY NatLessThanWellFounded, WFMin
<1>2. ASSUME NEW j \in S PROVE i <= j
  <2>1. ~(j < i)
    BY <1>1 DEF OpToRel
  <2> QED
    BY <2>1
<1> QED
  BY <1>2

\* The parts of a finite set.
LEMMA PartsAddUp ==
  ASSUME NEW S, IsFiniteSet(S), NEW A, NEW B, S = A \cup B, A \cap B = {}
  PROVE  /\ IsFiniteSet(A) /\ IsFiniteSet(B)
         /\ Cardinality(S) \in Nat /\ Cardinality(A) \in Nat /\ Cardinality(B) \in Nat
         /\ Cardinality(S) = Cardinality(A) + Cardinality(B)
<1>1. IsFiniteSet(A) /\ IsFiniteSet(B)
  BY FS_Subset
<1>2. Cardinality(A \cup B) = Cardinality(A) + Cardinality(B) - Cardinality(A \cap B)
  BY <1>1, FS_Union
<1>3. Cardinality(A \cap B) = 0
  BY FS_EmptySet
<1>4. Cardinality(S) \in Nat /\ Cardinality(A) \in Nat /\ Cardinality(B) \in Nat
  BY <1>1, FS_CardinalityType
<1> QED
  BY <1>1, <1>2, <1>3, <1>4

\* Fewer ids, and those that lack one.
LEMMA FewerIds ==
  ASSUME NEW S, IsFiniteSet(S), NEW A, A \subseteq S
  PROVE  /\ IsFiniteSet(A) /\ Cardinality(S) \in Nat /\ Cardinality(A) \in Nat
         /\ Cardinality(A) <= Cardinality(S)
         /\ A # S => Cardinality(A) < Cardinality(S)
  BY FS_Subset, FS_CardinalityType
==============================================================================
