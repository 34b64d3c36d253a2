------------------------------ MODULE Counting ------------------------------
(***************************************************************************)
(* Lemmas that the proofs about the components share: how the size of a    *)
(* set or the number of entries of a sequence changes when one element     *)
(* does, and induction over the natural numbers with a set in the place of *)
(* the predicate.                                                          *)
(***************************************************************************)
EXTENDS Integers, Sequences, FiniteSets, FiniteSetTheorems, FunctionTheorems,
        WellFoundedInduction, TLAPS

-----------------------------------------------------------------------------
(* A set that differs from another in x at most *)

(* Its size differs by what is said of x. *)
LEMMA SizeChange ==
  ASSUME NEW T, NEW U, NEW x, IsFiniteSet(T), T \ {x} = U \ {x}
  PROVE  /\ IsFiniteSet(U) /\ Cardinality(T) \in Nat /\ Cardinality(U) \in Nat
         /\ Cardinality(U) = Cardinality(T) - (IF x \in T THEN 1 ELSE 0)
                                            + (IF x \in U THEN 1 ELSE 0)
<1>1. /\ Cardinality(T) \in Nat /\ IsFiniteSet(T \ {x})
      /\ Cardinality(T \ {x}) = IF x \in T THEN Cardinality(T) - 1 ELSE Cardinality(T)
  BY FS_CardinalityType, FS_RemoveElement
<1>2. CASE x \in U
  <2>1. U = (T \ {x}) \cup {x}
    BY <1>2
  <2>2. IsFiniteSet(U) /\ Cardinality(U) = Cardinality(T \ {x}) + 1
    BY <1>1, <2>1, FS_AddElement
  <2> QED  BY <1>1, <1>2, <2>2, FS_CardinalityType
<1>3. CASE x \notin U
  <2>1. U = T \ {x}
    BY <1>3
  <2> QED  BY <1>1, <1>3, <2>1, FS_CardinalityType
<1> QED  BY <1>2, <1>3

(* A union has no more elements than its parts together. *)
LEMMA AtMostSum ==
  ASSUME NEW S, NEW T, IsFiniteSet(S), IsFiniteSet(T)
  PROVE  /\ IsFiniteSet(S \cup T) /\ Cardinality(S \cup T) \in Nat
         /\ Cardinality(S \cup T) <= Cardinality(S) + Cardinality(T)
<1>1. /\ IsFiniteSet(S \cup T) /\ IsFiniteSet(S \cap T)
      /\ Cardinality(S \cup T) = Cardinality(S) + Cardinality(T) - Cardinality(S \cap T)
  BY FS_Union, FS_Intersection
<1>2. /\ Cardinality(S) \in Nat /\ Cardinality(T) \in Nat /\ Cardinality(S \cap T) \in Nat
      /\ Cardinality(S \cup T) \in Nat
  BY <1>1, FS_CardinalityType
<1> QED  BY <1>1, <1>2

-----------------------------------------------------------------------------
(* The number of entries of s that are in M *)
In(s, M) == Cardinality({i \in DOMAIN s : s[i] \in M})

(* It is a number, zero exactly if there is no such entry. *)
LEMMA InType ==
  ASSUME NEW S, NEW s \in Seq(S), NEW M
  PROVE  /\ IsFiniteSet({i \in DOMAIN s : s[i] \in M})
         /\ In(s, M) \in Nat
         /\ In(s, M) = 0 <=> \A i \in DOMAIN s : s[i] \notin M
<1> DEFINE T == {i \in DOMAIN s : s[i] \in M}
<1>1. DOMAIN s = 1..Len(s) /\ Len(s) \in Nat
  OBVIOUS
<1>2. T \in SUBSET Nat /\ \A i \in T : i <= Len(s)
  BY <1>1
<1>3. IsFiniteSet(T)
  <2> HIDE DEF T
  <2> QED  BY <1>1, <1>2, FS_BoundedSetOfNaturals
<1>4. Cardinality(T) \in Nat /\ (Cardinality(T) = 0 <=> T = {})
  BY <1>3, FS_CardinalityType, FS_EmptySet
<1> QED  BY <1>3, <1>4 DEF In

(* Entries of a smaller set are no more. *)
LEMMA InSubset ==
  ASSUME NEW S, NEW s \in Seq(S), NEW M, NEW N, M \cap S \subseteq N
  PROVE  In(s, M) <= In(s, N)
<1> DEFINE T == {i \in DOMAIN s : s[i] \in M}
           U == {i \in DOMAIN s : s[i] \in N}
<1>1. \A i \in DOMAIN s : s[i] \in S
  OBVIOUS
<1>2. T \in SUBSET U
  BY <1>1
<1>3. IsFiniteSet(U)
  BY InType
<1> HIDE DEF T, U
<1>4. Cardinality(T) <= Cardinality(U)
  BY <1>2, <1>3, FS_Subset
<1> QED  BY <1>4 DEF T, U, In

(* An entry is counted. *)
LEMMA InPositive ==
  ASSUME NEW S, NEW s \in Seq(S), NEW M, NEW i \in DOMAIN s, s[i] \in M
  PROVE  In(s, M) > 0
<1>1. In(s, M) \in Nat /\ In(s, M) # 0
  BY InType
<1> QED  BY <1>1

(* An empty sequence has no entries. *)
LEMMA InEmpty ==
  ASSUME NEW M
  PROVE  In(<<>>, M) = 0
<1>1. {i \in DOMAIN << >> : << >>[i] \in M} = {}
  OBVIOUS
<1> QED  BY <1>1, FS_EmptySet DEF In

(* Append adds one entry. *)
LEMMA InAppend ==
  ASSUME NEW S, NEW s \in Seq(S), NEW m \in S, NEW M
  PROVE  In(Append(s, m), M) = In(s, M) + (IF m \in M THEN 1 ELSE 0)
<1> DEFINE r == Append(s, m)
           T == {i \in DOMAIN s : s[i] \in M}
           U == {i \in DOMAIN r : r[i] \in M}
           x == Len(s) + 1
<1>1. x \notin T /\ (x \in U <=> m \in M)
  OBVIOUS
<1>2. T \ {x} = U \ {x}
  OBVIOUS
<1>3. IsFiniteSet(T)
  BY InType
<1> HIDE DEF T, U, x
<1>4. /\ Cardinality(T) \in Nat /\ Cardinality(U) \in Nat
      /\ Cardinality(U) = Cardinality(T) - (IF x \in T THEN 1 ELSE 0)
                                         + (IF x \in U THEN 1 ELSE 0)
  BY <1>2, <1>3, SizeChange
<1>5. Cardinality(U) = Cardinality(T) + (IF m \in M THEN 1 ELSE 0)
  BY <1>1, <1>4
<1> QED  BY <1>5 DEF In, T, U

(* Leaving out the entry at k takes one away. *)
LEMMA InWithout ==
  ASSUME NEW S, NEW s \in Seq(S), NEW r \in Seq(S), NEW k \in DOMAIN s, NEW M,
         Len(r) = Len(s) - 1,
         \A i \in DOMAIN r : r[i] = IF i < k THEN s[i] ELSE s[i + 1]
  PROVE  In(r, M) = In(s, M) - (IF s[k] \in M THEN 1 ELSE 0)
<1> DEFINE T == {i \in DOMAIN s : s[i] \in M}
           U == {i \in DOMAIN r : r[i] \in M}
           f == [i \in U |-> IF i < k THEN i ELSE i + 1]
<1>1. DOMAIN s = 1..Len(s) /\ DOMAIN r = 1..(Len(s) - 1) /\ Len(s) \in Nat /\ k \in 1..Len(s)
  OBVIOUS
<1>2. IsFiniteSet(T) /\ IsFiniteSet(U)
  BY InType
<1>3. f \in [U -> T \ {k}]
  BY <1>1
<1>4. \A i, j \in U : f[i] = f[j] => i = j
  BY <1>1
<1>5. \A j \in T \ {k} : \E i \in U : f[i] = j
  <2> TAKE j \in T \ {k}
  <2>1. CASE j < k
    <3>1. j \in U /\ f[j] = j
      BY <1>1, <2>1
    <3> QED  BY <3>1
  <2>2. CASE j > k
    <3>1. j - 1 \in U /\ f[j - 1] = j
      BY <1>1, <2>2
    <3> QED  BY <3>1
  <2> QED  BY <1>1, <2>1, <2>2
<1> HIDE DEF f, T, U
<1>6. f \in Bijection(U, T \ {k})
  BY <1>3, <1>4, <1>5 DEF Bijection, Injection, Surjection, IsInjective
<1>7. Cardinality(T \ {k}) = Cardinality(U)
  BY <1>2, <1>6, FS_Bijection DEF ExistsBijection
<1>8. Cardinality(T \ {k}) = IF k \in T THEN Cardinality(T) - 1 ELSE Cardinality(T)
  BY <1>2, FS_RemoveElement
<1>9. k \in T <=> s[k] \in M
  BY DEF T
<1>10. Cardinality(T) \in Nat
  BY <1>2, FS_CardinalityType
<1>11. Cardinality(U) = Cardinality(T) - (IF s[k] \in M THEN 1 ELSE 0)
  BY <1>7, <1>8, <1>9, <1>10
<1> QED  BY <1>11 DEF In, T, U

(* So does Tail. *)
LEMMA InTail ==
  ASSUME NEW S, NEW s \in Seq(S), s # <<>>, NEW M
  PROVE  In(Tail(s), M) = In(s, M) - (IF Head(s) \in M THEN 1 ELSE 0)
<1> DEFINE r == Tail(s)
<1>1. 1 \in DOMAIN s /\ Head(s) = s[1] /\ r \in Seq(S) /\ Len(r) = Len(s) - 1
  OBVIOUS
<1>2. \A i \in DOMAIN r : r[i] = IF i < 1 THEN s[i] ELSE s[i + 1]
  OBVIOUS
<1> HIDE DEF r
<1>3. In(r, M) = In(s, M) - (IF s[1] \in M THEN 1 ELSE 0)
  BY <1>1, <1>2, InWithout
<1> QED  BY <1>1, <1>3 DEF r

-----------------------------------------------------------------------------
(* Induction over the natural numbers: a set that holds 0 and with n also  *)
(* n + 1 holds them all.                                                   *)
LEMMA NatSetInduction ==
  ASSUME NEW S, 0 \in S, \A n \in Nat : n \in S => n + 1 \in S
  PROVE  Nat \subseteq S
<1> DEFINE R == OpToRel(<, Nat)
           T == Nat \ S
<1>1. SUFFICES ASSUME T # {}  PROVE FALSE
  OBVIOUS
<1>2. IsWellFoundedOn(R, Nat)
  BY NatLessThanWellFounded
<1>3. \A x, y \in Nat : <<y, x>> \in R <=> y < x
  BY DEF OpToRel
<1>4. T \subseteq Nat
  OBVIOUS
<1> HIDE DEF R
<1>5. PICK x \in T : \A y \in T : ~(<<y, x>> \in R)
  BY <1>1, <1>2, <1>4, WFMin
<1>6. x \in Nat /\ x # 0 /\ x - 1 \in Nat /\ x - 1 < x
  OBVIOUS
<1>7. x - 1 \in T
  BY <1>6
<1>8. <<x - 1, x>> \in R
  BY <1>3, <1>6
<1> QED  BY <1>5, <1>7, <1>8
=============================================================================
