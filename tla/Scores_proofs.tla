---------------------------- MODULE Scores_proofs ----------------------------
(***************************************************************************)
(* What the scores are built from, for every input: sums and means over    *)
(* finite sets, shares of One rounded down, the F1 scores, the percentiles *)
(* of the latencies and the weighted layers.                               *)
(*                                                                         *)
(* The folds of the community modules are recursive functions.  What they  *)
(* compute is proved by induction on the natural numbers in the form "a    *)
(* set of naturals that has 0 and with n also n + 1 has them all", which   *)
(* needs no induction scheme over predicates.                              *)
(***************************************************************************)
EXTENDS Weights, FiniteSetTheorems, SequenceTheorems, TLAPS

----------------------------------------------------------------------------
(* Induction over sets.                                                    *)

LEMMA NaturalInduction ==
  ASSUME NEW T, T \subseteq Nat, 0 \in T, \A n \in T : n + 1 \in T
  PROVE  T = Nat
<1> SUFFICES ASSUME Nat \ T # {} PROVE FALSE
  OBVIOUS
<1>1. PICK m \in Nat \ T : \A k \in Nat \ T : ~(<<k, m>> \in OpToRel(<, Nat))
  BY NatLessThanWellFounded, WFMin
<1>2. \A k \in Nat \ T : ~(k < m)
  BY <1>1 DEF OpToRel
<1>3. m # 0
  OBVIOUS
<1>4. m - 1 \in Nat /\ m - 1 < m
  BY <1>3
<1>5. m - 1 \in T
  BY <1>2, <1>4
<1> QED
  BY <1>5

(* A family of subsets of S that has the empty set, and each set it has    *)
(* also with one element of S more, has S.                                 *)
LEMMA SetInduction ==
  ASSUME NEW S, IsFiniteSet(S), NEW P, {} \in P,
         \A s \in SUBSET S : \A x \in S \ s : s \in P => s \cup {x} \in P
  PROVE  S \in P
<1> DEFINE T == {n \in Nat : \A s \in SUBSET S : Cardinality(s) = n => s \in P}
<1>1. \A s \in SUBSET S : IsFiniteSet(s) /\ Cardinality(s) \in Nat
  BY FS_Subset, FS_CardinalityType
<1>2. 0 \in T
  BY <1>1, FS_EmptySet
<1>3. ASSUME NEW n \in T PROVE n + 1 \in T
  <2>1. SUFFICES ASSUME NEW s \in SUBSET S, Cardinality(s) = n + 1 PROVE s \in P
    OBVIOUS
  <2>2. s # {}
    <3>1. Cardinality({}) = 0 /\ n \in Nat /\ n + 1 # 0
      BY FS_EmptySet
    <3> QED
      BY <2>1, <3>1
  <2>3. PICK x \in s : TRUE
    BY <2>2
  <2>4. Cardinality(s \ {x}) = n
    BY <1>1, <2>1, FS_RemoveElement
  <2>5. s \ {x} \in P
    BY <2>4
  <2> QED
    BY <2>5
<1>4. T = Nat
  <2> HIDE DEF T
  <2>1. T \subseteq Nat
    BY DEF T
  <2> QED
    BY <1>2, <1>3, <2>1, NaturalInduction
<1> QED
  BY <1>1, <1>4

----------------------------------------------------------------------------
(* Sums: SumFunctionOnSet(w, S) adds w[x] for all x in S.                  *)

First(s) == CHOOSE x \in s : TRUE

\* What the fold over S computes for the subset s of S.
Added(w, h, s) == IF s = {} THEN 0 ELSE w[First(s)] + h[s \ {First(s)}]
IsFold(w, S, h) == h = [s \in SUBSET S |-> Added(w, h, s)]

LEMMA SumIsFold == ASSUME NEW w, NEW S
                   PROVE  SumFunctionOnSet(w, S) = (CHOOSE h : IsFold(w, S, h))[S]
  BY DEF SumFunctionOnSet, FoldFunctionOnSet, MapThenFoldSet, IsFold, Added, First

LEMMA FoldExists ==
  ASSUME NEW S, IsFiniteSet(S), NEW w, \A x \in S : w[x] \in Int
  PROVE  \E h \in [SUBSET S -> Int] : IsFold(w, S, h)
<1> DEFINE Small(n) == {s \in SUBSET S : Cardinality(s) <= n}
           Folds(n, h) == h \in [Small(n) -> Int] /\ \A s \in Small(n) : h[s] = Added(w, h, s)
           T == {n \in Nat : \E h : Folds(n, h)}
<1>1. \A s \in SUBSET S : IsFiniteSet(s) /\ Cardinality(s) \in Nat
  BY FS_Subset, FS_CardinalityType
<1>2. \A s \in SUBSET S : s # {} => First(s) \in s
  BY DEF First
<1>3. 0 \in T
  <2> DEFINE h == [s \in Small(0) |-> 0]
  <2>1. \A s \in Small(0) : s = {}
    BY <1>1, FS_EmptySet
  <2>2. Folds(0, h)
    BY <2>1 DEF Added
  <2> QED
    BY <2>2
<1>4. ASSUME NEW n \in T PROVE n + 1 \in T
  <2>1. PICK g : Folds(n, g)
    OBVIOUS
  <2> DEFINE h == [s \in Small(n + 1) |-> Added(w, g, s)]
  <2>2. ASSUME NEW s \in Small(n + 1), s # {} PROVE First(s) \in S /\ s \ {First(s)} \in Small(n)
    BY <1>1, <1>2, <2>2, FS_RemoveElement
  <2>3. ASSUME NEW s \in Small(n + 1) PROVE Added(w, g, s) \in Int
    BY <2>1, <2>2, <2>3 DEF Added
  <2>4. \A s \in Small(n) : s \in Small(n + 1) /\ h[s] = g[s]
    BY <1>1, <2>1
  <2>5. ASSUME NEW s \in Small(n + 1) PROVE h[s] = Added(w, h, s)
    BY <2>2, <2>4, <2>5 DEF Added
  <2>6. Folds(n + 1, h)
    BY <2>3, <2>5
  <2> HIDE DEF h, Folds
  <2> QED
    BY <2>6
<1>5. T = Nat
  <2> HIDE DEF T
  <2>1. T \subseteq Nat
    BY DEF T
  <2> QED
    BY <1>3, <1>4, <2>1, NaturalInduction
<1>6. Cardinality(S) \in Nat /\ Small(Cardinality(S)) = SUBSET S
  BY <1>1, FS_Subset, FS_CardinalityType
<1>7. PICK h : Folds(Cardinality(S), h)
  BY <1>5, <1>6
<1>8. h \in [SUBSET S -> Int] /\ \A s \in SUBSET S : h[s] = Added(w, h, s)
  BY <1>6, <1>7
<1>9. h = [s \in SUBSET S |-> Added(w, h, s)]
  BY <1>8
<1> QED
  BY <1>8, <1>9 DEF IsFold

\* The same element is taken first whatever set is being folded.
LEMMA FoldsAgree ==
  ASSUME NEW S, IsFiniteSet(S), NEW R \in SUBSET S, NEW w, NEW g, NEW h,
         IsFold(w, S, g), IsFold(w, R, h)
  PROVE  g[R] = h[R]
<1> DEFINE T == {n \in Nat : \A s \in SUBSET R : Cardinality(s) = n => g[s] = h[s]}
<1>1. \A s \in SUBSET R : IsFiniteSet(s) /\ Cardinality(s) \in Nat
  BY FS_Subset, FS_CardinalityType
<1>2. \A s \in SUBSET R : s # {} => First(s) \in s
  BY DEF First
<1>3. \A s \in SUBSET R : g[s] = Added(w, g, s) /\ h[s] = Added(w, h, s)
  BY DEF IsFold
<1>4. 0 \in T
  <2>1. \A s \in SUBSET R : Cardinality(s) = 0 => s = {}
    BY <1>1, FS_EmptySet
  <2> QED
    BY <1>3, <2>1 DEF Added
<1>5. ASSUME NEW n \in T PROVE n + 1 \in T
  <2>1. SUFFICES ASSUME NEW s \in SUBSET R, Cardinality(s) = n + 1 PROVE g[s] = h[s]
    OBVIOUS
  <2>2. s # {}
    <3>1. Cardinality({}) = 0 /\ n \in Nat /\ n + 1 # 0
      BY FS_EmptySet
    <3> QED
      BY <2>1, <3>1
  <2>3. s \ {First(s)} \in SUBSET R /\ Cardinality(s \ {First(s)}) = n
    BY <1>1, <1>2, <2>1, <2>2, FS_RemoveElement
  <2>4. g[s \ {First(s)}] = h[s \ {First(s)}]
    BY <2>3
  <2> QED
    BY <1>3, <2>2, <2>4 DEF Added
<1>6. T = Nat
  <2> HIDE DEF T
  <2>1. T \subseteq Nat
    BY DEF T
  <2> QED
    BY <1>4, <1>5, <2>1, NaturalInduction
<1>7. R \in SUBSET R /\ Cardinality(R) \in Nat
  BY <1>1
<1> QED
  BY <1>6, <1>7

\* Every value summed is an integer.
Summable(w, S) == IsFiniteSet(S) /\ \A x \in S : w[x] \in Int

LEMMA SumFirst ==
  ASSUME NEW S, NEW w, Summable(w, S)
  PROVE  /\ SumFunctionOnSet(w, S) \in Int
         /\ S = {} => SumFunctionOnSet(w, S) = 0
         /\ S # {} => /\ First(S) \in S
                     /\ SumFunctionOnSet(w, S)
                          = w[First(S)] + SumFunctionOnSet(w, S \ {First(S)})
<1> DEFINE Fold(R) == CHOOSE h : IsFold(w, R, h)
           R == S \ {First(S)}
<1>1. PICK g \in [SUBSET S -> Int] : IsFold(w, S, g)
  BY FoldExists DEF Summable
<1>2. IsFold(w, S, Fold(S))
  BY <1>1
<1>3. R \in SUBSET S /\ IsFiniteSet(R) /\ IsFiniteSet(S)
  BY FS_Subset DEF Summable
<1>4. \E h \in [SUBSET R -> Int] : IsFold(w, R, h)
  BY <1>3, FoldExists DEF Summable
<1>5. IsFold(w, R, Fold(R))
  BY <1>4
<1>6. SumFunctionOnSet(w, S) = Fold(S)[S] /\ SumFunctionOnSet(w, R) = Fold(R)[R]
  BY SumIsFold
<1> HIDE DEF Fold
<1>7. Fold(S)[R] = Fold(R)[R]
  BY <1>2, <1>3, <1>5, FoldsAgree
<1>8. Fold(S)[S] = g[S] /\ S \in SUBSET S
  BY <1>1, <1>2, <1>3, FoldsAgree
<1>9. Fold(S)[S] = Added(w, Fold(S), S)
  BY <1>2, <1>8 DEF IsFold
<1>10. S # {} => First(S) \in S
  BY DEF First
<1> QED
  BY <1>1, <1>6, <1>7, <1>8, <1>9, <1>10 DEF Added

\* Elements may be added in any order.
LEMMA SumRemove ==
  ASSUME NEW S, NEW w, Summable(w, S), NEW x \in S
  PROVE  SumFunctionOnSet(w, S) = w[x] + SumFunctionOnSet(w, S \ {x})
<1> DEFINE Sum(s) == SumFunctionOnSet(w, s)
           Good(s) == \A y \in s : Sum(s) = w[y] + Sum(s \ {y})
           T == {n \in Nat : \A s \in SUBSET S : Cardinality(s) = n => Good(s)}
<1>1. \A s \in SUBSET S : IsFiniteSet(s) /\ Cardinality(s) \in Nat /\ Summable(w, s)
  BY FS_Subset, FS_CardinalityType DEF Summable
<1>2. \A s \in SUBSET S : Sum(s) \in Int
  BY <1>1, SumFirst
<1>3. \A s \in SUBSET S : s # {} => First(s) \in s /\ Sum(s) = w[First(s)] + Sum(s \ {First(s)})
  BY <1>1, SumFirst
<1> HIDE DEF Sum
<1>4. 0 \in T
  <2>1. \A s \in SUBSET S : Cardinality(s) = 0 => s = {}
    BY <1>1, FS_EmptySet
  <2> QED
    BY <2>1
<1>5. ASSUME NEW n \in T PROVE n + 1 \in T
  <2>1. SUFFICES ASSUME NEW s \in SUBSET S, Cardinality(s) = n + 1, NEW y \in s
                 PROVE  Sum(s) = w[y] + Sum(s \ {y})
    OBVIOUS
  <2> DEFINE f == First(s)
             r == s \ {f, y}
  <2>2. f \in s /\ Sum(s) = w[f] + Sum(s \ {f})
    BY <1>3
  <2> HIDE DEF f
  <2>3. /\ s \ {f} \in SUBSET S /\ Cardinality(s \ {f}) = n
        /\ s \ {y} \in SUBSET S /\ Cardinality(s \ {y}) = n
    <3>1. IsFiniteSet(s) /\ n \in Nat
      BY <1>1
    <3>2. Cardinality(s \ {f}) = (n + 1) - 1 /\ Cardinality(s \ {y}) = (n + 1) - 1
      BY <2>1, <2>2, <3>1, FS_RemoveElement
    <3> QED
      BY <3>1, <3>2
  <2>4. CASE y = f
    BY <2>2, <2>4
  <2>5. CASE y # f
    <3>1. Good(s \ {f}) /\ Good(s \ {y})
      BY <2>3
    <3>2. y \in s \ {f} /\ f \in s \ {y} /\ (s \ {f}) \ {y} = r /\ (s \ {y}) \ {f} = r
      BY <2>2, <2>5
    <3>3. Sum(s \ {f}) = w[y] + Sum(r) /\ Sum(s \ {y}) = w[f] + Sum(r)
      BY <3>1, <3>2
    <3>4. Sum(r) \in Int /\ w[y] \in Int /\ w[f] \in Int
      BY <1>1, <1>2, <2>2 DEF Summable
    <3> QED
      BY <2>2, <3>3, <3>4
  <2> QED
    BY <2>4, <2>5
<1>6. T = Nat
  <2> HIDE DEF T
  <2>1. T \subseteq Nat
    BY DEF T
  <2> QED
    BY <1>4, <1>5, <2>1, NaturalInduction
<1>7. Good(S)
  BY <1>1, <1>6
<1> QED
  BY <1>7 DEF Sum

LEMMA SumAdd ==
  ASSUME NEW S, NEW w, NEW x, Summable(w, S \cup {x}), x \notin S
  PROVE  /\ SumFunctionOnSet(w, S) \in Int
         /\ SumFunctionOnSet(w, S \cup {x}) = w[x] + SumFunctionOnSet(w, S)
<1>1. (S \cup {x}) \ {x} = S /\ Summable(w, S)
  BY FS_Subset DEF Summable
<1>2. SumFunctionOnSet(w, S) \in Int
  BY <1>1, SumFirst
<1>3. x \in S \cup {x}
  OBVIOUS
<1>4. SumFunctionOnSet(w, S \cup {x}) = w[x] + SumFunctionOnSet(w, (S \cup {x}) \ {x})
  BY <1>3, SumRemove
<1> QED
  BY <1>1, <1>2, <1>4

LEMMA SumEmpty == ASSUME NEW w PROVE SumFunctionOnSet(w, {}) = 0
<1>1. Summable(w, {})
  BY FS_EmptySet DEF Summable
<1> QED
  BY <1>1, SumFirst

LEMMA SummableSubset ==
  ASSUME NEW S, NEW w, Summable(w, S), NEW R \in SUBSET S
  PROVE  Summable(w, R) /\ SumFunctionOnSet(w, R) \in Int
<1>1. Summable(w, R)
  BY FS_Subset DEF Summable
<1> QED
  BY <1>1, SumFirst

\* What is at most as large at every point has at most as large a sum.
LEMMA SumAtMost ==
  ASSUME NEW S, NEW w, NEW v, Summable(w, S), Summable(v, S), \A x \in S : w[x] <= v[x]
  PROVE  SumFunctionOnSet(w, S) <= SumFunctionOnSet(v, S)
<1> DEFINE P == {s \in SUBSET S : SumFunctionOnSet(w, s) <= SumFunctionOnSet(v, s)}
<1>1. {} \in P
  BY SumEmpty
<1>2. ASSUME NEW s \in SUBSET S, NEW x \in S \ s, s \in P PROVE s \cup {x} \in P
  <2>1. s \cup {x} \in SUBSET S /\ x \notin s
    OBVIOUS
  <2>2. /\ SumFunctionOnSet(w, s) \in Int
        /\ SumFunctionOnSet(w, s \cup {x}) = w[x] + SumFunctionOnSet(w, s)
        /\ SumFunctionOnSet(v, s) \in Int
        /\ SumFunctionOnSet(v, s \cup {x}) = v[x] + SumFunctionOnSet(v, s)
    BY <2>1, SummableSubset, SumAdd
  <2>3. w[x] \in Int /\ v[x] \in Int /\ w[x] <= v[x]
    BY DEF Summable
  <2>4. SumFunctionOnSet(w, s) <= SumFunctionOnSet(v, s)
    BY <1>2
  <2> QED
    BY <2>1, <2>2, <2>3, <2>4
<1>3. S \in P
  <2> HIDE DEF P
  <2> QED
    BY <1>1, <1>2, SetInduction DEF Summable
<1> QED
  BY <1>3

LEMMA SumEqual ==
  ASSUME NEW S, NEW w, NEW v, Summable(w, S), \A x \in S : w[x] = v[x]
  PROVE  Summable(v, S) /\ SumFunctionOnSet(w, S) = SumFunctionOnSet(v, S)
<1>1. Summable(v, S) /\ \A x \in S : w[x] <= v[x] /\ v[x] <= w[x]
  BY DEF Summable
<1>2. SumFunctionOnSet(w, S) \in Int /\ SumFunctionOnSet(v, S) \in Int
  BY <1>1, SumFirst
<1>3. /\ SumFunctionOnSet(w, S) <= SumFunctionOnSet(v, S)
      /\ SumFunctionOnSet(v, S) <= SumFunctionOnSet(w, S)
  BY <1>1, SumAtMost
<1> QED
  BY <1>1, <1>2, <1>3

LEMMA SumConstant ==
  ASSUME NEW S, IsFiniteSet(S), NEW c \in Int, NEW w, \A x \in S : w[x] = c
  PROVE  Summable(w, S) /\ SumFunctionOnSet(w, S) = c * Cardinality(S)
<1> DEFINE P == {s \in SUBSET S : SumFunctionOnSet(w, s) = c * Cardinality(s)}
<1>1. Summable(w, S)
  BY DEF Summable
<1>2. {} \in P
  BY SumEmpty, FS_EmptySet
<1>3. ASSUME NEW s \in SUBSET S, NEW x \in S \ s, s \in P PROVE s \cup {x} \in P
  <2>1. s \cup {x} \in SUBSET S /\ x \notin s
    OBVIOUS
  <2>2. SumFunctionOnSet(w, s \cup {x}) = w[x] + SumFunctionOnSet(w, s)
    BY <1>1, <2>1, SummableSubset, SumAdd
  <2>3. Cardinality(s) \in Nat /\ Cardinality(s \cup {x}) = Cardinality(s) + 1
    BY FS_Subset, FS_CardinalityType, FS_AddElement
  <2>4. c * (Cardinality(s) + 1) = c + c * Cardinality(s)
    BY <2>3
  <2>5. SumFunctionOnSet(w, s) = c * Cardinality(s)
    BY <1>3
  <2> QED
    BY <2>1, <2>2, <2>3, <2>4, <2>5
<1>4. S \in P
  <2> HIDE DEF P
  <2> QED
    BY <1>2, <1>3, SetInduction
<1> QED
  BY <1>1, <1>4

\* Zeros may be left out.
LEMMA SumSupport ==
  ASSUME NEW S, NEW w, Summable(w, S), NEW A \in SUBSET S, \A x \in S \ A : w[x] = 0
  PROVE  SumFunctionOnSet(w, S) = SumFunctionOnSet(w, A)
<1> DEFINE P == {s \in SUBSET S : SumFunctionOnSet(w, s) = SumFunctionOnSet(w, s \cap A)}
<1>1. {} \in P
  <2>1. {} \cap A = {}
    OBVIOUS
  <2> QED
    BY <2>1
<1>2. ASSUME NEW s \in SUBSET S, NEW x \in S \ s, s \in P PROVE s \cup {x} \in P
  <2>1. s \cup {x} \in SUBSET S /\ x \notin s
    OBVIOUS
  <2>2. /\ SumFunctionOnSet(w, s) \in Int
        /\ SumFunctionOnSet(w, s \cup {x}) = w[x] + SumFunctionOnSet(w, s)
    BY <2>1, SummableSubset, SumAdd
  <2>3. SumFunctionOnSet(w, s) = SumFunctionOnSet(w, s \cap A)
    BY <1>2
  <2>4. CASE x \in A
    <3>1. (s \cup {x}) \cap A = (s \cap A) \cup {x} /\ x \notin s \cap A
      BY <2>1, <2>4
    <3>2. (s \cap A) \cup {x} \in SUBSET S
      OBVIOUS
    <3>3. SumFunctionOnSet(w, (s \cap A) \cup {x}) = w[x] + SumFunctionOnSet(w, s \cap A)
      BY <3>1, <3>2, SummableSubset, SumAdd
    <3> QED
      BY <2>1, <2>2, <2>3, <3>1, <3>3
  <2>5. CASE x \notin A
    <3>1. (s \cup {x}) \cap A = s \cap A /\ w[x] = 0
      BY <2>5
    <3> QED
      <4>1. SumFunctionOnSet(w, s \cup {x}) = SumFunctionOnSet(w, s)
        BY <2>2, <3>1
      <4> QED
        BY <2>1, <2>3, <3>1, <4>1
  <2> QED
    BY <2>4, <2>5
<1>3. S \in P
  <2> HIDE DEF P
  <2> QED
    BY <1>1, <1>2, SetInduction DEF Summable
<1>4. S \cap A = A
  OBVIOUS
<1> QED
  BY <1>3, <1>4

LEMMA SumPlus ==
  ASSUME NEW S, NEW u, NEW v, NEW w, Summable(u, S), Summable(v, S),
         \A x \in S : w[x] = u[x] + v[x]
  PROVE  /\ Summable(w, S)
         /\ SumFunctionOnSet(w, S) = SumFunctionOnSet(u, S) + SumFunctionOnSet(v, S)
<1> DEFINE P == {s \in SUBSET S : SumFunctionOnSet(w, s)
                                   = SumFunctionOnSet(u, s) + SumFunctionOnSet(v, s)}
<1>1. Summable(w, S)
  BY DEF Summable
<1>2. {} \in P
  BY SumEmpty
<1>3. ASSUME NEW s \in SUBSET S, NEW x \in S \ s, s \in P PROVE s \cup {x} \in P
  <2>1. s \cup {x} \in SUBSET S /\ x \notin s
    OBVIOUS
  <2>2. /\ SumFunctionOnSet(w, s \cup {x}) = w[x] + SumFunctionOnSet(w, s)
        /\ SumFunctionOnSet(u, s) \in Int
        /\ SumFunctionOnSet(u, s \cup {x}) = u[x] + SumFunctionOnSet(u, s)
        /\ SumFunctionOnSet(v, s) \in Int
        /\ SumFunctionOnSet(v, s \cup {x}) = v[x] + SumFunctionOnSet(v, s)
    BY <1>1, <2>1, SummableSubset, SumAdd
  <2>3. u[x] \in Int /\ v[x] \in Int /\ w[x] = u[x] + v[x]
    BY DEF Summable
  <2>4. SumFunctionOnSet(w, s) = SumFunctionOnSet(u, s) + SumFunctionOnSet(v, s)
    BY <1>3
  <2> QED
    BY <2>1, <2>2, <2>3, <2>4
<1>4. S \in P
  <2> HIDE DEF P
  <2> QED
    BY <1>2, <1>3, SetInduction DEF Summable
<1> QED
  BY <1>1, <1>4

LEMMA SumTimes ==
  ASSUME NEW S, NEW u, NEW w, Summable(u, S), NEW c \in Int, \A x \in S : w[x] = c * u[x]
  PROVE  /\ Summable(w, S)
         /\ SumFunctionOnSet(w, S) = c * SumFunctionOnSet(u, S)
<1> DEFINE P == {s \in SUBSET S : SumFunctionOnSet(w, s) = c * SumFunctionOnSet(u, s)}
<1>1. Summable(w, S)
  BY DEF Summable
<1>2. {} \in P
  BY SumEmpty
<1>3. ASSUME NEW s \in SUBSET S, NEW x \in S \ s, s \in P PROVE s \cup {x} \in P
  <2> DEFINE a == SumFunctionOnSet(u, s)
             b == SumFunctionOnSet(u, s \cup {x})
             p == SumFunctionOnSet(w, s)
             q == SumFunctionOnSet(w, s \cup {x})
             k == u[x]
  <2>1. s \cup {x} \in SUBSET S /\ x \notin s
    OBVIOUS
  <2>2. a \in Int /\ b = k + a /\ q = w[x] + p
    BY <1>1, <2>1, SummableSubset, SumAdd
  <2>3. k \in Int /\ w[x] = c * k
    BY DEF Summable
  <2>4. p = c * a
    BY <1>3
  <2> HIDE DEF a, b, p, q, k
  <2>5. q = c * b
    BY <2>2, <2>3, <2>4
  <2> QED
    BY <2>1, <2>5 DEF b, q
<1>4. S \in P
  <2> HIDE DEF P
  <2> QED
    BY <1>2, <1>3, SetInduction DEF Summable
<1> QED
  BY <1>1, <1>4

\* Sets that have nothing in common are counted once each.
LEMMA SumCounts ==
  ASSUME NEW S, IsFiniteSet(S), NEW F, \A x \in S : IsFiniteSet(F[x]),
         \A x, y \in S : x # y => F[x] \cap F[y] = {},
         NEW w, \A x \in S : w[x] = Cardinality(F[x])
  PROVE  /\ Summable(w, S)
         /\ SumFunctionOnSet(w, S) = Cardinality(UNION {F[x] : x \in S})
<1> DEFINE U(s) == UNION {F[x] : x \in s}
           P == {s \in SUBSET S : /\ IsFiniteSet(U(s))
                                  /\ SumFunctionOnSet(w, s) = Cardinality(U(s))}
<1>1. Summable(w, S)
  BY FS_CardinalityType DEF Summable
<1>2. {} \in P
  <2>1. U({}) = {}
    OBVIOUS
  <2> QED
    BY <2>1, SumEmpty, FS_EmptySet
<1>3. ASSUME NEW s \in SUBSET S, NEW x \in S \ s, s \in P PROVE s \cup {x} \in P
  <2>1. s \cup {x} \in SUBSET S /\ x \notin s
    OBVIOUS
  <2>2. SumFunctionOnSet(w, s \cup {x}) = w[x] + SumFunctionOnSet(w, s)
    BY <1>1, <2>1, SummableSubset, SumAdd
  <2>3. U(s \cup {x}) = U(s) \cup F[x]
    OBVIOUS
  <2>4. U(s) \cap F[x] = {}
    OBVIOUS
  <2>5. IsFiniteSet(U(s)) /\ SumFunctionOnSet(w, s) = Cardinality(U(s))
    BY <1>3
  <2> HIDE DEF U
  <2>6. /\ IsFiniteSet(U(s) \cup F[x])
        /\ Cardinality(U(s) \cup F[x])
             = Cardinality(U(s)) + Cardinality(F[x]) - Cardinality(U(s) \cap F[x])
    BY <2>5, FS_Union
  <2>7. /\ Cardinality(U(s) \cap F[x]) = 0 /\ Cardinality(U(s)) \in Nat
        /\ Cardinality(F[x]) \in Nat
    BY <2>4, <2>5, FS_EmptySet, FS_CardinalityType
  <2>8. w[x] = Cardinality(F[x])
    OBVIOUS
  <2> QED
    <3>1. Cardinality(U(s \cup {x})) = Cardinality(U(s)) + Cardinality(F[x])
      <4> DEFINE a == Cardinality(U(s))
                 b == Cardinality(F[x])
                 c == Cardinality(U(s) \cap F[x])
                 d == Cardinality(U(s) \cup F[x])
      <4>1. d = a + b - c /\ c = 0 /\ a \in Nat /\ b \in Nat
        BY <2>6, <2>7
      <4> HIDE DEF a, b, c, d
      <4>2. d = a + b
        BY <4>1
      <4> QED
        BY <2>3, <4>2 DEF a, b, d
    <3>2. SumFunctionOnSet(w, s \cup {x}) = Cardinality(U(s \cup {x}))
      BY <2>2, <2>5, <2>7, <2>8, <3>1
    <3>3. IsFiniteSet(U(s \cup {x}))
      BY <2>3, <2>6
    <3> QED
      BY <2>1, <3>2, <3>3
<1>4. S \in P
  <2> HIDE DEF P
  <2> QED
    BY <1>2, <1>3, SetInduction
<1> QED
  BY <1>1, <1>4

----------------------------------------------------------------------------
(* The largest and the smallest of finitely many integers.                 *)

LEMMA MaxMin ==
  ASSUME NEW S \in SUBSET Int, IsFiniteSet(S), S # {}
  PROVE  /\ Max(S) \in S /\ \A y \in S : y <= Max(S)
         /\ Min(S) \in S /\ \A y \in S : Min(S) <= y
<1> DEFINE Ends(s) == /\ \E x \in s : \A y \in s : x >= y
                      /\ \E x \in s : \A y \in s : x =< y
           P == {s \in SUBSET S : s # {} => Ends(s)}
<1>1. {} \in P
  OBVIOUS
<1>2. ASSUME NEW s \in SUBSET S, NEW z \in S \ s, s \in P PROVE s \cup {z} \in P
  <2>1. CASE s = {}
    BY <2>1
  <2>2. CASE s # {}
    <3>1. PICK x \in s : \A y \in s : x >= y
      BY <1>2, <2>2
    <3>2. PICK u \in s : \A y \in s : u =< y
      BY <1>2, <2>2
    <3>3. \E v \in s \cup {z} : \A y \in s \cup {z} : v >= y
      <4>1. CASE z >= x
        BY <3>1, <4>1
      <4>2. CASE ~(z >= x)
        BY <3>1, <4>2
      <4> QED
        BY <4>1, <4>2
    <3>4. \E v \in s \cup {z} : \A y \in s \cup {z} : v =< y
      <4>1. CASE z =< u
        BY <3>2, <4>1
      <4>2. CASE ~(z =< u)
        BY <3>2, <4>2
      <4> QED
        BY <4>1, <4>2
    <3> QED
      BY <3>3, <3>4
  <2> QED
    BY <2>1, <2>2
<1>3. S \in P
  <2> HIDE DEF P
  <2> QED
    BY <1>1, <1>2, SetInduction
<1>4. Ends(S)
  BY <1>3
<1> QED
  BY <1>4 DEF Max, Min

----------------------------------------------------------------------------
(* Means, rounded down.                                                    *)

\* A mean lies between the bounds of what it is the mean of.
LEMMA MeanBetween ==
  ASSUME NEW w, DOMAIN w # {}, Summable(w, DOMAIN w),
         NEW lo \in Int, NEW hi \in Int, \A x \in DOMAIN w : lo <= w[x] /\ w[x] <= hi
  PROVE  MeanOf(w) \in Int /\ lo <= MeanOf(w) /\ MeanOf(w) <= hi
<1> DEFINE D == DOMAIN w
           n == Cardinality(D)
           sum == SumFunctionOnSet(w, D)
           low == [x \in D |-> lo]
           high == [x \in D |-> hi]
<1>1. IsFiniteSet(D) /\ n \in Nat /\ n # 0
  BY FS_CardinalityType, FS_EmptySet DEF Summable
<1>2. Summable(low, D) /\ SumFunctionOnSet(low, D) = lo * n
  <2>1. \A x \in D : low[x] = lo
    OBVIOUS
  <2> QED
    BY <1>1, <2>1, SumConstant
<1>3. Summable(high, D) /\ SumFunctionOnSet(high, D) = hi * n
  <2>1. \A x \in D : high[x] = hi
    OBVIOUS
  <2> QED
    BY <1>1, <2>1, SumConstant
<1>4. lo * n <= sum
  <2>1. \A x \in D : low[x] <= w[x]
    OBVIOUS
  <2>2. SumFunctionOnSet(low, D) <= sum
    BY <1>2, <2>1, SumAtMost
  <2> QED
    BY <1>2, <2>2
<1>5. sum <= hi * n
  <2>1. \A x \in D : w[x] <= high[x]
    OBVIOUS
  <2>2. sum <= SumFunctionOnSet(high, D)
    BY <1>3, <2>1, SumAtMost
  <2> QED
    BY <1>3, <2>2
<1>6. sum \in Int
  BY SumFirst
<1>7. MeanOf(w) = sum \div n
  BY DEF MeanOf, SumFunction
<1> HIDE DEF n, sum
<1>8. sum \div n \in Int /\ lo <= sum \div n /\ sum \div n <= hi
  BY <1>1, <1>4, <1>5, <1>6
<1> QED
  BY <1>7, <1>8

\* What is at most as large at every point has at most as large a mean.
LEMMA MeanAtMost ==
  ASSUME NEW w, NEW v, DOMAIN w # {}, DOMAIN w = DOMAIN v,
         Summable(w, DOMAIN w), Summable(v, DOMAIN w), \A x \in DOMAIN w : w[x] <= v[x]
  PROVE  MeanOf(w) <= MeanOf(v)
<1> DEFINE n == Cardinality(DOMAIN w)
           a == SumFunctionOnSet(w, DOMAIN w)
           b == SumFunctionOnSet(v, DOMAIN w)
<1>1. n \in Nat /\ n # 0
  BY FS_CardinalityType, FS_EmptySet DEF Summable
<1>2. a \in Int /\ b \in Int /\ a <= b
  BY SumFirst, SumAtMost
<1>3. MeanOf(w) = a \div n /\ MeanOf(v) = b \div n
  BY DEF MeanOf, SumFunction
<1> HIDE DEF n, a, b
<1>4. a \div n <= b \div n
  BY <1>1, <1>2
<1> QED
  BY <1>3, <1>4

----------------------------------------------------------------------------
(* Shares of One.                                                          *)

\* A share of something is at least nothing and at most One, and One when
\* it is all of it.
LEMMA FracBetween ==
  ASSUME NEW n \in Nat, NEW d \in Nat \ {0}, n <= d
  PROVE  Frac(n, d) \in 0..One /\ (n = d => Frac(n, d) = One)
<1>1. One \in Nat
  BY ScoreAssumption
<1>2. n * One <= d * One /\ n * One \in Nat
  BY <1>1
<1>3. (d * One) \div d = One
  BY <1>1
<1>4. (n * One) \div d \in Int /\ 0 <= (n * One) \div d
  BY <1>2
<1>5. (n * One) \div d <= One
  BY <1>1, <1>2
<1> QED
  BY <1>1, <1>3, <1>4, <1>5 DEF Frac

\* Nothing of something is nothing.
LEMMA FracZero == ASSUME NEW d \in Nat \ {0} PROVE Frac(0, d) = 0
<1>1. 0 * One = 0 /\ 0 \div d = 0
  BY ScoreAssumption
<1> QED
  BY <1>1 DEF Frac

\* A larger part of a smaller whole is at least as large a share.
LEMMA FracMonotone ==
  ASSUME NEW m \in Nat, NEW n \in Nat, NEW c \in Nat \ {0}, NEW d \in Nat \ {0},
         m * d <= n * c
  PROVE  Frac(m, c) <= Frac(n, d)
<1> DEFINE p == (m * One) \div c
           q == (n * One) \div d
           a == m * One
           b == n * One
<1>1. One \in Nat /\ a \in Nat /\ b \in Nat
  BY ScoreAssumption
<1>2. a * d <= b * c
  <2>1. (m * d) * One <= (n * c) * One
    BY <1>1
  <2> QED
    BY <1>1, <2>1
<1> HIDE DEF a, b
<1>3. p = a \div c /\ q = b \div d
  BY DEF a, b
<1>4. p \in Int /\ q \in Int /\ c * p <= a /\ b < d * q + d
  BY <1>1, <1>3
<1> HIDE DEF p, q
<1>5. (c * p) * d <= a * d /\ b * c < (d * q + d) * c
  BY <1>1, <1>4
<1>6. (c * p) * d < (d * q + d) * c
  BY <1>1, <1>2, <1>4, <1>5
<1>7. (c * d) * p < (c * d) * (q + 1) /\ c * d \in Nat /\ c * d # 0
  BY <1>4, <1>6
<1>8. p < q + 1
  <2> DEFINE e == c * d
  <2>1. e \in Nat /\ e # 0 /\ e * p < e * (q + 1)
    BY <1>7
  <2> HIDE DEF e
  <2> QED
    BY <1>4, <2>1
<1> QED
  BY <1>4, <1>8 DEF Frac, p, q, a, b

\* Only all of it is One.
LEMMA FracLess ==
  ASSUME NEW n \in Nat, NEW d \in Nat \ {0}, n < d
  PROVE  Frac(n, d) < One
<1>1. One \in Nat /\ One # 0
  BY ScoreAssumption
<1>2. n * One < d * One /\ n * One \in Nat
  BY <1>1
<1> DEFINE a == n * One
<1>3. a \in Nat /\ a < d * One
  BY <1>2
<1> HIDE DEF a
<1>4. a \div d < One
  BY <1>1, <1>3
<1> QED
  BY <1>4 DEF Frac, a

----------------------------------------------------------------------------
(* F1 scores.                                                              *)

\* Two sets earn One when they are the same, and only then.
LEMMA SetF1 ==
  ASSUME NEW P, IsFiniteSet(P), NEW G, IsFiniteSet(G)
  PROVE  set_f1(P, G) \in 0..One /\ (set_f1(P, G) = One <=> P = G)
<1> DEFINE p == Cardinality(P)
           g == Cardinality(G)
           b == Cardinality(P \cap G)
<1>1. p \in Nat /\ g \in Nat /\ b \in Nat /\ b <= p /\ b <= g
  BY FS_CardinalityType, FS_Intersection
<1>2. (b = p => P \cap G = P) /\ (b = g => P \cap G = G)
  <2>1. P \cap G \in SUBSET P /\ P \cap G \in SUBSET G
    OBVIOUS
  <2> QED
    BY <2>1, FS_Subset
<1>3. P = G => p = b /\ g = b
  OBVIOUS
<1>4. p + g = 0 <=> P = {} /\ G = {}
  <2>1. (p = 0 <=> P = {}) /\ (g = 0 <=> G = {})
    BY FS_EmptySet
  <2> HIDE DEF p, g
  <2> QED
    BY <1>1, <2>1
<1>5. set_f1(P, G) = IF P = {} /\ G = {} THEN One ELSE Frac(2 * b, p + g)
  BY DEF set_f1
<1>6. One \in 0..One
  BY ScoreAssumption
<1>7. CASE P = {} /\ G = {}
  BY <1>5, <1>6, <1>7
<1>8. CASE ~(P = {} /\ G = {})
  <2>1. set_f1(P, G) = Frac(2 * b, p + g) /\ p + g # 0
    BY <1>4, <1>5, <1>8
  <2>2. (b = p /\ b = g) <=> P = G
    BY <1>2, <1>3
  <2> HIDE DEF p, g, b
  <2>3. 2 * b \in Nat /\ p + g \in Nat \ {0} /\ 2 * b <= p + g
    BY <1>1, <2>1
  <2>4. Frac(2 * b, p + g) \in 0..One /\ (2 * b = p + g => Frac(2 * b, p + g) = One)
    BY <2>3, FracBetween
  <2>5. 2 * b # p + g => Frac(2 * b, p + g) < One
    BY <2>3, FracLess
  <2>6. 2 * b = p + g <=> (b = p /\ b = g)
    BY <1>1
  <2>7. Frac(2 * b, p + g) = One <=> P = G
    BY <2>2, <2>4, <2>5, <2>6
  <2> QED
    BY <2>1, <2>4, <2>7
<1> QED
  BY <1>7, <1>8

\* A class earns One without an error, and no less for more hits or fewer errors.
LEMMA ClassF1 ==
  ASSUME NEW hits \in Nat, NEW wrong \in Nat, 2 * hits + wrong # 0
  PROVE  /\ F1(hits, wrong) \in 0..One
         /\ F1(hits, wrong) = One <=> wrong = 0
         /\ hits = 0 => F1(hits, wrong) = 0
         /\ \A more \in Nat, less \in Nat :
              hits <= more /\ less <= wrong /\ 2 * more + less # 0
                => F1(hits, wrong) <= F1(more, less)
<1>1. 2 * hits \in Nat /\ 2 * hits + wrong \in Nat \ {0} /\ 2 * hits <= 2 * hits + wrong
  OBVIOUS
<1>2. /\ F1(hits, wrong) \in 0..One
      /\ 2 * hits = 2 * hits + wrong => F1(hits, wrong) = One
  BY <1>1, FracBetween DEF F1
<1>3. wrong # 0 => F1(hits, wrong) < One
  BY <1>1, FracLess DEF F1
<1>4. wrong = 0 => F1(hits, wrong) = One
  BY <1>2
<1>5. F1(hits, wrong) = One => wrong = 0
  BY <1>2, <1>3
<1>6. ASSUME hits = 0 PROVE F1(hits, wrong) = 0
  BY <1>1, <1>6, FracZero DEF F1
<1>7. ASSUME NEW more \in Nat, NEW less \in Nat,
             hits <= more, less <= wrong, 2 * more + less # 0
      PROVE  F1(hits, wrong) <= F1(more, less)
  <2>1. hits * less <= more * wrong
    <3>1. hits * less <= more * less
      BY <1>7
    <3>2. more * less <= more * wrong
      BY <1>7
    <3> QED
      BY <3>1, <3>2
  <2>2. (2 * hits) * (2 * more + less) <= (2 * more) * (2 * hits + wrong)
    BY <2>1
  <2>3. 2 * more \in Nat /\ 2 * more + less \in Nat \ {0}
    BY <1>7
  <2> QED
    BY <1>1, <2>2, <2>3, FracMonotone DEF F1
<1> QED
  BY <1>2, <1>4, <1>5, <1>6, <1>7

LEMMA HarmonicMeanBetween ==
  ASSUME NEW a \in 0..One, NEW b \in 0..One
  PROVE  HarmonicMean(a, b) \in 0..One
<1>1. One \in Nat /\ a \in Nat /\ b \in Nat /\ a <= One /\ b <= One
  BY ScoreAssumption
<1>2. CASE a + b = 0
  BY <1>1, <1>2 DEF HarmonicMean
<1>3. CASE a + b # 0
  <2> DEFINE n == 2 * a * b
             d == a + b
  <2>1. n \in Nat /\ d \in Nat \ {0}
    BY <1>1, <1>3
  <2>2. n <= One * d
    <3>1. a * b <= One * b /\ b * a <= One * a /\ a * b = b * a
      BY <1>1
    <3> QED
      BY <1>1, <3>1
  <2>3. HarmonicMean(a, b) = n \div d
    BY <1>3 DEF HarmonicMean
  <2> HIDE DEF n, d
  <2>4. n \div d \in Int /\ 0 <= n \div d /\ n \div d <= One
    BY <1>1, <2>1, <2>2
  <2> QED
    BY <2>3, <2>4
<1> QED
  BY <1>2, <1>3

----------------------------------------------------------------------------
(* F1 scores of texts and of sets of texts.                                *)

LEMMA ImageFinite ==
  ASSUME NEW D, IsFiniteSet(D), NEW f
  PROVE  IsFiniteSet({f[x] : x \in D}) /\ Cardinality({f[x] : x \in D}) <= Cardinality(D)
<1> DEFINE h == [x \in D |-> f[x]]
           R == {f[x] : x \in D}
<1>1. h \in Surjection(D, R)
  BY DEF Surjection
<1> QED
  BY <1>1, FS_Surjection

\* Two texts with the same words, in whatever order and number, earn One.
LEMMA TokenF1 ==
  ASSUME NEW a, IsFiniteSet(DOMAIN a), NEW b, IsFiniteSet(DOMAIN b)
  PROVE  /\ token_f1(a, b) \in 0..One
         /\ token_f1(a, b) = One <=> ToSet(normalize_text(a)) = ToSet(normalize_text(b))
<1>1. ASSUME NEW c, IsFiniteSet(DOMAIN c) PROVE IsFiniteSet(ToSet(normalize_text(c)))
  <2>1. DOMAIN normalize_text(c) = DOMAIN c
    BY DEF normalize_text
  <2> QED
    BY <1>1, <2>1, ImageFinite DEF ToSet
<1> QED
  BY <1>1, SetF1 DEF token_f1

\* Each text is worth its best match on the other side.
LEMMA BestTokenF1 ==
  ASSUME NEW C, IsFiniteSet(C), NEW G, IsFiniteSet(G),
         \A a \in C \cup G : IsFiniteSet(DOMAIN a)
  PROVE  best_token_f1(C, G) \in 0..One
<1> DEFINE Best(a, among) == Max({token_f1(a, b) : b \in among})
           W(from, among) == [a \in from |-> Best(a, among)]
<1>1. ASSUME NEW S, NEW T, IsFiniteSet(S), IsFiniteSet(T), S # {}, T # {},
             \A a \in S \cup T : IsFiniteSet(DOMAIN a)
      PROVE  MeanOf(W(S, T)) \in 0..One
  <2>1. ASSUME NEW a \in S PROVE Best(a, T) \in 0..One
    <3> DEFINE f == [b \in T |-> token_f1(a, b)]
               R == {token_f1(a, b) : b \in T}
    <3>1. R = {f[b] : b \in T}
      OBVIOUS
    <3>2. IsFiniteSet(R)
      <4>1. IsFiniteSet({f[b] : b \in T})
        BY <1>1, ImageFinite
      <4> QED
        BY <3>1, <4>1
    <3>3. \A b \in T : token_f1(a, b) \in 0..One
      BY <1>1, TokenF1
    <3>4. R \subseteq 0..One /\ R # {}
      BY <1>1, <3>3
    <3>5. R \in SUBSET Int
      BY <3>4, ScoreAssumption
    <3> HIDE DEF R
    <3>6. Max(R) \in R
      BY <3>2, <3>4, <3>5, MaxMin
    <3> QED
      BY <3>4, <3>6 DEF R
  <2> HIDE DEF Best
  <2>2. 0..One \subseteq Int /\ 0 \in Int /\ One \in Int
    BY ScoreAssumption
  <2> DEFINE w == W(S, T)
  <2>3. DOMAIN w = S /\ \A a \in S : w[a] \in 0..One
    BY <2>1
  <2> HIDE DEF w
  <2>4. Summable(w, DOMAIN w) /\ \A a \in DOMAIN w : 0 <= w[a] /\ w[a] <= One
    BY <1>1, <2>2, <2>3 DEF Summable
  <2>5. MeanOf(w) \in Int /\ 0 <= MeanOf(w) /\ MeanOf(w) <= One
    BY <1>1, <2>2, <2>3, <2>4, MeanBetween
  <2>6. MeanOf(w) \in 0..One
    BY <2>2, <2>5
  <2> QED
    BY <2>6 DEF w
<1>2. CASE C # {} /\ G # {}
  <2>1. MeanOf(W(C, G)) \in 0..One /\ MeanOf(W(G, C)) \in 0..One
    BY <1>1, <1>2
  <2>2. best_token_f1(C, G) = HarmonicMean(MeanOf(W(C, G)), MeanOf(W(G, C)))
    BY <1>2, Zenon DEF best_token_f1
  <2> QED
    BY <2>1, <2>2, HarmonicMeanBetween
<1>3. CASE C = {} \/ G = {}
  <2>1. best_token_f1(C, G) \in {0, One}
    BY <1>3 DEF best_token_f1
  <2> QED
    BY <2>1, ScoreAssumption
<1> QED
  BY <1>2, <1>3

----------------------------------------------------------------------------
(* F1 scores of classes.  The two sides answer the same questions.         *)

LEMMA HitsAndWrong ==
  ASSUME NEW D, IsFiniteSet(D), NEW c, NEW g, DOMAIN g = D, NEW l
  PROVE  /\ Hits(c, g, l) \in Nat /\ Wrong(c, g, l) \in Nat
         /\ Hits(c, g, l) = 0 <=> \A i \in D : ~(c[i] = l /\ g[i] = l)
         /\ Wrong(c, g, l) = 0 <=> \A i \in D : c[i] = l <=> g[i] = l
<1> DEFINE H == {i \in D : c[i] = l /\ g[i] = l}
           F == {i \in D : (c[i] = l) # (g[i] = l)}
<1>1. H \in SUBSET D /\ F \in SUBSET D
  OBVIOUS
<1>2. IsFiniteSet(H) /\ IsFiniteSet(F)
  BY <1>1, FS_Subset
<1>3. /\ Cardinality(H) \in Nat /\ Cardinality(F) \in Nat
      /\ Cardinality(H) = 0 <=> H = {}
      /\ Cardinality(F) = 0 <=> F = {}
  BY <1>2, FS_CardinalityType, FS_EmptySet
<1>4. (H = {} <=> \A i \in D : ~(c[i] = l /\ g[i] = l))
  OBVIOUS
<1>5. F = {} <=> \A i \in D : c[i] = l <=> g[i] = l
  BY Zenon
<1>6. Hits(c, g, l) = Cardinality(H) /\ Wrong(c, g, l) = Cardinality(F)
  BY DEF Hits, Wrong
<1> QED
  BY <1>3, <1>4, <1>5, <1>6

\* Some answers of c have been put right in d, and the others left alone.
Corrected(D, c, d, g) == \A i \in D : d[i] = c[i] \/ d[i] = g[i]

LEMMA CorrectedCounts ==
  ASSUME NEW D, IsFiniteSet(D), NEW c, NEW d, NEW g, DOMAIN g = D,
         Corrected(D, c, d, g), NEW l
  PROVE  Hits(c, g, l) <= Hits(d, g, l) /\ Wrong(d, g, l) <= Wrong(c, g, l)
<1> DEFINE H(a) == {i \in D : a[i] = l /\ g[i] = l}
           F(a) == {i \in D : (a[i] = l) # (g[i] = l)}
<1>1. H(c) \subseteq H(d)
  BY DEF Corrected
<1>2. F(d) \subseteq F(c)
  BY Zenon DEF Corrected
<1>3. IsFiniteSet(H(d)) /\ IsFiniteSet(F(c))
  <2>1. H(d) \in SUBSET D /\ F(c) \in SUBSET D
    OBVIOUS
  <2> QED
    BY <2>1, FS_Subset
<1>4. Cardinality(H(c)) <= Cardinality(H(d)) /\ Cardinality(F(d)) <= Cardinality(F(c))
  <2>1. H(c) \in SUBSET H(d) /\ F(d) \in SUBSET F(c)
    BY <1>1, <1>2, Zenon
  <2> HIDE DEF H, F
  <2> QED
    BY <1>3, <2>1, FS_Subset
<1> QED
  BY <1>4 DEF Hits, Wrong

\* What macro_f1 averages.
Seen(c, g, labels) == {l \in labels : l \in ToSet(c) \cup ToSet(g)}
ScoreOf(c, g, S) == [l \in S |-> F1(Hits(c, g, l), Wrong(c, g, l))]

LEMMA SeenClasses ==
  ASSUME NEW D, IsFiniteSet(D), NEW c, NEW g, DOMAIN c = D, DOMAIN g = D, NEW labels
  PROVE  LET S == Seen(c, g, labels)
             score == ScoreOf(c, g, S)
         IN  /\ IsFiniteSet(S)
             /\ \A l \in S : /\ 2 * Hits(c, g, l) + Wrong(c, g, l) # 0
                             /\ score[l] \in 0..One
                             /\ score[l] = One <=> Wrong(c, g, l) = 0
                             /\ l \notin ToSet(g) => score[l] = 0
             /\ DOMAIN score = S /\ Summable(score, S)
<1> DEFINE S == Seen(c, g, labels)
           score == ScoreOf(c, g, S)
<1>1. IsFiniteSet(S)
  <2>1. IsFiniteSet(ToSet(c)) /\ IsFiniteSet(ToSet(g))
    BY ImageFinite DEF ToSet
  <2>2. IsFiniteSet(ToSet(c) \cup ToSet(g))
    BY <2>1, FS_Union
  <2>3. S \in SUBSET (ToSet(c) \cup ToSet(g))
    BY DEF Seen
  <2> QED
    BY <2>2, <2>3, FS_Subset
<1>2. ASSUME NEW l \in S
      PROVE  /\ 2 * Hits(c, g, l) + Wrong(c, g, l) # 0
             /\ score[l] \in 0..One
             /\ score[l] = One <=> Wrong(c, g, l) = 0
             /\ l \notin ToSet(g) => score[l] = 0
  <2>1. \E i \in D : c[i] = l \/ g[i] = l
    BY DEF Seen, ToSet
  <2>2. ~(Hits(c, g, l) = 0 /\ Wrong(c, g, l) = 0)
    BY <2>1, HitsAndWrong
  <2>3. Hits(c, g, l) \in Nat /\ Wrong(c, g, l) \in Nat
    BY HitsAndWrong
  <2>4. 2 * Hits(c, g, l) + Wrong(c, g, l) # 0
    BY <2>2, <2>3
  <2>5. score[l] = F1(Hits(c, g, l), Wrong(c, g, l))
    BY DEF ScoreOf
  <2>6. l \notin ToSet(g) => Hits(c, g, l) = 0
    BY HitsAndWrong DEF ToSet
  <2> QED
    BY <2>3, <2>4, <2>5, <2>6, ClassF1
<1>3. DOMAIN score = S
  BY DEF ScoreOf
<1>4. Summable(score, S)
  <2>1. 0..One \subseteq Int
    BY ScoreAssumption
  <2> QED
    BY <1>1, <1>2, <2>1 DEF Summable
<1> QED
  BY <1>1, <1>2, <1>3, <1>4

\* The macro average lies between 0 and One, and is One without an error.
LEMMA MacroF1 ==
  ASSUME NEW D, IsFiniteSet(D), NEW c, NEW g, DOMAIN c = D, DOMAIN g = D, NEW labels
  PROVE  /\ macro_f1(c, g, labels) \in 0..One
         /\ (\A i \in D : c[i] = g[i]) /\ (\E i \in D : g[i] \in labels)
              => macro_f1(c, g, labels) = One
<1> DEFINE S == Seen(c, g, labels)
           score == ScoreOf(c, g, S)
<1>1. macro_f1(c, g, labels) = IF S = {} THEN 0 ELSE MeanOf(score)
  BY DEF macro_f1, Seen, ScoreOf
<1>2. One \in Nat /\ 0..One \subseteq Int /\ 0 \in Int /\ One \in Int
  BY ScoreAssumption
<1>3. /\ \A l \in S : score[l] \in 0..One /\ (score[l] = One <=> Wrong(c, g, l) = 0)
      /\ DOMAIN score = S /\ Summable(score, S)
  BY SeenClasses
<1> HIDE DEF score
<1>4. S # {} => MeanOf(score) \in Int /\ 0 <= MeanOf(score) /\ MeanOf(score) <= One
  BY <1>2, <1>3, MeanBetween
<1>5. macro_f1(c, g, labels) \in 0..One
  BY <1>1, <1>2, <1>4
<1>6. ASSUME \A i \in D : c[i] = g[i], NEW i \in D, g[i] \in labels
      PROVE  macro_f1(c, g, labels) = One
  <2>1. S # {}
    BY <1>6 DEF Seen, ToSet
  <2>2. \A l \in S : score[l] = One
    <3>1. \A l \in S : Wrong(c, g, l) = 0
      BY <1>6, HitsAndWrong
    <3> QED
      BY <1>3, <3>1
  <2>3. MeanOf(score) \in Int /\ One <= MeanOf(score)
    <3>1. \A l \in S : One <= score[l] /\ score[l] <= One
      BY <1>2, <2>2
    <3> QED
      BY <1>2, <1>3, <2>1, <3>1, MeanBetween
  <2> QED
    BY <1>1, <1>2, <1>4, <2>1, <2>3
<1> QED
  BY <1>5, <1>6

(* Putting answers right never lowers the macro average: a class that is   *)
(* not mentioned any more was never right, the other classes do no worse.  *)
LEMMA CorrectingMacroF1 ==
  ASSUME NEW D, IsFiniteSet(D), NEW c, NEW d, NEW g,
         DOMAIN c = D, DOMAIN d = D, DOMAIN g = D, Corrected(D, c, d, g), NEW labels
  PROVE  macro_f1(c, g, labels) <= macro_f1(d, g, labels)
<1> DEFINE S == Seen(c, g, labels)
           R == Seen(d, g, labels)
           w == ScoreOf(c, g, S)
           v == ScoreOf(d, g, R)
<1>1. /\ macro_f1(c, g, labels) = IF S = {} THEN 0 ELSE MeanOf(w)
      /\ macro_f1(d, g, labels) = IF R = {} THEN 0 ELSE MeanOf(v)
  BY DEF macro_f1, Seen, ScoreOf
<1>2. R \in SUBSET S
  BY DEF Seen, ToSet, Corrected
<1>3. \A l \in S \ R : l \notin ToSet(g)
  BY DEF Seen
<1>4. /\ IsFiniteSet(S) /\ Summable(w, S) /\ DOMAIN w = S
      /\ \A l \in S : /\ 2 * Hits(c, g, l) + Wrong(c, g, l) # 0
                      /\ w[l] \in 0..One
                      /\ l \notin ToSet(g) => w[l] = 0
  BY SeenClasses
<1>5. /\ IsFiniteSet(R) /\ Summable(v, R) /\ DOMAIN v = R
      /\ \A l \in R : 2 * Hits(d, g, l) + Wrong(d, g, l) # 0 /\ v[l] \in 0..One
  BY SeenClasses
<1>6. \A l \in R : w[l] <= v[l]
  <2> SUFFICES ASSUME NEW l \in R PROVE w[l] <= v[l]
    OBVIOUS
  <2>1. /\ Hits(c, g, l) \in Nat /\ Wrong(c, g, l) \in Nat
        /\ Hits(d, g, l) \in Nat /\ Wrong(d, g, l) \in Nat
    BY HitsAndWrong
  <2>2. Hits(c, g, l) <= Hits(d, g, l) /\ Wrong(d, g, l) <= Wrong(c, g, l)
    BY CorrectedCounts
  <2>3. /\ 2 * Hits(c, g, l) + Wrong(c, g, l) # 0
        /\ 2 * Hits(d, g, l) + Wrong(d, g, l) # 0
    BY <1>2, <1>4, <1>5
  <2>4. F1(Hits(c, g, l), Wrong(c, g, l)) <= F1(Hits(d, g, l), Wrong(d, g, l))
    BY <2>1, <2>2, <2>3, ClassF1
  <2>5. l \in S
    BY <1>2
  <2> QED
    BY <2>4, <2>5 DEF ScoreOf
<1> DEFINE a == SumFunctionOnSet(w, S)
           b == SumFunctionOnSet(v, R)
           n == Cardinality(S)
           m == Cardinality(R)
<1> HIDE DEF w, v, S, R
<1>7. a \in Int /\ b \in Int /\ a <= b
  <2>1. a = SumFunctionOnSet(w, R)
    BY <1>2, <1>3, <1>4, SumSupport
  <2>2. Summable(w, R)
    BY <1>2, <1>4, SummableSubset
  <2>3. SumFunctionOnSet(w, R) <= b
    BY <1>5, <1>6, <2>2, SumAtMost
  <2>4. a \in Int /\ b \in Int
    BY <1>4, <1>5, SumFirst
  <2> QED
    BY <2>1, <2>3, <2>4
<1>8. 0 <= a
  <2> DEFINE zero == [l \in S |-> 0]
  <2>1. \A l \in S : zero[l] = 0
    OBVIOUS
  <2> HIDE DEF zero
  <2>2. Summable(zero, S) /\ SumFunctionOnSet(zero, S) = 0 * n
    BY <1>4, <2>1, SumConstant
  <2>3. n \in Nat
    BY <1>4, FS_CardinalityType
  <2>4. \A l \in S : zero[l] <= w[l]
    BY <1>4, <2>1, ScoreAssumption
  <2>5. SumFunctionOnSet(zero, S) <= a
    BY <1>4, <2>2, <2>4, SumAtMost
  <2> QED
    BY <2>2, <2>3, <2>5
<1>9. n \in Nat /\ m \in Nat /\ m <= n /\ (n = 0 <=> S = {}) /\ (m = 0 <=> R = {})
  BY <1>2, <1>4, <1>5, FS_CardinalityType, FS_EmptySet, FS_Subset
<1>10. CASE R = {}
  <2>1. b = 0
    BY <1>5, <1>10, SumFirst
  <2>2. macro_f1(c, g, labels) = 0
    <3>1. CASE S = {}
      BY <1>1, <3>1
    <3>2. CASE S # {}
      <4>1. MeanOf(w) = a \div n /\ n # 0
        BY <1>4, <1>9, <3>2 DEF MeanOf, SumFunction
      <4>2. a = 0
        BY <1>7, <1>8, <2>1
      <4> HIDE DEF a, n
      <4>3. a \div n = 0
        BY <1>9, <4>1, <4>2
      <4> QED
        BY <1>1, <3>2, <4>1, <4>3
    <3> QED
      BY <3>1, <3>2
  <2> QED
    BY <1>1, <1>10, <2>2
<1>11. CASE R # {}
  <2>1. S # {}
    BY <1>2, <1>11
  <2>2. MeanOf(w) = a \div n /\ MeanOf(v) = b \div m /\ n # 0 /\ m # 0
    BY <1>4, <1>5, <1>9, <1>11, <2>1 DEF MeanOf, SumFunction
  <2> HIDE DEF a, b, n, m
  <2>3. a \div n <= b \div m
    <3> DEFINE p == a \div n
               q == b \div m
    <3>1. p \in Int /\ q \in Int /\ n * p <= a /\ b < m * q + m /\ 0 <= p
      BY <1>7, <1>8, <1>9, <2>2
    <3> HIDE DEF p, q
    <3>2. m * p <= n * p
      BY <1>9, <3>1
    <3>3. m * p < m * q + m
      BY <1>7, <1>9, <3>1, <3>2
    <3>4. p < q + 1
      BY <1>9, <2>2, <3>1, <3>3
    <3> QED
      BY <3>1, <3>4 DEF p, q
  <2> QED
    BY <1>1, <1>11, <2>1, <2>2, <2>3
<1> QED
  BY <1>10, <1>11

LEMMA NothingWrong ==
  ASSUME NEW D, IsFiniteSet(D), NEW c, NEW d, NEW g, DOMAIN g = D,
         Corrected(D, c, d, g), NEW l
  PROVE  /\ (\A i \in D : c[i] = g[i]) => Wrong(c, g, l) = 0
         /\ Hits(c, g, l) = 0 /\ Wrong(c, g, l) = 0 => Hits(d, g, l) = 0
<1>1. (\A i \in D : c[i] = g[i]) => Wrong(c, g, l) = 0
  BY HitsAndWrong
<1>2. ASSUME Hits(c, g, l) = 0, Wrong(c, g, l) = 0 PROVE Hits(d, g, l) = 0
  <2>1. \A i \in D : ~(c[i] = l /\ g[i] = l)
    BY <1>2, HitsAndWrong
  <2>2. \A i \in D : c[i] = l <=> g[i] = l
    BY <1>2, HitsAndWrong
  <2>3. \A i \in D : ~(d[i] = l /\ g[i] = l)
    BY <2>1, <2>2 DEF Corrected
  <2> QED
    BY <2>3, HitsAndWrong
<1> QED
  BY <1>1, <1>2

\* The same of the F1 of a flag.
LEMMA BinaryF1 ==
  ASSUME NEW D, IsFiniteSet(D), NEW c, NEW g, DOMAIN g = D
  PROVE  /\ binary_f1(c, g) \in 0..One
         /\ (\A i \in D : c[i] = g[i]) => binary_f1(c, g) = One
<1> DEFINE h == Hits(c, g, TRUE)
           e == Wrong(c, g, TRUE)
<1>1. h \in Nat /\ e \in Nat
  BY HitsAndWrong
<1>2. (\A i \in D : c[i] = g[i]) => e = 0
  <2>1. Corrected(D, c, c, g)
    BY DEF Corrected
  <2> QED
    BY <2>1, NothingWrong
<1>3. binary_f1(c, g) = IF h + e = 0 THEN One ELSE F1(h, e)
  BY DEF binary_f1
<1> HIDE DEF h, e
<1>4. h + e # 0 => 2 * h + e # 0
  BY <1>1
<1>5. h + e # 0 => F1(h, e) \in 0..One /\ (F1(h, e) = One <=> e = 0)
  BY <1>1, <1>4, ClassF1
<1>6. One \in 0..One
  BY ScoreAssumption
<1> QED
  BY <1>2, <1>3, <1>5, <1>6

LEMMA CorrectingBinaryF1 ==
  ASSUME NEW D, IsFiniteSet(D), NEW c, NEW d, NEW g, DOMAIN g = D, Corrected(D, c, d, g)
  PROVE  binary_f1(c, g) <= binary_f1(d, g)
<1> DEFINE h == Hits(c, g, TRUE)
           e == Wrong(c, g, TRUE)
           k == Hits(d, g, TRUE)
           f == Wrong(d, g, TRUE)
<1>1. h \in Nat /\ e \in Nat /\ k \in Nat /\ f \in Nat /\ h <= k /\ f <= e
  BY HitsAndWrong, CorrectedCounts
<1>2. h = 0 /\ e = 0 => k = 0
  <2>1. PICK yes : yes = TRUE
    OBVIOUS
  <2>2. Hits(c, g, yes) = 0 /\ Wrong(c, g, yes) = 0 => Hits(d, g, yes) = 0
    BY NothingWrong
  <2> QED
    BY <2>1, <2>2
<1>3. /\ binary_f1(c, g) = IF h + e = 0 THEN One ELSE F1(h, e)
      /\ binary_f1(d, g) = IF k + f = 0 THEN One ELSE F1(k, f)
  BY DEF binary_f1
<1>4. binary_f1(c, g) \in 0..One
  BY BinaryF1
<1> HIDE DEF h, e, k, f
<1>5. CASE k + f = 0
  BY <1>3, <1>4, <1>5, ScoreAssumption
<1>6. CASE k + f # 0
  <2>1. h + e # 0
    BY <1>1, <1>2, <1>6
  <2>2. 2 * h + e # 0 /\ 2 * k + f # 0
    BY <1>1, <1>6, <2>1
  <2>3. F1(h, e) <= F1(k, f)
    BY <1>1, <2>2, ClassF1
  <2> QED
    BY <1>3, <1>6, <2>1, <2>3
<1> QED
  BY <1>5, <1>6

----------------------------------------------------------------------------
(* Percentiles.                                                            *)

UpTo(values, v) == Cardinality({i \in DOMAIN values : values[i] <= v})
From(values, v) == Cardinality({i \in DOMAIN values : values[i] >= v})
Below(values, v) == Cardinality({i \in DOMAIN values : values[i] < v})

LEMMA Ranks ==
  ASSUME NEW values, IsFiniteSet(DOMAIN values), \A i \in DOMAIN values : values[i] \in Int,
         NEW v \in Int
  PROVE  /\ UpTo(values, v) \in Nat /\ From(values, v) \in Nat /\ Below(values, v) \in Nat
         /\ From(values, v) = Cardinality(DOMAIN values) - Below(values, v)
<1> DEFINE N == DOMAIN values
           B == {i \in N : values[i] < v}
           F == {i \in N : values[i] >= v}
           U == {i \in N : values[i] <= v}
<1>1. U \in SUBSET N /\ F \in SUBSET N /\ B \in SUBSET N
  OBVIOUS
<1>2. IsFiniteSet(U) /\ IsFiniteSet(F) /\ IsFiniteSet(B)
  BY <1>1, FS_Subset
<1>3. N = F \cup B /\ F \cap B = {}
  OBVIOUS
<1> HIDE DEF U, F, B, N
<1>4. Cardinality(N) = Cardinality(F) + Cardinality(B) - Cardinality(F \cap B)
  BY <1>2, <1>3, FS_Union
<1>5. Cardinality(F \cap B) = 0
  BY <1>3, FS_EmptySet
<1>6. Cardinality(U) \in Nat /\ Cardinality(F) \in Nat /\ Cardinality(B) \in Nat
  BY <1>2, FS_CardinalityType
<1> DEFINE n == Cardinality(N)
           f == Cardinality(F)
           b == Cardinality(B)
           o == Cardinality(F \cap B)
<1>7. n = f + b - o /\ o = 0 /\ f \in Nat /\ b \in Nat
  BY <1>4, <1>5, <1>6
<1> HIDE DEF n, f, b, o
<1>8. f = n - b
  BY <1>7
<1> QED
  BY <1>6, <1>8 DEF UpTo, From, Below, U, F, B, N, n, f, b

\* At rank k there is a value with less than k below it and at least k up to it.
LEMMA RankExists ==
  ASSUME NEW values, IsFiniteSet(DOMAIN values), \A i \in DOMAIN values : values[i] \in Int,
         NEW k \in 1..Cardinality(DOMAIN values)
  PROVE  \E v \in ToSet(values) : Below(values, v) < k /\ UpTo(values, v) >= k
<1> DEFINE N == DOMAIN values
           V == {v \in ToSet(values) : UpTo(values, v) >= k}
<1>1. ToSet(values) \in SUBSET Int /\ IsFiniteSet(ToSet(values))
  BY ImageFinite DEF ToSet
<1>2. Cardinality(N) \in Nat /\ N # {}
  BY FS_CardinalityType, FS_EmptySet
<1>3. ToSet(values) # {}
  BY <1>2 DEF ToSet
<1>4. V # {}
  <2> DEFINE top == Max(ToSet(values))
  <2>1. top \in ToSet(values) /\ \A y \in ToSet(values) : y <= top
    BY <1>1, <1>3, MaxMin
  <2>2. {i \in N : values[i] <= top} = N
    BY <2>1 DEF ToSet
  <2>3. UpTo(values, top) >= k
    BY <1>2, <2>2 DEF UpTo
  <2> QED
    BY <2>1, <2>3
<1>5. V \in SUBSET Int /\ IsFiniteSet(V)
  <2>1. V \in SUBSET ToSet(values)
    OBVIOUS
  <2> QED
    BY <1>1, <2>1, FS_Subset
<1> DEFINE v == Min(V)
<1>6. v \in V /\ \A y \in V : v <= y
  BY <1>4, <1>5, MaxMin
<1> HIDE DEF v
<1>7. v \in Int /\ Below(values, v) \in Nat
  BY <1>1, <1>6, Ranks
<1>8. ASSUME Below(values, v) >= k PROVE FALSE
  <2> DEFINE B == {i \in N : values[i] < v}
             W == {values[i] : i \in B}
             u == Max(W)
  <2>1. IsFiniteSet(B)
    <3>1. B \in SUBSET N
      OBVIOUS
    <3> QED
      BY <3>1, FS_Subset
  <2>2. B # {}
    <3>1. Cardinality(B) # 0
      BY <1>7, <1>8 DEF Below
    <3> QED
      BY <3>1, FS_EmptySet
  <2>3. W \in SUBSET Int /\ W # {}
    BY <2>2
  <2>4. IsFiniteSet(W)
    BY <2>1, ImageFinite
  <2>5. u \in W /\ \A y \in W : y <= u
    BY <2>3, <2>4, MaxMin
  <2> HIDE DEF u
  <2>6. u \in ToSet(values) /\ u < v /\ u \in Int
    BY <2>5 DEF ToSet
  <2>7. {i \in N : values[i] <= u} = B
    BY <1>7, <2>5, <2>6
  <2>8. UpTo(values, u) >= k
    BY <1>8, <2>7 DEF UpTo, Below
  <2>9. u \in V
    BY <2>6, <2>8
  <2> QED
    BY <1>6, <1>7, <2>6, <2>9
<1> QED
  BY <1>6, <1>7, <1>8

LEMMA SortedRight ==
  ASSUME NEW values, IsFiniteSet(DOMAIN values), \A i \in DOMAIN values : values[i] \in Int
  PROVE  LET n == Cardinality(DOMAIN values)
         IN  /\ n \in Nat /\ Sorted(values) \in Seq(ToSet(values)) /\ Len(Sorted(values)) = n
             /\ \A k \in 1..n : /\ Sorted(values)[k] \in ToSet(values)
                                /\ Below(values, Sorted(values)[k]) < k
                                /\ UpTo(values, Sorted(values)[k]) >= k
<1> DEFINE n == Cardinality(DOMAIN values)
           At(k) == CHOOSE v \in ToSet(values) : Below(values, v) < k /\ UpTo(values, v) >= k
           s == [k \in 1..n |-> At(k)]
<1>1. n \in Nat
  BY FS_CardinalityType
<1>2. Sorted(values) = s
  BY DEF Sorted, Below, UpTo
<1>3. ASSUME NEW k \in 1..n
      PROVE  /\ At(k) \in ToSet(values)
             /\ Below(values, At(k)) < k /\ UpTo(values, At(k)) >= k
  BY RankExists
<1> HIDE DEF At, n
<1>4. s \in [1..n -> ToSet(values)]
  BY <1>3
<1>5. s \in Seq(ToSet(values)) /\ Len(s) = n
  BY <1>1, <1>4, IsASeq, LenProperties
<1> QED
  BY <1>1, <1>2, <1>3, <1>5 DEF n

\* The rank a percentile of n values is taken at, when c are cut at either end.
Rank(n, percent) ==
  LET m == n - 2 * Cut(n)
  IN  Cut(n) + Min({(m * percent) \div 100 + 1, m})

LEMMA MinOfTwo ==
  ASSUME NEW a \in Int, NEW b \in Int PROVE Min({a, b}) = IF a <= b THEN a ELSE b
<1>1. {a, b} \in SUBSET Int /\ IsFiniteSet({a, b}) /\ {a, b} # {}
  <2>1. IsFiniteSet({a}) /\ {a, b} = {a} \cup {b}
    BY FS_Singleton
  <2> QED
    BY <2>1, FS_AddElement
<1>2. Min({a, b}) \in {a, b} /\ \A y \in {a, b} : Min({a, b}) <= y
  BY <1>1, MaxMin
<1> QED
  BY <1>2

LEMMA RankBounds ==
  ASSUME NEW n \in Nat \ {0}, NEW percent \in 0..100
  PROVE  /\ Rank(n, percent) \in 1..n
         /\ n >= 20 => Rank(n, percent) < n
         /\ percent = 50 => 2 * Rank(n, percent) >= n /\ 2 * (n - Rank(n, percent) + 1) >= n
         /\ percent = 95 => 10 * Rank(n, percent) >= 9 * n
<1> DEFINE c == (n * 5) \div 100
           m == n - 2 * c
           q == (m * percent) \div 100
           r == c + (IF q + 1 <= m THEN q + 1 ELSE m)
<1>1. c \in Nat /\ 20 * c <= n /\ n < 20 * c + 20
  OBVIOUS
<1>2. m \in Nat \ {0}
  BY <1>1
<1>3. q \in Nat /\ 100 * q <= m * percent /\ m * percent < 100 * q + 100
  <2> DEFINE a == m * percent
  <2>1. a \in Nat
    BY <1>2
  <2> HIDE DEF a
  <2>2. a \div 100 \in Nat /\ 100 * (a \div 100) <= a /\ a < 100 * (a \div 100) + 100
    BY <2>1
  <2> QED
    BY <2>2 DEF a
<1>4. Cut(n) = c
  BY DEF Cut, DEFAULT_TRIM_PCT
<1>5. Rank(n, percent) = r
  <2>1. Min({q + 1, m}) = IF q + 1 <= m THEN q + 1 ELSE m
    BY <1>2, <1>3, MinOfTwo
  <2> QED
    BY <1>4, <2>1 DEF Rank
<1> HIDE DEF q, c
<1>6. r \in 1..n
  BY <1>1, <1>2, <1>3
<1>7. n >= 20 => r < n
  BY <1>1, <1>2, <1>3
<1>8. ASSUME percent = 50 PROVE 2 * r >= n /\ 2 * (n - r + 1) >= n
  <2>1. 2 * q <= m /\ m < 2 * q + 2
    BY <1>2, <1>3, <1>8
  <2> QED
    BY <1>1, <1>2, <1>3, <2>1
<1>9. ASSUME percent = 95 PROVE 10 * r >= 9 * n
  <2>1. 20 * q <= 19 * m /\ 19 * m < 20 * q + 20
    BY <1>2, <1>3, <1>9
  <2> QED
    BY <1>1, <1>2, <1>3, <2>1
<1> QED
  BY <1>5, <1>6, <1>7, <1>8, <1>9

\* A percentile is the value at its rank.
LEMMA PercentileAtRank ==
  ASSUME NEW values, IsFiniteSet(DOMAIN values), \A i \in DOMAIN values : values[i] \in Int,
         DOMAIN values # {}, NEW percent \in 0..100
  PROVE  /\ Cardinality(DOMAIN values) \in Nat \ {0}
         /\ trimmed_percentile(values, percent)
              = Sorted(values)[Rank(Cardinality(DOMAIN values), percent)]
<1> DEFINE ranked == Sorted(values)
           n == Cardinality(DOMAIN values)
           c == Cut(n)
           m == n - 2 * c
           at == Min({(m * percent) \div 100 + 1, m})
           cutoff == SubSeq(ranked, c + 1, n - c)
<1>1. n \in Nat \ {0}
  BY FS_CardinalityType, FS_EmptySet
<1>2. ranked \in Seq(ToSet(values)) /\ Len(ranked) = n
  BY SortedRight
<1>3. c \in Nat /\ 2 * c < n
  BY <1>1 DEF Cut, DEFAULT_TRIM_PCT
<1>4. Trimmed(values) = cutoff
  BY <1>2, <1>3 DEF Trimmed
<1> HIDE DEF ranked, n, c
<1>5. Len(cutoff) = m /\ \A k \in 1..m : cutoff[k] = ranked[c + k]
  <2>1. c + 1 \in 1..n /\ n - c \in (c + 1) - 1..Len(ranked)
    BY <1>1, <1>2, <1>3
  <2>2. n - c - (c + 1) + 1 = m
    BY <1>1, <1>3
  <2>3. \A k \in 1..m : c + 1 + k - 1 = c + k
    BY <1>1, <1>3
  <2> QED
    BY <1>1, <1>2, <1>3, <2>1, <2>2, <2>3, SubSeqProperties
<1>6. at \in 1..m
  <2>1. m \in Nat \ {0}
    BY <1>1, <1>3
  <2> DEFINE q == (m * percent) \div 100
  <2>2. q \in Nat
    <3> DEFINE a == m * percent
    <3>1. a \in Nat
      BY <2>1
    <3> HIDE DEF a
    <3>2. a \div 100 \in Nat
      BY <3>1
    <3> QED
      BY <3>2 DEF a
  <2> HIDE DEF q
  <2>3. Min({q + 1, m}) = IF q + 1 <= m THEN q + 1 ELSE m
    BY <2>1, <2>2, MinOfTwo
  <2>4. at = Min({q + 1, m})
    BY DEF q
  <2> HIDE DEF at, m
  <2> QED
    BY <2>1, <2>2, <2>3, <2>4
<1>7. trimmed_percentile(values, percent) = cutoff[at]
  BY <1>4, <1>5 DEF trimmed_percentile
<1>8. Rank(n, percent) = c + at
  BY DEF Rank, c
<1> QED
  BY <1>1, <1>5, <1>6, <1>7, <1>8 DEF ranked, n

\* How many values are up to the percentiles and from them on.
LEMMA PercentilesRanked ==
  ASSUME NEW values, IsFiniteSet(DOMAIN values), \A i \in DOMAIN values : values[i] \in Int,
         DOMAIN values # {}
  PROVE  LET n == Cardinality(DOMAIN values)
             p50 == trimmed_percentile(values, 50)
             p95 == trimmed_percentile(values, 95)
         IN  /\ n \in Nat \ {0} /\ p50 \in ToSet(values) /\ p95 \in ToSet(values)
             /\ 2 * UpTo(values, p50) >= n /\ 2 * From(values, p50) >= n
             /\ 10 * UpTo(values, p95) >= 9 * n
             /\ n >= 20 => From(values, p95) >= 2
<1> DEFINE n == Cardinality(DOMAIN values)
           At(percent) == trimmed_percentile(values, percent)
<1>1. n \in Nat \ {0}
  BY FS_CardinalityType, FS_EmptySet
<1>2. ASSUME NEW percent \in 0..100
      PROVE  /\ At(percent) \in ToSet(values)
             /\ UpTo(values, At(percent)) \in Nat /\ From(values, At(percent)) \in Int
             /\ UpTo(values, At(percent)) >= Rank(n, percent)
             /\ From(values, At(percent)) >= n - Rank(n, percent) + 1
  <2> DEFINE r == Rank(n, percent)
             v == Sorted(values)[r]
  <2>1. r \in 1..n
    BY <1>1, RankBounds
  <2>2. At(percent) = v
    BY PercentileAtRank
  <2>3. v \in ToSet(values) /\ Below(values, v) < r /\ UpTo(values, v) >= r
    BY <2>1, SortedRight
  <2>4. v \in Int
    BY <2>3 DEF ToSet
  <2>5. /\ UpTo(values, v) \in Nat /\ From(values, v) \in Nat /\ Below(values, v) \in Nat
        /\ From(values, v) = n - Below(values, v)
    BY <2>4, Ranks
  <2> HIDE DEF n, At, r, v
  <2>6. From(values, v) >= n - r + 1
    BY <1>1, <2>1, <2>3, <2>5
  <2> QED
    BY <2>2, <2>3, <2>5, <2>6 DEF r
<1>3. /\ Rank(n, 50) \in 1..n /\ 2 * Rank(n, 50) >= n /\ 2 * (n - Rank(n, 50) + 1) >= n
      /\ Rank(n, 95) \in 1..n /\ 10 * Rank(n, 95) >= 9 * n
      /\ n >= 20 => Rank(n, 95) < n
  <2>1. 50 \in 0..100 /\ 95 \in 0..100
    OBVIOUS
  <2> QED
    BY <1>1, <2>1, RankBounds
<1>4. /\ At(50) \in ToSet(values) /\ At(95) \in ToSet(values)
      /\ UpTo(values, At(50)) \in Nat /\ From(values, At(50)) \in Int
      /\ UpTo(values, At(95)) \in Nat /\ From(values, At(95)) \in Int
      /\ UpTo(values, At(50)) >= Rank(n, 50)
      /\ From(values, At(50)) >= n - Rank(n, 50) + 1
      /\ UpTo(values, At(95)) >= Rank(n, 95)
      /\ From(values, At(95)) >= n - Rank(n, 95) + 1
  BY <1>2
<1> HIDE DEF n, At
<1>5. 2 * UpTo(values, At(50)) >= n /\ 2 * From(values, At(50)) >= n
  BY <1>1, <1>3, <1>4
<1>6. 10 * UpTo(values, At(95)) >= 9 * n /\ (n >= 20 => From(values, At(95)) >= 2)
  BY <1>1, <1>3, <1>4
<1> QED
  BY <1>1, <1>4, <1>5, <1>6 DEF n, At

----------------------------------------------------------------------------
(* The layers of a task's score lie between 0 and One.                     *)

LEMMA MaxOfTwo ==
  ASSUME NEW a \in Int, NEW b \in Int PROVE Max({a, b}) = IF a <= b THEN b ELSE a
<1>1. {a, b} \in SUBSET Int /\ IsFiniteSet({a, b}) /\ {a, b} # {}
  <2>1. IsFiniteSet({a}) /\ {a, b} = {a} \cup {b}
    BY FS_Singleton
  <2> QED
    BY <2>1, FS_AddElement
<1>2. Max({a, b}) \in {a, b} /\ \A y \in {a, b} : y <= Max({a, b})
  BY <1>1, MaxMin
<1> QED
  BY <1>2

LEMMA NormalizedBetween ==
  ASSUME NEW value \in Int, NEW best \in Int, NEW worst \in Int, best <= worst
  PROVE  normalize_linear(value, best, worst) \in 0..One
<1>1. One \in Nat
  BY ScoreAssumption
<1>2. CASE best = worst
  BY <1>1, <1>2 DEF normalize_linear
<1>3. CASE best # worst
  <2> DEFINE x == Frac(worst - value, worst - best)
             y == Min({One, x})
  <2>1. x \in Int
    <3> DEFINE a == (worst - value) * One
               d == worst - best
    <3>1. a \in Int /\ d \in Nat \ {0}
      BY <1>1, <1>3
    <3> HIDE DEF a, d
    <3>2. a \div d \in Int
      BY <3>1
    <3> QED
      BY <3>2 DEF Frac, a, d
  <2> HIDE DEF x
  <2>2. y = IF One <= x THEN One ELSE x
    BY <1>1, <2>1, MinOfTwo
  <2>3. y \in Int /\ y <= One
    BY <1>1, <2>1, <2>2
  <2> HIDE DEF y
  <2>4. Max({0, y}) = IF 0 <= y THEN y ELSE 0
    BY <2>3, MaxOfTwo
  <2>5. normalize_linear(value, best, worst) = Max({0, y})
    BY <1>3 DEF normalize_linear, x, y
  <2> QED
    BY <1>1, <2>3, <2>4, <2>5
<1> QED
  BY <1>2, <1>3

LEMMA PercentileInt ==
  ASSUME NEW results, IsFiniteSet(DOMAIN results), \A i \in DOMAIN results : results[i].ms \in Int
  PROVE  /\ IsFiniteSet(DOMAIN Latencies(results))
         /\ \A i \in DOMAIN Latencies(results) : Latencies(results)[i] \in Int
         /\ latency_p50_ms(results) \in Int /\ latency_p95_ms(results) \in Int
<1> DEFINE values == Latencies(results)
<1>1. DOMAIN values \in SUBSET DOMAIN results /\ \A i \in DOMAIN values : values[i] \in Int
  BY DEF Latencies
<1>2. IsFiniteSet(DOMAIN values)
  BY <1>1, FS_Subset
<1> HIDE DEF values
<1>3. CASE DOMAIN values = {}
  BY <1>1, <1>2, <1>3 DEF latency_p50_ms, latency_p95_ms, trimmed_percentile, values
<1>4. CASE DOMAIN values # {}
  <2>1. /\ trimmed_percentile(values, 50) \in ToSet(values)
        /\ trimmed_percentile(values, 95) \in ToSet(values)
    BY <1>1, <1>2, <1>4, PercentilesRanked
  <2>2. ToSet(values) \subseteq Int
    BY <1>1 DEF ToSet
  <2> QED
    BY <1>1, <1>2, <2>1, <2>2 DEF latency_p50_ms, latency_p95_ms, values
<1> QED
  BY <1>3, <1>4

LEMMA LatencyBetween ==
  ASSUME NEW results, IsFiniteSet(DOMAIN results), \A i \in DOMAIN results : results[i].ms \in Int,
         NEW task, task.best50 \in Int, task.worst50 \in Int, task.best50 <= task.worst50,
         task.best95 \in Int, task.worst95 \in Int, task.best95 <= task.worst95
  PROVE  compute_latency_score(results, task) \in 0..One
<1> DEFINE a == normalize_linear(latency_p50_ms(results), task.best50, task.worst50)
           b == normalize_linear(latency_p95_ms(results), task.best95, task.worst95)
<1>1. a \in 0..One /\ b \in 0..One
  BY PercentileInt, NormalizedBetween
<1>2. compute_latency_score(results, task) = (50 * a + 50 * b) \div 100
  BY DEF compute_latency_score, Blend2
<1> HIDE DEF a, b
<1> QED
  BY <1>1, <1>2, ScoreAssumption

\* The longest known prefix of a model's name has its price.
LEMMA TierBetween ==
  ASSUME NEW P, NEW name \in Seq(P)
  PROVE  lookup_model_tier_score(name) \in 0..One
<1> DEFINE undated == IF name # <<>> /\ Last(name) \in Dates THEN Front(name) ELSE name
           plain == normalize_model_name(name)
           known == {prefix \in DOMAIN TierScores : IsPrefix(prefix, plain)}
           longest == CHOOSE p \in known : \A q \in known : Len(q) <= Len(p)
<1>1. undated \in Seq(P)
  <2>1. ASSUME name # <<>> PROVE Front(name) \in Seq(P)
    <3>1. \A i \in 1..Len(name) - 1 : name[i] \in P
      BY LenProperties, ElementOfSeq
    <3>2. 1 \in Int /\ Len(name) - 1 \in Int
      BY LenProperties
    <3> QED
      BY <3>1, <3>2, SubSeqProperties DEF Front
  <2> QED
    BY <2>1
<1>2. Len(plain) \in Nat
  <2> HIDE DEF undated
  <2>1. plain = IF Len(undated) > 1 /\ undated[2] \in DOMAIN Dotted
                THEN [undated EXCEPT ![2] = Dotted[@]] ELSE undated
    BY DEF normalize_model_name, undated
  <2>2. undated \in Seq(P \cup {Dotted[undated[2]]})
    BY <1>1, SeqMonotonic
  <2>3. Len(undated) > 1 => [undated EXCEPT ![2] = Dotted[undated[2]]]
                              \in Seq(P \cup {Dotted[undated[2]]})
    <3>1. Len(undated) \in Nat
      BY <1>1, LenProperties
    <3> QED
      BY <2>2, <3>1, ExceptSeq
  <2>4. plain \in Seq(P \cup {Dotted[undated[2]]})
    BY <2>1, <2>2, <2>3
  <2> QED
    BY <2>4, LenProperties
<1> HIDE DEF plain
<1>3. ASSUME known # {} PROVE longest \in known
  <2> DEFINE L == {Len(p) : p \in known}
  <2>1. \A p \in known : Len(p) \in 0..Len(plain)
    <3>1. \A p \in known : p \in Seq(STRING) /\ Len(p) <= Len(plain)
      BY TiersAssumption DEF IsPrefix
    <3> QED
      BY <1>2, <3>1, LenProperties
  <2>2. L \in SUBSET (0..Len(plain)) /\ IsFiniteSet(0..Len(plain))
    <3>1. 0 \in Int /\ Len(plain) \in Int
      BY <1>2
    <3> QED
      BY <2>1, <3>1, FS_Interval
  <2>3. IsFiniteSet(L) /\ L \in SUBSET Int /\ L # {}
    <3>1. IsFiniteSet(L)
      BY <2>2, FS_Subset
    <3>2. L # {}
      BY <1>3
    <3>3. 0..Len(plain) \in SUBSET Int
      OBVIOUS
    <3> QED
      BY <2>2, <3>1, <3>2, <3>3
  <2>4. Max(L) \in L /\ \A n \in L : n <= Max(L)
    BY <2>3, MaxMin
  <2>5. PICK p \in known : Len(p) = Max(L)
    BY <2>4
  <2>6. \A q \in known : Len(q) <= Len(p)
    BY <2>4, <2>5
  <2> QED
    BY <2>6
<1>4. ASSUME known # {} PROVE Frac(TierScores[longest], 100) \in 0..One
  <2> DEFINE price == TierScores[longest]
  <2>1. price \in 0..100
    BY <1>3, <1>4, TiersAssumption
  <2> HIDE DEF price
  <2>2. price \in Nat /\ price <= 100 /\ 100 \in Nat \ {0}
    BY <2>1
  <2>3. Frac(price, 100) \in 0..One
    BY <2>2, FracBetween
  <2> QED
    BY <2>3 DEF price
<1>5. lookup_model_tier_score(name)
        = IF name = <<>> \/ known = {} THEN 0 ELSE Frac(TierScores[longest], 100)
  BY DEF lookup_model_tier_score, plain
<1> QED
  BY <1>4, <1>5, ScoreAssumption

LEMMA CostBetween ==
  ASSUME NEW P, NEW results, IsFiniteSet(DOMAIN results), DOMAIN results \in SUBSET Int,
         \A i \in DOMAIN results : results[i].model \in Seq(P)
  PROVE  cost_score(results) \in 0..One
<1> DEFINE named == {i \in DOMAIN results : results[i].model # <<>>}
           Alike(i) == Cardinality({j \in named : results[j].model = results[i].model})
           top == {i \in named : \A j \in named : Alike(i) >= Alike(j)}
<1>1. CASE named = {}
  BY <1>1, EmptySeq, TierBetween DEF cost_score, primary_model
<1>2. CASE named # {}
  <2>1. IsFiniteSet(named)
    <3>1. named \in SUBSET DOMAIN results
      OBVIOUS
    <3> QED
      BY <3>1, FS_Subset
  <2>2. \A i \in named : Alike(i) \in Nat
    <3> TAKE i \in named
    <3>1. {j \in named : results[j].model = results[i].model} \in SUBSET named
      OBVIOUS
    <3> QED
      BY <2>1, <3>1, FS_Subset, FS_CardinalityType
  <2> HIDE DEF Alike
  <2>3. top # {}
    <3> DEFINE f == [i \in named |-> Alike(i)]
               A == {f[i] : i \in named}
    <3>1. A \in SUBSET Int /\ A # {}
      <4>1. \A i \in named : f[i] \in Int
        BY <2>2
      <4> HIDE DEF f
      <4> QED
        BY <1>2, <4>1
    <3>2. IsFiniteSet(A)
      BY <2>1, ImageFinite
    <3>3. Max(A) \in A /\ \A n \in A : n <= Max(A)
      BY <3>1, <3>2, MaxMin
    <3>4. PICK i \in named : Alike(i) = Max(A)
      BY <3>3
    <3>5. \A j \in named : Alike(j) <= Alike(i)
      BY <3>3, <3>4
    <3> QED
      BY <2>2, <3>5
  <2>4. top \in SUBSET named /\ top \in SUBSET Int
    OBVIOUS
  <2>5. IsFiniteSet(top)
    BY <2>1, <2>4, FS_Subset
  <2> HIDE DEF top
  <2>6. Min(top) \in top
    BY <2>3, <2>4, <2>5, MaxMin
  <2>7. primary_model(results) = results[Min(top)].model
    BY <1>2 DEF primary_model, top, Alike
  <2>8. primary_model(results) \in Seq(P)
    BY <2>4, <2>6, <2>7
  <2> QED
    BY <2>8, TierBetween DEF cost_score
<1> QED
  BY <1>1, <1>2

\* The shares of the layers add up to a whole.
LEMMA LayersBetween ==
  ASSUME NEW a \in 0..One, NEW b \in 0..One, NEW c \in 0..One
  PROVE  /\ compute_efficiency(a, b) \in 0..One
         /\ compute_robustness(a, b) \in 0..One
         /\ compute_tier1(a, b, c) \in 0..One
  BY ScoreAssumption DEF compute_efficiency, compute_robustness, compute_tier1, Blend2, Blend3

LEMMA ResilienceShare ==
  ASSUME NEW probes, IsFiniteSet(DOMAIN probes)
  PROVE  LET n == Cardinality(DOMAIN probes)
             k == Cardinality({p \in DOMAIN probes : probes[p]})
         IN  /\ n \in Nat /\ k \in Nat /\ k <= n
             /\ n # 0 => api_resilience(probes) = Frac(k, n)
             /\ api_resilience(probes) \in 0..One
<1> DEFINE n == Cardinality(DOMAIN probes)
           P == {p \in DOMAIN probes : probes[p]}
           k == Cardinality(P)
<1>1. n \in Nat /\ k \in Nat /\ k <= n
  <2>1. P \in SUBSET DOMAIN probes
    OBVIOUS
  <2> HIDE DEF P
  <2> QED
    BY <2>1, FS_Subset, FS_CardinalityType
<1>2. api_resilience(probes) = Frac(k, Max({n, 1}))
  BY DEF api_resilience
<1> HIDE DEF n, k
<1>3. Max({n, 1}) = IF n <= 1 THEN 1 ELSE n
  BY <1>1, MaxOfTwo
<1>4. Max({n, 1}) \in Nat \ {0} /\ k <= Max({n, 1}) /\ (n # 0 => Max({n, 1}) = n)
  BY <1>1, <1>3
<1>5. api_resilience(probes) \in 0..One /\ (n # 0 => api_resilience(probes) = Frac(k, n))
  BY <1>1, <1>2, <1>4, FracBetween
<1> QED
  BY <1>1, <1>5 DEF n, k

=============================================================================
