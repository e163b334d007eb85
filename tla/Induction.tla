------------------------------- MODULE Induction -------------------------------
(***************************************************************************)
(* Induction over the naturals, for a set in the place of a predicate, and *)
(* functions that are defined by recursion on a count of steps: what the   *)
(* proofs about loops need.  Both come from a theorem of the library, that *)
(* the finite subsets of a set are well-founded.                           *)
(***************************************************************************)
EXTENDS Naturals, FiniteSetTheorems, WellFoundedInduction, TLAPS

\* Every set of naturals that is not empty has a least element.
LEMMA Least ==
  ASSUME NEW T, T \subseteq Nat, T # {}
  PROVE  \E m \in T : \A k \in T : m <= k
<1> DEFINE U == {1..n : n \in T}
<1>1. \A n \in Nat : 1..n \in FiniteSubsetsOf(Nat)
  BY FS_Interval DEF FiniteSubsetsOf
<1>2. U \subseteq FiniteSubsetsOf(Nat) /\ U # {} BY <1>1
<1>3. IsWellFoundedOn(StrictSubsetOrdering(Nat), FiniteSubsetsOf(Nat))
  BY FS_StrictSubsetOrderingWellFounded
<1>4. PICK x \in U : \A y \in U : <<y, x>> \notin StrictSubsetOrdering(Nat)
  BY <1>2, <1>3, WFMin
<1>5. PICK m \in T : x = 1..m BY <1>4
<1>6. ASSUME NEW k \in T, k < m PROVE FALSE
  <2>1. 1..k \in U /\ 1..k \subseteq 1..m /\ m \notin 1..k /\ m \in 1..m BY <1>6
  <2>2. 1..k # 1..m BY <2>1
  <2>3. <<1..k, 1..m>> \in StrictSubsetOrdering(Nat)
    BY <2>1, <2>2 DEF StrictSubsetOrdering
  <2> QED BY <2>1, <2>3, <1>4, <1>5
<1> QED BY <1>6

\* What holds of 0, and of n + 1 when it holds of n, holds of all up to m.
LEMMA UpTo ==
  ASSUME NEW m \in Nat, NEW T, 0 \in T,
         \A n \in 0..m : n < m /\ n \in T => n + 1 \in T
  PROVE  \A n \in 0..m : n \in T
<1>1. SUFFICES ASSUME (0..m) \ T # {} PROVE FALSE OBVIOUS
<1> DEFINE U == (0..m) \ T
<1>2. PICK k \in U : \A i \in U : k <= i
  <2>1. U \subseteq Nat /\ U # {} BY <1>1
  <2> HIDE DEF U
  <2> QED BY <2>1, Least
<1>3. k # 0 /\ k - 1 \in 0..m /\ k - 1 < m /\ (k - 1) + 1 = k BY <1>2
<1>4. k - 1 \in T BY <1>2, <1>3
<1> QED BY <1>2, <1>3, <1>4

\* g is the course of a loop of n steps from b, each of which F gives.
IsCourse(g, n, S, b, F) ==
  /\ g \in [0..n -> S]
  /\ g[0] = b
  /\ \A k \in 1..n : g[k] = F[<<g[k - 1], k>>]

Steps(n, S) == [S \X (1..n) -> S]

\* Such a loop has a course.
LEMMA Course ==
  ASSUME NEW n \in Nat, NEW S, NEW b \in S, NEW F \in Steps(n, S)
  PROVE  \E g : IsCourse(g, n, S, b, F)
<1> USE DEF Steps
<1> DEFINE Is(g, m) == g[0] = b /\ \A k \in 1..m : g[k] = F[<<g[k - 1], k>>]
           T == {m \in 0..n : \E g \in [0..m -> S] : Is(g, m)}
<1>1. 0 \in T
  <2> DEFINE h == [k \in 0..0 |-> b]
  <2>1. h \in [0..0 -> S] /\ Is(h, 0) OBVIOUS
  <2>2. 0 \in 0..n OBVIOUS
  <2> HIDE DEF h, Is
  <2> QED BY <2>1, <2>2
<1>2. ASSUME NEW m \in 0..n, m < n, m \in T PROVE m + 1 \in T
  <2>1. PICK g \in [0..m -> S] : Is(g, m) BY <1>2
  <2> DEFINE v == F[<<g[m], m + 1>>]
             h == [k \in 0..(m + 1) |-> IF k = m + 1 THEN v ELSE g[k]]
  <2>2. v \in S BY <1>2, <2>1
  <2>3. h \in [0..(m + 1) -> S] BY <2>1, <2>2
  <2>4. h[0] = b BY <2>1
  <2>5. ASSUME NEW k \in 1..(m + 1) PROVE h[k] = F[<<h[k - 1], k>>]
    <3>1. k - 1 \in 0..m /\ h[k - 1] = g[k - 1] OBVIOUS
    <3>2. CASE k = m + 1
      <4>1. k - 1 = m /\ h[k] = v BY <3>2
      <4> QED BY <3>1, <3>2, <4>1
    <3>3. CASE k # m + 1
      <4>1. k \in 1..m /\ h[k] = g[k] BY <3>3
      <4> QED BY <2>1, <3>1, <4>1
    <3> QED BY <3>2, <3>3
  <2>6. Is(h, m + 1) BY <2>4, <2>5
  <2>7. m + 1 \in 0..n BY <1>2
  <2> HIDE DEF h, Is
  <2> QED BY <2>3, <2>6, <2>7
<1>3. \A k \in 0..n : k < n /\ k \in T => k + 1 \in T BY <1>2
<1> HIDE DEF T
<1>4. n \in T BY <1>1, <1>3, UpTo
<1> QED BY <1>4 DEF T, IsCourse

\* g is the course of n steps from b, of which F gives each, and which are in
\* A[0], A[1] and so on.
IsLoop(g, n, A, b, F) ==
  /\ g = [k \in 0..n |-> g[k]]
  /\ g[0] = b
  /\ \A k \in 1..n : g[k] = F[<<g[k - 1], k>>]
  /\ \A k \in 0..n : g[k] \in A[k]

\* Such a loop has a course, when F leads from each set to the next.
LEMMA Loop ==
  ASSUME NEW n \in Nat, NEW A, NEW b \in A[0], NEW F,
         \A k \in 1..n : \A x \in A[k - 1] : F[<<x, k>>] \in A[k]
  PROVE  \E g : IsLoop(g, n, A, b, F)
<1> DEFINE S == UNION {A[k] : k \in 0..n}
           G == [z \in S \X (1..n) |-> IF F[z] \in S THEN F[z] ELSE b]
<1>1. b \in S OBVIOUS
<1>2. G \in Steps(n, S) BY <1>1 DEF Steps
<1>3. \E g : IsCourse(g, n, S, b, G)
  <2> HIDE DEF S, G
  <2> QED BY <1>1, <1>2, Course
<1>4. PICK g : IsCourse(g, n, S, b, G) BY <1>3
<1>5. g \in [0..n -> S] /\ g[0] = b /\ \A k \in 1..n : g[k] = G[<<g[k - 1], k>>]
  BY <1>4 DEF IsCourse
<1>6. ASSUME NEW k \in 1..n, g[k - 1] \in A[k - 1]
      PROVE  g[k] = F[<<g[k - 1], k>>] /\ g[k] \in A[k]
  <2>1. F[<<g[k - 1], k>>] \in A[k] BY <1>6
  <2>2. F[<<g[k - 1], k>>] \in S BY <2>1
  <2>3. k - 1 \in 0..n OBVIOUS
  <2>4. <<g[k - 1], k>> \in S \X (1..n)
    <3>1. g[k - 1] \in S BY <1>5, <2>3
    <3> QED BY <3>1
  <2>5. G[<<g[k - 1], k>>] = F[<<g[k - 1], k>>] BY <2>2, <2>4
  <2> QED BY <1>5, <2>1, <2>5
<1> DEFINE T == {k \in 0..n : g[k] \in A[k]}
<1>7. 0 \in T BY <1>5
<1>8. \A k \in 0..n : k < n /\ k \in T => k + 1 \in T
  <2> SUFFICES ASSUME NEW k \in 0..n, k < n, k \in T PROVE k + 1 \in T OBVIOUS
  <2>1. k + 1 \in 1..n /\ (k + 1) - 1 = k /\ g[k] \in A[k] OBVIOUS
  <2>2. g[k + 1] \in A[k + 1] BY <2>1, <1>6
  <2> QED BY <2>1, <2>2
<1>9. \A k \in 0..n : k \in T
  <2> HIDE DEF T
  <2> QED BY <1>7, <1>8, UpTo
<1>10. \A k \in 0..n : g[k] \in A[k] BY <1>9
<1>11. \A k \in 1..n : g[k] = F[<<g[k - 1], k>>]
  <2> SUFFICES ASSUME NEW k \in 1..n PROVE g[k] = F[<<g[k - 1], k>>] OBVIOUS
  <2>1. g[k - 1] \in A[k - 1] BY <1>10
  <2> QED BY <2>1, <1>6
<1>12. g = [k \in 0..n |-> g[k]] BY <1>5
<1>13. IsLoop(g, n, A, b, F) BY <1>5, <1>10, <1>11, <1>12 DEF IsLoop
<1> QED BY <1>13

\* What the steps of a loop keep holds all along it.
LEMMA Stays ==
  ASSUME NEW n \in Nat, NEW A, NEW g, g[0] \in A[0],
         \A k \in 1..n : g[k - 1] \in A[k - 1] => g[k] \in A[k]
  PROVE  \A k \in 0..n : g[k] \in A[k]
<1> DEFINE T == {k \in 0..n : g[k] \in A[k]}
<1>1. 0 \in T OBVIOUS
<1>2. \A k \in 0..n : k < n /\ k \in T => k + 1 \in T
  <2> SUFFICES ASSUME NEW k \in 0..n, k < n, k \in T PROVE k + 1 \in T OBVIOUS
  <2>1. k + 1 \in 1..n /\ (k + 1) - 1 = k /\ g[k] \in A[k] OBVIOUS
  <2>2. g[k + 1] \in A[k + 1] BY <2>1
  <2> QED BY <2>1, <2>2
<1>3. \A k \in 0..n : k \in T
  <2> HIDE DEF T
  <2> QED BY <1>1, <1>2, UpTo
<1> QED BY <1>3
=============================================================================
