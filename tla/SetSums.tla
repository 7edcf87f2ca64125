------------------------------ MODULE SetSums ------------------------------
(***************************************************************************)
(* Facts about MapThenSumSet, the sum of Value over a finite set.          *)
(***************************************************************************)
EXTENDS Integers, FiniteSets, FiniteSetsExt, FiniteSetTheorems,
        WellFoundedInduction, TLAPS

CONSTANT Value(_)

Sum(S) == MapThenSumSet(Value, S)

Pick(s) == CHOOSE x \in s : TRUE

\* The equation that defines the function MapThenFoldSet recurs on.
Solves(f, A) ==
  f = [s \in SUBSET A |->
         IF s = {} THEN 0 ELSE Value(Pick(s)) + f[s \ {Pick(s)}]]

\* A non-empty family of finite sets has a member with no proper subset in it.
LEMMA MinimalMember ==
  ASSUME NEW S, IsFiniteSet(S), NEW T, T \subseteq SUBSET S, T # {}
  PROVE  \E A \in T : \A B \in T : B \subseteq A => B = A
<1>1. IsWellFoundedOn(StrictSubsetOrdering(S), SUBSET S)
  BY FS_StrictSubsetOrderingWellFounded, FS_FiniteSubsetsOfFinite
<1>2. PICK A \in T : \A B \in T : ~ (<<B, A>> \in StrictSubsetOrdering(S))
  BY <1>1, WFMin
<1>3. \A B \in T : B \subseteq A => B = A
  BY <1>2 DEF StrictSubsetOrdering
<1> QED BY <1>3

\* The element the fold picks is one of the set.
LEMMA PickIsMember == \A s : s # {} => Pick(s) \in s
BY DEF Pick

\* Two solutions of the equation agree wherever both are defined.
LEMMA Unique ==
  ASSUME NEW S, IsFiniteSet(S), NEW A \in SUBSET S, NEW B \in SUBSET S,
         NEW f, NEW g, Solves(f, A), Solves(g, B)
  PROVE  \A s \in SUBSET A : s \in SUBSET B => f[s] = g[s]
<1> DEFINE T == {s \in SUBSET S : s \subseteq A /\ s \subseteq B /\ f[s] # g[s]}
<1> SUFFICES ASSUME T # {} PROVE FALSE
  OBVIOUS
<1>1. PICK s \in T : \A r \in T : r \subseteq s => r = s
  <2>1. T \subseteq SUBSET S
    OBVIOUS
  <2> HIDE DEF T
  <2> QED BY <2>1, MinimalMember
<1> DEFINE x == Pick(s)
<1>2. s # {}
  BY <1>1 DEF Solves
<1>3. x \in s
  BY <1>2, PickIsMember
<1> HIDE DEF x
<1>4. s \ {x} \notin T
  BY <1>1, <1>3
<1>5. f[s \ {x}] = g[s \ {x}]
  BY <1>4, <1>1
<1>6. f[s] = Value(x) + f[s \ {x}]
  BY <1>2, <1>1 DEF Solves, x
<1>7. g[s] = Value(x) + g[s \ {x}]
  BY <1>2, <1>1 DEF Solves, x
<1> QED BY <1>1, <1>5, <1>6, <1>7

\* The equation has a solution on every finite set.
LEMMA Solvable ==
  ASSUME NEW S, IsFiniteSet(S)
  PROVE  \E f : Solves(f, S)
<1> DEFINE T == {A \in SUBSET S : ~ \E f : Solves(f, A)}
<1> SUFFICES ASSUME T # {} PROVE FALSE
  OBVIOUS
<1>1. PICK A \in T : \A B \in T : B \subseteq A => B = A
  <2>1. T \subseteq SUBSET S
    OBVIOUS
  <2> HIDE DEF T
  <2> QED BY <2>1, MinimalMember
<1> DEFINE h(B) == CHOOSE f : Solves(f, B)
<1>2. \A B \in SUBSET A : B # A => Solves(h(B), B)
  BY <1>1
<1> DEFINE f == [s \in SUBSET A |->
                   IF s = {} THEN 0 ELSE Value(Pick(s)) + h(s \ {Pick(s)})[s \ {Pick(s)}]]
<1> HIDE DEF h
<1>3. ASSUME NEW s \in SUBSET A, s # {}
      PROVE  f[s \ {Pick(s)}] = h(s \ {Pick(s)})[s \ {Pick(s)}]
  <2> DEFINE r == s \ {Pick(s)}
  <2>1. Pick(s) \in s
    BY <1>3, PickIsMember
  <2>2. r \in SUBSET A /\ r # A
    BY <2>1
  <2>3. Solves(h(r), r)
    BY <1>2, <2>2
  <2>4. CASE r = {}
    <3>1. f[r] = 0
      BY <2>4
    <3>2. h(r)[r] = 0
      BY <2>3, <2>4 DEF Solves
    <3> QED BY <3>1, <3>2
  <2>5. CASE r # {}
    <3> DEFINE q == r \ {Pick(r)}
    <3>1. Pick(r) \in r
      BY <2>5, PickIsMember
    <3>2. Solves(h(q), q)
      BY <1>2, <2>2, <3>1
    <3>3. h(r)[q] = h(q)[q]
      <4>1. A \in SUBSET S /\ r \in SUBSET S /\ q \in SUBSET S /\ q \in SUBSET r
        BY <2>2, <1>1
      <4> QED BY <4>1, <2>3, <3>2, Unique
    <3>4. h(r)[r] = Value(Pick(r)) + h(r)[q]
      <4> HIDE DEF r
      <4> QED BY <2>3, <2>5 DEF Solves
    <3>5. f[r] = Value(Pick(r)) + h(q)[q]
      <4> HIDE DEF r
      <4> QED BY <2>2, <2>5
    <3> QED BY <3>3, <3>4, <3>5
  <2> QED BY <2>4, <2>5
<1>4. Solves(f, A)
  BY <1>3 DEF Solves
<1> QED BY <1>4, <1>1


\* What the sum of S is, by the element MapThenFoldSet picks first.
LEMMA SumStep ==
  ASSUME NEW S, IsFiniteSet(S)
  PROVE  /\ S = {} => Sum(S) = 0
         /\ S # {} => Sum(S) = Value(Pick(S)) + Sum(S \ {Pick(S)})
<1> DEFINE F(A) == CHOOSE f : Solves(f, A)
<1>1. \A A \in SUBSET S : Solves(F(A), A) /\ Sum(A) = F(A)[A]
  <2> TAKE A \in SUBSET S
  <2>1. IsFiniteSet(A)
    BY FS_Subset
  <2>2. Solves(F(A), A)
    BY <2>1, Solvable
  <2>3. Sum(A) = F(A)[A]
    BY DEF Sum, MapThenSumSet, MapThenFoldSet, Solves, Pick
  <2> QED BY <2>2, <2>3
<1> HIDE DEF F
<1>2. S = {} => F(S)[S] = 0
  BY <1>1 DEF Solves
<1>3. ASSUME S # {}
      PROVE  Sum(S) = Value(Pick(S)) + Sum(S \ {Pick(S)})
  <2> DEFINE R == S \ {Pick(S)}
  <2>1. R \in SUBSET S /\ S \in SUBSET S /\ R \in SUBSET R
    OBVIOUS
  <2> HIDE DEF R
  <2>2. F(S)[S] = Value(Pick(S)) + F(S)[R]
    BY <1>1, <1>3, <2>1 DEF Solves, R
  <2>3. Solves(F(S), S) /\ Solves(F(R), R)
    BY <1>1, <2>1
  <2>4. F(S)[R] = F(R)[R]
    BY <2>1, <2>3, Unique
  <2>5. Sum(R) = F(R)[R] /\ Sum(S) = F(S)[S]
    BY <1>1, <2>1
  <2> QED BY <2>2, <2>4, <2>5 DEF R
<1> QED BY <1>1, <1>2, <1>3

\* The sum over no element is 0.
THEOREM SumOfEmpty == Sum({}) = 0
BY SumStep, FS_EmptySet

\* A sum of integers is an integer.
THEOREM SumIsInt ==
  ASSUME NEW S, IsFiniteSet(S), \A x \in S : Value(x) \in Int
  PROVE  Sum(S) \in Int
<1> DEFINE T == {A \in SUBSET S : Sum(A) \notin Int}
<1> SUFFICES ASSUME T # {} PROVE FALSE
  OBVIOUS
<1>1. PICK A \in T : \A B \in T : B \subseteq A => B = A
  <2>1. T \subseteq SUBSET S
    OBVIOUS
  <2> HIDE DEF T
  <2> QED BY <2>1, MinimalMember
<1>2. IsFiniteSet(A)
  BY <1>1, FS_Subset
<1>3. A # {}
  <2>1. SUFFICES ASSUME A = {} PROVE FALSE
    OBVIOUS
  <2>2. Sum(A) = 0
    BY <2>1, SumOfEmpty
  <2> QED BY <1>1, <2>2
<1>4. Pick(A) \in A
  BY <1>3, PickIsMember
<1>5. Sum(A \ {Pick(A)}) \in Int
  BY <1>1, <1>4
<1>6. Sum(A) = Value(Pick(A)) + Sum(A \ {Pick(A)})
  BY <1>2, <1>3, SumStep
<1>7. Value(Pick(A)) \in Int
  BY <1>1, <1>4
<1> QED BY <1>1, <1>5, <1>6, <1>7

\* Any element may be taken out of a sum first.
THEOREM SumRemove ==
  ASSUME NEW S, IsFiniteSet(S), \A x \in S : Value(x) \in Int, NEW y \in S
  PROVE  Sum(S) = Value(y) + Sum(S \ {y})
<1> DEFINE T == {A \in SUBSET S : \E z \in A : Sum(A) # Value(z) + Sum(A \ {z})}
<1> SUFFICES ASSUME T # {} PROVE FALSE
  OBVIOUS
<1>1. PICK A \in T : \A B \in T : B \subseteq A => B = A
  <2>1. T \subseteq SUBSET S
    OBVIOUS
  <2> HIDE DEF T
  <2> QED BY <2>1, MinimalMember
<1>2. PICK z \in A : Sum(A) # Value(z) + Sum(A \ {z})
  BY <1>1
<1> DEFINE p == Pick(A)
<1>3. p \in A /\ A \in SUBSET S /\ IsFiniteSet(A)
  BY <1>1, <1>2, PickIsMember, FS_Subset
<1>4. Sum(A) = Value(p) + Sum(A \ {p})
  BY <1>2, <1>3, SumStep
<1> HIDE DEF p
<1>5. p # z
  BY <1>2, <1>4
<1> DEFINE P == A \ {p}
           Z == A \ {z}
           R == A \ {p, z}
<1>6. /\ P \in SUBSET S /\ Z \in SUBSET S /\ R \in SUBSET S
      /\ z \in P /\ p \in Z /\ P \ {z} = R /\ Z \ {p} = R
      /\ P \subseteq A /\ P # A /\ Z \subseteq A /\ Z # A
  BY <1>3, <1>5
<1>7. P \notin T /\ Z \notin T
  BY <1>1, <1>6
<1>8. Sum(P) = Value(z) + Sum(R) /\ Sum(Z) = Value(p) + Sum(R)
  BY <1>6, <1>7
<1>9. Sum(R) \in Int
  <2>1. IsFiniteSet(R) /\ \A x \in R : Value(x) \in Int
    BY <1>6, FS_Subset
  <2> QED BY <2>1, SumIsInt
<1>10. Value(p) \in Int /\ Value(z) \in Int
  BY <1>2, <1>3
<1> HIDE DEF P, Z, R
<1>11. Sum(A) = Value(p) + (Value(z) + Sum(R))
  BY <1>4, <1>8 DEF P
<1>12. Sum(A) # Value(z) + (Value(p) + Sum(R))
  BY <1>2, <1>8 DEF Z
<1> QED BY <1>9, <1>10, <1>11, <1>12

\* A new element adds its value to the sum.
THEOREM SumAdd ==
  ASSUME NEW S, IsFiniteSet(S), NEW y, y \notin S,
         \A x \in S \cup {y} : Value(x) \in Int
  PROVE  Sum(S \cup {y}) = Sum(S) + Value(y)
<1> DEFINE A == S \cup {y}
<1>1. IsFiniteSet(A)
  BY FS_AddElement
<1>2. y \in A /\ A \ {y} = S /\ \A x \in A : Value(x) \in Int
  OBVIOUS
<1> HIDE DEF A
<1>3. Sum(A) = Value(y) + Sum(S)
  BY <1>1, <1>2, SumRemove
<1>4. Sum(S) \in Int
  BY SumIsInt
<1> QED BY <1>2, <1>3, <1>4 DEF A

\* A sum of naturals over more elements is no smaller.
THEOREM SumMonotonic ==
  ASSUME NEW S, IsFiniteSet(S), \A x \in S : Value(x) \in Nat,
         NEW R, R \subseteq S
  PROVE  Sum(R) <= Sum(S) /\ 0 <= Sum(R)
<1> DEFINE T == {A \in SUBSET S : \E B \in SUBSET A : ~ (Sum(B) <= Sum(A) /\ 0 <= Sum(B))}
<1> SUFFICES ASSUME T # {} PROVE FALSE
  <2>1. S \notin T
    OBVIOUS
  <2> QED BY <2>1
<1>1. PICK A \in T : \A B \in T : B \subseteq A => B = A
  <2>1. T \subseteq SUBSET S
    OBVIOUS
  <2> HIDE DEF T
  <2> QED BY <2>1, MinimalMember
<1>2. PICK B \in SUBSET A : ~ (Sum(B) <= Sum(A) /\ 0 <= Sum(B))
  BY <1>1
<1>3. \A C \in SUBSET S : IsFiniteSet(C) /\ Sum(C) \in Int
  BY FS_Subset, SumIsInt
<1>4. CASE B = A
  <2>1. A # {}
    <3>1. SUFFICES ASSUME A = {} PROVE FALSE
      OBVIOUS
    <3>2. Sum(A) = 0
      BY <3>1, SumOfEmpty
    <3> QED BY <1>2, <1>4, <3>2
  <2>2. PICK y \in A : TRUE
    BY <2>1
  <2>3. A \ {y} \notin T
    BY <1>1
  <2>4. 0 <= Sum(A \ {y})
    BY <2>3
  <2>5. \A x \in A : Value(x) \in Int
    OBVIOUS
  <2>6. Sum(A) = Value(y) + Sum(A \ {y})
    BY <1>3, <2>5, SumRemove
  <2>7. Sum(A \ {y}) \in Int /\ Value(y) \in Nat /\ Sum(A) \in Int
    BY <1>3
  <2> QED BY <1>2, <1>4, <2>4, <2>6, <2>7
<1>5. CASE B # A
  <2>1. PICK y \in A : y \notin B
    BY <1>5
  <2>2. A \ {y} \notin T /\ B \in SUBSET (A \ {y})
    BY <1>1, <2>1
  <2>3. Sum(B) <= Sum(A \ {y}) /\ 0 <= Sum(B)
    BY <2>2
  <2>4. \A x \in A : Value(x) \in Int
    OBVIOUS
  <2>5. Sum(A) = Value(y) + Sum(A \ {y})
    BY <1>3, <2>4, SumRemove
  <2>6. Sum(A \ {y}) \in Int /\ Sum(B) \in Int /\ Value(y) \in Nat /\ Sum(A) \in Int
    BY <1>3
  <2> QED BY <1>2, <2>3, <2>5, <2>6
<1> QED BY <1>4, <1>5
=============================================================================
