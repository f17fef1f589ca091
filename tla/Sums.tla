-------------------------------- MODULE Sums --------------------------------
(* Facts about the sum of a function over a finite set, which the community  *)
(* modules define by removing the elements one by one: what it is of the     *)
(* empty set, how it grows with an element, what it depends on.              *)
EXTENDS Integers, Functions, FiniteSetTheorems, WellFoundedInduction, TLAPS

Sum(f, S) == SumFunctionOnSet(f, S)

(* The element taken from a set, and the recursion that takes them all.      *)
Taken(S) == CHOOSE x \in S : TRUE
Stage(f, S, h) == [A \in SUBSET S |-> IF A = {} THEN 0 ELSE f[Taken(A)] + h[A \ {Taken(A)}]]
Partial(f, S) == CHOOSE h : h = Stage(f, S, h)

LEMMA SumIsPartial == ASSUME NEW f, NEW S PROVE Sum(f, S) = Partial(f, S)[S]
BY DEF Sum, SumFunctionOnSet, FoldFunctionOnSet, MapThenFoldSet, Partial, Stage, Taken

(* Induction over the subsets of a finite set: a set of them has a smallest. *)
LEMMA Smallest ==
    ASSUME NEW S, IsFiniteSet(S), NEW T, T \subseteq SUBSET S, T # {}
    PROVE  \E A \in T : \A B \in T : B \subseteq A => B = A
<1> DEFINE R == StrictSubsetOrdering(S)
<1>1. IsWellFoundedOn(R, SUBSET S)
  BY FS_FiniteSubsetsOfFinite, FS_StrictSubsetOrderingWellFounded
<1> HIDE DEF R
<1>2. \E A \in T : \A B \in T : ~ (<<B, A>> \in R)
  BY <1>1, WFMin
<1> QED BY <1>2 DEF R, StrictSubsetOrdering

LEMMA StageAt ==
    ASSUME NEW f, NEW S, NEW h, h = Stage(f, S, h), NEW A \in SUBSET S
    PROVE  /\ A = {} => h[A] = 0
           /\ A # {} => /\ Taken(A) \in A
                        /\ h[A] = f[Taken(A)] + h[A \ {Taken(A)}]
<1>1. A # {} => Taken(A) \in A
  BY DEF Taken
<1>2. h[A] = Stage(f, S, h)[A]
  OBVIOUS
<1>3. Stage(f, S, h)[A] = IF A = {} THEN 0 ELSE f[Taken(A)] + h[A \ {Taken(A)}]
  BY DEF Stage
<1> QED BY <1>1, <1>2, <1>3

(* Two recursions agree where both are defined.                              *)
LEMMA StagesAgree ==
    ASSUME NEW f, NEW S, IsFiniteSet(S), NEW A \in SUBSET S, NEW g, NEW h,
           g = Stage(f, S, g), h = Stage(f, A, h)
    PROVE  \A B \in SUBSET A : g[B] = h[B]
<1> DEFINE T == {B \in SUBSET A : g[B] # h[B]}
<1> SUFFICES ASSUME T # {} PROVE FALSE
  OBVIOUS
<1>1. PICK B \in T : \A C \in T : C \subseteq B => C = B
  <2>1. T \subseteq SUBSET S
    OBVIOUS
  <2> HIDE DEF T
  <2> QED BY <2>1, Smallest
<1>2. B # {}
  <2>1. B = {} => g[B] = 0 /\ h[B] = 0
    BY StageAt
  <2> QED BY <2>1
<1> DEFINE x == Taken(B)
<1>3. x \in B /\ g[B] = f[x] + g[B \ {x}] /\ h[B] = f[x] + h[B \ {x}]
  BY <1>2, StageAt
<1>4. B \ {x} \notin T
  BY <1>1, <1>3
<1> QED BY <1>3, <1>4

(* The recursion is well defined on every finite set.                        *)
LEMMA StageExists ==
    ASSUME NEW f, NEW S, IsFiniteSet(S)
    PROVE  Partial(f, S) = Stage(f, S, Partial(f, S))
<1> DEFINE Good(A) == Partial(f, A) = Stage(f, A, Partial(f, A))
           T == {A \in SUBSET S : ~Good(A)}
<1> SUFFICES ASSUME T # {} PROVE FALSE
  OBVIOUS
<1>1. PICK A \in T : \A B \in T : B \subseteq A => B = A
  <2>1. T \subseteq SUBSET S
    OBVIOUS
  <2> HIDE DEF T
  <2> QED BY <2>1, Smallest
<1>2. \A B \in SUBSET A : B # A => Good(B)
  BY <1>1
<1> HIDE DEF Good
<1> DEFINE h == [B \in SUBSET A |->
                    IF B = {} THEN 0
                    ELSE f[Taken(B)] + Partial(f, B \ {Taken(B)})[B \ {Taken(B)}]]
<1>3. \A B \in SUBSET A : B # A => h[B] = Partial(f, B)[B]
  <2> SUFFICES ASSUME NEW B \in SUBSET A, B # A PROVE h[B] = Partial(f, B)[B]
    OBVIOUS
  <2>1. Partial(f, B) = Stage(f, B, Partial(f, B))
    BY <1>2 DEF Good
  <2>2. CASE B = {}
    <3>1. Partial(f, B)[B] = 0
      BY <2>1, <2>2, StageAt
    <3> QED BY <2>2, <3>1
  <2>3. CASE B # {}
    <3> DEFINE C == B \ {Taken(B)}
    <3>1. Partial(f, B)[B] = f[Taken(B)] + Partial(f, B)[C] /\ Taken(B) \in B
      BY <2>1, <2>3, StageAt
    <3>2. C \in SUBSET B /\ C # A /\ C \in SUBSET A
      BY <3>1
    <3>3. Partial(f, C) = Stage(f, C, Partial(f, C))
      BY <1>2, <3>2 DEF Good
    <3>4. IsFiniteSet(B)
      BY <1>1, FS_Subset
    <3>5. Partial(f, B)[C] = Partial(f, C)[C]
      BY <2>1, <3>2, <3>3, <3>4, StagesAgree
    <3>6. h[B] = f[Taken(B)] + Partial(f, C)[C]
      BY <2>3
    <3> QED BY <3>1, <3>5, <3>6
  <2> QED BY <2>2, <2>3
<1>4. \A B \in SUBSET A : B # {} => h[B] = f[Taken(B)] + h[B \ {Taken(B)}]
  <2> SUFFICES ASSUME NEW B \in SUBSET A, B # {}
               PROVE  h[B] = f[Taken(B)] + h[B \ {Taken(B)}]
    OBVIOUS
  <2> DEFINE C == B \ {Taken(B)}
  <2>1. Taken(B) \in B
    BY DEF Taken
  <2>2. C \in SUBSET A /\ C # A
    BY <2>1
  <2>3. h[C] = Partial(f, C)[C]
    BY <1>3, <2>2
  <2>4. h[B] = f[Taken(B)] + Partial(f, C)[C]
    OBVIOUS
  <2> QED BY <2>3, <2>4
<1>5. h = Stage(f, A, h)
  <2>1. h = [B \in SUBSET A |-> IF B = {} THEN 0 ELSE h[B]]
    OBVIOUS
  <2> HIDE DEF h
  <2>2. [B \in SUBSET A |-> IF B = {} THEN 0 ELSE h[B]] = Stage(f, A, h)
    BY <1>4 DEF Stage
  <2> QED BY <2>1, <2>2
<1>6. Good(A)
  <2> HIDE DEF h
  <2> QED BY <1>5 DEF Good, Partial
<1> QED BY <1>1, <1>6

-----------------------------------------------------------------------------
(* What the recursion computes. *)

LEMMA SumEmpty == ASSUME NEW f PROVE Sum(f, {}) = 0
<1>1. Partial(f, {}) = Stage(f, {}, Partial(f, {}))
  BY FS_EmptySet, StageExists
<1> QED BY <1>1, StageAt, SumIsPartial

LEMMA SumTaken ==
    ASSUME NEW f, NEW S, IsFiniteSet(S), S # {}
    PROVE  Taken(S) \in S /\ Sum(f, S) = f[Taken(S)] + Sum(f, S \ {Taken(S)})
<1> DEFINE A == S \ {Taken(S)}
<1>1. IsFiniteSet(A)
  BY FS_RemoveElement
<1>2. Partial(f, S) = Stage(f, S, Partial(f, S)) /\ Partial(f, A) = Stage(f, A, Partial(f, A))
  <2> HIDE DEF A
  <2> QED BY <1>1, StageExists
<1>3. Taken(S) \in S /\ Partial(f, S)[S] = f[Taken(S)] + Partial(f, S)[A]
  BY <1>2, StageAt
<1>4. Partial(f, S)[A] = Partial(f, A)[A]
  <2>1. A \in SUBSET S
    OBVIOUS
  <2> HIDE DEF A
  <2> QED BY <1>2, <2>1, StagesAgree
<1> QED BY <1>3, <1>4, SumIsPartial

(* A sum of integers is one, and of naturals a natural.                      *)
LEMMA SumType ==
    ASSUME NEW f, NEW S, IsFiniteSet(S), NEW V \in {Nat, Int}, \A x \in S : f[x] \in V
    PROVE  Sum(f, S) \in V
<1> DEFINE T == {A \in SUBSET S : Sum(f, A) \notin V}
<1> SUFFICES ASSUME T # {} PROVE FALSE
  OBVIOUS
<1>1. PICK A \in T : \A B \in T : B \subseteq A => B = A
  <2>1. T \subseteq SUBSET S
    OBVIOUS
  <2> HIDE DEF T
  <2> QED BY <2>1, Smallest
<1>2. A # {}
  BY SumEmpty
<1>3. IsFiniteSet(A)
  BY FS_Subset
<1>4. Taken(A) \in A /\ Sum(f, A) = f[Taken(A)] + Sum(f, A \ {Taken(A)})
  BY <1>2, <1>3, SumTaken
<1>5. Sum(f, A \ {Taken(A)}) \in V
  BY <1>1, <1>4
<1> QED BY <1>4, <1>5

LEMMA IntegerSum ==
    ASSUME NEW f, NEW S, IsFiniteSet(S), \A x \in S : f[x] \in Int
    PROVE  Sum(f, S) \in Int
BY SumType

LEMMA NaturalSum ==
    ASSUME NEW f, NEW S, IsFiniteSet(S), \A x \in S : f[x] \in Nat
    PROVE  Sum(f, S) \in Nat
BY SumType

(* The elements may be taken in any order.                                   *)
LEMMA SumRemove ==
    ASSUME NEW f, NEW S, IsFiniteSet(S), \A x \in S : f[x] \in Int, NEW y \in S
    PROVE  Sum(f, S) = f[y] + Sum(f, S \ {y})
<1> DEFINE T == {A \in SUBSET S : \E x \in A : Sum(f, A) # f[x] + Sum(f, A \ {x})}
<1> SUFFICES ASSUME T # {} PROVE FALSE
  OBVIOUS
<1>1. PICK A \in T : \A B \in T : B \subseteq A => B = A
  <2>1. T \subseteq SUBSET S
    OBVIOUS
  <2> HIDE DEF T
  <2> QED BY <2>1, Smallest
<1>2. PICK x \in A : Sum(f, A) # f[x] + Sum(f, A \ {x})
  OBVIOUS
<1>3. \A B \in SUBSET A : B # A => \A z \in B : Sum(f, B) = f[z] + Sum(f, B \ {z})
  BY <1>1
<1>4. \A B \in SUBSET A : IsFiniteSet(B) /\ Sum(f, B) \in Int
  <2> SUFFICES ASSUME NEW B \in SUBSET A PROVE IsFiniteSet(B) /\ Sum(f, B) \in Int
    OBVIOUS
  <2>1. IsFiniteSet(B) /\ \A z \in B : f[z] \in Int
    BY FS_Subset
  <2> QED BY <2>1, IntegerSum
<1> DEFINE t == Taken(A)
<1>5. t \in A /\ Sum(f, A) = f[t] + Sum(f, A \ {t})
  <2>1. IsFiniteSet(A)
    BY <1>4
  <2> QED BY <2>1, SumTaken
<1>6. t # x
  BY <1>2, <1>5
<1>7. Sum(f, A \ {t}) = f[x] + Sum(f, (A \ {t}) \ {x})
  BY <1>3, <1>5, <1>6
<1>8. Sum(f, A \ {x}) = f[t] + Sum(f, (A \ {x}) \ {t})
  BY <1>3, <1>5, <1>6
<1>9. (A \ {t}) \ {x} = (A \ {x}) \ {t}
  OBVIOUS
<1>10. f[t] \in Int /\ f[x] \in Int /\ Sum(f, (A \ {x}) \ {t}) \in Int
  BY <1>4, <1>5
<1> DEFINE rest == Sum(f, (A \ {x}) \ {t})
<1> HIDE DEF t, T
<1>11. Sum(f, A) = f[t] + (f[x] + rest)
  BY <1>5, <1>7, <1>9
<1>12. f[x] + Sum(f, A \ {x}) = f[x] + (f[t] + rest)
  BY <1>8
<1> HIDE DEF rest
<1>13. rest \in Int
  BY <1>10 DEF rest
<1>14. f[t] + (f[x] + rest) = f[x] + (f[t] + rest)
  BY <1>10, <1>13
<1> QED BY <1>2, <1>11, <1>12, <1>14

LEMMA SumAdd ==
    ASSUME NEW f, NEW S, IsFiniteSet(S), NEW y, y \notin S, \A x \in S \cup {y} : f[x] \in Int
    PROVE  Sum(f, S \cup {y}) = f[y] + Sum(f, S)
<1>1. IsFiniteSet(S \cup {y}) /\ (S \cup {y}) \ {y} = S
  BY FS_AddElement
<1> QED BY <1>1, SumRemove

(* A sum depends on the values of the function in the set, and grows with    *)
(* each of them.                                                             *)
LEMMA SumEqual ==
    ASSUME NEW f, NEW g, NEW S, IsFiniteSet(S), \A x \in S : f[x] = g[x]
    PROVE  Sum(f, S) = Sum(g, S)
<1> DEFINE T == {A \in SUBSET S : Sum(f, A) # Sum(g, A)}
<1> SUFFICES ASSUME T # {} PROVE FALSE
  OBVIOUS
<1>1. PICK A \in T : \A B \in T : B \subseteq A => B = A
  <2>1. T \subseteq SUBSET S
    OBVIOUS
  <2> HIDE DEF T
  <2> QED BY <2>1, Smallest
<1>2. A # {}
  BY SumEmpty
<1>3. IsFiniteSet(A)
  BY FS_Subset
<1>4. /\ Taken(A) \in A
      /\ Sum(f, A) = f[Taken(A)] + Sum(f, A \ {Taken(A)})
      /\ Sum(g, A) = g[Taken(A)] + Sum(g, A \ {Taken(A)})
  BY <1>2, <1>3, SumTaken
<1>5. A \ {Taken(A)} \notin T
  BY <1>1, <1>4
<1> QED BY <1>4, <1>5

LEMMA SumOfZeros ==
    ASSUME NEW f, NEW S, IsFiniteSet(S), \A x \in S : f[x] = 0
    PROVE  Sum(f, S) = 0
<1> DEFINE T == {A \in SUBSET S : Sum(f, A) # 0}
<1> SUFFICES ASSUME T # {} PROVE FALSE
  OBVIOUS
<1>1. PICK A \in T : \A B \in T : B \subseteq A => B = A
  <2>1. T \subseteq SUBSET S
    OBVIOUS
  <2> HIDE DEF T
  <2> QED BY <2>1, Smallest
<1>2. A # {} /\ IsFiniteSet(A)
  BY SumEmpty, FS_Subset
<1>3. Taken(A) \in A /\ Sum(f, A) = f[Taken(A)] + Sum(f, A \ {Taken(A)})
  BY <1>2, SumTaken
<1>4. A \ {Taken(A)} \notin T
  BY <1>1, <1>3
<1> QED BY <1>3, <1>4

LEMMA SumExcept ==
    ASSUME NEW f, NEW g, NEW S, IsFiniteSet(S), NEW y \in S,
           \A x \in S : f[x] \in Int, g[y] \in Int, \A x \in S \ {y} : g[x] = f[x]
    PROVE  Sum(g, S) = Sum(f, S) + (g[y] - f[y])
<1>1. \A x \in S : g[x] \in Int
  OBVIOUS
<1>2. Sum(f, S) = f[y] + Sum(f, S \ {y}) /\ Sum(g, S) = g[y] + Sum(g, S \ {y})
  BY <1>1, SumRemove
<1>3. IsFiniteSet(S \ {y})
  BY FS_RemoveElement
<1>4. Sum(g, S \ {y}) = Sum(f, S \ {y}) /\ Sum(f, S \ {y}) \in Int
  <2>1. \A x \in S \ {y} : f[x] \in Int
    OBVIOUS
  <2> QED BY <1>3, <2>1, SumEqual, IntegerSum
<1> QED BY <1>2, <1>4

LEMMA SumLeq ==
    ASSUME NEW f, NEW g, NEW S, IsFiniteSet(S), \A x \in S : f[x] \in Int /\ g[x] \in Int /\ f[x] <= g[x]
    PROVE  Sum(f, S) <= Sum(g, S)
<1> DEFINE T == {A \in SUBSET S : ~(Sum(f, A) <= Sum(g, A))}
<1> SUFFICES ASSUME T # {} PROVE FALSE
  OBVIOUS
<1>1. PICK A \in T : \A B \in T : B \subseteq A => B = A
  <2>1. T \subseteq SUBSET S
    OBVIOUS
  <2> HIDE DEF T
  <2> QED BY <2>1, Smallest
<1>2. A # {}
  BY SumEmpty
<1>3. IsFiniteSet(A)
  BY FS_Subset
<1>4. /\ Taken(A) \in A
      /\ Sum(f, A) = f[Taken(A)] + Sum(f, A \ {Taken(A)})
      /\ Sum(g, A) = g[Taken(A)] + Sum(g, A \ {Taken(A)})
  BY <1>2, <1>3, SumTaken
<1>5. Sum(f, A \ {Taken(A)}) <= Sum(g, A \ {Taken(A)})
  BY <1>1, <1>4
<1>6. Sum(f, A \ {Taken(A)}) \in Int /\ Sum(g, A \ {Taken(A)}) \in Int
  <2>1. IsFiniteSet(A \ {Taken(A)})
    BY <1>3, FS_RemoveElement
  <2> QED BY <2>1, IntegerSum
<1>7. f[Taken(A)] \in Int /\ g[Taken(A)] \in Int /\ f[Taken(A)] <= g[Taken(A)]
  BY <1>4
<1>8. Sum(f, A) <= Sum(g, A)
  BY <1>4, <1>5, <1>6, <1>7
<1> QED BY <1>8
=============================================================================
