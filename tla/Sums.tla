-------------------------------- MODULE Sums --------------------------------
(***************************************************************************)
(* Sums over finite sets, as MapThenSumSet makes them: the recursion takes *)
(* out one element after the other, chosen by CHOOSE, and these lemmas say *)
(* that the choice drops out of the result.  They are about a function f   *)
(* and not about an operator, so that they can be cited.                   *)
(*                                                                         *)
(* Each is proved by a smallest counterexample: the parts of a finite set  *)
(* are well founded, so if some part refutes it one refutes it all of      *)
(* whose own parts do not.                                                 *)
(***************************************************************************)
EXTENDS FiniteSetsExt, FiniteSetTheorems, TLAPS

\* The element the sum over a set takes out first.
Taken(s) == CHOOSE x \in s : TRUE

\* g gives every part of S its sum, as the recursion in MapThenFoldSet does.
AddsUp(g, f, S) ==
    g = [s \in SUBSET S |-> IF s = {} THEN 0 ELSE f[Taken(s)] + g[s \ {Taken(s)}]]

\* The sum of f over S.
SumOver(f, S) == MapThenSumSet(LAMBDA x : f[x], S)

\* Among some parts of a finite set there is a smallest one.
LEMMA SmallestPart ==
    ASSUME NEW S, IsFiniteSet(S), NEW B \in SUBSET (SUBSET S), B # {}
    PROVE  \E T \in B : \A U \in B : U \subseteq T => U = T
<1>1. FiniteSubsetsOf(S) = SUBSET S
  BY FS_FiniteSubsetsOfFinite
<1>2. IsWellFoundedOn(StrictSubsetOrdering(S), SUBSET S)
  BY <1>1, FS_StrictSubsetOrderingWellFounded
<1>3. PICK T \in B : \A U \in B : <<U, T>> \notin StrictSubsetOrdering(S)
  BY <1>2, WFMin
<1>4. ASSUME NEW U \in B, U \subseteq T PROVE U = T
  BY <1>3, <1>4 DEF StrictSubsetOrdering
<1> QED BY <1>4

\* What is taken out of a set was in it.
LEMMA TakenIsMember == \A s : s # {} => Taken(s) \in s
BY DEF Taken

-----------------------------------------------------------------------------
(***************************************************************************)
(* The recursion defines a sum, and only one.                              *)
(***************************************************************************)

\* Two sums of the same elements agree on every set both of them know.
LEMMA SumsAgree ==
    ASSUME NEW S, IsFiniteSet(S), NEW T \in SUBSET S, NEW f, NEW k, NEW g, NEW h,
           AddsUp(g, f, S), AddsUp(h, k, T), \A x \in T : f[x] = k[x]
    PROVE  \A U \in SUBSET T : g[U] = h[U]
<1> DEFINE Wrong == {U \in SUBSET T : g[U] # h[U]}
<1> SUFFICES ASSUME Wrong # {} PROVE FALSE
  OBVIOUS
<1>1. Wrong \in SUBSET (SUBSET S)
  OBVIOUS
<1> HIDE DEF Wrong
<1>2. PICK U \in Wrong : \A V \in Wrong : V \subseteq U => V = U
  BY <1>1, SmallestPart
<1> USE DEF Wrong
<1>3. /\ g[U] = IF U = {} THEN 0 ELSE f[Taken(U)] + g[U \ {Taken(U)}]
      /\ h[U] = IF U = {} THEN 0 ELSE k[Taken(U)] + h[U \ {Taken(U)}]
  BY DEF AddsUp
<1>4. U # {} /\ Taken(U) \in U
  BY <1>3, TakenIsMember
<1>5. U \ {Taken(U)} \notin Wrong
  BY <1>2, <1>4
<1>6. g[U \ {Taken(U)}] = h[U \ {Taken(U)}] /\ f[Taken(U)] = k[Taken(U)]
  BY <1>4, <1>5
<1> QED BY <1>3, <1>6

\* Every finite set has a sum.
LEMMA SumsExist ==
    ASSUME NEW S, IsFiniteSet(S), NEW f
    PROVE  \E g : AddsUp(g, f, S)
<1> DEFINE Missing == {T \in SUBSET S : ~\E g : AddsUp(g, f, T)}
<1> SUFFICES ASSUME Missing # {} PROVE FALSE
  OBVIOUS
<1>1. Missing \in SUBSET (SUBSET S)
  OBVIOUS
<1> HIDE DEF Missing
<1>2. PICK T \in Missing : \A U \in Missing : U \subseteq T => U = T
  BY <1>1, SmallestPart
<1>3. T \in SUBSET S
  BY DEF Missing
<1> DEFINE part(V)  == CHOOSE h : AddsUp(h, f, V)
           total(V) == part(V)[V]
           Parts    == (SUBSET T) \ {T}
           g == [s \in SUBSET T |-> IF s = {} THEN 0 ELSE f[Taken(s)] + total(s \ {Taken(s)})]
<1>4. ASSUME NEW V \in Parts PROVE AddsUp(part(V), f, V)
  <2>1. V \in SUBSET S /\ V \notin Missing
    BY <1>2, <1>3
  <2>2. \E h : AddsUp(h, f, V)
    BY <2>1 DEF Missing
  <2> QED BY <2>2
<1> HIDE DEF part
<1>5. ASSUME NEW s \in SUBSET T, s # {} PROVE s \ {Taken(s)} \in Parts
  <2>1. Taken(s) \in s
    BY <1>5, TakenIsMember
  <2> QED BY <2>1
<1>6. ASSUME NEW V \in Parts PROVE g[V] = total(V)
  <2>1. total(V) = IF V = {} THEN 0 ELSE f[Taken(V)] + part(V)[V \ {Taken(V)}]
    BY <1>4 DEF AddsUp
  <2>2. ASSUME V # {} PROVE part(V)[V \ {Taken(V)}] = total(V \ {Taken(V)})
    <3> DEFINE W == V \ {Taken(V)}
    <3>1. W \in Parts /\ W \in SUBSET V
      BY <1>5, <2>2
    <3>2. IsFiniteSet(V)
      <4>1. V \in SUBSET S
        BY <1>3
      <4> QED BY <4>1, FS_Subset
    <3>3. AddsUp(part(V), f, V) /\ AddsUp(part(W), f, W)
      BY <1>4, <3>1
    <3> HIDE DEF W
    <3>4. part(V)[W] = part(W)[W]
      BY <3>1, <3>2, <3>3, SumsAgree
    <3> QED BY <3>4 DEF W
  <2> QED BY <2>1, <2>2
<1>7. AddsUp(g, f, T)
  <2> HIDE DEF total
  <2>1. g = [s \in SUBSET T |-> IF s = {} THEN 0 ELSE f[Taken(s)] + g[s \ {Taken(s)}]]
    BY <1>5, <1>6
  <2> QED BY <2>1 DEF AddsUp
<1> QED BY <1>2, <1>7 DEF Missing

\* Any function that adds up gives the sum: what is written with another
\* expression for the elements has the same sum.
LEMMA SumIsWhatAddsUp ==
    ASSUME NEW S, IsFiniteSet(S), NEW f, NEW g, AddsUp(g, f, S)
    PROVE  \A T \in SUBSET S : SumOver(f, T) = g[T]
<1> SUFFICES ASSUME NEW T \in SUBSET S PROVE SumOver(f, T) = g[T]
  OBVIOUS
<1> DEFINE h == CHOOSE h : h = [s \in SUBSET T |->
                    IF s = {} THEN 0 ELSE f[Taken(s)] + h[s \ {Taken(s)}]]
<1>1. IsFiniteSet(T)
  BY FS_Subset
<1>2. AddsUp(h, f, T)
  <2>1. \E k : AddsUp(k, f, T)
    BY <1>1, SumsExist
  <2> QED BY <2>1 DEF AddsUp
<1>3. SumOver(f, T) = h[T]
  BY DEF SumOver, MapThenSumSet, MapThenFoldSet, Taken
<1> HIDE DEF h
<1>4. g[T] = h[T]
  BY <1>2, SumsAgree
<1> QED BY <1>3, <1>4

\* A sum depends only on what its elements are worth.
LEMMA SumOfSame ==
    ASSUME NEW S, IsFiniteSet(S), NEW f, NEW g, \A x \in S : f[x] = g[x]
    PROVE  SumOver(f, S) = SumOver(g, S)
<1>1. PICK h : AddsUp(h, f, S)
  BY SumsExist
<1>2. PICK k : AddsUp(k, g, S)
  BY SumsExist
<1>3. h[S] = k[S]
  <2>1. S \in SUBSET S
    OBVIOUS
  <2>2. \A U \in SUBSET S : h[U] = k[U]
    BY <1>1, <1>2, <2>1, SumsAgree
  <2> QED BY <2>1, <2>2
<1> QED BY <1>1, <1>2, <1>3, SumIsWhatAddsUp

-----------------------------------------------------------------------------
(***************************************************************************)
(* Arithmetic of sums.                                                     *)
(***************************************************************************)

\* Nothing costs nothing.
LEMMA SumOfNothing == \A f : SumOver(f, {}) = 0
<1> TAKE f
<1>1. IsFiniteSet({})
  BY FS_EmptySet
<1>2. PICK g : AddsUp(g, f, {})
  BY <1>1, SumsExist
<1>3. g[{}] = 0
  BY <1>2 DEF AddsUp
<1> QED BY <1>1, <1>2, <1>3, SumIsWhatAddsUp

\* The sum takes out one element.
LEMMA SumTakes ==
    ASSUME NEW S, IsFiniteSet(S), NEW f, NEW T \in SUBSET S, T # {}
    PROVE  SumOver(f, T) = f[Taken(T)] + SumOver(f, T \ {Taken(T)})
<1>1. PICK g : AddsUp(g, f, S)
  BY SumsExist
<1>2. g[T] = f[Taken(T)] + g[T \ {Taken(T)}]
  BY <1>1 DEF AddsUp
<1>3. SumOver(f, T) = g[T] /\ SumOver(f, T \ {Taken(T)}) = g[T \ {Taken(T)}]
  BY <1>1, SumIsWhatAddsUp
<1> QED BY <1>2, <1>3

\* A sum of naturals is one.
LEMMA SumIsNat ==
    ASSUME NEW S, IsFiniteSet(S), NEW f, \A x \in S : f[x] \in Nat
    PROVE  SumOver(f, S) \in Nat
<1> DEFINE Wrong == {T \in SUBSET S : SumOver(f, T) \notin Nat}
<1> SUFFICES ASSUME Wrong # {} PROVE FALSE
  OBVIOUS
<1>1. Wrong \in SUBSET (SUBSET S)
  OBVIOUS
<1> HIDE DEF Wrong
<1>2. PICK T \in Wrong : \A U \in Wrong : U \subseteq T => U = T
  BY <1>1, SmallestPart
<1> USE DEF Wrong
<1>3. T # {} /\ Taken(T) \in T
  BY SumOfNothing, TakenIsMember
<1>4. SumOver(f, T \ {Taken(T)}) \in Nat
  BY <1>2, <1>3
<1>5. SumOver(f, T) = f[Taken(T)] + SumOver(f, T \ {Taken(T)})
  BY <1>3, SumTakes
<1> QED BY <1>3, <1>4, <1>5

\* Any element can be the one that is taken out.
LEMMA SumTakesAny ==
    ASSUME NEW S, IsFiniteSet(S), NEW f, \A x \in S : f[x] \in Nat, NEW y \in S
    PROVE  SumOver(f, S) = f[y] + SumOver(f, S \ {y})
<1> DEFINE Wrong == {T \in SUBSET S : \E x \in T : SumOver(f, T) # f[x] + SumOver(f, T \ {x})}
<1> SUFFICES ASSUME Wrong # {} PROVE FALSE
  OBVIOUS
<1>1. Wrong \in SUBSET (SUBSET S)
  OBVIOUS
<1> HIDE DEF Wrong
<1>2. PICK T \in Wrong : \A U \in Wrong : U \subseteq T => U = T
  BY <1>1, SmallestPart
<1> USE DEF Wrong
<1>3. PICK x \in T : SumOver(f, T) # f[x] + SumOver(f, T \ {x})
  OBVIOUS
<1> DEFINE t == Taken(T)
<1>4. t \in T /\ SumOver(f, T) = f[t] + SumOver(f, T \ {t})
  BY <1>3, SumTakes, TakenIsMember
<1> HIDE DEF t
<1>5. x # t
  BY <1>3, <1>4
<1>6. T \ {t} \notin Wrong /\ T \ {x} \notin Wrong
  BY <1>2, <1>3, <1>4
<1>7. /\ SumOver(f, T \ {t}) = f[x] + SumOver(f, (T \ {t}) \ {x})
      /\ SumOver(f, T \ {x}) = f[t] + SumOver(f, (T \ {x}) \ {t})
  BY <1>3, <1>4, <1>5, <1>6
<1>8. (T \ {t}) \ {x} = (T \ {x}) \ {t}
  OBVIOUS
<1>9. SumOver(f, (T \ {x}) \ {t}) \in Nat
  BY SumIsNat, FS_Subset
<1>10. f[x] \in Nat /\ f[t] \in Nat
  BY <1>3, <1>4
<1> HIDE DEF Wrong
<1> QED BY <1>3, <1>4, <1>7, <1>8, <1>9, <1>10

\* Two sets that share nothing are added up one by one.
LEMMA SumOfDisjoint ==
    ASSUME NEW S, IsFiniteSet(S), NEW f, \A x \in S : f[x] \in Nat,
           NEW T \in SUBSET S, NEW R \in SUBSET S, T \cap R = {}
    PROVE  SumOver(f, T \cup R) = SumOver(f, T) + SumOver(f, R)
<1> DEFINE Wrong == {U \in SUBSET T : SumOver(f, U \cup R) # SumOver(f, U) + SumOver(f, R)}
<1> SUFFICES ASSUME Wrong # {} PROVE FALSE
  OBVIOUS
<1>1. Wrong \in SUBSET (SUBSET S)
  OBVIOUS
<1> HIDE DEF Wrong
<1>2. PICK U \in Wrong : \A V \in Wrong : V \subseteq U => V = U
  BY <1>1, SmallestPart
<1>3. /\ U \in SUBSET T /\ SumOver(f, U \cup R) # SumOver(f, U) + SumOver(f, R)
      /\ IsFiniteSet(U) /\ IsFiniteSet(R) /\ IsFiniteSet(U \cup R)
  BY FS_Subset DEF Wrong
<1>4. SumOver(f, R) \in Nat /\ SumOver(f, U) \in Nat
  BY <1>3, SumIsNat
<1>5. U # {}
  <2> SUFFICES ASSUME U = {} PROVE FALSE
    OBVIOUS
  <2>1. U \cup R = R
    OBVIOUS
  <2>2. SumOver(f, U) = 0
    BY SumOfNothing
  <2> QED BY <1>3, <1>4, <2>1, <2>2
<1>6. PICK x \in U : TRUE
  BY <1>5
<1>7. U \ {x} \notin Wrong
  BY <1>2
<1>8. SumOver(f, (U \ {x}) \cup R) = SumOver(f, U \ {x}) + SumOver(f, R)
  BY <1>3, <1>7 DEF Wrong
<1>9. (U \cup R) \ {x} = (U \ {x}) \cup R
  BY <1>3
<1>10. SumOver(f, U \cup R) = f[x] + SumOver(f, (U \ {x}) \cup R)
  <2>1. x \in U \cup R /\ \A y \in U \cup R : f[y] \in Nat
    BY <1>3
  <2> QED BY <1>3, <1>9, <2>1, SumTakesAny
<1>11. SumOver(f, U) = f[x] + SumOver(f, U \ {x})
  BY <1>3, SumTakesAny
<1>12. f[x] \in Nat /\ SumOver(f, U \ {x}) \in Nat
  <2>1. IsFiniteSet(U \ {x}) /\ \A y \in U \ {x} : f[y] \in Nat
    BY <1>3, FS_Subset
  <2> QED BY <1>3, <2>1, SumIsNat
<1> QED BY <1>3, <1>4, <1>8, <1>10, <1>11, <1>12

\* More elements, or greater ones, add up to no less.
LEMMA SumGrows ==
    ASSUME NEW S, IsFiniteSet(S), NEW T \in SUBSET S, NEW f, NEW g,
           \A x \in T : f[x] \in Nat, \A x \in S : g[x] \in Nat,
           \A x \in T : f[x] <= g[x]
    PROVE  SumOver(f, T) <= SumOver(g, S)
<1> DEFINE Wrong == {U \in SUBSET T : ~(SumOver(f, U) <= SumOver(g, U))}
<1>1. IsFiniteSet(T) /\ IsFiniteSet(S \ T)
  BY FS_Subset
<1>2. Wrong = {}
  <2> SUFFICES ASSUME Wrong # {} PROVE FALSE
    OBVIOUS
  <2>1. Wrong \in SUBSET (SUBSET S)
    OBVIOUS
  <2> HIDE DEF Wrong
  <2>2. PICK U \in Wrong : \A V \in Wrong : V \subseteq U => V = U
    BY <2>1, SmallestPart
  <2>3. U \in SUBSET T /\ ~(SumOver(f, U) <= SumOver(g, U)) /\ IsFiniteSet(U)
    BY <1>1, FS_Subset DEF Wrong
  <2>4. U # {}
    BY <2>3, SumOfNothing
  <2>5. PICK x \in U : TRUE
    BY <2>4
  <2>6. U \ {x} \notin Wrong
    BY <2>2
  <2>7. SumOver(f, U \ {x}) <= SumOver(g, U \ {x})
    BY <2>3, <2>6 DEF Wrong
  <2>8. SumOver(f, U) = f[x] + SumOver(f, U \ {x}) /\ SumOver(g, U) = g[x] + SumOver(g, U \ {x})
    BY <2>3, SumTakesAny
  <2>9. SumOver(f, U \ {x}) \in Nat /\ SumOver(g, U \ {x}) \in Nat
    <3>1. IsFiniteSet(U \ {x}) /\ \A y \in U \ {x} : f[y] \in Nat /\ g[y] \in Nat
      BY <2>3, FS_Subset
    <3> QED BY <3>1, SumIsNat
  <2>10. f[x] \in Nat /\ g[x] \in Nat /\ f[x] <= g[x]
    BY <2>3
  <2> QED BY <2>3, <2>7, <2>8, <2>9, <2>10
<1>3. SumOver(f, T) <= SumOver(g, T)
  BY <1>2
<1>4. SumOver(g, S) = SumOver(g, T) + SumOver(g, S \ T)
  <2>1. T \cup (S \ T) = S /\ T \cap (S \ T) = {} /\ S \ T \in SUBSET S
    OBVIOUS
  <2> QED BY <2>1, SumOfDisjoint
<1>5. SumOver(f, T) \in Nat /\ SumOver(g, T) \in Nat /\ SumOver(g, S \ T) \in Nat
  BY <1>1, SumIsNat
<1> HIDE DEF Wrong
<1> QED BY <1>3, <1>4, <1>5

\* A sum of ones is a count.
LEMMA SumOfOnes ==
    ASSUME NEW S, IsFiniteSet(S), NEW f, \A x \in S : f[x] = 1
    PROVE  SumOver(f, S) = Cardinality(S)
<1> DEFINE Wrong == {T \in SUBSET S : SumOver(f, T) # Cardinality(T)}
<1> SUFFICES ASSUME Wrong # {} PROVE FALSE
  OBVIOUS
<1>1. Wrong \in SUBSET (SUBSET S)
  OBVIOUS
<1> HIDE DEF Wrong
<1>2. PICK T \in Wrong : \A U \in Wrong : U \subseteq T => U = T
  BY <1>1, SmallestPart
<1>3. T \in SUBSET S /\ SumOver(f, T) # Cardinality(T) /\ IsFiniteSet(T)
  BY FS_Subset DEF Wrong
<1>4. T # {}
  BY <1>3, SumOfNothing, FS_EmptySet
<1>5. PICK x \in T : TRUE
  BY <1>4
<1>6. T \ {x} \notin Wrong
  BY <1>2
<1>7. SumOver(f, T \ {x}) = Cardinality(T \ {x})
  BY <1>3, <1>6 DEF Wrong
<1>8. f[x] = 1 /\ \A y \in T : f[y] \in Nat
  BY <1>3
<1>9. SumOver(f, T) = 1 + SumOver(f, T \ {x})
  BY <1>3, <1>8, SumTakesAny
<1>10. Cardinality(T \ {x}) = Cardinality(T) - 1 /\ Cardinality(T) \in Nat
  BY <1>3, FS_RemoveElement, FS_CardinalityType
<1> QED BY <1>3, <1>7, <1>9, <1>10

\* The elements of S that are put into bucket b.
PutInto(b, bucket, S) == {x \in S : bucket[x] = b}

\* However the elements are put into buckets, the totals of the buckets add up
\* to the total.
LEMMA SumOfBuckets ==
    ASSUME NEW S, IsFiniteSet(S), NEW f, \A x \in S : f[x] \in Nat,
           NEW B, IsFiniteSet(B), NEW bucket, \A x \in S : bucket[x] \in B,
           NEW total, \A b \in B : total[b] = SumOver(f, PutInto(b, bucket, S))
    PROVE  SumOver(total, B) = SumOver(f, S)
<1>1. ASSUME NEW T \in SUBSET S, NEW R \in SUBSET S, T \cap R = {}
      PROVE  SumOver(f, T \cup R) = SumOver(f, T) + SumOver(f, R)
  BY <1>1, SumOfDisjoint
<1> DEFINE In(C)   == {x \in S : bucket[x] \in C}
           Of(b)   == PutInto(b, bucket, S)
           Wrong   == {C \in SUBSET B : SumOver(total, C) # SumOver(f, In(C))}
<1>2. Wrong = {}
  <2> SUFFICES ASSUME Wrong # {} PROVE FALSE
    OBVIOUS
  <2>1. Wrong \in SUBSET (SUBSET B)
    OBVIOUS
  <2> HIDE DEF Wrong
  <2>2. PICK C \in Wrong : \A D \in Wrong : D \subseteq C => D = C
    BY <2>1, SmallestPart
  <2>3. C \in SUBSET B /\ SumOver(total, C) # SumOver(f, In(C)) /\ IsFiniteSet(C)
    BY FS_Subset DEF Wrong
  <2>4. C # {}
    <3>1. In({}) = {}
      OBVIOUS
    <3> QED BY <2>3, <3>1, SumOfNothing
  <2>5. PICK b \in C : TRUE
    BY <2>4
  <2> DEFINE D == C \ {b}
  <2>6. D \notin Wrong
    BY <2>2
  <2>7. SumOver(total, D) = SumOver(f, In(D))
    BY <2>3, <2>6 DEF Wrong
  <2>8. /\ Of(b) \cup In(D) = In(C) /\ Of(b) \cap In(D) = {}
        /\ Of(b) \in SUBSET S /\ In(D) \in SUBSET S
    BY DEF PutInto
  <2>9. total[b] = SumOver(f, Of(b))
    BY <2>3
  <2> HIDE DEF In, Of
  <2>10. SumOver(f, In(C)) = SumOver(f, Of(b)) + SumOver(f, In(D))
    <3> HIDE DEF D
    <3> QED BY <1>1, <2>8
  <2>11. \A a \in C : total[a] \in Nat
    <3> TAKE a \in C
    <3>1. Of(a) \in SUBSET S
      BY DEF Of, PutInto
    <3>2. IsFiniteSet(Of(a)) /\ \A x \in Of(a) : f[x] \in Nat
      BY <3>1, FS_Subset
    <3>3. total[a] = SumOver(f, Of(a))
      BY <2>3 DEF Of
    <3> QED BY <3>2, <3>3, SumIsNat
  <2>12. SumOver(total, C) = total[b] + SumOver(total, D)
    BY <2>3, <2>11, SumTakesAny
  <2> QED BY <2>3, <2>7, <2>9, <2>10, <2>12
<1>3. SumOver(total, B) = SumOver(f, In(B))
  BY <1>2
<1>4. In(B) = S
  OBVIOUS
<1> HIDE DEF In
<1> QED BY <1>3, <1>4
=============================================================================
