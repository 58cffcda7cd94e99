-------------------------------- MODULE Sums --------------------------------
(***************************************************************************)
(* What a sum over a finite set is, whatever order its fold takes the       *)
(* elements in: SumFunctionOnSet of the community modules, for functions    *)
(* whose values are naturals.  Induction is by a smallest subset that has   *)
(* not got the property.                                                    *)
(***************************************************************************)
EXTENDS Functions, FiniteSetTheorems, TLAPS

\* A family of subsets of a finite set has a smallest member.
LEMMA SmallestSubset ==
    ASSUME NEW S, IsFiniteSet(S), NEW F \in SUBSET SUBSET S, F # {}
    PROVE  \E T \in F : \A U \in F : U \subseteq T => U = T
<1>1. IsWellFoundedOn(StrictSubsetOrdering(S), FiniteSubsetsOf(S))
  BY FS_StrictSubsetOrderingWellFounded
<1>2. F \subseteq FiniteSubsetsOf(S)
  BY FS_FiniteSubsetsOfFinite
<1>3. \E T \in F : \A U \in F : ~ (<<U, T>> \in StrictSubsetOrdering(S))
  BY <1>1, <1>2, WFMin
<1> QED
  BY <1>3 DEF StrictSubsetOrdering

-----------------------------------------------------------------------------
(* The fold's recursive function exists.                                    *)

\* The element that the fold takes first.
First(T) == CHOOSE x \in T : TRUE

\* s is the function that the fold computes for the subsets of S.
IsSum(s, f, S) ==
    s = [T \in SUBSET S |-> IF T = {} THEN 0 ELSE f[First(T)] + s[T \ {First(T)}]]

SumOf(f, S) == CHOOSE s : IsSum(s, f, S)

LEMMA SumIsFold ==
    ASSUME NEW f, NEW S
    PROVE  SumFunctionOnSet(f, S) = SumOf(f, S)[S]
BY DEF SumFunctionOnSet, FoldFunctionOnSet, MapThenFoldSet, SumOf, IsSum, First

LEMMA FirstIsMember ==
    ASSUME NEW T, T # {}
    PROVE  First(T) \in T
BY DEF First

LEMMA SumUnique ==
    ASSUME NEW f, NEW S, IsFiniteSet(S),
           NEW s, IsSum(s, f, S), NEW r, NEW R, S \subseteq R, IsSum(r, f, R)
    PROVE  \A T \in SUBSET S : s[T] = r[T]
<1> DEFINE Wrong == {T \in SUBSET S : s[T] # r[T]}
<1> SUFFICES ASSUME Wrong # {} PROVE FALSE
  OBVIOUS
<1>0. Wrong \in SUBSET SUBSET S
  OBVIOUS
<1>1. PICK T \in Wrong : \A U \in Wrong : U \subseteq T => U = T
  <2> HIDE DEF Wrong
  <2> QED
    BY <1>0, SmallestSubset
<1>2. CASE T = {}
  BY <1>2 DEF IsSum
<1>3. CASE T # {}
  <2> DEFINE U == T \ {First(T)}
  <2>1. U \subseteq T /\ U # T /\ U \in SUBSET S
    BY <1>3, FirstIsMember
  <2>2. s[U] = r[U]
    BY <1>1, <2>1
  <2>3. s[T] = f[First(T)] + s[U] /\ r[T] = f[First(T)] + r[U]
    BY <1>3 DEF IsSum
  <2> QED
    BY <2>2, <2>3
<1> QED
  BY <1>2, <1>3

LEMMA SumExists ==
    ASSUME NEW f, NEW S, IsFiniteSet(S)
    PROVE  IsSum(SumOf(f, S), f, S)
<1> DEFINE Without == {T \in SUBSET S : ~ IsSum(SumOf(f, T), f, T)}
<1> SUFFICES ASSUME Without # {} PROVE FALSE
  OBVIOUS
<1>0. Without \in SUBSET SUBSET S
  OBVIOUS
<1>1. PICK T \in Without : \A U \in Without : U \subseteq T => U = T
  <2> HIDE DEF Without
  <2> QED
    BY <1>0, SmallestSubset
<1>2. \A U \in SUBSET T : U # T => IsSum(SumOf(f, U), f, U) /\ IsFiniteSet(U)
  BY <1>1, FS_Subset
<1> DEFINE value(U) == IF U = {} THEN 0
                       ELSE f[First(U)] + SumOf(f, U \ {First(U)})[U \ {First(U)}]
           s == [U \in SUBSET T |-> value(U)]
<1>3. ASSUME NEW U \in SUBSET T, U # T PROVE s[U] = SumOf(f, U)[U]
  <2>1. CASE U = {}
    BY <1>2, <1>3, <2>1 DEF IsSum
  <2>2. CASE U # {}
    <3> DEFINE V == U \ {First(U)}
    <3>1. V \subseteq U /\ V # U /\ V \in SUBSET T /\ V # T
      BY <1>3, <2>2, FirstIsMember
    <3>2. IsSum(SumOf(f, U), f, U) /\ IsSum(SumOf(f, V), f, V) /\ IsFiniteSet(V)
      BY <1>2, <1>3, <3>1
    <3>3. SumOf(f, V)[V] = SumOf(f, U)[V]
      BY <3>1, <3>2, SumUnique
    <3>4. SumOf(f, U)[U] = f[First(U)] + SumOf(f, U)[V]
      BY <2>2, <3>2 DEF IsSum
    <3> QED
      BY <2>2, <3>3, <3>4
  <2> QED
    BY <2>1, <2>2
<1>4. IsSum(s, f, T)
  <2> SUFFICES ASSUME NEW U \in SUBSET T, U # {}
               PROVE  value(U) = f[First(U)] + s[U \ {First(U)}]
    BY DEF IsSum
  <2> U \ {First(U)} \in SUBSET T /\ U \ {First(U)} # T
    BY FirstIsMember
  <2> QED
    BY <1>3
<1>5. IsSum(SumOf(f, T), f, T)
  BY <1>4 DEF SumOf
<1> QED
  BY <1>5

\* The fold unfolds once, at the element that it takes first.
LEMMA SumUnfolds ==
    ASSUME NEW f, NEW S, IsFiniteSet(S)
    PROVE  SumFunctionOnSet(f, S) =
             IF S = {} THEN 0 ELSE f[First(S)] + SumFunctionOnSet(f, S \ {First(S)})
<1> DEFINE T == S \ {First(S)}
<1>1. IsSum(SumOf(f, S), f, S) /\ IsFiniteSet(T) /\ T \subseteq S
  BY SumExists, FS_Subset
<1>2. IsSum(SumOf(f, T), f, T)
  BY <1>1, SumExists
<1>3. SumOf(f, S)[T] = SumOf(f, T)[T]
  <2> HIDE DEF T
  <2> QED
    BY <1>1, <1>2, SumUnique
<1>4. SumOf(f, S)[S] = IF S = {} THEN 0 ELSE f[First(S)] + SumOf(f, S)[T]
  BY <1>1 DEF IsSum
<1> QED
  BY <1>3, <1>4, SumIsFold

-----------------------------------------------------------------------------
(* Sums of naturals.                                                        *)

LEMMA SumEmpty == ASSUME NEW f PROVE SumFunctionOnSet(f, {}) = 0
BY SumUnfolds, FS_EmptySet

LEMMA SumType ==
    ASSUME NEW S, IsFiniteSet(S), NEW f, \A x \in S : f[x] \in Nat
    PROVE  SumFunctionOnSet(f, S) \in Nat
<1> DEFINE Wrong == {T \in SUBSET S : SumFunctionOnSet(f, T) \notin Nat}
<1> SUFFICES ASSUME Wrong # {} PROVE FALSE
  OBVIOUS
<1>0. Wrong \in SUBSET SUBSET S
  OBVIOUS
<1>1. PICK T \in Wrong : \A U \in Wrong : U \subseteq T => U = T
  <2> HIDE DEF Wrong
  <2> QED
    BY <1>0, SmallestSubset
<1>2. T # {}
  BY SumEmpty
<1> DEFINE U == T \ {First(T)}
<1>3. /\ U \subseteq T /\ U # T /\ First(T) \in S
      /\ SumFunctionOnSet(f, T) = f[First(T)] + SumFunctionOnSet(f, U)
  BY <1>2, FirstIsMember, SumUnfolds, FS_Subset
<1>4. SumFunctionOnSet(f, U) \in Nat
  BY <1>1, <1>3
<1> QED
  BY <1>3, <1>4

\* The order does not matter: any element may be taken first.
LEMMA SumTakes ==
    ASSUME NEW S, IsFiniteSet(S), NEW f, \A x \in S : f[x] \in Nat, NEW y \in S
    PROVE  SumFunctionOnSet(f, S) = f[y] + SumFunctionOnSet(f, S \ {y})
<1> DEFINE Sum(T) == SumFunctionOnSet(f, T)
           Right(T) == \A x \in T : Sum(T) = f[x] + Sum(T \ {x})
           Wrong == {T \in SUBSET S : ~ Right(T)}
<1> SUFFICES ASSUME Wrong # {} PROVE FALSE
  OBVIOUS
<1>0. Wrong \in SUBSET SUBSET S
  OBVIOUS
<1>1. PICK T \in Wrong : \A U \in Wrong : U \subseteq T => U = T
  <2> HIDE DEF Wrong
  <2> QED
    BY <1>0, SmallestSubset
<1>2. \A U \in SUBSET T : Sum(U) \in Nat /\ (U # T => Right(U)) /\ IsFiniteSet(U)
  BY <1>1, SumType, FS_Subset
<1>3. PICK x \in T : Sum(T) # f[x] + Sum(T \ {x})
  BY <1>1
<1> DEFINE c == First(T)
<1>4. c \in T /\ Sum(T) = f[c] + Sum(T \ {c})
  BY <1>2, <1>3, FirstIsMember, SumUnfolds
<1>5. c # x
  BY <1>3, <1>4
<1> DEFINE U == T \ {c}  V == T \ {x}  W == T \ {c, x}
<1>6. /\ U \in SUBSET T /\ U # T /\ x \in U /\ U \ {x} = W
      /\ V \in SUBSET T /\ V # T /\ c \in V /\ V \ {c} = W
      /\ W \in SUBSET T /\ f[c] \in Nat /\ f[x] \in Nat
  BY <1>4, <1>5
<1>7. Sum(U) = f[x] + Sum(W) /\ Sum(V) = f[c] + Sum(W)
  BY <1>2, <1>6
<1> HIDE DEF Sum, c
<1> QED
  BY <1>2, <1>3, <1>4, <1>6, <1>7

\* The sum over a part and the sum over the rest.
LEMMA SumSplits ==
    ASSUME NEW S, IsFiniteSet(S), NEW f, \A x \in S : f[x] \in Nat, NEW T \in SUBSET S
    PROVE  SumFunctionOnSet(f, S) = SumFunctionOnSet(f, T) + SumFunctionOnSet(f, S \ T)
<1> DEFINE Sum(U) == SumFunctionOnSet(f, U)
           Wrong == {U \in SUBSET S : Sum(S) # Sum(U) + Sum(S \ U)}
<1> SUFFICES ASSUME Wrong # {} PROVE FALSE
  OBVIOUS
<1>0. Wrong \in SUBSET SUBSET S
  OBVIOUS
<1>1. PICK U \in Wrong : \A V \in Wrong : V \subseteq U => V = U
  <2> HIDE DEF Wrong
  <2> QED
    BY <1>0, SmallestSubset
<1>2. \A V \in SUBSET S : Sum(V) \in Nat /\ IsFiniteSet(V)
  BY SumType, FS_Subset
<1>3. U # {}
  <2>1. Sum({}) = 0 /\ S \ {} = S
    BY SumEmpty
  <2>2. Sum(S) \in Nat /\ Sum(S) # Sum(U) + Sum(S \ U)
    BY <1>1, <1>2
  <2> HIDE DEF Sum
  <2> QED
    BY <2>1, <2>2
<1>4. PICK x \in U : TRUE
  BY <1>3
<1> DEFINE V == U \ {x}
<1>5. Sum(S) = Sum(V) + Sum(S \ V)
  BY <1>1, <1>4
<1>6. Sum(U) = f[x] + Sum(V)
  BY <1>1, <1>2, SumTakes
<1>7. Sum(S \ V) = f[x] + Sum(S \ U)
  <2> (S \ V) \ {x} = S \ U /\ x \in S \ V
    BY <1>1, <1>4
  <2> QED
    BY <1>2, SumTakes
<1>8. U \in SUBSET S /\ V \in SUBSET S /\ S \ U \in SUBSET S /\ f[x] \in Nat
  BY <1>1
<1>9. Sum(S) # Sum(U) + Sum(S \ U)
  BY <1>1
<1> HIDE DEF Sum, V
<1> QED
  BY <1>2, <1>5, <1>6, <1>7, <1>8, <1>9

\* Two functions that agree on the set have one sum over it.
LEMMA SumAgrees ==
    ASSUME NEW S, IsFiniteSet(S), NEW f, NEW g, \A x \in S : f[x] = g[x]
    PROVE  SumFunctionOnSet(f, S) = SumFunctionOnSet(g, S)
<1> DEFINE Wrong == {T \in SUBSET S : SumFunctionOnSet(f, T) # SumFunctionOnSet(g, T)}
<1> SUFFICES ASSUME Wrong # {} PROVE FALSE
  OBVIOUS
<1>0. Wrong \in SUBSET SUBSET S
  OBVIOUS
<1>1. PICK T \in Wrong : \A U \in Wrong : U \subseteq T => U = T
  <2> HIDE DEF Wrong
  <2> QED
    BY <1>0, SmallestSubset
<1>2. T # {}
  BY SumEmpty
<1> DEFINE U == T \ {First(T)}
<1>3. /\ U \subseteq T /\ U # T /\ First(T) \in S
      /\ SumFunctionOnSet(f, T) = f[First(T)] + SumFunctionOnSet(f, U)
      /\ SumFunctionOnSet(g, T) = g[First(T)] + SumFunctionOnSet(g, U)
  BY <1>2, FirstIsMember, SumUnfolds, FS_Subset
<1>4. SumFunctionOnSet(f, U) = SumFunctionOnSet(g, U)
  BY <1>1, <1>3
<1> QED
  BY <1>3, <1>4

\* The sum of the sums.
LEMMA SumAdds ==
    ASSUME NEW S, IsFiniteSet(S), NEW f, NEW g, NEW h,
           \A x \in S : f[x] \in Nat /\ g[x] \in Nat /\ h[x] = f[x] + g[x]
    PROVE  SumFunctionOnSet(h, S) = SumFunctionOnSet(f, S) + SumFunctionOnSet(g, S)
<1> DEFINE Wrong == {T \in SUBSET S : SumFunctionOnSet(h, T)
                        # SumFunctionOnSet(f, T) + SumFunctionOnSet(g, T)}
<1> SUFFICES ASSUME Wrong # {} PROVE FALSE
  OBVIOUS
<1>0. Wrong \in SUBSET SUBSET S
  OBVIOUS
<1>1. PICK T \in Wrong : \A U \in Wrong : U \subseteq T => U = T
  <2> HIDE DEF Wrong
  <2> QED
    BY <1>0, SmallestSubset
<1>2. T # {}
  <2>1. \A r : T = {} => SumFunctionOnSet(r, T) = 0
    BY SumEmpty
  <2>2. SumFunctionOnSet(h, T) # SumFunctionOnSet(f, T) + SumFunctionOnSet(g, T)
    BY <1>1
  <2> HIDE DEF Wrong
  <2> QED
    BY <2>1, <2>2
<1> DEFINE x == First(T)  U == T \ {x}
<1>3. /\ U \subseteq T /\ U # T /\ x \in S /\ IsFiniteSet(U)
      /\ SumFunctionOnSet(f, T) = f[x] + SumFunctionOnSet(f, U)
      /\ SumFunctionOnSet(g, T) = g[x] + SumFunctionOnSet(g, U)
      /\ SumFunctionOnSet(h, T) = h[x] + SumFunctionOnSet(h, U)
  BY <1>2, FirstIsMember, SumUnfolds, FS_Subset
<1>4. SumFunctionOnSet(h, U) = SumFunctionOnSet(f, U) + SumFunctionOnSet(g, U)
  BY <1>1, <1>3
<1>5. SumFunctionOnSet(f, U) \in Nat /\ SumFunctionOnSet(g, U) \in Nat
  BY <1>3, SumType
<1>6. f[x] \in Nat /\ g[x] \in Nat /\ h[x] = f[x] + g[x]
  BY <1>3
<1>7. SumFunctionOnSet(h, T) # SumFunctionOnSet(f, T) + SumFunctionOnSet(g, T)
  BY <1>1
<1> HIDE DEF x, U
<1> QED
  BY <1>3, <1>4, <1>5, <1>6, <1>7

\* What adds nothing may be left out.
LEMMA SumOfZeros ==
    ASSUME NEW S, IsFiniteSet(S), NEW f, \A x \in S : f[x] = 0
    PROVE  SumFunctionOnSet(f, S) = 0
<1>1. \A x \in S : f[x] \in Nat /\ f[x] = f[x] + f[x]
  OBVIOUS
<1> DEFINE n == SumFunctionOnSet(f, S)
<1>2. n \in Nat
  BY <1>1, SumType
<1>3. n = n + n
  BY <1>1, SumAdds
<1> HIDE DEF n
<1>4. n = 0
  BY <1>2, <1>3
<1> QED
  BY <1>4 DEF n
=============================================================================
