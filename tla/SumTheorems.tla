----------------------------- MODULE SumTheorems -----------------------------
(***************************************************************************)
(* What SumFunctionOnSet and SumFunction of the community modules compute, *)
(* for the proofs about amounts that are added up over rows.               *)
(***************************************************************************)
EXTENDS Integers, FiniteSets, Functions, FiniteSetTheorems, WellFoundedInduction, TLAPS

-----------------------------------------------------------------------------
(* Induction over the finite subsets of a set, with the property given as  *)
(* the set of those that have it.                                          *)

\* What holds of a finite set when it holds of all its proper subsets holds of it.
LEMMA SubsetInduction ==
  ASSUME NEW S, IsFiniteSet(S), NEW P,
         \A T \in SUBSET S : (\A U \in SUBSET T : U # T => U \in P) => T \in P
  PROVE  S \in P
<1>1. IsWellFoundedOn(StrictSubsetOrdering(S), SUBSET S)
  BY FS_StrictSubsetOrderingWellFounded, FS_FiniteSubsetsOfFinite
<1>2. SUFFICES ASSUME S \notin P PROVE FALSE
  OBVIOUS
<1>3. PICK T \in (SUBSET S) \ P : \A U \in (SUBSET S) \ P : <<U, T>> \notin StrictSubsetOrdering(S)
  <2> DEFINE Bad == (SUBSET S) \ P
  <2>1. Bad \subseteq SUBSET S /\ Bad # {}
    BY <1>2
  <2> HIDE DEF Bad
  <2>2. \E T \in Bad : \A U \in Bad : ~ (<<U, T>> \in StrictSubsetOrdering(S))
    BY <1>1, <2>1, WFMin
  <2> QED
    BY <2>2 DEF Bad
<1>4. \A U \in SUBSET T : U # T => U \in P
  BY <1>3 DEF StrictSubsetOrdering
<1>5. T \in P
  BY <1>3, <1>4
<1> QED
  BY <1>3, <1>5

-----------------------------------------------------------------------------
(* The fold is a recursive function over the subsets: there is one such    *)
(* function and only one.                                                  *)

FirstOf(s) == CHOOSE x \in s : TRUE

PartialSums(f, S, g) ==
  g = [s \in SUBSET S |-> IF s = {} THEN 0 ELSE f[FirstOf(s)] + g[s \ {FirstOf(s)}]]

\* The fold of the community modules is the value of that function at the whole set.
LEMMA SumIsPartial ==
  ASSUME NEW f, NEW S
  PROVE  SumFunctionOnSet(f, S) = (CHOOSE g : PartialSums(f, S, g))[S]
BY DEF SumFunctionOnSet, FoldFunctionOnSet, MapThenFoldSet, PartialSums, FirstOf

\* The element taken out first is one of the set.
LEMMA FirstOfMember ==
  ASSUME NEW s, s # {}
  PROVE  FirstOf(s) \in s
BY DEF FirstOf

\* Two such functions agree wherever both are defined.
LEMMA PartialSumsAgree ==
  ASSUME NEW f, NEW S, IsFiniteSet(S), NEW T, NEW U, S \subseteq T, S \subseteq U,
         NEW g, PartialSums(f, T, g), NEW h, PartialSums(f, U, h)
  PROVE  g[S] = h[S]
<1> DEFINE P == {s \in SUBSET S : g[s] = h[s]}
<1> SUFFICES S \in P
  OBVIOUS
<1>1. ASSUME NEW s \in SUBSET S, \A u \in SUBSET s : u # s => u \in P
      PROVE  s \in P
  <2>1. CASE s = {}
    BY <2>1 DEF PartialSums
  <2>2. CASE s # {}
    <3> DEFINE r == s \ {FirstOf(s)}
    <3>1. r \in SUBSET s /\ r # s
      BY <2>2, FirstOfMember
    <3>2. g[r] = h[r]
      BY <1>1, <3>1
    <3>3. g[s] = f[FirstOf(s)] + g[r] /\ h[s] = f[FirstOf(s)] + h[r]
      BY <2>2 DEF PartialSums
    <3> QED
      BY <3>2, <3>3
  <2> QED
    BY <2>1, <2>2
<1> HIDE DEF P
<1> QED
  BY <1>1, SubsetInduction

\* There is such a function for every finite set.
LEMMA PartialSumsExist ==
  ASSUME NEW f, NEW S, IsFiniteSet(S)
  PROVE  \E g : PartialSums(f, S, g)
<1> DEFINE P == {s \in SUBSET S : \E g : PartialSums(f, s, g)}
           Val(s) == (CHOOSE g : PartialSums(f, s, g))[s]
<1> SUFFICES S \in P
  OBVIOUS
<1>1. ASSUME NEW s \in P
      PROVE  PartialSums(f, s, CHOOSE g : PartialSums(f, s, g))
  OBVIOUS
<1>2. ASSUME NEW s \in SUBSET S, \A u \in SUBSET s : u # s => u \in P
      PROVE  s \in P
  <2> DEFINE h == [u \in SUBSET s |-> IF u = s THEN (IF s = {} THEN 0 ELSE f[FirstOf(s)] + Val(s \ {FirstOf(s)}))
                                                ELSE Val(u)]
  <2>1. ASSUME NEW u \in SUBSET s
        PROVE  h[u] = IF u = {} THEN 0 ELSE f[FirstOf(u)] + h[u \ {FirstOf(u)}]
    <3> DEFINE r == u \ {FirstOf(u)}
    <3>0. u # {} => r \in SUBSET u /\ r # u /\ r # s
      BY FirstOfMember
    <3>1. CASE u = s
      BY <3>0, <3>1
    <3>2. CASE u # s
      <4>1. PICK g : PartialSums(f, u, g) /\ h[u] = g[u]
        BY <1>1, <1>2, <3>2
      <4>2. CASE u = {}
        BY <4>1, <4>2 DEF PartialSums
      <4>3. CASE u # {}
        <5>1. PICK k : PartialSums(f, r, k) /\ h[r] = k[r]
          BY <1>1, <1>2, <3>0, <4>3
        <5>2. IsFiniteSet(r)
          BY FS_Subset
        <5>3. r \subseteq u /\ r \subseteq r
          OBVIOUS
        <5> HIDE DEF h, P, Val
        <5>4. g[r] = k[r]
          <6> HIDE DEF r
          <6> QED
            BY <4>1, <5>1, <5>2, <5>3, PartialSumsAgree
        <5>5. g[u] = f[FirstOf(u)] + g[r]
          BY <4>1, <4>3 DEF PartialSums
        <5> QED
          BY <4>1, <4>3, <5>1, <5>4, <5>5
      <4> QED
        BY <4>2, <4>3
    <3> QED
      BY <3>1, <3>2
  <2>2. PartialSums(f, s, h)
    <3>1. h = [u \in SUBSET s |-> h[u]]
      OBVIOUS
    <3> HIDE DEF h
    <3> QED
      BY <2>1, <3>1 DEF PartialSums
  <2> QED
    <3> HIDE DEF h
    <3> QED
      BY <2>2
<1> HIDE DEF P
<1> QED
  BY <1>2, SubsetInduction

\* A sum takes out one element and adds the sum of the others.
LEMMA SumUnfolds ==
  ASSUME NEW f, NEW S, IsFiniteSet(S)
  PROVE  SumFunctionOnSet(f, S) =
           IF S = {} THEN 0 ELSE f[FirstOf(S)] + SumFunctionOnSet(f, S \ {FirstOf(S)})
<1> DEFINE g == CHOOSE g : PartialSums(f, S, g)
           r == S \ {FirstOf(S)}
           h == CHOOSE h : PartialSums(f, r, h)
<1>1. PartialSums(f, S, g)
  BY PartialSumsExist
<1>2. IsFiniteSet(r)
  BY FS_Subset
<1>3. PartialSums(f, r, h)
  <2> HIDE DEF r
  <2> QED
    BY <1>2, PartialSumsExist
<1>4. SumFunctionOnSet(f, S) = g[S] /\ SumFunctionOnSet(f, r) = h[r]
  BY SumIsPartial
<1>5. r \subseteq S
  OBVIOUS
<1> HIDE DEF g, h
<1>6. g[r] = h[r]
  <2> HIDE DEF r
  <2> QED
    BY <1>1, <1>2, <1>3, <1>5, PartialSumsAgree
<1>7. g[S] = IF S = {} THEN 0 ELSE f[FirstOf(S)] + g[r]
  BY <1>1 DEF PartialSums
<1> QED
  BY <1>4, <1>6, <1>7

-----------------------------------------------------------------------------
(* The laws of finite sums. *)

\* Nothing adds up to zero.
LEMMA SumEmpty ==
  ASSUME NEW f
  PROVE  SumFunctionOnSet(f, {}) = 0
BY SumUnfolds, FS_EmptySet

\* Integers add up to an integer.
LEMMA SumInt ==
  ASSUME NEW f, NEW S, IsFiniteSet(S), \A x \in S : f[x] \in Int
  PROVE  SumFunctionOnSet(f, S) \in Int
<1> DEFINE P == {s \in SUBSET S : SumFunctionOnSet(f, s) \in Int}
<1>1. ASSUME NEW s \in SUBSET S, \A u \in SUBSET s : u # s => u \in P
      PROVE  s \in P
  <2> DEFINE r == s \ {FirstOf(s)}
  <2>1. SumFunctionOnSet(f, s) = IF s = {} THEN 0 ELSE f[FirstOf(s)] + SumFunctionOnSet(f, r)
    BY FS_Subset, SumUnfolds
  <2>2. s # {} => FirstOf(s) \in s /\ r \in SUBSET s /\ r # s
    BY FirstOfMember
  <2>3. s # {} => SumFunctionOnSet(f, r) \in Int /\ f[FirstOf(s)] \in Int
    BY <1>1, <2>2
  <2> HIDE DEF r
  <2> QED
    BY <2>1, <2>3
<1> HIDE DEF P
<1>2. S \in P
  BY <1>1, SubsetInduction
<1> QED
  BY <1>2 DEF P

\* Any element may be taken out first.
LEMMA SumRemove ==
  ASSUME NEW f, NEW S, IsFiniteSet(S), \A x \in S : f[x] \in Int, NEW x \in S
  PROVE  SumFunctionOnSet(f, S) = f[x] + SumFunctionOnSet(f, S \ {x})
<1> DEFINE P == {s \in SUBSET S : \A y \in s : SumFunctionOnSet(f, s) = f[y] + SumFunctionOnSet(f, s \ {y})}
<1>1. ASSUME NEW s \in SUBSET S, \A u \in SUBSET s : u # s => u \in P, NEW y \in s
      PROVE  SumFunctionOnSet(f, s) = f[y] + SumFunctionOnSet(f, s \ {y})
  <2> DEFINE p == FirstOf(s)
             r == s \ {p}
             t == s \ {y}
             q == s \ {p, y}
  <2>1. p \in s
    BY FirstOfMember
  <2>2. SumFunctionOnSet(f, s) = f[p] + SumFunctionOnSet(f, r)
    BY FS_Subset, SumUnfolds
  <2>3. CASE y = p
    BY <2>2, <2>3
  <2>4. CASE y # p
    <3>1. r \in P /\ t \in P /\ y \in r /\ p \in t /\ r \ {y} = q /\ t \ {p} = q
      BY <1>1, <2>1, <2>4
    <3>2. SumFunctionOnSet(f, r) = f[y] + SumFunctionOnSet(f, q)
      BY <3>1
    <3>3. SumFunctionOnSet(f, t) = f[p] + SumFunctionOnSet(f, q)
      BY <3>1
    <3>4. SumFunctionOnSet(f, q) \in Int
      <4>1. IsFiniteSet(q) /\ q \subseteq S
        BY FS_Subset
      <4> HIDE DEF q
      <4> QED
        BY <4>1, SumInt
    <3>5. f[p] \in Int /\ f[y] \in Int
      BY <2>1
    <3> HIDE DEF p, q, r, t
    <3>6. f[p] + (f[y] + SumFunctionOnSet(f, q)) = f[y] + (f[p] + SumFunctionOnSet(f, q))
      BY <3>4, <3>5
    <3> QED
      BY <2>2, <3>2, <3>3, <3>6 DEF t
  <2> QED
    BY <2>3, <2>4
<1>2. ASSUME NEW s \in SUBSET S, \A u \in SUBSET s : u # s => u \in P
      PROVE  s \in P
  BY <1>1, <1>2
<1>3. S \in P
  <2> HIDE DEF P
  <2> QED
    BY <1>2, SubsetInduction
<1> QED
  BY <1>3

\* Induction element by element, enough for everything that follows.
LEMMA ElementInduction ==
  ASSUME NEW S, IsFiniteSet(S), NEW P, {} \in P,
         \A T \in SUBSET S : \A x \in S \ T : T \in P => T \cup {x} \in P
  PROVE  S \in P
<1>1. ASSUME NEW T \in SUBSET S, \A U \in SUBSET T : U # T => U \in P
      PROVE  T \in P
  <2>1. CASE T = {}
    BY <2>1
  <2>2. CASE T # {}
    <3>1. PICK x \in T : TRUE
      BY <2>2
    <3> DEFINE U == T \ {x}
    <3>2. U \in SUBSET T /\ U # T /\ U \in SUBSET S /\ x \in S \ U /\ U \cup {x} = T
      BY <3>1
    <3>3. U \in P
      BY <1>1, <3>2
    <3> HIDE DEF U
    <3> QED
      BY <3>2, <3>3
  <2> QED
    BY <2>1, <2>2
<1> QED
  BY <1>1, SubsetInduction

\* One more row adds its amount.
LEMMA SumAdd ==
  ASSUME NEW f, NEW S, IsFiniteSet(S), NEW x, x \notin S, \A y \in S \cup {x} : f[y] \in Int
  PROVE  SumFunctionOnSet(f, S \cup {x}) = f[x] + SumFunctionOnSet(f, S)
<1>1. IsFiniteSet(S \cup {x}) /\ x \in S \cup {x} /\ (S \cup {x}) \ {x} = S
  BY FS_AddElement
<1> QED
  BY <1>1, SumRemove

\* Equal summands have equal sums.
LEMMA SumEqual ==
  ASSUME NEW S, IsFiniteSet(S), NEW f, NEW g,
         \A x \in S : f[x] \in Int /\ f[x] = g[x]
  PROVE  SumFunctionOnSet(f, S) = SumFunctionOnSet(g, S)
<1> DEFINE P == {T \in SUBSET S : SumFunctionOnSet(f, T) = SumFunctionOnSet(g, T)}
<1>1. {} \in P
  BY SumEmpty
<1>2. ASSUME NEW T \in SUBSET S, NEW x \in S \ T, T \in P
      PROVE  T \cup {x} \in P
  <2>1. SumFunctionOnSet(f, T \cup {x}) = f[x] + SumFunctionOnSet(f, T)
    BY FS_Subset, SumAdd
  <2>2. SumFunctionOnSet(g, T \cup {x}) = g[x] + SumFunctionOnSet(g, T)
    BY FS_Subset, SumAdd
  <2> QED
    BY <1>2, <2>1, <2>2
<1>3. S \in P
  <2> HIDE DEF P
  <2> QED
    BY <1>1, <1>2, ElementInduction
<1> QED
  BY <1>3

\* The sum of two columns is the sum of their row totals.
LEMMA SumPlus ==
  ASSUME NEW S, IsFiniteSet(S), NEW f, NEW g, NEW h,
         \A x \in S : f[x] \in Int /\ g[x] \in Int /\ h[x] = f[x] + g[x]
  PROVE  SumFunctionOnSet(h, S) = SumFunctionOnSet(f, S) + SumFunctionOnSet(g, S)
<1> DEFINE P == {T \in SUBSET S : SumFunctionOnSet(h, T) = SumFunctionOnSet(f, T) + SumFunctionOnSet(g, T)}
<1>1. {} \in P
  BY SumEmpty
<1>2. ASSUME NEW T \in SUBSET S, NEW x \in S \ T, T \in P
      PROVE  T \cup {x} \in P
  <2>0. IsFiniteSet(T)
    BY FS_Subset
  <2>1. SumFunctionOnSet(f, T \cup {x}) = f[x] + SumFunctionOnSet(f, T)
    BY <2>0, SumAdd
  <2>2. SumFunctionOnSet(g, T \cup {x}) = g[x] + SumFunctionOnSet(g, T)
    BY <2>0, SumAdd
  <2>3. SumFunctionOnSet(h, T \cup {x}) = h[x] + SumFunctionOnSet(h, T)
    <3>1. \A y \in T \cup {x} : h[y] \in Int
      OBVIOUS
    <3> QED
      BY <2>0, <3>1, SumAdd
  <2>4. SumFunctionOnSet(f, T) \in Int /\ SumFunctionOnSet(g, T) \in Int
    BY <2>0, SumInt
  <2>5. f[x] \in Int /\ g[x] \in Int /\ h[x] = f[x] + g[x]
    OBVIOUS
  <2>6. SumFunctionOnSet(h, T) = SumFunctionOnSet(f, T) + SumFunctionOnSet(g, T)
    BY <1>2
  <2>7. SumFunctionOnSet(h, T \cup {x}) = SumFunctionOnSet(f, T \cup {x}) + SumFunctionOnSet(g, T \cup {x})
    BY <2>1, <2>2, <2>3, <2>4, <2>5, <2>6
  <2> QED
    BY <2>7
<1>3. S \in P
  <2> HIDE DEF P
  <2> QED
    BY <1>1, <1>2, ElementInduction
<1> QED
  BY <1>3

\* Summands of zero add up to zero.
LEMMA SumZero ==
  ASSUME NEW S, IsFiniteSet(S), NEW f, \A x \in S : f[x] = 0
  PROVE  SumFunctionOnSet(f, S) = 0
<1>1. SumFunctionOnSet(f, S) \in Int
  BY SumInt
<1>2. SumFunctionOnSet(f, S) = SumFunctionOnSet(f, S) + SumFunctionOnSet(f, S)
  BY SumPlus
<1> QED
  BY <1>1, <1>2

\* The difference of two columns is the sum of the row differences.
LEMMA SumMinus ==
  ASSUME NEW S, IsFiniteSet(S), NEW f, NEW g, NEW h,
         \A x \in S : f[x] \in Int /\ g[x] \in Int /\ h[x] = f[x] - g[x]
  PROVE  SumFunctionOnSet(h, S) = SumFunctionOnSet(f, S) - SumFunctionOnSet(g, S)
<1>0. \A x \in S : h[x] \in Int /\ g[x] \in Int /\ f[x] = h[x] + g[x]
  OBVIOUS
<1>1. SumFunctionOnSet(f, S) = SumFunctionOnSet(h, S) + SumFunctionOnSet(g, S)
  BY <1>0, SumPlus
<1>2. SumFunctionOnSet(g, S) \in Int /\ SumFunctionOnSet(h, S) \in Int
  BY <1>0, SumInt
<1> QED
  BY <1>1, <1>2

\* When one summand changes by d, the sum does.
LEMMA SumChange ==
  ASSUME NEW S, IsFiniteSet(S), NEW f, NEW g, NEW x \in S, NEW d \in Int,
         \A y \in S : f[y] \in Int, g[x] = f[x] + d, \A y \in S : y # x => g[y] = f[y]
  PROVE  SumFunctionOnSet(g, S) = SumFunctionOnSet(f, S) + d
<1> DEFINE T == S \ {x}
<1>0. IsFiniteSet(T) /\ T \subseteq S
  BY FS_Subset
<1>1. SumFunctionOnSet(f, S) = f[x] + SumFunctionOnSet(f, T)
  BY SumRemove
<1>2. SumFunctionOnSet(g, S) = g[x] + SumFunctionOnSet(g, T)
  <2>1. \A y \in S : g[y] \in Int
    OBVIOUS
  <2> QED
    BY <2>1, SumRemove
<1>3. SumFunctionOnSet(f, T) = SumFunctionOnSet(g, T)
  BY <1>0, SumEqual
<1>4. SumFunctionOnSet(f, T) \in Int /\ f[x] \in Int
  BY <1>0, SumInt
<1> HIDE DEF T
<1> QED
  BY <1>1, <1>2, <1>3, <1>4

\* Disjoint parts may be summed on their own.
LEMMA SumUnion ==
  ASSUME NEW S, IsFiniteSet(S), NEW U, IsFiniteSet(U), S \cap U = {}, NEW f, \A x \in S \cup U : f[x] \in Int
  PROVE  SumFunctionOnSet(f, S \cup U) = SumFunctionOnSet(f, S) + SumFunctionOnSet(f, U)
<1> DEFINE P == {T \in SUBSET S : SumFunctionOnSet(f, T \cup U) = SumFunctionOnSet(f, T) + SumFunctionOnSet(f, U)}
<1>0. SumFunctionOnSet(f, U) \in Int
  BY SumInt
<1>1. {} \in P
  <2>1. {} \cup U = U
    OBVIOUS
  <2> QED
    BY <1>0, <2>1, SumEmpty
<1>2. ASSUME NEW T \in SUBSET S, NEW x \in S \ T, T \in P
      PROVE  T \cup {x} \in P
  <2>0. IsFiniteSet(T) /\ IsFiniteSet(T \cup U)
    BY FS_Subset, FS_Union
  <2>1. SumFunctionOnSet(f, T \cup {x}) = f[x] + SumFunctionOnSet(f, T)
    BY <2>0, SumAdd
  <2>2. SumFunctionOnSet(f, (T \cup U) \cup {x}) = f[x] + SumFunctionOnSet(f, T \cup U)
    <3>1. x \notin T \cup U
      OBVIOUS
    <3>2. \A y \in (T \cup U) \cup {x} : f[y] \in Int
      OBVIOUS
    <3> DEFINE W == T \cup U
    <3> HIDE DEF W
    <3> QED
      BY <2>0, <3>1, <3>2, SumAdd DEF W
  <2>3. SumFunctionOnSet(f, T) \in Int /\ f[x] \in Int
    BY <2>0, SumInt
  <2>4. (T \cup U) \cup {x} = (T \cup {x}) \cup U
    OBVIOUS
  <2>5. SumFunctionOnSet(f, T \cup U) = SumFunctionOnSet(f, T) + SumFunctionOnSet(f, U)
    BY <1>2
  <2>6. SumFunctionOnSet(f, (T \cup {x}) \cup U) = SumFunctionOnSet(f, T \cup {x}) + SumFunctionOnSet(f, U)
    <3>1. f[x] + (SumFunctionOnSet(f, T) + SumFunctionOnSet(f, U)) = (f[x] + SumFunctionOnSet(f, T)) + SumFunctionOnSet(f, U)
      BY <1>0, <2>3
    <3>2. SumFunctionOnSet(f, (T \cup {x}) \cup U) = f[x] + (SumFunctionOnSet(f, T) + SumFunctionOnSet(f, U))
      BY <2>2, <2>4, <2>5
    <3> QED
      BY <2>1, <3>1, <3>2
  <2> QED
    BY <2>6
<1>3. S \in P
  <2> HIDE DEF P
  <2> QED
    BY <1>1, <1>2, ElementInduction
<1> QED
  BY <1>3

\* Rows of zero may be left out.
LEMMA SumSupport ==
  ASSUME NEW S, IsFiniteSet(S), NEW T \in SUBSET S, NEW f, \A x \in S : f[x] \in Int, \A x \in S \ T : f[x] = 0
  PROVE  SumFunctionOnSet(f, S) = SumFunctionOnSet(f, T)
<1> DEFINE U == S \ T
<1>1. IsFiniteSet(T) /\ IsFiniteSet(U) /\ T \cap U = {} /\ T \cup U = S /\ \A x \in U : f[x] = 0
  BY FS_Subset
<1> HIDE DEF U
<1>2. SumFunctionOnSet(f, S) = SumFunctionOnSet(f, T) + SumFunctionOnSet(f, U)
  BY <1>1, SumUnion
<1>3. SumFunctionOnSet(f, U) = 0 /\ SumFunctionOnSet(f, T) \in Int
  BY <1>1, SumZero, SumInt
<1> QED
  BY <1>2, <1>3

\* Natural numbers add up to a natural number.
LEMMA SumNat ==
  ASSUME NEW S, IsFiniteSet(S), NEW f, \A x \in S : f[x] \in Nat
  PROVE  SumFunctionOnSet(f, S) \in Nat
<1> DEFINE P == {T \in SUBSET S : SumFunctionOnSet(f, T) \in Nat}
<1>1. {} \in P
  BY SumEmpty
<1>2. ASSUME NEW T \in SUBSET S, NEW x \in S \ T, T \in P
      PROVE  T \cup {x} \in P
  <2>1. SumFunctionOnSet(f, T \cup {x}) = f[x] + SumFunctionOnSet(f, T)
    BY FS_Subset, SumAdd
  <2>2. SumFunctionOnSet(f, T) \in Nat /\ f[x] \in Nat
    BY <1>2
  <2>3. SumFunctionOnSet(f, T \cup {x}) \in Nat
    BY <2>1, <2>2
  <2> QED
    BY <2>3
<1>3. S \in P
  <2> HIDE DEF P
  <2> QED
    BY <1>1, <1>2, ElementInduction
<1> QED
  BY <1>3

\* The indices of the rows may be renamed one to one.
LEMMA SumRename ==
  ASSUME NEW S, IsFiniteSet(S), NEW f, NEW g, NEW b,
         \A x \in S : f[x] \in Int /\ g[b[x]] = f[x],
         \A x, y \in S : b[x] = b[y] => x = y
  PROVE  SumFunctionOnSet(g, {b[x] : x \in S}) = SumFunctionOnSet(f, S)
<1> DEFINE P == {T \in SUBSET S : /\ IsFiniteSet({b[x] : x \in T})
                                  /\ SumFunctionOnSet(g, {b[x] : x \in T}) = SumFunctionOnSet(f, T)}
<1>1. {} \in P
  <2>1. {b[x] : x \in {}} = {}
    OBVIOUS
  <2> QED
    BY <2>1, SumEmpty, FS_EmptySet
<1>2. ASSUME NEW T \in SUBSET S, NEW x \in S \ T, T \in P
      PROVE  T \cup {x} \in P
  <2> DEFINE B == {b[y] : y \in T}
  <2>1. SumFunctionOnSet(f, T \cup {x}) = f[x] + SumFunctionOnSet(f, T)
    BY FS_Subset, SumAdd
  <2>2. {b[y] : y \in T \cup {x}} = B \cup {b[x]}
    OBVIOUS
  <2>3. b[x] \notin B
    OBVIOUS
  <2>4. IsFiniteSet(B) /\ SumFunctionOnSet(g, B) = SumFunctionOnSet(f, T)
    BY <1>2
  <2>5. \A z \in B \cup {b[x]} : g[z] \in Int
    OBVIOUS
  <2> HIDE DEF B
  <2>6. IsFiniteSet(B \cup {b[x]}) /\ SumFunctionOnSet(g, B \cup {b[x]}) = g[b[x]] + SumFunctionOnSet(g, B)
    BY <2>3, <2>4, <2>5, SumAdd, FS_AddElement
  <2>7. g[b[x]] = f[x]
    OBVIOUS
  <2> QED
    BY <2>1, <2>2, <2>4, <2>6, <2>7
<1>3. S \in P
  <2> HIDE DEF P
  <2> QED
    BY <1>1, <1>2, ElementInduction
<1> QED
  BY <1>3

\* A table adds up to the same by rows and by columns.
LEMMA SumByRowOrColumn ==
  ASSUME NEW S, IsFiniteSet(S), NEW T, IsFiniteSet(T), NEW a,
         \A x \in S, y \in T : a[<<x, y>>] \in Int
  PROVE  SumFunctionOnSet([x \in S |-> SumFunctionOnSet([y \in T |-> a[<<x, y>>]], T)], S)
           = SumFunctionOnSet([y \in T |-> SumFunctionOnSet([x \in S |-> a[<<x, y>>]], S)], T)
<1> DEFINE Row(x) == SumFunctionOnSet([y \in T |-> a[<<x, y>>]], T)
           Column(U, y) == SumFunctionOnSet([x \in S |-> a[<<x, y>>]], U)
           rows == [x \in S |-> Row(x)]
           columns(U) == [y \in T |-> Column(U, y)]
           P == {U \in SUBSET S : SumFunctionOnSet(rows, U) = SumFunctionOnSet(columns(U), T)}
<1>0. \A x \in S : Row(x) \in Int
  <2> SUFFICES ASSUME NEW x \in S PROVE Row(x) \in Int
    OBVIOUS
  <2>1. \A y \in T : [z \in T |-> a[<<x, z>>]][y] \in Int
    OBVIOUS
  <2> QED
    BY <2>1, SumInt
<1>1. {} \in P
  <2>1. \A y \in T : columns({})[y] = 0
    BY SumEmpty
  <2>2. SumFunctionOnSet(columns({}), T) = 0
    <3> HIDE DEF columns
    <3> QED
      BY <2>1, SumZero
  <2> QED
    BY <2>2, SumEmpty
<1>2. ASSUME NEW U \in SUBSET S, NEW x \in S \ U, U \in P
      PROVE  U \cup {x} \in P
  <2>0. IsFiniteSet(U)
    BY FS_Subset
  <2>1. SumFunctionOnSet(rows, U \cup {x}) = rows[x] + SumFunctionOnSet(rows, U)
    <3>1. \A y \in U \cup {x} : rows[y] \in Int
      BY <1>0
    <3> HIDE DEF rows
    <3> QED
      BY <2>0, <3>1, SumAdd
  <2>2. ASSUME NEW y \in T
        PROVE  Column(U \cup {x}, y) = a[<<x, y>>] + Column(U, y) /\ Column(U, y) \in Int
    <3> DEFINE c == [z \in S |-> a[<<z, y>>]]
    <3>1. \A z \in U \cup {x} : c[z] \in Int
      OBVIOUS
    <3>2. c[x] = a[<<x, y>>]
      OBVIOUS
    <3> HIDE DEF c
    <3>3. SumFunctionOnSet(c, U \cup {x}) = c[x] + SumFunctionOnSet(c, U) /\ SumFunctionOnSet(c, U) \in Int
      BY <2>0, <3>1, SumAdd, SumInt
    <3> QED
      BY <3>2, <3>3 DEF c
  <2>3. SumFunctionOnSet(columns(U \cup {x}), T) = Row(x) + SumFunctionOnSet(columns(U), T)
    <3> DEFINE r == [y \in T |-> a[<<x, y>>]]
               old == columns(U)
               new == columns(U \cup {x})
    <3>1. \A y \in T : r[y] \in Int /\ old[y] \in Int /\ new[y] = r[y] + old[y]
      BY <2>2
    <3> HIDE DEF r, old, new
    <3>2. SumFunctionOnSet(new, T) = SumFunctionOnSet(r, T) + SumFunctionOnSet(old, T)
      BY <3>1, SumPlus
    <3> QED
      BY <3>2 DEF r, old, new
  <2>4. rows[x] = Row(x)
    OBVIOUS
  <2>5. SumFunctionOnSet(rows, U) = SumFunctionOnSet(columns(U), T)
    BY <1>2
  <2> HIDE DEF rows, columns, Row
  <2>6. SumFunctionOnSet(rows, U \cup {x}) = SumFunctionOnSet(columns(U \cup {x}), T)
    BY <2>1, <2>3, <2>4, <2>5
  <2> QED
    BY <2>6
<1>3. S \in P
  <2> HIDE DEF P
  <2> QED
    BY <1>1, <1>2, ElementInduction
<1>4. SumFunctionOnSet(rows, S) = SumFunctionOnSet(columns(S), T)
  BY <1>3
<1> QED
  BY <1>4

\* One row of a table changes: the sum over the rows of S changes if the row is one of them.
LEMMA SumEffect ==
  ASSUME NEW D, NEW S \in SUBSET D, IsFiniteSet(S), NEW f, NEW g, NEW x \in D, NEW d \in Int,
         \A y \in D : f[y] \in Int, g[x] = f[x] + d, \A y \in D : y # x => g[y] = f[y]
  PROVE  SumFunctionOnSet(g, S) = SumFunctionOnSet(f, S) + (IF x \in S THEN d ELSE 0)
<1>1. CASE x \in S
  BY <1>1, SumChange
<1>2. CASE x \notin S
  <2>1. SumFunctionOnSet(f, S) = SumFunctionOnSet(g, S) /\ SumFunctionOnSet(f, S) \in Int
    BY <1>2, SumEqual, SumInt
  <2> QED
    BY <1>2, <2>1
<1> QED
  BY <1>1, <1>2

-----------------------------------------------------------------------------
\* Induction over the numbers up to n, for functions that are defined index by index.
LEMMA StepwiseInduction ==
  ASSUME NEW n \in Nat, NEW P, 0 \in P, \A k \in 0 .. n - 1 : k \in P => k + 1 \in P
  PROVE  n \in P
<1> DEFINE bad == {k \in 0 .. n : k \notin P}
<1>1. SUFFICES ASSUME n \notin P PROVE FALSE
  OBVIOUS
<1>2. bad \subseteq Nat /\ bad # {}
  BY <1>1
<1>3. PICK k \in bad : \A j \in bad : <<j, k>> \notin OpToRel(<, Nat)
  <2> HIDE DEF bad
  <2> QED BY <1>2, NatLessThanWellFounded, WFMin
<1>4. k # 0 /\ k \in 0 .. n
  BY <1>3
<1>5. k - 1 \in 0 .. n - 1 /\ <<k - 1, k>> \in OpToRel(<, Nat)
  BY <1>4 DEF OpToRel
<1>6. k - 1 \notin bad /\ k - 1 \in 0 .. n
  <2>1. k - 1 \in 0 .. n
    BY <1>4
  <2> HIDE DEF bad
  <2> QED BY <2>1, <1>3, <1>5
<1>7. k - 1 \in P /\ (k - 1) + 1 = k
  BY <1>4, <1>6
<1> QED
  BY <1>3, <1>5, <1>7
=============================================================================
