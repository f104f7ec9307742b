-------------------------------- MODULE Sums --------------------------------
(***************************************************************************)
(* What is proved about sums of a function over a finite set.              *)
(***************************************************************************)
EXTENDS Integers, FiniteSets, Functions, FiniteSetTheorems, TLAPS

First(s) == CHOOSE x \in s : TRUE

(* it has the sum of f over every subset of S.                             *)
IsSums(it, f, S) ==
  it = [s \in SUBSET S |-> IF s = {} THEN 0 ELSE f[First(s)] + it[s \ {First(s)}]]

Sums(f, S) == CHOOSE it : IsSums(it, f, S)

LEMMA SumUnfolds ==
  ASSUME NEW f, NEW S
  PROVE  SumFunctionOnSet(f, S) = Sums(f, S)[S]
BY DEF SumFunctionOnSet, FoldFunctionOnSet, MapThenFoldSet, Sums, IsSums, First

(* A property of finite sets that fails of some set fails of a smallest one: *)
(* B has the counterexamples.                                              *)
LEMMA Smallest ==
  ASSUME NEW S, IsFiniteSet(S), NEW B \in SUBSET SUBSET S, B # {}
  PROVE  \E s \in B : \A r \in B : ~(r \subseteq s /\ r # s)
<1>1. B \subseteq FiniteSubsetsOf(S)
  BY FS_Subset DEF FiniteSubsetsOf
<1>2. \E s \in B : \A r \in B : ~(<<r, s>> \in StrictSubsetOrdering(S))
  BY <1>1, FS_StrictSubsetOrderingWellFounded, WFMin
<1> QED BY <1>2 DEF StrictSubsetOrdering

LEMMA FirstIn == ASSUME NEW s, s # {} PROVE First(s) \in s
BY DEF First

LEMMA SumsAgree ==
  ASSUME NEW f, NEW S, IsFiniteSet(S), NEW T \in SUBSET S,
         NEW it, IsSums(it, f, S), NEW jt, IsSums(jt, f, T)
  PROVE  \A s \in SUBSET T : it[s] = jt[s]
<1> DEFINE B == {s \in SUBSET T : it[s] # jt[s]}
<1> SUFFICES ASSUME B # {} PROVE FALSE
  OBVIOUS
<1>1. PICK s \in B : \A r \in B : ~(r \subseteq s /\ r # s)
  <2>1. B \in SUBSET SUBSET S
    OBVIOUS
  <2> HIDE DEF B
  <2> QED BY <2>1, Smallest
<1>2. /\ it[s] = IF s = {} THEN 0 ELSE f[First(s)] + it[s \ {First(s)}]
      /\ jt[s] = IF s = {} THEN 0 ELSE f[First(s)] + jt[s \ {First(s)}]
  BY DEF IsSums
<1>3. s # {}
  BY <1>2
<1>4. s \ {First(s)} \notin B
  BY <1>1, <1>3, FirstIn
<1> QED BY <1>2, <1>3, <1>4

LEMMA SumsExist ==
  ASSUME NEW f, NEW S, IsFiniteSet(S)
  PROVE  \A s \in SUBSET S : IsSums(Sums(f, s), f, s)
<1> DEFINE B == {s \in SUBSET S : ~IsSums(Sums(f, s), f, s)}
<1> SUFFICES ASSUME B # {} PROVE FALSE
  OBVIOUS
<1>1. PICK s \in B : \A r \in B : ~(r \subseteq s /\ r # s)
  <2>1. B \in SUBSET SUBSET S
    OBVIOUS
  <2> HIDE DEF B
  <2> QED BY <2>1, Smallest
<1>2. \A r \in SUBSET s : r # s => IsSums(Sums(f, r), f, r)
  BY <1>1
<1> DEFINE rest(r) == r \ {First(r)}
           it == [r \in SUBSET s |-> IF r = {} THEN 0 ELSE f[First(r)] + Sums(f, rest(r))[rest(r)]]
<1>3. \A r \in SUBSET s : r # s => it[r] = Sums(f, r)[r]
  <2> SUFFICES ASSUME NEW r \in SUBSET s, r # s PROVE it[r] = Sums(f, r)[r]
    OBVIOUS
  <2>1. IsSums(Sums(f, r), f, r)
    BY <1>2
  <2>2. CASE r = {}
    BY <2>1, <2>2 DEF IsSums
  <2>3. CASE r # {}
    <3>1. rest(r) \in SUBSET r /\ rest(r) # s /\ rest(r) \in SUBSET s /\ IsFiniteSet(r)
      BY FS_Subset
    <3>2. IsSums(Sums(f, rest(r)), f, rest(r))
      BY <1>2, <3>1
    <3>3. Sums(f, r)[rest(r)] = Sums(f, rest(r))[rest(r)]
      BY <2>1, <3>1, <3>2, SumsAgree
    <3> HIDE DEF rest
    <3>4. Sums(f, r)[r] = f[First(r)] + Sums(f, r)[rest(r)]
      BY <2>1, <2>3 DEF IsSums, rest
    <3> QED BY <2>3, <3>3, <3>4
  <2> QED BY <2>2, <2>3
<1>4. IsSums(it, f, s)
  <2>1. \A r \in SUBSET s : r # {} => rest(r) \in SUBSET s /\ rest(r) # s
    BY FirstIn
  <2> HIDE DEF rest
  <2>2. \A r \in SUBSET s : r # {} => it[rest(r)] = Sums(f, rest(r))[rest(r)]
    BY <1>3, <2>1
  <2>3. it = [r \in SUBSET s |-> IF r = {} THEN 0 ELSE f[First(r)] + it[rest(r)]]
    BY <2>2
  <2> HIDE DEF it
  <2> QED BY <2>3 DEF IsSums, rest
<1>5. IsSums(Sums(f, s), f, s)
  BY <1>4, Zenon DEF Sums
<1> QED BY <1>1, <1>5

LEMMA SumEmpty == ASSUME NEW f PROVE SumFunctionOnSet(f, {}) = 0
<1>1. IsSums(Sums(f, {}), f, {})
  BY SumsExist, FS_EmptySet
<1> QED BY <1>1, SumUnfolds DEF IsSums

LEMMA SumFirst ==
  ASSUME NEW f, NEW S, IsFiniteSet(S), S # {}
  PROVE  SumFunctionOnSet(f, S) = f[First(S)] + SumFunctionOnSet(f, S \ {First(S)})
<1> DEFINE R == S \ {First(S)}
<1>1. IsSums(Sums(f, S), f, S) /\ IsSums(Sums(f, R), f, R)
  BY SumsExist
<1>2. Sums(f, S)[R] = Sums(f, R)[R]
  <2>1. R \in SUBSET S
    OBVIOUS
  <2> QED BY <1>1, <2>1, SumsAgree
<1>3. Sums(f, S)[S] = f[First(S)] + Sums(f, S)[R]
  BY <1>1 DEF IsSums
<1> QED BY <1>2, <1>3, SumUnfolds

(* Any element may be taken out first.                                     *)
LEMMA SumWithout ==
  ASSUME NEW f, NEW S, IsFiniteSet(S), \A x \in S : f[x] \in Int
  PROVE  \A T \in SUBSET S :
           /\ SumFunctionOnSet(f, T) \in Int
           /\ \A x \in T : SumFunctionOnSet(f, T) = f[x] + SumFunctionOnSet(f, T \ {x})
<1> DEFINE sum(T) == SumFunctionOnSet(f, T)
           Splits(T) == sum(T) \in Int /\ \A x \in T : sum(T) = f[x] + sum(T \ {x})
           B == {T \in SUBSET S : ~Splits(T)}
<1> SUFFICES ASSUME B # {} PROVE FALSE
  OBVIOUS
<1>1. PICK T \in B : \A R \in B : ~(R \subseteq T /\ R # T)
  <2>1. B \in SUBSET SUBSET S
    OBVIOUS
  <2> HIDE DEF B
  <2> QED BY <2>1, Smallest
<1>2. ~Splits(T) /\ T \in SUBSET S /\ IsFiniteSet(T)
  BY <1>1, FS_Subset
<1>3. \A R \in SUBSET T : R # T => Splits(R)
  BY <1>1
<1>4. CASE T = {}
  BY <1>2, <1>4, SumEmpty
<1>5. CASE T # {}
  <2> DEFINE y == First(T)
  <2>1. y \in T
    BY <1>5, FirstIn
  <2> HIDE DEF Splits
  <2>2. sum(T) = f[y] + sum(T \ {y})
    BY <1>2, <1>5, SumFirst
  <2> HIDE DEF y
  <2>3. \A x \in T : T \ {x} \in SUBSET T /\ T \ {x} # T
    OBVIOUS
  <2>4. \A x \in T : Splits(T \ {x}) /\ f[x] \in Int
    BY <1>2, <1>3, <2>3
  <2>5. \A x \in T : sum(T \ {x}) \in Int
    BY <2>4 DEF Splits
  <2>6. \A x \in T \ {y} : sum(T) = f[x] + sum(T \ {x})
    <3> SUFFICES ASSUME NEW x \in T \ {y} PROVE sum(T) = f[x] + sum(T \ {x})
      OBVIOUS
    <3>1. sum(T \ {y}) = f[x] + sum((T \ {y}) \ {x})
      BY <2>1, <2>4 DEF Splits
    <3>2. sum(T \ {x}) = f[y] + sum((T \ {x}) \ {y})
      BY <2>1, <2>4 DEF Splits
    <3>3. sum((T \ {y}) \ {x}) = sum((T \ {x}) \ {y})
      <4>1. (T \ {y}) \ {x} = (T \ {x}) \ {y}
        OBVIOUS
      <4> QED BY <4>1
    <3>4. sum((T \ {x}) \ {y}) \in Int
      <4>1. (T \ {x}) \ {y} \in SUBSET T /\ (T \ {x}) \ {y} # T
        OBVIOUS
      <4> QED BY <1>3, <4>1 DEF Splits
    <3>5. f[x] \in Int /\ f[y] \in Int
      BY <2>1, <2>4
    <3> HIDE DEF sum
    <3>6. sum(T) = f[y] + (f[x] + sum((T \ {x}) \ {y}))
      BY <2>2, <3>1, <3>3
    <3>7. f[y] + (f[x] + sum((T \ {x}) \ {y})) = f[x] + (f[y] + sum((T \ {x}) \ {y}))
      BY <3>4, <3>5
    <3> QED BY <3>2, <3>6, <3>7
  <2>7. sum(T) \in Int
    BY <2>1, <2>2, <2>4, <2>5
  <2> QED BY <1>2, <2>2, <2>6, <2>7 DEF Splits
<1> QED BY <1>4, <1>5

LEMMA SumAdd ==
  ASSUME NEW f, NEW S, IsFiniteSet(S), NEW x, x \notin S, \A y \in S \cup {x} : f[y] \in Int
  PROVE  /\ SumFunctionOnSet(f, S) \in Int
         /\ SumFunctionOnSet(f, S \cup {x}) = f[x] + SumFunctionOnSet(f, S)
<1>1. IsFiniteSet(S \cup {x}) /\ (S \cup {x}) \ {x} = S /\ S \in SUBSET (S \cup {x})
  BY FS_AddElement
<1> QED BY <1>1, SumWithout

(* Only the values on the set matter.                                      *)
LEMMA SumEqual ==
  ASSUME NEW f, NEW g, NEW S, IsFiniteSet(S), \A x \in S : f[x] = g[x]
  PROVE  SumFunctionOnSet(f, S) = SumFunctionOnSet(g, S)
<1> DEFINE B == {T \in SUBSET S : SumFunctionOnSet(f, T) # SumFunctionOnSet(g, T)}
<1> SUFFICES ASSUME B # {} PROVE FALSE
  OBVIOUS
<1>1. PICK T \in B : \A R \in B : ~(R \subseteq T /\ R # T)
  <2>1. B \in SUBSET SUBSET S
    OBVIOUS
  <2> HIDE DEF B
  <2> QED BY <2>1, Smallest
<1>2. IsFiniteSet(T)
  BY FS_Subset
<1>3. T # {}
  BY <1>1, SumEmpty
<1>4. T \ {First(T)} \notin B
  BY <1>1, <1>3, FirstIn
<1>5. First(T) \in S
  BY <1>1, <1>3, FirstIn
<1>6. /\ SumFunctionOnSet(f, T) = f[First(T)] + SumFunctionOnSet(f, T \ {First(T)})
      /\ SumFunctionOnSet(g, T) = g[First(T)] + SumFunctionOnSet(g, T \ {First(T)})
  BY <1>2, <1>3, SumFirst
<1> QED BY <1>4, <1>5, <1>6

(* A sum of naturals is a natural ...                                      *)
LEMMA SumNatural ==
  ASSUME NEW f, NEW S, IsFiniteSet(S), \A x \in S : f[x] \in Nat
  PROVE  SumFunctionOnSet(f, S) \in Nat
<1> DEFINE B == {T \in SUBSET S : SumFunctionOnSet(f, T) \notin Nat}
<1> SUFFICES ASSUME B # {} PROVE FALSE
  OBVIOUS
<1>1. PICK T \in B : \A R \in B : ~(R \subseteq T /\ R # T)
  <2>1. B \in SUBSET SUBSET S
    OBVIOUS
  <2> HIDE DEF B
  <2> QED BY <2>1, Smallest
<1>2. IsFiniteSet(T)
  BY FS_Subset
<1>3. T # {}
  <2>1. SumFunctionOnSet(f, {}) \in Nat
    BY SumEmpty
  <2> QED BY <2>1
<1>4. T \ {First(T)} \notin B
  BY <1>1, <1>3, FirstIn
<1>5. SumFunctionOnSet(f, T) = f[First(T)] + SumFunctionOnSet(f, T \ {First(T)})
  BY <1>2, <1>3, SumFirst
<1>6. SumFunctionOnSet(f, T \ {First(T)}) \in Nat /\ f[First(T)] \in Nat
  <2>1. First(T) \in S
    BY <1>1, <1>3, FirstIn
  <2> QED BY <1>4, <2>1
<1> QED BY <1>5, <1>6

(* ... and at least each of them; taking one away leaves the others.       *)
LEMMA SumRemove ==
  ASSUME NEW f, NEW S, IsFiniteSet(S), \A x \in S : f[x] \in Nat, NEW x \in S
  PROVE  /\ SumFunctionOnSet(f, S) \in Nat
         /\ f[x] <= SumFunctionOnSet(f, S)
         /\ SumFunctionOnSet(f, S \ {x}) = SumFunctionOnSet(f, S) - f[x]
<1>1. IsFiniteSet(S \ {x}) /\ (S \ {x}) \cup {x} = S
  BY FS_Subset
<1>2. SumFunctionOnSet(f, S \ {x}) \in Nat /\ SumFunctionOnSet(f, S) \in Nat
  BY <1>1, SumNatural
<1>3. SumFunctionOnSet(f, S) = f[x] + SumFunctionOnSet(f, S \ {x})
  <2>1. \A y \in S : f[y] \in Int
    OBVIOUS
  <2> QED BY <2>1, SumWithout
<1> DEFINE rest == SumFunctionOnSet(f, S \ {x})
           all == SumFunctionOnSet(f, S)
<1>4. rest \in Nat /\ all \in Nat /\ f[x] \in Nat /\ all = f[x] + rest
  BY <1>2, <1>3
<1> HIDE DEF rest, all
<1>5. f[x] <= all /\ rest = all - f[x]
  BY <1>4
<1> QED BY <1>2, <1>5 DEF rest, all

(* One more element, the values of the others as they were.                *)
LEMMA SumExtend ==
  ASSUME NEW f, NEW g, NEW S, IsFiniteSet(S), NEW x, x \notin S,
         \A y \in S : f[y] \in Int /\ g[y] = f[y], g[x] \in Int
  PROVE  /\ SumFunctionOnSet(f, S) \in Int
         /\ SumFunctionOnSet(g, S \cup {x}) = g[x] + SumFunctionOnSet(f, S)
<1>1. \A y \in S \cup {x} : g[y] \in Int
  OBVIOUS
<1>2. /\ SumFunctionOnSet(g, S) \in Int
      /\ SumFunctionOnSet(g, S \cup {x}) = g[x] + SumFunctionOnSet(g, S)
  BY <1>1, SumAdd
<1>3. SumFunctionOnSet(f, S) = SumFunctionOnSet(g, S)
  BY SumEqual
<1> QED BY <1>2, <1>3
=============================================================================
