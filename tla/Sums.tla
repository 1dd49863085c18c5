-------------------------------- MODULE Sums --------------------------------
(***************************************************************************)
(* Sums over finite sets: earnings over worker keys, payments over wallets.*)
(* Then what loops and folds over numbers need: a least number, every turn *)
(* of a loop, quotients, and that a fold from the left is defined.         *)
(*                                                                         *)
(* MapThenSumSet is a recursive function over the subsets of a set; that   *)
(* it is defined, and that it does not matter which element it takes       *)
(* first, is proved from the least set for which either would fail.        *)
(***************************************************************************)
EXTENDS Integers, FiniteSets, FiniteSetsExt, FiniteSetTheorems, WellFoundedInduction, TLAPS

Sum(g, S) == MapThenSumSet(LAMBDA x : g[x], S)

\* Among some subsets of a finite set there is one without a smaller one.
LEMMA LeastSubset ==
  ASSUME NEW S, IsFiniteSet(S), NEW B \in SUBSET (SUBSET S), B # {}
  PROVE  \E m \in B : \A y \in B : y \subseteq m => y = m
<1>1. IsWellFoundedOn(StrictSubsetOrdering(S), SUBSET S)
  BY FS_StrictSubsetOrderingWellFounded, FS_FiniteSubsetsOfFinite
<1>2. \E m \in B : \A y \in B : ~ (<<y, m>> \in StrictSubsetOrdering(S))
  BY <1>1, WFMin
<1> QED
  BY <1>2 DEF StrictSubsetOrdering

Pick(s) == CHOOSE x \in s : TRUE
Folds(g, h, T) ==
    h = [s \in SUBSET T |-> IF s = {} THEN 0 ELSE g[Pick(s)] + h[s \ {Pick(s)}]]

\* A set that is not empty has the element that is taken first.
LEMMA PickIn == ASSUME NEW s, s # {} PROVE Pick(s) \in s
BY DEF Pick

\* What two partial sums are both defined for, they agree on.
LEMMA PartialSumsAgree ==
  ASSUME NEW S, IsFiniteSet(S), NEW g, NEW h, NEW j, NEW T \in SUBSET S, NEW U \in SUBSET S,
         Folds(g, h, T), Folds(g, j, U)
  PROVE  \A s \in SUBSET (T \cap U) : h[s] = j[s]
<1> DEFINE B == {s \in SUBSET (T \cap U) : h[s] # j[s]}
<1> SUFFICES ASSUME B # {} PROVE FALSE
  OBVIOUS
<1>1. PICK m \in B : \A y \in B : y \subseteq m => y = m
  <2>1. B \in SUBSET (SUBSET S)
    OBVIOUS
  <2> HIDE DEF B
  <2> QED
    BY <2>1, LeastSubset
<1>2. /\ h[m] = IF m = {} THEN 0 ELSE g[Pick(m)] + h[m \ {Pick(m)}]
      /\ j[m] = IF m = {} THEN 0 ELSE g[Pick(m)] + j[m \ {Pick(m)}]
  BY DEF Folds
<1>3. CASE m = {}
  BY <1>2, <1>3
<1>4. CASE m # {}
  <2>1. m \ {Pick(m)} \in SUBSET (T \cap U) /\ m \ {Pick(m)} # m
    BY <1>4, PickIn
  <2>2. m \ {Pick(m)} \notin B
    BY <1>1, <2>1
  <2> QED
    BY <1>2, <1>4, <2>1, <2>2
<1> QED
  BY <1>3, <1>4

\* There is a partial sum for every subset of a finite set.
LEMMA FoldsExist ==
  ASSUME NEW S, IsFiniteSet(S), NEW g
  PROVE  \A T \in SUBSET S : \E h : Folds(g, h, T)
<1> DEFINE B == {T \in SUBSET S : ~ \E h : Folds(g, h, T)}
<1> SUFFICES ASSUME B # {} PROVE FALSE
  OBVIOUS
<1>1. PICK T \in B : \A y \in B : y \subseteq T => y = T
  <2>1. B \in SUBSET (SUBSET S)
    OBVIOUS
  <2> HIDE DEF B
  <2> QED
    BY <2>1, LeastSubset
<1> DEFINE G(u) == CHOOSE h : Folds(g, h, u)
           h == [s \in SUBSET T |-> IF s = {} THEN 0 ELSE g[Pick(s)] + G(s \ {Pick(s)})[s \ {Pick(s)}]]
<1>2. \A u \in SUBSET T : u # T => Folds(g, G(u), u)
  BY <1>1
<1> HIDE DEF G
<1>3. ASSUME NEW s \in SUBSET T, s # {}
      PROVE  h[s \ {Pick(s)}] = G(s \ {Pick(s)})[s \ {Pick(s)}]
  <2> DEFINE u == s \ {Pick(s)}
             v == u \ {Pick(u)}
  <2>1. u \in SUBSET T /\ u # T
    BY <1>3, PickIn
  <2>2. Folds(g, G(u), u)
    BY <1>2, <2>1
  <2>3. G(u)[u] = IF u = {} THEN 0 ELSE g[Pick(u)] + G(u)[v]
    BY <2>2 DEF Folds
  <2>4. h[u] = IF u = {} THEN 0 ELSE g[Pick(u)] + G(v)[v]
    BY <2>1
  <2>5. ASSUME u # {} PROVE G(u)[v] = G(v)[v]
    <3>1. v \in SUBSET T /\ v # T /\ v \in SUBSET u
      BY <2>1, <2>5, PickIn
    <3>2. Folds(g, G(v), v)
      BY <1>2, <3>1
    <3>3. u \in SUBSET S /\ v \in SUBSET S /\ v \in SUBSET (u \cap v)
      BY <2>1, <3>1
    <3> QED
      BY <2>2, <3>2, <3>3, PartialSumsAgree
  <2> QED
    BY <2>3, <2>4, <2>5
<1>4. h = [s \in SUBSET T |-> IF s = {} THEN 0 ELSE g[Pick(s)] + h[s \ {Pick(s)}]]
  BY <1>3
<1> QED
  BY <1>1, <1>4 DEF Folds

\* The sum is what any partial sum says.
LEMMA SumFolds ==
  ASSUME NEW S, IsFiniteSet(S), NEW g
  PROVE  \E h : Folds(g, h, S) /\ \A T \in SUBSET S : h[T] = Sum(g, T)
<1> DEFINE F(T) == CHOOSE h : h = [s \in SUBSET T |-> IF s = {} THEN 0 ELSE g[Pick(s)] + h[s \ {Pick(s)}]]
<1>1. ASSUME NEW T \in SUBSET S PROVE Folds(g, F(T), T)
  <2>1. \E h : Folds(g, h, T)
    BY FoldsExist
  <2>2. \E h : h = [s \in SUBSET T |-> IF s = {} THEN 0 ELSE g[Pick(s)] + h[s \ {Pick(s)}]]
    BY <2>1 DEF Folds
  <2> QED
    BY <2>2 DEF Folds
<1>2. \A T \in SUBSET S : Sum(g, T) = F(T)[T]
  BY DEF Sum, MapThenSumSet, MapThenFoldSet, Pick
<1> HIDE DEF F
<1>3. \A T \in SUBSET S : F(S)[T] = F(T)[T]
  BY <1>1, PartialSumsAgree
<1> QED
  BY <1>1, <1>2, <1>3

\* The elements can be taken in any order, and the sum is a number.
LEMMA SumTakes ==
  ASSUME NEW S, IsFiniteSet(S), NEW g, \A x \in S : g[x] \in Int
  PROVE  /\ Sum(g, {}) = 0
         /\ \A T \in SUBSET S : Sum(g, T) \in Int
         /\ \A T \in SUBSET S : \A x \in T : Sum(g, T) = g[x] + Sum(g, T \ {x})
<1>1. PICK h : Folds(g, h, S) /\ \A T \in SUBSET S : h[T] = Sum(g, T)
  BY SumFolds
<1>2. /\ Sum(g, {}) = 0
      /\ \A T \in SUBSET S : T # {} => Sum(g, T) = g[Pick(T)] + Sum(g, T \ {Pick(T)})
  BY <1>1 DEF Folds
<1>3. \A T \in SUBSET S : Sum(g, T) \in Int
  <2> DEFINE B == {T \in SUBSET S : Sum(g, T) \notin Int}
  <2> SUFFICES ASSUME B # {} PROVE FALSE
    OBVIOUS
  <2>1. PICK T \in B : \A y \in B : y \subseteq T => y = T
    <3>1. B \in SUBSET (SUBSET S)
      OBVIOUS
    <3> HIDE DEF B
    <3> QED
      BY <3>1, LeastSubset
  <2>2. T \in SUBSET S /\ Sum(g, T) \notin Int
    OBVIOUS
  <2>3. T # {} /\ Sum(g, T) = g[Pick(T)] + Sum(g, T \ {Pick(T)})
    <3> HIDE DEF B
    <3>1. ASSUME T = {} PROVE FALSE
      <4>1. Sum(g, T) = 0
        BY <1>2, <3>1
      <4> QED
        BY <2>2, <4>1
    <3> QED
      BY <1>2, <2>2, <3>1
  <2>4. Pick(T) \in T /\ g[Pick(T)] \in Int
    BY <2>2, <2>3, PickIn
  <2>5. Sum(g, T \ {Pick(T)}) \in Int
    BY <2>1, <2>2, <2>4
  <2> HIDE DEF B
  <2> QED
    BY <2>2, <2>3, <2>4, <2>5
<1>4. \A T \in SUBSET S : \A x \in T : Sum(g, T) = g[x] + Sum(g, T \ {x})
  <2> DEFINE B == {T \in SUBSET S : \E x \in T : Sum(g, T) # g[x] + Sum(g, T \ {x})}
  <2> SUFFICES ASSUME B # {} PROVE FALSE
    OBVIOUS
  <2>1. PICK T \in B : \A y \in B : y \subseteq T => y = T
    <3>1. B \in SUBSET (SUBSET S)
      OBVIOUS
    <3> HIDE DEF B
    <3> QED
      BY <3>1, LeastSubset
  <2>2. PICK x \in T : Sum(g, T) # g[x] + Sum(g, T \ {x})
    OBVIOUS
  <2> DEFINE p == Pick(T)
  <2>3. p \in T /\ p # x /\ Sum(g, T) = g[p] + Sum(g, T \ {p})
    BY <1>2, <2>2, PickIn
  <2> HIDE DEF p
  <2>4. T \ {p} \in SUBSET S /\ T \ {p} # T /\ x \in T \ {p} /\ T \ {x} \in SUBSET S /\ T \ {x} # T /\ p \in T \ {x}
    BY <2>2, <2>3
  <2>5. T \ {p} \notin B /\ T \ {x} \notin B
    BY <2>1, <2>4
  <2>6. /\ Sum(g, T \ {p}) = g[x] + Sum(g, (T \ {p}) \ {x})
        /\ Sum(g, T \ {x}) = g[p] + Sum(g, (T \ {x}) \ {p})
    BY <2>4, <2>5
  <2>7. (T \ {p}) \ {x} = (T \ {x}) \ {p} /\ (T \ {x}) \ {p} \in SUBSET S
    OBVIOUS
  <2>8. g[x] \in Int /\ g[p] \in Int /\ Sum(g, (T \ {x}) \ {p}) \in Int
    BY <1>3, <2>2, <2>3, <2>7
  <2> HIDE DEF B
  <2>9. Sum(g, T \ {p}) = g[x] + Sum(g, (T \ {x}) \ {p})
    BY <2>6, <2>7
  <2> QED
    BY <2>2, <2>3, <2>6, <2>8, <2>9
<1> QED
  BY <1>2, <1>3, <1>4

\* The sum of what is no more is no more.
LEMMA SumMonotone ==
  ASSUME NEW S, IsFiniteSet(S), NEW g, NEW h,
         \A x \in S : g[x] \in Int /\ h[x] \in Int /\ g[x] <= h[x]
  PROVE  Sum(g, S) <= Sum(h, S)
<1> DEFINE B == {T \in SUBSET S : ~ (Sum(g, T) <= Sum(h, T))}
<1> SUFFICES ASSUME B # {} PROVE FALSE
  OBVIOUS
<1>1. PICK T \in B : \A y \in B : y \subseteq T => y = T
  <2>1. B \in SUBSET (SUBSET S)
    OBVIOUS
  <2> HIDE DEF B
  <2> QED
    BY <2>1, LeastSubset
<1>2. CASE T = {}
  BY <1>1, <1>2, SumTakes
<1>3. ASSUME NEW x \in T PROVE FALSE
  <2>1. T \ {x} \in SUBSET S /\ T \ {x} # T
    OBVIOUS
  <2>2. Sum(g, T \ {x}) <= Sum(h, T \ {x})
    BY <1>1, <2>1
  <2>3. /\ Sum(g, T) = g[x] + Sum(g, T \ {x}) /\ Sum(h, T) = h[x] + Sum(h, T \ {x})
        /\ Sum(g, T \ {x}) \in Int /\ Sum(h, T \ {x}) \in Int
    BY <2>1, SumTakes
  <2>4. ~ (Sum(g, T) <= Sum(h, T)) /\ x \in S
    OBVIOUS
  <2> QED
    BY <2>2, <2>3, <2>4
<1> QED
  BY <1>2, <1>3

\* Two sets with nothing in common add up.
LEMMA SumUnion ==
  ASSUME NEW S, IsFiniteSet(S), NEW g, \A x \in S : g[x] \in Int,
         NEW U \in SUBSET S, NEW V \in SUBSET S, U \cap V = {}
  PROVE  Sum(g, U \cup V) = Sum(g, U) + Sum(g, V)
<1> DEFINE B == {T \in SUBSET U : Sum(g, T \cup V) # Sum(g, T) + Sum(g, V)}
<1>1. U \notin B => Sum(g, U \cup V) = Sum(g, U) + Sum(g, V)
  OBVIOUS
<1>2. ASSUME B # {} PROVE FALSE
  <2>1. PICK T \in B : \A y \in B : y \subseteq T => y = T
    <3>1. B \in SUBSET (SUBSET S)
      OBVIOUS
    <3> HIDE DEF B
    <3> QED
      BY <1>2, <3>1, LeastSubset
  <2>2. T \in SUBSET U /\ T \in SUBSET S /\ Sum(g, T \cup V) # Sum(g, T) + Sum(g, V)
    OBVIOUS
  <2>3. CASE T = {}
    <3>1. Sum(g, {}) = 0 /\ Sum(g, V) \in Int /\ {} \cup V = V
      BY SumTakes
    <3> HIDE DEF B
    <3>2. Sum(g, T \cup V) = Sum(g, V) /\ Sum(g, T) = 0
      BY <2>3, <3>1
    <3> QED
      BY <2>2, <3>1, <3>2
  <2>4. ASSUME NEW x \in T PROVE FALSE
    <3>1. T \ {x} \in SUBSET U /\ T \ {x} # T /\ T \ {x} \in SUBSET S
      BY <2>2
    <3>2. Sum(g, (T \ {x}) \cup V) = Sum(g, T \ {x}) + Sum(g, V)
      BY <2>1, <3>1
    <3> HIDE DEF B
    <3>3. (T \cup V) \ {x} = (T \ {x}) \cup V /\ x \in T \cup V /\ T \cup V \in SUBSET S
      BY <2>2
    <3>4. Sum(g, T \cup V) = g[x] + Sum(g, (T \ {x}) \cup V)
      <4>1. Sum(g, T \cup V) = g[x] + Sum(g, (T \cup V) \ {x})
        BY <3>3, SumTakes
      <4> QED
        BY <3>3, <4>1
    <3>5. /\ Sum(g, T) = g[x] + Sum(g, T \ {x})
          /\ Sum(g, T \ {x}) \in Int /\ Sum(g, V) \in Int /\ g[x] \in Int
      BY <2>2, <3>1, SumTakes
    <3> QED
      BY <2>2, <3>2, <3>4, <3>5
  <2> QED
    BY <2>3, <2>4
<1> QED
  BY <1>1, <1>2

\* What is nothing everywhere adds up to nothing.
LEMMA SumZero ==
  ASSUME NEW S, IsFiniteSet(S), NEW g, \A x \in S : g[x] = 0
  PROVE  \A U \in SUBSET S : Sum(g, U) = 0
<1> DEFINE B == {U \in SUBSET S : Sum(g, U) # 0}
<1> SUFFICES ASSUME B # {} PROVE FALSE
  OBVIOUS
<1>1. PICK U \in B : \A y \in B : y \subseteq U => y = U
  <2>1. B \in SUBSET (SUBSET S)
    OBVIOUS
  <2> HIDE DEF B
  <2> QED
    BY <2>1, LeastSubset
<1>2. U \in SUBSET S /\ Sum(g, U) # 0 /\ \A x \in S : g[x] \in Int
  OBVIOUS
<1>3. CASE U = {}
  <2> HIDE DEF B
  <2>1. Sum(g, {}) = 0
    BY <1>2, SumTakes
  <2> QED
    BY <1>2, <1>3, <2>1
<1>4. ASSUME NEW x \in U PROVE FALSE
  <2>1. U \ {x} \in SUBSET S /\ U \ {x} # U
    BY <1>2
  <2>2. Sum(g, U \ {x}) = 0
    BY <1>1, <2>1
  <2> HIDE DEF B
  <2>3. Sum(g, U) = g[x] + Sum(g, U \ {x})
    BY <1>2, SumTakes
  <2> QED
    BY <1>2, <2>2, <2>3
<1> QED
  BY <1>3, <1>4

\* A part is no more than the whole of what is not negative.
LEMMA SumPart ==
  ASSUME NEW S, IsFiniteSet(S), NEW g, \A x \in S : g[x] \in Nat, NEW T \in SUBSET S
  PROVE  Sum(g, T) <= Sum(g, S) /\ Sum(g, T) \in Nat
<1> DEFINE zero == [x \in S |-> 0]
<1>1. \A U \in SUBSET S : Sum(zero, U) = 0
  BY SumZero
<1>2. \A U \in SUBSET S : Sum(g, U) \in Nat
  <2> SUFFICES ASSUME NEW U \in SUBSET S PROVE Sum(g, U) \in Nat
    OBVIOUS
  <2>1. IsFiniteSet(U)
    BY FS_Subset
  <2>2. \A x \in U : zero[x] \in Int /\ g[x] \in Int /\ zero[x] <= g[x]
    OBVIOUS
  <2> HIDE DEF zero
  <2>3. Sum(zero, U) <= Sum(g, U)
    BY <2>1, <2>2, SumMonotone
  <2>4. Sum(g, U) \in Int
    BY SumTakes
  <2> QED
    BY <1>1, <2>3, <2>4
<1>3. Sum(g, S) = Sum(g, T) + Sum(g, S \ T)
  <2>1. T \cup (S \ T) = S /\ T \cap (S \ T) = {} /\ \A x \in S : g[x] \in Int
    OBVIOUS
  <2>2. Sum(g, T \cup (S \ T)) = Sum(g, T) + Sum(g, S \ T)
    BY <2>1, SumUnion
  <2> QED
    BY <2>1, <2>2
<1>4. Sum(g, T) \in Nat /\ Sum(g, S \ T) \in Nat
  BY <1>2
<1> QED
  BY <1>3, <1>4

\* A sum changes by what one element of it does.
LEMMA SumChanges ==
  ASSUME NEW S, IsFiniteSet(S), NEW g, NEW h, NEW x \in S, NEW d \in Int,
         \A y \in S : g[y] \in Int /\ h[y] \in Int,
         \A y \in S \ {x} : h[y] = g[y],
         h[x] = g[x] + d
  PROVE  /\ Sum(g, S) \in Int /\ Sum(h, S) \in Int
         /\ Sum(h, S) = Sum(g, S) + d
<1> DEFINE T == S \ {x}
<1>1. T \in SUBSET S /\ IsFiniteSet(T)
  BY FS_Subset
<1>2. /\ Sum(g, S) = g[x] + Sum(g, T) /\ Sum(h, S) = h[x] + Sum(h, T)
      /\ Sum(g, S) \in Int /\ Sum(h, S) \in Int
      /\ Sum(g, T) \in Int /\ Sum(h, T) \in Int
  BY <1>1, SumTakes
<1>3. \A y \in T : g[y] \in Int /\ h[y] \in Int /\ g[y] = h[y]
  OBVIOUS
<1> HIDE DEF T
<1>4. Sum(g, T) <= Sum(h, T)
  <2>1. \A y \in T : g[y] \in Int /\ h[y] \in Int /\ g[y] <= h[y]
    BY <1>3
  <2> QED
    BY <1>1, <2>1, SumMonotone
<1>5. Sum(h, T) <= Sum(g, T)
  <2>1. \A y \in T : h[y] \in Int /\ g[y] \in Int /\ h[y] <= g[y]
    BY <1>3
  <2> QED
    BY <1>1, <2>1, SumMonotone
<1> QED
  BY <1>2, <1>4, <1>5

Group(K, p, w) == {k \in K : p[k] = w}

\* Counting by groups counts nothing twice.
LEMMA SumByGroup ==
  ASSUME NEW K, IsFiniteSet(K), NEW W, IsFiniteSet(W), NEW p, NEW g,
         \A k \in K : g[k] \in Nat, NEW c,
         \A w \in W : c[w] = Sum(g, Group(K, p, w))
  PROVE  Sum(c, W) <= Sum(g, K)
<1> DEFINE Of(V) == {k \in K : p[k] \in V}
           B == {V \in SUBSET W : Sum(c, V) # Sum(g, Of(V))}
<1>1. \A w \in W : c[w] \in Int
  <2> SUFFICES ASSUME NEW w \in W PROVE c[w] \in Int
    OBVIOUS
  <2> DEFINE grp == Group(K, p, w)
  <2>1. grp \in SUBSET K /\ c[w] = Sum(g, grp)
    BY DEF Group
  <2> HIDE DEF grp
  <2>2. Sum(g, grp) \in Nat
    BY <2>1, SumPart
  <2> QED
    BY <2>1, <2>2
<1>2. ASSUME B # {} PROVE FALSE
  <2>1. PICK V \in B : \A y \in B : y \subseteq V => y = V
    <3>1. B \in SUBSET (SUBSET W)
      OBVIOUS
    <3> HIDE DEF B
    <3> QED
      BY <1>2, <3>1, LeastSubset
  <2>2. V \in SUBSET W /\ Sum(c, V) # Sum(g, Of(V))
    OBVIOUS
  <2>3. CASE V = {}
    <3>1. Of({}) = {}
      OBVIOUS
    <3> HIDE DEF B, Of
    <3>2. Sum(c, {}) = 0 /\ Sum(g, {}) = 0
      BY <1>1, SumTakes
    <3> QED
      BY <2>2, <2>3, <3>1, <3>2
  <2>4. ASSUME NEW w \in V PROVE FALSE
    <3>1. V \ {w} \in SUBSET W /\ V \ {w} # V
      BY <2>2
    <3>2. Sum(c, V \ {w}) = Sum(g, Of(V \ {w}))
      BY <2>1, <3>1
    <3> DEFINE grp == Group(K, p, w)
               rest == Of(V \ {w})
    <3>6. w \in W /\ c[w] = Sum(g, grp)
      BY <2>2
    <3>7. Of(V) = rest \cup grp
      BY <2>2 DEF Group
    <3>3. /\ rest \cap grp = {}
          /\ rest \in SUBSET K /\ grp \in SUBSET K
          /\ \A k \in K : g[k] \in Int
          /\ Sum(c, V \ {w}) = Sum(g, rest)
      BY <3>2 DEF Group
    <3> HIDE DEF B, Of, grp, rest
    <3>4. Sum(g, rest \cup grp) = Sum(g, rest) + Sum(g, grp)
      BY <3>3, SumUnion
    <3>5. /\ Sum(c, V) = c[w] + Sum(c, V \ {w})
          /\ Sum(c, V \ {w}) \in Int /\ c[w] \in Int
      BY <1>1, <2>2, <3>1, SumTakes
    <3> QED
      BY <2>2, <3>3, <3>4, <3>5, <3>6, <3>7
  <2> QED
    BY <2>3, <2>4
<1>3. Sum(c, W) = Sum(g, Of(W))
  BY <1>2
<1>4. Of(W) \in SUBSET K
  OBVIOUS
<1> HIDE DEF Of, B
<1> QED
  BY <1>3, <1>4, SumPart
-----------------------------------------------------------------------------
\* A set of numbers that is not empty has a least one.
LEMMA LeastNumber ==
  ASSUME NEW B \in SUBSET Nat, B # {}
  PROVE  \E m \in B : \A k \in B : m <= k
<1>1. PICK m \in B : \A k \in B : ~ <<k, m>> \in OpToRel(<, Nat)
  BY NatLessThanWellFounded, WFMin
<1>2. \A k \in B : ~(k < m)
  BY <1>1 DEF OpToRel
<1> QED
  BY <1>2

\* What holds at the first turn of a loop, and at the next of every turn at
\* which it holds, holds at all of them.
LEMMA EveryTurn ==
  ASSUME NEW n \in Nat, NEW S, 0 \in S, \A k \in 0 .. n - 1 : k \in S => k + 1 \in S
  PROVE  \A k \in 0 .. n : k \in S
<1> DEFINE B == {k \in 0 .. n : k \notin S}
<1> SUFFICES ASSUME B # {} PROVE FALSE
  OBVIOUS
<1>1. PICK m \in B : \A k \in B : m <= k
  <2>1. B \in SUBSET Nat
    OBVIOUS
  <2> HIDE DEF B
  <2> QED
    BY <2>1, LeastNumber
<1>2. m \in 0 .. n /\ m \notin S /\ m # 0
  OBVIOUS
<1>3. m - 1 \in 0 .. n - 1 /\ ~(m <= m - 1)
  BY <1>2
<1>4. m - 1 \in S
  BY <1>1, <1>3
<1> QED
  BY <1>2, <1>3, <1>4

\* Products grow with their factors, and rounding up loses nothing.
LEMMA Products ==
  ASSUME NEW a \in Int, NEW b \in Int, NEW c \in Nat, a <= b
  PROVE  a * c <= b * c
OBVIOUS

\* An index lies in the slice of its quotient.
LEMMA Quotient ==
  ASSUME NEW i \in Nat, NEW d \in Nat, d # 0
  PROVE  LET t == i \div d IN t \in Nat /\ t * d <= i /\ i <= (t + 1) * d - 1
<1> DEFINE t == i \div d
           r == i % d
<1>1. i = d * t + r /\ r \in 0 .. d - 1 /\ t \in Int
  OBVIOUS
<1> HIDE DEF t, r
<1>2. (t + 1) * d = d * t + d /\ t * d = d * t /\ d * t \in Int
  BY <1>1
<1>3. t * d <= i /\ i <= (t + 1) * d - 1
  BY <1>1, <1>2
<1>4. t \in Nat
  <2>1. ASSUME t <= -1 PROVE FALSE
    <3>1. (t + 1) * d <= 0 * d
      BY <1>1, <2>1, Products
    <3> QED
      BY <1>2, <1>3, <3>1
  <2> QED
    BY <1>1, <2>1
<1> QED
  BY <1>3, <1>4 DEF t

\* As many buckets as cover a range, and slices as cover the buckets.
LEMMA Covers ==
  ASSUME NEW a \in Nat, NEW b \in Nat, b # 0
  PROVE  LET q == (a + b - 1) \div b IN q \in Nat /\ a <= q * b /\ (a # 0 => q # 0) /\ q * b <= a + b - 1
<1> DEFINE q == (a + b - 1) \div b
<1>1. a + b - 1 \in Nat
  OBVIOUS
<1>2. q \in Nat /\ q * b <= a + b - 1 /\ a + b - 1 <= (q + 1) * b - 1
  BY <1>1, Quotient
<1> HIDE DEF q
<1>3. (q + 1) * b = q * b + b /\ q * b \in Int
  BY <1>2
<1>4. a <= q * b
  BY <1>2, <1>3
<1>5. a # 0 => q # 0
  BY <1>4
<1> QED
  BY <1>2, <1>4, <1>5 DEF q

\* A set of numbers up to some number has a greatest one.
LEMMA MaxIn ==
  ASSUME NEW n \in Nat, NEW s \in SUBSET (1 .. n), s # {}
  PROVE  Max(s) \in s /\ \A y \in s : y <= Max(s)
<1> DEFINE B == {n - x : x \in s}
<1>1. PICK m \in B : \A k \in B : m <= k
  <2>1. ASSUME NEW x \in s PROVE n - x \in Nat
    <3>1. x \in 1 .. n
      OBVIOUS
    <3> QED
      BY <3>1
  <2>2. PICK x \in s : TRUE
    OBVIOUS
  <2>3. n - x \in B
    BY <2>2
  <2>4. B \in SUBSET Nat /\ B # {}
    BY <2>1, <2>3
  <2> HIDE DEF B
  <2> QED
    BY <2>4, LeastNumber
<1>2. PICK x \in s : m = n - x
  OBVIOUS
<1>3. \A y \in s : x >= y
  <2> SUFFICES ASSUME NEW y \in s PROVE x >= y
    OBVIOUS
  <2>1. n - x <= n - y
    BY <1>1, <1>2
  <2> QED
    BY <2>1
<1>4. Max(s) \in s /\ \A y \in s : Max(s) >= y
  BY <1>3 DEF Max
<1> QED
  BY <1>4

\* What a fold from the left is over a set of indices: the last one is taken first.
Folded(n, base, step, h) ==
    \A s \in SUBSET (1 .. n) : h[s] = IF s = {} THEN base ELSE step[Max(s)][h[s \ {Max(s)}]]

\* What a step does to a value of the fold.
Stepped(n, Y, step) == \A k \in 1 .. n : \A y \in Y : step[k][y] \in Y

\* A fold from the left is defined: a function of the subsets of the indices
\* takes the last one first.
LEMMA FoldExists ==
  ASSUME NEW n \in Nat, NEW Y, NEW base \in Y, NEW step, Stepped(n, Y, step)
  PROVE  \E h \in [SUBSET (1 .. n) -> Y] : Folded(n, base, step, h)
<1>0. \A k \in 1 .. n : \A y \in Y : step[k][y] \in Y
  BY DEF Stepped
<1> DEFINE Good(h, k) ==
              /\ h \in [SUBSET (1 .. k) -> Y]
              /\ \A s \in SUBSET (1 .. k) : h[s] = IF s = {} THEN base ELSE step[Max(s)][h[s \ {Max(s)}]]
           S == {k \in 0 .. n : \E h : Good(h, k)}
<1>1. 0 \in S
  <2> DEFINE h == [s \in SUBSET (1 .. 0) |-> base]
  <2>1. \A s \in SUBSET (1 .. 0) : s = {}
    OBVIOUS
  <2>2. Good(h, 0)
    BY <2>1
  <2> HIDE DEF Good, h
  <2> QED
    BY <2>2
<1>2. ASSUME NEW k \in 0 .. n - 1, k \in S PROVE k + 1 \in S
  <2>1. PICK h : Good(h, k)
    BY <1>2
  <2> DEFINE A == SUBSET (1 .. k)
             B == SUBSET (1 .. k + 1)
             g == [s \in B |-> IF k + 1 \in s THEN step[k + 1][h[s \ {k + 1}]] ELSE h[s]]
  <2>2. \A s \in B : /\ k + 1 \notin s => s \in A
                     /\ s \ {k + 1} \in A
    OBVIOUS
  <2>3. \A s \in A : s \in B /\ k + 1 \notin s /\ \A x : s \ {x} \in A
    <3>1. 1 .. k \subseteq 1 .. k + 1 /\ k + 1 \notin 1 .. k
      OBVIOUS
    <3>2. ASSUME NEW s \in A PROVE s \subseteq 1 .. k /\ \A x : s \ {x} \subseteq s
      OBVIOUS
    <3> QED
      BY <3>1, <3>2
  <2>4. \A s \in B : k + 1 \in s => Max(s) = k + 1
    <3> SUFFICES ASSUME NEW s \in B, k + 1 \in s PROVE Max(s) = k + 1
      OBVIOUS
    <3>1. \A x \in s : x \in Int /\ k + 1 >= x
      <4>1. s \subseteq 1 .. k + 1
        OBVIOUS
      <4> QED
        BY <4>1
    <3>2. Max(s) \in s /\ \A y \in s : Max(s) >= y
      BY <3>1 DEF Max
    <3> DEFINE m == Max(s)
    <3>3. m \in s /\ m >= k + 1
      BY <3>2
    <3> HIDE DEF m
    <3>4. m \in Int /\ k + 1 >= m
      BY <3>1, <3>3
    <3>5. m = k + 1
      BY <3>3, <3>4
    <3> QED
      BY <3>5 DEF m
  <2>5. /\ \A s \in A : h[s] \in Y
        /\ \A s \in A : h[s] = IF s = {} THEN base ELSE step[Max(s)][h[s \ {Max(s)}]]
    BY <2>1
  <2> HIDE DEF Good, A
  <2>6. \A s \in A : g[s] = h[s]
    BY <2>3
  <2>7. g \in [B -> Y]
    <3> SUFFICES ASSUME NEW s \in B PROVE (IF k + 1 \in s THEN step[k + 1][h[s \ {k + 1}]] ELSE h[s]) \in Y
      OBVIOUS
    <3>1. k + 1 \in 1 .. n
      OBVIOUS
    <3> QED
      BY <1>0, <2>2, <2>5, <3>1
  <2>8. \A s \in B : g[s] = IF s = {} THEN base ELSE step[Max(s)][g[s \ {Max(s)}]]
    <3> SUFFICES ASSUME NEW s \in B PROVE g[s] = IF s = {} THEN base ELSE step[Max(s)][g[s \ {Max(s)}]]
      OBVIOUS
    <3>1. g[s] = IF k + 1 \in s THEN step[k + 1][h[s \ {k + 1}]] ELSE h[s]
      OBVIOUS
    <3> HIDE DEF g
    <3>2. CASE k + 1 \in s
      BY <2>2, <2>4, <2>6, <3>1, <3>2
    <3>3. CASE k + 1 \notin s
      BY <2>2, <2>3, <2>5, <2>6, <3>1, <3>3
    <3> QED
      BY <3>2, <3>3
  <2>9. Good(g, k + 1)
    BY <2>7, <2>8 DEF Good
  <2> HIDE DEF g
  <2> QED
    BY <1>2, <2>9
<1>3. n \in S
  <2> HIDE DEF S
  <2>1. \A k \in 0 .. n : k \in S
    BY <1>1, <1>2, EveryTurn
  <2> QED
    BY <2>1
<1> QED
  BY <1>3 DEF Folded
=============================================================================
