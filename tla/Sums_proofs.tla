----------------------------- MODULE Sums_proofs ------------------------------
(***************************************************************************)
(* Sums over finite sets, SumFunctionOnSet of the community modules: what  *)
(* the books of checkout, returns and payouts are stated with.             *)
(*                                                                         *)
(* The library's induction theorems range over operators.  The lemmas here *)
(* are proved by a smallest counterexample instead: the family of subsets  *)
(* that violate a lemma has a minimal member, because strict inclusion of  *)
(* finite sets is well founded.                                            *)
(***************************************************************************)
EXTENDS Integers, FiniteSetsExt, FiniteSetTheorems, TLAPS

\* A family of subsets of a finite set has a member that includes no other.
LEMMA SmallestSubset ==
  ASSUME NEW S, IsFiniteSet(S), NEW T, T \subseteq SUBSET S, T # {}
  PROVE  \E X \in T : \A Y \in T : Y \subseteq X => Y = X
<1>1. IsWellFoundedOn(StrictSubsetOrdering(S), FiniteSubsetsOf(S))
  BY FS_StrictSubsetOrderingWellFounded
<1>2. T \subseteq FiniteSubsetsOf(S)
  BY FS_Subset DEF FiniteSubsetsOf
<1>3. PICK X \in T : \A Y \in T : ~(<<Y, X>> \in StrictSubsetOrdering(S))
  BY <1>1, <1>2, WFMin
<1> QED
  BY <1>3 DEF StrictSubsetOrdering

-----------------------------------------------------------------------------
(* The recursion that defines a sum *)

Pick(s) == CHOOSE x \in s : TRUE

LEMMA PickIsIn == \A s : s # {} => Pick(s) \in s
  BY DEF Pick

\* g gives every subset of S the sum of f over it.
Totals(f, S, g) ==
  g = [s \in SUBSET S |-> IF s = {} THEN 0 ELSE f[Pick(s)] + g[s \ {Pick(s)}]]
TotalOf(f, S) == CHOOSE g : Totals(f, S, g)

LEMMA SumIsTotal == \A f, S : SumFunctionOnSet(f, S) = TotalOf(f, S)[S]
  BY DEF SumFunctionOnSet, FoldFunctionOnSet, MapThenFoldSet, TotalOf, Totals, Pick

LEMMA TotalsStep ==
  ASSUME NEW f, NEW S, NEW g, Totals(f, S, g), NEW s \in SUBSET S
  PROVE  g[s] = IF s = {} THEN 0 ELSE f[Pick(s)] + g[s \ {Pick(s)}]
  BY DEF Totals

LEMMA TotalsAgree ==
  ASSUME NEW f, NEW A, NEW B, NEW g, NEW h, Totals(f, A, g), Totals(f, B, h),
         IsFiniteSet(A), NEW s \in SUBSET (A \cap B)
  PROVE  g[s] = h[s]
<1> DEFINE Differ == {t \in SUBSET (A \cap B) : g[t] # h[t]}
<1> SUFFICES ASSUME Differ # {} PROVE FALSE
  OBVIOUS
<1>1. Differ \subseteq SUBSET A
  OBVIOUS
<1> HIDE DEF Differ
<1>2. PICK t \in Differ : \A u \in Differ : u \subseteq t => u = t
  BY <1>1, SmallestSubset
<1>3. t \in SUBSET A /\ t \in SUBSET B /\ g[t] # h[t]
  BY DEF Differ
<1>4. /\ g[t] = IF t = {} THEN 0 ELSE f[Pick(t)] + g[t \ {Pick(t)}]
      /\ h[t] = IF t = {} THEN 0 ELSE f[Pick(t)] + h[t \ {Pick(t)}]
  BY <1>3, TotalsStep
<1>5. t # {} /\ g[t \ {Pick(t)}] # h[t \ {Pick(t)}]
  BY <1>3, <1>4
<1>6. t \ {Pick(t)} \in Differ
  BY <1>3, <1>5 DEF Differ
<1>7. t \ {Pick(t)} \subseteq t /\ t \ {Pick(t)} # t
  BY <1>5, PickIsIn
<1> QED
  BY <1>2, <1>6, <1>7

LEMMA TotalsExist ==
  ASSUME NEW f, NEW S, IsFiniteSet(S)
  PROVE  Totals(f, S, TotalOf(f, S))
<1> DEFINE Bad == {A \in SUBSET S : ~Totals(f, A, TotalOf(f, A))}
<1> SUFFICES ASSUME Bad # {} PROVE FALSE
  OBVIOUS
<1>1. Bad \subseteq SUBSET S
  OBVIOUS
<1> HIDE DEF Bad
<1>2. PICK A \in Bad : \A B \in Bad : B \subseteq A => B = A
  BY <1>1, SmallestSubset
<1>3. A \in SUBSET S /\ ~Totals(f, A, TotalOf(f, A))
  BY DEF Bad
<1>4. \A B \in SUBSET A : B # A => Totals(f, B, TotalOf(f, B))
  BY <1>2, <1>3 DEF Bad
<1>5. \A B \in SUBSET A : IsFiniteSet(B)
  BY <1>3, FS_Subset
<1> DEFINE below(s) == s \ {Pick(s)}
           G == [s \in SUBSET A |-> IF s = {} THEN 0
                                    ELSE f[Pick(s)] + TotalOf(f, below(s))[below(s)]]
<1>6. ASSUME NEW s \in SUBSET A, s # {}
      PROVE  G[below(s)] = TotalOf(f, below(s))[below(s)]
  <2> DEFINE t == below(s)
  <2>1. t \in SUBSET A /\ t # A
    BY <1>6, PickIsIn
  <2>2. Totals(f, t, TotalOf(f, t))
    BY <1>4, <2>1
  <2>3. TotalOf(f, t)[t] = IF t = {} THEN 0 ELSE f[Pick(t)] + TotalOf(f, t)[below(t)]
    <3>1. t \in SUBSET t
      OBVIOUS
    <3> HIDE DEF t
    <3> QED
      BY <2>2, <3>1, TotalsStep
  <2>4. CASE t = {}
    BY <2>1, <2>3, <2>4
  <2>5. CASE t # {}
    <3>1. below(t) \in SUBSET t /\ below(t) # t /\ below(t) \in SUBSET A /\ below(t) # A
      BY <2>1, <2>5, PickIsIn
    <3>2. Totals(f, below(t), TotalOf(f, below(t)))
      BY <1>4, <3>1
    <3>3. IsFiniteSet(t)
      BY <1>5, <2>1
    <3>4. TotalOf(f, t)[below(t)] = TotalOf(f, below(t))[below(t)]
      <4> HIDE DEF t, below
      <4>1. below(t) \in SUBSET (t \cap below(t))
        BY <3>1
      <4> QED
        BY <2>2, <3>2, <3>3, <4>1, TotalsAgree
    <3>5. G[t] = f[Pick(t)] + TotalOf(f, below(t))[below(t)]
      BY <2>1, <2>5
    <3> QED
      BY <2>3, <2>5, <3>4, <3>5
  <2> QED
    BY <2>4, <2>5
<1>7. Totals(f, A, G)
  <2>1. \A s \in SUBSET A : s # {} => f[Pick(s)] + TotalOf(f, below(s))[below(s)]
                                        = f[Pick(s)] + G[below(s)]
    BY <1>6
  <2>2. G = [s \in SUBSET A |-> IF s = {} THEN 0 ELSE f[Pick(s)] + G[below(s)]]
    BY <2>1
  <2> QED
    BY <2>2 DEF Totals
<1>8. Totals(f, A, TotalOf(f, A))
  BY <1>7 DEF TotalOf
<1> QED
  BY <1>3, <1>8

\* The equation MapThenFoldSet is defined by.
LEMMA SumStep ==
  ASSUME NEW f, NEW S, IsFiniteSet(S)
  PROVE  SumFunctionOnSet(f, S) =
           IF S = {} THEN 0 ELSE f[Pick(S)] + SumFunctionOnSet(f, S \ {Pick(S)})
<1>1. Totals(f, S, TotalOf(f, S))
  BY TotalsExist
<1>2. TotalOf(f, S)[S] = IF S = {} THEN 0 ELSE f[Pick(S)] + TotalOf(f, S)[S \ {Pick(S)}]
  BY <1>1, TotalsStep
<1> DEFINE R == S \ {Pick(S)}
<1>3. Totals(f, R, TotalOf(f, R))
  BY TotalsExist, FS_Subset
<1>4. TotalOf(f, S)[R] = TotalOf(f, R)[R]
  <2>1. R \in SUBSET (S \cap R)
    OBVIOUS
  <2> HIDE DEF R
  <2> QED
    BY <1>1, <1>3, <2>1, TotalsAgree
<1> QED
  BY <1>2, <1>4, SumIsTotal

-----------------------------------------------------------------------------
(* Sums of integers *)

LEMMA SumEmpty == \A f : SumFunctionOnSet(f, {}) = 0
  BY SumStep, FS_EmptySet

LEMMA SumInt ==
  ASSUME NEW f, NEW S, IsFiniteSet(S), \A x \in S : f[x] \in Int
  PROVE  SumFunctionOnSet(f, S) \in Int
<1> DEFINE Bad == {A \in SUBSET S : SumFunctionOnSet(f, A) \notin Int}
<1> SUFFICES ASSUME Bad # {} PROVE FALSE
  OBVIOUS
<1>1. Bad \subseteq SUBSET S
  OBVIOUS
<1> HIDE DEF Bad
<1>2. PICK A \in Bad : \A B \in Bad : B \subseteq A => B = A
  BY <1>1, SmallestSubset
<1>3. A \in SUBSET S /\ SumFunctionOnSet(f, A) \notin Int
  BY DEF Bad
<1>4. SumFunctionOnSet(f, A) =
        IF A = {} THEN 0 ELSE f[Pick(A)] + SumFunctionOnSet(f, A \ {Pick(A)})
  BY <1>3, FS_Subset, SumStep
<1>5. A # {} /\ Pick(A) \in A
  BY <1>3, <1>4, PickIsIn
<1>6. SumFunctionOnSet(f, A \ {Pick(A)}) \in Int
  BY <1>2, <1>3, <1>5 DEF Bad
<1> QED
  BY <1>3, <1>4, <1>5, <1>6

\* Any element may be taken out first.
LEMMA SumTakeOut ==
  ASSUME NEW f, NEW S, IsFiniteSet(S), \A x \in S : f[x] \in Int, NEW e \in S
  PROVE  SumFunctionOnSet(f, S) = f[e] + SumFunctionOnSet(f, S \ {e})
<1> DEFINE Bad == {A \in SUBSET S :
             \E x \in A : SumFunctionOnSet(f, A) # f[x] + SumFunctionOnSet(f, A \ {x})}
<1> SUFFICES ASSUME Bad # {} PROVE FALSE
  OBVIOUS
<1>1. Bad \subseteq SUBSET S
  OBVIOUS
<1> HIDE DEF Bad
<1>2. PICK A \in Bad : \A B \in Bad : B \subseteq A => B = A
  BY <1>1, SmallestSubset
<1>3. A \in SUBSET S
  BY DEF Bad
<1>4. PICK x \in A : SumFunctionOnSet(f, A) # f[x] + SumFunctionOnSet(f, A \ {x})
  BY DEF Bad
<1> DEFINE p == Pick(A)
<1>5. p \in A
  BY <1>4, PickIsIn
<1>6. SumFunctionOnSet(f, A) = f[p] + SumFunctionOnSet(f, A \ {p})
  BY <1>3, <1>5, FS_Subset, SumStep
<1> HIDE DEF p
<1>7. p # x
  BY <1>4, <1>6
<1>8. SumFunctionOnSet(f, A \ {p}) = f[x] + SumFunctionOnSet(f, (A \ {p}) \ {x})
  <2>1. A \ {p} \notin Bad
    BY <1>2, <1>5
  <2> QED
    BY <1>3, <1>7, <2>1 DEF Bad
<1>9. SumFunctionOnSet(f, A \ {x}) = f[p] + SumFunctionOnSet(f, (A \ {x}) \ {p})
  <2>1. A \ {x} \notin Bad
    BY <1>2, <1>4
  <2> QED
    BY <1>3, <1>5, <1>7, <2>1 DEF Bad
<1>10. (A \ {x}) \ {p} = (A \ {p}) \ {x}
  OBVIOUS
<1> DEFINE rest == SumFunctionOnSet(f, (A \ {p}) \ {x})
<1>11. f[p] \in Int /\ f[x] \in Int /\ rest \in Int
  BY <1>3, <1>5, FS_Subset, SumInt
<1> HIDE DEF rest
<1>12. /\ SumFunctionOnSet(f, A) = f[p] + (f[x] + rest)
       /\ SumFunctionOnSet(f, A \ {x}) = f[p] + rest
  BY <1>6, <1>8, <1>9, <1>10 DEF rest
<1> QED
  BY <1>4, <1>11, <1>12

LEMMA SumPutIn ==
  ASSUME NEW f, NEW S, IsFiniteSet(S), NEW e, e \notin S,
         \A x \in S \cup {e} : f[x] \in Int
  PROVE  SumFunctionOnSet(f, S \cup {e}) = SumFunctionOnSet(f, S) + f[e]
<1>1. IsFiniteSet(S \cup {e}) /\ (S \cup {e}) \ {e} = S
  BY FS_AddElement
<1>2. SumFunctionOnSet(f, S \cup {e}) = f[e] + SumFunctionOnSet(f, S)
  <2> DEFINE U == S \cup {e}
  <2>1. e \in U /\ IsFiniteSet(U) /\ U \ {e} = S /\ \A x \in U : f[x] \in Int
    BY <1>1
  <2> HIDE DEF U
  <2>2. SumFunctionOnSet(f, U) = f[e] + SumFunctionOnSet(f, S)
    BY <2>1, SumTakeOut
  <2> QED
    BY <2>2 DEF U
<1>3. SumFunctionOnSet(f, S) \in Int
  BY SumInt
<1> QED
  BY <1>2, <1>3

LEMMA SumSame ==
  ASSUME NEW f, NEW g, NEW S, IsFiniteSet(S), \A x \in S : f[x] = g[x]
  PROVE  SumFunctionOnSet(f, S) = SumFunctionOnSet(g, S)
<1> DEFINE Bad == {A \in SUBSET S : SumFunctionOnSet(f, A) # SumFunctionOnSet(g, A)}
<1> SUFFICES ASSUME Bad # {} PROVE FALSE
  OBVIOUS
<1>1. Bad \subseteq SUBSET S
  OBVIOUS
<1> HIDE DEF Bad
<1>2. PICK A \in Bad : \A B \in Bad : B \subseteq A => B = A
  BY <1>1, SmallestSubset
<1>3. A \in SUBSET S /\ SumFunctionOnSet(f, A) # SumFunctionOnSet(g, A)
  BY DEF Bad
<1>4. /\ SumFunctionOnSet(f, A) =
           IF A = {} THEN 0 ELSE f[Pick(A)] + SumFunctionOnSet(f, A \ {Pick(A)})
      /\ SumFunctionOnSet(g, A) =
           IF A = {} THEN 0 ELSE g[Pick(A)] + SumFunctionOnSet(g, A \ {Pick(A)})
  BY <1>3, FS_Subset, SumStep
<1>5. A # {} /\ Pick(A) \in A
  BY <1>3, <1>4, PickIsIn
<1>6. SumFunctionOnSet(f, A \ {Pick(A)}) = SumFunctionOnSet(g, A \ {Pick(A)})
  BY <1>2, <1>3, <1>5 DEF Bad
<1> QED
  BY <1>3, <1>4, <1>5, <1>6

LEMMA SumZero ==
  ASSUME NEW f, NEW S, IsFiniteSet(S), \A x \in S : f[x] = 0
  PROVE  SumFunctionOnSet(f, S) = 0
<1> DEFINE Bad == {A \in SUBSET S : SumFunctionOnSet(f, A) # 0}
<1> SUFFICES ASSUME Bad # {} PROVE FALSE
  OBVIOUS
<1>1. Bad \subseteq SUBSET S
  OBVIOUS
<1> HIDE DEF Bad
<1>2. PICK A \in Bad : \A B \in Bad : B \subseteq A => B = A
  BY <1>1, SmallestSubset
<1>3. A \in SUBSET S /\ SumFunctionOnSet(f, A) # 0
  BY DEF Bad
<1>4. SumFunctionOnSet(f, A) =
        IF A = {} THEN 0 ELSE f[Pick(A)] + SumFunctionOnSet(f, A \ {Pick(A)})
  BY <1>3, FS_Subset, SumStep
<1>5. A # {} /\ Pick(A) \in A
  BY <1>3, <1>4, PickIsIn
<1>6. SumFunctionOnSet(f, A \ {Pick(A)}) = 0
  BY <1>2, <1>3, <1>5 DEF Bad
<1> QED
  BY <1>3, <1>4, <1>5, <1>6

\* Only e's summand is another one.
LEMMA SumChange ==
  ASSUME NEW f, NEW g, NEW S, IsFiniteSet(S), NEW e \in S,
         \A x \in S : f[x] \in Int /\ g[x] \in Int,
         \A x \in S \ {e} : g[x] = f[x]
  PROVE  SumFunctionOnSet(g, S) = SumFunctionOnSet(f, S) - f[e] + g[e]
<1>1. /\ SumFunctionOnSet(f, S) = f[e] + SumFunctionOnSet(f, S \ {e})
      /\ SumFunctionOnSet(g, S) = g[e] + SumFunctionOnSet(g, S \ {e})
  BY SumTakeOut
<1>2. /\ SumFunctionOnSet(f, S \ {e}) = SumFunctionOnSet(g, S \ {e})
      /\ SumFunctionOnSet(f, S \ {e}) \in Int
  BY FS_RemoveElement, SumSame, SumInt
<1> QED
  BY <1>1, <1>2

\* Summand by summand.
LEMMA SumAtMost ==
  ASSUME NEW f, NEW g, NEW S, IsFiniteSet(S),
         \A x \in S : f[x] \in Int /\ g[x] \in Int /\ f[x] <= g[x]
  PROVE  SumFunctionOnSet(f, S) <= SumFunctionOnSet(g, S)
<1> DEFINE Bad == {A \in SUBSET S : ~(SumFunctionOnSet(f, A) <= SumFunctionOnSet(g, A))}
<1> SUFFICES ASSUME Bad # {} PROVE FALSE
  OBVIOUS
<1>1. Bad \subseteq SUBSET S
  OBVIOUS
<1> HIDE DEF Bad
<1>2. PICK A \in Bad : \A B \in Bad : B \subseteq A => B = A
  BY <1>1, SmallestSubset
<1>3. A \in SUBSET S /\ ~(SumFunctionOnSet(f, A) <= SumFunctionOnSet(g, A))
  BY DEF Bad
<1>4. A # {}
  BY <1>3, SumEmpty
<1>5. Pick(A) \in A
  BY <1>4, PickIsIn
<1> DEFINE R == A \ {Pick(A)}
<1>6. /\ SumFunctionOnSet(f, A) = f[Pick(A)] + SumFunctionOnSet(f, R)
      /\ SumFunctionOnSet(g, A) = g[Pick(A)] + SumFunctionOnSet(g, R)
  BY <1>3, <1>4, FS_Subset, SumStep
<1>7. SumFunctionOnSet(f, R) <= SumFunctionOnSet(g, R)
  BY <1>2, <1>3, <1>5 DEF Bad
<1>8. IsFiniteSet(R) /\ R \subseteq S
  BY <1>3, FS_Subset
<1>9. SumFunctionOnSet(f, R) \in Int /\ SumFunctionOnSet(g, R) \in Int
  <2> HIDE DEF R
  <2> QED
    BY <1>8, SumInt
<1> HIDE DEF R
<1> QED
  BY <1>3, <1>5, <1>6, <1>7, <1>9

LEMMA SumNat ==
  ASSUME NEW f, NEW S, IsFiniteSet(S), \A x \in S : f[x] \in Nat
  PROVE  SumFunctionOnSet(f, S) \in Nat
<1> DEFINE Bad == {A \in SUBSET S : SumFunctionOnSet(f, A) \notin Nat}
<1> SUFFICES ASSUME Bad # {} PROVE FALSE
  OBVIOUS
<1>1. Bad \subseteq SUBSET S
  OBVIOUS
<1> HIDE DEF Bad
<1>2. PICK A \in Bad : \A B \in Bad : B \subseteq A => B = A
  BY <1>1, SmallestSubset
<1>3. A \in SUBSET S /\ SumFunctionOnSet(f, A) \notin Nat
  BY DEF Bad
<1>4. SumFunctionOnSet(f, A) =
        IF A = {} THEN 0 ELSE f[Pick(A)] + SumFunctionOnSet(f, A \ {Pick(A)})
  BY <1>3, FS_Subset, SumStep
<1>5. A # {} /\ Pick(A) \in A
  BY <1>3, <1>4, PickIsIn
<1>6. SumFunctionOnSet(f, A \ {Pick(A)}) \in Nat
  BY <1>2, <1>3, <1>5 DEF Bad
<1> QED
  BY <1>3, <1>4, <1>5, <1>6

\* A sum of natural numbers over part of a set is no more than over the whole.
LEMMA SumSubset ==
  ASSUME NEW f, NEW S, IsFiniteSet(S), \A x \in S : f[x] \in Nat, NEW A \in SUBSET S
  PROVE  SumFunctionOnSet(f, A) <= SumFunctionOnSet(f, S)
<1> DEFINE Bad == {C \in SUBSET S : A \subseteq C
                     /\ ~(SumFunctionOnSet(f, A) <= SumFunctionOnSet(f, C))}
<1> SUFFICES ASSUME Bad # {} PROVE FALSE
  OBVIOUS
<1>1. Bad \subseteq SUBSET S
  OBVIOUS
<1> HIDE DEF Bad
<1>2. PICK C \in Bad : \A B \in Bad : B \subseteq C => B = C
  BY <1>1, SmallestSubset
<1>3. /\ C \in SUBSET S /\ A \subseteq C
      /\ ~(SumFunctionOnSet(f, A) <= SumFunctionOnSet(f, C))
  BY DEF Bad
<1>4. IsFiniteSet(C) /\ IsFiniteSet(A) /\ \A x \in C : f[x] \in Int /\ f[x] \in Nat
  BY <1>3, FS_Subset
<1>5. SumFunctionOnSet(f, A) \in Int
  BY <1>3, <1>4, SumInt
<1>6. C # A
  BY <1>3, <1>5
<1>7. PICK x \in C : x \notin A
  BY <1>3, <1>6
<1> DEFINE R == C \ {x}
<1>8. SumFunctionOnSet(f, C) = f[x] + SumFunctionOnSet(f, R)
  BY <1>4, SumTakeOut
<1>9. R \in SUBSET S /\ A \subseteq R /\ R \subseteq C /\ R # C
  BY <1>3, <1>7
<1>10. SumFunctionOnSet(f, A) <= SumFunctionOnSet(f, R)
  BY <1>2, <1>9 DEF Bad
<1>11. SumFunctionOnSet(f, R) \in Int
  <2>1. IsFiniteSet(R) /\ \A y \in R : f[y] \in Int
    BY <1>4, FS_RemoveElement
  <2> HIDE DEF R
  <2> QED
    BY <2>1, SumInt
<1>12. f[x] \in Nat
  BY <1>4
<1> HIDE DEF R
<1> QED
  BY <1>3, <1>5, <1>8, <1>10, <1>11, <1>12
=============================================================================
