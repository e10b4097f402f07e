-------------------------- MODULE CreditGateProofs --------------------------
(***************************************************************************)
(* Proofs about CreditGate and Pricing, for any requests, rates, grants,   *)
(* faults and any number of snapshots.                                     *)
(*                                                                         *)
(* That every hold is given back once needs nothing but the types of the   *)
(* requests.  The rest assumes PricesFit: a product that wraps around      *)
(* would be a negative debit.  It rests on where a logged debit is: up to  *)
(* the watermark it is in the allowance, then up to confirmedHigh in       *)
(* confirmedSum, and beyond that in pending, in the hold of its request or *)
(* in a bill that was never trued up.                                      *)
(***************************************************************************)
EXTENDS CreditGate, FiniteSetTheorems, SequenceTheorems, TLAPS

(***************************************************************************)
(* Sums: SumFunctionOnSet does not depend on the order in which the fold   *)
(* takes the elements.  Induction is by a least counterexample.            *)
(***************************************************************************)
LEMMA LeastSubset ==
    ASSUME NEW S, IsFiniteSet(S), NEW W, W \subseteq SUBSET S, W # {}
    PROVE \E T \in W : \A U \in W : U \subseteq T => U = T
<1>1. IsWellFoundedOn(StrictSubsetOrdering(S), SUBSET S)
  BY FS_StrictSubsetOrderingWellFounded, FS_FiniteSubsetsOfFinite
<1>2. PICK T \in W : \A U \in W : ~(<<U, T>> \in StrictSubsetOrdering(S))
  BY <1>1, WFMin
<1> QED BY <1>2 DEF StrictSubsetOrdering

\* The element the fold takes next, and the function it computes on the subsets of S.
Taken(s) == CHOOSE x \in s : TRUE
Iterates(f, g, S) ==
    g = [s \in SUBSET S |-> IF s = {} THEN 0 ELSE f[Taken(s)] + g[s \ {Taken(s)}]]
Iteration(f, S) ==
    CHOOSE g : g = [s \in SUBSET S |-> IF s = {} THEN 0 ELSE f[Taken(s)] + g[s \ {Taken(s)}]]

LEMMA SumIsIteration ==
    ASSUME NEW f, NEW S
    PROVE SumFunctionOnSet(f, S) = Iteration(f, S)[S]
BY DEF SumFunctionOnSet, FoldFunctionOnSet, MapThenFoldSet, Iteration, Taken

LEMMA TakenIn == ASSUME NEW S, S # {} PROVE Taken(S) \in S
BY DEF Taken

LEMMA IterationsAgree ==
    ASSUME NEW f, NEW S, NEW T, NEW g, NEW h, IsFiniteSet(S),
           Iterates(f, g, S), Iterates(f, h, T), NEW U, U \subseteq S, U \subseteq T
    PROVE g[U] = h[U]
<1> DEFINE W == {V \in SUBSET S : V \subseteq T /\ g[V] # h[V]}
<1> SUFFICES ASSUME W # {} PROVE FALSE
  OBVIOUS
<1>1. PICK V \in W : \A X \in W : X \subseteq V => X = V
  <2>1. W \subseteq SUBSET S
    OBVIOUS
  <2> HIDE DEF W
  <2> QED BY <2>1, LeastSubset
<1>2. V \subseteq S /\ V \subseteq T /\ g[V] # h[V]
  BY <1>1
<1>3. V # {}
  BY <1>2 DEF Iterates
<1> DEFINE X == V \ {Taken(V)}
<1>4. X \subseteq V /\ X # V /\ X \in SUBSET S /\ X \subseteq T
  BY <1>2, <1>3, TakenIn
<1>5. g[X] = h[X]
  <2> HIDE DEF X
  <2> QED BY <1>1, <1>4
<1>6. g[V] = f[Taken(V)] + g[X] /\ h[V] = f[Taken(V)] + h[X]
  BY <1>2, <1>3 DEF Iterates
<1> QED BY <1>2, <1>5, <1>6

LEMMA IterationIfAny ==
    ASSUME NEW f, NEW S, \E g : Iterates(f, g, S)
    PROVE Iterates(f, Iteration(f, S), S)
BY Zenon DEF Iterates, Iteration

LEMMA IterationExists ==
    ASSUME NEW f, NEW S, IsFiniteSet(S)
    PROVE Iterates(f, Iteration(f, S), S)
<1> DEFINE W == {T \in SUBSET S : ~(\E g : Iterates(f, g, T))}
<1>1. SUFFICES ASSUME W # {} PROVE FALSE
  <2>1. W = {} => \E g : Iterates(f, g, S)
    OBVIOUS
  <2> QED BY <1>1, <2>1, IterationIfAny
<1>2. PICK T \in W : \A U \in W : U \subseteq T => U = T
  <2>1. W \subseteq SUBSET S
    OBVIOUS
  <2> HIDE DEF W
  <2> QED BY <1>1, <2>1, LeastSubset
<1>3. T \subseteq S /\ ~(\E g : Iterates(f, g, T)) /\ IsFiniteSet(T)
  BY <1>2, FS_Subset
<1>4. ASSUME NEW U, U \subseteq T, U # T
      PROVE Iterates(f, Iteration(f, U), U) /\ IsFiniteSet(U)
  <2>1. U \in SUBSET S /\ U \notin W
    BY <1>2, <1>3, <1>4
  <2>2. \E g : Iterates(f, g, U)
    BY <2>1
  <2> QED BY <2>2, IterationIfAny, <1>3, <1>4, FS_Subset
<1> DEFINE Rest(s) == s \ {Taken(s)}
           h == [s \in SUBSET T |->
                    IF s = {} THEN 0 ELSE f[Taken(s)] + Iteration(f, Rest(s))[Rest(s)]]
<1>5. ASSUME NEW s \in SUBSET T, s # {} PROVE h[Rest(s)] = Iteration(f, Rest(s))[Rest(s)]
  <2> DEFINE U == Rest(s)
  <2>1. U \subseteq T /\ U # T
    BY <1>5, TakenIn
  <2>2. Iterates(f, Iteration(f, U), U) /\ IsFiniteSet(U)
    BY <1>4, <2>1
  <2>3. CASE U = {}
    <3>1. Iteration(f, {})[{}] = 0
      BY <2>2, <2>3 DEF Iterates
    <3>2. h[{}] = 0
      OBVIOUS
    <3> QED BY <2>3, <3>1, <3>2
  <2>4. CASE U # {}
    <3> DEFINE V == Rest(U)
    <3>1. V \subseteq U /\ V \subseteq T /\ V # T
      BY <2>1, <2>4, TakenIn
    <3>2. Iterates(f, Iteration(f, V), V)
      BY <1>4, <3>1
    <3>3. h[U] = f[Taken(U)] + Iteration(f, V)[V]
      BY <2>1, <2>4
    <3>4. Iteration(f, U)[U] = f[Taken(U)] + Iteration(f, U)[V]
      BY <2>2, <2>4 DEF Iterates
    <3>5. Iteration(f, U)[V] = Iteration(f, V)[V]
      <4> HIDE DEF U, V
      <4> QED BY <2>2, <3>1, <3>2, IterationsAgree
    <3> QED BY <3>3, <3>4, <3>5
  <2> QED BY <2>3, <2>4
<1>6. Iterates(f, h, T)
  <2>1. ASSUME NEW s \in SUBSET T
        PROVE h[s] = IF s = {} THEN 0 ELSE f[Taken(s)] + h[Rest(s)]
    <3>1. CASE s = {}
      BY <3>1
    <3>2. CASE s # {}
      <4>1. h[s] = f[Taken(s)] + Iteration(f, Rest(s))[Rest(s)]
        BY <3>2
      <4> QED BY <4>1, <3>2, <1>5
    <3> QED BY <3>1, <3>2
  <2>2. h = [s \in SUBSET T |-> h[s]]
    OBVIOUS
  <2> HIDE DEF h
  <2> QED BY <2>1, <2>2 DEF Iterates
<1> QED BY <1>3, <1>6

LEMMA SumUnfold ==
    ASSUME NEW f, NEW S, IsFiniteSet(S)
    PROVE /\ S = {} => SumFunctionOnSet(f, S) = 0
          /\ S # {} => SumFunctionOnSet(f, S)
                         = f[Taken(S)] + SumFunctionOnSet(f, S \ {Taken(S)})
<1>1. Iterates(f, Iteration(f, S), S)
  BY IterationExists
<1>2. CASE S = {}
  BY <1>1, <1>2, SumIsIteration DEF Iterates
<1>3. CASE S # {}
  <2> DEFINE U == S \ {Taken(S)}
  <2>1. U \subseteq S /\ IsFiniteSet(U)
    BY FS_Subset
  <2>2. Iterates(f, Iteration(f, U), U)
    BY <2>1, IterationExists
  <2>3. Iteration(f, S)[U] = Iteration(f, U)[U]
    <3> HIDE DEF U
    <3> QED BY <1>1, <2>1, <2>2, IterationsAgree
  <2>4. Iteration(f, S)[S] = f[Taken(S)] + Iteration(f, S)[U]
    BY <1>1, <1>3 DEF Iterates
  <2> QED BY <1>3, <2>3, <2>4, SumIsIteration
<1> QED BY <1>2, <1>3

\* Any element may be taken first.
LEMMA SumRemove ==
    ASSUME NEW f, NEW S, IsFiniteSet(S), \A x \in S : f[x] \in Int
    PROVE /\ SumFunctionOnSet(f, S) \in Int
          /\ \A x \in S : SumFunctionOnSet(f, S) = f[x] + SumFunctionOnSet(f, S \ {x})
<1> DEFINE Good(T) ==
             /\ SumFunctionOnSet(f, T) \in Int
             /\ \A x \in T : SumFunctionOnSet(f, T) = f[x] + SumFunctionOnSet(f, T \ {x})
           W == {T \in SUBSET S : ~Good(T)}
<1>1. SUFFICES ASSUME W # {} PROVE FALSE
  OBVIOUS
<1>2. PICK T \in W : \A U \in W : U \subseteq T => U = T
  <2>1. W \subseteq SUBSET S
    OBVIOUS
  <2> HIDE DEF W
  <2> QED BY <1>1, <2>1, LeastSubset
<1>3. T \subseteq S /\ ~Good(T) /\ IsFiniteSet(T)
  BY <1>2, FS_Subset
<1>4. ASSUME NEW U, U \subseteq T, U # T PROVE Good(U)
  <2>1. U \in SUBSET S /\ U \notin W
    BY <1>2, <1>3, <1>4
  <2> HIDE DEF Good
  <2> QED BY <2>1
<1> HIDE DEF W
<1>5. T # {}
  BY <1>3, SumUnfold
<1> DEFINE c == Taken(T)
           Sum(U) == SumFunctionOnSet(f, U)
<1>6. c \in T /\ Sum(T) = f[c] + Sum(T \ {c}) /\ f[c] \in Int
  BY <1>3, <1>5, SumUnfold, TakenIn
<1>7. Sum(T \ {c}) \in Int
  BY <1>4, <1>6
<1>8. ASSUME NEW x \in T PROVE Sum(T) = f[x] + Sum(T \ {x})
  <2>1. CASE x = c
    BY <2>1, <1>6
  <2>2. CASE x # c
    <3>1. x \in T \ {c} /\ c \in T \ {x} /\ (T \ {c}) \ {x} = (T \ {x}) \ {c}
      BY <1>6, <2>2
    <3>2. Good(T \ {c}) /\ Good(T \ {x}) /\ Good((T \ {c}) \ {x})
      <4> HIDE DEF Good
      <4> QED BY <1>4, <1>6
    <3>3. Sum(T \ {c}) = f[x] + Sum((T \ {c}) \ {x})
      BY <3>1, <3>2
    <3>4. Sum(T \ {x}) = f[c] + Sum((T \ {x}) \ {c})
      BY <3>1, <3>2
    <3>5. f[x] \in Int /\ Sum((T \ {c}) \ {x}) \in Int
      BY <1>3, <3>2
    <3> DEFINE rest == Sum((T \ {c}) \ {x})
    <3>6. Sum(T \ {x}) = f[c] + rest /\ Sum(T \ {c}) = f[x] + rest /\ rest \in Int
      BY <3>1, <3>3, <3>4, <3>5
    <3> HIDE DEF rest, Sum, Good, c
    <3> QED BY <1>6, <3>5, <3>6
  <2> QED BY <2>1, <2>2
<1>9. Sum(T) \in Int
  <2> HIDE DEF Sum
  <2> QED BY <1>6, <1>7
<1> QED BY <1>3, <1>8, <1>9

\* The facts about sums that the proofs use; the terms are natural numbers.
Sum(f, S) == SumFunctionOnSet(f, S)

LEMMA SumEmpty == ASSUME NEW f PROVE Sum(f, {}) = 0
BY SumUnfold, FS_EmptySet DEF Sum

LEMMA SumAdd ==
    ASSUME NEW f, NEW S, IsFiniteSet(S), NEW x, x \notin S, f[x] \in Int,
           \A y \in S : f[y] \in Int
    PROVE Sum(f, S \cup {x}) = Sum(f, S) + f[x]
<1>1. IsFiniteSet(S \cup {x}) /\ (S \cup {x}) \ {x} = S
  BY FS_AddElement
<1>2. SumFunctionOnSet(f, S \cup {x}) = f[x] + SumFunctionOnSet(f, S)
  BY <1>1, SumRemove
<1>3. SumFunctionOnSet(f, S) \in Int
  BY SumRemove
<1> QED BY <1>2, <1>3 DEF Sum

LEMMA SumDrop ==
    ASSUME NEW f, NEW S, IsFiniteSet(S), NEW x \in S, \A y \in S : f[y] \in Int
    PROVE Sum(f, S \ {x}) = Sum(f, S) - f[x]
<1>1. SumFunctionOnSet(f, S) = f[x] + SumFunctionOnSet(f, S \ {x})
  BY SumRemove
<1>2. IsFiniteSet(S \ {x}) /\ \A y \in S \ {x} : f[y] \in Int
  BY FS_Subset
<1>3. SumFunctionOnSet(f, S \ {x}) \in Int
  BY <1>2, SumRemove
<1> QED BY <1>1, <1>3 DEF Sum

\* What two functions have in common on a set, their sums have: equality and order.
LEMMA SumLeq ==
    ASSUME NEW f, NEW g, NEW S, IsFiniteSet(S),
           \A x \in S : f[x] \in Nat /\ g[x] \in Nat /\ f[x] <= g[x]
    PROVE Sum(f, S) \in Nat /\ Sum(g, S) \in Nat /\ Sum(f, S) <= Sum(g, S)
<1> DEFINE Good(T) == Sum(f, T) \in Nat /\ Sum(g, T) \in Nat /\ Sum(f, T) <= Sum(g, T)
           W == {T \in SUBSET S : ~Good(T)}
<1>1. SUFFICES ASSUME W # {} PROVE FALSE
  OBVIOUS
<1>2. PICK T \in W : \A U \in W : U \subseteq T => U = T
  <2>1. W \subseteq SUBSET S
    OBVIOUS
  <2> HIDE DEF W
  <2> QED BY <1>1, <2>1, LeastSubset
<1>3. T \subseteq S /\ ~Good(T) /\ IsFiniteSet(T)
  BY <1>2, FS_Subset
<1>4. T # {}
  BY <1>3, SumEmpty
<1>5. PICK x \in T : TRUE
  BY <1>4
<1>6. Good(T \ {x})
  <2>1. T \ {x} \in SUBSET S /\ T \ {x} \notin W
    BY <1>2, <1>3, <1>5
  <2> HIDE DEF Good
  <2> QED BY <2>1
<1>7. Sum(f, T \ {x}) = Sum(f, T) - f[x] /\ Sum(g, T \ {x}) = Sum(g, T) - g[x]
  <2>1. \A y \in T : f[y] \in Int /\ g[y] \in Int
    BY <1>3
  <2> QED BY <1>3, <1>5, <2>1, SumDrop
<1>8. Sum(f, T) \in Int /\ Sum(g, T) \in Int
  <2>1. \A y \in T : f[y] \in Int /\ g[y] \in Int
    BY <1>3
  <2> QED BY <1>3, <2>1, SumRemove DEF Sum
<1>9. f[x] \in Nat /\ g[x] \in Nat /\ f[x] <= g[x]
  BY <1>3, <1>5
<1> QED BY <1>3, <1>6, <1>7, <1>8, <1>9

LEMMA SumNat ==
    ASSUME NEW f, NEW S, IsFiniteSet(S), \A x \in S : f[x] \in Nat
    PROVE Sum(f, S) \in Nat
<1>1. \A x \in S : f[x] \in Nat /\ f[x] <= f[x]
  OBVIOUS
<1> QED BY <1>1, SumLeq

LEMMA SumSame ==
    ASSUME NEW f, NEW g, NEW S, IsFiniteSet(S),
           \A x \in S : f[x] \in Nat /\ f[x] = g[x]
    PROVE Sum(f, S) = Sum(g, S) /\ Sum(f, S) \in Nat
<1>1. \A x \in S : f[x] \in Nat /\ g[x] \in Nat /\ f[x] <= g[x] /\ g[x] <= f[x]
  OBVIOUS
<1>2. Sum(f, S) \in Nat /\ Sum(g, S) \in Nat /\ Sum(f, S) <= Sum(g, S)
  BY <1>1, SumLeq
<1>3. Sum(g, S) <= Sum(f, S)
  BY <1>1, SumLeq
<1> QED BY <1>2, <1>3

\* One value changes.
LEMMA SumChange ==
    ASSUME NEW f, NEW g, NEW S, IsFiniteSet(S), NEW x \in S,
           \A y \in S : f[y] \in Nat /\ g[y] \in Nat,
           \A y \in S \ {x} : f[y] = g[y]
    PROVE Sum(g, S) = Sum(f, S) - f[x] + g[x]
<1>1. IsFiniteSet(S \ {x}) /\ \A y \in S : f[y] \in Int /\ g[y] \in Int
  BY FS_Subset
<1>2. Sum(f, S \ {x}) = Sum(f, S) - f[x] /\ Sum(g, S \ {x}) = Sum(g, S) - g[x]
  BY <1>1, SumDrop
<1>3. Sum(f, S \ {x}) = Sum(g, S \ {x})
  BY <1>1, SumSame
<1>4. Sum(f, S) \in Nat /\ Sum(g, S) \in Nat /\ f[x] \in Nat /\ g[x] \in Nat
  BY SumNat
<1> QED BY <1>2, <1>3, <1>4

LEMMA SumUnion ==
    ASSUME NEW f, NEW S, NEW T, IsFiniteSet(S), IsFiniteSet(T), S \cap T = {},
           \A x \in S \cup T : f[x] \in Nat
    PROVE Sum(f, S \cup T) = Sum(f, S) + Sum(f, T)
<1> DEFINE Good(U) == Sum(f, S \cup U) = Sum(f, S) + Sum(f, U)
           W == {U \in SUBSET T : ~Good(U)}
<1>1. SUFFICES ASSUME W # {} PROVE FALSE
  OBVIOUS
<1>2. PICK U \in W : \A V \in W : V \subseteq U => V = U
  <2>1. W \subseteq SUBSET T
    OBVIOUS
  <2> HIDE DEF W
  <2> QED BY <1>1, <2>1, LeastSubset
<1>3. U \subseteq T /\ ~Good(U) /\ IsFiniteSet(U) /\ IsFiniteSet(S \cup U)
  BY <1>2, FS_Subset, FS_Union
<1>4. Sum(f, S) \in Nat /\ Sum(f, U) \in Nat /\ Sum(f, S \cup U) \in Nat
  <2>1. /\ \A x \in S : f[x] \in Nat
        /\ \A x \in U : f[x] \in Nat
        /\ \A x \in S \cup U : f[x] \in Nat
    BY <1>3
  <2> QED BY <1>3, <2>1, SumNat
<1>5. U # {}
  <2> SUFFICES ASSUME U = {} PROVE FALSE
    OBVIOUS
  <2>1. S \cup U = S /\ Sum(f, U) = 0
    BY SumEmpty
  <2> QED BY <1>3, <1>4, <2>1
<1>6. PICK x \in U : TRUE
  BY <1>5
<1>7. Good(U \ {x})
  <2>1. U \ {x} \in SUBSET T /\ U \ {x} \notin W
    BY <1>2, <1>3, <1>6
  <2> HIDE DEF Good
  <2> QED BY <2>1
<1>8. S \cup (U \ {x}) = (S \cup U) \ {x} /\ x \in S \cup U
  BY <1>3, <1>6
<1>9. Sum(f, U \ {x}) = Sum(f, U) - f[x] /\ Sum(f, (S \cup U) \ {x}) = Sum(f, S \cup U) - f[x]
  <2>1. /\ \A y \in U : f[y] \in Int
        /\ \A y \in S \cup U : f[y] \in Int
    BY <1>3
  <2> QED BY <1>3, <1>6, <1>8, <2>1, SumDrop
<1>10. f[x] \in Nat
  BY <1>3, <1>6
<1>11. Sum(f, (S \cup U) \ {x}) = Sum(f, S) + Sum(f, U \ {x})
  BY <1>7, <1>8
<1> QED BY <1>3, <1>4, <1>9, <1>10, <1>11

\* A part of a set has at most its sum, and all of it when the rest adds nothing.
LEMMA SumPart ==
    ASSUME NEW f, NEW S, NEW T, IsFiniteSet(T), S \subseteq T, \A x \in T : f[x] \in Nat
    PROVE /\ Sum(f, S) \in Nat /\ Sum(f, T) \in Nat /\ Sum(f, S) <= Sum(f, T)
          /\ Sum(f, T) = Sum(f, S) + Sum(f, T \ S)
          /\ (\A x \in T \ S : f[x] = 0) => Sum(f, S) = Sum(f, T)
<1>1. IsFiniteSet(S) /\ IsFiniteSet(T \ S) /\ S \cup (T \ S) = T /\ S \cap (T \ S) = {}
  BY FS_Subset
<1>2. Sum(f, T) = Sum(f, S) + Sum(f, T \ S)
  BY <1>1, SumUnion
<1>3. Sum(f, S) \in Nat /\ Sum(f, T \ S) \in Nat /\ Sum(f, T) \in Nat
  BY <1>1, SumNat
<1>4. ASSUME \A x \in T \ S : f[x] = 0 PROVE Sum(f, T \ S) = 0
  <2> DEFINE W == {U \in SUBSET (T \ S) : Sum(f, U) # 0}
  <2>1. SUFFICES ASSUME W # {} PROVE FALSE
    OBVIOUS
  <2>2. PICK U \in W : \A V \in W : V \subseteq U => V = U
    <3>1. W \subseteq SUBSET (T \ S)
      OBVIOUS
    <3> HIDE DEF W
    <3> QED BY <1>1, <2>1, <3>1, LeastSubset
  <2>3. U \subseteq T \ S /\ Sum(f, U) # 0 /\ IsFiniteSet(U)
    BY <1>1, <2>2, FS_Subset
  <2>4. PICK x \in U : TRUE
    BY <2>3, SumEmpty
  <2>5. Sum(f, U \ {x}) = 0
    <3>1. U \ {x} \in SUBSET (T \ S) /\ U \ {x} \notin W
      BY <2>2, <2>3, <2>4
    <3> QED BY <3>1
  <2>6. Sum(f, U \ {x}) = Sum(f, U) - f[x] /\ f[x] = 0 /\ Sum(f, U) \in Nat
    <3>1. \A y \in U : f[y] \in Int /\ f[y] \in Nat
      BY <2>3, <1>4
    <3> QED BY <1>4, <2>3, <2>4, <3>1, SumDrop, SumNat
  <2> QED BY <2>3, <2>5, <2>6
<1> QED BY <1>2, <1>3, <1>4

\* One element changes its value, its membership or both.
LEMMA SumMove ==
    ASSUME NEW f, NEW g, NEW R, NEW S, NEW T, IsFiniteSet(R), S \subseteq R, T \subseteq R,
           NEW x \in R, \A y \in R : f[y] \in Nat /\ g[y] \in Nat,
           \A y \in R \ {x} : f[y] = g[y] /\ (y \in S <=> y \in T)
    PROVE /\ Sum(f, S) \in Nat /\ Sum(g, T) \in Nat
          /\ Sum(g, T) = Sum(f, S) - (IF x \in S THEN f[x] ELSE 0)
                                   + (IF x \in T THEN g[x] ELSE 0)
<1>1. IsFiniteSet(S) /\ IsFiniteSet(T) /\ IsFiniteSet(S \ {x}) /\ S \ {x} = T \ {x}
  BY FS_Subset
<1>2. Sum(f, S) \in Nat /\ Sum(g, T) \in Nat /\ f[x] \in Nat /\ g[x] \in Nat
  <2>1. (\A y \in S : f[y] \in Nat) /\ (\A y \in T : g[y] \in Nat)
    OBVIOUS
  <2> QED BY <1>1, <2>1, SumNat
<1>3. Sum(f, S \ {x}) = Sum(g, T \ {x})
  <2>1. \A y \in S \ {x} : f[y] \in Nat /\ f[y] = g[y]
    OBVIOUS
  <2> QED BY <1>1, <2>1, SumSame
<1>4. Sum(f, S \ {x}) = Sum(f, S) - (IF x \in S THEN f[x] ELSE 0)
  <2>1. CASE x \in S
    <3>1. \A y \in S : f[y] \in Int
      OBVIOUS
    <3> QED BY <1>1, <2>1, <3>1, SumDrop
  <2>2. CASE x \notin S
    <3>1. S \ {x} = S
      BY <2>2
    <3>2. Sum(f, S \ {x}) = Sum(f, S)
      BY <3>1
    <3> QED BY <1>2, <2>2, <3>2
  <2> QED BY <2>1, <2>2
<1>5. Sum(g, T \ {x}) = Sum(g, T) - (IF x \in T THEN g[x] ELSE 0)
  <2>1. CASE x \in T
    <3>1. \A y \in T : g[y] \in Int
      OBVIOUS
    <3> QED BY <1>1, <2>1, <3>1, SumDrop
  <2>2. CASE x \notin T
    <3>1. T \ {x} = T
      BY <2>2
    <3>2. Sum(g, T \ {x}) = Sum(g, T)
      BY <3>1
    <3> QED BY <1>2, <2>2, <3>2
  <2> QED BY <2>1, <2>2
<1> QED BY <1>2, <1>3, <1>4, <1>5
(***************************************************************************)
(* Prices.                                                                 *)
(***************************************************************************)
(***************************************************************************)
(* A larger quantity at the same rate costs at least as much before        *)
(* rounding (the products inside ReserveCost and ActualCost).              *)
(***************************************************************************)
LEMMA ProductMonotone ==
    ASSUME NEW x \in Nat, NEW y \in Nat, NEW k \in Nat, x <= y
    PROVE  x * k \in Nat /\ x * k <= y * k
<1>1. PICK d \in Nat : y = x + d
  <2>1. y - x \in Nat /\ y = x + (y - x)
    OBVIOUS
  <2> QED
    BY <2>1
<1>2. y * k = x * k + d * k
  BY <1>1, SMT
<1>3. d * k \in Nat /\ x * k \in Nat
  BY SMT
<1> QED
  BY <1>2, <1>3

(***************************************************************************)
(* ceilDiv of an amount in range is not wrapped, is a natural number no    *)
(* larger than the amount, and preserves the order.                        *)
(***************************************************************************)
LEMMA CeilDivMonotone ==
    ASSUME NEW a \in Nat, NEW b \in Nat, a <= b, Fits(b)
    PROVE  /\ ceilDiv(a, 1000) \in Nat
           /\ ceilDiv(b, 1000) \in Nat
           /\ ceilDiv(b, 1000) <= b
           /\ ceilDiv(a, 1000) <= ceilDiv(b, 1000)
<1>1. Wrap(a + 1000 - 1) = a + 999 /\ Wrap(b + 1000 - 1) = b + 999
  BY MaxIntAssumption DEF Fits, Wrap, InRange
<1>2. /\ (a + 999) \div 1000 \in Nat
      /\ (b + 999) \div 1000 \in Nat
      /\ (a + 999) \div 1000 <= (b + 999) \div 1000
  OBVIOUS
<1>3. b > 0 => (b + 999) \div 1000 <= b
  OBVIOUS
<1> QED
  BY <1>1, <1>2, <1>3 DEF ceilDiv

(***************************************************************************)
(* ReserveCost covers ActualCost: for a rate priceBookFromConfig accepts,  *)
(* any prompt within the estimate and any completion within the bound that *)
(* max_tokens and the model's ceiling give, the bill TrueUp is called with *)
(* is at most the hold, so the clamp of the ledger never bites.            *)
(***************************************************************************)
THEOREM ReserveCoversActual ==
    ASSUME NEW rate \in [input : Int, output : Int, maxOutput : Int], Billable(rate),
           NEW prompt \in Nat, NEW requestedMax \in Int,
           NEW input \in Nat, NEW output \in Nat,
           input <= prompt, output <= CompletionUpper(rate, requestedMax),
           Fits(prompt * rate.input), Fits(rate.maxOutput * rate.output)
    PROVE  ActualCost(rate, input, output) <= ReserveCost(rate, prompt, requestedMax)
<1> DEFINE upper == CompletionUpper(rate, requestedMax)
<1>1. rate.input \in Nat /\ rate.output \in Nat /\ rate.maxOutput \in Nat
  BY DEF Billable
<1>2. upper \in Nat /\ upper <= rate.maxOutput
  BY <1>1 DEF CompletionUpper
<1>3. input * rate.input \in Nat /\ input * rate.input <= prompt * rate.input
  BY <1>1, ProductMonotone
<1>4. output * rate.output \in Nat /\ output * rate.output <= upper * rate.output
  <2> HIDE DEF upper
  <2> QED
    BY <1>1, <1>2, ProductMonotone DEF upper
<1>5. upper * rate.output \in Nat /\ upper * rate.output <= rate.maxOutput * rate.output
  <2> HIDE DEF upper
  <2> QED
    BY <1>1, <1>2, ProductMonotone
<1>6. Fits(upper * rate.output)
  <2> HIDE DEF upper
  <2> QED
    BY <1>5, MaxIntAssumption DEF Fits
<1> DEFINE pIn == input * rate.input
           pMax == prompt * rate.input
           cOut == output * rate.output
           cMax == upper * rate.output
<1>7. /\ pIn \in Nat /\ pMax \in Nat /\ cOut \in Nat /\ cMax \in Nat
      /\ pIn <= pMax /\ cOut <= cMax /\ Fits(pMax) /\ Fits(cMax)
  BY <1>3, <1>4, <1>5, <1>6 DEF Fits
<1>8. /\ NonNegative(input) = input /\ NonNegative(prompt) = prompt
      /\ NonNegative(output) = output
  BY DEF NonNegative
<1>9. /\ ActualCost(rate, input, output)
           = Wrap(ceilDiv(Wrap(pIn), 1000) + ceilDiv(Wrap(cOut), 1000))
      /\ ReserveCost(rate, prompt, requestedMax)
           = Wrap(ceilDiv(Wrap(pMax), 1000) + ceilDiv(Wrap(cMax), 1000))
  BY <1>8 DEF ActualCost, ReserveCost
<1> HIDE DEF pIn, pMax, cOut, cMax
<1>10. Wrap(pIn) = pIn /\ Wrap(pMax) = pMax /\ Wrap(cOut) = cOut /\ Wrap(cMax) = cMax
  BY <1>7, MaxIntAssumption DEF Fits, Wrap, InRange
<1>11. /\ ceilDiv(pIn, 1000) \in Nat /\ ceilDiv(pMax, 1000) \in Nat
       /\ ceilDiv(pIn, 1000) <= ceilDiv(pMax, 1000) /\ ceilDiv(pMax, 1000) <= pMax
  BY <1>7, CeilDivMonotone
<1>12. /\ ceilDiv(cOut, 1000) \in Nat /\ ceilDiv(cMax, 1000) \in Nat
       /\ ceilDiv(cOut, 1000) <= ceilDiv(cMax, 1000) /\ ceilDiv(cMax, 1000) <= cMax
  BY <1>7, CeilDivMonotone
<1>13. /\ Wrap(ceilDiv(pIn, 1000) + ceilDiv(cOut, 1000)) = ceilDiv(pIn, 1000) + ceilDiv(cOut, 1000)
       /\ Wrap(ceilDiv(pMax, 1000) + ceilDiv(cMax, 1000)) = ceilDiv(pMax, 1000) + ceilDiv(cMax, 1000)
  BY <1>7, <1>11, <1>12, MaxIntAssumption DEF Fits, Wrap, InRange
<1> QED
  BY <1>9, <1>10, <1>11, <1>12, <1>13


(***************************************************************************)
(* The invariants.                                                         *)
(***************************************************************************)
Open == {"held", "failed", "metered", "unmeasured", "panicked", "stranded"}
Early == {"new", "denied", "unmetered", "held", "failed"}
Settled == {"billed", "released", "stranded"}
NeverTruedUp == {"released", "metered", "unmeasured", "panicked", "stranded"}

Rows == [pc : PCs, price : Prices \cup {<<>>}, hold : Nat, bill : Int, seq : Nat]

\* Requests, without the hypothesis: a hold is what its price gave.
Shape ==
    /\ req \in [Requests -> Rows]
    /\ log \in Seq(Int)
    /\ \A r \in Requests : req[r].pc = "held" =>
          /\ req[r].price \in Prices /\ Billable(req[r].price.rate)
          /\ req[r].hold = NonNegative(ReserveCost(req[r].price.rate, req[r].price.prompt,
                                                   req[r].price.max))

HoldInv == Shape /\ ReservedIsHeld

\* A bill is at most the hold until the hold is released, and none is logged early.
BillsBounded ==
    \A r \in Requests :
        /\ req[r].bill \in Nat
        /\ req[r].pc # "released" => req[r].bill <= req[r].hold
        /\ req[r].pc \in Early => req[r].bill = 0 /\ req[r].seq = 0

\* Every entry of the log is the bill of one request, which is settled once the tailer
\* has passed it.
LogOwned ==
    /\ log \in Seq(Nat)
    /\ \A r \in Requests : /\ req[r].seq <= Len(log)
                           /\ req[r].seq > 0 => log[req[r].seq] = req[r].bill
                           /\ req[r].seq \in 1 .. confirmedHigh \cup 1 .. cursor =>
                                 req[r].pc \in Settled
    /\ \A r, q \in Requests : req[r].seq > 0 /\ req[r].seq = req[q].seq => r = q
    /\ \A i \in 1 .. Len(log) : \E r \in Requests : req[r].seq = i

\* The tailer confirms in order; what it passed over costs nothing.
ConfirmedInOrder ==
    /\ confirmedHigh \in 0 .. Len(log) /\ cursor \in 0 .. Len(log)
    /\ \A i \in 1 .. cursor : i <= confirmedHigh \/ log[i] = 0

\* What is confirmed and not yet aged out.
ConfirmedIsLogged ==
    /\ ackWatermark \in 0 .. Len(log)
    /\ DOMAIN confirmed = {i \in ackWatermark + 1 .. confirmedHigh : log[i] > 0}
    /\ \A i \in DOMAIN confirmed : confirmed[i] = log[i]
    /\ confirmedSum = Sum(log, ackWatermark + 1 .. confirmedHigh)

\* Snapshots and the account agree on a prefix of the log, newer ones on a longer one.
SnapshotsOrdered ==
    /\ home \in [grants : 1 .. Len(Grants), ack : 0 .. Len(log), ver : 0 .. MaxVer]
    /\ \A s \in pushed :
          /\ s \in [ver : 1 .. home.ver, balance : Int, watermark : 0 .. home.ack]
          /\ s.balance + Sum(log, 1 .. s.watermark) <= Granted
          /\ s.ver > lastVer => ackWatermark <= s.watermark
          /\ s.ver = lastVer => s.balance = allowance /\ s.watermark = ackWatermark
    /\ \A s, t \in pushed : /\ s.ver < t.ver => s.watermark <= t.watermark
                            /\ s.ver = t.ver => s = t
    /\ lastVer = allowanceVer /\ lastVer \in 0 .. home.ver
    /\ ackWatermark <= home.ack
    /\ allowance \in Nat /\ allowance + Sum(log, 1 .. ackWatermark) <= Granted

\* Debits beyond confirmedHigh are pending, or bills that were never trued up.
PendingCovers ==
    /\ pending \in Nat
    /\ Sum(log, confirmedHigh + 1 .. Len(log)) <= pending + Unbilled(NeverTruedUp)

\* pending is what was billed and not confirmed, less what confirmations of bills that
\* were never trued up took out of it.
Owed == Sum(bills, {r \in In({"billed"}) : req[r].seq \notin 1 .. confirmedHigh})
TakenOut == Sum(bills, {r \in In({"released", "stranded"}) : req[r].seq \in 1 .. confirmedHigh})
PendingIsOwed == pending <= Owed /\ Owed <= pending + TakenOut

Ledger ==
    /\ BillsBounded /\ LogOwned /\ ConfirmedInOrder /\ ConfirmedIsLogged
    /\ SnapshotsOrdered /\ PendingCovers /\ PendingIsOwed /\ NoOverspend

IInv == HoldInv /\ Ledger

(***************************************************************************)
(* Requests: their types, and that every hold is given back once.          *)
(***************************************************************************)
LEMMA WrapInt == ASSUME NEW x \in Int PROVE Wrap(x) \in Int
<1> DEFINE m == 2 * (MaxInt + 1)
<1>1. m \in Int /\ m > 0 /\ MaxInt \in Int /\ x + MaxInt + 1 \in Int
  BY MaxIntAssumption
<1> HIDE DEF m
<1>2. (x + MaxInt + 1) % m \in Int
  BY <1>1
<1> QED BY <1>1, <1>2 DEF Wrap, m

LEMMA CeilDivInt == ASSUME NEW a \in Int PROVE ceilDiv(a, 1000) \in Int
<1>1. Wrap(a + 1000 - 1) \in Int
  BY WrapInt
<1> QED BY <1>1 DEF ceilDiv

LEMMA CostInt ==
    ASSUME NEW rate \in [input : Int, output : Int, maxOutput : Int],
           NEW p \in Int, NEW c \in Int
    PROVE ReserveCost(rate, p, c) \in Int /\ ActualCost(rate, p, c) \in Int
<1>1. \A x, y \in Int : x * y \in Int
  OBVIOUS
<1>2. NonNegative(p) \in Int /\ NonNegative(c) \in Int /\ CompletionUpper(rate, c) \in Int
  BY DEF NonNegative, CompletionUpper
<1>3. \A x, y \in Int : Wrap(ceilDiv(Wrap(x), 1000) + ceilDiv(Wrap(y), 1000)) \in Int
  <2> SUFFICES ASSUME NEW x \in Int, NEW y \in Int
               PROVE Wrap(ceilDiv(Wrap(x), 1000) + ceilDiv(Wrap(y), 1000)) \in Int
    OBVIOUS
  <2>1. ceilDiv(Wrap(x), 1000) \in Int /\ ceilDiv(Wrap(y), 1000) \in Int
    BY WrapInt, CeilDivInt
  <2>2. ceilDiv(Wrap(x), 1000) + ceilDiv(Wrap(y), 1000) \in Int
    BY <2>1
  <2> QED BY <2>2, WrapInt
<1>4. /\ NonNegative(p) * rate.input \in Int /\ NonNegative(c) * rate.output \in Int
      /\ CompletionUpper(rate, c) * rate.output \in Int
  BY <1>1, <1>2
<1> QED BY <1>3, <1>4 DEF ReserveCost, ActualCost

\* Only the request r changes.
OnlyMoves(r) == \A q \in Requests \ {r} : req'[q] = req[q]

LEMMA HoldsMove ==
    ASSUME Shape, Shape', NEW r \in Requests, OnlyMoves(r), NEW A
    PROVE /\ HoldsOf(A) \in Nat /\ HoldsOf(A)' \in Nat
          /\ HoldsOf(A)' = HoldsOf(A) - (IF req[r].pc \in A THEN req[r].hold ELSE 0)
                                      + (IF req'[r].pc \in A THEN req'[r].hold ELSE 0)
<1> DEFINE f == holds
           g == holds'
           S == In(A)
           T == In(A)'
<1>1. /\ \A y \in Requests : f[y] = req[y].hold /\ f[y] \in Nat
      /\ \A y \in Requests : g[y] = req'[y].hold /\ g[y] \in Nat
  BY DEF holds, Shape, Rows
<1>2. /\ \A y \in Requests : y \in S <=> req[y].pc \in A
      /\ \A y \in Requests : y \in T <=> req'[y].pc \in A
      /\ S \subseteq Requests /\ T \subseteq Requests
  BY DEF In
<1>3. \A y \in Requests \ {r} : f[y] = g[y] /\ (y \in S <=> y \in T)
  BY <1>1, <1>2 DEF OnlyMoves
<1>4. HoldsOf(A) = Sum(f, S) /\ HoldsOf(A)' = Sum(g, T)
  BY DEF HoldsOf, Sum
<1> HIDE DEF f, g, S, T
<1>5. /\ Sum(f, S) \in Nat /\ Sum(g, T) \in Nat
      /\ Sum(g, T) = Sum(f, S) - (IF r \in S THEN f[r] ELSE 0) + (IF r \in T THEN g[r] ELSE 0)
  <2>1. \A y \in Requests : f[y] \in Nat /\ g[y] \in Nat
    BY <1>1
  <2>2. S \subseteq Requests /\ T \subseteq Requests
    BY <1>2
  <2>3. IsFiniteSet(Requests)
    BY CreditGateAssumption
  <2> QED BY <1>3, <2>1, <2>2, <2>3, SumMove
<1> QED BY <1>1, <1>2, <1>4, <1>5

\* Actions that leave the requests and the holds alone.
Elsewhere == ConfirmNext \/ Rewind \/ TopUp \/ Ingest \/ Push \/ Apply

LEMMA ElsewhereUnchanged == Elsewhere => UNCHANGED <<req, log, reserved>>
BY DEF Elsewhere, ConfirmNext, Rewind, TopUp, Ingest, Push, Apply, accountVars

\* The steps of a request.
LEMMA EmitDebitEffect ==
    ASSUME Shape, NEW r \in Requests, NEW bill \in Int, NEW pc \in PCs \ {"held"},
           EmitDebit(r, bill, pc)
    PROVE /\ OnlyMoves(r) /\ req'[r].pc = pc /\ req'[r].hold = req[r].hold
          /\ req'[r].bill = bill /\ Shape'
          /\ \/ log' = Append(log, bill) /\ req'[r].seq = Len(log) + 1
             \/ log' = log /\ req'[r].seq = req[r].seq
<1>0. Len(log) \in Nat
  BY LenProperties DEF Shape
<1>1. CASE log' = Append(log, bill)
           /\ req' = [req EXCEPT ![r].pc = pc, ![r].bill = bill, ![r].seq = Len(log) + 1]
  <2>1. /\ OnlyMoves(r) /\ req'[r].pc = pc /\ req'[r].hold = req[r].hold
        /\ req'[r].bill = bill /\ req'[r].seq = Len(log) + 1
    BY <1>1 DEF OnlyMoves, Shape, Rows
  <2>2. req' \in [Requests -> Rows]
    <3> DEFINE row == [req[r] EXCEPT !.pc = pc, !.bill = bill, !.seq = Len(log) + 1]
    <3>1. row \in Rows
      <4>1. req[r] \in Rows /\ pc \in PCs /\ Len(log) + 1 \in Nat
        BY <1>0 DEF Shape
      <4> QED BY <4>1 DEF Rows
    <3>2. req' = [req EXCEPT ![r] = row]
      BY <1>1
    <3> HIDE DEF row
    <3> QED BY <3>1, <3>2 DEF Shape
  <2>3. log' \in Seq(Int)
    BY <1>1, AppendProperties DEF Shape
  <2>4. Shape'
    BY <2>1, <2>2, <2>3 DEF Shape, OnlyMoves
  <2> QED BY <1>1, <2>1, <2>4
<1>2. CASE log' = log /\ req' = [req EXCEPT ![r].pc = pc, ![r].bill = bill]
  <2>1. /\ OnlyMoves(r) /\ req'[r].pc = pc /\ req'[r].hold = req[r].hold
        /\ req'[r].bill = bill /\ req'[r].seq = req[r].seq
    BY <1>2 DEF OnlyMoves, Shape, Rows
  <2>2. req' \in [Requests -> Rows]
    <3> DEFINE row == [req[r] EXCEPT !.pc = pc, !.bill = bill]
    <3>1. row \in Rows
      BY DEF Shape, Rows
    <3>2. req' = [req EXCEPT ![r] = row]
      BY <1>2
    <3> HIDE DEF row
    <3> QED BY <3>1, <3>2 DEF Shape
  <2>4. Shape'
    BY <1>2, <2>1, <2>2 DEF Shape, OnlyMoves
  <2> QED BY <1>2, <2>1, <2>4
<1> QED BY <1>1, <1>2 DEF EmitDebit

\* A step that changes only where a request is.
LEMMA GotoEffect ==
    ASSUME Shape, NEW r \in Requests, NEW pc \in PCs \ {"held"},
           req' = [req EXCEPT ![r].pc = pc], log' = log
    PROVE /\ OnlyMoves(r) /\ Shape' /\ req'[r].pc = pc /\ req'[r].hold = req[r].hold
          /\ req'[r].bill = req[r].bill /\ req'[r].seq = req[r].seq
<1>1. /\ OnlyMoves(r) /\ req'[r].pc = pc /\ req'[r].hold = req[r].hold
      /\ req'[r].bill = req[r].bill /\ req'[r].seq = req[r].seq
  BY DEF OnlyMoves, Shape, Rows
<1>2. req' \in [Requests -> Rows]
  BY DEF Shape, Rows
<1> QED BY <1>1, <1>2 DEF Shape, OnlyMoves

LEMMA AdmitEffect ==
    ASSUME Shape, NEW r \in Requests, Admit(r)
    PROVE /\ OnlyMoves(r) /\ Shape' /\ log' = log /\ req[r].pc = "new"
          /\ req'[r].bill = req[r].bill /\ req'[r].seq = req[r].seq
          /\ \/ req'[r].pc = "denied" /\ req'[r].hold = req[r].hold /\ reserved' = reserved
             \/ /\ req'[r].pc = "held" /\ reserved' = reserved + req'[r].hold
                /\ ~(available < req'[r].hold)
<1>0. log' = log /\ req[r].pc = "new"
  BY DEF Admit
<1>1. CASE req' = [req EXCEPT ![r].pc = "denied"] /\ reserved' = reserved
  BY <1>0, <1>1, GotoEffect DEF PCs
<1>2. ASSUME NEW rate \in Rates, NEW p \in PromptBounds, NEW m \in RequestedMaxes,
             Billable(rate),
             Reserve(r, [rate |-> rate, prompt |-> p, max |-> m], ReserveCost(rate, p, m)),
             ~(req' = [req EXCEPT ![r].pc = "denied"] /\ reserved' = reserved)
      PROVE /\ OnlyMoves(r) /\ Shape' /\ req'[r].bill = req[r].bill /\ req'[r].seq = req[r].seq
            /\ req'[r].pc = "held" /\ reserved' = reserved + req'[r].hold
            /\ ~(available < req'[r].hold)
  <2> DEFINE cost == ReserveCost(rate, p, m)
             price == [rate |-> rate, prompt |-> p, max |-> m]
  <2>1. cost \in Int
    BY CostInt, CreditGateAssumption
  <2>2. price \in Prices /\ price.rate = rate /\ price.prompt = p /\ price.max = m
    BY DEF Prices
  <2>3. ~(available < NonNegative(cost)) /\ PlaceHold(r, price, cost)
    BY <1>2 DEF Reserve
  <2> HIDE DEF cost, price
  <2>4. NonNegative(cost) \in Nat
    BY <2>1 DEF NonNegative
  <2>5. /\ OnlyMoves(r) /\ req'[r].pc = "held" /\ req'[r].price = price
        /\ req'[r].hold = NonNegative(cost) /\ reserved' = reserved + NonNegative(cost)
        /\ req'[r].bill = req[r].bill /\ req'[r].seq = req[r].seq
    BY <2>3 DEF PlaceHold, OnlyMoves, Shape, Rows
  <2>6. req' \in [Requests -> Rows]
    <3> DEFINE row == [req[r] EXCEPT !.pc = "held", !.price = price, !.hold = NonNegative(cost)]
    <3>1. row \in Rows
      BY <2>2, <2>4 DEF Shape, Rows, PCs
    <3>2. req' = [req EXCEPT ![r] = row]
      BY <2>3 DEF PlaceHold
    <3> HIDE DEF row
    <3> QED BY <3>1, <3>2 DEF Shape
  <2>7. Shape'
    BY <1>0, <1>2, <2>2, <2>5, <2>6 DEF Shape, OnlyMoves, cost
  <2> QED BY <2>3, <2>5, <2>7
<1> QED BY <1>0, <1>1, <1>2 DEF Admit, Reserve

\* What a bill is: never more than the hold, when there is one.
LEMMA ClampBounds ==
    ASSUME NEW a \in Int, NEW h \in Nat
    PROVE Clamp(a, h) \in Nat /\ Clamp(a, h) <= h
BY DEF Clamp, NonNegative

LEMMA MeteredEffect ==
    ASSUME Shape, NEW r \in Requests, ServeMetered(r)
    PROVE \E bill \in 0 .. req[r].hold : EmitDebit(r, bill, "metered")
<1>1. PICK u \in Usages :
         EmitDebit(r, Clamp(ActualCost(req[r].price.rate, u.input, u.output), req[r].hold), "metered")
  BY DEF ServeMetered
<1>2. req[r].price.rate \in Rates /\ req[r].hold \in Nat
  BY DEF ServeMetered, Shape, Prices, Rows
<1>3. u.input \in Int /\ u.output \in Int
  BY CreditGateAssumption DEF Usages
<1>4. ActualCost(req[r].price.rate, u.input, u.output) \in Int
  BY <1>2, <1>3, CostInt, CreditGateAssumption
<1> QED BY <1>1, <1>2, <1>4, ClampBounds

LEMMA UnmeteredEffect ==
    ASSUME Shape, NEW r \in Requests, ServeUnmetered(r)
    PROVE \E bill \in Int : EmitDebit(r, bill, "released") /\ (PricesFit => bill \in Nat)
<1>1. PICK rate \in Rates, input \in Tokens, output \in Tokens :
         Billable(rate) /\ EmitDebit(r, ActualCost(rate, input, output), "released")
  BY DEF ServeUnmetered
<1> DEFINE bill == ActualCost(rate, input, output)
<1>2. rate \in [input : Int, output : Int, maxOutput : Int] /\ input \in Nat /\ output \in Nat
  BY CreditGateAssumption
<1>3. bill \in Int
  BY <1>2, CostInt
<1>4. ASSUME PricesFit PROVE bill \in Nat
  <2> DEFINE a == input * rate.input
             b == output * rate.output
  <2>1. Fits(a) /\ Fits(b)
    BY <1>1, <1>4 DEF PricesFit
  <2>2. bill = Wrap(ceilDiv(Wrap(a), 1000) + ceilDiv(Wrap(b), 1000))
    BY <1>2 DEF ActualCost, NonNegative
  <2> HIDE DEF a, b, bill
  <2>3. a \in Nat /\ b \in Nat /\ Wrap(a) = a /\ Wrap(b) = b
    BY <2>1, MaxIntAssumption DEF Fits, Wrap, InRange
  <2>4. /\ ceilDiv(a, 1000) \in Nat /\ ceilDiv(a, 1000) <= a
        /\ ceilDiv(b, 1000) \in Nat /\ ceilDiv(b, 1000) <= b
    BY <2>1, <2>3, CeilDivMonotone
  <2>5. Wrap(ceilDiv(a, 1000) + ceilDiv(b, 1000)) = ceilDiv(a, 1000) + ceilDiv(b, 1000)
    BY <2>1, <2>3, <2>4, MaxIntAssumption DEF Fits, Wrap, InRange
  <2> QED BY <2>2, <2>3, <2>4, <2>5
<1> QED BY <1>1, <1>3, <1>4

\* A step moves at most one request, and reserved by what its hold changes.
LEMMA HoldInvStep == HoldInv /\ [Next]_vars => HoldInv'
<1> SUFFICES ASSUME Shape, ReservedIsHeld, [Next]_vars PROVE Shape' /\ ReservedIsHeld'
  BY DEF HoldInv
<1> USE DEF PCs
<1>0. reserved = HoldsOf(Open)
  BY DEF ReservedIsHeld, Open
<1>1. ASSUME Shape', NEW r \in Requests, OnlyMoves(r),
             reserved' = reserved - (IF req[r].pc \in Open THEN req[r].hold ELSE 0)
                                  + (IF req'[r].pc \in Open THEN req'[r].hold ELSE 0)
      PROVE ReservedIsHeld'
  <2>1. reserved' = HoldsOf(Open)'
    BY <1>0, <1>1, HoldsMove
  <2> QED BY <2>1 DEF ReservedIsHeld, Open
<1>2. ASSUME Shape', NEW r \in Requests, OnlyMoves(r), reserved' = reserved,
             req'[r].hold = req[r].hold, req[r].pc \in Open <=> req'[r].pc \in Open
      PROVE ReservedIsHeld'
  <2>1. req[r].hold \in Nat /\ reserved \in Nat
    BY <1>0, <1>2, HoldsMove DEF Shape, Rows
  <2> QED BY <1>1, <1>2, <2>1
<1>3. ASSUME NEW r \in Requests, Admit(r) PROVE Shape' /\ ReservedIsHeld'
  <2>1. OnlyMoves(r) /\ Shape' /\ req[r].pc = "new" /\ req[r].pc \notin Open
    BY <1>3, AdmitEffect DEF Open
  <2>2. CASE req'[r].pc = "denied" /\ req'[r].hold = req[r].hold /\ reserved' = reserved
    BY <2>1, <2>2, <1>2 DEF Open
  <2>3. CASE req'[r].pc = "held" /\ reserved' = reserved + req'[r].hold
    <3>1. reserved \in Nat
      BY <2>1, <1>0, HoldsMove
    <3> QED BY <2>1, <2>3, <3>1, <1>1 DEF Open
  <2> QED BY <1>3, <2>1, <2>2, <2>3, AdmitEffect
<1>4. ASSUME NEW r \in Requests, AdmitFault(r) PROVE Shape' /\ ReservedIsHeld'
  <2>1. PICK pc \in {"unmetered", "denied"} : req' = [req EXCEPT ![r].pc = pc]
    BY <1>4 DEF AdmitFault
  <2>2. req[r].pc = "new" /\ log' = log /\ reserved' = reserved
    BY <1>4 DEF AdmitFault, accountVars
  <2> QED BY <2>1, <2>2, GotoEffect, <1>2 DEF Open
<1>5. ASSUME NEW r \in Requests, ServeFails(r) PROVE Shape' /\ ReservedIsHeld'
  BY <1>5, GotoEffect, <1>2 DEF ServeFails, Open, accountVars
<1>6. ASSUME NEW r \in Requests, ServeMetered(r) PROVE Shape' /\ ReservedIsHeld'
  <2>1. PICK bill \in 0 .. req[r].hold : EmitDebit(r, bill, "metered")
    BY <1>6, MeteredEffect
  <2>2. bill \in Int
    OBVIOUS
  <2>3. req[r].pc = "held" /\ reserved' = reserved
    BY <1>6 DEF ServeMetered, accountVars
  <2> QED BY <2>1, <2>2, <2>3, EmitDebitEffect, <1>2 DEF Open
<1>7. ASSUME NEW r \in Requests, ServeUnmeasured(r) PROVE Shape' /\ ReservedIsHeld'
  <2>1. EmitDebit(r, req[r].hold, "unmeasured") /\ req[r].hold \in Int
    BY <1>7 DEF ServeUnmeasured, Shape, Rows
  <2>2. req[r].pc = "held" /\ reserved' = reserved
    BY <1>7 DEF ServeUnmeasured, accountVars
  <2> QED BY <2>1, <2>2, EmitDebitEffect, <1>2 DEF Open
<1>8. ASSUME NEW r \in Requests, ServeUnmetered(r) PROVE Shape' /\ ReservedIsHeld'
  <2>1. PICK bill \in Int : EmitDebit(r, bill, "released")
    BY <1>8, UnmeteredEffect
  <2>2. req[r].pc = "unmetered" /\ reserved' = reserved
    BY <1>8 DEF ServeUnmetered, accountVars
  <2> QED BY <2>1, <2>2, EmitDebitEffect, <1>2 DEF Open
<1>9. ASSUME NEW r \in Requests, TrueUp(r) \/ Release(r) PROVE Shape' /\ ReservedIsHeld'
  <2>1. PICK pc \in {"billed", "released"} : req' = [req EXCEPT ![r].pc = pc]
    BY <1>9 DEF TrueUp, Release
  <2>2. /\ req[r].pc \in Open /\ log' = log /\ reserved' = reserved - req[r].hold
    BY <1>9 DEF TrueUp, Release, Open
  <2>3. OnlyMoves(r) /\ Shape' /\ req'[r].pc \notin Open
    BY <2>1, <2>2, GotoEffect DEF Open
  <2>4. reserved \in Nat /\ req[r].hold \in Nat
    BY <2>3, <1>0, HoldsMove DEF Shape, Rows
  <2> QED BY <2>2, <2>3, <2>4, <1>1
<1>10. ASSUME NEW r \in Requests, ResolveFault(r) PROVE Shape' /\ ReservedIsHeld'
  BY <1>10, GotoEffect, <1>2 DEF ResolveFault, Open, accountVars
<1>11. ASSUME NEW r \in Requests, ReleaseFault(r) PROVE Shape' /\ ReservedIsHeld'
  BY <1>11, GotoEffect, <1>2 DEF ReleaseFault, Open, accountVars
<1>12. CASE UNCHANGED <<req, log, reserved>>
  <2>1. holds' = holds /\ In(Open)' = In(Open)
    BY <1>12 DEF holds, In
  <2>2. HoldsOf(Open)' = HoldsOf(Open)
    BY <2>1 DEF HoldsOf
  <2> QED BY <1>0, <1>12, <2>2 DEF Shape, ReservedIsHeld, Open
<1>13. Elsewhere \/ UNCHANGED vars => UNCHANGED <<req, log, reserved>>
  BY ElsewhereUnchanged DEF vars, accountVars
<1> QED
  BY <1>3, <1>4, <1>5, <1>6, <1>7, <1>8, <1>9, <1>10, <1>11, <1>12, <1>13
     DEF Next, RequestStep, Elsewhere

LEMMA HoldInvInit == Init => HoldInv
<1> SUFFICES ASSUME Init PROVE HoldInv
  OBVIOUS
<1>1. NewRequest \in Rows /\ NewRequest.pc = "new"
  BY DEF NewRequest, Rows, PCs
<1>2. req = [r \in Requests |-> NewRequest] /\ log = <<>> /\ reserved = 0
  BY DEF Init
<1>3. Shape
  BY <1>1, <1>2, EmptySeq DEF Shape
<1>4. In(Open) = {}
  BY <1>1, <1>2 DEF In, Open
<1>5. HoldsOf(Open) = 0
  BY <1>4, SumEmpty DEF HoldsOf, Sum
<1> QED BY <1>2, <1>3, <1>5 DEF HoldInv, ReservedIsHeld, Open

\* The requests keep their shape and reserved the sum of the open holds, whatever the
\* ledger and HOME do.
THEOREM HoldInvariance == Spec => []HoldInv
BY HoldInvInit, HoldInvStep, PTL DEF Spec

\* credit_ledger.go: reserved is the sum of the holds still open, so TrueUp, Release and
\* the recovered panics of guardedResolve give every hold back exactly once.
THEOREM HoldsGivenBackOnce == Spec => []ReservedIsHeld
<1>1. HoldInv => ReservedIsHeld
  BY DEF HoldInv
<1> QED BY <1>1, HoldInvariance, PTL

\* ReserveCost and TrueUp: while no product of a rate and a token count overflows, the
\* hold of a request covers the bill of every completion within the bounds it was
\* priced at.
THEOREM HoldsCoverBills == ASSUME PricesFit PROVE Spec => []HoldCoversBill
<1>1. HoldInv => HoldCoversBill
  <2> SUFFICES ASSUME HoldInv, NEW r \in Requests, req[r].pc = "held",
                      NEW input \in 0 .. req[r].price.prompt,
                      NEW output \in 0 .. CompletionUpper(req[r].price.rate, req[r].price.max)
               PROVE ActualCost(req[r].price.rate, input, output) <= req[r].hold
    BY DEF HoldCoversBill
  <2> DEFINE price == req[r].price
             rate == price.rate
             cost == ReserveCost(rate, price.prompt, price.max)
  <2>1. price \in Prices /\ Billable(rate) /\ req[r].hold = NonNegative(cost)
    BY DEF HoldInv, Shape
  <2>2. /\ rate \in Rates /\ rate \in [input : Int, output : Int, maxOutput : Int]
        /\ price.prompt \in PromptBounds /\ price.prompt \in Nat /\ price.max \in Int
    BY <2>1, CreditGateAssumption DEF Prices
  <2>3. Fits(rate.maxOutput * rate.output) /\ Fits(price.prompt * rate.input)
    BY <2>1, <2>2 DEF PricesFit
  <2>4. CompletionUpper(rate, price.max) \in Int
    BY <2>2 DEF CompletionUpper
  <2> HIDE DEF rate, price, cost
  <2>5. /\ input \in Nat /\ input <= price.prompt
        /\ output \in Nat /\ output <= CompletionUpper(rate, price.max)
    BY <2>2, <2>4 DEF rate, price
  <2>6. ActualCost(rate, input, output) <= cost
    BY <2>1, <2>2, <2>3, <2>5, ReserveCoversActual DEF cost
  <2>7. cost \in Int /\ ActualCost(rate, input, output) \in Int
    <3>1. price.prompt \in Int /\ input \in Int /\ output \in Int
      BY <2>2, <2>5
    <3> QED BY <2>2, <3>1, CostInt DEF cost
  <2> QED BY <2>1, <2>6, <2>7 DEF NonNegative, rate, price
<1> QED BY <1>1, HoldInvariance, PTL

(***************************************************************************)
(* The kinds of steps a request takes, given that prices fit.              *)
(***************************************************************************)
ledgerVars == <<allowance, allowanceVer, ackWatermark, confirmed, confirmedSum,
                confirmedHigh, lastVer, cursor, home, pushed>>

\* Only its place changes, along one of these edges.
Stays(r) ==
    /\ log' = log /\ pending' = pending
    /\ req'[r].hold = req[r].hold /\ req'[r].bill = req[r].bill /\ req'[r].seq = req[r].seq
    /\ \/ req[r].pc = "new" /\ req'[r].pc \in {"denied", "unmetered"}
       \/ req[r].pc = "held" /\ req'[r].pc = "failed"
       \/ req[r].pc \in {"failed", "metered", "unmeasured"} /\ req'[r].pc = "panicked"
       \/ req[r].pc \in {"failed", "panicked"} /\ req'[r].pc = "released"
       \/ req[r].pc = "panicked" /\ req'[r].pc = "stranded"

\* It is admitted.
Places(r) ==
    /\ log' = log /\ pending' = pending
    /\ req'[r].bill = req[r].bill /\ req'[r].seq = req[r].seq
    /\ req[r].pc = "new" /\ req'[r].pc = "held" /\ ~(available < req'[r].hold)

\* It emits its debit, which is logged or dropped.
Emits(r) ==
    /\ pending' = pending /\ req'[r].hold = req[r].hold /\ req'[r].bill \in Nat
    /\ \/ /\ req[r].pc = "held" /\ req'[r].pc \in {"metered", "unmeasured"}
          /\ req'[r].bill <= req[r].hold
       \/ req[r].pc = "unmetered" /\ req'[r].pc = "released"
    /\ \/ log' = Append(log, req'[r].bill) /\ req'[r].seq = Len(log) + 1
       \/ log' = log /\ req'[r].seq = req[r].seq

\* It is trued up.
Bills(r) ==
    /\ log' = log /\ pending' = pending + req[r].bill
    /\ req'[r].hold = req[r].hold /\ req'[r].bill = req[r].bill /\ req'[r].seq = req[r].seq
    /\ req[r].pc \in {"metered", "unmeasured"} /\ req'[r].pc = "billed"

Effect(r) ==
    /\ OnlyMoves(r) /\ UNCHANGED ledgerVars
    /\ Stays(r) \/ Places(r) \/ Emits(r) \/ Bills(r)

LEMMA RequestStepEffect ==
    ASSUME PricesFit, Shape, NEW r \in Requests, RequestStep(r)
    PROVE Effect(r)
<1> USE DEF PCs, ledgerVars, homeVars, accountVars
<1>1. CASE Admit(r)
  <2>1. UNCHANGED ledgerVars /\ pending' = pending
    BY <1>1 DEF Admit
  <2> QED BY <1>1, <2>1, AdmitEffect DEF Effect, Stays, Places
<1>2. CASE AdmitFault(r)
  <2>1. PICK pc \in {"unmetered", "denied"} : req' = [req EXCEPT ![r].pc = pc]
    BY <1>2 DEF AdmitFault
  <2>2. req[r].pc = "new" /\ log' = log /\ UNCHANGED ledgerVars /\ pending' = pending
    BY <1>2 DEF AdmitFault
  <2> QED BY <2>1, <2>2, GotoEffect DEF Effect, Stays
<1>3. CASE ServeFails(r)
  BY <1>3, GotoEffect DEF ServeFails, Effect, Stays
<1>4. CASE ServeMetered(r)
  <2>1. PICK bill \in 0 .. req[r].hold : EmitDebit(r, bill, "metered")
    BY <1>4, MeteredEffect
  <2>2. req[r].pc = "held" /\ UNCHANGED ledgerVars /\ pending' = pending
    BY <1>4 DEF ServeMetered
  <2>3. bill \in Nat /\ bill \in Int /\ bill <= req[r].hold
    BY DEF Shape, Rows
  <2> QED BY <2>1, <2>2, <2>3, EmitDebitEffect DEF Effect, Emits
<1>5. CASE ServeUnmeasured(r)
  <2>1. EmitDebit(r, req[r].hold, "unmeasured") /\ req[r].hold \in Nat /\ req[r].hold \in Int
    BY <1>5 DEF ServeUnmeasured, Shape, Rows
  <2>2. req[r].pc = "held" /\ UNCHANGED ledgerVars /\ pending' = pending
    BY <1>5 DEF ServeUnmeasured
  <2> QED BY <2>1, <2>2, EmitDebitEffect DEF Effect, Emits
<1>6. CASE ServeUnmetered(r)
  <2>1. PICK bill \in Int : EmitDebit(r, bill, "released") /\ bill \in Nat
    BY <1>6, UnmeteredEffect
  <2>2. req[r].pc = "unmetered" /\ UNCHANGED ledgerVars /\ pending' = pending
    BY <1>6 DEF ServeUnmetered
  <2> QED BY <2>1, <2>2, EmitDebitEffect DEF Effect, Emits
<1>7. CASE TrueUp(r)
  BY <1>7, GotoEffect DEF TrueUp, Effect, Bills
<1>8. CASE Release(r)
  BY <1>8, GotoEffect DEF Release, Effect, Stays
<1>9. CASE ResolveFault(r)
  BY <1>9, GotoEffect DEF ResolveFault, Effect, Stays
<1>10. CASE ReleaseFault(r)
  BY <1>10, GotoEffect DEF ReleaseFault, Effect, Stays
<1> QED
  BY <1>1, <1>2, <1>3, <1>4, <1>5, <1>6, <1>7, <1>8, <1>9, <1>10 DEF RequestStep

(***************************************************************************)
(* Bills and the log.                                                      *)
(***************************************************************************)
\* What every step is: of a request, of the tailer, of HOME, or of the ingester.
StepKinds ==
    \/ \E r \in Requests : Effect(r)
    \/ ConfirmNext \/ Rewind \/ TopUp \/ Ingest \/ Push \/ Apply \/ UNCHANGED vars

LEMMA StepIsOfAKind == PricesFit /\ Shape /\ [Next]_vars => StepKinds
BY RequestStepEffect DEF Next, StepKinds

LEMMA ShapeFacts ==
    ASSUME Shape
    PROVE /\ \A r \in Requests : req[r].hold \in Nat /\ req[r].seq \in Nat /\ req[r].pc \in PCs
          /\ Len(log) \in Nat
BY LenProperties DEF Shape, Rows

LEMMA BillsBoundedStep == Shape /\ Shape' /\ BillsBounded /\ StepKinds => BillsBounded'
<1> SUFFICES ASSUME Shape, Shape', BillsBounded, StepKinds PROVE BillsBounded'
  OBVIOUS
<1>1. ASSUME NEW r \in Requests, Effect(r) PROVE BillsBounded'
  <2> USE ShapeFacts DEF BillsBounded, Effect, OnlyMoves, Early
  <2>1. CASE Stays(r)
    BY <1>1, <2>1 DEF Stays
  <2>2. CASE Places(r)
    <3>1. req'[r].bill = 0 /\ req'[r].seq = 0 /\ req'[r].pc = "held" /\ req'[r].hold \in Nat
      BY <2>2 DEF Places, Shape, Rows
    <3> QED BY <1>1, <3>1
  <2>3. CASE Emits(r)
    BY <1>1, <2>3 DEF Emits
  <2>4. CASE Bills(r)
    BY <1>1, <2>4 DEF Bills
  <2> QED BY <1>1, <2>1, <2>2, <2>3, <2>4
<1>2. CASE UNCHANGED req
  BY <1>2 DEF BillsBounded
<1> QED BY <1>1, <1>2, ElsewhereUnchanged DEF StepKinds, Elsewhere, vars

LEMMA LogFacts ==
    ASSUME LogOwned
    PROVE /\ Len(log) \in Nat /\ DOMAIN log = 1 .. Len(log)
          /\ \A i \in 1 .. Len(log) : log[i] \in Nat
BY LenProperties DEF LogOwned

LEMMA LogGrows ==
    ASSUME LogOwned, NEW b \in Nat, log' = Append(log, b)
    PROVE /\ log' \in Seq(Nat) /\ Len(log') = Len(log) + 1 /\ log'[Len(log) + 1] = b
          /\ \A i \in 1 .. Len(log) : log'[i] = log[i]
BY AppendProperties DEF LogOwned

LEMMA LogOwnedStep ==
    Shape /\ BillsBounded /\ LogOwned /\ ConfirmedInOrder /\ StepKinds => LogOwned'
<1> SUFFICES ASSUME Shape, BillsBounded, LogOwned, ConfirmedInOrder, StepKinds PROVE LogOwned'
  OBVIOUS
<1>0. /\ Len(log) \in Nat /\ confirmedHigh \in Nat /\ confirmedHigh <= Len(log)
      /\ cursor \in Nat /\ cursor <= Len(log)
  BY LogFacts DEF ConfirmedInOrder
<1>1. ASSUME NEW r \in Requests, Effect(r) PROVE LogOwned'
  <2>1. OnlyMoves(r) /\ confirmedHigh' = confirmedHigh /\ cursor' = cursor
    BY <1>1 DEF Effect, ledgerVars
  <2>2. req[r].pc \notin Settled
    BY <1>1 DEF Effect, Stays, Places, Emits, Bills, Settled
  <2>3. req[r].seq \notin 1 .. confirmedHigh \cup 1 .. cursor
    BY <2>2 DEF LogOwned
  <2>4. CASE log' = log /\ req'[r].seq = req[r].seq /\ req'[r].bill = req[r].bill
    <3>1. \A q \in Requests : req'[q].seq = req[q].seq /\ req'[q].bill = req[q].bill
      BY <2>1, <2>4 DEF OnlyMoves
    <3>2. \A q \in Requests : req'[q].seq \in 1 .. confirmedHigh \cup 1 .. cursor => req'[q].pc \in Settled
      BY <2>1, <2>3, <2>4 DEF OnlyMoves, LogOwned
    <3> QED BY <2>1, <2>4, <3>1, <3>2 DEF LogOwned
  <2>5. CASE Emits(r)
    <3>1. req[r].seq = 0 /\ req'[r].bill \in Nat
      BY <2>5 DEF Emits, BillsBounded, Early
    <3>2. CASE log' = log /\ req'[r].seq = req[r].seq
      <4>1. \A q \in Requests : req'[q].seq = req[q].seq
        BY <2>1, <3>2 DEF OnlyMoves
      <4>2. \A q \in Requests : req'[q].seq > 0 => req'[q].bill = req[q].bill /\ req'[q].pc = req[q].pc
        BY <2>1, <3>1, <3>2 DEF OnlyMoves
      <4>3. \A q \in Requests : req'[q].seq \in 1 .. confirmedHigh \cup 1 .. cursor => req'[q].seq > 0
        BY <1>0
      <4> QED BY <2>1, <3>2, <4>1, <4>2, <4>3 DEF LogOwned
    <3>3. CASE log' = Append(log, req'[r].bill) /\ req'[r].seq = Len(log) + 1
      <4>1. /\ log' \in Seq(Nat) /\ Len(log') = Len(log) + 1 /\ log'[Len(log) + 1] = req'[r].bill
            /\ \A i \in 1 .. Len(log) : log'[i] = log[i]
        BY <3>1, <3>3, LogGrows
      <4>2. \A q \in Requests : req[q].seq \in Nat /\ req[q].seq <= Len(log)
        BY ShapeFacts DEF LogOwned
      <4>3. ASSUME NEW q \in Requests
            PROVE /\ req'[q].seq <= Len(log')
                  /\ req'[q].seq > 0 => log'[req'[q].seq] = req'[q].bill
                  /\ req'[q].seq \in 1 .. confirmedHigh' \cup 1 .. cursor' => req'[q].pc \in Settled
        <5>1. CASE q = r
          BY <1>0, <2>1, <3>3, <4>1, <5>1
        <5>2. CASE q # r
          <6>1. req'[q] = req[q]
            BY <2>1, <5>2 DEF OnlyMoves
          <6>2. req[q].seq > 0 => req[q].seq \in 1 .. Len(log) /\ log[req[q].seq] = req[q].bill
            BY <4>2 DEF LogOwned
          <6>3. req[q].seq \in 1 .. confirmedHigh \cup 1 .. cursor => req[q].pc \in Settled
            BY DEF LogOwned
          <6> QED BY <1>0, <2>1, <4>1, <4>2, <6>1, <6>2, <6>3
        <5> QED BY <5>1, <5>2
      <4>4. ASSUME NEW p \in Requests, NEW q \in Requests, req'[p].seq > 0, req'[p].seq = req'[q].seq
            PROVE p = q
        <5>1. CASE p # r /\ q # r
          BY <2>1, <4>4, <5>1 DEF OnlyMoves, LogOwned
        <5>2. CASE p = r /\ q # r
          <6>1. req'[q].seq <= Len(log) /\ req'[q].seq \in Nat
            BY <2>1, <4>2, <5>2 DEF OnlyMoves
          <6> QED BY <1>0, <3>3, <4>4, <5>2, <6>1
        <5>3. CASE p # r /\ q = r
          <6>1. req'[p].seq <= Len(log) /\ req'[p].seq \in Nat
            BY <2>1, <4>2, <5>3 DEF OnlyMoves
          <6> QED BY <1>0, <3>3, <4>4, <5>3, <6>1
        <5> QED BY <5>1, <5>2, <5>3
      <4>5. ASSUME NEW i \in 1 .. Len(log') PROVE \E q \in Requests : req'[q].seq = i
        <5>1. CASE i = Len(log) + 1
          BY <3>3, <5>1
        <5>2. CASE i # Len(log) + 1
          <6>0. i \in 1 .. Len(log)
            BY <1>0, <4>1, <5>2
          <6>1. PICK q \in Requests : req[q].seq = i
            BY <6>0 DEF LogOwned
          <6>2. q # r
            BY <3>1, <4>5, <6>1
          <6> QED BY <2>1, <6>1, <6>2 DEF OnlyMoves
        <5> QED BY <5>1, <5>2
      <4> QED BY <4>1, <4>3, <4>4, <4>5 DEF LogOwned
    <3> QED BY <2>5, <3>2, <3>3 DEF Emits
  <2> QED BY <1>1, <2>4, <2>5 DEF Effect, Stays, Places, Bills
<1>2. CASE ConfirmNext
  <2>1. /\ log' = log /\ req' = req /\ cursor < Len(log) /\ cursor' = cursor + 1
        /\ Resolved(cursor + 1) /\ confirmedHigh' \in {confirmedHigh, cursor + 1}
    BY <1>2 DEF ConfirmNext, Confirm, MoveToConfirmed
  <2>2. ASSUME NEW r \in Requests, req[r].seq \in 1 .. confirmedHigh' \cup 1 .. cursor'
        PROVE req[r].pc \in Settled
    <3>1. CASE req[r].seq = cursor + 1
      BY <2>1, <3>1 DEF Resolved, Settled
    <3>2. CASE req[r].seq # cursor + 1
      <4>1. req[r].seq \in 1 .. confirmedHigh \cup 1 .. cursor
        BY <1>0, <2>1, <2>2, <3>2, ShapeFacts
      <4> QED BY <4>1 DEF LogOwned
    <3> QED BY <3>1, <3>2
  <2> QED BY <2>1, <2>2 DEF LogOwned
<1>3. CASE Rewind
  <2>1. /\ log' = log /\ req' = req /\ confirmedHigh' = confirmedHigh
        /\ \E c \in 0 .. cursor - 1 : cursor' = c
    BY <1>3 DEF Rewind, accountVars
  <2>2. 1 .. cursor' \subseteq 1 .. cursor
    BY <1>0, <2>1
  <2> QED BY <2>1, <2>2 DEF LogOwned
<1>4. CASE UNCHANGED <<req, log, confirmedHigh, cursor>>
  BY <1>4 DEF LogOwned
<1> QED
  BY <1>1, <1>2, <1>3, <1>4 DEF StepKinds, TopUp, Ingest, Push, Apply, vars, accountVars

LEMMA ConfirmedInOrderStep ==
    Shape /\ BillsBounded /\ LogOwned /\ ConfirmedInOrder /\ StepKinds => ConfirmedInOrder'
<1> SUFFICES ASSUME Shape, BillsBounded, LogOwned, ConfirmedInOrder, StepKinds
             PROVE ConfirmedInOrder'
  OBVIOUS
<1>0. /\ Len(log) \in Nat /\ confirmedHigh \in Nat /\ confirmedHigh <= Len(log)
      /\ cursor \in Nat /\ cursor <= Len(log) /\ \A i \in 1 .. Len(log) : log[i] \in Nat
  BY LogFacts DEF ConfirmedInOrder
<1>1. ASSUME NEW r \in Requests, Effect(r) PROVE ConfirmedInOrder'
  <2>1. confirmedHigh' = confirmedHigh /\ cursor' = cursor
    BY <1>1 DEF Effect, ledgerVars
  <2>2. CASE log' = log
    BY <2>1, <2>2 DEF ConfirmedInOrder
  <2>3. CASE log' = Append(log, req'[r].bill) /\ req'[r].bill \in Nat
    <3>1. Len(log') = Len(log) + 1 /\ \A i \in 1 .. Len(log) : log'[i] = log[i]
      BY <2>3, LogGrows
    <3> QED BY <1>0, <2>1, <3>1 DEF ConfirmedInOrder
  <2> QED BY <1>1, <2>2, <2>3 DEF Effect, Stays, Places, Emits, Bills
<1>2. CASE ConfirmNext
  <2>1. log' = log /\ cursor < Len(log) /\ cursor' = cursor + 1
    BY <1>2 DEF ConfirmNext
  <2>2. cursor + 1 \in 1 .. Len(log) /\ log[cursor + 1] \in Nat
    BY <1>0, <2>1
  <2>3. CASE (log[cursor + 1] <= 0 \/ cursor + 1 <= confirmedHigh) /\ confirmedHigh' = confirmedHigh
    BY <1>0, <2>1, <2>2, <2>3 DEF ConfirmedInOrder
  <2>4. CASE confirmedHigh' = cursor + 1
    BY <1>0, <2>1, <2>2, <2>4 DEF ConfirmedInOrder
  <2> QED BY <1>2, <2>3, <2>4 DEF ConfirmNext, Confirm, MoveToConfirmed
<1>3. CASE Rewind
  <2>1. /\ log' = log /\ confirmedHigh' = confirmedHigh
        /\ \E c \in 0 .. cursor - 1 : cursor' = c
    BY <1>3 DEF Rewind, accountVars
  <2> QED BY <1>0, <2>1 DEF ConfirmedInOrder
<1>4. CASE UNCHANGED <<log, confirmedHigh, cursor>>
  BY <1>4 DEF ConfirmedInOrder
<1> QED
  BY <1>1, <1>2, <1>3, <1>4 DEF StepKinds, TopUp, Ingest, Push, Apply, vars, accountVars

(***************************************************************************)
(* Sums over stretches of the log.                                         *)
(***************************************************************************)
LEMMA SumSplit ==
    ASSUME NEW f, NEW a \in Nat, NEW c \in Nat, NEW b \in a .. c,
           \A i \in a + 1 .. c : f[i] \in Nat
    PROVE /\ Sum(f, a + 1 .. c) \in Nat /\ Sum(f, a + 1 .. b) \in Nat
          /\ Sum(f, b + 1 .. c) \in Nat
          /\ Sum(f, a + 1 .. c) = Sum(f, a + 1 .. b) + Sum(f, b + 1 .. c)
<1>1. IsFiniteSet(a + 1 .. b) /\ IsFiniteSet(b + 1 .. c)
  BY FS_Interval
<1>2. /\ (a + 1 .. b) \cup (b + 1 .. c) = a + 1 .. c
      /\ (a + 1 .. b) \cap (b + 1 .. c) = {}
  OBVIOUS
<1>3. IsFiniteSet(a + 1 .. c)
  BY FS_Interval
<1>4. /\ \A i \in a + 1 .. b : f[i] \in Nat
      /\ \A i \in b + 1 .. c : f[i] \in Nat
  OBVIOUS
<1>5. Sum(f, a + 1 .. c) \in Nat /\ Sum(f, a + 1 .. b) \in Nat /\ Sum(f, b + 1 .. c) \in Nat
  BY <1>1, <1>3, <1>4, SumNat
<1>6. \A i \in (a + 1 .. b) \cup (b + 1 .. c) : f[i] \in Nat
  BY <1>4
<1>7. Sum(f, (a + 1 .. b) \cup (b + 1 .. c)) = Sum(f, a + 1 .. b) + Sum(f, b + 1 .. c)
  BY <1>1, <1>2, <1>6, SumUnion
<1> QED BY <1>2, <1>5, <1>7

LEMMA SumExtend ==
    ASSUME NEW f, NEW a \in Nat, NEW c \in Nat, a <= c, \A i \in a + 1 .. c + 1 : f[i] \in Nat
    PROVE Sum(f, a + 1 .. c + 1) = Sum(f, a + 1 .. c) + f[c + 1]
<1>1. /\ (a + 1 .. c) \cup {c + 1} = a + 1 .. c + 1
      /\ c + 1 \notin a + 1 .. c /\ f[c + 1] \in Int
      /\ \A i \in a + 1 .. c : f[i] \in Int
  OBVIOUS
<1>2. IsFiniteSet(a + 1 .. c)
  BY FS_Interval
<1>3. Sum(f, (a + 1 .. c) \cup {c + 1}) = Sum(f, a + 1 .. c) + f[c + 1]
  <2> DEFINE S == a + 1 .. c
             x == c + 1
  <2>1. IsFiniteSet(S) /\ x \notin S /\ f[x] \in Int /\ \A i \in S : f[i] \in Int
    BY <1>1, <1>2
  <2> HIDE DEF S, x
  <2>2. Sum(f, S \cup {x}) = Sum(f, S) + f[x]
    BY <2>1, SumAdd
  <2> QED BY <2>2 DEF S, x
<1> QED BY <1>1, <1>3

\* Appending to the log changes no sum over what was there.
LEMMA LogSumGrows ==
    ASSUME LogOwned, NEW b \in Nat, log' = Append(log, b), NEW a \in 0 .. Len(log)
    PROVE /\ \A c \in 0 .. Len(log) : Sum(log', a + 1 .. c) = Sum(log, a + 1 .. c)
          /\ Sum(log', a + 1 .. Len(log')) = Sum(log, a + 1 .. Len(log)) + b
<1>1. /\ Len(log) \in Nat /\ \A i \in 1 .. Len(log) : log[i] \in Nat
      /\ Len(log') = Len(log) + 1 /\ log'[Len(log) + 1] = b
      /\ \A i \in 1 .. Len(log) : log'[i] = log[i]
  BY LogFacts, LogGrows
<1>2. ASSUME NEW c \in 0 .. Len(log) PROVE Sum(log', a + 1 .. c) = Sum(log, a + 1 .. c)
  <2>1. \A i \in a + 1 .. c : log[i] \in Nat /\ log[i] = log'[i]
    BY <1>1
  <2>2. IsFiniteSet(a + 1 .. c)
    BY <1>1, FS_Interval
  <2> QED BY <2>1, <2>2, SumSame
<1>3. Sum(log', a + 1 .. Len(log) + 1) = Sum(log', a + 1 .. Len(log)) + b
  <2>1. \A i \in a + 1 .. Len(log) + 1 : log'[i] \in Nat
    BY <1>1
  <2> DEFINE g == log'
             n == Len(log)
  <2>2. n \in Nat /\ a \in Nat /\ a <= n /\ \A i \in a + 1 .. n + 1 : g[i] \in Nat
    BY <1>1, <2>1
  <2> HIDE DEF g, n
  <2>3. Sum(g, a + 1 .. n + 1) = Sum(g, a + 1 .. n) + g[n + 1]
    BY <2>2, SumExtend
  <2> QED BY <1>1, <2>3 DEF g, n
<1> QED BY <1>1, <1>2, <1>3

\* Tailer and HOME leave the log alone.
LEMMA ElsewhereLog == Elsewhere \/ UNCHANGED vars => log' = log /\ req' = req
BY ElsewhereUnchanged DEF vars

LEMMA ConfirmedIsLoggedStep ==
    LogOwned /\ ConfirmedInOrder /\ ConfirmedIsLogged /\ SnapshotsOrdered /\ StepKinds
        => ConfirmedIsLogged'
<1> SUFFICES ASSUME LogOwned, ConfirmedInOrder, ConfirmedIsLogged, SnapshotsOrdered, StepKinds
             PROVE ConfirmedIsLogged'
  OBVIOUS
<1>0. /\ Len(log) \in Nat /\ \A i \in 1 .. Len(log) : log[i] \in Nat
      /\ confirmedHigh \in Nat /\ confirmedHigh <= Len(log)
      /\ cursor \in Nat /\ cursor <= Len(log)
      /\ ackWatermark \in Nat /\ ackWatermark <= Len(log)
  BY LogFacts DEF ConfirmedInOrder, ConfirmedIsLogged
<1>1. ASSUME NEW r \in Requests, Effect(r) PROVE ConfirmedIsLogged'
  <2>1. UNCHANGED <<ackWatermark, confirmed, confirmedSum, confirmedHigh>>
    BY <1>1 DEF Effect, ledgerVars
  <2>2. CASE log' = log
    BY <2>1, <2>2 DEF ConfirmedIsLogged, Sum
  <2>3. CASE log' = Append(log, req'[r].bill) /\ req'[r].bill \in Nat
    <3>1. Len(log') = Len(log) + 1 /\ \A i \in 1 .. Len(log) : log'[i] = log[i]
      BY <2>3, LogGrows
    <3>2. Sum(log', ackWatermark + 1 .. confirmedHigh) = Sum(log, ackWatermark + 1 .. confirmedHigh)
      BY <1>0, <2>3, LogSumGrows
    <3>3. \A i \in ackWatermark + 1 .. confirmedHigh : i \in 1 .. Len(log) /\ log'[i] = log[i]
      BY <1>0, <3>1
    <3>4. {i \in ackWatermark + 1 .. confirmedHigh : log'[i] > 0}
            = {i \in ackWatermark + 1 .. confirmedHigh : log[i] > 0}
      BY <3>3
    <3>5. \A i \in DOMAIN confirmed : confirmed[i] = log'[i]
      BY <3>3 DEF ConfirmedIsLogged
    <3>6. ackWatermark \in 0 .. Len(log')
      BY <1>0, <3>1
    <3> QED BY <2>1, <3>2, <3>4, <3>5, <3>6 DEF ConfirmedIsLogged
  <2> QED BY <1>1, <2>2, <2>3 DEF Effect, Stays, Places, Emits, Bills
<1>2. CASE ConfirmNext
  <2> DEFINE seq == cursor + 1
  <2>1. /\ log' = log /\ cursor < Len(log) /\ Confirm(log[seq], seq) /\ ackWatermark' = ackWatermark
    BY <1>2 DEF ConfirmNext
  <2>2. CASE UNCHANGED <<confirmed, confirmedSum, confirmedHigh>>
    BY <2>1, <2>2 DEF ConfirmedIsLogged, Sum
  <2>3. CASE MoveToConfirmed(log[seq], seq) /\ log[seq] > 0 /\ seq > confirmedHigh
    <3>1. confirmedHigh' = seq /\ seq \in 1 .. Len(log) /\ log[seq] \in Nat
      BY <1>0, <2>1, <2>3 DEF MoveToConfirmed
    <3>2. CASE seq > ackWatermark
      <4>1. /\ confirmed' = [s \in DOMAIN confirmed \cup {seq} |->
                                IF s = seq THEN log[seq] ELSE confirmed[s]]
            /\ confirmedSum' = confirmedSum + log[seq]
        BY <2>3, <3>2 DEF MoveToConfirmed
      <4> DEFINE S == ackWatermark + 1 .. confirmedHigh
                 T == ackWatermark + 1 .. cursor
      <4>2. /\ S \subseteq T /\ IsFiniteSet(T) /\ \A i \in T : log[i] \in Nat
            /\ \A i \in T \ S : log[i] = 0
        <5>1. IsFiniteSet(T)
          BY <1>0, FS_Interval
        <5>2. S \subseteq T /\ \A i \in T : i \in 1 .. Len(log)
          BY <1>0, <2>1, <2>3
        <5>3. \A i \in T \ S : i \in 1 .. cursor /\ ~(i <= confirmedHigh)
          BY <1>0
        <5> QED BY <1>0, <5>1, <5>2, <5>3 DEF ConfirmedInOrder
      <4>3. Sum(log, S) = Sum(log, T)
        <5> HIDE DEF S, T
        <5> QED BY <4>2, SumPart
      <4>4. Sum(log, ackWatermark + 1 .. seq) = Sum(log, T) + log[seq]
        <5>1. \A i \in ackWatermark + 1 .. cursor + 1 : log[i] \in Nat
          BY <1>0, <2>1
        <5> QED BY <1>0, <3>2, <5>1, SumExtend
      <4>5. confirmedSum' = Sum(log, ackWatermark + 1 .. seq)
        BY <4>1, <4>3, <4>4 DEF ConfirmedIsLogged
      <4>6. DOMAIN confirmed' = {i \in ackWatermark + 1 .. seq : log[i] > 0}
        <5>1. DOMAIN confirmed = {i \in S : log[i] > 0}
          BY DEF ConfirmedIsLogged
        <5>2. \A i \in T \ S : ~(log[i] > 0)
          BY <4>2
        <5>3. \A i : i \in ackWatermark + 1 .. seq <=> i \in T \/ i = seq
          BY <1>0, <3>2
        <5>4. DOMAIN confirmed' = DOMAIN confirmed \cup {seq}
          BY <4>1
        <5> HIDE DEF S, T, seq
        <5> QED BY <2>3, <4>2, <5>1, <5>2, <5>3, <5>4
      <4>7. \A i \in DOMAIN confirmed' : confirmed'[i] = log[i]
        BY <4>1 DEF ConfirmedIsLogged
      <4> QED BY <2>1, <3>1, <4>5, <4>6, <4>7 DEF ConfirmedIsLogged
    <3>3. CASE ~(seq > ackWatermark)
      <4>1. UNCHANGED <<confirmed, confirmedSum>>
        BY <2>3, <3>3 DEF MoveToConfirmed
      <4>2. ackWatermark + 1 .. confirmedHigh = {} /\ ackWatermark + 1 .. seq = {}
        BY <1>0, <2>3, <3>3
      <4> QED BY <2>1, <3>1, <4>1, <4>2 DEF ConfirmedIsLogged
    <3> QED BY <3>2, <3>3
  <2>4. log[seq] \in Nat
    BY <1>0, <2>1
  <2> QED BY <1>0, <2>1, <2>2, <2>3, <2>4 DEF Confirm
<1>3. CASE Apply
  <2>1. /\ log' = log /\ confirmedHigh' = confirmedHigh
        /\ \E s \in pushed : SetAllowance(s.balance, s.watermark, s.ver)
    BY <1>3 DEF Apply
  <2>2. PICK s \in pushed : SetAllowance(s.balance, s.watermark, s.ver)
    BY <2>1
  <2> DEFINE w == s.watermark
  <2>3. w \in Nat /\ w <= Len(log)
    BY <1>0 DEF SnapshotsOrdered
  <2> HIDE DEF w
  <2>4. CASE UNCHANGED <<ackWatermark, confirmed, confirmedSum>>
    BY <2>1, <2>4 DEF ConfirmedIsLogged, Sum
  <2> DEFINE aged == IF w > ackWatermark THEN {seq \in DOMAIN confirmed : seq <= w} ELSE {}
  <2>5. CASE /\ confirmed' = Restrict(confirmed, DOMAIN confirmed \ aged)
             /\ confirmedSum' = confirmedSum - Sum(confirmed, aged)
             /\ ackWatermark' = IF w > ackWatermark THEN w ELSE ackWatermark
    <3>1. /\ DOMAIN confirmed' = DOMAIN confirmed \ aged
          /\ \A i \in DOMAIN confirmed' : confirmed'[i] = log[i]
      BY <2>5 DEF Restrict, ConfirmedIsLogged
    <3>2. ackWatermark' \in 0 .. Len(log)
      BY <1>0, <2>3, <2>5
    <3>3. CASE ~(w > ackWatermark)
      <4>1. aged = {} /\ Sum(confirmed, aged) = 0 /\ ackWatermark' = ackWatermark
        BY <2>5, <3>3, SumEmpty
      <4>2. confirmedSum \in Nat
        <5>1. IsFiniteSet(ackWatermark + 1 .. confirmedHigh)
          BY <1>0, FS_Interval
        <5>2. \A i \in ackWatermark + 1 .. confirmedHigh : log[i] \in Nat
          BY <1>0
        <5> QED BY <5>1, <5>2, SumNat DEF ConfirmedIsLogged
      <4>3. confirmedSum' = confirmedSum /\ DOMAIN confirmed' = DOMAIN confirmed
        BY <2>5, <3>1, <4>1, <4>2
      <4> QED BY <2>1, <3>1, <3>2, <4>1, <4>3 DEF ConfirmedIsLogged, Sum
    <3>4. CASE w > ackWatermark
      <4> DEFINE T == ackWatermark + 1 .. confirmedHigh
                 S == w + 1 .. confirmedHigh
      <4>1. S \subseteq T /\ IsFiniteSet(T) /\ IsFiniteSet(T \ S) /\ \A i \in T : log[i] \in Nat
        <5>1. IsFiniteSet(T)
          BY <1>0, FS_Interval
        <5> QED BY <1>0, <2>3, <3>4, <5>1, FS_Subset
      <4>2. /\ aged = {i \in T : log[i] > 0 /\ i <= w}
            /\ DOMAIN confirmed \ aged = {i \in T : log[i] > 0 /\ ~(i <= w)}
        BY <3>4 DEF ConfirmedIsLogged
      <4>3. \A i \in T : i \in S <=> ~(i <= w)
        BY <1>0, <2>3
      <4>4. /\ aged \subseteq T \ S /\ \A i \in (T \ S) \ aged : log[i] = 0
            /\ DOMAIN confirmed' = {i \in S : log[i] > 0}
        <5> HIDE DEF aged, S, T
        <5> QED BY <3>1, <4>1, <4>2, <4>3
      <4>5. \A i \in aged : log[i] = confirmed[i]
        BY DEF ConfirmedIsLogged
      <4>6. confirmedSum = Sum(log, T) /\ ackWatermark' = w
        BY <2>5, <3>4 DEF ConfirmedIsLogged
      <4>7. confirmedSum' = Sum(log, S)
        <5> HIDE DEF aged, S, T
        <5>1. Sum(log, T) = Sum(log, S) + Sum(log, T \ S) /\ Sum(log, S) \in Nat
          BY <4>1, SumPart
        <5>2. Sum(log, aged) = Sum(log, T \ S) /\ Sum(log, aged) \in Nat
          BY <4>1, <4>4, SumPart
        <5>3. Sum(log, aged) = Sum(confirmed, aged)
          <6>1. IsFiniteSet(aged) /\ \A i \in aged : log[i] \in Nat /\ log[i] = confirmed[i]
            BY <4>1, <4>4, <4>5, FS_Subset
          <6> QED BY <6>1, SumSame
        <5> QED BY <2>5, <4>6, <5>1, <5>2, <5>3
      <4> QED BY <2>1, <3>1, <3>2, <4>4, <4>6, <4>7 DEF ConfirmedIsLogged
    <3> QED BY <3>3, <3>4
  <2> QED BY <2>2, <2>4, <2>5 DEF SetAllowance, Sum, w
<1>4. CASE UNCHANGED <<log, ackWatermark, confirmed, confirmedSum, confirmedHigh>>
  BY <1>4 DEF ConfirmedIsLogged, Sum
<1> QED
  BY <1>1, <1>2, <1>3, <1>4 DEF StepKinds, Rewind, TopUp, Ingest, Push, vars, accountVars

(***************************************************************************)
(* HOME, its snapshots and the ingester.                                   *)
(***************************************************************************)
LEMMA GrantedGrows ==
    ASSUME NEW m \in 0 .. Len(Grants), NEW n \in 0 .. m
    PROVE /\ SumSeq(Grants, m) \in Nat /\ SumSeq(Grants, n) \in Nat
          /\ SumSeq(Grants, n) <= SumSeq(Grants, m)
<1>1. Len(Grants) \in Nat /\ \A i \in 1 .. Len(Grants) : Grants[i] \in Nat
  BY CreditGateAssumption
<1>2. IsFiniteSet(1 .. m) /\ 1 .. n \subseteq 1 .. m /\ \A i \in 1 .. m : Grants[i] \in Nat
  <2>1. m \in Int /\ 1 \in Int
    BY <1>1
  <2>2. IsFiniteSet(1 .. m)
    BY <2>1, FS_Interval
  <2> QED BY <1>1, <2>2
<1>3. Sum(Grants, 1 .. n) \in Nat /\ Sum(Grants, 1 .. m) \in Nat
      /\ Sum(Grants, 1 .. n) <= Sum(Grants, 1 .. m)
  BY <1>2, SumPart
<1> QED BY <1>3 DEF SumSeq, Sum

LEMMA LogPrefixSum ==
    ASSUME LogOwned, NEW n \in 0 .. Len(log)
    PROVE Sum(log, 1 .. n) \in Nat
<1>1. Len(log) \in Nat /\ \A i \in 1 .. Len(log) : log[i] \in Nat
  BY LogFacts
<1>2. IsFiniteSet(1 .. n)
  BY <1>1, FS_Interval
<1>3. \A i \in 1 .. n : log[i] \in Nat
  BY <1>1
<1> QED BY <1>2, <1>3, SumNat

LEMMA SnapshotsOrderedStep ==
    LogOwned /\ SnapshotsOrdered /\ ConfirmedIsLogged /\ StepKinds => SnapshotsOrdered'
<1> SUFFICES ASSUME LogOwned, SnapshotsOrdered, ConfirmedIsLogged, StepKinds
             PROVE SnapshotsOrdered'
  OBVIOUS
<1>0. /\ Len(log) \in Nat /\ MaxVer \in Nat /\ Len(Grants) \in Nat
      /\ home \in [grants : 1 .. Len(Grants), ack : 0 .. Len(log), ver : 0 .. MaxVer]
      /\ home.grants \in Nat /\ home.ack \in Nat /\ home.ver \in Nat /\ home.ack <= Len(log)
      /\ home.grants <= Len(Grants) /\ Granted \in Nat
      /\ ackWatermark \in Nat /\ ackWatermark <= home.ack
      /\ lastVer \in Nat /\ lastVer <= home.ver
  <2>1. Len(log) \in Nat /\ MaxVer \in Nat /\ Len(Grants) \in Nat
    BY LogFacts, CreditGateAssumption
  <2>2. home \in [grants : 1 .. Len(Grants), ack : 0 .. Len(log), ver : 0 .. MaxVer]
    BY DEF SnapshotsOrdered
  <2>3. home.grants \in 0 .. Len(Grants) /\ home.grants \in 0 .. home.grants
    BY <2>1, <2>2
  <2>4. Granted \in Nat
    BY <2>3, GrantedGrows DEF Granted
  <2> QED BY <2>1, <2>2, <2>4 DEF SnapshotsOrdered, ConfirmedIsLogged
<1>s. ASSUME NEW s \in pushed
      PROVE /\ s \in [ver : 1 .. home.ver, balance : Int, watermark : 0 .. home.ack]
            /\ s.ver \in Nat /\ s.watermark \in Nat /\ s.watermark <= home.ack /\ s.ver <= home.ver
            /\ s.ver >= 1 /\ s.watermark \in 0 .. Len(log)
            /\ s.balance \in Int /\ Sum(log, 1 .. s.watermark) \in Nat
            /\ s.balance + Sum(log, 1 .. s.watermark) <= Granted
  <2>1. s \in [ver : 1 .. home.ver, balance : Int, watermark : 0 .. home.ack]
    BY DEF SnapshotsOrdered
  <2>2. s.watermark \in 0 .. Len(log)
    BY <1>0, <2>1
  <2>3. Sum(log, 1 .. s.watermark) \in Nat
    BY <2>2, LogPrefixSum
  <2> QED BY <1>0, <2>1, <2>2, <2>3 DEF SnapshotsOrdered
<1>1. ASSUME NEW r \in Requests, Effect(r) PROVE SnapshotsOrdered'
  <2>1. UNCHANGED <<allowance, allowanceVer, ackWatermark, lastVer, home, pushed>>
    BY <1>1 DEF Effect, ledgerVars
  <2>2. CASE log' = log
    BY <2>1, <2>2 DEF SnapshotsOrdered, Granted, SumSeq, Sum
  <2>3. CASE log' = Append(log, req'[r].bill) /\ req'[r].bill \in Nat
    <3>1. Len(log') = Len(log) + 1
      BY <2>3, LogGrows
    <3>2. \A c \in 0 .. Len(log) : Sum(log', 1 .. c) = Sum(log, 1 .. c)
      <4>1. 0 \in 0 .. Len(log) /\ 0 + 1 = 1
        BY <1>0
      <4>2. \A c \in 0 .. Len(log) : Sum(log', 0 + 1 .. c) = Sum(log, 0 + 1 .. c)
        BY <2>3, <4>1, LogSumGrows
      <4> QED BY <4>1, <4>2
    <3>3. home \in [grants : 1 .. Len(Grants), ack : 0 .. Len(log'), ver : 0 .. MaxVer]
      BY <1>0, <3>1
    <3>4. Granted' = Granted
      BY <2>1 DEF Granted, SumSeq
    <3>5. \A s \in pushed : s.balance + Sum(log', 1 .. s.watermark) <= Granted
      BY <1>s, <3>2
    <3>6. Sum(log', 1 .. ackWatermark) = Sum(log, 1 .. ackWatermark)
      BY <1>0, <3>2
    <3> QED BY <2>1, <3>3, <3>4, <3>5, <3>6 DEF SnapshotsOrdered
  <2> QED BY <1>1, <2>2, <2>3 DEF Effect, Stays, Places, Emits, Bills
<1>2. CASE UNCHANGED <<allowance, allowanceVer, ackWatermark, lastVer, home, pushed, log>>
  BY <1>2 DEF SnapshotsOrdered, Granted, SumSeq, Sum
<1>3. CASE TopUp
  <2>1. /\ UNCHANGED <<allowance, allowanceVer, ackWatermark, lastVer, pushed, log>>
        /\ home' = [home EXCEPT !.grants = @ + 1] /\ home.grants < Len(Grants)
    BY <1>3 DEF TopUp, accountVars
  <2>2. /\ home'.grants = home.grants + 1 /\ home'.ack = home.ack /\ home'.ver = home.ver
        /\ home' \in [grants : 1 .. Len(Grants), ack : 0 .. Len(log), ver : 0 .. MaxVer]
    BY <1>0, <2>1
  <2>3. Granted' \in Nat /\ Granted <= Granted'
    <3>1. home.grants + 1 \in 0 .. Len(Grants) /\ home.grants \in 0 .. home.grants + 1
      BY <1>0, <2>1
    <3> QED BY <2>2, <3>1, GrantedGrows DEF Granted
  <2>4. Sum(log, 1 .. ackWatermark) \in Nat
    BY <1>0, LogPrefixSum
  <2>5. \A s \in pushed : s.balance + Sum(log, 1 .. s.watermark) <= Granted'
    BY <1>0, <1>s, <2>3
  <2>6. allowance + Sum(log, 1 .. ackWatermark) <= Granted'
    BY <1>0, <2>3, <2>4 DEF SnapshotsOrdered
  <2> QED BY <2>1, <2>2, <2>5, <2>6 DEF SnapshotsOrdered, Sum
<1>4. CASE Ingest
  <2>1. /\ UNCHANGED <<allowance, allowanceVer, ackWatermark, lastVer, pushed, log>>
        /\ home' = [home EXCEPT !.ack = @ + 1] /\ home.ack < Len(log)
    BY <1>4 DEF Ingest, accountVars
  <2>2. /\ home'.grants = home.grants /\ home'.ack = home.ack + 1 /\ home'.ver = home.ver
        /\ home' \in [grants : 1 .. Len(Grants), ack : 0 .. Len(log), ver : 0 .. MaxVer]
    BY <1>0, <2>1
  <2>3. Granted' = Granted
    BY <2>2 DEF Granted, SumSeq
  <2>4. \A s \in pushed : s \in [ver : 1 .. home'.ver, balance : Int, watermark : 0 .. home'.ack]
    BY <1>0, <1>s, <2>2
  <2>5. ackWatermark <= home'.ack
    BY <1>0, <2>2
  <2> QED BY <2>1, <2>2, <2>3, <2>4, <2>5 DEF SnapshotsOrdered, Sum
<1>5. CASE Push
  <2> DEFINE new == [ver |-> home.ver + 1, balance |-> Granted - SumSeq(log, home.ack),
                     watermark |-> home.ack]
  <2>1. /\ UNCHANGED <<allowance, allowanceVer, ackWatermark, lastVer, log>>
        /\ home' = [home EXCEPT !.ver = @ + 1] /\ home.ver < MaxVer /\ pushed' = pushed \cup {new}
    BY <1>5 DEF Push, accountVars
  <2>2. /\ home'.grants = home.grants /\ home'.ack = home.ack /\ home'.ver = home.ver + 1
        /\ home' \in [grants : 1 .. Len(Grants), ack : 0 .. Len(log), ver : 0 .. MaxVer]
    BY <1>0, <2>1
  <2>3. Granted' = Granted
    BY <2>2 DEF Granted, SumSeq
  <2>4. /\ new \in [ver : 1 .. home'.ver, balance : Int, watermark : 0 .. home'.ack]
        /\ new.balance + Sum(log, 1 .. new.watermark) = Granted
        /\ new.ver = home.ver + 1 /\ new.watermark = home.ack
    <3>1. SumSeq(log, home.ack) = Sum(log, 1 .. home.ack) /\ Sum(log, 1 .. home.ack) \in Nat
      BY <1>0, LogPrefixSum DEF SumSeq, Sum
    <3> QED BY <1>0, <2>2, <3>1
  <2> HIDE DEF new
  <2>5. ASSUME NEW s \in pushed'
        PROVE /\ s \in [ver : 1 .. home'.ver, balance : Int, watermark : 0 .. home'.ack]
              /\ s.balance + Sum(log, 1 .. s.watermark) <= Granted
              /\ s.ver > lastVer => ackWatermark <= s.watermark
              /\ s.ver = lastVer => s.balance = allowance /\ s.watermark = ackWatermark
    <3>1. CASE s = new
      BY <1>0, <2>4, <3>1
    <3>2. CASE s \in pushed
      BY <1>0, <1>s, <2>2, <3>2 DEF SnapshotsOrdered
    <3> QED BY <2>1, <3>1, <3>2
  <2>6. ASSUME NEW s \in pushed', NEW t \in pushed'
        PROVE (s.ver < t.ver => s.watermark <= t.watermark) /\ (s.ver = t.ver => s = t)
    <3>1. CASE s = new /\ t = new
      BY <1>0, <2>4, <3>1
    <3>2. CASE s = new /\ t \in pushed
      <4>1. t.ver \in Nat /\ t.ver <= home.ver
        BY <1>s, <3>2
      <4> QED BY <1>0, <2>4, <3>2, <4>1
    <3>3. CASE s \in pushed /\ t = new
      <4>1. s.ver \in Nat /\ s.ver <= home.ver /\ s.watermark <= home.ack
        BY <1>s, <3>3
      <4> QED BY <1>0, <2>4, <3>3, <4>1
    <3>4. CASE s \in pushed /\ t \in pushed
      BY <3>4 DEF SnapshotsOrdered
    <3> QED BY <2>1, <3>1, <3>2, <3>3, <3>4
  <2>7. lastVer \in 0 .. home'.ver /\ ackWatermark <= home'.ack
    BY <1>0, <2>2
  <2> QED BY <2>1, <2>2, <2>3, <2>5, <2>6, <2>7 DEF SnapshotsOrdered, Sum
<1>6. CASE Apply
  <2>1. PICK s \in pushed : /\ Valid(s) /\ s.ver > lastVer
                            /\ SetAllowance(s.balance, s.watermark, s.ver) /\ lastVer' = s.ver
    BY <1>6 DEF Apply
  <2>2. UNCHANGED <<home, pushed, log>>
    BY <1>6 DEF Apply, homeVars
  <2>3. ackWatermark <= s.watermark /\ allowanceVer = lastVer
    BY <2>1 DEF SnapshotsOrdered
  <2>4. allowanceVer' = s.ver /\ allowance' = s.balance /\ ackWatermark' = s.watermark
    <3>1. ~(s.ver < allowanceVer)
      BY <1>0, <1>s, <2>1, <2>3
    <3> QED BY <1>0, <1>s, <2>1, <2>3, <3>1 DEF SetAllowance
  <2>5. s.balance \in Nat
    BY <1>s, <2>1 DEF Valid
  <2>6. ASSUME NEW t \in pushed
        PROVE /\ t.ver > s.ver => s.watermark <= t.watermark
              /\ t.ver = s.ver => t.balance = s.balance /\ t.watermark = s.watermark
    <3>1. t.ver > s.ver => s.ver < t.ver
      BY <1>s
    <3> QED BY <3>1 DEF SnapshotsOrdered
  <2>7. Granted' = Granted /\ s.ver \in 0 .. home.ver
    BY <1>0, <1>s, <2>2 DEF Granted, SumSeq
  <2>8. \A t \in pushed : /\ t \in [ver : 1 .. home.ver, balance : Int, watermark : 0 .. home.ack]
                          /\ t.balance + Sum(log, 1 .. t.watermark) <= Granted
    BY <1>s
  <2>9. s.watermark <= home.ack
    BY <1>s
  <2>10. \A t, u \in pushed : /\ t.ver < u.ver => t.watermark <= u.watermark
                              /\ t.ver = u.ver => t = u
    BY DEF SnapshotsOrdered
  <2> QED BY <1>0, <2>1, <2>2, <2>4, <2>5, <2>6, <2>7, <2>8, <2>9, <2>10 DEF SnapshotsOrdered, Sum
<1> QED
  BY <1>1, <1>2, <1>3, <1>4, <1>5, <1>6
     DEF StepKinds, ConfirmNext, Rewind, vars, accountVars, homeVars

(***************************************************************************)
(* Bills: pending, and what was never trued up.                            *)
(***************************************************************************)
LEMMA BillsFacts ==
    ASSUME BillsBounded
    PROVE \A r \in Requests : bills[r] = req[r].bill /\ bills[r] \in Nat
BY DEF BillsBounded, bills

LEMMA BillsMove ==
    ASSUME BillsBounded, BillsBounded', NEW r \in Requests, OnlyMoves(r),
           NEW S, NEW T, S \subseteq Requests, T \subseteq Requests,
           \A y \in Requests \ {r} : y \in S <=> y \in T
    PROVE /\ Sum(bills, S) \in Nat /\ Sum(bills', T) \in Nat
          /\ Sum(bills', T) = Sum(bills, S) - (IF r \in S THEN req[r].bill ELSE 0)
                                            + (IF r \in T THEN req'[r].bill ELSE 0)
<1> DEFINE f == bills
           g == bills'
<1>1. /\ \A y \in Requests : f[y] = req[y].bill /\ f[y] \in Nat
      /\ \A y \in Requests : g[y] = req'[y].bill /\ g[y] \in Nat
  BY DEF BillsBounded, bills
<1>2. \A y \in Requests \ {r} : f[y] = g[y] /\ (y \in S <=> y \in T)
  BY <1>1 DEF OnlyMoves
<1> HIDE DEF f, g
<1>3. /\ Sum(f, S) \in Nat /\ Sum(g, T) \in Nat
      /\ Sum(g, T) = Sum(f, S) - (IF r \in S THEN f[r] ELSE 0) + (IF r \in T THEN g[r] ELSE 0)
  <2>1. \A y \in Requests : f[y] \in Nat /\ g[y] \in Nat
    BY <1>1
  <2>2. IsFiniteSet(Requests)
    BY CreditGateAssumption
  <2> QED BY <1>2, <2>1, <2>2, SumMove
<1> QED BY <1>1, <1>3 DEF f, g

LEMMA UnbilledMove ==
    ASSUME BillsBounded, BillsBounded', NEW r \in Requests, OnlyMoves(r), NEW A
    PROVE /\ Unbilled(A) \in Nat /\ Unbilled(A)' \in Nat
          /\ Unbilled(A)' = Unbilled(A)
                - (IF req[r].pc \in A /\ req[r].seq > 0 THEN req[r].bill ELSE 0)
                + (IF req'[r].pc \in A /\ req'[r].seq > 0 THEN req'[r].bill ELSE 0)
<1> DEFINE S == {q \in In(A) : req[q].seq > 0}
           T == {q \in In(A)' : req'[q].seq > 0}
<1>1. /\ \A y \in Requests : y \in S <=> req[y].pc \in A /\ req[y].seq > 0
      /\ \A y \in Requests : y \in T <=> req'[y].pc \in A /\ req'[y].seq > 0
      /\ S \subseteq Requests /\ T \subseteq Requests
  BY DEF In
<1>2. Unbilled(A) = Sum(bills, S) /\ Unbilled(A)' = Sum(bills', T)
  BY DEF Unbilled, Sum
<1> HIDE DEF S, T
<1>3. \A y \in Requests \ {r} : y \in S <=> y \in T
  BY <1>1 DEF OnlyMoves
<1> QED BY <1>1, <1>2, <1>3, BillsMove

\* Only one element of a set counts.
LEMMA SumOnly ==
    ASSUME NEW f, NEW S, IsFiniteSet(S), \A x \in S : f[x] \in Nat, NEW p,
           \A x \in S \ {p} : f[x] = 0
    PROVE Sum(f, S) = IF p \in S THEN f[p] ELSE 0
<1>1. IsFiniteSet(S \ {p}) /\ Sum(f, {}) = 0
  BY FS_Subset, SumEmpty
<1>2. Sum(f, S \ {p}) = 0
  <2> DEFINE T == S \ {p}
  <2>1. IsFiniteSet(T) /\ {} \subseteq T /\ (\A x \in T : f[x] \in Nat) /\ \A x \in T \ {} : f[x] = 0
    BY <1>1
  <2> HIDE DEF T
  <2>2. Sum(f, {}) = Sum(f, T)
    BY <2>1, SumPart
  <2> QED BY <1>1, <2>2 DEF T
<1>3. CASE p \in S
  <2>1. Sum(f, S \ {p}) = Sum(f, S) - f[p] /\ Sum(f, S) \in Nat /\ f[p] \in Nat
    BY <1>3, SumDrop, SumNat
  <2> QED BY <1>2, <1>3, <2>1
<1>4. CASE p \notin S
  <2>1. S \ {p} = S
    BY <1>4
  <2> QED BY <1>2, <1>4, <2>1
<1> QED BY <1>3, <1>4

LEMMA PendingCoversStep ==
    Shape /\ BillsBounded /\ BillsBounded' /\ LogOwned /\ ConfirmedInOrder /\ PendingCovers
        /\ StepKinds => PendingCovers'
<1> SUFFICES ASSUME Shape, BillsBounded, BillsBounded', LogOwned, ConfirmedInOrder, PendingCovers,
                    StepKinds
             PROVE PendingCovers'
  OBVIOUS
<1> DEFINE U == Unbilled(NeverTruedUp)
<1>0. /\ Len(log) \in Nat /\ \A i \in 1 .. Len(log) : log[i] \in Nat
      /\ confirmedHigh \in Nat /\ confirmedHigh <= Len(log)
      /\ cursor \in Nat /\ cursor <= Len(log) /\ pending \in Nat
      /\ Sum(log, confirmedHigh + 1 .. Len(log)) <= pending + U
  BY LogFacts DEF ConfirmedInOrder, PendingCovers
<1>a. Sum(log, confirmedHigh + 1 .. Len(log)) \in Nat
  <2>1. \A i \in confirmedHigh + 1 .. Len(log) : log[i] \in Nat
    BY <1>0
  <2>2. IsFiniteSet(confirmedHigh + 1 .. Len(log))
    BY <1>0, FS_Interval
  <2> QED BY <2>1, <2>2, SumNat
<1>b. U \in Nat
  <2>1. /\ IsFiniteSet({r \in In(NeverTruedUp) : req[r].seq > 0})
        /\ {r \in In(NeverTruedUp) : req[r].seq > 0} \subseteq Requests
    BY CreditGateAssumption, FS_Subset DEF In
  <2> QED BY <2>1, BillsFacts, SumNat DEF Unbilled, Sum
<1>1. ASSUME NEW r \in Requests, Effect(r) PROVE PendingCovers'
  <2>1. OnlyMoves(r) /\ confirmedHigh' = confirmedHigh
    BY <1>1 DEF Effect, ledgerVars
  <2>2. /\ req[r].bill \in Nat /\ req'[r].bill \in Nat /\ req[r].seq \in Nat
        /\ req[r].pc \in Early => req[r].bill = 0 /\ req[r].seq = 0
    BY ShapeFacts DEF BillsBounded
  <2>3. /\ U' \in Nat
        /\ U' = U - (IF req[r].pc \in NeverTruedUp /\ req[r].seq > 0 THEN req[r].bill ELSE 0)
                  + (IF req'[r].pc \in NeverTruedUp /\ req'[r].seq > 0 THEN req'[r].bill ELSE 0)
    BY <2>1, UnbilledMove
  <2> HIDE DEF U
  <2>4. CASE Stays(r) \/ Places(r)
    <3>1. log' = log /\ pending' = pending /\ req'[r].seq = req[r].seq /\ req'[r].bill = req[r].bill
      BY <2>4 DEF Stays, Places
    <3>2. req[r].seq = 0 \/ (req[r].pc \in NeverTruedUp /\ req'[r].pc \in NeverTruedUp)
      BY <2>2, <2>4 DEF Stays, Places, Early, NeverTruedUp
    <3>3. U' = U
      BY <1>b, <2>2, <2>3, <3>1, <3>2
    <3> QED BY <1>0, <2>1, <3>1, <3>3 DEF PendingCovers, U, Sum
  <2>5. CASE Emits(r)
    <3>1. /\ req[r].seq = 0 /\ req'[r].pc \in NeverTruedUp /\ pending' = pending
      BY <2>2, <2>5 DEF Emits, Early, NeverTruedUp
    <3>2. CASE log' = log /\ req'[r].seq = req[r].seq
      <4>1. U' = U
        BY <1>b, <2>2, <2>3, <3>1, <3>2
      <4> QED BY <1>0, <2>1, <3>1, <3>2, <4>1 DEF PendingCovers, U, Sum
    <3>3. CASE log' = Append(log, req'[r].bill) /\ req'[r].seq = Len(log) + 1
      <4>1. U' = U + req'[r].bill
        BY <1>0, <1>b, <2>2, <2>3, <3>1, <3>3
      <4>2. Sum(log', confirmedHigh + 1 .. Len(log'))
              = Sum(log, confirmedHigh + 1 .. Len(log)) + req'[r].bill
        BY <1>0, <2>2, <3>3, LogSumGrows
      <4>3. Sum(log', confirmedHigh + 1 .. Len(log')) <= pending' + U'
        BY <1>0, <1>a, <1>b, <2>2, <3>1, <4>1, <4>2
      <4> QED BY <1>0, <2>1, <3>1, <4>3 DEF PendingCovers, U
    <3> QED BY <2>5, <3>2, <3>3 DEF Emits
  <2>6. CASE Bills(r)
    <3>1. /\ log' = log /\ pending' = pending + req[r].bill
          /\ req[r].pc \in NeverTruedUp /\ req'[r].pc \notin NeverTruedUp
      BY <2>6 DEF Bills, NeverTruedUp
    <3>2. U' \in Nat /\ U' >= U - req[r].bill
      BY <1>b, <2>2, <2>3, <3>1
    <3>3. pending' \in Nat /\ Sum(log, confirmedHigh + 1 .. Len(log)) <= pending' + U'
      <4> DEFINE m == Sum(log, confirmedHigh + 1 .. Len(log))
      <4>1. m \in Nat /\ pending \in Nat /\ m <= pending + U
        BY <1>0, <1>a
      <4> HIDE DEF m
      <4>2. pending' \in Nat /\ m <= pending' + U'
        BY <1>b, <2>2, <3>1, <3>2, <4>1
      <4> QED BY <4>2 DEF m
    <3> QED BY <2>1, <3>1, <3>3 DEF PendingCovers, U, Sum
  <2> QED BY <1>1, <2>4, <2>5, <2>6 DEF Effect
<1>u. ASSUME req' = req PROVE U' = U
  BY <1>u DEF Unbilled, In, bills
<1>2. CASE ConfirmNext
  <2> DEFINE seq == cursor + 1
  <2>1. log' = log /\ req' = req /\ cursor < Len(log) /\ Confirm(log[seq], seq)
    BY <1>2 DEF ConfirmNext
  <2>2. CASE UNCHANGED <<confirmedHigh, pending>>
    BY <1>0, <1>u, <2>1, <2>2 DEF PendingCovers, Sum
  <2>3. CASE MoveToConfirmed(log[seq], seq) /\ seq > confirmedHigh
    <3>1. /\ confirmedHigh' = seq /\ seq \in Nat /\ log[seq] \in Nat /\ seq <= Len(log)
          /\ pending' = IF pending >= log[seq] THEN pending - log[seq] ELSE 0
      BY <1>0, <2>1, <2>3 DEF MoveToConfirmed
    <3>2. /\ Sum(log, seq + 1 .. Len(log)) \in Nat
          /\ Sum(log, seq + 1 .. Len(log)) + log[seq] <= Sum(log, confirmedHigh + 1 .. Len(log))
      <4>1. \A i \in confirmedHigh + 1 .. Len(log) : log[i] \in Nat
        BY <1>0
      <4>2. seq \in confirmedHigh .. Len(log) /\ cursor \in confirmedHigh .. Len(log)
        BY <1>0, <2>3, <3>1
      <4>3. /\ Sum(log, confirmedHigh + 1 .. seq) \in Nat
            /\ Sum(log, seq + 1 .. Len(log)) \in Nat
            /\ Sum(log, confirmedHigh + 1 .. Len(log))
                 = Sum(log, confirmedHigh + 1 .. seq) + Sum(log, seq + 1 .. Len(log))
        <5> HIDE DEF seq
        <5> QED BY <1>0, <4>1, <4>2, SumSplit
      <4>4. Sum(log, confirmedHigh + 1 .. cursor) \in Nat
        BY <1>0, <4>1, <4>2, SumSplit
      <4>5. Sum(log, confirmedHigh + 1 .. seq) = Sum(log, confirmedHigh + 1 .. cursor) + log[seq]
        <5>1. confirmedHigh <= cursor /\ \A i \in confirmedHigh + 1 .. cursor + 1 : log[i] \in Nat
          BY <1>0, <2>1, <4>2
        <5> QED BY <1>0, <5>1, SumExtend
      <4> HIDE DEF seq
      <4> QED BY <3>1, <4>3, <4>4, <4>5
    <3>3. pending' \in Nat /\ Sum(log, seq + 1 .. Len(log)) <= pending' + U
      <4> DEFINE m == Sum(log, confirmedHigh + 1 .. Len(log))
                 n == Sum(log, seq + 1 .. Len(log))
                 cost == log[seq]
      <4>1. /\ m \in Nat /\ pending \in Nat /\ m <= pending + U /\ n \in Nat /\ n + cost <= m
            /\ cost \in Nat /\ pending' = IF pending >= cost THEN pending - cost ELSE 0
        BY <1>0, <1>a, <3>1, <3>2
      <4> HIDE DEF m, n, cost, U
      <4>2. pending' \in Nat /\ n <= pending' + U
        BY <1>b, <4>1
      <4> QED BY <4>2 DEF n
    <3> QED BY <1>u, <2>1, <3>1, <3>3 DEF PendingCovers, Sum
  <2>4. log[seq] \in Nat
    BY <1>0, <2>1
  <2> QED BY <1>0, <2>1, <2>2, <2>3, <2>4 DEF Confirm
<1>3. CASE UNCHANGED <<log, req, confirmedHigh, pending>>
  BY <1>0, <1>u, <1>3 DEF PendingCovers, Sum
<1> QED
  BY <1>1, <1>2, <1>3 DEF StepKinds, Rewind, TopUp, Ingest, Push, Apply, vars, accountVars

LEMMA PendingIsOwedStep ==
    Shape /\ BillsBounded /\ BillsBounded' /\ LogOwned /\ ConfirmedInOrder /\ PendingCovers
        /\ PendingIsOwed /\ StepKinds => PendingIsOwed'
<1> SUFFICES ASSUME Shape, BillsBounded, BillsBounded', LogOwned, ConfirmedInOrder,
                    pending \in Nat, PendingIsOwed, StepKinds
             PROVE PendingIsOwed'
  BY DEF PendingCovers
<1> DEFINE S == {r \in In({"billed"}) : req[r].seq \notin 1 .. confirmedHigh}
           T == {r \in In({"released", "stranded"}) : req[r].seq \in 1 .. confirmedHigh}
<1>0. /\ Len(log) \in Nat /\ \A i \in 1 .. Len(log) : log[i] \in Nat
      /\ confirmedHigh \in Nat /\ confirmedHigh <= Len(log)
      /\ cursor \in Nat /\ cursor <= Len(log)
  BY LogFacts DEF ConfirmedInOrder
<1>a. /\ S \subseteq Requests /\ T \subseteq Requests
      /\ S' \subseteq Requests /\ T' \subseteq Requests
  BY DEF In
<1>b. /\ \A q \in Requests : q \in S <=> req[q].pc = "billed" /\ req[q].seq \notin 1 .. confirmedHigh
      /\ \A q \in Requests : q \in T <=> /\ req[q].pc \in {"released", "stranded"}
                                         /\ req[q].seq \in 1 .. confirmedHigh
      /\ \A q \in Requests : q \in S' <=> req'[q].pc = "billed" /\ req'[q].seq \notin 1 .. confirmedHigh'
      /\ \A q \in Requests : q \in T' <=> /\ req'[q].pc \in {"released", "stranded"}
                                          /\ req'[q].seq \in 1 .. confirmedHigh'
  BY DEF In
<1>c. /\ pending <= Sum(bills, S) /\ Sum(bills, S) <= pending + Sum(bills, T)
      /\ Sum(bills, S) \in Nat /\ Sum(bills, T) \in Nat
  <2>1. IsFiniteSet(S) /\ IsFiniteSet(T)
    BY <1>a, CreditGateAssumption, FS_Subset
  <2>2. (\A q \in S : bills[q] \in Nat) /\ (\A q \in T : bills[q] \in Nat)
    BY <1>a, BillsFacts
  <2> HIDE DEF S, T
  <2>3. Sum(bills, S) \in Nat /\ Sum(bills, T) \in Nat
    BY <2>1, <2>2, SumNat
  <2> QED BY <2>3 DEF PendingIsOwed, Owed, TakenOut, S, T
<1>d. ASSUME pending' <= Sum(bills', S'), Sum(bills', S') <= pending' + Sum(bills', T')
      PROVE PendingIsOwed'
  BY <1>d DEF PendingIsOwed, Owed, TakenOut, Sum
<1>1. ASSUME NEW r \in Requests, Effect(r) PROVE PendingIsOwed'
  <2>1. OnlyMoves(r) /\ confirmedHigh' = confirmedHigh
    BY <1>1 DEF Effect, ledgerVars
  <2>2. req[r].pc \notin Settled
    BY <1>1 DEF Effect, Stays, Places, Emits, Bills, Settled
  <2>3. req[r].seq \notin 1 .. confirmedHigh
    BY <2>2 DEF LogOwned
  <2>4. req'[r].seq \notin 1 .. confirmedHigh
    BY <1>0, <1>1, <2>3 DEF Effect, Stays, Places, Emits, Bills
  <2>5. r \notin S /\ r \notin T /\ r \notin T' /\ (r \in S' <=> req'[r].pc = "billed")
    BY <1>b, <2>1, <2>2, <2>4 DEF Settled
  <2>6. \A y \in Requests \ {r} : (y \in S <=> y \in S') /\ (y \in T <=> y \in T')
    BY <1>b, <2>1 DEF OnlyMoves
  <2>7. /\ Sum(bills', S') = Sum(bills, S) - 0 + (IF r \in S' THEN req'[r].bill ELSE 0)
        /\ Sum(bills', T') = Sum(bills, T) - 0 + 0
    <3> HIDE DEF S, T
    <3>1. Sum(bills', S') = Sum(bills, S) - (IF r \in S THEN req[r].bill ELSE 0)
                                          + (IF r \in S' THEN req'[r].bill ELSE 0)
      BY <1>a, <2>1, <2>6, BillsMove
    <3>2. Sum(bills', T') = Sum(bills, T) - (IF r \in T THEN req[r].bill ELSE 0)
                                          + (IF r \in T' THEN req'[r].bill ELSE 0)
      BY <1>a, <2>1, <2>6, BillsMove
    <3> QED BY <2>5, <3>1, <3>2
  <2>8. pending' = pending + (IF r \in S' THEN req'[r].bill ELSE 0) /\ req'[r].bill \in Nat
    <3>1. req'[r].bill \in Nat
      BY DEF BillsBounded
    <3>2. CASE Bills(r)
      BY <2>5, <3>1, <3>2 DEF Bills
    <3>3. CASE Stays(r) \/ Places(r) \/ Emits(r)
      <4>1. pending' = pending /\ req'[r].pc # "billed"
        BY <3>3 DEF Stays, Places, Emits
      <4> QED BY <2>5, <3>1, <4>1
    <3> QED BY <1>1, <3>1, <3>2, <3>3 DEF Effect
  <2>9. pending' <= Sum(bills', S') /\ Sum(bills', S') <= pending' + Sum(bills', T')
    <3> HIDE DEF S, T
    <3> QED BY <1>c, <2>7, <2>8
  <2> QED BY <2>9, <1>d
<1>2. CASE ConfirmNext
  <2> DEFINE seq == cursor + 1
             cost == log[seq]
  <2>1. log' = log /\ req' = req /\ cursor < Len(log) /\ Confirm(cost, seq) /\ Resolved(seq)
    BY <1>2 DEF ConfirmNext
  <2>2. CASE UNCHANGED <<confirmedHigh, pending>>
    <3>1. S' = S /\ T' = T /\ bills' = bills
      BY <2>1, <2>2 DEF In, bills
    <3> QED BY <1>c, <1>d, <2>2, <3>1
  <2>3. CASE MoveToConfirmed(cost, seq) /\ seq > confirmedHigh
    <3>1. /\ confirmedHigh' = seq /\ seq \in Nat /\ cost \in Nat /\ seq \in 1 .. Len(log)
          /\ pending' = IF pending >= cost THEN pending - cost ELSE 0
      BY <1>0, <2>1, <2>3 DEF MoveToConfirmed
    <3>2. PICK p \in Requests : req[p].seq = seq
      BY <3>1 DEF LogOwned
    <3>3. bills[p] = cost /\ req[p].pc \in Settled
      BY <2>1, <3>1, <3>2, BillsFacts DEF LogOwned, Resolved, Settled
    <3>4. ASSUME NEW q \in Requests \ {p}, req[q].seq \in 1 .. seq, req[q].seq \notin 1 .. confirmedHigh
          PROVE bills[q] = 0
      <4>1. req[q].seq # seq
        BY <3>1, <3>2, <3>4 DEF LogOwned
      <4>2. req[q].seq \in 1 .. cursor /\ ~(req[q].seq <= confirmedHigh) /\ req[q].seq > 0
        BY <1>0, <3>4, <4>1
      <4>3. log[req[q].seq] = 0
        BY <4>2 DEF ConfirmedInOrder
      <4> QED BY <4>2, <4>3, BillsFacts DEF LogOwned
    <3>5. 1 .. confirmedHigh \subseteq 1 .. seq /\ seq \notin 1 .. confirmedHigh
      BY <1>0, <2>3, <3>1
    <3>6. bills' = bills
      BY <2>1 DEF bills
    <3> HIDE DEF cost, seq
    <3>7. /\ S' \subseteq S /\ T \subseteq T' /\ IsFiniteSet(S) /\ IsFiniteSet(T')
          /\ IsFiniteSet(S \ S') /\ IsFiniteSet(T' \ T)
          /\ \A q \in (S \ S') \cup (T' \ T) : q # p => bills[q] = 0
          /\ p \in S \ S' <=> req[p].pc = "billed"
          /\ p \in T' \ T <=> req[p].pc # "billed"
      <4>1. IsFiniteSet(S) /\ IsFiniteSet(T')
        BY <1>a, CreditGateAssumption, FS_Subset
      <4>2. S' \subseteq S /\ T \subseteq T'
        BY <1>a, <1>b, <2>1, <3>1, <3>5
      <4>3. \A q \in (S \ S') \cup (T' \ T) :
               q \in Requests /\ req[q].seq \in 1 .. seq /\ req[q].seq \notin 1 .. confirmedHigh
        BY <1>a, <1>b, <2>1, <3>1
      <4>4. seq \in 1 .. seq
        BY <3>1
      <4>5. /\ p \in S \ S' <=> req[p].pc = "billed"
            /\ p \in T' \ T <=> req[p].pc # "billed"
        BY <1>b, <2>1, <3>1, <3>2, <3>3, <3>5, <4>4 DEF Settled
      <4> HIDE DEF S, T
      <4>6. IsFiniteSet(S \ S') /\ IsFiniteSet(T' \ T)
        BY <4>1, FS_Subset
      <4> QED BY <3>4, <4>1, <4>2, <4>3, <4>5, <4>6
    <3>8. /\ \A q \in S : bills[q] \in Nat
          /\ \A q \in T' : bills[q] \in Nat
      BY <1>a, BillsFacts
    <3> DEFINE D == S \ S'
               E == T' \ T
    <3>9. /\ Sum(bills, S) = Sum(bills, S') + Sum(bills, D) /\ Sum(bills, S') \in Nat
          /\ Sum(bills, T') = Sum(bills, T) + Sum(bills, E) /\ Sum(bills, T') \in Nat
      <4> HIDE DEF S, T
      <4>1. /\ Sum(bills, S) = Sum(bills, S') + Sum(bills, S \ S')
            /\ Sum(bills, S') \in Nat
        <5>1. IsFiniteSet(S) /\ S' \subseteq S /\ \A q \in S : bills[q] \in Nat
          BY <3>7, <3>8
        <5> QED BY <5>1, SumPart
      <4>2. /\ Sum(bills, T') = Sum(bills, T) + Sum(bills, T' \ T)
            /\ Sum(bills, T') \in Nat
        <5>1. IsFiniteSet(T') /\ T \subseteq T' /\ \A q \in T' : bills[q] \in Nat
          BY <3>7, <3>8
        <5> QED BY <5>1, SumPart
      <4> QED BY <4>1, <4>2
    <3>10. /\ Sum(bills, D) = IF p \in D THEN cost ELSE 0
           /\ Sum(bills, E) = IF p \in E THEN cost ELSE 0
      <4>1. /\ IsFiniteSet(D) /\ IsFiniteSet(E)
            /\ \A q \in D : bills[q] \in Nat
            /\ \A q \in E : bills[q] \in Nat
            /\ \A q \in D \ {p} : bills[q] = 0
            /\ \A q \in E \ {p} : bills[q] = 0
        BY <3>7, <3>8
      <4> HIDE DEF D, E
      <4> QED BY <3>3, <4>1, SumOnly
    <3>11. (p \in D <=> req[p].pc = "billed") /\ (p \in E <=> req[p].pc # "billed")
      BY <3>7
    <3>12. pending' <= Sum(bills, S') /\ Sum(bills, S') <= pending' + Sum(bills, T')
      <4> HIDE DEF S, T, D, E
      <4> DEFINE a == Sum(bills, S)
                 b == Sum(bills, S')
                 c == Sum(bills, T)
                 d == Sum(bills, T')
      <4>1. /\ a \in Nat /\ b \in Nat /\ c \in Nat /\ d \in Nat /\ pending <= a /\ a <= pending + c
            /\ \/ a = b + cost /\ d = c + 0
               \/ a = b + 0 /\ d = c + cost
        BY <1>c, <3>9, <3>10, <3>11
      <4> HIDE DEF a, b, c, d
      <4>2. pending' <= b /\ b <= pending' + d
        BY <3>1, <4>1
      <4> QED BY <4>2 DEF b, d
    <3> QED BY <1>d, <3>6, <3>12
  <2>4. cost \in Nat
    BY <1>0, <2>1
  <2> QED BY <1>0, <2>1, <2>2, <2>3, <2>4 DEF Confirm
<1>3. CASE UNCHANGED <<req, confirmedHigh, pending>>
  <2>1. S' = S /\ T' = T /\ bills' = bills
    BY <1>3 DEF In, bills
  <2> QED BY <1>c, <1>d, <1>3, <2>1
<1> QED
  BY <1>1, <1>2, <1>3 DEF StepKinds, Rewind, TopUp, Ingest, Push, Apply, vars, accountVars

(***************************************************************************)
(* The balance the gate decides on.                                        *)
(***************************************************************************)
LEMMA LogParts ==
    ASSUME LogOwned, ConfirmedInOrder, ConfirmedIsLogged
    PROVE LET rest == Sum(log, ackWatermark + 1 .. Len(log))
              high == Sum(log, confirmedHigh + 1 .. Len(log))
          IN  /\ Sum(log, 1 .. ackWatermark) \in Nat /\ rest \in Nat /\ high \in Nat
              /\ Logged = Sum(log, 1 .. ackWatermark) + rest
              /\ confirmedSum \in Nat /\ rest <= confirmedSum + high
              /\ cursor = Len(log) => rest = confirmedSum
<1> DEFINE n == Len(log)
           w == ackWatermark
           h == confirmedHigh
<1>0. /\ n \in Nat /\ \A i \in 1 .. n : log[i] \in Nat
      /\ h \in Nat /\ h <= n /\ w \in Nat /\ w <= n /\ cursor \in Nat
      /\ confirmedSum = Sum(log, w + 1 .. h)
  BY LogFacts DEF ConfirmedInOrder, ConfirmedIsLogged
<1>z. ASSUME cursor = n PROVE \A i \in 1 .. n : i <= h \/ log[i] = 0
  BY <1>z DEF ConfirmedInOrder
<1>l. Logged = Sum(log, 1 .. n)
  BY DEF Logged, SumSeq, Sum
<1> HIDE DEF n, w, h
<1>1. /\ Sum(log, 1 .. w) \in Nat /\ Sum(log, w + 1 .. n) \in Nat
      /\ Sum(log, 1 .. n) = Sum(log, 1 .. w) + Sum(log, w + 1 .. n)
  <2>1. w \in 0 .. n /\ 0 \in Nat /\ 0 + 1 = 1 /\ \A i \in 0 + 1 .. n : log[i] \in Nat
    BY <1>0
  <2>n. n \in Nat
    BY <1>0
  <2>2. /\ Sum(log, 0 + 1 .. w) \in Nat /\ Sum(log, w + 1 .. n) \in Nat
        /\ Sum(log, 0 + 1 .. n) = Sum(log, 0 + 1 .. w) + Sum(log, w + 1 .. n)
    BY ONLY <2>n, <2>1, SumSplit
  <2> QED BY <2>1, <2>2
<1> DEFINE A == w + 1 .. n
           B == w + 1 .. h
           C == h + 1 .. n
<1>2. /\ IsFiniteSet(A) /\ IsFiniteSet(B) /\ IsFiniteSet(C)
      /\ \A i \in A : log[i] \in Nat
      /\ \A i \in B : log[i] \in Nat
      /\ \A i \in C : log[i] \in Nat
      /\ B \subseteq A /\ A \ B \subseteq C
      /\ \A i \in A \ B : i \in 1 .. n /\ ~(i <= h)
  <2>1. IsFiniteSet(A) /\ IsFiniteSet(B) /\ IsFiniteSet(C)
    BY <1>0, FS_Interval
  <2> QED BY <1>0, <2>1
<1>3. /\ Sum(log, B) \in Nat /\ Sum(log, C) \in Nat /\ Sum(log, A \ B) <= Sum(log, C)
      /\ Sum(log, A) = Sum(log, B) + Sum(log, A \ B) /\ Sum(log, A \ B) \in Nat
  <2> HIDE DEF A, B, C
  <2>1. Sum(log, A) = Sum(log, B) + Sum(log, A \ B) /\ Sum(log, B) \in Nat
    <3>1. IsFiniteSet(A) /\ B \subseteq A /\ \A i \in A : log[i] \in Nat
      BY <1>2
    <3>2. Sum(log, A) = Sum(log, B) + Sum(log, A \ B)
      BY <3>1, SumPart
    <3>3. Sum(log, B) \in Nat
      BY <3>1, SumPart
    <3> QED BY <3>2, <3>3
  <2>2. Sum(log, A \ B) \in Nat /\ Sum(log, C) \in Nat /\ Sum(log, A \ B) <= Sum(log, C)
    BY <1>2, SumPart
  <2> QED BY <2>1, <2>2
<1>4. ASSUME cursor = n PROVE Sum(log, A) = Sum(log, B)
  <2>1. \A i \in A \ B : log[i] = 0
    BY <1>2, <1>4, <1>z
  <2> HIDE DEF A, B, C
  <2> QED BY <1>2, <2>1, SumPart
<1>5. Sum(log, A) <= Sum(log, B) + Sum(log, C)
  <2> HIDE DEF A, B, C
  <2> QED BY <1>3
<1> QED BY <1>0, <1>l, <1>1, <1>3, <1>4, <1>5 DEF n, w, h

LEMMA RequestSums ==
    ASSUME Shape, BillsBounded
    PROVE /\ \A A : HoldsOf(A) \in Nat /\ Unbilled(A) \in Nat
          /\ \A A, B : A \subseteq B => HoldsOf(A) <= HoldsOf(B) /\ Unbilled(A) <= Unbilled(B)
          /\ \A A, B : A \cap B = {} =>
                /\ HoldsOf(A \cup B) = HoldsOf(A) + HoldsOf(B)
                /\ Unbilled(A \cup B) = Unbilled(A) + Unbilled(B)
          /\ \A A : "released" \notin A => Unbilled(A) <= HoldsOf(A)
<1> DEFINE P(A) == {r \in In(A) : req[r].seq > 0}
<1>1. \A r \in Requests : holds[r] = req[r].hold /\ holds[r] \in Nat
  BY ShapeFacts DEF holds
<1>2. \A r \in Requests : bills[r] = req[r].bill /\ bills[r] \in Nat
  BY BillsFacts
<1>3. \A A : /\ IsFiniteSet(In(A)) /\ In(A) \subseteq Requests
             /\ IsFiniteSet(P(A)) /\ P(A) \subseteq In(A)
  <2> TAKE A
  <2>1. In(A) \subseteq Requests /\ P(A) \subseteq In(A)
    BY DEF In
  <2> QED BY <2>1, CreditGateAssumption, FS_Subset
<1>4. \A A : HoldsOf(A) = Sum(holds, In(A)) /\ Unbilled(A) = Sum(bills, P(A))
  BY DEF HoldsOf, Unbilled, Sum
<1>5. \A A, B : A \subseteq B => In(A) \subseteq In(B) /\ P(A) \subseteq P(B)
  BY DEF In
<1>6. ASSUME NEW A, NEW B, A \cap B = {}
      PROVE /\ In(A \cup B) = In(A) \cup In(B) /\ In(A) \cap In(B) = {}
            /\ P(A \cup B) = P(A) \cup P(B) /\ P(A) \cap P(B) = {}
  BY <1>6 DEF In
<1>7. ASSUME NEW A PROVE HoldsOf(A) \in Nat /\ Unbilled(A) \in Nat
  <2> HIDE DEF P
  <2> QED BY <1>1, <1>2, <1>3, <1>4, SumNat
<1>8. ASSUME NEW A, NEW B, A \subseteq B
      PROVE HoldsOf(A) <= HoldsOf(B) /\ Unbilled(A) <= Unbilled(B)
  <2>1. /\ IsFiniteSet(In(B)) /\ In(A) \subseteq In(B) /\ \A r \in In(B) : holds[r] \in Nat
        /\ IsFiniteSet(P(B)) /\ P(A) \subseteq P(B) /\ \A r \in P(B) : bills[r] \in Nat
    BY <1>1, <1>2, <1>3, <1>5, <1>8
  <2> HIDE DEF P
  <2> QED BY <1>4, <2>1, SumPart
<1>9. ASSUME NEW A, NEW B, A \cap B = {}
      PROVE /\ HoldsOf(A \cup B) = HoldsOf(A) + HoldsOf(B)
            /\ Unbilled(A \cup B) = Unbilled(A) + Unbilled(B)
  <2>1. /\ \A r \in In(A) \cup In(B) : holds[r] \in Nat
        /\ \A r \in P(A) \cup P(B) : bills[r] \in Nat
    BY <1>1, <1>2, <1>3
  <2>2. /\ In(A \cup B) = In(A) \cup In(B) /\ In(A) \cap In(B) = {}
        /\ P(A \cup B) = P(A) \cup P(B) /\ P(A) \cap P(B) = {}
    BY <1>6, <1>9
  <2>3. IsFiniteSet(In(A)) /\ IsFiniteSet(In(B)) /\ IsFiniteSet(P(A)) /\ IsFiniteSet(P(B))
    BY <1>3
  <2> HIDE DEF P
  <2>4. Sum(holds, In(A) \cup In(B)) = Sum(holds, In(A)) + Sum(holds, In(B))
    BY <2>1, <2>2, <2>3, SumUnion
  <2>5. Sum(bills, P(A) \cup P(B)) = Sum(bills, P(A)) + Sum(bills, P(B))
    BY <2>1, <2>2, <2>3, SumUnion
  <2> QED BY <1>4, <2>2, <2>4, <2>5
<1>10. ASSUME NEW A, "released" \notin A PROVE Unbilled(A) <= HoldsOf(A)
  <2>1. \A r \in In(A) : req[r].pc # "released" /\ r \in Requests
    BY <1>10 DEF In
  <2>2. \A r \in P(A) : bills[r] \in Nat /\ holds[r] \in Nat /\ bills[r] <= holds[r]
    BY <1>1, <1>2, <1>3, <2>1 DEF BillsBounded
  <2>3. \A r \in In(A) : holds[r] \in Nat
    BY <1>1, <2>1
  <2>4. IsFiniteSet(In(A)) /\ IsFiniteSet(P(A)) /\ P(A) \subseteq In(A)
    BY <1>3
  <2> HIDE DEF P
  <2>5. /\ Sum(bills, P(A)) <= Sum(holds, P(A)) /\ Sum(holds, P(A)) \in Nat
        /\ Sum(bills, P(A)) \in Nat
    BY <2>2, <2>4, SumLeq
  <2>6. Sum(holds, P(A)) <= Sum(holds, In(A)) /\ Sum(holds, In(A)) \in Nat
    BY <2>3, <2>4, SumPart
  <2> QED BY <1>4, <2>5, <2>6
<1> QED BY <1>7, <1>8, <1>9, <1>10

LEMMA Honest ==
    HoldInv /\ BillsBounded /\ LogOwned /\ ConfirmedInOrder /\ ConfirmedIsLogged
        /\ SnapshotsOrdered /\ PendingCovers => NeverOverstated
<1> SUFFICES ASSUME Shape, ReservedIsHeld, BillsBounded, LogOwned, ConfirmedInOrder,
                    ConfirmedIsLogged, SnapshotsOrdered, PendingCovers
             PROVE NeverOverstated
  BY DEF HoldInv
<1> DEFINE M == {"metered", "unmeasured", "panicked", "stranded"}
<1>1. NeverTruedUp = {"released"} \cup M /\ {"released"} \cap M = {} /\ "released" \notin M
  BY DEF NeverTruedUp
<1>2. {"held"} \cap M = {} /\ {"held"} \cup M \subseteq Open
  BY DEF Open
<1>3. reserved = HoldsOf(Open)
  BY DEF ReservedIsHeld, Open
<1> HIDE DEF M
<1>4. /\ Unbilled(NeverTruedUp) = Unbilled({"released"}) + Unbilled(M)
      /\ Unbilled({"released"}) \in Nat /\ Unbilled(M) \in Nat
      /\ Unbilled(M) <= HoldsOf(M) /\ HoldsOf(M) \in Nat
  BY <1>1, RequestSums
<1>5. HoldsOf({"held"}) + HoldsOf(M) <= reserved /\ HoldsOf({"held"}) \in Nat /\ reserved \in Nat
  <2>1. HoldsOf({"held"} \cup M) = HoldsOf({"held"}) + HoldsOf(M)
    BY <1>2, RequestSums
  <2>2. HoldsOf({"held"} \cup M) <= HoldsOf(Open)
    BY <1>2, RequestSums
  <2>3. HoldsOf({"held"}) \in Nat /\ HoldsOf(Open) \in Nat
    BY RequestSums
  <2> QED BY <1>3, <2>1, <2>2, <2>3
<1> DEFINE a == Sum(log, 1 .. ackWatermark)
           b == Sum(log, ackWatermark + 1 .. Len(log))
           c == Sum(log, confirmedHigh + 1 .. Len(log))
           H == HoldsOf({"held"})
           K == HoldsOf(M)
           U == Unbilled({"released"})
           V == Unbilled(M)
<1>6. /\ a \in Nat /\ b \in Nat /\ c \in Nat /\ Logged = a + b
      /\ confirmedSum \in Nat /\ b <= confirmedSum + c
  BY LogParts
<1>7. allowance \in Nat /\ allowance + a <= Granted
  BY DEF SnapshotsOrdered
<1>8. pending \in Nat /\ c <= pending + (U + V)
  BY <1>4 DEF PendingCovers
<1>9. Granted \in Nat
  <2>1. home.grants \in 0 .. Len(Grants) /\ home.grants \in 0 .. home.grants
    BY CreditGateAssumption DEF SnapshotsOrdered
  <2> QED BY <2>1, GrantedGrows DEF Granted
<1>10. V <= K /\ U \in Nat /\ V \in Nat /\ K \in Nat /\ H \in Nat /\ H + K <= reserved
  BY <1>4, <1>5
<1> HIDE DEF a, b, c, H, K, U, V
<1>11. allowance - reserved - pending - confirmedSum <= Granted + U - Logged - H
  BY <1>5, <1>6, <1>7, <1>8, <1>9, <1>10
<1> QED BY <1>11 DEF NeverOverstated, available, H, U

LEMMA NoOverspendStep ==
    Shape /\ Shape' /\ BillsBounded /\ BillsBounded' /\ LogOwned /\ SnapshotsOrdered
        /\ available \in Int /\ NeverOverstated /\ NoOverspend /\ StepKinds => NoOverspend'
<1> SUFFICES ASSUME Shape, Shape', BillsBounded, BillsBounded', LogOwned, SnapshotsOrdered,
                    available \in Int, NeverOverstated, NoOverspend, StepKinds
             PROVE NoOverspend'
  OBVIOUS
<1> DEFINE H == HoldsOf({"held"})
           U == Unbilled({"released"})
<1>0. /\ Logged + H <= Granted + U /\ available <= Granted + U - Logged - H
  BY DEF NoOverspend, NeverOverstated
<1>1. H \in Nat /\ U \in Nat /\ Logged \in Nat /\ Granted \in Nat
  <2>1. H \in Nat /\ U \in Nat
    BY RequestSums
  <2>2. Len(log) \in 0 .. Len(log)
    BY LogFacts
  <2>3. Logged \in Nat
    BY <2>2, LogPrefixSum DEF Logged, SumSeq, Sum
  <2>4. home.grants \in 0 .. Len(Grants) /\ home.grants \in 0 .. home.grants
    BY CreditGateAssumption DEF SnapshotsOrdered
  <2>5. Granted \in Nat
    BY <2>4, GrantedGrows DEF Granted
  <2> QED BY <2>1, <2>3, <2>5
<1>2. ASSUME NEW r \in Requests, Effect(r) PROVE NoOverspend'
  <2>1. OnlyMoves(r) /\ Granted' = Granted
    BY <1>2 DEF Effect, ledgerVars, Granted, SumSeq
  <2>2. /\ req[r].hold \in Nat /\ req'[r].hold \in Nat /\ req[r].bill \in Nat /\ req'[r].bill \in Nat
        /\ req[r].pc \in Early => req[r].bill = 0 /\ req[r].seq = 0
    BY ShapeFacts DEF Shape, Rows, BillsBounded
  <2>3. /\ H' \in Nat
        /\ H' = H - (IF req[r].pc = "held" THEN req[r].hold ELSE 0)
                  + (IF req'[r].pc = "held" THEN req'[r].hold ELSE 0)
    <3>1. /\ H' \in Nat
          /\ H' = H - (IF req[r].pc \in {"held"} THEN req[r].hold ELSE 0)
                    + (IF req'[r].pc \in {"held"} THEN req'[r].hold ELSE 0)
      BY <2>1, HoldsMove
    <3> QED BY <3>1
  <2>4. /\ U' \in Nat
        /\ U' = U - (IF req[r].pc = "released" /\ req[r].seq > 0 THEN req[r].bill ELSE 0)
                  + (IF req'[r].pc = "released" /\ req'[r].seq > 0 THEN req'[r].bill ELSE 0)
    <3>1. /\ U' \in Nat
          /\ U' = U - (IF req[r].pc \in {"released"} /\ req[r].seq > 0 THEN req[r].bill ELSE 0)
                    + (IF req'[r].pc \in {"released"} /\ req'[r].seq > 0 THEN req'[r].bill ELSE 0)
      BY <2>1, UnbilledMove
    <3> QED BY <3>1
  <2> SUFFICES Logged' + H' <= Granted + U'
    BY <2>1 DEF NoOverspend
  <2> HIDE DEF H, U
  <2>5. req[r].pc # "released"
    BY <1>2 DEF Effect, Stays, Places, Emits, Bills
  <2>6. U' >= U
    BY <1>1, <2>2, <2>4, <2>5
  <2>7. ASSUME log' = log PROVE Logged' = Logged
    BY <2>7 DEF Logged, SumSeq
  <2>8. CASE Stays(r) \/ Bills(r)
    <3>1. log' = log /\ req'[r].pc # "held"
      BY <2>8 DEF Stays, Bills
    <3>2. H' <= H
      BY <1>1, <2>2, <2>3, <3>1
    <3> QED BY <1>0, <1>1, <2>3, <2>4, <2>6, <2>7, <3>1, <3>2
  <2>9. CASE Places(r)
    <3>1. log' = log /\ req[r].pc # "held" /\ req'[r].pc = "held" /\ ~(available < req'[r].hold)
      BY <2>9 DEF Places
    <3>2. H' = H + req'[r].hold
      BY <1>1, <2>2, <2>3, <3>1
    <3> QED BY <1>0, <1>1, <2>2, <2>3, <2>4, <2>6, <2>7, <3>1, <3>2
  <2>10. CASE Emits(r)
    <3>1. req'[r].pc # "held"
      BY <2>10 DEF Emits
    <3>2. CASE log' = log
      <4>1. H' <= H
        BY <1>1, <2>2, <2>3, <3>1
      <4> QED BY <1>0, <1>1, <2>3, <2>4, <2>6, <2>7, <3>2, <4>1
    <3>3. CASE log' = Append(log, req'[r].bill) /\ req'[r].seq = Len(log) + 1
      <4>1. Logged' = Logged + req'[r].bill
        <5>1. 0 \in 0 .. Len(log) /\ 0 + 1 = 1 /\ Len(log) \in Nat
          BY LogFacts
        <5>2. Sum(log', 0 + 1 .. Len(log')) = Sum(log, 0 + 1 .. Len(log)) + req'[r].bill
          BY <2>2, <3>3, <5>1, LogSumGrows
        <5> QED BY <5>1, <5>2 DEF Logged, SumSeq, Sum
      <4>2. CASE req[r].pc = "held" /\ req'[r].bill <= req[r].hold
        <5>1. H' = H - req[r].hold
          BY <1>1, <2>2, <2>3, <3>1, <4>2
        <5> QED BY <1>0, <1>1, <2>2, <2>3, <2>4, <2>6, <4>1, <4>2, <5>1
      <4>3. CASE req[r].pc = "unmetered" /\ req'[r].pc = "released"
        <5>1. H' = H
          BY <1>1, <2>2, <2>3, <4>3
        <5>2. U' = U + req'[r].bill
          <6>1. req'[r].seq > 0
            BY <3>3, LogFacts
          <6> QED BY <1>1, <2>2, <2>4, <4>3, <6>1
        <5> QED BY <1>0, <1>1, <2>2, <2>3, <2>4, <4>1, <5>1, <5>2
      <4> QED BY <2>10, <4>2, <4>3 DEF Emits
    <3> QED BY <2>10, <3>2, <3>3 DEF Emits
  <2> QED BY <1>2, <2>8, <2>9, <2>10 DEF Effect
<1>3. ASSUME req' = req, log' = log, Granted' \in Nat, Granted <= Granted' PROVE NoOverspend'
  <2>1. Logged' = Logged /\ H' = H /\ U' = U
    BY <1>3 DEF Logged, SumSeq, HoldsOf, Unbilled, In, holds, bills
  <2> DEFINE G == Granted
  <2>2. G \in Nat /\ G' \in Nat /\ G <= G' /\ Logged + H <= G + U
    BY <1>0, <1>1, <1>3
  <2> HIDE DEF H, U, G
  <2>a. \A a, b, c, d, e \in Nat : a + b <= c + d /\ c <= e => a + b <= e + d
    OBVIOUS
  <2>3. Logged + H <= G' + U
    BY <1>1, <2>2, <2>a
  <2>4. Logged' + H' <= G' + U'
    BY <2>1, <2>3
  <2> QED BY <2>4 DEF NoOverspend, H, U, G
<1>4. CASE TopUp
  <2>1. /\ home' = [home EXCEPT !.grants = @ + 1] /\ home.grants < Len(Grants)
        /\ req' = req /\ log' = log
    BY <1>4 DEF TopUp
  <2>2. /\ home'.grants = home.grants + 1
        /\ home.grants + 1 \in 0 .. Len(Grants) /\ home.grants \in 0 .. home.grants + 1
    BY <2>1, CreditGateAssumption DEF SnapshotsOrdered
  <2>3. Granted' \in Nat /\ Granted <= Granted'
    BY <2>2, GrantedGrows DEF Granted
  <2> QED BY <1>3, <2>1, <2>3
<1>5. CASE ConfirmNext \/ Rewind \/ Ingest \/ Push \/ Apply \/ UNCHANGED vars
  <2>1. req' = req /\ log' = log
    BY <1>5, ElsewhereLog DEF Elsewhere
  <2>2. home'.grants = home.grants
    BY <1>5 DEF ConfirmNext, Rewind, Ingest, Push, Apply, vars, homeVars, SnapshotsOrdered
  <2>3. Granted' = Granted
    BY <2>2 DEF Granted, SumSeq
  <2> QED BY <1>1, <1>3, <2>1, <2>3
<1> QED BY <1>2, <1>4, <1>5 DEF StepKinds

LEMMA AtRest ==
    HoldInv /\ BillsBounded /\ LogOwned /\ ConfirmedInOrder /\ ConfirmedIsLogged
        /\ SnapshotsOrdered /\ PendingCovers /\ PendingIsOwed => ExactAtRest
<1> SUFFICES ASSUME Shape, ReservedIsHeld, BillsBounded, LogOwned, ConfirmedInOrder,
                    ConfirmedIsLogged, SnapshotsOrdered, PendingCovers, PendingIsOwed,
                    \A r \in Requests : req[r].pc \in
                       {"new", "denied", "unmetered", "billed", "released", "stranded"},
                    cursor = Len(log),
                    NEW s \in pushed, s.ver = lastVer, s.balance + SumSeq(log, s.watermark) = Granted
             PROVE Granted - Logged - available - HoldsOf({"stranded"})
                      \in Dropped - Unbilled({"released", "stranded"}) .. Dropped
  BY DEF HoldInv, ExactAtRest
<1>1. reserved = HoldsOf({"stranded"}) /\ reserved \in Nat
  <2>1. In(Open) = In({"stranded"})
    BY DEF In, Open
  <2>2. HoldsOf(Open) = HoldsOf({"stranded"})
    BY <2>1 DEF HoldsOf
  <2> QED BY <2>2, RequestSums DEF ReservedIsHeld, Open
<1> DEFINE a == Sum(log, 1 .. ackWatermark)
           D == {r \in In({"billed"}) : req[r].seq = 0}
           O == {r \in In({"billed"}) : req[r].seq \notin 1 .. confirmedHigh}
           T == {r \in In({"released", "stranded"}) : req[r].seq \in 1 .. confirmedHigh}
           U == {r \in In({"released", "stranded"}) : req[r].seq > 0}
<1>2. a \in Nat /\ confirmedSum \in Nat /\ Logged = a + confirmedSum
  BY LogParts
<1>3. allowance \in Nat /\ Granted = allowance + a
  BY DEF SnapshotsOrdered, SumSeq, Sum
<1>4. pending \in Nat
  BY DEF PendingCovers
<1>5. Granted - Logged - available - HoldsOf({"stranded"}) = pending
  <2> HIDE DEF a
  <2>1. available = allowance - reserved - pending - confirmedSum
    BY DEF available
  <2> QED BY ONLY <1>1, <1>2, <1>3, <1>4, <2>1
<1>6. /\ D \subseteq O /\ T \subseteq U /\ O \subseteq Requests /\ U \subseteq Requests
      /\ \A r \in O \ D : bills[r] = 0
  <2>1. confirmedHigh \in Nat /\ Len(log) \in Nat
    BY LogFacts DEF ConfirmedInOrder
  <2>2. D \subseteq O /\ T \subseteq U /\ O \subseteq Requests /\ U \subseteq Requests
    BY <2>1, ShapeFacts DEF In
  <2>3. ASSUME NEW r \in O \ D PROVE bills[r] = 0
    <3>1. /\ r \in Requests /\ req[r].seq \in 1 .. Len(log)
          /\ req[r].seq > 0 /\ ~(req[r].seq <= confirmedHigh)
      BY <2>1, <2>3, ShapeFacts DEF In, LogOwned
    <3>2. log[req[r].seq] = 0
      BY <3>1 DEF ConfirmedInOrder
    <3> QED BY <3>1, <3>2, BillsFacts DEF LogOwned
  <2> QED BY <2>2, <2>3
<1>7. /\ Dropped = Sum(bills, D) /\ Owed = Sum(bills, O) /\ TakenOut = Sum(bills, T)
      /\ Unbilled({"released", "stranded"}) = Sum(bills, U)
  BY DEF Dropped, Owed, TakenOut, Unbilled, Sum
<1>8. /\ IsFiniteSet(O) /\ IsFiniteSet(U)
      /\ \A r \in O : bills[r] \in Nat
      /\ \A r \in U : bills[r] \in Nat
  BY <1>6, BillsFacts, CreditGateAssumption, FS_Subset
<1> HIDE DEF D, O, T, U
<1>9. Sum(bills, D) = Sum(bills, O) /\ Sum(bills, D) \in Nat
  BY <1>6, <1>8, SumPart
<1>10. Sum(bills, T) <= Sum(bills, U) /\ Sum(bills, T) \in Nat /\ Sum(bills, U) \in Nat
  BY <1>6, <1>8, SumPart
<1>11. pending <= Owed /\ Owed <= pending + TakenOut
  BY DEF PendingIsOwed
<1> DEFINE d == Sum(bills, D)
           t == Sum(bills, T)
           u == Sum(bills, U)
<1>12. d \in Nat /\ t \in Nat /\ u \in Nat /\ t <= u /\ pending <= d /\ d <= pending + t
  BY <1>7, <1>9, <1>10, <1>11
<1> HIDE DEF d, t, u
<1>13. pending \in d - u .. d
  BY <1>4, <1>12
<1> QED BY <1>5, <1>7, <1>13 DEF d, u

(***************************************************************************)
(* The inductive invariant.                                                *)
(***************************************************************************)
LEMMA LedgerInit == Init => Ledger
<1> SUFFICES ASSUME Init PROVE Ledger
  OBVIOUS
<1>1. /\ req = [r \in Requests |-> NewRequest] /\ log = <<>> /\ pending = 0
      /\ confirmedHigh = 0 /\ cursor = 0 /\ ackWatermark = 0 /\ confirmed = <<>>
      /\ confirmedSum = 0 /\ allowance = 0 /\ allowanceVer = 0 /\ lastVer = 0
      /\ home = [grants |-> 1, ack |-> 0, ver |-> 0] /\ pushed = {}
  BY DEF Init
<1>2. \A r \in Requests : req[r].pc = "new" /\ req[r].bill = 0 /\ req[r].seq = 0 /\ req[r].hold = 0
  BY <1>1 DEF NewRequest
<1>3. Len(log) = 0 /\ log \in Seq(Nat) /\ 1 .. 0 = {} /\ 0 + 1 .. 0 = {} /\ DOMAIN confirmed = {}
  BY <1>1, EmptySeq
<1>4. Sum(log, {}) = 0 /\ Sum(bills, {}) = 0 /\ Sum(holds, {}) = 0
  BY SumEmpty
<1>5. BillsBounded
  BY <1>2 DEF BillsBounded
<1>6. LogOwned
  BY <1>1, <1>2, <1>3 DEF LogOwned
<1>7. ConfirmedInOrder
  BY <1>1, <1>3 DEF ConfirmedInOrder
<1>8. ConfirmedIsLogged
  BY <1>1, <1>3, <1>4 DEF ConfirmedIsLogged
<1>9. Granted \in Nat /\ home.grants = 1
  <2>1. 1 \in 0 .. Len(Grants) /\ home.grants = 1 /\ 1 \in 0 .. 1
    BY <1>1, CreditGateAssumption
  <2> QED BY <2>1, GrantedGrows DEF Granted
<1>10. SnapshotsOrdered
  <2>1. Len(Grants) \in Nat /\ Len(Grants) > 0 /\ MaxVer \in Nat
    BY CreditGateAssumption
  <2>2. home \in [grants : 1 .. Len(Grants), ack : 0 .. Len(log), ver : 0 .. MaxVer]
    BY <1>1, <1>3, <2>1
  <2>3. allowance + Sum(log, 1 .. ackWatermark) <= Granted
    BY <1>1, <1>3, <1>4, <1>9
  <2> QED BY <1>1, <2>2, <2>3 DEF SnapshotsOrdered
<1>11. \A A : "new" \notin A => In(A) = {}
  BY <1>2 DEF In
<1>12. Unbilled(NeverTruedUp) = 0 /\ Unbilled({"released"}) = 0 /\ HoldsOf({"held"}) = 0
  <2>1. In(NeverTruedUp) = {} /\ In({"released"}) = {} /\ In({"held"}) = {}
    BY <1>11 DEF NeverTruedUp
  <2>2. {r \in {} : req[r].seq > 0} = {}
    OBVIOUS
  <2> QED BY <1>4, <2>1, <2>2 DEF Unbilled, HoldsOf, Sum
<1>13. PendingCovers
  BY <1>1, <1>3, <1>4, <1>12 DEF PendingCovers
<1>14. PendingIsOwed
  <2>1. In({"billed"}) = {} /\ In({"released", "stranded"}) = {}
    BY <1>11
  <2>2. /\ {r \in In({"billed"}) : req[r].seq \notin 1 .. confirmedHigh} = {}
        /\ {r \in In({"released", "stranded"}) : req[r].seq \in 1 .. confirmedHigh} = {}
    BY <2>1
  <2>3. Owed = 0 /\ TakenOut = 0
    BY <1>4, <2>2 DEF Owed, TakenOut
  <2> QED BY <1>1, <2>3 DEF PendingIsOwed
<1>15. NoOverspend
  <2>1. Logged = 0
    BY <1>3, <1>4 DEF Logged, SumSeq, Sum
  <2> QED BY <1>9, <1>12, <2>1 DEF NoOverspend
<1> QED BY <1>5, <1>6, <1>7, <1>8, <1>10, <1>13, <1>14, <1>15 DEF Ledger

LEMMA IInvStep == ASSUME PricesFit, IInv, [Next]_vars PROVE IInv'
<1>1. HoldInv' /\ Shape /\ Shape' /\ HoldInv
  BY HoldInvStep DEF IInv, HoldInv
<1>2. StepKinds
  BY <1>1, StepIsOfAKind
<1>3. Ledger
  BY DEF IInv
<1>4. BillsBounded'
  BY <1>1, <1>2, <1>3, BillsBoundedStep DEF Ledger
<1>5. LogOwned' /\ ConfirmedInOrder'
  BY <1>1, <1>2, <1>3, LogOwnedStep, ConfirmedInOrderStep DEF Ledger
<1>6. ConfirmedIsLogged' /\ SnapshotsOrdered'
  BY <1>2, <1>3, ConfirmedIsLoggedStep, SnapshotsOrderedStep DEF Ledger
<1>7. PendingCovers' /\ PendingIsOwed'
  BY <1>1, <1>2, <1>3, <1>4, PendingCoversStep, PendingIsOwedStep DEF Ledger
<1>8. NeverOverstated
  BY <1>1, <1>3, Honest DEF Ledger
<1>9. available \in Int
  <2>1. allowance \in Nat /\ pending \in Nat
    BY <1>3 DEF Ledger, SnapshotsOrdered, PendingCovers
  <2>2. confirmedSum \in Nat
    BY <1>3, LogParts DEF Ledger
  <2>3. reserved \in Nat
    BY <1>1, <1>3, RequestSums DEF Ledger, HoldInv, ReservedIsHeld
  <2> QED BY <2>1, <2>2, <2>3 DEF available
<1>10. NoOverspend'
  BY <1>1, <1>2, <1>3, <1>4, <1>8, <1>9, NoOverspendStep DEF Ledger
<1> QED BY <1>1, <1>4, <1>5, <1>6, <1>7, <1>10 DEF IInv, Ledger

\* The ledger's bookkeeping of the log, given that prices fit.
THEOREM Invariance == ASSUME PricesFit PROVE Spec => []IInv
<1>1. Init => IInv
  BY HoldInvInit, LedgerInit DEF IInv
<1>2. IInv /\ [Next]_vars => IInv'
  BY IInvStep
<1> QED BY <1>1, <1>2, PTL DEF Spec

\* credit_gate.go and credit_ledger.go: while no product overflows, the debits logged and
\* the holds still open never exceed the credits bought, but for the bills of requests
\* whose true-up panicked or that FailOpen let through, for any number of requests,
\* top-ups and snapshots.
THEOREM CreditsNeverOverspent == ASSUME PricesFit PROVE Spec => []NoOverspend
<1>1. IInv => NoOverspend
  BY DEF IInv, Ledger
<1> QED BY <1>1, Invariance, PTL

\* available() and SetAllowance: the balance that Reserve compares with is never
\* overstated, and exact once every hold is resolved, every debit confirmed and the last
\* top-up ingested.
THEOREM BalanceHonestAlways == ASSUME PricesFit PROVE Spec => []BalanceIsHonest
<1>1. IInv => BalanceIsHonest
  BY Honest, AtRest DEF IInv, Ledger, BalanceIsHonest
<1> QED BY <1>1, Invariance, PTL

\* The account's counters stay natural numbers, its positions within the log, and no
\* request is billed more than its hold.
THEOREM TypeCorrect == ASSUME PricesFit PROVE Spec => []TypeOK
<1>1. ASSUME IInv PROVE TypeOK
  <2>1. Ledger /\ Shape /\ reserved = HoldsOf(Open)
    BY <1>1 DEF IInv, HoldInv, ReservedIsHeld, Open
  <2>2. {allowance, confirmedSum, pending, reserved} \subseteq Nat
    <3>1. allowance \in Nat /\ pending \in Nat
      BY <2>1 DEF Ledger, SnapshotsOrdered, PendingCovers
    <3>2. confirmedSum \in Nat
      BY <2>1, LogParts DEF Ledger
    <3>3. reserved \in Nat
      BY <2>1, RequestSums DEF Ledger
    <3> QED BY <3>1, <3>2, <3>3
  <2>3. Len(log) \in Nat /\ MaxVer \in Nat
    BY <2>1, LogFacts, CreditGateAssumption DEF Ledger
  <2>4. home \in [grants : 1 .. Len(Grants), ack : 0 .. Len(log), ver : 0 .. MaxVer]
    BY <2>1 DEF Ledger, SnapshotsOrdered
  <2>5. {allowanceVer, lastVer} \subseteq 0 .. MaxVer
    BY <2>1, <2>3, <2>4 DEF Ledger, SnapshotsOrdered
  <2>6. {ackWatermark, confirmedHigh, cursor} \subseteq 0 .. Len(log)
    BY <2>1 DEF Ledger, ConfirmedInOrder, ConfirmedIsLogged
  <2>7. DOMAIN confirmed \subseteq 1 .. Len(log)
    BY <2>1, <2>3, <2>6 DEF Ledger, ConfirmedIsLogged
  <2>8. req \in [Requests -> [pc : PCs, price : Prices \cup {<<>>}, hold : Nat, bill : Nat, seq : Nat]]
    <3>1. \A r \in Requests : req[r] \in Rows /\ req[r].bill \in Nat
      BY <2>1 DEF Shape, Ledger, BillsBounded
    <3>2. \A r \in Requests :
             req[r] \in [pc : PCs, price : Prices \cup {<<>>}, hold : Nat, bill : Nat, seq : Nat]
      BY <3>1 DEF Rows
    <3> QED BY <2>1, <3>2 DEF Shape
  <2>9. \A r \in Requests : req[r].pc = "billed" => req[r].bill <= req[r].hold
    BY <2>1 DEF Ledger, BillsBounded
  <2>10. log \in Seq(Nat) /\ pushed \subseteq [ver : 1 .. home.ver, balance : Int, watermark : 0 .. home.ack]
    BY <2>1 DEF Ledger, LogOwned, SnapshotsOrdered
  <2> QED BY <2>2, <2>4, <2>5, <2>6, <2>7, <2>8, <2>9, <2>10 DEF TypeOK
<1> QED BY <1>1, Invariance, PTL
=============================================================================
