----------------------------- MODULE SumProofs -----------------------------
(***************************************************************************)
(* What MapThenSumSet, which the chain's balance rule and the wallet's     *)
(* totals are written with, computes: the sum, whatever element it picks   *)
(* first.  Each use of it sums up another expression; these lemmas are     *)
(* about functions w, of which every use is an instance.                   *)
(*                                                                         *)
(* An induction over a finite set is done by taking a least set for which  *)
(* the claim fails.                                                        *)
(***************************************************************************)
EXTENDS FiniteSetsExt, FiniteSetTheorems, TLAPS

Pick(s) == CHOOSE x \in s : TRUE

(* g sums w up over every subset of S, the way MapThenSumSet does.         *)
Sums(g, w, S) ==
    g = [s \in SUBSET S |-> IF s = {} THEN 0 ELSE w[Pick(s)] + g[s \ {Pick(s)}]]

Integral(w, S) == \A x \in S : w[x] \in Int

(* The same, read off for the empty subset, and for one that is not.       *)
LEMMA SumsAtNone ==
    ASSUME NEW S, NEW w, NEW g, Sums(g, w, S) PROVE g[{}] = 0
BY DEF Sums

(* What such a function is at a set: the weight of the element it picks,   *)
(* and what it is at the rest.                                             *)
LEMMA SumsAt ==
    ASSUME NEW S, NEW w, NEW g, NEW s, Sums(g, w, S), s \subseteq S, s # {}
    PROVE  Pick(s) \in s /\ g[s] = w[Pick(s)] + g[s \ {Pick(s)}]
<1>1. Pick(s) \in s
  BY DEF Pick
<1>2. g[s] = IF s = {} THEN 0 ELSE w[Pick(s)] + g[s \ {Pick(s)}]
  BY DEF Sums
<1>3. QED
  BY <1>1, <1>2

(* Among the subsets of a finite set for which something fails, one is     *)
(* least.                                                                  *)
LEMMA LeastFailure ==
    ASSUME NEW S, IsFiniteSet(S), NEW Bad, Bad \subseteq SUBSET S, Bad # {}
    PROVE  \E T \in Bad : \A U \in SUBSET T : U # T => U \notin Bad
<1>1. IsWellFoundedOn(StrictSubsetOrdering(S), SUBSET S)
  BY FS_StrictSubsetOrderingWellFounded, FS_FiniteSubsetsOfFinite
<1>2. PICK T \in Bad : \A U \in Bad : ~ (<<U, T>> \in StrictSubsetOrdering(S))
  BY <1>1, WFMin
<1>3. QED
  BY <1>2 DEF StrictSubsetOrdering

(* Two such functions agree where what they sum up does.                   *)
LEMMA SumsAgree ==
    ASSUME NEW S, NEW T, NEW w, NEW v, NEW g, NEW h, Sums(g, w, S), Sums(h, v, T),
           NEW U, U \subseteq S, U \subseteq T, IsFiniteSet(U), \A x \in U : w[x] = v[x]
    PROVE  g[U] = h[U]
<1> DEFINE Bad == {s \in SUBSET U : g[s] # h[s]}
<1>0. SUFFICES ASSUME Bad # {} PROVE FALSE
  OBVIOUS
<1>1. Bad \subseteq SUBSET U
  OBVIOUS
<1> HIDE DEF Bad
<1>2. PICK s \in Bad : \A u \in SUBSET s : u # s => u \notin Bad
  BY <1>0, <1>1, LeastFailure
<1>3. s \in SUBSET U /\ s \in SUBSET S /\ s \in SUBSET T /\ g[s] # h[s]
  BY DEF Bad
<1>4. CASE s = {}
  BY <1>3, <1>4, SumsAtNone
<1>5. CASE s # {}
  <2> DEFINE u == s \ {Pick(s)}
  <2>1. /\ Pick(s) \in s /\ u \in SUBSET s /\ u # s
        /\ g[s] = w[Pick(s)] + g[u] /\ h[s] = v[Pick(s)] + h[u]
    <3>1. Pick(s) \in s /\ g[s] = w[Pick(s)] + g[u]
      BY <1>3, <1>5, SumsAt
    <3>2. Sums(h, v, T) /\ s \subseteq T /\ s # {}
      BY <1>3, <1>5
    <3>3. h[s] = v[Pick(s)] + h[s \ {Pick(s)}]
      BY ONLY <3>2, SumsAt
    <3>4. QED
      BY <3>1, <3>3
  <2>2. g[u] = h[u]
    BY <1>2, <1>3, <2>1 DEF Bad
  <2>3. w[Pick(s)] = v[Pick(s)]
    BY <1>3, <2>1
  <2>4. QED
    BY <1>3, <2>1, <2>2, <2>3
<1>6. QED
  BY <1>4, <1>5

(* The recursion defines a function, and only one.                         *)
LEMMA SumsExist ==
    ASSUME NEW S, IsFiniteSet(S), NEW w
    PROVE  \E g : Sums(g, w, S)
<1> DEFINE Bad == {T \in SUBSET S : ~ \E g : Sums(g, w, T)}
<1>0. SUFFICES ASSUME Bad # {} PROVE FALSE
  OBVIOUS
<1>1. Bad \subseteq SUBSET S
  OBVIOUS
<1> HIDE DEF Bad
<1>2. PICK T \in Bad : \A U \in SUBSET T : U # T => U \notin Bad
  BY <1>0, <1>1, LeastFailure
<1>3. T \in SUBSET S /\ ~ \E g : Sums(g, w, T)
  BY DEF Bad
<1>4. ASSUME NEW U \in SUBSET T, U # T
      PROVE  \E g : Sums(g, w, U)
  BY <1>2, <1>3, <1>4 DEF Bad
<1> DEFINE At(u) == (CHOOSE g : Sums(g, w, u))[u]
           G == [s \in SUBSET T |-> IF s = {} THEN 0 ELSE w[Pick(s)] + At(s \ {Pick(s)})]
<1>5. ASSUME NEW u \in SUBSET T, u # T
      PROVE  G[u] = At(u)
  <2> DEFINE g == CHOOSE g : Sums(g, w, u)
  <2>1. Sums(g, w, u)
    BY <1>4, <1>5
  <2>2. CASE u = {}
    BY <2>1, <2>2, SumsAtNone
  <2>3. CASE u # {}
    <3> DEFINE r == u \ {Pick(u)}
               f == CHOOSE f : Sums(f, w, r)
    <3>1. Pick(u) \in u /\ r \in SUBSET u /\ r # u /\ g[u] = w[Pick(u)] + g[r]
      BY <2>1, <2>3, SumsAt
    <3>2. Sums(f, w, r)
      BY <1>4, <3>1
    <3>3. IsFiniteSet(r)
      BY <1>3, <3>1, FS_Subset
    <3> HIDE DEF g, f
    <3>4. g[r] = f[r]
      BY <2>1, <3>1, <3>2, <3>3, SumsAgree
    <3>5. G[u] = w[Pick(u)] + f[r]
      BY <2>3 DEF f
    <3>6. QED
      BY <3>1, <3>4, <3>5 DEF g
  <2>4. QED
    BY <2>2, <2>3
<1>6. ASSUME NEW s \in SUBSET T, s # {}
      PROVE  At(s \ {Pick(s)}) = G[s \ {Pick(s)}]
  <2>1. Pick(s) \in s
    BY <1>6 DEF Pick
  <2>2. s \ {Pick(s)} \in SUBSET T /\ s \ {Pick(s)} # T
    BY <2>1
  <2> HIDE DEF At, G
  <2>3. QED
    BY <1>5, <2>2
<1> HIDE DEF At
<1>7. G = [s \in SUBSET T |-> IF s = {} THEN 0 ELSE w[Pick(s)] + G[s \ {Pick(s)}]]
  BY <1>6
<1> HIDE DEF G
<1>8. Sums(G, w, T)
  BY <1>7 DEF Sums
<1>9. QED
  BY <1>3, <1>8

(* There is one such function.                                             *)
LEMMA SumsAreUnique ==
    ASSUME NEW S, IsFiniteSet(S), NEW w, NEW g, NEW h, Sums(g, w, S), Sums(h, w, S)
    PROVE  g = h
<1>1. ASSUME NEW s \in SUBSET S PROVE g[s] = h[s]
  <2>1. IsFiniteSet(s)
    BY FS_Subset
  <2>2. QED
    BY <2>1, SumsAgree
<1>2. /\ g = [s \in SUBSET S |-> g[s]]
      /\ h = [s \in SUBSET S |-> h[s]]
  BY DEF Sums
<1>3. QED
  BY <1>1, <1>2

(* Its values are integers.                                                *)
LEMMA SumsAreIntegers ==
    ASSUME NEW S, IsFiniteSet(S), NEW w, Integral(w, S), NEW g, Sums(g, w, S)
    PROVE  \A s \in SUBSET S : g[s] \in Int
<1> DEFINE Bad == {s \in SUBSET S : g[s] \notin Int}
<1>0. SUFFICES ASSUME Bad # {} PROVE FALSE
  OBVIOUS
<1>1. Bad \subseteq SUBSET S
  OBVIOUS
<1> HIDE DEF Bad
<1>2. PICK s \in Bad : \A u \in SUBSET s : u # s => u \notin Bad
  BY <1>0, <1>1, LeastFailure
<1>3. s \in SUBSET S /\ g[s] \notin Int
  BY DEF Bad
<1>4. CASE s = {}
  BY <1>3, <1>4, SumsAtNone
<1>5. CASE s # {}
  <2> DEFINE u == s \ {Pick(s)}
  <2>1. Pick(s) \in s /\ u \in SUBSET s /\ u # s /\ g[s] = w[Pick(s)] + g[u]
    BY <1>3, <1>5, SumsAt
  <2>2. g[u] \in Int /\ w[Pick(s)] \in Int
    BY <1>2, <1>3, <2>1 DEF Bad, Integral
  <2>3. QED
    BY <1>3, <2>1, <2>2
<1>6. QED
  BY <1>4, <1>5

(* Whichever element is taken out, the rest is summed up.                  *)
LEMMA SumsWithout ==
    ASSUME NEW S, NEW w, NEW g, NEW U, NEW e,
           IsFiniteSet(S), Integral(w, S), Sums(g, w, S), U \subseteq S, e \in U
    PROVE  g[U] = w[e] + g[U \ {e}]
<1> DEFINE Bad == {s \in SUBSET S : \E x \in s : g[s] # w[x] + g[s \ {x}]}
<1>0. SUFFICES ASSUME Bad # {} PROVE FALSE
  <2>1. U \in SUBSET S
    OBVIOUS
  <2>2. QED
    BY <2>1
<1>1. Bad \subseteq SUBSET S
  OBVIOUS
<1> HIDE DEF Bad
<1>2. PICK s \in Bad : \A u \in SUBSET s : u # s => u \notin Bad
  BY <1>0, <1>1, LeastFailure
<1>3. PICK x \in s : g[s] # w[x] + g[s \ {x}]
  BY DEF Bad
<1>4. s \in SUBSET S
  BY <1>1
<1> DEFINE p == Pick(s)
<1>5. p \in s /\ g[s] = w[p] + g[s \ {p}]
  <2>1. Sums(g, w, S) /\ s \subseteq S /\ s # {}
    BY <1>3, <1>4
  <2>2. QED
    BY ONLY <2>1, SumsAt
<1>6. p # x
  BY <1>3, <1>5
<1>7. ASSUME NEW y \in s, NEW z \in s, z # y
      PROVE  g[s \ {y}] = w[z] + g[(s \ {y}) \ {z}]
  <2>1. s \ {y} \in SUBSET s /\ s \ {y} # s /\ z \in s \ {y} /\ s \ {y} \in SUBSET S
    BY <1>4, <1>7
  <2>2. s \ {y} \notin Bad
    BY <1>2, <2>1
  <2>3. QED
    BY <2>1, <2>2 DEF Bad
<1>8. g[s \ {p}] = w[x] + g[(s \ {p}) \ {x}]
  BY <1>5, <1>6, <1>7
<1>9. g[s \ {x}] = w[p] + g[(s \ {x}) \ {p}]
  BY <1>5, <1>6, <1>7
<1>10. (s \ {p}) \ {x} = (s \ {x}) \ {p}
  OBVIOUS
<1>11. /\ w[p] \in Int /\ w[x] \in Int
       /\ g[(s \ {x}) \ {p}] \in Int
  BY <1>4, <1>5, SumsAreIntegers DEF Integral
<1>12. \A i, j, k \in Int : i + (j + k) = j + (i + k)
  OBVIOUS
<1> HIDE DEF p
<1>13. /\ g[s] = w[p] + (w[x] + g[(s \ {x}) \ {p}])
       /\ w[x] + g[s \ {x}] = w[x] + (w[p] + g[(s \ {x}) \ {p}])
  BY <1>5, <1>8, <1>9, <1>10
<1>14. QED
  BY <1>3, <1>11, <1>12, <1>13
-----------------------------------------------------------------------------
(* The sum of w over S.                                                    *)
Sum(w, S) == (CHOOSE g : Sums(g, w, S))[S]

(* The sum is the one MapThenSumSet's recursion ends with.                 *)
LEMMA SumIs ==
    ASSUME NEW S, IsFiniteSet(S), NEW w, NEW g, Sums(g, w, S)
    PROVE  Sum(w, S) = g[S]
BY SumsAreUnique DEF Sum

(* Nothing sums up to 0.                                                   *)
LEMMA SumOfNone == ASSUME NEW w PROVE Sum(w, {}) = 0
<1>1. IsFiniteSet({})
  BY FS_EmptySet
<1>2. PICK g : Sums(g, w, {})
  BY <1>1, SumsExist
<1>3. QED
  BY <1>1, <1>2, SumIs, SumsAtNone

(* One element more.                                                       *)
LEMMA SumAdds ==
    ASSUME NEW S, IsFiniteSet(S), NEW x, x \notin S,
           NEW w, NEW v, Integral(w, S \cup {x}), \A y \in S : v[y] = w[y]
    PROVE  /\ Sum(v, S) \in Int
           /\ Sum(w, S \cup {x}) = w[x] + Sum(v, S)
<1> DEFINE T == S \cup {x}
<1>1. IsFiniteSet(T)
  BY FS_AddElement
<1>2. PICK h : Sums(h, w, T)
  BY <1>1, SumsExist
<1>3. PICK g : Sums(g, v, S)
  BY SumsExist
<1>4. Sum(w, T) = h[T] /\ Sum(v, S) = g[S]
  BY <1>1, <1>2, <1>3, SumIs
<1>5. h[T] = w[x] + h[T \ {x}]
  <2>1. /\ IsFiniteSet(T) /\ Integral(w, T) /\ Sums(h, w, T)
        /\ T \subseteq T /\ x \in T
    BY <1>1, <1>2 DEF Integral
  <2> HIDE DEF T
  <2>2. QED
    BY ONLY <2>1, SumsWithout
<1>6. T \ {x} = S
  OBVIOUS
<1>7. h[T] = w[x] + h[S]
  BY <1>5, <1>6
<1>8. h[S] = g[S]
  BY <1>2, <1>3, SumsAgree
<1>9. g[S] \in Int
  BY <1>3, SumsAreIntegers DEF Integral
<1>10. QED
  BY <1>4, <1>7, <1>8, <1>9

(* A sum is an integer.                                                    *)
LEMMA SumIsInteger ==
    ASSUME NEW S, NEW w, IsFiniteSet(S), Integral(w, S) PROVE Sum(w, S) \in Int
<1>1. PICK g : Sums(g, w, S)
  BY SumsExist
<1>2. Sum(w, S) = g[S] /\ S \in SUBSET S
  BY <1>1, SumIs
<1>3. QED
  BY <1>1, <1>2, SumsAreIntegers
=============================================================================
