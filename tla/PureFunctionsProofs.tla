------------------------ MODULE PureFunctionsProofs ------------------------
(* Proofs about the functions of PureFunctions.  They need induction over    *)
(* data, which rests here on two facts that are about sets and not about     *)
(* predicates: a set of numbers has a least element, a set of finite sets a  *)
(* minimal one.  What is to be shown for all is shown by looking at the      *)
(* least counterexample.  A recursive definition is a CHOOSE: its equation   *)
(* holds once some function is shown to satisfy it.                          *)
EXTENDS PureFunctions, FiniteSetTheorems, TLAPS

(* A non-empty set of numbers has a least element.                           *)
LEMMA LeastElement ==
  ASSUME NEW T, T \subseteq Nat, T # {}
  PROVE  \E m \in T : \A k \in T : m <= k
<1> DEFINE Below == {ss \in Nat \X Nat : ss[1] < ss[2]}
<1>0. IsWellFoundedOn(Below, Nat) BY NatLessThanWellFounded DEF OpToRel
<1>1. \A k, m \in Nat : k < m => <<k, m>> \in Below OBVIOUS
<1> HIDE DEF Below
<1>2. PICK m \in T : \A y \in T : ~ (<<y, m>> \in Below) BY <1>0, WFMin
<1>3. ASSUME NEW k \in T PROVE m <= k
  <2>1. m \in Nat /\ k \in Nat BY <1>2, <1>3
  <2>2. ~(k < m) BY <2>1, <1>1, <1>2
  <2> QED BY <2>1, <2>2
<1> QED BY <1>2, <1>3

(* A non-empty set of finite sets has a minimal one.                         *)
LEMMA LeastSet ==
  ASSUME NEW S, IsFiniteSet(S), NEW B \in SUBSET SUBSET S, B # {}
  PROVE  \E T \in B : \A U \in B : U \subseteq T => U = T
<1> DEFINE Below == StrictSubsetOrdering(S)
<1>1. IsWellFoundedOn(Below, SUBSET S)
  BY FS_StrictSubsetOrderingWellFounded, FS_FiniteSubsetsOfFinite
<1>2. \A U, T \in SUBSET S : U \subseteq T /\ U # T => <<U, T>> \in Below
  BY DEF StrictSubsetOrdering
<1> HIDE DEF Below
<1>3. B \subseteq SUBSET S OBVIOUS
<1>4. PICK T \in B : \A U \in B : ~ (<<U, T>> \in Below) BY <1>1, <1>3, WFMin
<1> QED BY <1>2, <1>3, <1>4

----------------------------------------------------------------------------
(* Sums.  SumFunction(f) is g[DOMAIN f] for the function g that takes one    *)
(* element after the other out of a set.                                     *)

Chosen(s) == CHOOSE x \in s : TRUE
Follows(g, f, T) ==
  /\ g[{}] = 0
  /\ \A s \in SUBSET T : s # {} => g[s] = f[Chosen(s)] + g[s \ {Chosen(s)}]
Solves(g, f, T) == g \in [SUBSET T -> Nat] /\ Follows(g, f, T)

LEMMA ChosenIn == ASSUME NEW s, s # {} PROVE Chosen(s) \in s
BY DEF Chosen

(* Two functions that sum in the same way agree where both do.               *)
LEMMA SumsAgree ==
  ASSUME NEW S, IsFiniteSet(S), NEW f, NEW T \in SUBSET S, NEW U \in SUBSET S,
         NEW g, Follows(g, f, T), NEW h, Follows(h, f, U)
  PROVE  \A s \in SUBSET T : s \subseteq U => g[s] = h[s]
<1> DEFINE B == {s \in SUBSET T : s \subseteq U /\ g[s] # h[s]}
<1>1. SUFFICES ASSUME B # {} PROVE FALSE OBVIOUS
<1>2. B \in SUBSET SUBSET S OBVIOUS
<1> HIDE DEF B
<1>3. PICK s \in B : \A t \in B : t \subseteq s => t = s BY <1>1, <1>2, LeastSet
<1>4. s \in SUBSET T /\ s \subseteq U /\ g[s] # h[s] BY <1>3 DEF B
<1>5. CASE s = {} BY <1>4, <1>5 DEF Solves, Follows, Follows
<1>6. CASE s # {}
  <2> DEFINE t == s \ {Chosen(s)}
  <2>1. t # s /\ t \subseteq s BY <1>6, ChosenIn
  <2>2. g[t] = h[t] BY <1>3, <1>4, <2>1 DEF B
  <2> QED BY <1>4, <1>6, <2>2 DEF Solves, Follows, Follows
<1> QED BY <1>5, <1>6

(* The recursive definition of a sum has a solution.                         *)
LEMMA SumExists ==
  ASSUME NEW S, IsFiniteSet(S), NEW f \in [S -> Nat]
  PROVE  \E g : Solves(g, f, S)
<1> DEFINE B == {T \in SUBSET S : ~ \E g : Solves(g, f, T)}
<1>1. SUFFICES ASSUME B # {} PROVE FALSE
  BY DEF B
<1>2. B \in SUBSET SUBSET S OBVIOUS
<1> HIDE DEF B
<1>3. PICK T \in B : \A t \in B : t \subseteq T => t = T BY <1>1, <1>2, LeastSet
<1>4. T \in SUBSET S /\ ~ \E g : Solves(g, f, T) BY <1>3 DEF B
<1> DEFINE P(t) == CHOOSE g : Solves(g, f, t)
<1>5. \A t \in SUBSET T : t # T => Solves(P(t), f, t)
  <2> TAKE t \in SUBSET T
  <2> HAVE t # T
  <2>1. t \in SUBSET S /\ t \notin B BY <1>3, <1>4
  <2>2. \E g : Solves(g, f, t) BY <2>1 DEF B
  <2> QED BY <2>2
<1> DEFINE c == Chosen(T)
           g == [s \in SUBSET T |-> IF s = {} THEN 0
                                    ELSE f[Chosen(s)] + P(s \ {Chosen(s)})[s \ {Chosen(s)}]]
<1>6. \A s \in SUBSET T : s # {} => /\ Chosen(s) \in s
                                    /\ s \ {Chosen(s)} \in SUBSET T
                                    /\ s \ {Chosen(s)} # T
  BY ChosenIn
<1> HIDE DEF P
<1>7. \A s \in SUBSET T : s # {} => /\ f[Chosen(s)] \in Nat
                                    /\ P(s \ {Chosen(s)})[s \ {Chosen(s)}] \in Nat
  <2> TAKE s \in SUBSET T
  <2> HAVE s # {}
  <2>1. Chosen(s) \in S BY <1>4, <1>6
  <2>2. Solves(P(s \ {Chosen(s)}), f, s \ {Chosen(s)}) BY <1>5, <1>6
  <2>3. P(s \ {Chosen(s)}) \in [SUBSET (s \ {Chosen(s)}) -> Nat] BY <2>2 DEF Solves, Follows, Follows
  <2> QED BY <2>1, <2>3
<1>8. g \in [SUBSET T -> Nat] BY <1>7
<1>9. \A s \in SUBSET T : s # T => g[s] = P(s)[s]
  <2> TAKE s \in SUBSET T
  <2> HAVE s # T
  <2>1. Solves(P(s), f, s) BY <1>5
  <2>2. CASE s = {} BY <2>1, <2>2 DEF Solves, Follows, Follows
  <2>3. CASE s # {}
    <3> DEFINE t == s \ {Chosen(s)}
    <3>1. Solves(P(t), f, t) BY <1>5, <1>6, <2>3
    <3>2. t \in SUBSET S /\ s \in SUBSET S /\ t \in SUBSET s /\ t \in SUBSET t BY <1>4
    <3> HIDE DEF t
    <3>3. P(t)[t] = P(s)[t] BY <3>1, <3>2, <2>1, SumsAgree DEF Solves
    <3>4. P(s)[s] = f[Chosen(s)] + P(s)[t] BY <2>1, <2>3 DEF Solves, Follows, t
    <3>5. g[s] = f[Chosen(s)] + P(t)[t] BY <2>3 DEF t
    <3> QED BY <3>3, <3>4, <3>5
  <2> QED BY <2>2, <2>3
<1>10. ASSUME NEW s \in SUBSET T, s # {} PROVE g[s] = f[Chosen(s)] + g[s \ {Chosen(s)}]
  <2>1. g[s \ {Chosen(s)}] = P(s \ {Chosen(s)})[s \ {Chosen(s)}] BY <1>6, <1>9, <1>10
  <2>2. g[s] = f[Chosen(s)] + P(s \ {Chosen(s)})[s \ {Chosen(s)}] BY <1>10
  <2> QED BY <2>1, <2>2
<1>11. Solves(g, f, T)
  <2>1. g[{}] = 0 OBVIOUS
  <2> HIDE DEF g
  <2> QED BY <2>1, <1>8, <1>10 DEF Solves, Follows, Follows
<1> QED BY <1>4, <1>11

(* Any element may be taken out first. *)
AnyOrder(g, f, S) == \A s \in SUBSET S : \A x \in s : g[s] = f[x] + g[s \ {x}]
LEMMA SumStep ==
  ASSUME NEW S, IsFiniteSet(S), NEW f \in [S -> Nat], NEW g, Solves(g, f, S)
  PROVE  AnyOrder(g, f, S)
<1> DEFINE B == {s \in SUBSET S : \E x \in s : g[s] # f[x] + g[s \ {x}]}
<1>1. SUFFICES ASSUME B # {} PROVE FALSE
  BY DEF B, AnyOrder
<1>2. B \in SUBSET SUBSET S OBVIOUS
<1> HIDE DEF B
<1>3. PICK s \in B : \A t \in B : t \subseteq s => t = s BY <1>1, <1>2, LeastSet
<1>4. PICK x \in s : g[s] # f[x] + g[s \ {x}] BY <1>3 DEF B
<1>5. s \in SUBSET S BY <1>3 DEF B
<1> DEFINE c == Chosen(s)
<1>6. c \in s BY <1>4, ChosenIn
<1> HIDE DEF c
<1>7. g[s] = f[c] + g[s \ {c}] BY <1>4, <1>5 DEF Solves, Follows, c
<1>8. c # x BY <1>4, <1>7
<1>9. \A t \in SUBSET S : t \subseteq s /\ t # s => \A y \in t : g[t] = f[y] + g[t \ {y}]
  BY <1>3 DEF B
<1>10. g[s \ {c}] = f[x] + g[(s \ {c}) \ {x}] BY <1>9, <1>5, <1>6, <1>8, <1>4
<1>11. g[s \ {x}] = f[c] + g[(s \ {x}) \ {c}] BY <1>9, <1>5, <1>6, <1>8, <1>4
<1>12. (s \ {c}) \ {x} = (s \ {x}) \ {c} OBVIOUS
<1>13. f[x] \in Nat /\ f[c] \in Nat /\ g[(s \ {c}) \ {x}] \in Nat
  <2>1. x \in S /\ c \in S /\ (s \ {c}) \ {x} \in SUBSET S BY <1>4, <1>5, <1>6
  <2> QED BY <2>1 DEF Solves, Follows, Follows
<1> DEFINE r == g[(s \ {c}) \ {x}]
<1>14. g[s \ {x}] = f[c] + r BY <1>11, <1>12
<1>15. g[s] = f[c] + (f[x] + r) BY <1>7, <1>10
<1>16. r \in Nat BY <1>13
<1> HIDE DEF r
<1>17. f[c] + (f[x] + r) = f[x] + (f[c] + r) BY <1>13, <1>16
<1>18. g[s] = f[x] + g[s \ {x}] BY <1>14, <1>15, <1>17
<1> QED BY <1>4, <1>18

(* SumFunction, which chooses a solution, is the value of one.               *)
LEMMA SumIsSolution ==
  ASSUME NEW S, IsFiniteSet(S), NEW f \in [S -> Nat]
  PROVE  \E g : Solves(g, f, S) /\ SumFunction(f) = g[S]
<1> DEFINE Body(h) == [s \in SUBSET S |-> IF s = {} THEN 0
                         ELSE f[CHOOSE x \in s : TRUE] + h[s \ {CHOOSE x \in s : TRUE}]]
           it == CHOOSE h : h = Body(h)
<1>1. PICK g : Solves(g, f, S) BY SumExists
<1>2. g = Body(g)
  <2>1. \A s \in SUBSET S : g[s] = IF s = {} THEN 0
                         ELSE f[CHOOSE x \in s : TRUE] + g[s \ {CHOOSE x \in s : TRUE}]
    BY <1>1 DEF Solves, Follows, Chosen
  <2>2. g = [s \in SUBSET S |-> g[s]] BY <1>1 DEF Solves
  <2> QED BY <2>1, <2>2
<1>3. it = Body(it) BY <1>2
<1>4. SumFunction(f) = it[S] BY DEF SumFunction, SumFunctionOnSet, FoldFunctionOnSet, MapThenFoldSet
<1>5. Follows(it, f, S)
  <2>1. \A s \in SUBSET S : it[s] = IF s = {} THEN 0
                         ELSE f[CHOOSE x \in s : TRUE] + it[s \ {CHOOSE x \in s : TRUE}]
    BY <1>3
  <2> HIDE DEF it
  <2> QED BY <2>1 DEF Follows, Chosen
<1> HIDE DEF it
<1>6. \A s \in SUBSET S : it[s] = g[s] BY <1>1, <1>5, SumsAgree DEF Solves
<1>7. it[S] = g[S] BY <1>6
<1> QED BY <1>1, <1>4, <1>7

(* The same for a sum over 1..n.                                             *)
LEMMA RangeHasSum ==
  ASSUME NEW n \in Nat, NEW f \in [1..n -> Nat]
  PROVE  IsFiniteSet(1..n) /\ \E g : Solves(g, f, 1..n) /\ SumFunction(f) = g[1..n]
<1> DEFINE S == 1..n
<1>1. IsFiniteSet(S) /\ f \in [S -> Nat]
  <2>1. IsFiniteSet(1..n)
    BY FS_Interval
  <2> QED BY <2>1
<1> HIDE DEF S
<1>2. \E g : Solves(g, f, S) /\ SumFunction(f) = g[S]
  BY <1>1, SumIsSolution
<1> QED BY <1>1, <1>2 DEF S

(* A sum over 1..n is given by its partial sums.                             *)
InOrder(g, f, n) ==
  /\ g[1..0] = 0
  /\ \A k \in 1..n : g[1..(k - 1)] \in Nat /\ g[1..k] = g[1..(k - 1)] + f[k]
LEMMA SolutionOfRange ==
  ASSUME NEW n \in Nat, NEW f \in [1..n -> Nat], NEW g, Solves(g, f, 1..n)
  PROVE  InOrder(g, f, n)
<1>1. 1..0 = {} /\ IsFiniteSet(1..n)
  BY FS_Interval
<1>2. g[1..0] = 0
  BY <1>1 DEF Solves, Follows
<1>3. ASSUME NEW k \in 1..n
      PROVE  g[1..(k - 1)] \in Nat /\ g[1..k] = g[1..(k - 1)] + f[k]
  <2>1. 1..k \in SUBSET (1..n) /\ 1..(k - 1) \in SUBSET (1..n) /\ k \in 1..k
    OBVIOUS
  <2>2. (1..k) \ {k} = 1..(k - 1)
    OBVIOUS
  <2>3. g[1..k] = f[k] + g[(1..k) \ {k}]
    <3> DEFINE S == 1..n
               s == 1..k
    <3>1. /\ IsFiniteSet(S) /\ f \in [S -> Nat] /\ Solves(g, f, S)
          /\ s \in SUBSET S /\ k \in s
      BY <1>1, <2>1
    <3> HIDE DEF S, s
    <3>2. AnyOrder(g, f, S)
      BY <3>1, SumStep
    <3>3. g[s] = f[k] + g[s \ {k}]
      BY <3>1, <3>2 DEF AnyOrder
    <3> QED BY <3>3 DEF s
  <2>4. g[1..k] \in Nat /\ g[1..(k - 1)] \in Nat
    BY <2>1 DEF Solves
  <2>5. f[k] \in Nat
    OBVIOUS
  <2>6. g[1..k] = f[k] + g[1..(k - 1)]
    BY <2>2, <2>3
  <2> QED BY <2>4, <2>5, <2>6
<1> QED BY <1>2, <1>3 DEF InOrder

(* Whatever has the steps of the partial sums ends in the sum.               *)
LEMMA SumOfRange ==
  ASSUME NEW n \in Nat, NEW f \in [1..n -> Nat], NEW partial \in [0..n -> Nat], partial[0] = 0,
         \A k \in 1..n : partial[k] = partial[k - 1] + f[k]
  PROVE  SumFunction(f) = partial[n]
<1>1. PICK g : Solves(g, f, 1..n) /\ SumFunction(f) = g[1..n]
  BY RangeHasSum
<1> DEFINE B == {k \in 0..n : g[1..k] # partial[k]}
<1>2. SUFFICES ASSUME B # {} PROVE FALSE
  BY <1>1
<1>3. B \subseteq Nat
  OBVIOUS
<1> HIDE DEF B
<1>4. PICK k \in B : \A j \in B : k <= j
  BY <1>2, <1>3, LeastElement
<1>5. k \in 0..n /\ g[1..k] # partial[k]
  BY <1>4 DEF B
<1>6. k \in 1..n
  <2>1. k # 0
    BY <1>1, <1>5, SolutionOfRange DEF InOrder
  <2> QED BY <1>5, <2>1
<1>7. k - 1 \in 0..n /\ k - 1 \notin B
  <2>1. k - 1 \in 0..n /\ ~(k <= k - 1)
    BY <1>6
  <2> QED BY <2>1, <1>4
<1>8. g[1..(k - 1)] = partial[k - 1]
  BY <1>7 DEF B
<1>9. g[1..k] = g[1..(k - 1)] + f[k]
  <2>1. InOrder(g, f, n)
    BY <1>1, SolutionOfRange
  <2> QED BY <2>1, <1>6 DEF InOrder
<1> QED BY <1>5, <1>6, <1>8, <1>9

(* Two sums whose summands are within one unit of each other are within as   *)
(* many units as there are summands.                                         *)
Within(a, d, b, q, units) == a * d <= b * q + units * d /\ b * q <= a * d + units * d
LEMMA SumsAreClose ==
  ASSUME NEW n \in Nat, NEW f \in [1..n -> Nat], NEW r \in [1..n -> Nat],
         NEW q \in Nat, NEW d \in Nat, \A k \in 1..n : Within(f[k], d, r[k], q, 1)
  PROVE  /\ SumFunction(f) \in Nat /\ SumFunction(r) \in Nat
         /\ Within(SumFunction(f), d, SumFunction(r), q, n)
<1>1. PICK g : Solves(g, f, 1..n) /\ SumFunction(f) = g[1..n]
  BY RangeHasSum
<1>2. PICK h : Solves(h, r, 1..n) /\ SumFunction(r) = h[1..n]
  BY RangeHasSum
<1>3. \A k \in 0..n : g[1..k] \in Nat /\ h[1..k] \in Nat
  <2>1. \A k \in 0..n : 1..k \in SUBSET (1..n)
    OBVIOUS
  <2> QED BY <2>1, <1>1, <1>2 DEF Solves
<1> DEFINE Close(k) == Within(g[1..k], d, h[1..k], q, k)
           B == {k \in 0..n : ~Close(k)}
<1>4. SUFFICES ASSUME B # {} PROVE FALSE
  <2>1. n \in 0..n
    OBVIOUS
  <2>2. Close(n)
    BY <1>4, <2>1
  <2> QED BY <1>1, <1>2, <1>3, <2>1, <2>2
<1>5. B \subseteq Nat
  OBVIOUS
<1> HIDE DEF B
<1>6. PICK k \in B : \A j \in B : k <= j
  BY <1>4, <1>5, LeastElement
<1>7. k \in 0..n /\ ~Close(k)
  BY <1>6 DEF B
<1>8. k \in 1..n
  <2>1. Close(0)
    <3>1. g[1..0] = 0 /\ h[1..0] = 0
      BY <1>1, <1>2, SolutionOfRange DEF InOrder
    <3>2. 0 * d = 0 /\ 0 * q = 0
      OBVIOUS
    <3> QED BY <3>1, <3>2 DEF Within
  <2>2. k # 0
    BY <1>7, <2>1
  <2> QED BY <1>7, <2>2
<1>9. k - 1 \in 0..n /\ k - 1 \notin B
  <2>1. k - 1 \in 0..n /\ ~(k <= k - 1)
    BY <1>8
  <2> QED BY <2>1, <1>6
<1>10. Close(k - 1)
  BY <1>9 DEF B
<1>11. g[1..k] = g[1..(k - 1)] + f[k] /\ h[1..k] = h[1..(k - 1)] + r[k]
  <2>1. InOrder(g, f, n) /\ InOrder(h, r, n)
    BY <1>1, <1>2, SolutionOfRange
  <2> QED BY <2>1, <1>8 DEF InOrder
<1>12. ASSUME NEW a \in Nat, NEW b \in Nat, NEW x \in Nat, NEW y \in Nat,
              Within(a, d, b, q, k - 1), Within(x, d, y, q, 1)
       PROVE  Within(a + x, d, b + y, q, k)
  <2>1. (a + x) * d = a * d + x * d /\ (b + y) * q = b * q + y * q /\ k * d = (k - 1) * d + d
    BY <1>8
  <2>2. a * d \in Nat /\ x * d \in Nat /\ b * q \in Nat /\ y * q \in Nat /\ (k - 1) * d \in Nat
    BY <1>8
  <2>3. k * d \in Nat /\ 1 * d = d
    BY <1>8
  <2> HIDE <1>8
  <2> QED BY <1>12, <2>1, <2>2, <2>3 DEF Within
<1>13. /\ g[1..(k - 1)] \in Nat /\ h[1..(k - 1)] \in Nat /\ f[k] \in Nat /\ r[k] \in Nat
       /\ Within(f[k], d, r[k], q, 1)
  BY <1>3, <1>8, <1>9
<1>14. Close(k)
  BY <1>10, <1>11, <1>12, <1>13
<1> QED BY <1>7, <1>14

(* One more at one place is one more in the sum.                             *)
LEMMA SumOfIncrement ==
  ASSUME NEW S, IsFiniteSet(S), NEW f \in [S -> Nat], NEW c \in S, NEW e \in [S -> Nat],
         e[c] = f[c] + 1, \A x \in S \ {c} : e[x] = f[x]
  PROVE  SumFunction(f) \in Nat /\ SumFunction(e) = SumFunction(f) + 1
<1>1. PICK g : Solves(g, f, S) /\ SumFunction(f) = g[S]
  BY SumIsSolution
<1>2. PICK h : Solves(h, e, S) /\ SumFunction(e) = h[S]
  BY SumIsSolution
<1> DEFINE T == S \ {c}
<1>3. T \in SUBSET S /\ T \in SUBSET T /\ T \subseteq T
  OBVIOUS
<1>4. Follows(g, f, T) /\ Follows(h, f, T)
  <2>1. Follows(g, f, T)
    BY <1>1, <1>3 DEF Solves, Follows
  <2>2. ASSUME NEW s \in SUBSET T, s # {} PROVE h[s] = f[Chosen(s)] + h[s \ {Chosen(s)}]
    <3>1. Chosen(s) \in S \ {c}
      BY <2>2, ChosenIn
    <3>2. h[s] = e[Chosen(s)] + h[s \ {Chosen(s)}]
      BY <1>2, <2>2 DEF Solves, Follows
    <3> QED BY <3>1, <3>2
  <2>3. h[{}] = 0
    BY <1>2 DEF Solves, Follows
  <2> QED BY <2>1, <2>2, <2>3 DEF Follows
<1>5. g[T] = h[T]
  <2> HIDE DEF T
  <2>1. \A s \in SUBSET T : s \subseteq T => g[s] = h[s]
    BY <1>3, <1>4, SumsAgree
  <2> QED BY <2>1, <1>3
<1>6. g[S] = f[c] + g[T] /\ h[S] = e[c] + h[T]
  <2>1. AnyOrder(g, f, S) /\ AnyOrder(h, e, S)
    BY <1>1, <1>2, SumStep
  <2>3. S \in SUBSET S
    OBVIOUS
  <2> QED BY <2>1, <2>3 DEF AnyOrder
<1>7. g[S] \in Nat /\ g[T] \in Nat
  BY <1>1, <1>3 DEF Solves
<1> HIDE DEF T
<1> QED BY <1>1, <1>2, <1>5, <1>6, <1>7

(* Nothing but zeros sums to zero.                                           *)
LEMMA SumOfZeros ==
  ASSUME NEW S, IsFiniteSet(S), NEW f \in [S -> Nat], \A x \in S : f[x] = 0
  PROVE  SumFunction(f) = 0
<1>1. PICK g : Solves(g, f, S) /\ SumFunction(f) = g[S]
  BY SumIsSolution
<1> DEFINE B == {s \in SUBSET S : g[s] # 0}
<1>2. SUFFICES ASSUME B # {} PROVE FALSE
  BY <1>1
<1>3. B \in SUBSET SUBSET S
  OBVIOUS
<1> HIDE DEF B
<1>4. PICK s \in B : \A t \in B : t \subseteq s => t = s
  BY <1>2, <1>3, LeastSet
<1>5. s \in SUBSET S /\ g[s] # 0
  BY <1>4 DEF B
<1>6. s # {}
  BY <1>1, <1>5 DEF Solves, Follows
<1> DEFINE t == s \ {Chosen(s)}
<1>7. Chosen(s) \in s /\ t \subseteq s /\ t # s
  BY <1>6, ChosenIn
<1>8. g[t] = 0
  BY <1>4, <1>5, <1>7 DEF B
<1>9. g[s] = f[Chosen(s)] + g[t]
  BY <1>1, <1>5, <1>6 DEF Solves, Follows
<1> QED BY <1>5, <1>7, <1>8, <1>9

----------------------------------------------------------------------------
(* How a load is divided: the first k shares of a total have a closed form.  *)

Smaller(a, b) == IF a <= b THEN a ELSE b

LEMMA DivisionFacts ==
  ASSUME NEW total \in Nat, NEW parts \in Nat \ {0}
  PROVE  /\ total \div parts \in Nat /\ total % parts \in 0..parts-1
         /\ total = parts * (total \div parts) + (total % parts)
OBVIOUS

FirstShares(total, parts, k) == k * (total \div parts) + Smaller(k, total % parts)

(* They grow by one share at a time, from nothing to the total.              *)
LEMMA FirstSharesStep ==
  ASSUME NEW total \in Nat, NEW parts \in Nat \ {0}, NEW k \in 1..parts
  PROVE  /\ FirstShares(total, parts, k) \in Nat /\ FirstShares(total, parts, 0) = 0
         /\ FirstShares(total, parts, parts) = total
         /\ FirstShares(total, parts, k) = FirstShares(total, parts, k - 1) + divide(total, parts, k)
<1> DEFINE q == total \div parts
           r == total % parts
<1>1. q \in Nat /\ r \in 0..parts-1 /\ total = parts * q + r
  BY DivisionFacts
<1>2. k * q \in Nat /\ (k - 1) * q \in Nat /\ k * q = (k - 1) * q + q /\ 0 * q = 0
  BY <1>1
<1> HIDE DEF q, r
<1>3. /\ k * q + Smaller(k, r) \in Nat /\ 0 * q + Smaller(0, r) = 0
      /\ parts * q + Smaller(parts, r) = total
      /\ k * q + Smaller(k, r) = (k - 1) * q + Smaller(k - 1, r) + (q + IF k <= r THEN 1 ELSE 0)
  BY <1>1, <1>2 DEF Smaller
<1> QED BY <1>3 DEF FirstShares, divide, q, r

(* A share is positive if the total suffices for all.                        *)
LEMMA DivideFacts ==
  ASSUME NEW total \in Nat, NEW parts \in Nat \ {0}, NEW i \in 1..parts
  PROVE  /\ divide(total, parts, i) \in Nat
         /\ total = 0 => divide(total, parts, i) = 0
         /\ total >= parts => divide(total, parts, i) > 0
<1> DEFINE q == total \div parts
           r == total % parts
<1>1. q \in Nat /\ r \in 0..parts-1 /\ total = parts * q + r
  BY DivisionFacts
<1> HIDE DEF q, r
<1>2. total = 0 => q = 0 /\ r = 0
  <2>1. 0 \div parts = 0 /\ 0 % parts = 0
    OBVIOUS
  <2> QED BY <2>1 DEF q, r
<1>3. total >= parts => q > 0
  <2>1. q = 0 => parts * q = 0
    OBVIOUS
  <2> QED BY <1>1, <2>1
<1>4. divide(total, parts, i) = q + IF i <= r THEN 1 ELSE 0
  BY DEF divide, q, r
<1> QED BY <1>1, <1>2, <1>3, <1>4

(* The shares that divide hands out sum to the total.                        *)
LEMMA SharesAddUp ==
  ASSUME NEW total \in Nat, NEW parts \in Nat \ {0}
  PROVE  SumFunction([i \in 1..parts |-> divide(total, parts, i)]) = total
<1> DEFINE f == [i \in 1..parts |-> divide(total, parts, i)]
           partial == [k \in 0..parts |-> FirstShares(total, parts, k)]
<1>1. f \in [1..parts -> Nat]
  BY DivideFacts
<1>2. \A k \in 1..parts :
        /\ FirstShares(total, parts, k) \in Nat
        /\ FirstShares(total, parts, k) = FirstShares(total, parts, k - 1) + divide(total, parts, k)
  BY FirstSharesStep
<1>3. FirstShares(total, parts, 0) = 0 /\ FirstShares(total, parts, parts) = total
  <2>1. parts \in 1..parts
    OBVIOUS
  <2> QED BY <2>1, FirstSharesStep
<1>4. partial \in [0..parts -> Nat]
  <2>1. \A k \in 0..parts : k = 0 \/ k \in 1..parts
    OBVIOUS
  <2> QED BY <1>2, <1>3, <2>1
<1>5. partial[0] = 0 /\ partial[parts] = total
  BY <1>3
<1>6. \A k \in 1..parts : partial[k] = partial[k - 1] + f[k]
  <2>1. \A k \in 1..parts : k \in 0..parts /\ k - 1 \in 0..parts
    OBVIOUS
  <2> QED BY <1>2, <2>1
<1> HIDE DEF partial, f
<1>7. SumFunction(f) = partial[parts]
  BY <1>1, <1>4, <1>5, <1>6, SumOfRange
<1> QED BY <1>5, <1>7 DEF f

(* What splitLoad gives to whom: the first workers have a share of each part *)
(* of the load, and are the ones isActiveSlice takes for active.             *)
LEMMA ActiveSlices ==
  ASSUME NEW l \in Loads, NEW n \in Nat \ {0}
  PROVE  LET active == activeParts(l, n)
             sl == splitLoad(l, n)
         IN  /\ active \in 1..n
             /\ {i \in 1..n : isActiveSlice(sl[i])} = 1..active
             /\ \A i \in 1..n : validSlice(sl[i])
             /\ \A i \in 1..active : /\ sl[i].users = divide(l.users, active, i)
                                     /\ sl[i].rate = divide(l.rate, active, i)
                                     /\ sl[i].limit = divide(l.limit, active, i)
             /\ l.users = 0 => \A i \in 1..active : sl[i].rate \in Nat \ {0}
<1> DEFINE active == activeParts(l, n)
           sl == splitLoad(l, n)
           ShareOf(total, i) == IF i <= active THEN divide(total, active, i) ELSE 0
<1>1. /\ l.users \in Nat /\ l.rate \in Nat /\ l.limit \in Nat
      /\ \/ l.users > 0 /\ l.rate = 0 /\ l.limit = 0
         \/ l.users = 0 /\ l.rate > 0 /\ l.limit > 0
  BY DEF Loads, Slice
<1>2. /\ active \in 1..n
      /\ l.users > 0 => active <= l.users
      /\ l.users = 0 => active <= l.rate /\ active <= l.limit
  BY <1>1 DEF activeParts
<1> HIDE DEF active
<1>3. ASSUME NEW i \in 1..n, NEW total \in Nat
      PROVE  /\ ShareOf(total, i) \in Nat
             /\ total = 0 => ShareOf(total, i) = 0
             /\ i <= active /\ total >= active => ShareOf(total, i) > 0
  <2>1. CASE i <= active
    <3>1. active \in Nat \ {0} /\ i \in 1..active
      BY <1>2, <2>1
    <3> QED BY <2>1, <3>1, DivideFacts
  <2>2. CASE ~(i <= active)
    BY <2>2
  <2> QED BY <2>1, <2>2
<1>4. ASSUME NEW i \in 1..n
      PROVE  /\ sl[i] = [users |-> ShareOf(l.users, i), rate |-> ShareOf(l.rate, i),
                         limit |-> ShareOf(l.limit, i)]
             /\ sl[i].users = ShareOf(l.users, i) /\ sl[i].rate = ShareOf(l.rate, i)
             /\ sl[i].limit = ShareOf(l.limit, i)
  <2>1. \A total \in Nat : (IF total > 0 /\ i <= active THEN divide(total, active, i) ELSE 0) = ShareOf(total, i)
    <3>1. TAKE total \in Nat
    <3>2. CASE total > 0
      BY <3>2
    <3>3. CASE total = 0
      BY <3>3, <1>3
    <3> QED BY <3>2, <3>3
  <2> HIDE DEF ShareOf
  <2>2. sl[i] = [users |-> ShareOf(l.users, i), rate |-> ShareOf(l.rate, i),
                 limit |-> ShareOf(l.limit, i)]
    BY <1>1, <2>1 DEF splitLoad, active
  <2> HIDE DEF sl
  <2> QED BY <2>2
<1>5. ASSUME NEW i \in 1..n
      PROVE  /\ validSlice(sl[i])
             /\ isActiveSlice(sl[i]) <=> i <= active
             /\ l.users = 0 /\ i <= active => sl[i].rate > 0
  <2> DEFINE u == ShareOf(l.users, i)
             r == ShareOf(l.rate, i)
             m == ShareOf(l.limit, i)
  <2>1. u \in Nat /\ r \in Nat /\ m \in Nat
    BY <1>1, <1>3
  <2>2. sl[i].users = u /\ sl[i].rate = r /\ sl[i].limit = m
    BY <1>4
  <2>3. ~(i <= active) => u = 0 /\ r = 0 /\ m = 0
    OBVIOUS
  <2>4. l.users > 0 => r = 0 /\ m = 0 /\ (i <= active => u > 0)
    BY <1>1, <1>2, <1>3
  <2>5. l.users = 0 => u = 0 /\ (i <= active => r > 0 /\ m > 0)
    BY <1>1, <1>2, <1>3
  <2> HIDE DEF u, r, m, sl
  <2> QED BY <1>1, <2>1, <2>2, <2>3, <2>4, <2>5 DEF validSlice, isActiveSlice
<1>6. {i \in 1..n : isActiveSlice(sl[i])} = 1..active
  <2> HIDE DEF sl
  <2>1. \A i \in 1..n : isActiveSlice(sl[i]) <=> i \in 1..active
    BY <1>2, <1>5
  <2>2. 1..active \subseteq 1..n
    BY <1>2
  <2> QED BY <2>1, <2>2
<1>7. \A i \in 1..active : i \in 1..n /\ i <= active
  BY <1>2
<1>8. \A i \in 1..active : /\ sl[i].users = divide(l.users, active, i)
                           /\ sl[i].rate = divide(l.rate, active, i)
                           /\ sl[i].limit = divide(l.limit, active, i)
  <2> HIDE DEF sl
  <2> QED BY <1>4, <1>7
<1>9. l.users = 0 => \A i \in 1..active : sl[i].rate \in Nat \ {0}
  <2> HIDE DEF sl
  <2>1. \A i \in 1..n : sl[i].rate \in Nat
    BY <1>1, <1>3, <1>4
  <2> QED BY <1>5, <1>7, <2>1
<1> HIDE DEF sl
<1>10. /\ active \in 1..n
       /\ {i \in 1..n : isActiveSlice(sl[i])} = 1..active
       /\ \A i \in 1..n : validSlice(sl[i])
       /\ \A i \in 1..active : /\ sl[i].users = divide(l.users, active, i)
                               /\ sl[i].rate = divide(l.rate, active, i)
                               /\ sl[i].limit = divide(l.limit, active, i)
       /\ l.users = 0 => \A i \in 1..active : sl[i].rate \in Nat \ {0}
  BY <1>2, <1>5, <1>6, <1>8, <1>9
<1> QED BY <1>10 DEF sl, active

(* However load and fleet compare: some slice is active, the active slices   *)
(* (isActiveSlice) add up to the load, and each passes the worker's          *)
(* validateAssignment.                                                       *)
THEOREM LoadIsDivided ==
  ASSUME NEW l \in Loads, NEW n \in Nat \ {0}
  PROVE  LET sl == splitLoad(l, n)
             active == {i \in 1..n : isActiveSlice(sl[i])}
         IN  /\ active # {} /\ \A i \in 1..n : validSlice(sl[i])
             /\ SumFunction([i \in active |-> sl[i].users]) = l.users
             /\ SumFunction([i \in active |-> sl[i].rate]) = l.rate
             /\ SumFunction([i \in active |-> sl[i].limit]) = l.limit
<1> DEFINE parts == activeParts(l, n)
           sl == splitLoad(l, n)
           active == {i \in 1..n : isActiveSlice(sl[i])}
<1>1. /\ parts \in 1..n /\ active = 1..parts
      /\ \A i \in 1..n : validSlice(sl[i])
      /\ \A i \in 1..parts : /\ sl[i].users = divide(l.users, parts, i)
                             /\ sl[i].rate = divide(l.rate, parts, i)
                             /\ sl[i].limit = divide(l.limit, parts, i)
  BY ActiveSlices
<1>2. l.users \in Nat /\ l.rate \in Nat /\ l.limit \in Nat
  BY DEF Loads, Slice
<1> HIDE DEF parts, sl, active
<1>3. parts \in Nat \ {0} /\ 1 \in 1..parts
  BY <1>1
<1>4. /\ [i \in active |-> sl[i].users] = [i \in 1..parts |-> divide(l.users, parts, i)]
      /\ [i \in active |-> sl[i].rate] = [i \in 1..parts |-> divide(l.rate, parts, i)]
      /\ [i \in active |-> sl[i].limit] = [i \in 1..parts |-> divide(l.limit, parts, i)]
  BY <1>1
<1>5. \A total \in Nat : SumFunction([i \in 1..parts |-> divide(total, parts, i)]) = total
  BY <1>3, SharesAddUp
<1>6. /\ active # {} /\ \A i \in 1..n : validSlice(sl[i])
      /\ SumFunction([i \in active |-> sl[i].users]) = l.users
      /\ SumFunction([i \in active |-> sl[i].rate]) = l.rate
      /\ SumFunction([i \in active |-> sl[i].limit]) = l.limit
  BY <1>1, <1>2, <1>3, <1>4, <1>5
<1> QED BY <1>6 DEF active, sl

----------------------------------------------------------------------------
(* The search for the first arrival that is due.                             *)

(* The doubling stops at a number that is not past, from 1 at least.        *)
LEMMA DoubleFinds ==
  ASSUME NEW F \in Nat, NEW d, d = [h \in Nat |-> IF h < F THEN d[2 * h] ELSE h]
  PROVE  d[1] \in Nat /\ F <= d[1]
<1> DEFINE B == {k \in Nat : \E h \in Nat \ {0} : F <= h + k /\ ~ (d[h] \in Nat /\ F <= d[h])}
<1>1. SUFFICES ASSUME B # {} PROVE FALSE
  <2>1. F \notin B BY <1>1
  <2> HIDE DEF B
  <2> QED BY <2>1 DEF B
<1> HIDE DEF B
<1>2. B \subseteq Nat BY DEF B
<1>3. PICK k \in B : \A j \in B : k <= j BY <1>1, <1>2, LeastElement
<1>4. k \in Nat /\ \E h \in Nat \ {0} : F <= h + k /\ ~ (d[h] \in Nat /\ F <= d[h]) BY <1>3 DEF B
<1>5. PICK h \in Nat \ {0} : F <= h + k /\ ~ (d[h] \in Nat /\ F <= d[h]) BY <1>4
<1>6. d[h] = IF h < F THEN d[2 * h] ELSE h OBVIOUS
<1>7. h < F BY <1>5, <1>6
<1>8. k - 1 \in Nat /\ 2 * h \in Nat \ {0} /\ F <= 2 * h + (k - 1) BY <1>4, <1>5, <1>7
<1>9. ~ (d[2 * h] \in Nat /\ F <= d[2 * h]) BY <1>5, <1>6, <1>7
<1>10. k - 1 \in B BY <1>8, <1>9 DEF B
<1>11. k <= k - 1 BY <1>3, <1>10
<1> QED BY <1>11, <1>4

(* Its recursion has a solution: the least number on the way up from h, by   *)
(* doublings, that is not past.  From 0 there may be none.                   *)
LEMMA DoubleExists ==
  ASSUME NEW F \in Nat
  PROVE  \E d : d = [h \in Nat |-> IF h < F THEN d[2 * h] ELSE h]
<1> DEFINE Closed(U) == \A u \in U : 2 * u \in U
           Orbit(h) == {x \in Nat : \A U \in SUBSET Nat : h \in U /\ Closed(U) => x \in U}
           From(h) == {x \in Orbit(h) : F <= x}
           Min(T) == CHOOSE m \in T : \A j \in T : m <= j
           d == [h \in Nat |-> IF h < F THEN Min(From(h)) ELSE h]
<1>1. ASSUME NEW h \in Nat PROVE Orbit(h) = {h} \cup Orbit(2 * h)
  <2>1. h \in Orbit(h) OBVIOUS
  <2>2. ASSUME NEW x \in Orbit(2 * h) PROVE x \in Orbit(h)
    <3> SUFFICES ASSUME NEW U \in SUBSET Nat, h \in U, Closed(U) PROVE x \in U OBVIOUS
    <3> QED BY <2>2
  <2>3. ASSUME NEW x \in Orbit(h) PROVE x \in {h} \cup Orbit(2 * h)
    <3>1. {h} \cup Orbit(2 * h) \in SUBSET Nat OBVIOUS
    <3>2. 2 * h \in Orbit(2 * h) OBVIOUS
    <3>3. ASSUME NEW u \in Orbit(2 * h) PROVE 2 * u \in Orbit(2 * h)
      <4>1. u \in Nat /\ 2 * u \in Nat OBVIOUS
      <4> SUFFICES ASSUME NEW U \in SUBSET Nat, 2 * h \in U, Closed(U) PROVE 2 * u \in U BY <4>1
      <4>2. u \in U OBVIOUS
      <4> QED BY <4>2
    <3>4. Closed({h} \cup Orbit(2 * h)) 
      <4> HIDE DEF Orbit
      <4> QED BY <3>2, <3>3
    <3>5. \A U \in SUBSET Nat : h \in U /\ Closed(U) => x \in U OBVIOUS
    <3> HIDE DEF Orbit, Closed
    <3> QED BY <3>1, <3>4, <3>5
  <2> HIDE DEF Orbit
  <2> QED BY <2>1, <2>2, <2>3
<1>2. ASSUME NEW h \in Nat, F <= h PROVE Min(From(h)) = h
  <2>1. h \in From(h) BY <1>2
  <2>2. ASSUME NEW x \in From(h) PROVE h <= x
    <3> DEFINE U == {u \in Nat : h <= u}
    <3>1. U \in SUBSET Nat /\ h \in U /\ Closed(U) OBVIOUS
    <3>2. x \in U BY <3>1
    <3> QED BY <3>2
  <2>3. From(h) \subseteq Nat OBVIOUS
  <2> HIDE DEF From
  <2>4. \E m \in From(h) : \A j \in From(h) : m <= j BY <2>1, <2>2
  <2>5. Min(From(h)) \in From(h) /\ Min(From(h)) <= h BY <2>4, <2>1
  <2> QED BY <2>2, <2>3, <2>5
<1>3. ASSUME NEW h \in Nat, h < F PROVE From(h) = From(2 * h)
  <2> HIDE DEF Orbit
  <2> QED BY <1>1, <1>3
<1> HIDE DEF From, Min
<1>4. ASSUME NEW h \in Nat PROVE d[h] = IF h < F THEN d[2 * h] ELSE h
  <2>1. 2 * h \in Nat OBVIOUS
  <2>2. CASE h < F
    <3>1. d[h] = Min(From(2 * h)) BY <1>3, <2>2
    <3>2. d[2 * h] = Min(From(2 * h)) BY <1>2, <2>1
    <3> QED BY <3>1, <3>2, <2>2
  <2> QED BY <2>2
<1>5. d = [h \in Nat |-> IF h < F THEN d[2 * h] ELSE h]
  <2>1. d = [h \in Nat |-> d[h]] OBVIOUS
  <2> HIDE DEF d
  <2> QED BY <2>1, <1>4
<1> QED BY <1>5

Search(g, r, F) ==
  LET low == r[1]  high == r[2]  middle == low + (high - low) \div 2 IN
  IF low >= high THEN low
  ELSE IF middle < F THEN g[<<middle + 1, high>>] ELSE g[<<low, middle>>]
Nearest(l, h, F) == IF l >= h \/ F < l THEN l ELSE IF h < F THEN h ELSE F

(* The halving's has one, too: the first number that is not past, or the     *)
(* end of the range nearest to it.                                           *)
LEMMA HalveExists ==
  ASSUME NEW F \in Nat
  PROVE  \E g : g = [r \in Nat \X Nat |-> Search(g, r, F)]
<1> DEFINE g == [r \in Nat \X Nat |-> Nearest(r[1], r[2], F)]
<1>1. ASSUME NEW l \in Nat, NEW h \in Nat PROVE g[<<l, h>>] = Nearest(l, h, F)
  <2>1. <<l, h>> \in Nat \X Nat /\ <<l, h>>[1] = l /\ <<l, h>>[2] = h OBVIOUS
  <2> QED BY <2>1
<1> HIDE DEF g
<1>2. ASSUME NEW l \in Nat, NEW h \in Nat PROVE Search(g, <<l, h>>, F) = Nearest(l, h, F)
  <2> DEFINE m == l + (h - l) \div 2
  <2>0. <<l, h>>[1] = l /\ <<l, h>>[2] = h OBVIOUS
  <2>1. l < h => m \in Nat /\ l <= m /\ m < h OBVIOUS
  <2>2. Search(g, <<l, h>>, F) = IF l >= h THEN l ELSE IF m < F THEN g[<<m + 1, h>>] ELSE g[<<l, m>>]
    BY <2>0 DEF Search
  <2> HIDE DEF m
  <2>3. CASE l >= h BY <2>2, <2>3 DEF Nearest
  <2>4. CASE l < h /\ m < F
    <3>1. m + 1 \in Nat BY <2>1, <2>4
    <3>2. g[<<m + 1, h>>] = Nearest(m + 1, h, F) BY <1>1, <3>1
    <3>3. Nearest(m + 1, h, F) = Nearest(l, h, F) BY <2>1, <2>4 DEF Nearest
    <3> QED BY <2>2, <2>4, <3>2, <3>3
  <2>5. CASE l < h /\ ~ (m < F)
    <3>1. g[<<l, m>>] = Nearest(l, m, F) BY <1>1, <2>1, <2>5
    <3>3. Nearest(l, m, F) = Nearest(l, h, F) BY <2>1, <2>5 DEF Nearest
    <3> QED BY <2>2, <2>5, <3>1, <3>3
  <2> QED BY <2>3, <2>4, <2>5
<1>3. \A r \in Nat \X Nat : Search(g, r, F) = g[r]
  <2> TAKE r \in Nat \X Nat
  <2>1. r[1] \in Nat /\ r[2] \in Nat /\ r = <<r[1], r[2]>> OBVIOUS
  <2> QED BY <2>1, <1>1, <1>2
<1>4. g = [r \in Nat \X Nat |-> g[r]] BY DEF g
<1> QED BY <1>3, <1>4

(* So any function that satisfies the equation of the halving has this       *)
(* value.                                                                    *)
LEMMA HalveFinds ==
  ASSUME NEW F \in Nat, NEW g, g = [r \in Nat \X Nat |-> Search(g, r, F)]
  PROVE  \A l, h \in Nat : g[<<l, h>>] = Nearest(l, h, F)
<1> DEFINE B == {k \in Nat : \E l, h \in Nat : h <= l + k /\ g[<<l, h>>] # Nearest(l, h, F)}
<1>1. SUFFICES ASSUME B # {} PROVE FALSE
  <2> SUFFICES ASSUME NEW l \in Nat, NEW h \in Nat PROVE g[<<l, h>>] = Nearest(l, h, F) OBVIOUS
  <2>1. h \notin B BY <1>1
  <2>2. ~ \E i, j \in Nat : j <= i + h /\ g[<<i, j>>] # Nearest(i, j, F) BY <2>1
  <2>3. h <= l + h OBVIOUS
  <2> HIDE DEF B
  <2> QED BY <2>2, <2>3
<1> HIDE DEF B
<1>2. B \subseteq Nat BY DEF B
<1>3. PICK k \in B : \A j \in B : k <= j BY <1>1, <1>2, LeastElement
<1>4. k \in Nat /\ \E l, h \in Nat : h <= l + k /\ g[<<l, h>>] # Nearest(l, h, F) BY <1>3 DEF B
<1>5. PICK l \in Nat, h \in Nat : h <= l + k /\ g[<<l, h>>] # Nearest(l, h, F) BY <1>4
<1> DEFINE m == l + (h - l) \div 2
<1>6. l < h => m \in Nat /\ l <= m /\ m < h BY <1>5
<1>7. g[<<l, h>>] = IF l >= h THEN l ELSE IF m < F THEN g[<<m + 1, h>>] ELSE g[<<l, m>>]
  <2>1. <<l, h>> \in Nat \X Nat /\ <<l, h>>[1] = l /\ <<l, h>>[2] = h BY <1>5
  <2>2. g[<<l, h>>] = Search(g, <<l, h>>, F) BY <2>1
  <2>3. Search(g, <<l, h>>, F) = IF l >= h THEN l ELSE IF m < F THEN g[<<m + 1, h>>] ELSE g[<<l, m>>]
    BY <2>1 DEF Search
  <2> QED BY <2>2, <2>3
<1> HIDE DEF m
<1>8. l < h BY <1>5, <1>7 DEF Nearest
<1>9. k - 1 \in Nat /\ k - 1 \notin B /\ m + 1 \in Nat
  <2>1. k - 1 \in Nat /\ m + 1 \in Nat BY <1>4, <1>5, <1>6, <1>8
  <2> QED BY <2>1, <1>3, <1>4
<1>10. \A i, j \in Nat : j <= i + (k - 1) => g[<<i, j>>] = Nearest(i, j, F) BY <1>9 DEF B
<1>11. CASE m < F
  <2>1. h <= m + 1 + (k - 1) BY <1>4, <1>5, <1>6, <1>8
  <2>2. g[<<m + 1, h>>] = Nearest(m + 1, h, F) BY <1>9, <1>10, <2>1
  <2>3. Nearest(m + 1, h, F) = Nearest(l, h, F) BY <1>6, <1>8, <1>11 DEF Nearest
  <2> QED BY <1>5, <1>7, <1>8, <1>11, <2>2, <2>3
<1>12. CASE ~(m < F)
  <2>1. m <= l + (k - 1) BY <1>4, <1>5, <1>6, <1>8
  <2>2. g[<<l, m>>] = Nearest(l, m, F) BY <1>6, <1>8, <1>10, <2>1
  <2>3. Nearest(l, m, F) = Nearest(l, h, F) BY <1>6, <1>8, <1>12 DEF Nearest
  <2> QED BY <1>5, <1>7, <1>8, <1>12, <2>2, <2>3
<1> QED BY <1>11, <1>12

(* If past are the numbers below F, the code's search finds F.               *)
LEMMA SearchFinds ==
  ASSUME NEW t \in Nat, NEW o, NEW F \in Nat,
         \A s \in Nat : AlreadyPast(s, t, o) <=> s < F, t = 0 => F = 0
  PROVE  firstArrivalSequence(t, o) = F
<1> DEFINE DBody(g) == [high \in Nat |-> IF AlreadyPast(high, t, o) THEN g[2 * high] ELSE high]
           double == CHOOSE g : g = DBody(g)
           HBody(g) == [range \in Nat \X Nat |->
             IF range[1] >= range[2] THEN range[1]
             ELSE IF AlreadyPast(range[1] + (range[2] - range[1]) \div 2, t, o)
                  THEN g[<<range[1] + (range[2] - range[1]) \div 2 + 1, range[2]>>]
                  ELSE g[<<range[1], range[1] + (range[2] - range[1]) \div 2>>]]
           halve == CHOOSE g : g = HBody(g)
<1>1. t # 0 => firstArrivalSequence(t, o) = halve[<<0, double[1]>>]
  BY DEF firstArrivalSequence
<1>2. t = 0 => firstArrivalSequence(t, o) = 0
  BY DEF firstArrivalSequence
<1>3. \A g : DBody(g) = [h \in Nat |-> IF h < F THEN g[2 * h] ELSE h]
  OBVIOUS
<1>4. \A g : HBody(g) = [r \in Nat \X Nat |-> Search(g, r, F)]
  <2> TAKE g
  <2>1. \A r \in Nat \X Nat : (IF r[1] >= r[2] THEN r[1]
             ELSE IF AlreadyPast(r[1] + (r[2] - r[1]) \div 2, t, o)
                  THEN g[<<r[1] + (r[2] - r[1]) \div 2 + 1, r[2]>>]
                  ELSE g[<<r[1], r[1] + (r[2] - r[1]) \div 2>>]) = Search(g, r, F)
    <3> TAKE r \in Nat \X Nat
    <3>1. r[1] \in Nat /\ r[2] \in Nat OBVIOUS
    <3> DEFINE m == r[1] + (r[2] - r[1]) \div 2
    <3>2. r[1] < r[2] => m \in Nat BY <3>1
    <3>3. r[1] < r[2] => (AlreadyPast(m, t, o) <=> m < F) BY <3>2
    <3> QED BY <3>1, <3>3 DEF Search
  <2> QED BY <2>1
<1> HIDE DEF DBody, HBody
<1>5. double = DBody(double) 
  <2>1. \E g : g = DBody(g) BY <1>3, DoubleExists
  <2> QED BY <2>1
<1>6. halve = HBody(halve)
  <2>1. \E g : g = HBody(g) BY <1>4, HalveExists
  <2> QED BY <2>1
<1> HIDE DEF double, halve
<1>7. double[1] \in Nat /\ F <= double[1] BY <1>3, <1>5, DoubleFinds
<1>8. \A l, h \in Nat : halve[<<l, h>>] = Nearest(l, h, F)
  <2>1. halve = [r \in Nat \X Nat |-> Search(halve, r, F)] BY <1>4, <1>6
  <2> QED BY <2>1, HalveFinds
<1>9. Nearest(0, double[1], F) = F BY <1>7 DEF Nearest
<1> QED BY <1>1, <1>2, <1>7, <1>8, <1>9

----------------------------------------------------------------------------
(* The arrival curve.                                                        *)

(* Products grow with their factors.                                         *)
LEMMA Larger ==
  ASSUME NEW a \in Nat, NEW b \in Nat, NEW c \in Nat, a <= b
  PROVE  a * c \in Nat /\ b * c \in Nat /\ a * c <= b * c
<1>1. PICK k \in Nat : b = a + k
  <2>1. b - a \in Nat /\ b = a + (b - a) OBVIOUS
  <2> QED BY <2>1
<1>2. (a + k) * c = a * c + k * c /\ a * c \in Nat /\ k * c \in Nat
  OBVIOUS
<1> HIDE <1>2
<1> QED BY <1>1, <1>2

(* A quotient rounded down is below a number if the exact one is.            *)
LEMMA QuotientBelow ==
  ASSUME NEW x \in Nat, NEW b \in Nat \ {0}, NEW t \in Nat
  PROVE  x \div b \in Nat /\ ((x \div b) < t <=> x < t * b)
<1> DEFINE q == x \div b
<1>1. q \in Nat /\ x % b \in 0..b-1 /\ x = b * q + (x % b)
  OBVIOUS
<1> HIDE DEF q
<1>2. b * q = q * b /\ q * b \in Nat /\ t * b \in Nat
  BY <1>1
<1>3. CASE q < t
  <2>1. q + 1 \in Nat /\ q + 1 <= t BY <1>1, <1>3
  <2>2. (q + 1) * b <= t * b BY <2>1, Larger
  <2>3. (q + 1) * b = q * b + b BY <1>1
  <2> QED BY <1>1, <1>2, <1>3, <2>2, <2>3 DEF q
<1>4. CASE ~(q < t)
  <2>1. t * b <= q * b BY <1>1, <1>4, Larger
  <2> QED BY <1>1, <1>2, <1>4, <2>1 DEF q
<1> QED BY <1>3, <1>4

(* Every number has a root, rounded down.                                    *)
LEMMA RootFacts ==
  ASSUME NEW n \in Nat
  PROVE  Root(n) \in Nat /\ Root(n) * Root(n) <= n /\ n < (Root(n) + 1) * (Root(n) + 1)
<1> DEFINE T == {r \in Nat : n < (r + 1) * (r + 1)}
<1>1. n \in T
  <2>1. (n + 1) * (n + 1) = n * n + n + n + 1 /\ n * n \in Nat OBVIOUS
  <2>2. n < (n + 1) * (n + 1) BY <2>1
  <2> QED BY <2>2
<1>2. PICK m \in T : \A k \in T : m <= k
  <2>1. T \subseteq Nat /\ T # {} BY <1>1
  <2> HIDE DEF T
  <2> QED BY <2>1, LeastElement
<1>3. m \in Nat /\ n < (m + 1) * (m + 1) BY <1>2
<1>4. m * m <= n
  <2>1. CASE m = 0 BY <2>1
  <2>2. CASE m > 0
    <3>1. m - 1 \in Nat /\ m - 1 \notin T BY <1>2, <1>3, <2>2
    <3>2. ~(n < ((m - 1) + 1) * ((m - 1) + 1)) BY <3>1
    <3>3. (m - 1) + 1 = m BY <1>3
    <3>4. m * m \in Nat BY <1>3
    <3> QED BY <3>2, <3>3, <3>4
  <2> QED BY <1>3, <2>1, <2>2
<1>5. m \in 0..n
  <2>1. CASE m = 0 BY <2>1
  <2>2. CASE m > 0
    <3>1. 1 * m <= m * m BY <1>3, <2>2, Larger
    <3> QED BY <1>3, <1>4, <3>1
  <2> QED BY <1>3, <2>1, <2>2
<1>6. Root(n) \in 0..n /\ Root(n) * Root(n) <= n /\ n < (Root(n) + 1) * (Root(n) + 1)
  <2>1. \E r \in 0..n : r * r <= n /\ n < (r + 1) * (r + 1) BY <1>3, <1>4, <1>5
  <2> QED BY <2>1 DEF Root
<1> QED BY <1>6

(* A root rounded down is below a number if the exact one is.                *)
LEMMA RootBelow ==
  ASSUME NEW n \in Nat, NEW t \in Nat
  PROVE  Root(n) \in Nat /\ (Root(n) < t <=> n < t * t)
<1> DEFINE r == Root(n)
<1>1. r \in Nat /\ r * r <= n /\ n < (r + 1) * (r + 1) BY RootFacts
<1> HIDE DEF r
<1>2. r * r \in Nat /\ t * t \in Nat /\ (r + 1) * (r + 1) \in Nat BY <1>1
<1>3. CASE r < t
  <2>1. r + 1 \in Nat /\ r + 1 <= t BY <1>1, <1>3
  <2>2. (r + 1) * (r + 1) <= t * (r + 1) BY <2>1, Larger
  <2>3. (r + 1) * t <= t * t BY <2>1, Larger
  <2>4. t * (r + 1) = (r + 1) * t BY <1>1
  <2> QED BY <1>1, <1>2, <1>3, <2>2, <2>3, <2>4 DEF r
<1>4. CASE ~(r < t)
  <2>1. t * t <= r * t BY <1>1, <1>4, Larger
  <2>2. t * r <= r * r BY <1>1, <1>4, Larger
  <2>3. t * r = r * t BY <1>1
  <2> QED BY <1>1, <1>2, <1>4, <2>1, <2>2, <2>3 DEF r
<1> QED BY <1>3, <1>4

(* Whether an arrival is past is a linear question, at any time and for any  *)
(* rate: with respect to units and a demand that the ramp and the time alone *)
(* determine.                                                                *)
Early(ramp) == IF ramp = 0 THEN 0 ELSE 1
Unit(t, ramp) == IF ramp = 0 THEN Second ELSE IF t <= ramp THEN 2 * ramp * Second ELSE 2 * Second
Demand(t, ramp) == IF ramp = 0 THEN t ELSE IF t <= ramp THEN t * t ELSE 2 * t - ramp

(* Rounding down the root and the quotients of arrivalOffset does not change *)
(* which arrivals are past.                                                  *)
LEMMA PastIsLinear ==
  ASSUME NEW t \in Nat, NEW ramp \in Nat, NEW rate \in Nat \ {0}, NEW s \in Nat
  PROVE  AlreadyPast(s, t, [rate |-> rate, rampUp |-> ramp])
           <=> (s + Early(ramp)) * Unit(t, ramp) < rate * Demand(t, ramp)
<1> DEFINE o == [rate |-> rate, rampUp |-> ramp]
           T == 2 * (s + 1) * Second
           rr == rate * ramp
<1>1. o.rate = rate /\ o.rampUp = ramp /\ Second \in Nat \ {0} BY ArrivalsAssumption
<1> HIDE DEF o
<1>2. T \in Nat /\ rr \in Nat /\ T * ramp \in Nat BY <1>1
<1>3. AlreadyPast(s, t, o) <=> 
        (IF ramp = 0 THEN (s * Second) \div rate
         ELSE IF T <= rr THEN Root((T * ramp) \div rate)
         ELSE ramp + (T - rr) \div (2 * rate)) < t
  BY <1>1 DEF AlreadyPast, arrivalOffset, rampCount
<1>4. CASE ramp = 0
  <2>1. s * Second \in Nat BY <1>1
  <2>2. (s * Second) \div rate < t <=> s * Second < t * rate BY <2>1, QuotientBelow
  <2>3. t * rate = rate * t /\ s + 0 = s OBVIOUS
  <2> QED BY <1>3, <1>4, <2>2, <2>3 DEF Early, Unit, Demand, o
<1>5. CASE ramp # 0 /\ t <= ramp
  <2>1. (s + 1) * (2 * ramp * Second) = T * ramp BY <1>1
  <2>2. t * t \in Nat /\ rate * (t * t) = (t * t) * rate OBVIOUS
  <2>3. AlreadyPast(s, t, o) <=> T * ramp < rate * (t * t)
    <3>1. CASE T <= rr
      <4>1. (T * ramp) \div rate \in Nat /\ ((T * ramp) \div rate < t * t <=> T * ramp < (t * t) * rate)
        BY <1>2, <2>2, QuotientBelow
      <4>2. Root((T * ramp) \div rate) < t <=> (T * ramp) \div rate < t * t
        BY <4>1, RootBelow
      <4>3. AlreadyPast(s, t, o) <=> Root((T * ramp) \div rate) < t
        BY <1>3, <1>5, <3>1
      <4> QED BY <2>2, <4>1, <4>2, <4>3
    <3>2. CASE ~(T <= rr)
      <4>1. (T - rr) \div (2 * rate) \in Nat 
        <5>1. T - rr \in Nat /\ 2 * rate \in Nat \ {0} BY <1>2, <3>2
        <5> HIDE DEF T, rr
        <5> QED BY <5>1, QuotientBelow
      <4>2. ~ AlreadyPast(s, t, o) 
        <5> HIDE DEF T, rr
        <5> QED BY <1>3, <1>5, <3>2, <4>1
      <4>3. rr * ramp <= T * ramp
        <5> HIDE DEF T, rr
        <5> QED BY <1>2, <3>2, Larger
      <4>4. (t * t) * rate <= (ramp * ramp) * rate
        <5>1. t * t <= ramp * t BY <1>5, Larger
        <5>2. t * ramp <= ramp * ramp BY <1>5, Larger
        <5>3. t * t \in Nat /\ ramp * ramp \in Nat /\ t * ramp = ramp * t /\ t * ramp \in Nat OBVIOUS
        <5>4. t * t <= ramp * ramp BY <5>1, <5>2, <5>3
        <5> QED BY <5>3, <5>4, Larger
      <4>5. (ramp * ramp) * rate = rr * ramp OBVIOUS
      <4>6. rr * ramp \in Nat /\ (t * t) * rate \in Nat BY <1>2
      <4> HIDE DEF T, rr
      <4> QED BY <1>2, <2>2, <4>2, <4>3, <4>4, <4>5, <4>6
    <3> QED BY <3>1, <3>2
  <2> HIDE DEF T, rr
  <2>4. Early(ramp) = 1 /\ Unit(t, ramp) = 2 * ramp * Second /\ Demand(t, ramp) = t * t
    BY <1>5 DEF Early, Unit, Demand
  <2> QED BY <2>1, <2>3, <2>4 DEF o
<1>6. CASE ramp # 0 /\ ramp < t
  <2>1. (s + 1) * (2 * Second) = T BY <1>1
  <2>2. AlreadyPast(s, t, o) <=> T < rate * (2 * t - ramp)
    <3>1. CASE T <= rr
      <4>1. Root((T * ramp) \div rate) < t
        <5>1. T * ramp <= rr * ramp
          <6> HIDE DEF T, rr
          <6> QED BY <1>2, <3>1, Larger
        <5>2. rr * ramp = (ramp * ramp) * rate OBVIOUS
        <5>3. (ramp * ramp + 1) * rate <= (t * t) * rate
          <6>1. (ramp + 1) * (ramp + 1) <= t * (ramp + 1) BY <1>6, Larger
          <6>2. (ramp + 1) * t <= t * t BY <1>6, Larger
          <6>3. /\ t * t \in Nat /\ ramp * ramp + 1 \in Nat /\ t * (ramp + 1) = (ramp + 1) * t
                /\ (ramp + 1) * (ramp + 1) = (ramp * ramp + 1) + 2 * ramp
                /\ t * (ramp + 1) \in Nat
            OBVIOUS
          <6>4. ramp * ramp + 1 <= t * t BY <6>1, <6>2, <6>3
          <6> QED BY <6>3, <6>4, Larger
        <5>4. (ramp * ramp + 1) * rate = (ramp * ramp) * rate + rate /\ (ramp * ramp) * rate \in Nat /\ (t * t) * rate \in Nat
          OBVIOUS
        <5>5. T * ramp < (t * t) * rate 
          <6> HIDE DEF T, rr
          <6> QED BY <1>2, <5>1, <5>2, <5>3, <5>4
        <5>6. t * t \in Nat OBVIOUS
        <5> HIDE DEF T, rr
        <5>7. (T * ramp) \div rate \in Nat /\ ((T * ramp) \div rate < t * t <=> T * ramp < (t * t) * rate)
          BY <1>2, <5>6, QuotientBelow
        <5>8. Root((T * ramp) \div rate) < t <=> (T * ramp) \div rate < t * t
          BY <5>7, RootBelow
        <5> QED BY <5>5, <5>7, <5>8
      <4>2. T < rate * (2 * t - ramp)
        <5>1. 2 * t - ramp \in Nat /\ ramp + 1 <= 2 * t - ramp BY <1>6
        <5>2. (ramp + 1) * rate <= (2 * t - ramp) * rate BY <5>1, Larger
        <5>3. (ramp + 1) * rate = rr + rate /\ (2 * t - ramp) * rate = rate * (2 * t - ramp) /\ rate * (2 * t - ramp) \in Nat BY <5>1
        <5> HIDE DEF T, rr
        <5> QED BY <1>2, <3>1, <5>2, <5>3
      <4> HIDE DEF T, rr
      <4> QED BY <1>3, <1>6, <3>1, <4>1, <4>2
    <3>2. CASE ~(T <= rr)
      <4>1. T - rr \in Nat /\ 2 * rate \in Nat \ {0} /\ t - ramp \in Nat
        <5> HIDE DEF T, rr
        <5> QED BY <1>2, <1>6, <3>2
      <4>2. (T - rr) \div (2 * rate) \in Nat /\ ((T - rr) \div (2 * rate) < t - ramp <=> T - rr < (t - ramp) * (2 * rate))
        <5> HIDE DEF T, rr
        <5> QED BY <4>1, QuotientBelow
      <4>3. (t - ramp) * (2 * rate) + rr = rate * (2 * t - ramp) BY <4>1
      <4>4. (t - ramp) * (2 * rate) \in Nat BY <4>1
      <4> HIDE DEF T, rr
      <4>5. T - rr < (t - ramp) * (2 * rate) <=> T < rate * (2 * t - ramp) BY <1>2, <4>3, <4>4
      <4>6. AlreadyPast(s, t, o) <=> ramp + (T - rr) \div (2 * rate) < t BY <1>3, <1>6, <3>2
      <4>7. ramp + (T - rr) \div (2 * rate) < t <=> (T - rr) \div (2 * rate) < t - ramp BY <4>2
      <4> QED BY <4>2, <4>5, <4>6, <4>7
    <3> QED BY <3>1, <3>2
  <2> HIDE DEF T, rr
  <2>3. Early(ramp) = 1 /\ Unit(t, ramp) = 2 * Second /\ Demand(t, ramp) = 2 * t - ramp
    BY <1>6 DEF Early, Unit, Demand
  <2> QED BY <2>1, <2>2, <2>3 DEF o
<1> QED BY <1>4, <1>5, <1>6 DEF o

(* Types of the units and of the demand.                                     *)
LEMMA UnitDemand ==
  ASSUME NEW t \in Nat, NEW ramp \in Nat
  PROVE  /\ Unit(t, ramp) \in Nat \ {0} /\ Demand(t, ramp) \in Nat /\ Early(ramp) \in 0..1
         /\ t = 0 => Demand(t, ramp) = 0
<1>1. CASE ramp = 0 BY <1>1, ArrivalsAssumption DEF Unit, Demand, Early
<1>2. CASE ramp # 0 /\ t <= ramp
  <2>1. 2 * ramp * Second \in Nat \ {0} BY <1>2, ArrivalsAssumption
  <2>2. t * t \in Nat /\ (t = 0 => t * t = 0) OBVIOUS
  <2> QED BY <1>2, <2>1, <2>2 DEF Unit, Demand, Early
<1>3. CASE ramp # 0 /\ ramp < t BY <1>3, ArrivalsAssumption DEF Unit, Demand, Early
<1> QED BY <1>1, <1>2, <1>3

(* The search returns the number of arrivals that are past, which is the     *)
(* demand at this rate to within one arrival.                                *)
LEMMA FirstArrival ==
  ASSUME NEW t \in Nat, NEW ramp \in Nat, NEW rate \in Nat \ {0}
  PROVE  LET o == [rate |-> rate, rampUp |-> ramp]
             first == firstArrivalSequence(t, o)
         IN  /\ first \in Nat
             /\ \A s \in Nat : AlreadyPast(s, t, o) <=> s < first
             /\ first * Unit(t, ramp) < rate * Demand(t, ramp) + Unit(t, ramp)
             /\ rate * Demand(t, ramp) <= first * Unit(t, ramp) + Unit(t, ramp)
<1> DEFINE o == [rate |-> rate, rampUp |-> ramp]
           e == Early(ramp)
           d == Unit(t, ramp)
           c == rate * Demand(t, ramp)
<1>1. d \in Nat \ {0} /\ c \in Nat /\ e \in 0..1 /\ (t = 0 => c = 0)
  <2> DEFINE q == Demand(t, ramp)
  <2>1. d \in Nat \ {0} /\ q \in Nat /\ e \in 0..1 /\ (t = 0 => q = 0)
    BY UnitDemand
  <2> HIDE DEF q, d, e
  <2>2. rate * q \in Nat /\ (q = 0 => rate * q = 0)
    BY <2>1
  <2> QED BY <2>1, <2>2 DEF q
<1>2. \A s \in Nat : AlreadyPast(s, t, o) <=> (s + e) * d < c
  BY PastIsLinear
<1> HIDE DEF o, e, d, c
<1> DEFINE T == {s \in Nat : ~((s + e) * d < c)}
<1>3. c \in T
  <2>1. c <= (c + e) * d
    <3>1. c + e \in Nat /\ c + e >= c BY <1>1
    <3>2. 1 * (c + e) <= d * (c + e) BY <1>1, <3>1, Larger
    <3>3. d * (c + e) = (c + e) * d BY <1>1
    <3> QED BY <1>1, <3>1, <3>2, <3>3
  <2>2. (c + e) * d \in Nat BY <1>1
  <2> QED BY <1>1, <2>1, <2>2
<1>4. PICK F \in T : \A s \in T : F <= s
  <2>1. T \subseteq Nat /\ T # {} BY <1>3
  <2> HIDE DEF T
  <2> QED BY <2>1, LeastElement
<1>5. F \in Nat /\ ~((F + e) * d < c) BY <1>4
<1>6. ASSUME NEW s \in Nat PROVE (s + e) * d < c <=> s < F
  <2>1. s < F => (s + e) * d < c
    <3>1. s \in T => F <= s BY <1>4
    <3> QED BY <3>1, <1>5
  <2>2. ~(s < F) => ~((s + e) * d < c)
    <3>1. HAVE ~(s < F)
    <3>2. F + e \in Nat /\ s + e \in Nat /\ F + e <= s + e BY <1>1, <1>5, <3>1
    <3>3. (F + e) * d <= (s + e) * d /\ (F + e) * d \in Nat /\ (s + e) * d \in Nat BY <1>1, <3>2, Larger
    <3> QED BY <1>1, <1>5, <3>3
  <2> QED BY <2>1, <2>2
<1>7. \A s \in Nat : AlreadyPast(s, t, o) <=> s < F BY <1>2, <1>6
<1>8. t = 0 => F = 0
  <2>1. c = 0 => ~((0 + e) * d < c)
    <3>1. (0 + e) * d \in Nat BY <1>1
    <3> QED BY <3>1
  <2>2. ~((0 + e) * d < c) => ~(0 < F) BY <1>6
  <2> QED BY <1>1, <1>5, <2>1, <2>2
<1>9. firstArrivalSequence(t, o) = F BY <1>5, <1>7, <1>8, SearchFinds
<1>10. F * d < c + d
  <2>1. CASE F = 0
    <3>1. F * d = 0 BY <1>1, <2>1
    <3> QED BY <1>1, <3>1
  <2>2. CASE F # 0
    <3>1. F - 1 \in Nat /\ F - 1 < F BY <1>5, <2>2
    <3>2. (F - 1 + e) * d < c BY <1>6, <3>1
    <3>3. F \in Nat /\ F <= F - 1 + e + 1 /\ F - 1 + e + 1 \in Nat BY <1>1, <3>1
    <3>4. F * d <= (F - 1 + e + 1) * d BY <1>1, <3>3, Larger
    <3>5. (F - 1 + e + 1) * d = (F - 1 + e) * d + d BY <1>1, <3>1
    <3>6. F * d \in Nat /\ (F - 1 + e) * d \in Nat BY <1>1, <3>1
    <3> QED BY <1>1, <3>2, <3>4, <3>5, <3>6
  <2> QED BY <2>1, <2>2
<1>11. c <= F * d + d
  <2>1. (F + e) * d <= (F + 1) * d /\ (F + e) * d \in Nat
    <3>1. F + e \in Nat /\ F + 1 \in Nat /\ F + e <= F + 1 BY <1>1, <1>5
    <3> QED BY <1>1, <3>1, Larger
  <2>2. (F + 1) * d = F * d + d /\ F * d \in Nat BY <1>1, <1>5
  <2> QED BY <1>1, <1>5, <2>1, <2>2
<1>12. /\ firstArrivalSequence(t, o) \in Nat
       /\ \A s \in Nat : AlreadyPast(s, t, o) <=> s < firstArrivalSequence(t, o)
       /\ firstArrivalSequence(t, o) * d < c + d
       /\ c <= firstArrivalSequence(t, o) * d + d
  BY <1>5, <1>7, <1>9, <1>10, <1>11
<1> QED BY <1>12 DEF o, c, d

(* An arrival is due after a natural number of ticks.                        *)
LEMMA OffsetType ==
  ASSUME NEW s \in Nat, NEW ramp \in Nat, NEW rate \in Nat \ {0}
  PROVE  arrivalOffset(s, [rate |-> rate, rampUp |-> ramp]) \in Nat
<1> DEFINE o == [rate |-> rate, rampUp |-> ramp]
           T == 2 * (s + 1) * Second
           rr == rate * ramp
<1>1. o.rate = rate /\ o.rampUp = ramp /\ Second \in Nat \ {0}
  BY ArrivalsAssumption
<1> HIDE DEF o
<1>2. T \in Nat /\ rr \in Nat /\ T * ramp \in Nat /\ s * Second \in Nat /\ 2 * rate \in Nat \ {0}
  BY <1>1
<1>3. arrivalOffset(s, o) = IF ramp = 0 THEN (s * Second) \div rate
                            ELSE IF T <= rr THEN Root((T * ramp) \div rate)
                            ELSE ramp + (T - rr) \div (2 * rate)
  BY <1>1 DEF arrivalOffset, rampCount
<1> HIDE DEF T, rr
<1>4. (s * Second) \div rate \in Nat
  BY <1>2, QuotientBelow
<1>5. Root((T * ramp) \div rate) \in Nat
  <2>1. (T * ramp) \div rate \in Nat
    BY <1>2, QuotientBelow
  <2> QED BY <2>1, RootFacts
<1>6. ~(T <= rr) => (T - rr) \div (2 * rate) \in Nat
  <2>1. HAVE ~(T <= rr)
  <2>2. T - rr \in Nat
    BY <1>2, <2>1
  <2> QED BY <1>2, <2>2, QuotientBelow
<1>7. arrivalOffset(s, o) \in Nat
  BY <1>3, <1>4, <1>5, <1>6
<1> QED BY <1>7 DEF o

----------------------------------------------------------------------------
(* What a collector counts.                                                  *)

(* The snapshot's counters belong together; codes need not lie in 100..599.  *)
Counted(s) ==
  /\ s.statuses \in [Codes -> Nat]
  /\ s.requests \in Nat /\ s.succeeded \in Nat /\ s.failed \in Nat
  /\ s.transport \in Nat /\ s.client \in Nat /\ s.server \in Nat
  /\ s.requests = s.succeeded + s.failed /\ s.observations = s.requests
  /\ s.failed = s.transport + s.client + s.server
  /\ SumFunction(s.statuses) \in Nat /\ SumFunction(s.statuses) <= s.requests
  /\ s.requests <= SumFunction(s.statuses) + s.transport

(* A code has at most three digits, so there are finitely many.              *)
LEMMA CodesFinite == IsFiniteSet(Codes) /\ \A c \in Codes : c \in Nat \ {0}
<1> DEFINE S == 1..999
<1>1. Codes \subseteq S /\ \A c \in S : c \in Nat \ {0}
  BY CountersAssumption
<1>2. IsFiniteSet(S)
  <2>1. PICK a \in Int, b \in Int : a = 1 /\ b = 999
    OBVIOUS
  <2>2. IsFiniteSet(a..b)
    BY FS_Interval
  <2> QED BY <2>1, <2>2
<1> HIDE DEF S
<1>3. IsFiniteSet(Codes)
  BY <1>1, <1>2, FS_Subset
<1> QED BY <1>1, <1>3

(* A collector starts with counters that belong together.                    *)
LEMMA NewIsCounted == Counted(newSnapshot)
<1> DEFINE zeros == [c \in Codes |-> 0]
<1>1. /\ newSnapshot.requests = 0 /\ newSnapshot.succeeded = 0 /\ newSnapshot.failed = 0
      /\ newSnapshot.transport = 0 /\ newSnapshot.client = 0 /\ newSnapshot.server = 0
      /\ newSnapshot.observations = 0 /\ newSnapshot.statuses = zeros
  BY DEF newSnapshot
<1>2. zeros \in [Codes -> Nat] /\ \A c \in Codes : zeros[c] = 0
  OBVIOUS
<1> HIDE DEF zeros
<1>3. SumFunction(zeros) = 0
  BY <1>2, CodesFinite, SumOfZeros
<1> QED BY <1>1, <1>2, <1>3 DEF Counted

(* A result adds to one class of its outcome, and to one status unless the   *)
(* request failed without.                                                   *)
LEMMA RecordKeepsCounted ==
  ASSUME NEW s, Counted(s), NEW r \in Results
  PROVE  Counted(recordResult(s, r))
<1> DEFINE n == recordResult(s, r)
           f == r.failed
           c == IsClientError(r)
           v == IsServerError(r)
           statuses == [x \in Codes |-> s.statuses[x] + One(x = r.status)]
<1>1. /\ n.requests = s.requests + 1 /\ n.observations = s.observations + 1
      /\ n.transport = s.transport + One(f) /\ n.client = s.client + One(c)
      /\ n.server = s.server + One(v) /\ n.failed = s.failed + One(f \/ c \/ v)
      /\ n.succeeded = s.succeeded + One(~(f \/ c \/ v)) /\ n.statuses = statuses
  BY DEF recordResult
<1>2. /\ f \in BOOLEAN /\ r.status \in Codes \cup {0} /\ (r.status = 0 => f)
  BY DEF Results
<1>3. \A x \in Codes : x \in Nat \ {0}
  BY CodesFinite
<1>4. c \in BOOLEAN /\ v \in BOOLEAN /\ ~(f /\ c) /\ ~(f /\ v) /\ ~(c /\ v)
  <2>1. r.status \in Nat
    BY <1>2, <1>3
  <2> QED BY <2>1, <1>2 DEF IsClientError, IsServerError
<1> HIDE DEF n, f, c, v
<1>5. statuses \in [Codes -> Nat]
  BY DEF Counted, One
<1>6. SumFunction(statuses) \in Nat
      /\ SumFunction(statuses) = SumFunction(s.statuses) + One(r.status \in Codes)
  <2>1. CASE r.status \in Codes
    <3>1. statuses[r.status] = s.statuses[r.status] + 1
      BY <2>1 DEF One
    <3>2. \A x \in Codes \ {r.status} : statuses[x] = s.statuses[x]
      BY DEF One, Counted
    <3>3. s.statuses \in [Codes -> Nat]
      BY DEF Counted
    <3> HIDE DEF statuses
    <3>4. SumFunction(s.statuses) \in Nat /\ SumFunction(statuses) = SumFunction(s.statuses) + 1
      BY <2>1, <1>5, <3>1, <3>2, <3>3, CodesFinite, SumOfIncrement
    <3> QED BY <2>1, <3>4 DEF One
  <2>2. CASE r.status \notin Codes
    <3>1. \A x \in Codes : s.statuses[x] + One(x = r.status) = s.statuses[x]
      BY <2>2 DEF One, Counted
    <3>2. statuses = s.statuses
      BY <3>1 DEF Counted
    <3> HIDE DEF statuses
    <3> QED BY <2>2, <3>2 DEF One, Counted
  <2> QED BY <2>1, <2>2
<1> HIDE DEF statuses
<1>7. r.status \notin Codes => f
  BY <1>2
<1>8. Counted(n)
  <2>1. SumFunction(statuses) <= s.requests + 1
    BY <1>6 DEF Counted, One
  <2>2. s.requests + 1 <= SumFunction(statuses) + (s.transport + One(f))
    BY <1>2, <1>6, <1>7 DEF Counted, One
  <2>3. /\ One(f) \in Nat /\ One(c) \in Nat /\ One(v) \in Nat /\ One(f \/ c \/ v) \in Nat
        /\ One(~(f \/ c \/ v)) \in Nat /\ One(f \/ c \/ v) + One(~(f \/ c \/ v)) = 1
        /\ One(f \/ c \/ v) = One(f) + One(c) + One(v)
    BY <1>2, <1>4 DEF One
  <2>4. /\ s.requests \in Nat /\ s.succeeded \in Nat /\ s.failed \in Nat
        /\ s.transport \in Nat /\ s.client \in Nat /\ s.server \in Nat
        /\ s.requests = s.succeeded + s.failed /\ s.observations = s.requests
        /\ s.failed = s.transport + s.client + s.server
    BY DEF Counted
  <2>5. /\ n.requests \in Nat /\ n.succeeded \in Nat /\ n.failed \in Nat
        /\ n.transport \in Nat /\ n.client \in Nat /\ n.server \in Nat
    BY <1>1, <2>3, <2>4
  <2>6. /\ n.requests = n.succeeded + n.failed /\ n.observations = n.requests
        /\ n.failed = n.transport + n.client + n.server
    BY <1>1, <2>3, <2>4
  <2>7. /\ SumFunction(n.statuses) \in Nat /\ SumFunction(n.statuses) <= n.requests
        /\ n.requests <= SumFunction(n.statuses) + n.transport
    BY <1>1, <1>6, <2>1, <2>2
  <2>8. n.statuses \in [Codes -> Nat]
    BY <1>1, <1>5
  <2> QED BY <2>5, <2>6, <2>7, <2>8 DEF Counted
<1> QED BY <1>8 DEF n

(* The aggregator's checks follow from the counters' belonging together.     *)
LEMMA CountedIsAccepted ==
  ASSUME NEW s, Counted(s), \A c \in Codes : s.statuses[c] > 0 => c \in 100..599
  PROVE  validateAndDecodeSnapshot(s)
<1> DEFINE total == SumFunction(s.statuses)
<1>1. /\ s.succeeded <= s.requests /\ s.failed = s.requests - s.succeeded
      /\ s.transport + s.client + s.server = s.failed
      /\ s.requests - s.transport <= total /\ total <= s.requests
      /\ s.observations = s.requests
  BY DEF Counted
<1> HIDE DEF total
<1> QED BY <1>1 DEF validateAndDecodeSnapshot, total

----------------------------------------------------------------------------
(* The properties.                                                           *)

IInv ==
  /\ raw \in Inputs \cup {NoLoad} /\ fleet \in Nat \ {0} /\ elapsed \in Nat
  /\ Counted(snapshot)

(* The invariant of the functions' inputs.                                   *)
LEMMA Invariance == Spec => []IInv
<1>1. Init => IInv
  BY NewIsCounted DEF Init, IInv
<1>2. IInv /\ [Join \/ Tick \/ Result]_vars => IInv'
  <2> SUFFICES ASSUME IInv, [Join \/ Tick \/ Result]_vars PROVE IInv'
    OBVIOUS
  <2>1. CASE Join
    BY <2>1 DEF IInv, Join
  <2>2. CASE Tick
    BY <2>2 DEF IInv, Tick
  <2>3. CASE Result
    <3>1. PICK r \in Results : snapshot' = recordResult(snapshot, r)
      BY <2>3 DEF Result
    <3>2. Counted(snapshot')
      BY <3>1, RecordKeepsCounted DEF IInv
    <3> QED BY <2>3, <3>2 DEF IInv, Result
  <2>4. CASE UNCHANGED vars
    BY <2>4 DEF IInv, vars
  <2> QED BY <2>1, <2>2, <2>3, <2>4
<1> QED BY <1>1, <1>2, PTL DEF Spec

(* A load that validate accepts is one that splitLoad expects.               *)
LEMMA AcceptedLoads ==
  ASSUME raw \in Inputs \cup {NoLoad}, raw # NoLoad
  PROVE  /\ load \in Loads /\ raw.model \in {"constant-vus", "constant-rate"}
         /\ raw.users \in Nat /\ raw.rate \in Nat /\ raw.limit \in Nat /\ raw.rampUp \in Nat
         /\ load.users = IF raw.model = "constant-vus" THEN raw.users ELSE 0
         /\ load.rate = IF raw.model = "constant-rate" THEN raw.rate ELSE 0
         /\ load.limit = raw.limit
         /\ raw.model = "constant-rate" => load.users = 0
<1>1. raw \in RawLoads(0..MaxLoad, {0, 1}, RampUps) /\ validate(raw)
  BY DEF Inputs
<1>2. MaxLoad \in Nat /\ RampUps \subseteq Nat
  BY PureFunctionsAssumption
<1>3. raw.users \in Nat /\ raw.rate \in Nat /\ raw.limit \in Nat /\ raw.rampUp \in Nat
  <2> DEFINE V == 0..MaxLoad
  <2>1. V \subseteq Nat
    BY <1>2
  <2>2. raw \in RawLoads(V, {0, 1}, RampUps)
    BY <1>1
  <2> HIDE DEF V
  <2>3. raw.users \in V /\ raw.rate \in V /\ raw.limit \in V /\ raw.rampUp \in RampUps
    BY <2>2 DEF RawLoads
  <2> QED BY <1>2, <2>1, <2>3
<1>4. /\ raw.model \in {"constant-vus", "constant-rate"}
      /\ raw.model = "constant-vus" => raw.users > 0 /\ raw.limit = 0
      /\ raw.model = "constant-rate" => raw.rate > 0 /\ raw.limit > 0
  BY <1>1 DEF validate, OpenComplete
<1>5. CASE raw.model = "constant-vus"
  <2>1. load = [users |-> raw.users, rate |-> 0, limit |-> 0]
    BY <1>5 DEF load, configured, ClosedLoad
  <2>2. load.users = raw.users /\ load.rate = 0 /\ load.limit = 0
    BY <2>1
  <2>3. load \in Loads
    BY <1>3, <1>4, <1>5, <2>1, <2>2 DEF Loads, Slice
  <2> QED BY <1>3, <1>4, <1>5, <2>2, <2>3
<1>6. CASE raw.model = "constant-rate"
  <2>1. load = [users |-> 0, rate |-> raw.rate, limit |-> raw.limit]
    BY <1>6 DEF load, configured, OpenLoad
  <2>2. load.users = 0 /\ load.rate = raw.rate /\ load.limit = raw.limit
    BY <2>1
  <2>3. load \in Loads
    BY <1>3, <1>4, <1>6, <2>1, <2>2 DEF Loads, Slice
  <2> QED BY <1>3, <1>4, <1>6, <2>2, <2>3
<1> QED BY <1>4, <1>5, <1>6
(* The workers that generate load are the first ones, and carry all of it.   *)
LEMMA LoadsOfActive ==
  ASSUME IInv, raw # NoLoad
  PROVE  \E parts \in 1..fleet :
           /\ Active = 1..parts
           /\ \A i \in 1..fleet : validSlice(slices[i])
           /\ \A i \in 1..parts : slices[i].rate \in Nat
           /\ raw.model = "constant-rate" => \A i \in 1..parts : slices[i].rate \in Nat \ {0}
<1>1. load \in Loads /\ fleet \in Nat \ {0} /\ (raw.model = "constant-rate" => load.users = 0)
  BY AcceptedLoads DEF IInv
<1> DEFINE parts == activeParts(load, fleet)
<1>2. /\ parts \in 1..fleet
      /\ {i \in 1..fleet : isActiveSlice(splitLoad(load, fleet)[i])} = 1..parts
      /\ \A i \in 1..fleet : validSlice(splitLoad(load, fleet)[i])
      /\ \A i \in 1..parts : splitLoad(load, fleet)[i].rate = divide(load.rate, parts, i)
      /\ load.users = 0 => \A i \in 1..parts : splitLoad(load, fleet)[i].rate \in Nat \ {0}
  BY <1>1, ActiveSlices
<1>3. load.rate \in Nat
  BY <1>1 DEF Loads, Slice
<1>4. \A i \in 1..parts : splitLoad(load, fleet)[i].rate \in Nat
  <2> TAKE i \in 1..parts
  <2>1. parts \in Nat \ {0} /\ i \in Nat
    BY <1>1, <1>2
  <2> HIDE DEF parts
  <2> QED BY <1>2, <1>3, <2>1, DivideFacts
<1> HIDE DEF parts
<1> QED BY <1>1, <1>2, <1>4 DEF Active, slices

(* However many workers join before the start, all of the configured load is *)
(* on slices that the worker accepts and takes for active (splitLoad,        *)
(* isActiveSlice, validateAssignment).                                       *)
THEOREM LoadIsConserved == Spec => []LoadConserved
<1>1. IInv => LoadConserved
  <2> SUFFICES ASSUME IInv, raw # NoLoad PROVE LoadConserved
    BY DEF LoadConserved
  <2>1. /\ load \in Loads /\ fleet \in Nat \ {0}
        /\ load.users = IF raw.model = "constant-vus" THEN raw.users ELSE 0
        /\ load.rate = IF raw.model = "constant-rate" THEN raw.rate ELSE 0
        /\ load.limit = raw.limit
    BY AcceptedLoads DEF IInv
  <2>2. /\ Active # {} /\ \A i \in 1..fleet : validSlice(slices[i])
        /\ SumFunction([i \in Active |-> slices[i].users]) = load.users
        /\ SumFunction([i \in Active |-> slices[i].rate]) = load.rate
        /\ SumFunction([i \in Active |-> slices[i].limit]) = load.limit
    BY <2>1, LoadIsDivided DEF Active, slices
  <2> QED BY <2>1, <2>2 DEF LoadConserved
<1> QED BY <1>1, Invariance, PTL

(* Whenever a scheduler starts, its search by doubling and halving returns   *)
(* the first arrival still due (firstArrivalSequence).                       *)
THEOREM SearchIsExact == Spec => []SearchFindsFirst
<1>1. IInv => SearchFindsFirst
  <2> SUFFICES ASSUME IInv, raw.model = "constant-rate", NEW i \in Active
               PROVE  LET first == firstArrivalSequence(elapsed, Options(i)) IN
                      /\ arrivalOffset(first, Options(i)) >= elapsed
                      /\ first > 0 => arrivalOffset(first - 1, Options(i)) < elapsed
    BY DEF SearchFindsFirst
  <2>1. elapsed \in Nat /\ raw.rampUp \in Nat /\ slices[i].rate \in Nat \ {0}
    <3>1. raw # NoLoad
      BY DEF NoLoad
    <3> QED BY <3>1, AcceptedLoads, LoadsOfActive DEF IInv
  <2> DEFINE o == Options(i)
             first == firstArrivalSequence(elapsed, o)
  <2>2. first \in Nat /\ \A s \in Nat : AlreadyPast(s, elapsed, o) <=> s < first
    BY <2>1, FirstArrival DEF Options
  <2>3. \A s \in Nat : arrivalOffset(s, o) \in Nat
    BY <2>1, OffsetType DEF Options
  <2> HIDE DEF o, first
  <2>4. ~(arrivalOffset(first, o) < elapsed)
    BY <2>2 DEF AlreadyPast
  <2>5. first > 0 => arrivalOffset(first - 1, o) < elapsed
    <3>1. HAVE first > 0
    <3>2. first - 1 \in Nat /\ first - 1 < first
      BY <2>2, <3>1
    <3> QED BY <2>2, <3>2 DEF AlreadyPast
  <2>6. arrivalOffset(first, o) >= elapsed
    BY <2>1, <2>2, <2>3, <2>4
  <2> QED BY <2>5, <2>6 DEF o, first
<1> QED BY <1>1, Invariance, PTL

(* A configured demand of several workers, in units, lies between the sums.  *)
LEMMA CurveAsDemand ==
  ASSUME NEW t \in Nat, raw.rate \in Nat, raw.rampUp \in Nat
  PROVE  Curve(t) = (raw.rate * Demand(t, raw.rampUp)) \div Unit(t, raw.rampUp)
<1>1. raw.rate * t * t = raw.rate * (t * t)
  OBVIOUS
<1> QED BY <1>1 DEF Curve, Demand, Unit

(* However the rate is divided over the fleet, the arrivals due on all       *)
(* workers follow the configured curve, at most one per worker from it.      *)
THEOREM FleetKeepsToCurve == Spec => []FleetFollowsCurve
<1>1. IInv => FleetFollowsCurve
  <2> SUFFICES ASSUME IInv, raw.model = "constant-rate" PROVE FleetFollowsCurve
    BY DEF FleetFollowsCurve
  <2>1. raw # NoLoad
    BY DEF NoLoad
  <2>2. /\ load \in Loads /\ load.rate = raw.rate /\ fleet \in Nat \ {0}
        /\ elapsed \in Nat /\ raw.rampUp \in Nat /\ raw.rate \in Nat
    BY <2>1, AcceptedLoads DEF IInv
  <2>3. PICK parts \in 1..fleet : /\ Active = 1..parts
                                  /\ \A i \in 1..parts : slices[i].rate \in Nat \ {0}
    BY <2>1, LoadsOfActive
  <2> DEFINE f == [i \in 1..parts |-> firstArrivalSequence(elapsed, Options(i))]
             r == [i \in 1..parts |-> slices[i].rate]
             q == Demand(elapsed, raw.rampUp)
             d == Unit(elapsed, raw.rampUp)
             due == SumFunction(f)
  <2>4. parts \in Nat /\ Cardinality(Active) = parts
    <3>1. parts \in Nat \ {0}
      BY <2>2, <2>3
    <3>2. Cardinality(1..parts) = parts
      BY <3>1, FS_Interval
    <3> QED BY <2>3, <3>1, <3>2
  <2>5. q \in Nat /\ d \in Nat \ {0}
    BY <2>2, UnitDemand
  <2> HIDE DEF q, d
  <2>6. \A k \in 1..parts : /\ f[k] \in Nat /\ r[k] \in Nat
                             /\ Within(f[k], d, r[k], q, 1)
    <3> TAKE k \in 1..parts
    <3>1. slices[k].rate \in Nat \ {0} /\ f[k] = firstArrivalSequence(elapsed, Options(k))
          /\ r[k] = slices[k].rate
      BY <2>3
    <3>2. /\ f[k] \in Nat /\ f[k] * d < r[k] * q + d
          /\ r[k] * q <= f[k] * d + d
      BY <2>2, <3>1, FirstArrival DEF Options, d, q
    <3> HIDE DEF f, r
    <3>3. f[k] * d \in Nat /\ r[k] * q \in Nat /\ r[k] \in Nat /\ 1 * d = d
      BY <2>5, <3>1, <3>2
    <3> QED BY <2>5, <3>2, <3>3 DEF Within
  <2>7. f \in [1..parts -> Nat] /\ r \in [1..parts -> Nat]
    BY <2>6
  <2>8. SumFunction(r) = raw.rate
    BY <2>2, <2>3, LoadIsDivided DEF Active, slices
  <2> HIDE DEF f, r
  <2>9. \A k \in 1..parts : Within(f[k], d, r[k], q, 1)
    BY <2>6
  <2>10. d \in Nat
    BY <2>5
  <2>11. /\ SumFunction(f) \in Nat
         /\ Within(SumFunction(f), d, SumFunction(r), q, parts)
    BY <2>4, <2>5, <2>7, <2>9, <2>10, SumsAreClose
  <2>12. due \in Nat /\ due * d <= raw.rate * q + parts * d /\ raw.rate * q <= due * d + parts * d
    BY <2>8, <2>11 DEF Within
  <2>13. Curve(elapsed) = (raw.rate * q) \div d
    BY <2>2, CurveAsDemand DEF q, d
  <2>14. due <= Curve(elapsed) + parts /\ Curve(elapsed) <= due + parts
    <3> DEFINE x == raw.rate * q
               c == x \div d
    <3>1. x \in Nat
      BY <2>2, <2>5
    <3> HIDE DEF x, due
    <3>2. c \in Nat /\ \A s \in Nat : c < s <=> x < s * d
      BY <2>5, <3>1, QuotientBelow
    <3>3. due * d <= x + parts * d /\ x <= due * d + parts * d
      BY <2>12 DEF x
    <3> HIDE DEF c
    <3>4. due <= c + parts
      <4> SUFFICES ASSUME c + parts < due PROVE FALSE
        BY <2>4, <2>12, <3>2
      <4>1. due - parts \in Nat /\ c < due - parts
        BY <2>4, <2>12, <3>2
      <4>2. x < (due - parts) * d
        BY <3>2, <4>1
      <4>3. (due - parts) * d = due * d - parts * d /\ due * d \in Nat /\ parts * d \in Nat
        BY <2>4, <2>5, <2>12
      <4> QED BY <3>1, <3>3, <4>2, <4>3
    <3>5. c <= due + parts
      <4> DEFINE s == due + parts + 1
      <4>1. s \in Nat /\ due + parts \in Nat
        BY <2>4, <2>12
      <4>2. s * d = due * d + parts * d + d /\ due * d \in Nat /\ parts * d \in Nat
        BY <2>4, <2>5, <2>12
      <4>3. x < s * d
        BY <2>5, <3>1, <3>3, <4>2
      <4>4. c < s
        BY <3>2, <4>1, <4>3
      <4> QED BY <3>2, <4>1, <4>4
    <3> QED BY <2>13, <3>4, <3>5 DEF c, x
  <2>15. due = SumFunction([i \in Active |-> firstArrivalSequence(elapsed, Options(i))])
    BY <2>3 DEF f
  <2> QED BY <2>4, <2>14, <2>15 DEF FleetFollowsCurve
<1> QED BY <1>1, Invariance, PTL

(* The classes the collector counts (recordResult) are those the aggregator  *)
(* demands (validateAndDecodeSnapshot), for results with codes in 100..599.  *)
THEOREM HonestSnapshotsPass == Spec => []HonestSnapshotAccepted
<1>1. IInv => HonestSnapshotAccepted
  BY CountedIsAccepted DEF IInv, HonestSnapshotAccepted
<1> QED BY <1>1, Invariance, PTL
=============================================================================
