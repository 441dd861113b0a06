-------------------------- MODULE FiniteSetLemmas --------------------------
(***************************************************************************)
(* Lemmas about finite sets that the proofs about the components share:    *)
(* sums over them and their largest and smallest members, and what the     *)
(* lines of a ledger's operations move of a material.                      *)
(*                                                                         *)
(* MapThenSumSet(op, S) of the community modules is the value at S of a    *)
(* function on the subsets of S that takes out one chosen element after    *)
(* the other.  What is proved here holds of any such function: there is    *)
(* one for every finite set, the element taken out does not matter, and    *)
(* the set it was defined for does not either.                             *)
(*                                                                         *)
(* Induction over finite sets is by a smallest counterexample: a set of    *)
(* subsets of a finite set that is not empty has a member none of whose    *)
(* proper subsets is in it.                                                *)
(***************************************************************************)
EXTENDS FiniteSetsExt, FiniteSetTheorems, TLAPS

Pick(s) == CHOOSE x \in s : TRUE

\* The sums of f over the subsets of S.
IsSummation(g, f, S) ==
    g = [s \in SUBSET S |-> IF s = {} THEN 0 ELSE f[Pick(s)] + g[s \ {Pick(s)}]]

\* The element a summation takes out of a set is one of its elements.
LEMMA PickIn == \A s : s # {} => Pick(s) \in s
BY DEF Pick

\* A non-empty set of subsets of a finite set has a smallest member.
LEMMA SmallestSet ==
    ASSUME NEW S, IsFiniteSet(S), NEW B, B \subseteq SUBSET S, B # {}
    PROVE  \E t \in B : \A u \in SUBSET t : u # t => u \notin B
<1> DEFINE R == StrictSubsetOrdering(S)
<1>1. IsWellFoundedOn(R, SUBSET S)
  BY FS_StrictSubsetOrderingWellFounded, FS_FiniteSubsetsOfFinite
<1> HIDE DEF R
<1>2. PICK t \in B : \A u \in B : <<u, t>> \notin R
  BY <1>1, WFMin
<1>3. ASSUME NEW u \in SUBSET t, u # t, u \in B PROVE FALSE
  <2>1. <<u, t>> \in (SUBSET S) \X (SUBSET S)
    OBVIOUS
  <2>2. <<u, t>> \in R
    BY <1>3, <2>1 DEF R, StrictSubsetOrdering
  <2> QED BY <1>2, <1>3, <2>2
<1> QED BY <1>3

\* Two summations agree where their functions do.
LEMMA SummationsAgree ==
    ASSUME NEW S, NEW T, NEW f, NEW e, NEW g, NEW h, NEW U, IsFiniteSet(U),
           IsSummation(g, f, S), IsSummation(h, e, T), U \subseteq S, U \subseteq T,
           \A x \in U : f[x] = e[x]
    PROVE  g[U] = h[U]
<1> DEFINE B == {u \in SUBSET U : g[u] # h[u]}
<1>1. CASE B = {}
  BY <1>1
<1>2. CASE B # {}
  <2>0. B \subseteq SUBSET U
    OBVIOUS
  <2>1. PICK u \in B : \A v \in SUBSET u : v # u => v \notin B
    <3> HIDE DEF B
    <3> QED BY <1>2, <2>0, SmallestSet
  <2>2. u \in SUBSET S /\ u \in SUBSET T
    OBVIOUS
  <2>3. CASE u = {}
    BY <2>1, <2>2, <2>3 DEF IsSummation
  <2>4. CASE u # {}
    <3>1. Pick(u) \in u
      BY <2>4, PickIn
    <3>2. u \ {Pick(u)} \in SUBSET u /\ u \ {Pick(u)} # u
      BY <3>1
    <3>3. g[u \ {Pick(u)}] = h[u \ {Pick(u)}]
      BY <2>1, <3>2
    <3>4. g[u] = f[Pick(u)] + g[u \ {Pick(u)}] /\ h[u] = e[Pick(u)] + h[u \ {Pick(u)}]
      BY <2>2, <2>4 DEF IsSummation
    <3> QED BY <2>1, <3>1, <3>3, <3>4
  <2> QED BY <2>3, <2>4
<1> QED BY <1>1, <1>2

\* Every finite set has its sums.
LEMMA SummationExists ==
    ASSUME NEW S, IsFiniteSet(S), NEW f
    PROVE  \E g : IsSummation(g, f, S)
<1> DEFINE B == {s \in SUBSET S : ~ \E g : IsSummation(g, f, s)}
<1>1. CASE B = {}
  BY <1>1
<1>2. CASE B # {}
  <2>0. B \subseteq SUBSET S
    OBVIOUS
  <2>1. PICK s \in B : \A t \in SUBSET s : t # s => t \notin B
    <3> HIDE DEF B
    <3> QED BY <1>2, <2>0, SmallestSet
  <2> DEFINE Sums(t) == CHOOSE g : IsSummation(g, f, t)
             below == [t \in SUBSET s |-> IF t = s THEN 0 ELSE Sums(t)[t]]
             h == [t \in SUBSET s |-> IF t = {} THEN 0 ELSE f[Pick(t)] + below[t \ {Pick(t)}]]
  <2>2. ASSUME NEW t \in SUBSET s, t # s PROVE IsSummation(Sums(t), f, t)
    BY <2>1, <2>2
  <2>3. ASSUME NEW t \in SUBSET s, t # s PROVE h[t] = below[t]
    <3>1. IsSummation(Sums(t), f, t)
      BY <2>2, <2>3
    <3>2. CASE t = {}
      <4>1. Sums(t)[{}] = 0
        BY <3>1, <3>2 DEF IsSummation
      <4> QED BY <2>3, <3>2, <4>1
    <3>3. CASE t # {}
      <4> DEFINE u == t \ {Pick(t)}
      <4>1. u \in SUBSET s /\ u # s /\ u \in SUBSET t
        BY <2>3
      <4>2. IsSummation(Sums(u), f, u)
        BY <2>2, <4>1
      <4>3. IsFiniteSet(u)
        BY <4>1, FS_Subset
      <4> HIDE DEF u, Sums
      <4>4. Sums(t)[u] = Sums(u)[u]
        BY <3>1, <4>1, <4>2, <4>3, SummationsAgree
      <4>5. Sums(t)[t] = f[Pick(t)] + Sums(t)[u]
        BY <3>1, <3>3 DEF IsSummation, u
      <4>6. h[t] = f[Pick(t)] + below[u]
        BY <3>3 DEF u
      <4> QED BY <2>3, <4>1, <4>4, <4>5, <4>6
    <3> QED BY <3>2, <3>3
  <2>4. ASSUME NEW t \in SUBSET s, t # {} PROVE below[t \ {Pick(t)}] = h[t \ {Pick(t)}]
    <3>1. Pick(t) \in t
      BY <2>4, PickIn
    <3>2. t \ {Pick(t)} \in SUBSET s /\ t \ {Pick(t)} # s
      BY <3>1
    <3> QED BY <2>3, <3>2
  <2> HIDE DEF below
  <2>5. \A t \in SUBSET s : h[t] = IF t = {} THEN 0 ELSE f[Pick(t)] + h[t \ {Pick(t)}]
    BY <2>4
  <2>6. h = [t \in SUBSET s |-> h[t]]
    OBVIOUS
  <2> HIDE DEF h
  <2>7. IsSummation(h, f, s)
    BY <2>5, <2>6 DEF IsSummation
  <2> QED BY <2>1, <2>7
<1> QED BY <1>1, <1>2

\* Sums of integers are integers.
LEMMA SummationIsInt ==
    ASSUME NEW S, IsFiniteSet(S), NEW f, NEW g, IsSummation(g, f, S), \A x \in S : f[x] \in Int
    PROVE  \A T \in SUBSET S : g[T] \in Int
<1> DEFINE B == {t \in SUBSET S : g[t] \notin Int}
<1>1. CASE B = {}
  BY <1>1
<1>2. CASE B # {}
  <2>0. B \subseteq SUBSET S
    OBVIOUS
  <2>1. PICK t \in B : \A u \in SUBSET t : u # t => u \notin B
    <3> HIDE DEF B
    <3> QED BY <1>2, <2>0, SmallestSet
  <2>2. CASE t = {}
    BY <2>1, <2>2 DEF IsSummation
  <2>3. CASE t # {}
    <3>1. Pick(t) \in t
      BY <2>3, PickIn
    <3>2. t \ {Pick(t)} \in SUBSET t /\ t \ {Pick(t)} # t
      BY <3>1
    <3>3. g[t \ {Pick(t)}] \in Int
      BY <2>1, <3>2
    <3>4. g[t] = f[Pick(t)] + g[t \ {Pick(t)}]
      BY <2>3 DEF IsSummation
    <3> QED BY <2>1, <3>1, <3>3, <3>4
  <2> QED BY <2>2, <2>3
<1> QED BY <1>1, <1>2

\* The element taken out does not matter.
LEMMA SummationStep ==
    ASSUME NEW S, IsFiniteSet(S), NEW f, NEW g, IsSummation(g, f, S),
           \A x \in S : f[x] \in Int
    PROVE  \A T \in SUBSET S : \A x \in T : g[T] = g[T \ {x}] + f[x]
<1> DEFINE B == {t \in SUBSET S : \E x \in t : g[t] # g[t \ {x}] + f[x]}
<1>1. CASE B = {}
  BY <1>1
<1>2. CASE B # {}
  <2>0. B \subseteq SUBSET S
    OBVIOUS
  <2>1. PICK t \in B : \A u \in SUBSET t : u # t => u \notin B
    <3> HIDE DEF B
    <3> QED BY <1>2, <2>0, SmallestSet
  <2>2. PICK x \in t : g[t] # g[t \ {x}] + f[x]
    BY <2>1
  <2> DEFINE p == Pick(t)
             both == t \ {x, p}
  <2>3. p \in t
    BY PickIn
  <2>4. g[t] = f[p] + g[t \ {p}]
    BY <2>3 DEF IsSummation
  <2> HIDE DEF p
  <2>5. g[t \ {x}] \in Int /\ g[t \ {p}] \in Int /\ g[both] \in Int /\ f[x] \in Int /\ f[p] \in Int
    BY <2>3, SummationIsInt
  <2>6. CASE x = p
    BY <2>2, <2>4, <2>5, <2>6
  <2>7. CASE x # p
    <3>1. t \ {p} \in SUBSET t /\ t \ {p} # t /\ x \in t \ {p}
          /\ t \ {x} \in SUBSET t /\ t \ {x} # t /\ p \in t \ {x}
      BY <2>3, <2>7
    <3>2. (t \ {p}) \ {x} = both /\ (t \ {x}) \ {p} = both
      OBVIOUS
    <3>3. g[t \ {p}] = g[both] + f[x] /\ g[t \ {x}] = g[both] + f[p]
      BY <2>1, <3>1, <3>2
    <3> QED BY <2>2, <2>4, <2>5, <3>3
  <2> QED BY <2>6, <2>7
<1> QED BY <1>1, <1>2

\* A finite set of integers that is not empty has a largest member.
LEMMA MaxIsLargest ==
    ASSUME NEW S, IsFiniteSet(S), S \subseteq Int, S # {}
    PROVE  Max(S) \in S /\ \A y \in S : Max(S) >= y
<1> DEFINE B == {t \in SUBSET S : t # {} /\ ~ \E x \in t : \A y \in t : x >= y}
<1>1. CASE B = {}
  <2>1. \E x \in S : \A y \in S : x >= y
    BY <1>1
  <2> QED BY <2>1 DEF Max
<1>2. CASE B # {}
  <2>0. B \subseteq SUBSET S
    OBVIOUS
  <2>1. PICK t \in B : \A u \in SUBSET t : u # t => u \notin B
    <3> HIDE DEF B
    <3> QED BY <1>2, <2>0, SmallestSet
  <2>2. PICK x : x \in t
    OBVIOUS
  <2> DEFINE u == t \ {x}
  <2>3. u \in SUBSET t /\ u # t /\ u \in SUBSET S
    BY <2>2
  <2>4. CASE u = {}
    <3>1. t = {x} /\ x \in Int
      BY <2>2, <2>4
    <3> QED BY <2>1, <3>1
  <2>5. CASE u # {}
    <3>1. PICK z \in u : \A y \in u : z >= y
      BY <2>1, <2>3, <2>5
    <3>2. x \in Int /\ z \in Int /\ t = u \cup {x} /\ u \subseteq Int
      BY <2>2, <2>3
    <3>3. \E v \in t : \A y \in t : v >= y
      <4> HIDE DEF u, B
      <4>1. CASE x >= z
        BY <3>1, <3>2, <4>1
      <4>2. CASE ~(x >= z)
        BY <3>1, <3>2, <4>2
      <4> QED BY <4>1, <4>2
    <3> QED BY <2>1, <3>3
  <2> QED BY <2>4, <2>5
<1> QED BY <1>1, <1>2

\* A set of natural numbers that is not empty has a smallest member.
LEMMA MinIsSmallest ==
    ASSUME NEW S, S \subseteq Nat, S # {}
    PROVE  Min(S) \in S /\ \A y \in S : Min(S) <= y
<1> DEFINE R == OpToRel(<, Nat)
<1>1. IsWellFoundedOn(R, Nat)
  BY NatLessThanWellFounded
<1>2. \A x, y \in Nat : <<y, x>> \in R <=> y < x
  BY DEF OpToRel
<1> HIDE DEF R
<1>3. PICK x \in S : \A y \in S : <<y, x>> \notin R
  BY <1>1, WFMin
<1>4. ASSUME NEW y \in S PROVE x <= y
  <2>1. x \in Nat /\ y \in Nat
    OBVIOUS
  <2>2. ~(y < x)
    BY <1>2, <1>3, <2>1
  <2> QED BY <2>1, <2>2
<1> QED BY <1>3, <1>4 DEF Min

-----------------------------------------------------------------------------
(* The sum both ledger modules take of their operations.                    *)

\* What the operations js of a ledger moved of m.
Moved(os, m, js) == MapThenSumSet(LAMBDA j : os[j].lines[m].quantity, js)

\* What some operations moved is a sum.
LEMMA MovedIsSum ==
    ASSUME NEW os, NEW m, NEW S, IsFiniteSet(S)
    PROVE  \E g : IsSummation(g, [j \in S |-> os[j].lines[m].quantity], S) /\ Moved(os, m, S) = g[S]
<1> DEFINE f == [j \in S |-> os[j].lines[m].quantity]
           Eq(g) == g = [s \in SUBSET S |->
                           IF s = {} THEN 0
                           ELSE os[CHOOSE x \in s : TRUE].lines[m].quantity
                                  + g[s \ {CHOOSE x \in s : TRUE}]]
           iter == CHOOSE g : Eq(g)
<1>1. Moved(os, m, S) = iter[S]
  BY DEF Moved, MapThenSumSet, MapThenFoldSet
<1>2. \A s \in SUBSET S : s # {} => f[Pick(s)] = os[CHOOSE x \in s : TRUE].lines[m].quantity
  BY PickIn DEF Pick
<1>3. ASSUME NEW g PROVE IsSummation(g, f, S) <=> Eq(g)
  <2> HIDE DEF f
  <2>1. [s \in SUBSET S |-> IF s = {} THEN 0 ELSE f[Pick(s)] + g[s \ {Pick(s)}]]
          = [s \in SUBSET S |->
                           IF s = {} THEN 0
                           ELSE os[CHOOSE x \in s : TRUE].lines[m].quantity
                                  + g[s \ {CHOOSE x \in s : TRUE}]]
    BY <1>2 DEF Pick
  <2> QED BY <2>1 DEF IsSummation
<1>4. \E g : IsSummation(g, f, S)
  BY SummationExists
<1> HIDE DEF f, Eq
<1>5. Eq(iter)
  BY <1>3, <1>4
<1> QED BY <1>1, <1>3, <1>5 DEF f

\* No operation moves nothing.
LEMMA MovedByNone == \A os, m : Moved(os, m, {}) = 0
<1> SUFFICES ASSUME NEW os, NEW m PROVE Moved(os, m, {}) = 0
  OBVIOUS
<1> DEFINE f == [j \in {} |-> os[j].lines[m].quantity]
<1>1. PICK g : IsSummation(g, f, {}) /\ Moved(os, m, {}) = g[{}]
  BY FS_EmptySet, MovedIsSum
<1> HIDE DEF f
<1> QED BY <1>1 DEF IsSummation

\* Two ledgers with the same quantities moved the same.
LEMMA MovedSame ==
    ASSUME NEW os, NEW r, NEW m, NEW S, IsFiniteSet(S),
           \A j \in S : r[j].lines[m].quantity = os[j].lines[m].quantity
    PROVE  Moved(r, m, S) = Moved(os, m, S)
<1> DEFINE f == [j \in S |-> os[j].lines[m].quantity]
           d == [j \in S |-> r[j].lines[m].quantity]
<1>1. PICK g : IsSummation(g, f, S) /\ Moved(os, m, S) = g[S]
  BY MovedIsSum
<1>2. PICK h : IsSummation(h, d, S) /\ Moved(r, m, S) = h[S]
  BY MovedIsSum
<1>3. \A x \in S : f[x] = d[x]
  OBVIOUS
<1> HIDE DEF f, d
<1>4. S \subseteq S
  OBVIOUS
<1>5. g[S] = h[S]
  BY <1>1, <1>2, <1>3, <1>4, SummationsAgree
<1> QED BY <1>1, <1>2, <1>5

\* One operation more adds what it moves.
LEMMA MovedByOneMore ==
    ASSUME NEW os, NEW m, NEW S, IsFiniteSet(S), NEW x, x \notin S,
           \A j \in S \cup {x} : os[j].lines[m].quantity \in Int
    PROVE  Moved(os, m, S \cup {x}) = Moved(os, m, S) + os[x].lines[m].quantity
<1> DEFINE T == S \cup {x}
           f == [j \in T |-> os[j].lines[m].quantity]
           d == [j \in S |-> os[j].lines[m].quantity]
<1>1. IsFiniteSet(T)
  BY FS_AddElement
<1>2. PICK g : IsSummation(g, f, T) /\ Moved(os, m, T) = g[T]
  BY <1>1, MovedIsSum
<1>3. PICK h : IsSummation(h, d, S) /\ Moved(os, m, S) = h[S]
  BY MovedIsSum
<1>4. (\A j \in T : f[j] \in Int) /\ (\A j \in S : f[j] = d[j])
  OBVIOUS
<1>5. f[x] = os[x].lines[m].quantity /\ S \subseteq T /\ S \subseteq S /\ T \in SUBSET T
      /\ x \in T /\ T \ {x} = S
  OBVIOUS
<1> HIDE DEF f, d, T
<1>6. g[T] = g[S] + f[x]
  BY <1>1, <1>2, <1>4, <1>5, SummationStep
<1>7. g[S] = h[S]
  BY <1>2, <1>3, <1>4, <1>5, SummationsAgree
<1> QED BY <1>2, <1>3, <1>5, <1>6, <1>7 DEF T

\* What operations with integer quantities moved is an integer.
LEMMA MovedIsInt ==
    ASSUME NEW os, NEW m, NEW S, IsFiniteSet(S), \A j \in S : os[j].lines[m].quantity \in Int
    PROVE  Moved(os, m, S) \in Int
<1> DEFINE f == [j \in S |-> os[j].lines[m].quantity]
<1>1. PICK g : IsSummation(g, f, S) /\ Moved(os, m, S) = g[S]
  BY MovedIsSum
<1>2. \A x \in S : f[x] \in Int
  OBVIOUS
<1> HIDE DEF f
<1> QED BY <1>1, <1>2, SummationIsInt

=============================================================================
