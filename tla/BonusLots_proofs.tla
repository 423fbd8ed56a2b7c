-------------------------- MODULE BonusLots_proofs ---------------------------
(***************************************************************************)
(* What Credit and Debit preserve, whatever handler calls them.  The state *)
(* machines that write the account cite these lemmas.  The first part is   *)
(* about sums over finite sets, which the balance and the lots are made of.*)
(***************************************************************************)
EXTENDS BonusLots, FiniteSetTheorems, WellFoundedInduction, TLAPS

(***************************************************************************)
(* Induction over a finite set, for a set P of sets: what holds of a set   *)
(* once it holds of the set without any one element holds of every finite  *)
(* set.                                                                    *)
(***************************************************************************)
LEMMA SetsInduction ==
  ASSUME NEW S, IsFiniteSet(S), NEW P,
         \A s \in SUBSET S : (\A x \in s : s \ {x} \in P) => s \in P
  PROVE  S \in P
<1> SUFFICES ASSUME S \notin P PROVE FALSE
  OBVIOUS
<1> DEFINE Out == {s \in FiniteSubsetsOf(S) : s \notin P}
<1>1. S \in Out
  BY DEF FiniteSubsetsOf
<1>2. PICK s \in Out : \A t \in Out : <<t, s>> \notin StrictSubsetOrdering(S)
  <2>1. IsWellFoundedOn(StrictSubsetOrdering(S), FiniteSubsetsOf(S))
    BY FS_StrictSubsetOrderingWellFounded
  <2>2. Out \subseteq FiniteSubsetsOf(S) /\ Out # {}
    BY <1>1
  <2> HIDE DEF Out
  <2> QED BY <2>1, <2>2, WFMin
<1>3. s \subseteq S /\ s \notin P /\ IsFiniteSet(s)
  BY DEF FiniteSubsetsOf
<1>4. ASSUME NEW x \in s PROVE s \ {x} \in P
  <2>1. IsFiniteSet(s \ {x})
    BY <1>3, FS_Difference
  <2>2. s \ {x} \in FiniteSubsetsOf(S) /\ s \ {x} # s /\ s \ {x} \subseteq s
    BY <1>3, <1>4, <2>1 DEF FiniteSubsetsOf
  <2>3. <<s \ {x}, s>> \in StrictSubsetOrdering(S)
    BY <1>3, <2>2 DEF StrictSubsetOrdering
  <2> QED BY <1>2, <2>2, <2>3
<1> QED BY <1>3, <1>4

(***************************************************************************)
(* Induction over the naturals, for a set P of numbers.                    *)
(***************************************************************************)
LEMMA NumbersInduction ==
  ASSUME NEW P, 0 \in P, \A n \in Nat : n \in P => n + 1 \in P
  PROVE  \A n \in Nat : n \in P
<1> SUFFICES ASSUME NEW n \in Nat, n \notin P PROVE FALSE
  OBVIOUS
<1> DEFINE Out == {m \in Nat : m \notin P}
<1>1. PICK m \in Out : \A k \in Out : <<k, m>> \notin OpToRel(<, Nat)
  <2>1. Out \subseteq Nat /\ Out # {}
    OBVIOUS
  <2> HIDE DEF Out
  <2> QED BY <2>1, WFMin, NatLessThanWellFounded
<1>2. m \in Nat /\ m # 0 /\ m - 1 \in Nat /\ m - 1 + 1 = m
  OBVIOUS
<1>3. m - 1 \in P
  <2>1. <<m - 1, m>> \in OpToRel(<, Nat)
    BY <1>2 DEF OpToRel
  <2> QED BY <1>1, <1>2, <2>1
<1> QED BY <1>2, <1>3

(***************************************************************************)
(* The element MapThenSumSet takes first, and the function it adds up      *)
(* with, over the subsets of S.                                            *)
(***************************************************************************)
First(s) == CHOOSE x \in s : TRUE

Adds(g, f, S) ==
  g = [s \in SUBSET S |-> IF s = {} THEN 0 ELSE f[First(s)] + g[s \ {First(s)}]]

(***************************************************************************)
(* SumOver is what that function gives for the whole set.                  *)
(***************************************************************************)
LEMMA SumIsAdded ==
  ASSUME NEW f, NEW S
  PROVE  SumOver(f, S) = (CHOOSE g : Adds(g, f, S))[S]
BY Zenon DEF SumOver, MapThenSumSet, MapThenFoldSet, Adds, First

(***************************************************************************)
(* A set that is not empty has a first element.                            *)
(***************************************************************************)
LEMMA FirstIn ==
  ASSUME NEW s, s # {}
  PROVE  First(s) \in s
BY DEF First

(***************************************************************************)
(* There is such a function for every finite set: it is built for the      *)
(* subsets of one more element at a time.                                  *)
(***************************************************************************)
LEMMA SumExists ==
  ASSUME NEW S, IsFiniteSet(S), NEW f
  PROVE  \E g : Adds(g, f, S)
<1> DEFINE Step(g, s) == IF s = {} THEN 0 ELSE f[First(s)] + g[s \ {First(s)}]
           Up(g, n) == \A s \in SUBSET S : Cardinality(s) <= n => g[s] = Step(g, s)
           P == {n \in Nat : \E g : Up(g, n)}
<1>1. ASSUME NEW s \in SUBSET S
      PROVE  IsFiniteSet(s) /\ Cardinality(s) \in Nat
  <2>1. IsFiniteSet(s)
    BY FS_Subset
  <2> QED BY <2>1, FS_CardinalityType
<1>9. ASSUME NEW s \in SUBSET S, Cardinality(s) = 0 PROVE s = {}
  BY <1>1, <1>9, FS_EmptySet
<1>10. ASSUME NEW s \in SUBSET S, NEW x \in s, NEW t, t = s \ {x}
       PROVE  Cardinality(t) = Cardinality(s) - 1
  BY <1>1, <1>10, FS_RemoveElement
<1>2. 0 \in P
  <2>1. PICK g : g = [s \in SUBSET S |-> 0]
    OBVIOUS
  <2>2. ASSUME NEW s \in SUBSET S, Cardinality(s) <= 0 PROVE g[s] = Step(g, s)
    <3>1. Cardinality(s) \in Nat
      BY <1>1, <2>2
    <3>2. s = {}
      BY <1>9, <2>2, <3>1
    <3> QED BY <2>1, <3>2
  <2>3. Up(g, 0)
    BY <2>2
  <2> HIDE DEF Up
  <2> QED BY <2>3
<1>3. ASSUME NEW n \in Nat, n \in P PROVE n + 1 \in P
  <2>1. PICK g : Up(g, n)
    BY <1>3
  <2>2. PICK h : h = [s \in SUBSET S |-> IF Cardinality(s) <= n THEN g[s] ELSE Step(g, s)]
    OBVIOUS
  <2>3. ASSUME NEW s \in SUBSET S, Cardinality(s) <= n + 1 PROVE h[s] = Step(h, s)
    <3>1. CASE s = {}
      <4>1. Cardinality(s) <= n
        BY <1>3, <3>1, FS_EmptySet
      <4> QED BY <2>1, <2>2, <3>1, <4>1
    <3>2. CASE s # {}
      <4>1. PICK x \in s : x = First(s)
        BY <3>2, FirstIn
      <4>2. PICK t \in SUBSET S : t = s \ {x}
        OBVIOUS
      <4>3. Cardinality(t) <= n
        <5>1. /\ Cardinality(s) \in Nat /\ Cardinality(t) = Cardinality(s) - 1
          BY <1>1, <1>10, <2>3, <4>1, <4>2
        <5> QED BY <1>3, <2>3, <5>1
      <4>4. h[t] = g[t]
        BY <2>2, <4>3
      <4>5. Step(h, s) = f[x] + g[t] /\ Step(g, s) = f[x] + g[t]
        BY <3>2, <4>1, <4>2, <4>4
      <4>6. h[s] = g[s] \/ h[s] = Step(g, s)
        BY <2>2
      <4>7. h[s] = g[s] => Cardinality(s) <= n \/ h[s] = Step(g, s)
        BY <2>2
      <4>8. Cardinality(s) <= n => g[s] = Step(g, s)
        BY <2>1
      <4> QED BY <4>5, <4>6, <4>7, <4>8
    <3> QED BY <3>1, <3>2
  <2>4. \E k : Up(k, n + 1)
    BY <2>3
  <2>5. n + 1 \in Nat
    OBVIOUS
  <2> HIDE DEF Up
  <2> QED BY <2>4, <2>5
<1>4. Cardinality(S) \in P
  <2>1. \A n \in Nat : n \in P => n + 1 \in P
    BY <1>3
  <2>2. \A n \in Nat : n \in P
    <3> HIDE DEF P
    <3> QED BY <1>2, <2>1, NumbersInduction
  <2>3. Cardinality(S) \in Nat
    BY FS_CardinalityType
  <2> HIDE DEF P
  <2> QED BY <2>2, <2>3
<1>5. PICK g : Up(g, Cardinality(S))
  BY <1>4
<1>6. PICK h : h = [s \in SUBSET S |-> g[s]]
  OBVIOUS
<1>7. ASSUME NEW s \in SUBSET S PROVE h[s] = Step(h, s)
  <2>1. Cardinality(s) <= Cardinality(S)
    BY FS_Subset
  <2>2. g[s] = Step(g, s)
    BY <1>5, <2>1
  <2>3. h[s] = g[s]
    BY <1>6
  <2>4. PICK t \in SUBSET S : t = s \ {First(s)}
    OBVIOUS
  <2>5. h[t] = g[t]
    BY <1>6
  <2>6. Step(h, s) = Step(g, s)
    BY <2>4, <2>5
  <2> QED BY <2>2, <2>3, <2>6
<1>8. Adds(h, f, S)
  <2>1. h = [s \in SUBSET S |-> h[s]]
    BY <1>6
  <2>2. [s \in SUBSET S |-> h[s]] = [s \in SUBSET S |-> Step(h, s)]
    BY <1>7, Zenon
  <2> QED BY <2>1, <2>2, Zenon DEF Adds
<1> QED BY <1>8

(***************************************************************************)
(* What it adds for the first element.                                     *)
(***************************************************************************)
LEMMA SumStep ==
  ASSUME NEW S, NEW f, NEW g, Adds(g, f, S), NEW s \in SUBSET S, s # {},
         NEW x, x = First(s)
  PROVE  x \in s /\ g[s] = f[x] + g[s \ {x}]
<1>1. g[s] = IF s = {} THEN 0 ELSE f[First(s)] + g[s \ {First(s)}]
  BY DEF Adds
<1> QED BY <1>1, FirstIn

(***************************************************************************)
(* The sum over no element is 0.                                           *)
(***************************************************************************)
LEMMA SumOfNone ==
  ASSUME NEW S, NEW f, NEW g, Adds(g, f, S)
  PROVE  g[{}] = 0
BY DEF Adds

(***************************************************************************)
(* A sum of naturals is a natural, a sum of integers an integer.           *)
(***************************************************************************)
LEMMA SumNumber ==
  ASSUME NEW S, IsFiniteSet(S), NEW f, NEW g, Adds(g, f, S),
         NEW N \in {Nat, Int}, \A x \in S : f[x] \in N
  PROVE  \A s \in SUBSET S : g[s] \in N
<1> SUFFICES ASSUME NEW T \in SUBSET S PROVE g[T] \in N
  OBVIOUS
<1> DEFINE P == {s \in SUBSET T : g[s] \in N}
<1>1. {} \in P
  BY SumOfNone
<1>2. ASSUME NEW s \in SUBSET T, \A x \in s : s \ {x} \in P PROVE s \in P
  <2>1. CASE s = {}
    BY <1>1, <2>1
  <2>2. CASE s # {}
    <3>1. PICK x \in s : x = First(s)
      BY <2>2, FirstIn
    <3>2. g[s] = f[x] + g[s \ {x}]
      BY <1>2, <2>2, <3>1, SumStep
    <3>3. f[x] \in N /\ g[s \ {x}] \in N
      BY <1>2, <3>1
    <3>4. g[s] \in N
      BY <3>2, <3>3
    <3> QED BY <1>2, <3>4
  <2> QED BY <2>1, <2>2
<1>3. T \in P
  <2>1. \A s \in SUBSET T : (\A x \in s : s \ {x} \in P) => s \in P
    BY <1>2
  <2>2. IsFiniteSet(T)
    BY FS_Subset
  <2> HIDE DEF P
  <2> QED BY <2>1, <2>2, SetsInduction
<1> QED BY <1>3

(***************************************************************************)
(* Any element may be taken first: the order of the addition does not      *)
(* matter.                                                                 *)
(***************************************************************************)
LEMMA SumAny ==
  ASSUME NEW S, IsFiniteSet(S), NEW f, NEW g, Adds(g, f, S), \A x \in S : f[x] \in Int
  PROVE  \A s \in SUBSET S : \A x \in s : g[s] = f[x] + g[s \ {x}]
<1> SUFFICES ASSUME NEW T \in SUBSET S PROVE \A x \in T : g[T] = f[x] + g[T \ {x}]
  OBVIOUS
<1> DEFINE P == {s \in SUBSET T : \A x \in s : g[s] = f[x] + g[s \ {x}]}
<1>1. ASSUME NEW s \in SUBSET T, \A x \in s : s \ {x} \in P, NEW x \in s
      PROVE  g[s] = f[x] + g[s \ {x}]
  <2>1. PICK y \in s : y = First(s)
    BY <1>1, FirstIn
  <2>2. g[s] = f[y] + g[s \ {y}]
    BY <1>1, <2>1, SumStep
  <2>3. CASE x = y
    BY <2>2, <2>3
  <2>4. CASE x # y
    <3>1. PICK t \in SUBSET T : t = (s \ {y}) \ {x} /\ t = (s \ {x}) \ {y}
      BY <1>1
    <3>2. g[s \ {y}] = f[x] + g[t]
      BY ZenonT(30), <1>1, <2>1, <2>4, <3>1
    <3>3. g[s \ {x}] = f[y] + g[t]
      BY <1>1, <2>1, <2>4, <3>1
    <3>4. PICK a \in Int, b \in Int, c \in Int : a = f[x] /\ b = f[y] /\ c = g[t]
      BY <1>1, <2>1, SumNumber
    <3>5. g[s] = b + (a + c) /\ g[s \ {x}] = b + c
      BY <2>2, <3>2, <3>3, <3>4
    <3> QED BY <3>4, <3>5
  <2> QED BY <2>3, <2>4
<1>2. T \in P
  <2>1. \A s \in SUBSET T : (\A x \in s : s \ {x} \in P) => s \in P
    BY <1>1
  <2>2. IsFiniteSet(T)
    BY FS_Subset
  <2> HIDE DEF P
  <2> QED BY <2>1, <2>2, SetsInduction
<1> QED BY <1>2

(***************************************************************************)
(* Two functions that agree on a set have the same sum over it.            *)
(***************************************************************************)
LEMMA SumsAgree ==
  ASSUME NEW S, NEW f, NEW g, Adds(g, f, S),
         NEW S2, NEW e, NEW h, Adds(h, e, S2),
         NEW T, IsFiniteSet(T), T \subseteq S, T \subseteq S2, \A x \in T : f[x] = e[x]
  PROVE  g[T] = h[T]
<1> DEFINE P == {s \in SUBSET T : g[s] = h[s]}
<1>1. ASSUME NEW s \in SUBSET T, \A x \in s : s \ {x} \in P
      PROVE  g[s] = h[s]
  <2>1. CASE s = {}
    BY <2>1, SumOfNone
  <2>2. CASE s # {}
    <3>1. PICK y \in s : y = First(s)
      BY <2>2, FirstIn
    <3>2. g[s] = f[y] + g[s \ {y}]
      BY <1>1, <2>2, <3>1, SumStep
    <3>3. h[s] = e[y] + h[s \ {y}]
      BY <1>1, <2>2, <3>1, SumStep
    <3>4. g[s \ {y}] = h[s \ {y}] /\ f[y] = e[y]
      BY <1>1, <3>1
    <3> QED BY <3>2, <3>3, <3>4
  <2> QED BY <2>1, <2>2
<1>2. T \in P
  <2>1. \A s \in SUBSET T : (\A x \in s : s \ {x} \in P) => s \in P
    BY <1>1
  <2> HIDE DEF P
  <2> QED BY <2>1, SetsInduction
<1> QED BY <1>2

(***************************************************************************)
(* SumOver of a finite set is computed by such a function.                 *)
(***************************************************************************)
LEMMA SumAdds ==
  ASSUME NEW S, IsFiniteSet(S), NEW f
  PROVE  \E g : Adds(g, f, S) /\ SumOver(f, S) = g[S]
<1>1. PICK g : g = CHOOSE h : Adds(h, f, S)
  OBVIOUS
<1>2. Adds(g, f, S)
  BY <1>1, SumExists
<1> QED BY <1>1, <1>2, SumIsAdded

(***************************************************************************)
(* What there is to know of SumOver over a finite set of integers: the sum *)
(* over no element is 0, every sum is an integer, and any element can be   *)
(* split off.                                                              *)
(***************************************************************************)
LEMMA SumFacts ==
  ASSUME NEW S, IsFiniteSet(S), NEW f, \A x \in S : f[x] \in Int
  PROVE  /\ SumOver(f, {}) = 0
         /\ \A s \in SUBSET S : SumOver(f, s) \in Int
         /\ \A s \in SUBSET S : \A x \in s : SumOver(f, s) = f[x] + SumOver(f, s \ {x})
<1>1. PICK g : Adds(g, f, S)
  BY SumExists
<1>2. ASSUME NEW s \in SUBSET S PROVE SumOver(f, s) = g[s]
  <2>1. IsFiniteSet(s)
    BY <1>2, FS_Subset
  <2>2. PICK k : Adds(k, f, s) /\ SumOver(f, s) = k[s]
    BY <2>1, SumAdds
  <2>3. g[s] = k[s]
    BY <1>1, <1>2, <2>1, <2>2, SumsAgree
  <2> QED BY <2>2, <2>3
<1>3. g[{}] = 0
  BY <1>1, SumOfNone
<1>4. \A s \in SUBSET S : g[s] \in Int
  BY <1>1, SumNumber
<1>5. \A s \in SUBSET S : \A x \in s : g[s] = f[x] + g[s \ {x}]
  <2>1. ASSUME NEW s \in SUBSET S, NEW x \in s PROVE g[s] = f[x] + g[s \ {x}]
    BY <1>1, <2>1, SumAny
  <2> QED BY <2>1
<1>6. \A s \in SUBSET S : \A x \in s : SumOver(f, s) = f[x] + SumOver(f, s \ {x})
  <2> SUFFICES ASSUME NEW s \in SUBSET S, NEW x \in s
               PROVE  SumOver(f, s) = f[x] + SumOver(f, s \ {x})
    OBVIOUS
  <2>1. PICK t \in SUBSET S : t = s \ {x}
    OBVIOUS
  <2>2. SumOver(f, s) = g[s] /\ SumOver(f, t) = g[t] /\ g[s] = f[x] + g[t]
    BY <1>2, <1>5, <2>1
  <2> QED BY <2>1, <2>2
<1> QED BY <1>2, <1>3, <1>4, <1>6

(***************************************************************************)
(* The sum depends on the function's values over the set only.             *)
(***************************************************************************)
LEMMA SumSame ==
  ASSUME NEW S, IsFiniteSet(S), NEW f, NEW e, \A x \in S : f[x] = e[x]
  PROVE  SumOver(f, S) = SumOver(e, S)
<1>1. PICK g : Adds(g, f, S) /\ SumOver(f, S) = g[S]
  BY SumAdds
<1>2. PICK h : Adds(h, e, S) /\ SumOver(e, S) = h[S]
  BY SumAdds
<1> QED BY <1>1, <1>2, SumsAgree

(***************************************************************************)
(* A sum of naturals is a natural.                                         *)
(***************************************************************************)
LEMMA SumNat ==
  ASSUME NEW S, IsFiniteSet(S), NEW f, \A x \in S : f[x] \in Nat
  PROVE  SumOver(f, S) \in Nat
<1>1. PICK g : Adds(g, f, S) /\ SumOver(f, S) = g[S]
  BY SumAdds
<1> QED BY <1>1, SumNumber

(***************************************************************************)
(* The sum of a pointwise sum.                                             *)
(***************************************************************************)
LEMMA SumAdded ==
  ASSUME NEW S, IsFiniteSet(S), NEW f, NEW g, NEW h,
         \A x \in S : g[x] \in Int, \A x \in S : h[x] \in Int,
         \A x \in S : f[x] = g[x] + h[x]
  PROVE  SumOver(f, S) = SumOver(g, S) + SumOver(h, S)
<1> DEFINE P == {s \in SUBSET S : SumOver(f, s) = SumOver(g, s) + SumOver(h, s)}
<1>1. \A x \in S : f[x] \in Int
  OBVIOUS
<1>2. ASSUME NEW s \in SUBSET S, \A x \in s : s \ {x} \in P
      PROVE  SumOver(f, s) = SumOver(g, s) + SumOver(h, s)
  <2>1. CASE s = {}
    BY <1>1, <2>1, SumFacts
  <2>2. CASE s # {}
    <3>1. PICK x \in s : TRUE
      BY <2>2
    <3>2. PICK t \in SUBSET S : t = s \ {x}
      BY <1>2
    <3>3. SumOver(f, t) = SumOver(g, t) + SumOver(h, t)
      BY <1>2, <3>1, <3>2
    <3>4. /\ SumOver(f, s) = f[x] + SumOver(f, t)
          /\ SumOver(g, s) = g[x] + SumOver(g, t)
          /\ SumOver(h, s) = h[x] + SumOver(h, t)
      <4>1. SumOver(f, s) = f[x] + SumOver(f, t)
        BY <1>1, <1>2, <3>1, <3>2, SumFacts
      <4>2. SumOver(g, s) = g[x] + SumOver(g, t)
        BY <1>2, <3>1, <3>2, SumFacts
      <4>3. SumOver(h, s) = h[x] + SumOver(h, t)
        BY <1>2, <3>1, <3>2, SumFacts
      <4> QED BY <4>1, <4>2, <4>3
    <3>5. SumOver(f, t) \in Int /\ SumOver(g, t) \in Int /\ SumOver(h, t) \in Int
      BY <1>1, SumFacts
    <3>6. f[x] = g[x] + h[x] /\ g[x] \in Int /\ h[x] \in Int
      BY <1>1, <1>2, <3>1
    <3> QED BY <3>3, <3>4, <3>5, <3>6
  <2> QED BY <2>1, <2>2
<1>3. S \in P
  <2>1. \A s \in SUBSET S : (\A x \in s : s \ {x} \in P) => s \in P
    BY <1>2
  <2> HIDE DEF P
  <2> QED BY <2>1, SetsInduction
<1> QED BY <1>3

(***************************************************************************)
(* A sum splits along any other set.                                       *)
(***************************************************************************)
LEMMA SumSplits ==
  ASSUME NEW S, IsFiniteSet(S), NEW f, \A x \in S : f[x] \in Int, NEW A
  PROVE  SumOver(f, S) = SumOver(f, S \cap A) + SumOver(f, S \ A)
<1> DEFINE P == {s \in SUBSET S : SumOver(f, s) = SumOver(f, s \cap A) + SumOver(f, s \ A)}
<1>1. ASSUME NEW s \in SUBSET S, \A x \in s : s \ {x} \in P
      PROVE  SumOver(f, s) = SumOver(f, s \cap A) + SumOver(f, s \ A)
  <2>1. CASE s = {}
    <3>1. s \cap A = {} /\ s \ A = {}
      BY <2>1
    <3> QED BY <2>1, <3>1, SumFacts
  <2>2. CASE s # {}
    <3>1. PICK x \in s : TRUE
      BY <2>2
    <3>2. PICK t \in SUBSET S, u \in SUBSET S, v \in SUBSET S, i \in SUBSET S, d \in SUBSET S :
            t = s \ {x} /\ u = t \cap A /\ v = t \ A /\ i = s \cap A /\ d = s \ A
      BY <1>1
    <3>3. SumOver(f, t) = SumOver(f, u) + SumOver(f, v)
      BY <1>1, <3>1, <3>2
    <3>4. SumOver(f, s) = f[x] + SumOver(f, t)
      BY <1>1, <3>1, <3>2, SumFacts
    <3>5. SumOver(f, u) \in Int /\ SumOver(f, v) \in Int /\ f[x] \in Int
      BY <1>1, <3>1, SumFacts
    <3>6. CASE x \in A
      <4>1. x \in i /\ u = i \ {x} /\ v = d
        BY <3>1, <3>2, <3>6
      <4>2. SumOver(f, i) = f[x] + SumOver(f, u)
        BY <4>1, SumFacts
      <4>3. SumOver(f, d) = SumOver(f, v)
        BY <4>1
      <4>4. SumOver(f, s) = SumOver(f, i) + SumOver(f, d)
        BY <3>3, <3>4, <3>5, <4>2, <4>3
      <4> QED BY <3>2, <4>4
    <3>7. CASE x \notin A
      <4>1. x \in d /\ v = d \ {x} /\ u = i
        BY <3>1, <3>2, <3>7
      <4>2. SumOver(f, d) = f[x] + SumOver(f, v)
        BY <4>1, SumFacts
      <4>3. SumOver(f, i) = SumOver(f, u)
        BY <4>1
      <4>4. SumOver(f, s) = SumOver(f, i) + SumOver(f, d)
        BY <3>3, <3>4, <3>5, <4>2, <4>3
      <4> QED BY <3>2, <4>4
    <3> QED BY <3>6, <3>7
  <2> QED BY <2>1, <2>2
<1>2. S \in P
  <2>1. \A s \in SUBSET S : (\A x \in s : s \ {x} \in P) => s \in P
    BY <1>1
  <2> HIDE DEF P
  <2> QED BY <2>1, SetsInduction
<1> QED BY <1>2

(***************************************************************************)
(* A pointwise smaller function has a smaller sum.                         *)
(***************************************************************************)
LEMMA SumMonotone ==
  ASSUME NEW S, IsFiniteSet(S), NEW f, NEW g,
         \A x \in S : f[x] \in Int, \A x \in S : g[x] \in Int,
         \A x \in S : f[x] <= g[x]
  PROVE  SumOver(f, S) <= SumOver(g, S)
<1>1. PICK d : d = [x \in S |-> g[x] - f[x]]
  OBVIOUS
<1>2. ASSUME NEW x \in S PROVE g[x] = f[x] + d[x] /\ d[x] \in Nat /\ d[x] \in Int
  <2>1. d[x] = g[x] - f[x] /\ g[x] \in Int /\ f[x] \in Int /\ f[x] <= g[x]
    BY <1>1, <1>2
  <2> QED BY <2>1
<1>3. SumOver(g, S) = SumOver(f, S) + SumOver(d, S)
  BY <1>2, SumAdded
<1>4. SumOver(d, S) \in Nat
  BY <1>2, SumNat
<1>5. SumOver(f, S) \in Int
  BY SumFacts
<1> QED BY <1>3, <1>4, <1>5

(***************************************************************************)
(* No summand is greater than the sum of naturals.                         *)
(***************************************************************************)
LEMMA SumMember ==
  ASSUME NEW S, IsFiniteSet(S), NEW f, \A y \in S : f[y] \in Nat, NEW x \in S
  PROVE  f[x] <= SumOver(f, S)
<1>1. PICK T : T = S \ {x}
  OBVIOUS
<1>2. SumOver(f, S) = f[x] + SumOver(f, T)
  <2>1. \A y \in S : f[y] \in Int
    OBVIOUS
  <2> QED BY <1>1, <2>1, SumFacts
<1>3. SumOver(f, T) \in Nat
  BY <1>1, SumNat, FS_Difference
<1> QED BY <1>2, <1>3

-----------------------------------------------------------------------------

(***************************************************************************)
(* The smaller of two integers.                                            *)
(***************************************************************************)
LEMMA MinOfTwo ==
  ASSUME NEW a \in Int, NEW b \in Int
  PROVE  Min({a, b}) = IF a <= b THEN a ELSE b
BY DEF Min

(***************************************************************************)
(* The larger of two integers.                                             *)
(***************************************************************************)
LEMMA MaxOfTwo ==
  ASSUME NEW a \in Int, NEW b \in Int
  PROVE  Max({a, b}) = IF a <= b THEN b ELSE a
BY DEF Max

(***************************************************************************)
(* A row appended at the end leaves the earlier rows where they are.       *)
(***************************************************************************)
LEMMA AppendFacts ==
  ASSUME NEW Rows, NEW q \in Seq(Rows), NEW r \in Rows
  PROVE  /\ Append(q, r) \in Seq(Rows)
         /\ Len(Append(q, r)) = Len(q) + 1
         /\ Append(q, r)[Len(q) + 1] = r
         /\ \A i \in 1..Len(q) : Append(q, r)[i] = q[i]
  OBVIOUS

(***************************************************************************)
(* The account a customer starts with has the shape of an account, and its *)
(* empty ledger explains the opening balance.                              *)
(***************************************************************************)
LEMMA NewAccountOK ==
  ASSUME NEW Rows, NEW Times, 0 \in Times
  PROVE  IsAccount(NewAccount, Rows, Times) /\ LedgerExplains(NewAccount)
<1>1. NewAccount.ledger = << >> /\ NewAccount.points = Opening
  BY DEF NewAccount
<1>2. NewAccount.ledger \in Seq(Rows) /\ Len(NewAccount.ledger) = 0
  BY <1>1
<1>3. LedgerExplains(NewAccount)
  BY <1>1, <1>2, OpeningAssumption DEF LedgerExplains, LedgerBalance
<1>4. IsAccount(NewAccount, Rows, Times)
  BY <1>2, OpeningAssumption DEF IsAccount, NewAccount, EmptyFunction
<1> QED BY <1>3, <1>4

(***************************************************************************)
(* Appending a row whose balance_after follows from the current balance,   *)
(* and making that the balance, keeps the ledger an explanation of it.     *)
(***************************************************************************)
LEMMA AppendExplains ==
  ASSUME NEW Rows, NEW Times, NEW a, NEW b, NEW r \in Rows,
         IsAccount(a, Rows, Times), LedgerExplains(a),
         b.ledger = Append(a.ledger, r),
         b.points = r.after,
         r.after = a.points + Signed(r)
  PROVE  LedgerExplains(b)
<1> DEFINE n == Len(a.ledger)
<1>1. a.ledger \in Seq(Rows)
  BY DEF IsAccount
<1>2. /\ n \in Nat
      /\ Len(b.ledger) = n + 1
      /\ b.ledger[n + 1] = r
      /\ \A i \in 1..n : b.ledger[i] = a.ledger[i]
  BY <1>1
<1> HIDE DEF n
<1>3. b.points = LedgerBalance(b)
  <2>1. b.ledger # << >>
    BY <1>2
  <2> QED BY <2>1, <1>2 DEF LedgerBalance
<1>4. ASSUME NEW i \in 1..(n + 1)
      PROVE  b.ledger[i].after = BalanceBefore(b.ledger, i) + Signed(b.ledger[i])
  <2>1. CASE i = n + 1
    <3>1. BalanceBefore(b.ledger, i) = a.points
      <4>1. CASE n = 0
        BY <1>1, <1>2, <2>1, <4>1 DEF BalanceBefore, LedgerExplains, LedgerBalance, n
      <4>2. CASE n # 0
        <5>1. a.points = a.ledger[n].after
          BY <1>1, <4>2 DEF LedgerExplains, LedgerBalance, n
        <5>2. n \in 1..n /\ i # 1 /\ i - 1 = n
          BY <1>2, <2>1, <4>2
        <5> QED BY <5>1, <5>2, <1>2 DEF BalanceBefore
      <4> QED BY <4>1, <4>2
    <3> QED BY <3>1, <2>1, <1>2
  <2>2. CASE i # n + 1
    <3>1. i \in 1..n
      BY <1>2, <2>2
    <3>2. BalanceBefore(b.ledger, i) = BalanceBefore(a.ledger, i)
      <4>1. CASE i = 1
        BY <4>1 DEF BalanceBefore
      <4>2. CASE i # 1
        <5>1. i - 1 \in 1..n
          BY <3>1, <4>2, <1>2
        <5> QED BY <5>1, <4>2, <1>2 DEF BalanceBefore
      <4> QED BY <4>1, <4>2
    <3>3. a.ledger[i].after = BalanceBefore(a.ledger, i) + Signed(a.ledger[i])
      BY <3>1 DEF LedgerExplains, n
    <3> QED BY <3>1, <3>2, <3>3, <1>2
  <2> QED BY <2>1, <2>2
<1> QED BY <1>2, <1>3, <1>4 DEF LedgerExplains

(***************************************************************************)
(* Credit keeps the account well formed and its ledger an explanation of   *)
(* the balance.                                                            *)
(***************************************************************************)
LEMMA CreditOK ==
  ASSUME NEW Rows, NEW Times, NEW a, NEW amount \in Nat \ {0}, NEW row,
         IsAccount(a, Rows, Times), row.at \in Times,
         LedgerRow("credit", amount, a.points + amount, row) \in Rows
  PROVE  /\ IsAccount(Credit(a, amount, row), Rows, Times)
         /\ LedgerExplains(a) => LedgerExplains(Credit(a, amount, row))
         /\ Credit(a, amount, row).ledger
              = Append(a.ledger, LedgerRow("credit", amount, a.points + amount, row))
<1> DEFINE b == Credit(a, amount, row)
           r == LedgerRow("credit", amount, a.points + amount, row)
<1>1. a.points \in Nat /\ a.ledger \in Seq(Rows)
  BY DEF IsAccount
<1>2. b.ledger = Append(a.ledger, r) /\ b.points = a.points + amount
      /\ b.lots = IssueBonusLot(a.lots, row.at, amount)
  BY DEF Credit
<1>3. r.after = a.points + amount /\ r.op = "credit" /\ r.amount = amount
  BY DEF LedgerRow
<1>4. LedgerExplains(a) => LedgerExplains(b)
  <2> HAVE LedgerExplains(a)
  <2>1. Signed(r) = amount
    BY <1>3 DEF Signed
  <2> HIDE DEF b, r
  <2> QED BY <2>1, <1>1, <1>2, <1>3, AppendExplains DEF r
<1>5. IsAccount(b, Rows, Times)
  <2>1. Append(a.ledger, r) \in Seq(Rows)
    BY <1>1
  <2>2. /\ DOMAIN b.lots \subseteq Times
        /\ \A t \in DOMAIN b.lots :
             /\ b.lots[t].issued \in Nat
             /\ b.lots[t].remaining \in 0..b.lots[t].issued
    <3> HIDE DEF b, r
    <3> QED BY <1>2 DEF IssueBonusLot, IsAccount
  <2> HIDE DEF b, r
  <2> QED BY <1>1, <1>2, <2>1, <2>2 DEF IsAccount
<1> QED BY <1>2, <1>4, <1>5

(***************************************************************************)
(* So does Debit, when the checks made under the lock hold.                *)
(***************************************************************************)
LEMMA DebitOK ==
  ASSUME NEW Rows, NEW Times, NEW a, NEW amount \in Nat \ {0}, NEW row,
         NEW after, after = a.points - amount,
         IsAccount(a, Rows, Times), CanDebit(a, amount, row.at),
         LedgerRow("debit", amount, after, row) \in Rows
  PROVE  /\ IsAccount(Debit(a, amount, row), Rows, Times)
         /\ LedgerExplains(a) => LedgerExplains(Debit(a, amount, row))
         /\ Debit(a, amount, row).ledger
              = Append(a.ledger, LedgerRow("debit", amount, after, row))
<1> DEFINE b == Debit(a, amount, row)
           r == LedgerRow("debit", amount, after, row)
           used == CHOOSE u \in FifoSplits(a.lots, row.at, amount) : TRUE
<1>1. a.points \in Nat /\ a.ledger \in Seq(Rows) /\ a.points >= amount
  BY DEF IsAccount, CanDebit
<1>2. used \in FifoSplits(a.lots, row.at, amount)
  BY DEF CanDebit, LotsSuffice
<1>3. /\ DOMAIN used \subseteq DOMAIN a.lots
      /\ \A t \in DOMAIN used : used[t] \in Nat /\ used[t] <= a.lots[t].remaining
  <2> HIDE DEF used
  <2> QED BY <1>2 DEF FifoSplits, Consumable
<1>4. /\ b.ledger = Append(a.ledger, r) /\ b.points = a.points - amount
      /\ b.lots = Consume(a.lots, used)
  BY DEF Debit
<1> HIDE DEF b, used
<1>5. r.after = a.points - amount /\ r.op = "debit" /\ r.amount = amount
  BY DEF LedgerRow
<1> HIDE DEF r
<1>6. LedgerExplains(a) => LedgerExplains(b)
  <2> HAVE LedgerExplains(a)
  <2>1. Signed(r) = -amount /\ r.after = a.points + Signed(r)
    BY <1>1, <1>5 DEF Signed
  <2> QED BY <2>1, <1>1, <1>4, <1>5, AppendExplains DEF r
<1>7. IsAccount(b, Rows, Times)
  <2>1. Append(a.ledger, r) \in Seq(Rows)
    BY <1>1 DEF r
  <2>2. DOMAIN b.lots = DOMAIN a.lots
    BY <1>4 DEF Consume
  <2>3. ASSUME NEW t \in DOMAIN a.lots
        PROVE  b.lots[t].issued \in Nat /\ b.lots[t].remaining \in 0..b.lots[t].issued
    <3>1. a.lots[t].issued \in Nat /\ a.lots[t].remaining \in 0..a.lots[t].issued
      BY DEF IsAccount
    <3>2. CASE t \in DOMAIN used
      BY <1>3, <1>4, <3>1, <3>2 DEF Consume
    <3>3. CASE t \notin DOMAIN used
      BY <1>4, <3>1, <3>3 DEF Consume
    <3> QED BY <3>2, <3>3
  <2>4. DOMAIN a.lots \subseteq Times
    BY DEF IsAccount
  <2>5. b.points \in Nat
    BY <1>1, <1>4
  <2> QED BY <1>4, <2>1, <2>2, <2>3, <2>4, <2>5 DEF IsAccount
<1> QED BY <1>4, <1>6, <1>7 DEF b, r

-----------------------------------------------------------------------------
(***************************************************************************)
(* A set of naturals that is not empty has a smallest element.             *)
(***************************************************************************)
LEMMA SmallestIn ==
  ASSUME NEW S, S \subseteq Nat, S # {}
  PROVE  \E k \in S : \A t \in S : k <= t
<1>1. PICK Less : Less = OpToRel(<, Nat)
  OBVIOUS
<1>2. ASSUME NEW t \in Nat, NEW m \in Nat, t < m PROVE <<t, m>> \in Less
  BY <1>1, <1>2 DEF OpToRel
<1>3. IsWellFoundedOn(Less, Nat)
  BY <1>1, NatLessThanWellFounded
<1>4. PICK k \in S : \A t \in S : <<t, k>> \notin Less
  BY <1>3, WFMin
<1>5. ASSUME NEW t \in S PROVE k <= t
  <2>1. t \in Nat /\ k \in Nat
    OBVIOUS
  <2>2. ~(t < k)
    BY <1>2, <1>4, <2>1
  <2> QED BY <2>1, <2>2
<1> QED BY <1>5

(***************************************************************************)
(* The sum over no element is 0, whatever the function.                    *)
(***************************************************************************)
LEMMA SumEmpty ==
  ASSUME NEW f
  PROVE  SumOver(f, {}) = 0
<1>1. PICK S : S = {}
  OBVIOUS
<1>2. IsFiniteSet(S) /\ \A x \in S : f[x] \in Int
  BY <1>1, FS_EmptySet
<1> QED BY <1>1, <1>2, SumFacts

(***************************************************************************)
(* A sum of zeros is 0.                                                    *)
(***************************************************************************)
LEMMA SumZero ==
  ASSUME NEW S, IsFiniteSet(S), NEW f, \A x \in S : f[x] = 0
  PROVE  SumOver(f, S) = 0
<1>1. SumOver(f, S) = SumOver(f, S) + SumOver(f, S)
  <2>1. ASSUME NEW x \in S PROVE f[x] \in Int /\ f[x] = f[x] + f[x]
    BY <2>1
  <2> QED BY <2>1, SumAdded
<1>2. PICK n \in Nat : n = SumOver(f, S)
  BY SumNat
<1>3. n = n + n
  BY <1>1, <1>2
<1>4. n = 0
  BY <1>3
<1> QED BY <1>2, <1>4

(***************************************************************************)
(* One element split off a finite sum.                                     *)
(***************************************************************************)
LEMMA SumTake ==
  ASSUME NEW S, IsFiniteSet(S), NEW f, \A y \in S : f[y] \in Int, NEW x \in S,
         NEW T, T = S \ {x}
  PROVE  /\ SumOver(f, S) = f[x] + SumOver(f, T)
         /\ SumOver(f, T) \in Int
<1>1. T \in SUBSET S
  OBVIOUS
<1> QED BY <1>1, SumFacts

(***************************************************************************)
(* Elements whose value is 0 do not count.                                 *)
(***************************************************************************)
LEMMA SumSupport ==
  ASSUME NEW S, IsFiniteSet(S), NEW f, NEW A \in SUBSET S,
         \A x \in A : f[x] \in Int, \A x \in S : x \notin A => f[x] = 0
  PROVE  SumOver(f, S) = SumOver(f, A)
<1>1. \A x \in S : f[x] \in Int
  OBVIOUS
<1>2. PICK B : B = S \ A
  OBVIOUS
<1>3. SumOver(f, B) = 0
  <2>1. IsFiniteSet(B)
    BY <1>2, FS_Difference
  <2> QED BY <1>2, <2>1, SumZero
<1>4. S \cap A = A
  OBVIOUS
<1>5. SumOver(f, S) = SumOver(f, A) + SumOver(f, B)
  <2>1. SumOver(f, S) = SumOver(f, S \cap A) + SumOver(f, S \ A)
    BY <1>1, SumSplits
  <2> QED BY <1>2, <1>4, <2>1
<1>6. SumOver(f, A) \in Int
  BY <1>1, SumFacts
<1> QED BY <1>3, <1>5, <1>6

(***************************************************************************)
(* Renaming the elements one to one changes no sum.                        *)
(***************************************************************************)
LEMMA SumReindexed ==
  ASSUME NEW S, IsFiniteSet(S), NEW f, NEW g, NEW h,
         \A x, y \in S : h[x] = h[y] => x = y,
         \A x \in S : g[x] \in Int /\ f[h[x]] = g[x]
  PROVE  SumOver(f, {h[x] : x \in S}) = SumOver(g, S)
<1> DEFINE P == {s \in SUBSET S : SumOver(f, {h[x] : x \in s}) = SumOver(g, s)}
<1>1. ASSUME NEW s \in SUBSET S, \A x \in s : s \ {x} \in P
      PROVE  SumOver(f, {h[x] : x \in s}) = SumOver(g, s)
  <2>1. CASE s = {}
    <3>1. {h[x] : x \in s} = {}
      BY <2>1
    <3> QED BY <2>1, <3>1, SumEmpty
  <2>2. CASE s # {}
    <3>1. PICK x \in s : TRUE
      BY <2>2
    <3>2. PICK t \in SUBSET S : t = s \ {x}
      BY <1>1
    <3>3. PICK i, j : i = {h[y] : y \in s} /\ j = {h[y] : y \in t}
      OBVIOUS
    <3>4. SumOver(f, j) = SumOver(g, t)
      BY <1>1, <3>1, <3>2, <3>3
    <3>5. IsFiniteSet(s) /\ IsFiniteSet(i)
      <4>1. IsFiniteSet(s)
        BY <1>1, FS_Subset
      <4>2. PICK e : e = [y \in s |-> h[y]]
        OBVIOUS
      <4>3. e \in Surjection(s, i)
        BY <3>3, <4>2 DEF Surjection
      <4>4. IsFiniteSet(i)
        BY <4>1, <4>3, FS_Surjection
      <4> QED BY <4>1, <4>4
    <3>6. SumOver(g, s) = g[x] + SumOver(g, t) /\ SumOver(g, t) \in Int
      <4>1. \A y \in s : g[y] \in Int
        BY <1>1
      <4> QED BY <3>1, <3>2, <3>5, <4>1, SumTake
    <3>7. SumOver(f, i) = f[h[x]] + SumOver(f, j)
      <4>1. \A z \in i : f[z] \in Int
        BY <1>1, <3>3
      <4>2. h[x] \in i /\ j = i \ {h[x]}
        BY <1>1, <3>1, <3>2, <3>3
      <4> QED BY <3>5, <4>1, <4>2, SumTake
    <3>8. f[h[x]] = g[x]
      BY <1>1, <3>1
    <3> QED BY <3>3, <3>4, <3>6, <3>7, <3>8
  <2> QED BY <2>1, <2>2
<1>2. S \in P
  <2>1. \A s \in SUBSET S : (\A x \in s : s \ {x} \in P) => s \in P
    BY <1>1
  <2> HIDE DEF P
  <2> QED BY <2>1, SetsInduction
<1> QED BY <1>2

(***************************************************************************)
(* Every redemption names a lot and a ledger row of its account.           *)
(***************************************************************************)
Linked(a) ==
  /\ DOMAIN a.redemptions \subseteq (DOMAIN a.lots) \X (1..Len(a.ledger))
  /\ \A p \in DOMAIN a.redemptions : a.redemptions[p] \in Nat

(***************************************************************************)
(* Each lot has lost exactly what is still redeemed from it.               *)
(***************************************************************************)
LotsPaid(a) ==
  \A t \in DOMAIN a.lots :
    a.lots[t].issued = a.lots[t].remaining +
      SumOver(a.redemptions, {p \in DOMAIN a.redemptions : p[1] = t})

(***************************************************************************)
(* What every write keeps of an account besides its shape and its ledger:  *)
(* the lots back the balance and have paid for what was redeemed.          *)
(***************************************************************************)
Kept(a) == Linked(a) /\ LotsBack(a) /\ LotsPaid(a)

(***************************************************************************)
(* Credits and debits alone also keep every debit attributed in full (a    *)
(* refund gives back a part).                                              *)
(***************************************************************************)
Backed(a) == Kept(a) /\ Attributed(a)

(***************************************************************************)
(* An appended row is the last, the earlier rows stay.                     *)
(***************************************************************************)
LEMMA LedgerGrows ==
  ASSUME NEW Rows, NEW q \in Seq(Rows), NEW r, NEW l, l = Append(q, r)
  PROVE  /\ Len(q) \in Nat /\ Len(l) = Len(q) + 1
         /\ l[Len(q) + 1] = r
         /\ \A i \in 1..Len(q) : l[i] = q[i]
<1>1. Len(q) \in Nat
  OBVIOUS
<1> QED BY <1>1

(***************************************************************************)
(* The opening lot of migration 000025 backs the opening balance.          *)
(***************************************************************************)
LEMMA NewAccountBacked == Backed(NewAccount)
<1> DEFINE a == NewAccount
           F == [t \in DOMAIN a.lots |-> a.lots[t].remaining]
<1>1. /\ a.ledger = << >> /\ a.points = Opening /\ DOMAIN a.redemptions = {}
      /\ Opening = 0 => DOMAIN a.lots = {}
      /\ Opening # 0 => /\ DOMAIN a.lots = {0}
                        /\ a.lots[0].issued = Opening /\ a.lots[0].remaining = Opening
  BY DEF NewAccount, EmptyFunction
<1>2. Len(a.ledger) = 0
  BY <1>1
<1> HIDE DEF a
<1>3. Linked(a)
  BY <1>1 DEF Linked
<1>4. \A s \in {1} : SumOver(a.redemptions, {}) = 0 /\ SumOver(F, {}) = 0
  BY SumEmpty
<1>5. a.points = SumOver(F, DOMAIN F)
  <2>1. CASE Opening = 0
    BY <1>1, <1>4, <2>1
  <2>2. CASE Opening # 0
    <3>1. DOMAIN F = {0} /\ F[0] = Opening
      BY <1>1, <2>2
    <3> HIDE DEF F
    <3>2. \A x \in {0} : F[x] \in Int
      BY <3>1, OpeningAssumption
    <3>3. IsFiniteSet({0}) /\ {} = {0} \ {0} /\ 0 \in {0}
      BY FS_Singleton
    <3>4. SumOver(F, {0}) = F[0] + SumOver(F, {})
      BY <3>2, <3>3, SumTake
    <3>5. F[0] + SumOver(F, {}) = Opening
      BY <1>4, <3>1, OpeningAssumption
    <3> QED BY <1>1, <3>1, <3>4, <3>5
  <2> QED BY <2>1, <2>2
<1>6. Attributed(a)
  <2>1. \A k \in {1, 2} : \A t : {p \in DOMAIN a.redemptions : p[k] = t} = {}
    BY <1>1
  <2>2. \A t \in DOMAIN a.lots :
          a.lots[t].issued = a.lots[t].remaining +
            SumOver(a.redemptions, {p \in DOMAIN a.redemptions : p[1] = t})
    <3> SUFFICES ASSUME NEW t \in DOMAIN a.lots
                 PROVE a.lots[t].issued = a.lots[t].remaining +
                         SumOver(a.redemptions, {p \in DOMAIN a.redemptions : p[1] = t})
      OBVIOUS
    <3>1. a.lots[t].issued = Opening /\ a.lots[t].remaining = Opening
      BY <1>1
    <3>2. SumOver(a.redemptions, {p \in DOMAIN a.redemptions : p[1] = t}) = 0
      BY <2>1, <1>4
    <3> QED BY <3>1, <3>2, OpeningAssumption
  <2> QED BY <1>1, <1>2, <2>2 DEF Attributed
<1>7. LotsBack(a)
  BY <1>5 DEF LotsBack, Total
<1>8. LotsPaid(a)
  BY <1>6 DEF Attributed, LotsPaid
<1> QED BY <1>3, <1>6, <1>7, <1>8 DEF Backed, Kept, a

(***************************************************************************)
(* A new lot under a timestamp no lot has yet backs as many points as the  *)
(* balance gains.                                                          *)
(***************************************************************************)
LEMMA LotAdded ==
  ASSUME NEW Rows, NEW Times, IsFiniteSet(Times),
         NEW a, NEW b, NEW amount \in Nat \ {0}, NEW now,
         IsAccount(a, Rows, Times), Kept(a), now \notin DOMAIN a.lots,
         b.points = a.points + amount, b.lots = IssueBonusLot(a.lots, now, amount),
         b.redemptions = a.redemptions, Len(b.ledger) = Len(a.ledger) + 1
  PROVE  Kept(b)
<1> DEFINE F == [t \in DOMAIN a.lots |-> a.lots[t].remaining]
           G == [t \in DOMAIN b.lots |-> b.lots[t].remaining]
           L == DOMAIN a.lots
           n == Len(a.ledger)
<1>1. /\ a.points \in Nat /\ n \in Nat /\ L \subseteq Times
      /\ \A t \in L : a.lots[t].remaining \in Nat /\ a.lots[t].issued \in Nat
  BY DEF IsAccount
<1>2. Linked(a) /\ LotsBack(a) /\ LotsPaid(a)
  BY DEF Kept
<1>3. /\ DOMAIN b.lots = L \cup {now}
      /\ b.lots[now].issued = amount /\ b.lots[now].remaining = amount
      /\ \A t \in L : b.lots[t] = a.lots[t]
  BY DEF IssueBonusLot
<1>4. IsFiniteSet(L) /\ IsFiniteSet(L \cup {now})
  <2>1. IsFiniteSet(L)
    BY <1>1, FS_Subset
  <2> QED BY <2>1, FS_AddElement
<1>5. Linked(b)
  <2>1. DOMAIN a.redemptions \subseteq L \X (1..n)
    BY <1>2 DEF Linked
  <2>2. L \X (1..n) \subseteq (L \cup {now}) \X (1..(n + 1))
    BY <1>1
  <2> QED BY <1>2, <1>3, <2>1, <2>2 DEF Linked
<1>6. LotsBack(b)
  <2>1. SumOver(F, L) = a.points
    BY <1>2 DEF LotsBack, Total
  <2>2. SumOver(F, L) = SumOver(G, L)
    <3>1. \A t \in L : F[t] = G[t]
      BY <1>3
    <3> QED BY <1>4, <3>1, SumSame
  <2>3. SumOver(G, L \cup {now}) = G[now] + SumOver(G, L)
    <3>1. \A t \in L \cup {now} : G[t] \in Int
      BY <1>1, <1>3
    <3>2. L = (L \cup {now}) \ {now} /\ now \in L \cup {now}
      OBVIOUS
    <3> HIDE DEF G, L
    <3> QED BY <1>4, <3>1, <3>2, SumTake
  <2>4. G[now] = amount /\ DOMAIN G = L \cup {now}
    BY <1>3
  <2>5. b.points = SumOver(G, DOMAIN G)
    BY <1>1, <2>1, <2>2, <2>3, <2>4
  <2> QED BY <2>5 DEF LotsBack, Total
<1>7. ASSUME NEW t \in DOMAIN b.lots
      PROVE  b.lots[t].issued = b.lots[t].remaining +
               SumOver(b.redemptions, {p \in DOMAIN b.redemptions : p[1] = t})
  <2>1. CASE t \in L
    BY <1>2, <1>3, <2>1 DEF LotsPaid
  <2>2. CASE t = now
    <3>1. {p \in DOMAIN b.redemptions : p[1] = t} = {}
      BY <1>2, <2>2 DEF Linked
    <3>2. SumOver(b.redemptions, {p \in DOMAIN b.redemptions : p[1] = t}) = 0
      BY <3>1, SumEmpty
    <3> QED BY <1>3, <2>2, <3>2
  <2> QED BY <1>3, <1>7, <2>1, <2>2
<1> QED BY <1>5, <1>6, <1>7 DEF Kept, LotsPaid

(***************************************************************************)
(* A credit adds one lot of its amount and no redemption.                  *)
(***************************************************************************)
LEMMA CreditKept ==
  ASSUME NEW Rows, NEW Times, IsFiniteSet(Times),
         NEW a, NEW amount \in Nat \ {0}, NEW row,
         IsAccount(a, Rows, Times), Kept(a), row.at \notin DOMAIN a.lots
  PROVE  /\ Kept(Credit(a, amount, row))
         /\ Attributed(a) => Attributed(Credit(a, amount, row))
<1> DEFINE b == Credit(a, amount, row)
           r == LedgerRow("credit", amount, a.points + amount, row)
           n == Len(a.ledger)
<1>1. /\ b.ledger = Append(a.ledger, r) /\ b.points = a.points + amount
      /\ b.lots = IssueBonusLot(a.lots, row.at, amount)
      /\ b.redemptions = a.redemptions
  BY DEF Credit
<1>2. r.op = "credit"
  BY DEF LedgerRow
<1> HIDE DEF b, r
<1>3. /\ n \in Nat /\ Len(b.ledger) = n + 1
      /\ b.ledger[n + 1] = r
      /\ \A i \in 1..n : b.ledger[i] = a.ledger[i]
  BY <1>1, LedgerGrows DEF IsAccount
<1>4. Kept(b)
  BY <1>1, <1>3, LotAdded
<1>5. ASSUME Attributed(a) PROVE Attributed(b)
  <2>1. ASSUME NEW i \in 1..Len(b.ledger), b.ledger[i].op = "debit"
        PROVE  b.ledger[i].amount =
                 SumOver(b.redemptions, {p \in DOMAIN b.redemptions : p[2] = i})
    <3>1. i \in 1..n /\ a.ledger[i].op = "debit" /\ b.ledger[i] = a.ledger[i]
      BY <1>2, <1>3, <2>1
    <3> QED BY <1>1, <1>5, <3>1 DEF Attributed
  <2>2. ASSUME NEW p \in DOMAIN b.redemptions PROVE p[1] <= b.ledger[p[2]].at
    <3>1. p[2] \in 1..n
      BY <1>1, <2>2 DEF Kept, Linked
    <3> QED BY <1>1, <1>3, <1>5, <3>1 DEF Attributed
  <2>3. LotsPaid(b)
    BY <1>4 DEF Kept
  <2> QED BY <2>1, <2>2, <2>3 DEF Attributed, LotsPaid
<1> QED BY <1>4, <1>5 DEF b

(***************************************************************************)
(* The lots and redemptions of an account are finitely many.               *)
(***************************************************************************)
LEMMA RedemptionsFinite ==
  ASSUME NEW Rows, NEW Times, IsFiniteSet(Times), NEW a,
         IsAccount(a, Rows, Times), Linked(a)
  PROVE  /\ IsFiniteSet(DOMAIN a.lots)
         /\ \A Q \in SUBSET (DOMAIN a.redemptions) : IsFiniteSet(Q)
<1>1. DOMAIN a.lots \subseteq Times /\ Len(a.ledger) \in Nat
  BY DEF IsAccount
<1>2. IsFiniteSet(DOMAIN a.lots)
  BY <1>1, FS_Subset
<1>3. IsFiniteSet(1..Len(a.ledger))
  BY <1>1, FS_Interval
<1>4. IsFiniteSet((DOMAIN a.lots) \X (1..Len(a.ledger)))
  BY <1>2, <1>3, FS_Product
<1>5. DOMAIN a.redemptions \subseteq (DOMAIN a.lots) \X (1..Len(a.ledger))
  BY DEF Linked
<1>6. IsFiniteSet(DOMAIN a.redemptions)
  BY <1>4, <1>5, FS_Subset
<1> QED BY <1>2, <1>6, FS_Subset

(***************************************************************************)
(* What a FIFO split takes from the lots it may consume adds up to the     *)
(* amount, also counted over all lots and over those it touches.           *)
(***************************************************************************)
LEMMA SplitFacts ==
  ASSUME NEW lots, NEW L, L = DOMAIN lots, IsFiniteSet(L), NEW now, NEW amount \in Nat,
         NEW used \in FifoSplits(lots, now, amount),
         NEW z, z = [t \in L |-> IF t \in DOMAIN used THEN used[t] ELSE 0]
  PROVE  /\ \A t \in DOMAIN used : t \in L /\ t <= now /\ used[t] \in Nat /\ used[t] <= lots[t].remaining
         /\ \A t \in L : z[t] \in Nat
         /\ SumOver(z, L) = amount
         /\ SumOver(used, {t \in DOMAIN used : used[t] > 0}) = amount
<1>1. PICK U : U = DOMAIN used
  OBVIOUS
<1>2. \A t \in U : t \in L /\ t <= now /\ used[t] \in Nat /\ used[t] <= lots[t].remaining
  BY <1>1 DEF FifoSplits, Consumable
<1>3. SumOver(used, U) = amount
  BY <1>1 DEF FifoSplits, Total
<1>4. \A t \in L : z[t] \in Nat
  BY <1>1, <1>2
<1>5. IsFiniteSet(U)
  BY <1>2, FS_Subset
<1>6. SumOver(z, L) = amount
  <2>1. SumOver(z, L) = SumOver(z, U)
    <3>1. U \in SUBSET L
      BY <1>2
    <3>2. \A t \in U : z[t] \in Int
      BY <1>2, <1>4
    <3>3. \A t \in L : t \notin U => z[t] = 0
      BY <1>1
    <3> QED BY <3>1, <3>2, <3>3, SumSupport
  <2>2. SumOver(z, U) = SumOver(used, U)
    <3>1. \A t \in U : z[t] = used[t]
      BY <1>1, <1>2
    <3> QED BY <1>5, <3>1, SumSame
  <2> QED BY <1>3, <2>1, <2>2
<1>7. SumOver(used, {t \in DOMAIN used : used[t] > 0}) = amount
  <2>1. PICK A \in SUBSET U : A = {t \in DOMAIN used : used[t] > 0}
    BY <1>1
  <2>2. \A t \in A : used[t] \in Int
    BY <1>2
  <2>3. \A t \in U : t \notin A => used[t] = 0
    BY <1>1, <1>2, <2>1
  <2>4. SumOver(used, U) = SumOver(used, A)
    BY <1>5, <2>2, <2>3, SumSupport
  <2> QED BY <1>3, <2>1, <2>4
<1> QED BY <1>1, <1>2, <1>4, <1>6, <1>7

(***************************************************************************)
(* A debit takes its amount from lots begun no later than itself, and      *)
(* writes for each lot touched one redemption under its own ledger row:    *)
(* the remaining amounts lose what the balance loses, and the new          *)
(* redemptions add up to the debit.                                        *)
(***************************************************************************)
LEMMA DebitKept ==
  ASSUME NEW Rows, NEW Times, IsFiniteSet(Times),
         NEW a, NEW amount \in Nat \ {0}, NEW row,
         IsAccount(a, Rows, Times), Kept(a), CanDebit(a, amount, row.at)
  PROVE  /\ Kept(Debit(a, amount, row))
         /\ Attributed(a) => Attributed(Debit(a, amount, row))
<1> DEFINE b == Debit(a, amount, row)
           r == LedgerRow("debit", amount, a.points - amount, row)
           F == [t \in DOMAIN a.lots |-> a.lots[t].remaining]
           G == [t \in DOMAIN b.lots |-> b.lots[t].remaining]
           L == DOMAIN a.lots
           R == a.redemptions
           V == b.redemptions
           n == Len(a.ledger)
<1>1. PICK used \in FifoSplits(a.lots, row.at, amount) :
        /\ b.ledger = Append(a.ledger, r) /\ b.points = a.points - amount
        /\ b.lots = Consume(a.lots, used)
        /\ V = Redeem(R, used, n + 1)
  BY DEF Debit, CanDebit, LotsSuffice
<1>2. r.op = "debit" /\ r.amount = amount /\ r.at = row.at
  BY DEF LedgerRow
<1>3. /\ a.points \in Nat /\ a.ledger \in Seq(Rows) /\ L \subseteq Times
      /\ \A t \in L : a.lots[t].remaining \in Nat /\ a.lots[t].issued \in Nat
  BY DEF IsAccount
<1>4. Linked(a) /\ LotsBack(a) /\ LotsPaid(a)
  BY DEF Kept
<1> HIDE DEF b, r
<1>5. /\ n \in Nat /\ Len(b.ledger) = n + 1
      /\ b.ledger[n + 1] = r
      /\ \A i \in 1..n : b.ledger[i] = a.ledger[i]
  BY <1>1, <1>3, LedgerGrows
<1>6. PICK z : z = [t \in L |-> IF t \in DOMAIN used THEN used[t] ELSE 0]
  OBVIOUS
<1>7. IsFiniteSet(L) /\ \A Q \in SUBSET (DOMAIN R) : IsFiniteSet(Q)
  BY <1>4, RedemptionsFinite
<1>8. /\ \A t \in DOMAIN used : t \in L /\ t <= row.at /\ used[t] \in Nat /\ used[t] <= a.lots[t].remaining
      /\ \A t \in L : z[t] \in Nat
      /\ SumOver(z, L) = amount
      /\ SumOver(used, {t \in DOMAIN used : used[t] > 0}) = amount
  <2>1. PICK K, l, now : K = L /\ l = a.lots /\ now = row.at
    OBVIOUS
  <2>2. K = DOMAIN l /\ IsFiniteSet(K) /\ used \in FifoSplits(l, now, amount)
    BY <1>7, <2>1
  <2>3. z = [t \in K |-> IF t \in DOMAIN used THEN used[t] ELSE 0]
    BY <1>6, <2>1
  <2>4. /\ \A t \in DOMAIN used : t \in K /\ t <= now /\ used[t] \in Nat /\ used[t] <= l[t].remaining
        /\ \A t \in K : z[t] \in Nat
        /\ SumOver(z, K) = amount
        /\ SumOver(used, {t \in DOMAIN used : used[t] > 0}) = amount
    BY <2>2, <2>3, SplitFacts
  <2> QED BY <2>1, <2>4
<1>9. PICK Pos \in SUBSET L : Pos = {t \in DOMAIN used : used[t] > 0}
  BY <1>8
<1>10. PICK h : h = [t \in L |-> <<t, n + 1>>]
  OBVIOUS
<1>11. PICK T : T = {h[t] : t \in Pos}
  OBVIOUS
<1>12. /\ \A p \in DOMAIN R : p[1] \in L /\ p[2] \in 1..n /\ p = <<p[1], p[2]>> /\ R[p] \in Nat
       /\ \A p \in T : p[1] \in Pos /\ p[2] = n + 1 /\ p = h[p[1]]
       /\ \A t \in Pos : h[t] \in T /\ h[t][1] = t
  <2>1. \A p \in DOMAIN R : p[1] \in L /\ p[2] \in 1..n /\ p = <<p[1], p[2]>> /\ R[p] \in Nat
    BY <1>4 DEF Linked
  <2>2. \A p \in T : p[1] \in Pos /\ p[2] = n + 1 /\ p = h[p[1]]
    BY <1>9, <1>10, <1>11
  <2>3. \A t \in Pos : h[t] \in T /\ h[t][1] = t
    BY <1>10, <1>11
  <2> QED BY <2>1, <2>2, <2>3
<1>13. /\ DOMAIN V = DOMAIN R \cup T
       /\ \A p \in T : V[p] = used[p[1]]
       /\ \A p \in DOMAIN R : V[p] = R[p] /\ p \notin T
  <2>1. T = {<<t, n + 1>> : t \in {u \in DOMAIN used : used[u] > 0}}
    BY <1>9, <1>10, <1>11
  <2>2. V = [p \in DOMAIN R \cup T |-> IF p \in T THEN used[p[1]] ELSE R[p]]
    BY <1>1, <2>1 DEF Redeem
  <2>3. \A p \in DOMAIN R : p \notin T
    BY <1>5, <1>12
  <2> HIDE DEF V, R
  <2> QED BY <2>2, <2>3
<1>14. /\ DOMAIN b.lots = L
       /\ \A t \in L : b.lots[t].issued = a.lots[t].issued
                       /\ b.lots[t].remaining = a.lots[t].remaining - z[t]
  <2>1. DOMAIN b.lots = L
    BY <1>1 DEF Consume
  <2>2. ASSUME NEW t \in L
        PROVE  /\ b.lots[t].issued = a.lots[t].issued
               /\ b.lots[t].remaining = a.lots[t].remaining - z[t]
    BY <1>1, <1>3, <1>6, <2>2 DEF Consume
  <2> QED BY <2>1, <2>2
<1> HIDE DEF L, R, V
<1>15. Linked(b)
  <2>1. ASSUME NEW p \in DOMAIN V PROVE p \in L \X (1..(n + 1)) /\ V[p] \in Nat
    <3>1. CASE p \in T
      <4>1. p[1] \in Pos /\ p[2] = n + 1 /\ p = <<p[1], n + 1>>
        BY <1>10, <1>12, <3>1
      <4>2. V[p] \in Nat
        BY <1>8, <1>9, <1>13, <3>1, <4>1
      <4> QED BY <1>5, <4>1, <4>2
    <3>2. CASE p \in DOMAIN R
      <4>1. p[1] \in L /\ p[2] \in 1..n /\ p = <<p[1], p[2]>> /\ V[p] \in Nat
        BY <1>12, <1>13, <3>2
      <4> QED BY <1>5, <4>1
    <3> QED BY <1>13, <2>1, <3>1, <3>2
  <2> QED BY <1>5, <1>14, <2>1 DEF Linked, V
<1>16. LotsBack(b)
  <2>1. SumOver(F, L) = a.points
    BY <1>4 DEF LotsBack, Total, L
  <2>2. ASSUME NEW t \in L
        PROVE  G[t] \in Int /\ z[t] \in Int /\ F[t] = G[t] + z[t]
    BY <1>3, <1>8, <1>14, <2>2 DEF L
  <2>3. SumOver(F, L) = SumOver(G, L) + SumOver(z, L)
    <3> HIDE DEF F, G
    <3> QED BY <1>7, <2>2, SumAdded
  <2>4. SumOver(G, L) \in Int
    <3> HIDE DEF G
    <3> QED BY <1>7, <2>2, SumFacts
  <2>5. DOMAIN G = L
    BY <1>14
  <2>6. b.points = SumOver(G, DOMAIN G)
    BY <1>1, <1>3, <1>8, <2>1, <2>3, <2>4, <2>5
  <2> QED BY <2>6 DEF LotsBack, Total
<1>17. SumOver(V, T) = amount
  <2>1. IsFiniteSet(Pos)
    BY <1>7, FS_Subset
  <2>2. \A x, y \in Pos : h[x] = h[y] => x = y
    BY <1>10
  <2>3. \A x \in Pos : used[x] \in Int /\ V[h[x]] = used[x]
    BY <1>8, <1>9, <1>12, <1>13
  <2>4. SumOver(V, {h[x] : x \in Pos}) = SumOver(used, Pos)
    BY <2>1, <2>2, <2>3, SumReindexed
  <2> QED BY <1>8, <1>9, <1>11, <2>4
<1>18. \A Q \in SUBSET (DOMAIN R) : SumOver(V, Q) = SumOver(R, Q)
  BY <1>7, <1>13, SumSame
<1>19. LotsPaid(b)
  <2>1. ASSUME NEW t \in L
        PROVE  b.lots[t].issued = b.lots[t].remaining +
                 SumOver(V, {p \in DOMAIN V : p[1] = t})
    <3>1. PICK Q \in SUBSET (DOMAIN R) : Q = {p \in DOMAIN R : p[1] = t}
      OBVIOUS
    <3>2. SumOver(V, Q) = SumOver(R, Q) /\ SumOver(R, Q) \in Nat
      <4>1. \A p \in Q : R[p] \in Nat
        BY <1>12
      <4> QED BY <1>7, <1>18, <4>1, SumNat
    <3>3. a.lots[t].issued = a.lots[t].remaining + SumOver(R, Q)
      BY <1>4, <3>1 DEF LotsPaid, R, L
    <3>4. PICK P : P = {p \in DOMAIN V : p[1] = t}
      OBVIOUS
    <3>5. SumOver(V, P) = z[t] + SumOver(V, Q)
      <4>1. CASE t \in Pos
        <5>1. P = Q \cup {h[t]} /\ h[t] \notin Q
          <6>1. h[t] \in P /\ h[t] \notin Q
            BY <1>12, <1>13, <3>1, <3>4, <4>1
          <6>2. Q \subseteq P
            BY <1>13, <3>1, <3>4
          <6>3. \A p \in P : p \in T => p = h[t]
            BY <1>12, <3>4
          <6>4. \A p \in P : p \notin T => p \in Q
            BY <1>13, <3>1, <3>4
          <6> QED BY <6>1, <6>2, <6>3, <6>4
        <5>2. V[h[t]] = z[t] /\ z[t] \in Nat
          BY <1>6, <1>8, <1>9, <1>12, <1>13, <4>1
        <5>3. \A p \in P : V[p] \in Int
          BY <1>12, <1>13, <5>1, <5>2
        <5>4. IsFiniteSet(P)
          BY <1>7, <5>1, FS_AddElement
        <5>5. Q = P \ {h[t]} /\ h[t] \in P
          BY <5>1
        <5>6. SumOver(V, P) = V[h[t]] + SumOver(V, Q)
          BY <5>3, <5>4, <5>5, SumTake
        <5> QED BY <5>2, <5>6
      <4>2. CASE t \notin Pos
        <5>1. P = Q
          BY <1>12, <1>13, <3>1, <3>4, <4>2
        <5>2. z[t] = 0
          BY <1>6, <1>8, <1>9, <4>2
        <5> QED BY <3>2, <5>1, <5>2
      <4> QED BY <4>1, <4>2
    <3>6. z[t] \in Nat /\ a.lots[t].remaining \in Nat
      BY <1>3, <1>8 DEF L
    <3> QED BY <1>14, <3>2, <3>3, <3>4, <3>5, <3>6
  <2> QED BY <1>14, <2>1 DEF LotsPaid, V
<1>20. ASSUME Attributed(a) PROVE Attributed(b)
  <2>1. ASSUME NEW i \in 1..Len(b.ledger), b.ledger[i].op = "debit"
        PROVE  b.ledger[i].amount = SumOver(V, {p \in DOMAIN V : p[2] = i})
    <3>1. CASE i = n + 1
      <4>1. {p \in DOMAIN V : p[2] = i} = T
        BY <1>5, <1>12, <1>13, <3>1
      <4> QED BY <1>2, <1>5, <1>17, <3>1, <4>1
    <3>2. CASE i # n + 1
      <4>1. i \in 1..n /\ a.ledger[i].op = "debit" /\ b.ledger[i] = a.ledger[i]
        BY <1>5, <2>1, <3>2
      <4>2. PICK Q \in SUBSET (DOMAIN R) : Q = {p \in DOMAIN R : p[2] = i}
        OBVIOUS
      <4>3. {p \in DOMAIN V : p[2] = i} = Q
        BY <1>12, <1>13, <3>2, <4>2
      <4>4. a.ledger[i].amount = SumOver(R, Q)
        BY <1>20, <4>1, <4>2 DEF Attributed, R
      <4> QED BY <1>18, <4>1, <4>3, <4>4
    <3> QED BY <3>1, <3>2
  <2>2. ASSUME NEW p \in DOMAIN V PROVE p[1] <= b.ledger[p[2]].at
    <3>1. CASE p \in T
      BY <1>2, <1>5, <1>8, <1>9, <1>12, <3>1
    <3>2. CASE p \in DOMAIN R
      <4>1. p[2] \in 1..n
        BY <1>12, <3>2
      <4>2. p[1] <= a.ledger[p[2]].at
        BY <1>20, <3>2 DEF Attributed, R
      <4> QED BY <1>5, <4>1, <4>2
    <3> QED BY <1>13, <2>2, <3>1, <3>2
  <2> QED BY <1>19, <2>1, <2>2 DEF Attributed, LotsPaid, V
<1> QED BY <1>15, <1>16, <1>19, <1>20 DEF Kept, b

(***************************************************************************)
(* As long as consumable lots are left, a split of n can be made one of n  *)
(* + 1: the oldest lot that is not empty gives one point more.             *)
(***************************************************************************)
LEMMA OneMoreFits ==
  ASSUME NEW lots, NEW now, NEW C, C = Consumable(lots, now), IsFiniteSet(C), C \subseteq Nat,
         \A t \in C : lots[t].remaining \in Nat,
         NEW rem, rem = [t \in C |-> lots[t].remaining],
         NEW n \in Nat, n < SumOver(rem, C), FifoSplits(lots, now, n) # {}
  PROVE  FifoSplits(lots, now, n + 1) # {}
<1>1. PICK used : used \in FifoSplits(lots, now, n)
  OBVIOUS
<1>2. /\ used \in [C -> 0..n]
      /\ \A t \in C : used[t] \in Nat /\ used[t] <= n /\ rem[t] \in Nat /\ used[t] <= rem[t] /\ rem[t] = lots[t].remaining
      /\ \A s, t \in C : s < t /\ used[t] > 0 => used[s] = rem[s]
      /\ SumOver(used, C) = n
  BY <1>1 DEF FifoSplits, Total
<1>3. PICK Open : Open = {t \in C : used[t] # rem[t]}
  OBVIOUS
<1>4. Open # {}
  <2> SUFFICES ASSUME Open = {} PROVE FALSE
    OBVIOUS
  <2>1. \A t \in C : used[t] = rem[t]
    BY <1>3
  <2>2. SumOver(used, C) = SumOver(rem, C)
    BY <2>1, SumSame
  <2> QED BY <1>2, <2>2
<1>5. PICK k \in Open : \A t \in Open : k <= t
  <2>1. Open \subseteq Nat
    BY <1>3
  <2> QED BY <1>4, <2>1, SmallestIn
<1>6. k \in C /\ used[k] < rem[k] /\ used[k] + 1 <= rem[k]
  BY <1>2, <1>3, <1>5
<1>7. PICK more : more = [t \in C |-> IF t = k THEN used[t] + 1 ELSE used[t]]
  OBVIOUS
<1>8. more \in [C -> 0..(n + 1)]
  BY <1>2, <1>7
<1>9. \A t \in C : more[t] <= lots[t].remaining
  BY <1>2, <1>6, <1>7
<1>10. ASSUME NEW s \in C, NEW t \in C, s < t, more[t] > 0
       PROVE  more[s] = lots[s].remaining
  <2>1. s # k
    <3> SUFFICES ASSUME s = k PROVE FALSE
      OBVIOUS
    <3>1. t # k /\ used[t] > 0
      BY <1>7, <1>10
    <3> QED BY <1>2, <1>6, <1>10, <3>1
  <2>2. used[s] = rem[s]
    <3>1. CASE t = k
      <4>1. ~(k <= s)
        BY <1>10, <3>1
      <4> QED BY <1>3, <1>5, <4>1
    <3>2. CASE t # k
      BY <1>2, <1>7, <1>10, <3>2
    <3> QED BY <3>1, <3>2
  <2> QED BY <1>2, <1>7, <2>1, <2>2
<1>11. SumOver(more, C) = n + 1
  <2>1. PICK D : D = C \ {k}
    OBVIOUS
  <2>2. SumOver(used, C) = used[k] + SumOver(used, D) /\ SumOver(used, D) \in Int
    <3>1. \A t \in C : used[t] \in Int
      BY <1>2
    <3> QED BY <1>6, <2>1, <3>1, SumTake
  <2>3. SumOver(more, C) = more[k] + SumOver(more, D)
    <3>1. \A t \in C : more[t] \in Int
      BY <1>2, <1>7
    <3> QED BY <1>6, <2>1, <3>1, SumTake
  <2>4. SumOver(more, D) = SumOver(used, D)
    <3>1. IsFiniteSet(D) /\ \A t \in D : more[t] = used[t]
      BY <1>7, <2>1, FS_Difference
    <3> QED BY <3>1, SumSame
  <2>5. more[k] = used[k] + 1 /\ used[k] \in Nat
    BY <1>2, <1>6, <1>7
  <2> QED BY <1>2, <2>2, <2>3, <2>4, <2>5
<1>12. more \in FifoSplits(lots, now, n + 1)
  BY <1>7, <1>8, <1>9, <1>10, <1>11 DEF FifoSplits, Total
<1> QED BY <1>12

(***************************************************************************)
(* The lots suffice whenever the consumable ones add up to the amount.     *)
(***************************************************************************)
LEMMA FifoExists ==
  ASSUME NEW lots, NEW now, NEW C, C = Consumable(lots, now), IsFiniteSet(C), C \subseteq Nat,
         \A t \in C : lots[t].remaining \in Nat,
         NEW rem, rem = [t \in C |-> lots[t].remaining],
         NEW amount \in Nat, amount <= SumOver(rem, C)
  PROVE  LotsSuffice(lots, now, amount)
<1> DEFINE P == {n \in Nat : n <= SumOver(rem, C) => FifoSplits(lots, now, n) # {}}
<1>1. SumOver(rem, C) \in Nat
  BY SumNat
<1>2. 0 \in P
  <2>1. PICK used : used = [t \in C |-> 0]
    OBVIOUS
  <2>2. SumOver(used, C) = 0
    BY <2>1, SumZero
  <2>3. \A t \in C : used[t] = 0 /\ 0 <= lots[t].remaining
    BY <2>1
  <2>4. used \in [C -> 0..0] /\ DOMAIN used = C
    BY <2>1
  <2>5. used \in FifoSplits(lots, now, 0)
    BY <2>2, <2>3, <2>4 DEF FifoSplits, Total
  <2> QED BY <2>5
<1>3. ASSUME NEW n \in Nat, n \in P PROVE n + 1 \in P
  <2>1. SUFFICES ASSUME n + 1 <= SumOver(rem, C) PROVE FifoSplits(lots, now, n + 1) # {}
    OBVIOUS
  <2>2. n < SumOver(rem, C)
    BY <1>1, <2>1
  <2>3. FifoSplits(lots, now, n) # {}
    BY <1>1, <1>3, <2>2
  <2> QED BY <2>2, <2>3, OneMoreFits
<1>4. \A n \in Nat : n \in P
  <2> HIDE DEF P
  <2> QED BY <1>2, <1>3, NumbersInduction
<1> QED BY <1>4 DEF LotsSuffice

(***************************************************************************)
(* A debit the balance allows is refused for its lots only when a lot that *)
(* is still active is younger than the debit's transaction.                *)
(***************************************************************************)
LEMMA ShortageIsLater ==
  ASSUME NEW Rows, NEW Times, IsFiniteSet(Times), Times \subseteq Nat,
         NEW a, IsAccount(a, Rows, Times), LotsBack(a),
         NEW now \in Nat, NEW amount \in Nat, a.points >= amount,
         ~LotsSuffice(a.lots, now, amount)
  PROVE  \E t \in DOMAIN a.lots : t > now /\ LotStatus(a.lots[t]) = "active"
<1> SUFFICES ASSUME \A t \in DOMAIN a.lots : t > now => LotStatus(a.lots[t]) # "active"
             PROVE  FALSE
  OBVIOUS
<1>1. PICK L, C, rem, all :
        /\ L = DOMAIN a.lots /\ C = Consumable(a.lots, now)
        /\ rem = [t \in C |-> a.lots[t].remaining]
        /\ all = [t \in L |-> a.lots[t].remaining]
  OBVIOUS
<1>2. L \subseteq Times /\ \A t \in L : a.lots[t].remaining \in Nat /\ all[t] = a.lots[t].remaining
  BY <1>1 DEF IsAccount
<1>3. IsFiniteSet(L)
  BY <1>2, FS_Subset
<1>4. C \in SUBSET L /\ C \subseteq Nat
  BY <1>1, <1>2 DEF Consumable
<1>5. IsFiniteSet(C)
  BY <1>3, <1>4, FS_Subset
<1>6. ASSUME NEW t \in L, t \notin C PROVE all[t] = 0
  <2>1. t \in Nat /\ (t > now \/ t <= now)
    BY <1>2, <1>6
  <2>2. LotStatus(a.lots[t]) # "active"
    BY <1>1, <1>6, <2>1 DEF Consumable
  <2>3. a.lots[t].remaining = 0
    BY <2>2 DEF LotStatus
  <2> QED BY <1>2, <1>6, <2>3
<1>7. SumOver(all, L) = SumOver(all, C)
  <2>1. \A t \in C : all[t] \in Int
    BY <1>2, <1>4
  <2> QED BY <1>3, <1>4, <1>6, <2>1, SumSupport
<1>8. SumOver(all, C) = SumOver(rem, C)
  <2>1. \A t \in C : all[t] = rem[t]
    BY <1>1, <1>2, <1>4
  <2> QED BY <1>5, <2>1, SumSame
<1>9. a.points = SumOver(all, L)
  BY <1>1 DEF LotsBack, Total
<1>10. amount <= SumOver(rem, C)
  BY <1>7, <1>8, <1>9
<1>11. \A t \in C : a.lots[t].remaining \in Nat
  BY <1>2, <1>4
<1>12. LotsSuffice(a.lots, now, amount)
  BY <1>1, <1>4, <1>5, <1>10, <1>11, FifoExists
<1> QED BY <1>12

-----------------------------------------------------------------------------
(* The points a refund gives back. *)

(***************************************************************************)
(* A sum may be taken group by group: the sum, over the keys, of the sums  *)
(* of the elements with that key.                                          *)
(***************************************************************************)
LEMMA SumGrouped ==
  ASSUME NEW D, IsFiniteSet(D), NEW L, IsFiniteSet(L), NEW f, \A p \in D : f[p] \in Int,
         NEW k, \A p \in D : k[p] \in L
  PROVE  SumOver([t \in L |-> SumOver(f, {p \in D : k[p] = t})], L) = SumOver(f, D)
<1> DEFINE G(s) == [t \in L |-> SumOver(f, {p \in s : k[p] = t})]
           P == {s \in SUBSET D : SumOver(G(s), L) = SumOver(f, s)}
<1>1. ASSUME NEW s \in SUBSET D
      PROVE  /\ IsFiniteSet(s) /\ SumOver(f, s) \in Int
             /\ \A t \in L : G(s)[t] \in Int
  <2>1. IsFiniteSet(s)
    BY FS_Subset
  <2>2. \A r \in SUBSET D : SumOver(f, r) \in Int
    BY SumFacts
  <2>3. ASSUME NEW t \in L PROVE G(s)[t] \in Int
    <3>1. {p \in s : k[p] = t} \in SUBSET D
      OBVIOUS
    <3>2. SumOver(f, {p \in s : k[p] = t}) \in Int
      BY <2>2, <3>1
    <3> QED BY <3>2
  <2> QED BY <2>1, <2>2, <2>3
<1>2. ASSUME NEW s \in SUBSET D, \A x \in s : s \ {x} \in P
      PROVE  SumOver(G(s), L) = SumOver(f, s)
  <2>1. CASE s = {}
    <3>1. \A t \in L : {p \in s : k[p] = t} = {}
      BY <2>1
    <3>2. \A t \in L : G(s)[t] = 0
      BY <3>1, SumEmpty
    <3>3. SumOver(G(s), L) = 0
      <4> HIDE DEF G
      <4> QED BY <3>2, SumZero
    <3>4. SumOver(f, s) = 0
      BY <2>1, SumEmpty
    <3> QED BY <3>3, <3>4
  <2>2. CASE s # {}
    <3>1. PICK x \in s : TRUE
      BY <2>2
    <3>2. PICK t \in SUBSET D : t = s \ {x}
      OBVIOUS
    <3>3. SumOver(G(t), L) = SumOver(f, t)
      BY <1>2, <3>1, <3>2
    <3>4. SumOver(f, s) = f[x] + SumOver(f, t) /\ SumOver(f, t) \in Int /\ f[x] \in Int
      <4>1. \A p \in s : f[p] \in Int
        OBVIOUS
      <4>2. IsFiniteSet(s)
        BY <1>1
      <4> QED BY <3>1, <3>2, <4>1, <4>2, SumTake
    <3>5. PICK m \in L : m = k[x]
      BY <3>1
    <3>6. G(s)[m] = f[x] + G(t)[m]
      <4>1. PICK i \in SUBSET D : i = {p \in s : k[p] = m}
        OBVIOUS
      <4>2. PICK j \in SUBSET D : j = {p \in t : k[p] = m}
        OBVIOUS
      <4>3. x \in i /\ j = i \ {x}
        BY <3>1, <3>2, <3>5, <4>1, <4>2
      <4>4. IsFiniteSet(i) /\ \A p \in i : f[p] \in Int
        BY <1>1
      <4>5. SumOver(f, i) = f[x] + SumOver(f, j)
        BY <4>3, <4>4, SumTake
      <4> QED BY <4>1, <4>2, <4>5
    <3>7. \A q \in L : q # m => G(s)[q] = G(t)[q]
      <4>1. ASSUME NEW q \in L, q # m PROVE {p \in s : k[p] = q} = {p \in t : k[p] = q}
        BY <3>2, <3>5, <4>1
      <4> QED BY <4>1
    <3>8. PICK K : K = L \ {m}
      OBVIOUS
    <3>9. (\A q \in L : G(s)[q] \in Int) /\ (\A q \in L : G(t)[q] \in Int)
      BY <1>1
    <3> HIDE DEF G
    <3>10. SumOver(G(s), L) = G(s)[m] + SumOver(G(s), K)
      BY <3>8, <3>9, SumTake
    <3>11. SumOver(G(t), L) = G(t)[m] + SumOver(G(t), K) /\ SumOver(G(t), K) \in Int
      BY <3>8, <3>9, SumTake
    <3>12. SumOver(G(s), K) = SumOver(G(t), K)
      <4>1. IsFiniteSet(K) /\ \A q \in K : G(s)[q] = G(t)[q]
        BY <3>7, <3>8, FS_Difference
      <4> QED BY <4>1, SumSame
    <3>13. G(t)[m] \in Int
      BY <3>9
    <3> QED BY <3>3, <3>4, <3>6, <3>10, <3>11, <3>12, <3>13
  <2> QED BY <2>1, <2>2
<1>3. D \in P
  <2>1. \A s \in SUBSET D : (\A x \in s : s \ {x} \in P) => s \in P
    BY <1>2
  <2> HIDE DEF P
  <2> QED BY <2>1, SetsInduction
<1> QED BY <1>3

(***************************************************************************)
(* What a refund gives back to the redemptions is at most what each of     *)
(* them still redeems, and in all at most the amount.                      *)
(***************************************************************************)
LEMMA RestoreSplitFacts ==
  ASSUME NEW a, NEW sale, NEW amount \in Nat, NEW back \in RestoreSplits(a, sale, amount),
         Linked(a), \A Q \in SUBSET (DOMAIN a.redemptions) : IsFiniteSet(Q)
  PROVE  /\ DOMAIN back \subseteq DOMAIN a.redemptions
         /\ \A p \in DOMAIN back : back[p] \in Nat /\ back[p] <= a.redemptions[p]
         /\ Total(back) \in Nat /\ Total(back) <= amount
<1>1. PICK open \in SUBSET (DOMAIN a.redemptions) : open = Redeemed(a, sale)
  BY DEF Redeemed
<1>2. /\ back \in [open -> 0..amount]
      /\ \A p \in open : back[p] <= a.redemptions[p]
      /\ Total(back) = Min({amount, SumOver(a.redemptions, open)})
  BY <1>1 DEF RestoreSplits
<1>3. SumOver(a.redemptions, open) \in Nat
  <2>1. \A p \in open : a.redemptions[p] \in Nat
    BY <1>1 DEF Linked
  <2> QED BY <1>1, <2>1, SumNat
<1>4. Total(back) \in Nat /\ Total(back) <= amount
  BY <1>2, <1>3, MinOfTwo
<1> QED BY <1>1, <1>2, <1>4

(***************************************************************************)
(* Giving points back to the lots they were taken from: each lot regains   *)
(* what its redemptions lose, and the balance gains the sum.               *)
(***************************************************************************)
LEMMA ReturnedKept ==
  ASSUME NEW Rows, NEW Times, IsFiniteSet(Times), NEW a, NEW sale, NEW amount \in Nat,
         NEW back \in RestoreSplits(a, sale, amount),
         IsAccount(a, Rows, Times), Kept(a),
         NEW b, b.points = a.points + Total(back), b.lots = ReturnToLots(a.lots, back),
         b.ledger = a.ledger,
         b.redemptions = [p \in DOMAIN a.redemptions |->
                            IF p \in DOMAIN back THEN a.redemptions[p] - back[p]
                            ELSE a.redemptions[p]]
  PROVE  Kept(b) /\ IsAccount(b, Rows, Times)
<1>1. Linked(a) /\ LotsBack(a) /\ LotsPaid(a)
  BY DEF Kept
<1> DEFINE of(D, t) == {p \in D : p[1] = t}
<1>2. PICK L : L = DOMAIN a.lots
  OBVIOUS
<1>3. PICK D : D = DOMAIN a.redemptions
  OBVIOUS
<1>4. PICK R : R = a.redemptions
  OBVIOUS
<1>5. PICK V : V = b.redemptions
  OBVIOUS
<1>6. IsFiniteSet(L) /\ \A Q \in SUBSET D : IsFiniteSet(Q)
  BY <1>1, <1>2, <1>3, RedemptionsFinite
<1>7. /\ DOMAIN back \subseteq D
      /\ \A p \in DOMAIN back : back[p] \in Nat /\ back[p] <= R[p]
      /\ Total(back) \in Nat
  BY <1>1, <1>3, <1>4, <1>6, RestoreSplitFacts
<1>8. PICK z : z = [p \in D |-> IF p \in DOMAIN back THEN back[p] ELSE 0]
  OBVIOUS
<1>9. \A p \in D : p[1] \in L /\ R[p] \in Nat
  BY <1>1, <1>2, <1>3, <1>4 DEF Linked
<1>10. V = [p \in D |-> IF p \in DOMAIN back THEN R[p] - back[p] ELSE R[p]]
  BY <1>3, <1>4, <1>5
<1>11. DOMAIN V = D
  BY <1>10
<1>12. ASSUME NEW p \in D PROVE z[p] \in Nat /\ V[p] \in Nat /\ R[p] = V[p] + z[p]
  <2>1. CASE p \in DOMAIN back
    <3>1. z[p] = back[p] /\ V[p] = R[p] - back[p]
      BY <1>8, <1>10, <2>1
    <3> QED BY <1>7, <1>9, <2>1, <3>1
  <2>2. CASE p \notin DOMAIN back
    <3>1. z[p] = 0 /\ V[p] = R[p]
      BY <1>8, <1>10, <2>2
    <3> QED BY <1>9, <3>1
  <2> QED BY <2>1, <2>2
<1>13. PICK y : y = [t \in L |-> SumOver(z, of(D, t))]
  OBVIOUS
<1>14. ASSUME NEW t \in L
      PROVE  /\ y[t] \in Nat /\ SumOver(V, of(D, t)) \in Nat
             /\ SumOver(R, of(D, t)) = SumOver(V, of(D, t)) + y[t]
             /\ SumOver(back, {p \in DOMAIN back : p[1] = t}) = y[t]
  <2>1. PICK Q \in SUBSET D : Q = of(D, t)
    OBVIOUS
  <2>2. IsFiniteSet(Q)
    BY <1>6
  <2>3. /\ \A p \in Q : V[p] \in Int /\ V[p] \in Nat
        /\ \A p \in Q : z[p] \in Int /\ z[p] \in Nat
        /\ \A p \in Q : R[p] = V[p] + z[p]
    BY <1>12
  <2>4. SumOver(R, Q) = SumOver(V, Q) + SumOver(z, Q)
    BY <2>2, <2>3, SumAdded
  <2>5. SumOver(V, Q) \in Nat /\ SumOver(z, Q) \in Nat
    <3>1. SumOver(V, Q) \in Nat
      BY <2>2, <2>3, SumNat
    <3>2. SumOver(z, Q) \in Nat
      BY <2>2, <2>3, SumNat
    <3> QED BY <3>1, <3>2
  <2>6. PICK A \in SUBSET Q : A = {p \in DOMAIN back : p[1] = t}
    BY <1>7, <2>1
  <2>7. SumOver(z, Q) = SumOver(z, A)
    <3>1. \A p \in Q : p \notin A => z[p] = 0
      BY <1>8, <2>1, <2>6
    <3>2. \A p \in A : z[p] \in Int
      BY <2>3
    <3> QED BY <2>2, <3>1, <3>2, SumSupport
  <2>8. SumOver(z, A) = SumOver(back, A)
    <3>1. IsFiniteSet(A)
      BY <2>2, FS_Subset
    <3>2. \A p \in A : z[p] = back[p]
      BY <1>8, <2>6
    <3> QED BY <3>1, <3>2, SumSame
  <2>9. y[t] = SumOver(z, Q)
    BY <1>13, <2>1
  <2> QED BY <2>1, <2>4, <2>5, <2>6, <2>7, <2>8, <2>9
<1>15. SumOver(y, L) = Total(back)
  <2>1. PICK k : k = [p \in D |-> p[1]]
    OBVIOUS
  <2>2. /\ \A p \in D : k[p] \in L
        /\ \A p \in D : z[p] \in Int
    BY <1>9, <1>12, <2>1
  <2>3. IsFiniteSet(D)
    BY <1>6
  <2>4. SumOver([t \in L |-> SumOver(z, {p \in D : k[p] = t})], L) = SumOver(z, D)
    BY <1>6, <2>2, <2>3, SumGrouped
  <2>5. [t \in L |-> SumOver(z, {p \in D : k[p] = t})] = y
    <3>1. \A t \in L : of(D, t) = {p \in D : k[p] = t}
      BY <2>1
    <3>2. PICK w : w = [t \in L |-> SumOver(z, {p \in D : k[p] = t})]
      OBVIOUS
    <3>3. \A t \in L : w[t] = y[t]
      BY <1>13, <3>1, <3>2
    <3>4. DOMAIN w = L /\ DOMAIN y = L
      BY <1>13, <3>2
    <3>5. w = [t \in L |-> w[t]] /\ y = [t \in L |-> y[t]]
      BY <1>13, <3>2
    <3> QED BY <3>2, <3>3, <3>5
  <2>6. SumOver(z, D) = SumOver(z, DOMAIN back)
    <3>1. DOMAIN back \in SUBSET D
      BY <1>7
    <3>2. \A p \in DOMAIN back : z[p] \in Int
      BY <1>7, <1>12
    <3>3. \A p \in D : p \notin DOMAIN back => z[p] = 0
      BY <1>8
    <3> QED BY <2>3, <3>1, <3>2, <3>3, SumSupport
  <2>7. SumOver(z, DOMAIN back) = SumOver(back, DOMAIN back)
    <3>1. IsFiniteSet(DOMAIN back)
      BY <1>6, <1>7
    <3>2. \A p \in DOMAIN back : z[p] = back[p]
      BY <1>7, <1>8
    <3> QED BY <3>1, <3>2, SumSame
  <2> QED BY <2>4, <2>5, <2>6, <2>7 DEF Total
<1>16. /\ DOMAIN b.lots = L
       /\ \A t \in L : /\ b.lots[t].issued = a.lots[t].issued
                       /\ b.lots[t].remaining = a.lots[t].remaining + y[t]
  <2>1. PICK B : B = [t \in L |-> SumOver(back, {p \in DOMAIN back : p[1] = t})]
    OBVIOUS
  <2>2. \A t \in L : B[t] = y[t]
    BY <1>14, <2>1
  <2>3. b.lots = [t \in L |->
                   [issued    |-> a.lots[t].issued,
                    remaining |-> a.lots[t].remaining
                                    + SumOver(back, {p \in DOMAIN back : p[1] = t})]]
    BY <1>2 DEF ReturnToLots
  <2>4. ASSUME NEW t \in L
        PROVE  /\ b.lots[t].issued = a.lots[t].issued
               /\ b.lots[t].remaining = a.lots[t].remaining + y[t]
    <3>1. SumOver(back, {p \in DOMAIN back : p[1] = t}) = y[t]
      BY <1>14
    <3>2. b.lots[t] = [issued    |-> a.lots[t].issued,
                       remaining |-> a.lots[t].remaining
                                    + SumOver(back, {p \in DOMAIN back : p[1] = t})]
      BY <2>3
    <3> QED BY <3>1, <3>2
  <2> QED BY <2>3, <2>4
<1>17. /\ a.points \in Nat /\ a.ledger \in Seq(Rows) /\ L \subseteq Times
       /\ \A t \in L : a.lots[t].remaining \in Nat /\ a.lots[t].issued \in Nat
  BY <1>2 DEF IsAccount
<1>18. Linked(b)
  BY <1>1, <1>2, <1>3, <1>5, <1>11, <1>12, <1>16 DEF Linked
<1>19. ASSUME NEW t \in L
       PROVE  a.lots[t].issued = b.lots[t].remaining + SumOver(V, of(D, t))
  <2>1. a.lots[t].issued = a.lots[t].remaining + SumOver(R, of(D, t))
    BY <1>1, <1>2, <1>3, <1>4 DEF LotsPaid
  <2>2. /\ y[t] \in Nat /\ SumOver(V, of(D, t)) \in Nat
        /\ SumOver(R, of(D, t)) = SumOver(V, of(D, t)) + y[t]
    BY <1>14
  <2>3. b.lots[t].remaining = a.lots[t].remaining + y[t] /\ a.lots[t].remaining \in Nat
    BY <1>16, <1>17
  <2> HIDE DEF of
  <2> QED BY <2>1, <2>2, <2>3
<1>20. LotsPaid(b)
  BY <1>5, <1>11, <1>16, <1>19 DEF LotsPaid
<1>21. LotsBack(b)
  <2>1. PICK F : F = [t \in DOMAIN a.lots |-> a.lots[t].remaining]
    OBVIOUS
  <2>2. PICK G : G = [t \in DOMAIN b.lots |-> b.lots[t].remaining]
    OBVIOUS
  <2>3. DOMAIN F = L /\ DOMAIN G = L
    BY <1>2, <1>16, <2>1, <2>2
  <2>4. SumOver(F, L) = a.points
    BY <1>1, <2>1, <2>3 DEF LotsBack, Total
  <2>5. /\ \A t \in L : F[t] \in Int
        /\ \A t \in L : y[t] \in Int
        /\ \A t \in L : G[t] = F[t] + y[t]
    <3>1. \A t \in L : y[t] \in Nat
      BY <1>14
    <3>2. \A t \in L : F[t] = a.lots[t].remaining /\ F[t] \in Nat
      BY <1>2, <1>17, <2>1
    <3>3. \A t \in L : G[t] = F[t] + y[t]
      BY <1>16, <2>2, <3>2
    <3> QED BY <3>1, <3>2, <3>3
  <2>6. SumOver(G, L) = SumOver(F, L) + SumOver(y, L)
    BY <1>6, <2>5, SumAdded
  <2>7. b.points = SumOver(G, L)
    <3>1. b.points = a.points + SumOver(y, L)
      BY <1>15
    <3> QED BY <2>4, <2>6, <3>1
  <2> QED BY <2>2, <2>3, <2>7 DEF LotsBack, Total
<1>22. IsAccount(b, Rows, Times)
  <2>1. ASSUME NEW t \in L
        PROVE  b.lots[t].issued \in Nat /\ b.lots[t].remaining \in 0..b.lots[t].issued
    <3>1. b.lots[t].remaining \in Nat /\ SumOver(V, of(D, t)) \in Nat
      <4>1. y[t] \in Nat /\ SumOver(V, of(D, t)) \in Nat
        BY <1>14
      <4>2. b.lots[t].remaining = a.lots[t].remaining + y[t] /\ a.lots[t].remaining \in Nat
        BY <1>16, <1>17
      <4> QED BY <4>1, <4>2
    <3>2. b.lots[t].issued = b.lots[t].remaining + SumOver(V, of(D, t))
      BY <1>16, <1>19
    <3>3. PICK m \in Nat : m = SumOver(V, of(D, t))
      BY <3>1
    <3>4. PICK n \in Nat : n = b.lots[t].remaining
      BY <3>1
    <3>5. n + m \in Nat /\ n \in 0..(n + m)
      OBVIOUS
    <3>6. b.lots[t].issued = n + m
      BY <3>2, <3>3, <3>4
    <3> QED BY <3>4, <3>5, <3>6
  <2>2. b.points \in Nat
    BY <1>7, <1>17
  <2> QED BY <1>16, <1>17, <2>1, <2>2 DEF IsAccount
<1> QED BY <1>18, <1>20, <1>21, <1>22 DEF Kept

(***************************************************************************)
(* A restoration keeps the account true: the redemptions take back what    *)
(* they can, and the rest becomes a lot under a timestamp no lot has yet.  *)
(***************************************************************************)
LEMMA RestoreKept ==
  ASSUME NEW Rows, NEW Times, IsFiniteSet(Times), NEW a, NEW sale, NEW amount \in Nat \ {0},
         NEW back \in RestoreSplits(a, sale, amount), NEW row,
         IsAccount(a, Rows, Times), LedgerExplains(a), Kept(a),
         row.at \in Times, row.at \notin DOMAIN a.lots,
         LedgerRow("credit", amount, a.points + amount, row) \in Rows,
         NEW b, b = Restore(a, amount, row, back)
  PROVE  /\ IsAccount(b, Rows, Times) /\ LedgerExplains(b) /\ Kept(b)
         /\ b.ledger = Append(a.ledger, LedgerRow("credit", amount, a.points + amount, row))
         /\ DOMAIN b.lots \subseteq DOMAIN a.lots \cup {row.at}
<1>1. PICK left : left = amount - Total(back)
  OBVIOUS
<1>2. PICK r : r = LedgerRow("credit", amount, a.points + amount, row)
  OBVIOUS
<1>3. PICK lots : lots = ReturnToLots(a.lots, back)
  OBVIOUS
<1>4. PICK V : V = [p \in DOMAIN a.redemptions |->
                     IF p \in DOMAIN back THEN a.redemptions[p] - back[p]
                     ELSE a.redemptions[p]]
  OBVIOUS
<1>5. PICK m : m = [points |-> a.points + Total(back), ledger |-> a.ledger,
                    lots |-> lots, redemptions |-> V]
  OBVIOUS
<1>6. Kept(m) /\ IsAccount(m, Rows, Times)
  <2>1. /\ m.points = a.points + Total(back) /\ m.lots = ReturnToLots(a.lots, back)
        /\ m.ledger = a.ledger /\ m.redemptions = V
    BY <1>3, <1>5
  <2> QED BY <1>4, <2>1, ReturnedKept
<1>7. /\ b.points = a.points + amount /\ b.ledger = Append(a.ledger, r)
      /\ b.lots = IF left > 0 THEN IssueBonusLot(lots, row.at, left) ELSE lots
      /\ b.redemptions = V
  BY <1>1, <1>2, <1>3, <1>4 DEF Restore
<1>8. a.points \in Nat /\ a.ledger \in Seq(Rows)
  BY DEF IsAccount
<1>9. Total(back) \in Nat /\ left \in Nat
  <2>1. Linked(a) /\ \A Q \in SUBSET (DOMAIN a.redemptions) : IsFiniteSet(Q)
    BY RedemptionsFinite DEF Kept
  <2>2. Total(back) \in Nat /\ Total(back) <= amount
    BY <2>1, RestoreSplitFacts
  <2> QED BY <1>1, <2>2
<1>10. LedgerExplains(b)
  <2>1. r.after = a.points + amount /\ r.op = "credit" /\ r.amount = amount /\ r \in Rows
    BY <1>2 DEF LedgerRow
  <2>2. Signed(r) = amount
    BY <2>1 DEF Signed
  <2> QED BY <1>7, <1>8, <2>1, <2>2, AppendExplains
<1>11. Append(a.ledger, r) \in Seq(Rows) /\ Len(b.ledger) = Len(m.ledger) + 1
  <2>1. m.ledger = a.ledger /\ r \in Rows
    BY <1>2, <1>5
  <2> QED BY <1>7, <1>8, <2>1, AppendFacts
<1>12. DOMAIN lots = DOMAIN a.lots
  BY <1>3 DEF ReturnToLots
<1>13. m.points + left = a.points + amount
  BY <1>1, <1>5, <1>8, <1>9
<1>14. /\ m.lots = lots /\ m.redemptions = V /\ DOMAIN lots \subseteq Times
       /\ \A t \in DOMAIN lots :
            lots[t].issued \in Nat /\ lots[t].remaining \in 0..lots[t].issued
  BY <1>5, <1>6 DEF IsAccount
<1>15. CASE left > 0
  <2>1. b.lots = IssueBonusLot(m.lots, row.at, left)
    BY <1>7, <1>14, <1>15
  <2>2. left \in Nat \ {0}
    BY <1>9, <1>15
  <2>3. row.at \notin DOMAIN m.lots
    BY <1>12, <1>14
  <2>4. b.points = m.points + left /\ b.redemptions = m.redemptions
    BY <1>7, <1>13, <1>14
  <2>5. Kept(b)
    BY <1>6, <1>11, <2>1, <2>2, <2>3, <2>4, LotAdded
  <2>6. /\ DOMAIN b.lots \subseteq DOMAIN a.lots \cup {row.at} /\ DOMAIN b.lots \subseteq Times
        /\ \A t \in DOMAIN b.lots :
             b.lots[t].issued \in Nat /\ b.lots[t].remaining \in 0..b.lots[t].issued
    BY <1>12, <1>14, <2>1, <2>2 DEF IssueBonusLot
  <2>7. IsAccount(b, Rows, Times)
    BY <1>7, <1>8, <1>11, <2>6 DEF IsAccount
  <2> QED BY <1>2, <1>7, <1>10, <2>5, <2>6, <2>7
<1>16. CASE ~(left > 0)
  <2>1. b.lots = m.lots /\ b.points = m.points /\ b.redemptions = m.redemptions
    <3>1. left = 0
      BY <1>9, <1>16
    <3>2. m.points \in Nat
      BY <1>6 DEF IsAccount
    <3> QED BY <1>7, <1>13, <1>14, <1>16, <3>1, <3>2
  <2>2. Linked(b)
    <3>1. Linked(m) /\ m.ledger \in Seq(Rows)
      BY <1>6 DEF Kept, IsAccount
    <3> QED BY <1>11, <2>1, <3>1 DEF Linked
  <2>3. LotsBack(b) /\ LotsPaid(b)
    BY ZenonT(30), <1>6, <2>1 DEF Kept, LotsBack, LotsPaid
  <2>4. IsAccount(b, Rows, Times)
    BY <1>7, <1>8, <1>11, <1>14, <2>1 DEF IsAccount
  <2> QED BY <1>2, <1>7, <1>10, <1>12, <1>14, <2>1, <2>2, <2>3, <2>4 DEF Kept
<1> QED BY <1>15, <1>16
=============================================================================
