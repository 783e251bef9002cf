------------------------------- MODULE Sums -------------------------------
(***************************************************************************)
(* Facts about the sums SumFunctionOnSet takes over finite sets. The fold  *)
(* goes through the set in an order of its own; these lemmas say that the  *)
(* order does not matter, and what a sum becomes when its set or one of    *)
(* its terms changes. They are proved by well-founded induction on set     *)
(* inclusion, as the absence of a smallest exception (WFMin).              *)
(***************************************************************************)
EXTENDS Integers, Functions, FiniteSetTheorems, WellFoundedInduction, TLAPS

Picked(s) == CHOOSE x \in s : TRUE

(* What the fold computes: w[s] is the sum of f over s, one picked element after
   the other. *)
Adds(w, f, S) ==
    w = [s \in SUBSET S |-> IF s = {} THEN 0
                            ELSE f[CHOOSE x \in s : TRUE] + w[s \ {CHOOSE x \in s : TRUE}]]
AddsAt(w, f, s) == w[s] = IF s = {} THEN 0 ELSE f[Picked(s)] + w[s \ {Picked(s)}]

(* The smallest exception to what holds of all subsets of a finite set. *)
LEMMA SmallestException ==
    ASSUME NEW S, IsFiniteSet(S), NEW Bad, Bad \subseteq SUBSET S, Bad # {}
    PROVE  \E t \in Bad : \A u \in Bad : ~(u \subseteq t /\ u # t)
<1>1. Bad \subseteq FiniteSubsetsOf(S) BY FS_FiniteSubsetsOfFinite
<1>2. IsWellFoundedOn(StrictSubsetOrdering(S), FiniteSubsetsOf(S))
  BY FS_StrictSubsetOrderingWellFounded
<1>3. PICK t \in Bad : \A u \in Bad : <<u, t>> \notin StrictSubsetOrdering(S) BY <1>1, <1>2, WFMin
<1>4. ASSUME NEW u \in Bad, u \subseteq t, u # t PROVE FALSE
  <2>1. <<u, t>> \in StrictSubsetOrdering(S) BY <1>4 DEF StrictSubsetOrdering
  <2> QED BY <1>3, <2>1
<1> QED BY <1>4

LEMMA PickedIn ==
    ASSUME NEW s, s # {}
    PROVE  Picked(s) \in s
  BY DEF Picked

LEMMA SmallestNumber ==
    ASSUME NEW Bad, Bad \subseteq Nat, Bad # {}
    PROVE  \E m \in Bad : \A k \in Bad : ~(k < m)
<1>1. IsWellFoundedOn(OpToRel(<, Nat), Nat) BY NatLessThanWellFounded
<1>2. PICK m \in Bad : \A k \in Bad : <<k, m>> \notin OpToRel(<, Nat) BY <1>1, WFMin
<1>3. ASSUME NEW k \in Bad, k < m PROVE FALSE
  <2>1. <<k, m>> \in OpToRel(<, Nat) BY <1>3 DEF OpToRel
  <2> QED BY <1>2, <2>1
<1> QED BY <1>3

(* There is such a w for every finite set: were there a number n such that no w
   adds up the subsets of at most n elements, take the smallest. *)
LEMMA AddsExists ==
    ASSUME NEW S, IsFiniteSet(S), NEW f
    PROVE  \E w : Adds(w, f, S)
<1> DEFINE Small(n) == {s \in SUBSET S : Cardinality(s) <= n}
           Good(n) == \E w : \A s \in Small(n) : AddsAt(w, f, s)
           Bad == {n \in Nat : ~Good(n)}
<1>0. \A s \in SUBSET S : IsFiniteSet(s) /\ Cardinality(s) \in Nat /\ (Cardinality(s) = 0 <=> s = {})
  BY FS_Subset, FS_CardinalityType, FS_EmptySet
<1>1. ASSUME Bad # {} PROVE FALSE
  <2>1. PICK n \in Bad : \A k \in Bad : ~(k < n)
    <3>1. Bad \subseteq Nat OBVIOUS
    <3> HIDE DEF Bad
    <3> QED BY <1>1, <3>1, SmallestNumber
  <2>2. n \in Nat /\ ~Good(n) BY <2>1
  <2>3. CASE n = 0
    <3> DEFINE w == [s \in SUBSET S |-> 0]
    <3>1. \A s \in Small(n) : s = {} BY <1>0, <2>3
    <3>2. \A s \in Small(n) : AddsAt(w, f, s) BY <3>1 DEF AddsAt
    <3> QED BY <2>2, <3>2
  <2>4. CASE n # 0
    <3>1. n - 1 \in Nat /\ n - 1 < n BY <2>2, <2>4
    <3>2. Good(n - 1) BY <2>1, <3>1
    <3>3. PICK w : \A s \in Small(n - 1) : AddsAt(w, f, s) BY <3>2
    <3> DEFINE W == [s \in SUBSET S |-> IF s = {} THEN 0 ELSE f[Picked(s)] + w[s \ {Picked(s)}]]
    <3>4. ASSUME NEW s \in Small(n) PROVE AddsAt(W, f, s)
      <4>1. CASE s = {} BY <4>1 DEF AddsAt
      <4>2. CASE s # {}
        <5> DEFINE r == s \ {Picked(s)}
        <5>1. Picked(s) \in s BY <4>2, PickedIn
        <5>2. Cardinality(r) = Cardinality(s) - 1 BY <1>0, <5>1, FS_RemoveElement
        <5>3. r \in Small(n - 1) BY <1>0, <2>2, <5>2
        <5>4. AddsAt(w, f, r) BY <3>3, <5>3
        <5>5. W[r] = w[r] BY <5>3, <5>4 DEF AddsAt
        <5> QED BY <4>2, <5>5 DEF AddsAt
      <4> QED BY <4>1, <4>2
    <3> HIDE DEF W
    <3> QED BY <2>2, <3>4
  <2> QED BY <2>3, <2>4
<1>2. Good(Cardinality(S))
  <2>1. Cardinality(S) \in Nat BY FS_CardinalityType
  <2> QED BY <1>1, <2>1
<1>3. PICK w : \A s \in Small(Cardinality(S)) : AddsAt(w, f, s) BY <1>2
<1>4. \A s \in SUBSET S : AddsAt(w, f, s) BY <1>3, FS_Subset
<1> DEFINE W == [s \in SUBSET S |-> w[s]]
<1>5. \A s \in SUBSET S : W[s] = IF s = {} THEN 0 ELSE f[Picked(s)] + W[s \ {Picked(s)}]
  BY <1>4 DEF AddsAt
<1>6. Adds(W, f, S) BY <1>5 DEF Adds, Picked
<1> QED BY <1>6

(* Two folds that add up the same terms agree. *)
LEMMA AddsAgree ==
    ASSUME NEW S, NEW T, NEW f, NEW g, NEW w, NEW v, Adds(w, f, S), Adds(v, g, T),
           NEW U, IsFiniteSet(U), U \subseteq S, U \subseteq T, \A x \in U : f[x] = g[x]
    PROVE  w[U] = v[U]
<1> DEFINE Bad == {s \in SUBSET U : w[s] # v[s]}
<1>1. ASSUME Bad # {} PROVE FALSE
  <2>1. PICK t \in Bad : \A u \in Bad : ~(u \subseteq t /\ u # t)
    <3>1. Bad \subseteq SUBSET U OBVIOUS
    <3> HIDE DEF Bad
    <3> QED BY <1>1, <3>1, SmallestException
  <2>2. t \in SUBSET S /\ t \in SUBSET T OBVIOUS
  <2>3. AddsAt(w, f, t) /\ AddsAt(v, g, t) BY <2>2 DEF Adds, AddsAt, Picked
  <2>4. t # {} BY <2>3 DEF AddsAt
  <2>5. Picked(t) \in t BY <2>4, PickedIn
  <2>6. w[t \ {Picked(t)}] = v[t \ {Picked(t)}] BY <2>1, <2>5
  <2>7. f[Picked(t)] = g[Picked(t)] BY <2>5
  <2> QED BY <2>1, <2>3, <2>4, <2>6, <2>7 DEF AddsAt
<1> QED BY <1>1

(* The order does not matter: any element may be the last. *)
LEMMA AddsType ==
    ASSUME NEW S, IsFiniteSet(S), NEW f, \A x \in S : f[x] \in Int, NEW w, Adds(w, f, S)
    PROVE  \A s \in SUBSET S : w[s] \in Int
<1> DEFINE Bad == {s \in SUBSET S : w[s] \notin Int}
<1>1. ASSUME Bad # {} PROVE FALSE
  <2>1. PICK t \in Bad : \A u \in Bad : ~(u \subseteq t /\ u # t)
    <3>1. Bad \subseteq SUBSET S OBVIOUS
    <3> HIDE DEF Bad
    <3> QED BY <1>1, <3>1, SmallestException
  <2>2. AddsAt(w, f, t) BY DEF Adds, AddsAt, Picked
  <2>3. t # {} BY <2>2 DEF AddsAt
  <2>4. Picked(t) \in t BY <2>3, PickedIn
  <2>5. w[t \ {Picked(t)}] \in Int BY <2>1, <2>4
  <2>6. f[Picked(t)] \in Int BY <2>4
  <2>7. w[t] \in Int BY <2>2, <2>3, <2>5, <2>6 DEF AddsAt
  <2> QED BY <2>7
<1> QED BY <1>1

LEMMA AnyLast ==
    ASSUME NEW S, IsFiniteSet(S), NEW f, \A x \in S : f[x] \in Int, NEW w, Adds(w, f, S),
           NEW last \in S
    PROVE  w[S] = f[last] + w[S \ {last}]
<1> DEFINE Bad == {s \in SUBSET S : \E y \in s : w[s] # f[y] + w[s \ {y}]}
<1>0. \A s \in SUBSET S : AddsAt(w, f, s) /\ w[s] \in Int
  <2>1. \A s \in SUBSET S : AddsAt(w, f, s) BY DEF Adds, AddsAt, Picked
  <2>2. \A s \in SUBSET S : w[s] \in Int BY AddsType
  <2> QED BY <2>1, <2>2
<1>1. ASSUME Bad # {} PROVE FALSE
  <2>1. PICK t \in Bad : \A u \in Bad : ~(u \subseteq t /\ u # t)
    <3>1. Bad \subseteq SUBSET S OBVIOUS
    <3> HIDE DEF Bad
    <3> QED BY <1>1, <3>1, SmallestException
  <2>2. PICK y \in t : w[t] # f[y] + w[t \ {y}] OBVIOUS
  <2> DEFINE x == Picked(t)
  <2>3. x \in t BY PickedIn
  <2>4. w[t] = f[x] + w[t \ {x}] BY <1>0 DEF AddsAt
  <2>5. x # y BY <2>2, <2>4
  <2> HIDE DEF x
  <2>6. t \ {x} \in SUBSET S /\ t \ {x} \notin Bad BY <2>1, <2>3
  <2>7. w[t \ {x}] = f[y] + w[(t \ {x}) \ {y}] BY <2>5, <2>6
  <2>8. t \ {y} \in SUBSET S /\ t \ {y} \notin Bad BY <2>1, <2>2
  <2>9. w[t \ {y}] = f[x] + w[(t \ {y}) \ {x}] BY <2>3, <2>5, <2>8
  <2>10. (t \ {x}) \ {y} = (t \ {y}) \ {x} OBVIOUS
  <2> DEFINE c == w[(t \ {x}) \ {y}]
  <2>11. f[x] \in Int /\ f[y] \in Int /\ c \in Int BY <1>0, <2>3
  <2>12. w[t] = f[x] + (f[y] + c) BY <2>4, <2>7
  <2>13. w[t \ {y}] = f[x] + c BY <2>9, <2>10
  <2> HIDE DEF c
  <2> QED BY <2>2, <2>11, <2>12, <2>13
<1>2. S \notin Bad BY <1>1
<1> QED BY <1>2
----------------------------------------------------------------------------
LEMMA SumFold ==
    ASSUME NEW S, IsFiniteSet(S), NEW f
    PROVE  \E w : Adds(w, f, S) /\ SumFunctionOnSet(f, S) = w[S]
<1> DEFINE w == CHOOSE w : Adds(w, f, S)
<1>1. Adds(w, f, S) BY AddsExists
<1>2. SumFunctionOnSet(f, S) = w[S] BY DEF SumFunctionOnSet, FoldFunctionOnSet, MapThenFoldSet, Adds
<1> QED BY <1>1, <1>2

(* Sums depend on the terms alone. *)
LEMMA SumSame ==
    ASSUME NEW S, IsFiniteSet(S), NEW f, NEW g, \A x \in S : f[x] = g[x]
    PROVE  SumFunctionOnSet(f, S) = SumFunctionOnSet(g, S)
<1>1. PICK w : Adds(w, f, S) /\ SumFunctionOnSet(f, S) = w[S] BY SumFold
<1>2. PICK v : Adds(v, g, S) /\ SumFunctionOnSet(g, S) = v[S] BY SumFold
<1>3. w[S] = v[S] BY <1>1, <1>2, AddsAgree
<1> QED BY <1>1, <1>2, <1>3

LEMMA SumEmpty ==
    ASSUME NEW f
    PROVE  SumFunctionOnSet(f, {}) = 0
<1>1. PICK w : Adds(w, f, {}) /\ SumFunctionOnSet(f, {}) = w[{}] BY SumFold, FS_EmptySet
<1> QED BY <1>1 DEF Adds

LEMMA SumInt ==
    ASSUME NEW S, IsFiniteSet(S), NEW f, \A x \in S : f[x] \in Int
    PROVE  SumFunctionOnSet(f, S) \in Int
<1>1. PICK w : Adds(w, f, S) /\ SumFunctionOnSet(f, S) = w[S] BY SumFold
<1> QED BY <1>1, AddsType

(* Taking one element out. *)
LEMMA SumWithout ==
    ASSUME NEW S, IsFiniteSet(S), NEW f, \A x \in S : f[x] \in Int, NEW y \in S
    PROVE  SumFunctionOnSet(f, S) = f[y] + SumFunctionOnSet(f, S \ {y})
<1>1. PICK w : Adds(w, f, S) /\ SumFunctionOnSet(f, S) = w[S] BY SumFold
<1>0. IsFiniteSet(S \ {y}) BY FS_RemoveElement
<1>2. PICK v : Adds(v, f, S \ {y}) /\ SumFunctionOnSet(f, S \ {y}) = v[S \ {y}] BY <1>0, SumFold
<1>3. w[S] = f[y] + w[S \ {y}] BY <1>1, AnyLast
<1>4. w[S \ {y}] = v[S \ {y}] BY <1>0, <1>1, <1>2, AddsAgree
<1> QED BY <1>1, <1>2, <1>3, <1>4

(* Putting one in. *)
LEMMA SumWith ==
    ASSUME NEW S, IsFiniteSet(S), NEW y, y \notin S, NEW f, \A x \in S \cup {y} : f[x] \in Int
    PROVE  SumFunctionOnSet(f, S \cup {y}) = f[y] + SumFunctionOnSet(f, S)
<1>1. IsFiniteSet(S \cup {y}) BY FS_AddElement
<1>2. SumFunctionOnSet(f, S \cup {y}) = f[y] + SumFunctionOnSet(f, (S \cup {y}) \ {y}) BY <1>1, SumWithout
<1>3. (S \cup {y}) \ {y} = S OBVIOUS
<1> QED BY <1>2, <1>3

(* Changing one term. *)
LEMMA SumChange ==
    ASSUME NEW S, IsFiniteSet(S), NEW f, NEW g, NEW y \in S,
           \A x \in S : f[x] \in Int /\ g[x] \in Int, \A x \in S \ {y} : f[x] = g[x]
    PROVE  SumFunctionOnSet(g, S) = SumFunctionOnSet(f, S) - f[y] + g[y]
<1>0. IsFiniteSet(S \ {y}) BY FS_RemoveElement
<1>1. SumFunctionOnSet(f, S) = f[y] + SumFunctionOnSet(f, S \ {y}) BY SumWithout
<1>2. SumFunctionOnSet(g, S) = g[y] + SumFunctionOnSet(g, S \ {y}) BY SumWithout
<1>3. SumFunctionOnSet(f, S \ {y}) = SumFunctionOnSet(g, S \ {y}) BY <1>0, SumSame
<1>4. SumFunctionOnSet(f, S \ {y}) \in Int BY <1>0, SumInt
<1>5. f[y] \in Int /\ g[y] \in Int OBVIOUS
<1> QED BY <1>1, <1>2, <1>3, <1>4, <1>5

(* Sums keep to the order of their terms. *)
LEMMA SumAtMost ==
    ASSUME NEW S, IsFiniteSet(S), NEW f, NEW g, \A x \in S : f[x] \in Int /\ g[x] \in Int /\ f[x] <= g[x]
    PROVE  SumFunctionOnSet(f, S) <= SumFunctionOnSet(g, S)
<1> DEFINE Bad == {s \in SUBSET S : ~(SumFunctionOnSet(f, s) <= SumFunctionOnSet(g, s))}
<1>1. ASSUME Bad # {} PROVE FALSE
  <2>1. PICK t \in Bad : \A u \in Bad : ~(u \subseteq t /\ u # t)
    <3>1. Bad \subseteq SUBSET S OBVIOUS
    <3> HIDE DEF Bad
    <3> QED BY <1>1, <3>1, SmallestException
  <2>0. IsFiniteSet(t) /\ t \in SUBSET S BY <2>1, FS_Subset
  <2>2. t # {}
    <3>1. SumFunctionOnSet(f, {}) = 0 /\ SumFunctionOnSet(g, {}) = 0 BY SumEmpty
    <3>2. SumFunctionOnSet(f, {}) <= SumFunctionOnSet(g, {}) BY <3>1
    <3> QED BY <2>1, <3>2
  <2>3. PICK y \in t : TRUE BY <2>2
  <2>4. IsFiniteSet(t \ {y}) BY <2>0, FS_RemoveElement
  <2>5. SumFunctionOnSet(f, t) = f[y] + SumFunctionOnSet(f, t \ {y}) BY <2>0, SumWithout
  <2>6. SumFunctionOnSet(g, t) = g[y] + SumFunctionOnSet(g, t \ {y}) BY <2>0, SumWithout
  <2>7. SumFunctionOnSet(f, t \ {y}) <= SumFunctionOnSet(g, t \ {y}) BY <2>1, <2>3
  <2>8. SumFunctionOnSet(f, t \ {y}) \in Int /\ SumFunctionOnSet(g, t \ {y}) \in Int BY <2>0, <2>4, SumInt
  <2>9. f[y] \in Int /\ g[y] \in Int /\ f[y] <= g[y] BY <2>0
  <2>10. SumFunctionOnSet(f, t) <= SumFunctionOnSet(g, t) BY <2>5, <2>6, <2>7, <2>8, <2>9
  <2> QED BY <2>1, <2>10
<1> QED BY <1>1

LEMMA SumZero ==
    ASSUME NEW S, IsFiniteSet(S), NEW f, \A x \in S : f[x] = 0
    PROVE  SumFunctionOnSet(f, S) = 0
<1> DEFINE Bad == {s \in SUBSET S : SumFunctionOnSet(f, s) # 0}
<1>1. ASSUME Bad # {} PROVE FALSE
  <2>1. PICK t \in Bad : \A u \in Bad : ~(u \subseteq t /\ u # t)
    <3>1. Bad \subseteq SUBSET S OBVIOUS
    <3> HIDE DEF Bad
    <3> QED BY <1>1, <3>1, SmallestException
  <2>0. IsFiniteSet(t) /\ t \in SUBSET S BY <2>1, FS_Subset
  <2>2. t # {} BY <2>1, SumEmpty
  <2>3. PICK y \in t : TRUE BY <2>2
  <2>5. SumFunctionOnSet(f, t) = f[y] + SumFunctionOnSet(f, t \ {y}) BY <2>0, SumWithout
  <2>7. SumFunctionOnSet(f, t \ {y}) = 0 /\ f[y] = 0 BY <2>1, <2>3
  <2>8. SumFunctionOnSet(f, t) = 0 BY <2>5, <2>7
  <2> QED BY <2>1, <2>8
<1> QED BY <1>1

LEMMA SumNat ==
    ASSUME NEW S, IsFiniteSet(S), NEW f, \A x \in S : f[x] \in Nat
    PROVE  SumFunctionOnSet(f, S) \in Nat
<1> DEFINE z == [x \in S |-> 0]
<1>1. SumFunctionOnSet(z, S) = 0 BY SumZero
<1>2. SumFunctionOnSet(z, S) <= SumFunctionOnSet(f, S) BY SumAtMost
<1>3. SumFunctionOnSet(f, S) \in Int BY SumInt
<1> QED BY <1>1, <1>2, <1>3

(* Sums are linear. *)
LEMMA SumLinear ==
    ASSUME NEW S, IsFiniteSet(S), NEW f, NEW g, NEW h, NEW c \in Int,
           \A x \in S : f[x] \in Int /\ g[x] \in Int /\ h[x] = f[x] + c * g[x]
    PROVE  SumFunctionOnSet(h, S) = SumFunctionOnSet(f, S) + c * SumFunctionOnSet(g, S)
<1> DEFINE F(s) == SumFunctionOnSet(f, s)
           G(s) == SumFunctionOnSet(g, s)
           H(s) == SumFunctionOnSet(h, s)
           Bad == {s \in SUBSET S : H(s) # F(s) + c * G(s)}
<1>0. \A x \in S : h[x] \in Int
  <2>1. ASSUME NEW x \in S PROVE h[x] \in Int
    <3>1. f[x] \in Int /\ g[x] \in Int /\ h[x] = f[x] + c * g[x] OBVIOUS
    <3>2. c * g[x] \in Int BY <3>1
    <3> QED BY <3>1, <3>2
  <2> QED BY <2>1
<1>1. ASSUME Bad # {} PROVE FALSE
  <2>1. PICK t \in Bad : \A u \in Bad : ~(u \subseteq t /\ u # t)
    <3>1. Bad \subseteq SUBSET S OBVIOUS
    <3> HIDE DEF Bad
    <3> QED BY <1>1, <3>1, SmallestException
  <2>2. t \subseteq S /\ IsFiniteSet(t) BY FS_Subset
  <2>3. CASE t = {}
    <3>1. F(t) = 0 /\ G(t) = 0 /\ H(t) = 0 BY <2>3, SumEmpty
    <3>2. c * 0 = 0 OBVIOUS
    <3> QED BY <3>1, <3>2
  <2>4. CASE t # {}
    <3>1. PICK y \in t : TRUE BY <2>4
    <3>2. t \ {y} \notin Bad BY <2>1, <3>1
    <3>3. t \ {y} \in SUBSET S /\ IsFiniteSet(t \ {y}) BY <2>2, FS_RemoveElement
    <3>4. H(t \ {y}) = F(t \ {y}) + c * G(t \ {y}) BY <3>2, <3>3
    <3>5. F(t) = f[y] + F(t \ {y}) /\ G(t) = g[y] + G(t \ {y}) /\ H(t) = h[y] + H(t \ {y})
      <4>1. \A x \in t : f[x] \in Int /\ g[x] \in Int /\ h[x] \in Int BY <1>0, <2>2
      <4> QED BY <2>2, <4>1, SumWithout
    <3>6. F(t \ {y}) \in Int /\ G(t \ {y}) \in Int
      <4>1. \A x \in t \ {y} : f[x] \in Int /\ g[x] \in Int BY <2>2
      <4> QED BY <3>3, <4>1, SumInt
    <3>7. f[y] \in Int /\ g[y] \in Int /\ h[y] = f[y] + c * g[y] BY <2>2
    <3>8. H(t) # F(t) + c * G(t) OBVIOUS
    <3> HIDE DEF F, G, H, Bad
    <3>9. \A p, q \in Int : c * (p + q) = c * p + c * q OBVIOUS
    <3>10. c * G(t) = c * g[y] + c * G(t \ {y}) BY <3>5, <3>6, <3>7, <3>9
    <3>11. c * g[y] \in Int /\ c * G(t \ {y}) \in Int BY <3>6, <3>7
    <3>12. H(t) = F(t) + c * G(t) BY <3>4, <3>5, <3>6, <3>7, <3>10, <3>11
    <3> QED BY <3>8, <3>12
  <2> QED BY <2>3, <2>4
<1>2. S \notin Bad BY <1>1
<1> QED BY <1>2

(* The sum over a part, and over the rest. *)
LEMMA SumSplit ==
    ASSUME NEW S, IsFiniteSet(S), NEW f, \A x \in S : f[x] \in Int, NEW T, T \subseteq S
    PROVE  SumFunctionOnSet(f, S) = SumFunctionOnSet(f, T) + SumFunctionOnSet(f, S \ T)
<1> DEFINE F(s) == SumFunctionOnSet(f, s)
           Bad == {s \in SUBSET (S \ T) : F(T \cup s) # F(T) + F(s)}
<1>0. IsFiniteSet(T) /\ IsFiniteSet(S \ T) BY FS_Subset
<1>1. ASSUME Bad # {} PROVE FALSE
  <2>1. PICK t \in Bad : \A u \in Bad : ~(u \subseteq t /\ u # t)
    <3>1. Bad \subseteq SUBSET (S \ T) OBVIOUS
    <3> HIDE DEF Bad
    <3> QED BY ONLY <1>0, <1>1, <3>1, SmallestException
  <2>2. t \subseteq S \ T /\ IsFiniteSet(t) BY <1>0, FS_Subset
  <2>3. F(T) \in Int BY <1>0, SumInt
  <2>4. CASE t = {}
    <3>1. F(t) = 0 BY <2>4, SumEmpty
    <3>2. T \cup t = T BY <2>4
    <3>3. F(T \cup t) # F(T) + F(t) OBVIOUS
    <3>4. F(T \cup t) = F(T) BY <3>2
    <3> HIDE DEF Bad, F
    <3>5. F(T) + 0 = F(T) BY <2>3
    <3> QED BY ONLY <3>1, <3>3, <3>4, <3>5
  <2>5. CASE t # {}
    <3>1. PICK y \in t : TRUE BY <2>5
    <3>2. t \ {y} \notin Bad BY <2>1, <3>1
    <3>3. F(T \cup (t \ {y})) = F(T) + F(t \ {y}) BY <2>2, <3>2
    <3>4. F(t) = f[y] + F(t \ {y}) BY <2>2, SumWithout
    <3>5. F(T \cup t) = f[y] + F(T \cup (t \ {y}))
      <4>1. IsFiniteSet(T \cup t) BY <1>0, <2>2, FS_Union
      <4>2. (T \cup t) \ {y} = T \cup (t \ {y}) BY <2>2
      <4>3. \A x \in T \cup t : f[x] \in Int BY <2>2
      <4>4. F(T \cup t) = f[y] + F((T \cup t) \ {y}) BY <4>1, <4>3, SumWithout
      <4> QED BY <4>2, <4>4
    <3>6. f[y] \in Int BY <2>2
    <3>7. F(t \ {y}) \in Int
      <4>1. IsFiniteSet(t \ {y}) BY <2>2, FS_RemoveElement
      <4> QED BY <2>2, <4>1, SumInt
    <3>8. F(T \cup t) # F(T) + F(t) OBVIOUS
    <3> HIDE DEF Bad, F
    <3> QED BY <2>3, <3>3, <3>4, <3>5, <3>6, <3>7, <3>8
  <2> QED BY <2>4, <2>5
<1>2. S \ T \notin Bad BY <1>1
<1>3. T \cup (S \ T) = S OBVIOUS
<1> QED BY <1>2, <1>3

(* More terms, none of them negative. *)
LEMMA SumOfPart ==
    ASSUME NEW S, IsFiniteSet(S), NEW f, \A x \in S : f[x] \in Nat, NEW T, T \subseteq S
    PROVE  SumFunctionOnSet(f, T) <= SumFunctionOnSet(f, S)
<1>0. IsFiniteSet(T) /\ IsFiniteSet(S \ T) BY FS_Subset
<1>1. SumFunctionOnSet(f, S) = SumFunctionOnSet(f, T) + SumFunctionOnSet(f, S \ T) BY SumSplit
<1>2. SumFunctionOnSet(f, T) \in Nat /\ SumFunctionOnSet(f, S \ T) \in Nat BY <1>0, SumNat
<1> QED BY <1>1, <1>2
===========================================================================
