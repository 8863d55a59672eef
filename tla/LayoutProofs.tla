---------------------------- MODULE LayoutProofs ----------------------------
(***************************************************************************)
(* Proofs about the layout of a native window, for any number of panes, any *)
(* sizes and any drags.  A tree is kept by every operation: Tree says how   *)
(* its cells are named, Laid that the children of each box stand in a row   *)
(* and fill it, or overflow it with an empty one among them, Ample that     *)
(* none is empty where there was room.  LayoutInv, the inductive invariant, *)
(* adds what is saved, what awaits a shell and the sizes that were sent.    *)
(***************************************************************************)
EXTENDS Layout, FiniteSetTheorems, SequenceTheorems, WellFoundedInduction, TLAPS

---------------------------------------------------------------------------
(* Arithmetic of the shares, and sets with a least member. *)

(* A set of numbers has a least one.                                       *)
LEMMA LeastNumber ==
  ASSUME NEW T, T \subseteq Nat, T # {}
  PROVE  \E x \in T : \A y \in T : x <= y
<1> DEFINE R == {x \in Nat \X Nat : x[1] < x[2]}
<1>1. IsWellFoundedOn(R, Nat)
  <2>1. R = OpToRel(<, Nat)
    BY DEF OpToRel
  <2> QED BY <2>1, NatLessThanWellFounded
<1>2. PICK x \in T : \A y \in T : ~ (<<y, x>> \in R)
  BY <1>1, WFMin
<1>3. ASSUME NEW y \in T PROVE x <= y
  <2>1. ~ (<<y, x>> \in R) /\ x \in Nat /\ y \in Nat
    BY <1>2
  <2> QED BY <2>1
<1> QED BY <1>3

(* Among subsets of a finite set there is a minimal and a maximal one.     *)
LEMMA SmallestSet ==
  ASSUME NEW P, IsFiniteSet(P), NEW T, T \subseteq SUBSET P, T # {}
  PROVE  \E x \in T : \A y \in T : y \subseteq x => y = x
<1> DEFINE R == StrictSubsetOrdering(P)
<1>1. IsWellFoundedOn(R, SUBSET P)
  BY FS_StrictSubsetOrderingWellFounded, FS_FiniteSubsetsOfFinite
<1>2. PICK x \in T : \A y \in T : ~ (<<y, x>> \in R)
  BY <1>1, WFMin
<1>3. ASSUME NEW y \in T, y \subseteq x PROVE y = x
  <2>1. ~ (<<y, x>> \in R) /\ x \in SUBSET P /\ y \in SUBSET P
    BY <1>2
  <2> QED BY <1>3, <2>1 DEF StrictSubsetOrdering
<1> QED BY <1>3

(* Among subsets of a finite set there is a maximal one.                   *)
LEMMA LargestSet ==
  ASSUME NEW P, IsFiniteSet(P), NEW T, T \subseteq SUBSET P, T # {}
  PROVE  \E x \in T : \A y \in T : x \subseteq y => y = x
<1> DEFINE U == {P \ x : x \in T}
<1>1. U \subseteq SUBSET P /\ U # {}
  <2>1. ASSUME NEW u \in U PROVE u \in SUBSET P
    OBVIOUS
  <2>2. PICK x : x \in T
    OBVIOUS
  <2>3. P \ x \in U
    BY <2>2
  <2> HIDE DEF U
  <2> QED BY <2>1, <2>3
<1>2. PICK u \in U : \A y \in U : y \subseteq u => y = u
  <2> HIDE DEF U
  <2> QED BY <1>1, SmallestSet
<1>3. PICK x \in T : u = P \ x
  OBVIOUS
<1>4. ASSUME NEW y \in T, x \subseteq y PROVE y = x
  <2>1. P \ y \in U /\ P \ y \subseteq u
    BY <1>3, <1>4
  <2>2. P \ y = P \ x /\ x \subseteq P /\ y \subseteq P
    BY <1>2, <1>3, <2>1
  <2>3. P \ (P \ y) = P \ (P \ x)
    BY <2>2
  <2> QED BY <2>2, <2>3
<1> QED BY <1>4

(* Naturals up to a bound, one after the other.                            *)
LEMMA UpTo ==
  ASSUME NEW N \in Nat, NEW S, 0 \in S, \A n \in 0..N : n \in S /\ n < N => n + 1 \in S
  PROVE  \A n \in 0..N : n \in S
<1> DEFINE T == {n \in 0..N : n \notin S}
<1>1. SUFFICES ASSUME T # {} PROVE FALSE
  OBVIOUS
<1>2. PICK x \in T : \A y \in T : x <= y
  <2>1. T \subseteq Nat
    OBVIOUS
  <2> HIDE DEF T
  <2> QED BY <1>1, <2>1, LeastNumber
<1>3. x \in 1..N
  BY <1>2
<1>4. x - 1 \in 0..N /\ x - 1 < N /\ (x - 1) + 1 = x /\ ~(x <= x - 1)
  BY <1>3
<1>5. x - 1 \in S
  BY <1>2, <1>4
<1> QED BY <1>2, <1>4, <1>5

(* A function on 0..N may be defined from 0 upwards.                       *)
LEMMA Iterated ==
  ASSUME NEW N \in Nat, NEW g \in [1..N -> [Nat -> Nat]]
  PROVE  \E f \in [0..N -> Nat] : f[0] = 0 /\ \A i \in 1..N : f[i] = g[i][f[i - 1]]
<1> DEFINE Good(f, M) == f \in [0..M -> Nat] /\ \A i \in 0..M : f[i] = IF i = 0 THEN 0 ELSE g[i][f[i - 1]]
           S == {M \in 0..N : \E f : Good(f, M)}
<1>1. 0 \in S
  <2> DEFINE f == [i \in 0..0 |-> 0]
  <2>1. Good(f, 0) /\ 0 \in 0..N
    OBVIOUS
  <2> HIDE DEF f, Good
  <2> QED BY <2>1
<1>2. ASSUME NEW M \in 0..N, M \in S, M < N PROVE M + 1 \in S
  <2>1. PICK f : Good(f, M)
    BY <1>2
  <2> DEFINE h == [i \in 0..(M + 1) |-> IF i = M + 1 THEN g[i][f[M]] ELSE f[i]]
  <2>2. M \in 0..M /\ M + 1 \in 1..N /\ f[M] \in Nat /\ M + 1 \in 0..N
    BY <2>1, <1>2
  <2>3. g[M + 1][f[M]] \in Nat
    BY <2>2
  <2>4. ASSUME NEW i \in 0..(M + 1)
        PROVE  h[i] \in Nat /\ h[i] = IF i = 0 THEN 0 ELSE g[i][h[i - 1]]
    <3>1. CASE i = M + 1
      <4>1. i # 0 /\ i - 1 = M /\ M \in 0..(M + 1) /\ M # M + 1
        BY <3>1, <1>2
      <4>2. h[i - 1] = f[M]
        BY <4>1
      <4> QED BY <2>3, <3>1, <4>1, <4>2
    <3>2. CASE i # M + 1
      <4>1. i \in 0..M
        BY <3>2, <1>2
      <4>2. h[i] = f[i] /\ f[i] \in Nat /\ f[i] = IF i = 0 THEN 0 ELSE g[i][f[i - 1]]
        BY <2>1, <3>2, <4>1
      <4>3. i # 0 => i - 1 \in 0..(M + 1) /\ i - 1 # M + 1
        BY <4>1
      <4> QED BY <4>2, <4>3
    <3> QED BY <3>1, <3>2
  <2>5. Good(h, M + 1)
    <3>1. h \in [0..(M + 1) -> Nat]
      BY <2>4
    <3> QED BY <2>4, <3>1
  <2> HIDE DEF h, Good
  <2> QED BY <2>2, <2>5
<1>3. N \in S
  <2>1. \A M \in 0..N : M \in S /\ M < N => M + 1 \in S
    BY <1>2
  <2> HIDE DEF S
  <2>2. \A M \in 0..N : M \in S
    BY <1>1, <2>1, UpTo
  <2> QED BY <2>2
<1>4. PICK f : Good(f, N)
  BY <1>3
<1>5. 0 \in 0..N /\ \A i \in 1..N : i \in 0..N /\ i # 0
  OBVIOUS
<1> QED BY <1>4, <1>5

---------------------------------------------------------------------------
(* The children of a box.                                                  *)

(* The sum of no lengths is 0, and each length adds itself.                *)
LEMMA TotalIs ==
  ASSUME NEW L \in Seq(Nat)
  PROVE  /\ Total(L) \in Nat
         /\ \E f \in [0..Len(L) -> Nat] :
              /\ f[0] = 0 /\ Total(L) = f[Len(L)]
              /\ \A i \in 1..Len(L) : f[i] = f[i - 1] + L[i]
<1> DEFINE N == Len(L)
           Sum(f) == [i \in 0..N |-> IF i = 0 THEN 0 ELSE f[i - 1] + L[i]]
           g == [i \in 1..N |-> [x \in Nat |-> x + L[i]]]
<1>1. N \in Nat /\ \A i \in 1..N : L[i] \in Nat
  BY LenProperties, ElementOfSeq
<1>2. g \in [1..N -> [Nat -> Nat]]
  BY <1>1
<1>3. PICK f \in [0..N -> Nat] : f[0] = 0 /\ \A i \in 1..N : f[i] = g[i][f[i - 1]]
  <2> HIDE DEF g, N
  <2> QED BY <1>1, <1>2, Iterated
<1>4. f = Sum(f)
  <2>1. ASSUME NEW i \in 1..N PROVE g[i][f[i - 1]] = f[i - 1] + L[i]
    <3>1. i - 1 \in 0..N
      BY <1>1
    <3> QED BY <3>1
  <2> HIDE DEF g
  <2>2. \A i \in 0..N : i # 0 => i \in 1..N
    BY <1>1
  <2>3. f = [i \in 0..N |-> f[i]]
    BY <1>3
  <2> HIDE DEF N
  <2>4. \A i \in 0..N : f[i] = IF i = 0 THEN 0 ELSE f[i - 1] + L[i]
    BY <1>3, <2>1, <2>2
  <2> QED BY <2>3, <2>4
<1> DEFINE s == CHOOSE h : h = Sum(h)
<1>5. s = Sum(s)
  <2> HIDE DEF Sum
  <2> QED BY <1>4
<1>6. Total(L) = s[N]
  BY DEF Total
<1> HIDE DEF s
<1>7. \A i \in 0..N : s[i] = IF i = 0 THEN 0 ELSE s[i - 1] + L[i]
  BY <1>5
<1> DEFINE T == {i \in 0..N : s[i] \in Nat}
<1>8. \A i \in 0..N : i \in T
  <2>1. 0 \in T
    BY <1>1, <1>7
  <2>2. ASSUME NEW i \in 0..N, i \in T, i < N PROVE i + 1 \in T
    <3>1. i + 1 \in 0..N /\ i + 1 \in 1..N /\ (i + 1) - 1 = i /\ i + 1 # 0
      BY <2>2, <1>1
    <3>2. s[i + 1] = s[i] + L[i + 1]
      BY <1>7, <3>1
    <3> QED BY <1>1, <2>2, <3>1, <3>2
  <2> HIDE DEF T
  <2> QED BY <1>1, <2>1, <2>2, UpTo
<1>9. s \in [0..N -> Nat]
  BY <1>5, <1>8
<1>10. s[0] = 0 /\ s[N] \in Nat /\ \A i \in 1..N : s[i] = s[i - 1] + L[i]
  <2>1. 0 \in 0..N /\ N \in 0..N /\ \A i \in 1..N : i \in 0..N /\ i # 0
    BY <1>1
  <2> HIDE DEF N
  <2> QED BY <1>7, <1>9, <2>1
<1> QED BY <1>6, <1>9, <1>10

ShareOf(L, space, i, e) == Share(L, Larger(1, Total(L)), space, i, Minus(space, e))

(* A share is a number of cells, and one at least but for the last child.  *)
LEMMA ShareType ==
  ASSUME NEW L \in Seq(Nat), NEW space \in Nat, NEW i \in 1..Len(L), NEW e \in Nat
  PROVE  /\ ShareOf(L, space, i, e) \in Nat
         /\ i = Len(L) => ShareOf(L, space, i, e) = Minus(space, e)
         /\ i < Len(L) => /\ ShareOf(L, space, i, e) >= 1
                          /\ ShareOf(L, space, i, e) <= Larger(1, Minus(Minus(space, e), Len(L) - i))
<1> DEFINE rest == Minus(space, e)
           top == Larger(1, Minus(rest, Len(L) - i))
           k == Ideal(L[i], Larger(1, Total(L)), space)
<1>1. Len(L) \in Nat /\ L[i] \in Nat /\ Total(L) \in Nat
  BY LenProperties, ElementOfSeq, TotalIs
<1>2. rest \in Nat /\ top \in Nat /\ top >= 1 /\ Larger(1, Total(L)) \in Nat \ {0}
  BY <1>1 DEF Minus, Larger
<1>3. k \in Int
  <2>1. ASSUME NEW a \in Nat, NEW b \in Nat, NEW c \in Nat \ {0} PROVE (a * b + c \div 2) \div c \in Int
    <3>1. a * b \in Nat /\ c \div 2 \in Nat
      OBVIOUS
    <3> QED BY <3>1
  <2> QED BY <1>1, <1>2, <2>1 DEF Ideal
<1>4. ShareOf(L, space, i, e) = IF i = Len(L) THEN rest ELSE Clamp(k, 1, top)
  BY DEF ShareOf, Share
<1> HIDE DEF k, top, rest
<1> QED BY <1>1, <1>2, <1>3, <1>4 DEF Clamp, top, rest

(* Where child i ends is where the one before it ends and its share.       *)
LEMMA EndsIs ==
  ASSUME NEW L \in Seq(Nat), NEW space \in Nat
  PROVE  /\ Ends(L, space) \in [0..Len(L) -> Nat]
         /\ Ends(L, space)[0] = 0
         /\ \A i \in 1..Len(L) :
              Ends(L, space)[i] = Ends(L, space)[i - 1] + ShareOf(L, space, i, Ends(L, space)[i - 1])
<1> DEFINE N == Len(L)
           End0(f) == [i \in 0..N |-> IF i = 0 THEN 0
                         ELSE f[i - 1] + Share(L, Larger(1, Total(L)), space, i, Minus(space, f[i - 1]))]
           End1(f) == [i \in 0..N |-> IF i = 0 THEN 0 ELSE f[i - 1] + ShareOf(L, space, i, f[i - 1])]
           g == [i \in 1..N |-> [x \in Nat |-> x + ShareOf(L, space, i, x)]]
<1>1. N \in Nat
  BY LenProperties
<1>0. \A i \in 1..N, x \in Nat : ShareOf(L, space, i, x) \in Nat
  BY ShareType
<1>2. g \in [1..N -> [Nat -> Nat]]
  <2>1. ASSUME NEW i \in 1..N, NEW x \in Nat PROVE x + ShareOf(L, space, i, x) \in Nat
    <3>1. ShareOf(L, space, i, x) \in Nat
      BY <1>0
    <3> QED BY <3>1
  <2>2. \A i \in 1..N : [x \in Nat |-> x + ShareOf(L, space, i, x)] \in [Nat -> Nat]
    BY <2>1
  <2> QED BY <2>2
<1>3. PICK f \in [0..N -> Nat] : f[0] = 0 /\ \A i \in 1..N : f[i] = g[i][f[i - 1]]
  <2> HIDE DEF g, N
  <2> QED BY <1>1, <1>2, Iterated
<1>4. f = End1(f)
  <2>1. ASSUME NEW i \in 1..N PROVE g[i][f[i - 1]] = f[i - 1] + ShareOf(L, space, i, f[i - 1])
    <3>1. i - 1 \in 0..N
      BY <1>1
    <3> QED BY <3>1
  <2> HIDE DEF g
  <2>2. \A i \in 0..N : i # 0 => i \in 1..N
    BY <1>1
  <2>3. f = [i \in 0..N |-> f[i]]
    BY <1>3
  <2> HIDE DEF N
  <2>4. \A i \in 0..N : f[i] = IF i = 0 THEN 0 ELSE f[i - 1] + ShareOf(L, space, i, f[i - 1])
    BY <1>3, <2>1, <2>2
  <2> QED BY <2>3, <2>4
<1>a. \A h : End0(h) = End1(h)
  BY DEF ShareOf
<1> DEFINE s == CHOOSE h : h = End0(h)
<1>5. s = End0(s)
  <2>1. f = End0(f)
    BY <1>4, <1>a
  <2> HIDE DEF End0
  <2> QED BY <2>1
<1>6. Ends(L, space) = s
  BY DEF Ends
<1>b. s = End1(s)
  BY <1>5, <1>a
<1> HIDE DEF s, End0
<1>7. \A i \in 0..N : s[i] = IF i = 0 THEN 0 ELSE s[i - 1] + ShareOf(L, space, i, s[i - 1])
  BY <1>b
<1> DEFINE T == {i \in 0..N : s[i] \in Nat}
<1>8. \A i \in 0..N : i \in T
  <2>1. 0 \in T
    BY <1>1, <1>7
  <2>2. ASSUME NEW i \in 0..N, i \in T, i < N PROVE i + 1 \in T
    <3>1. i + 1 \in 0..N /\ i + 1 \in 1..N /\ (i + 1) - 1 = i /\ i + 1 # 0
      BY <2>2, <1>1
    <3>2. s[i + 1] = s[i] + ShareOf(L, space, i + 1, s[i])
      BY <1>7, <3>1
    <3>3. s[i] \in Nat /\ ShareOf(L, space, i + 1, s[i]) \in Nat
      BY <1>0, <2>2, <3>1
    <3> QED BY <3>1, <3>2, <3>3
  <2> HIDE DEF T
  <2> QED BY <1>1, <2>1, <2>2, UpTo
<1>9. s \in [0..N -> Nat]
  BY <1>b, <1>8
<1> QED BY <1>1, <1>6, <1>7, <1>9

(* The children that precede the last one get a cell or more.              *)
LEMMA EndsGrow ==
  ASSUME NEW L \in Seq(Nat), NEW space \in Nat, NEW i \in 1..Len(L)
  PROVE  LET e == Ends(L, space)
         IN  /\ e[i] \in Nat /\ e[i - 1] \in Nat /\ e[i] - e[i - 1] = ShareOf(L, space, i, e[i - 1])
             /\ e[i - 1] <= e[i] /\ (i < Len(L) => e[i - 1] < e[i])
<1> DEFINE e == Ends(L, space)
<1>1. Len(L) \in Nat
  BY LenProperties
<1>2. i \in 0..Len(L) /\ i - 1 \in 0..Len(L)
  BY <1>1
<1>3. e[i] \in Nat /\ e[i - 1] \in Nat /\ e[i] = e[i - 1] + ShareOf(L, space, i, e[i - 1])
  <2> HIDE DEF e
  <2>1. e \in [0..Len(L) -> Nat] /\ e[i] = e[i - 1] + ShareOf(L, space, i, e[i - 1])
    BY EndsIs DEF e
  <2> QED BY <1>2, <2>1
<1>4. /\ ShareOf(L, space, i, e[i - 1]) \in Nat
      /\ i < Len(L) => ShareOf(L, space, i, e[i - 1]) >= 1
  BY <1>3, ShareType
<1> HIDE DEF e
<1>5. /\ e[i] - e[i - 1] = ShareOf(L, space, i, e[i - 1])
      /\ e[i - 1] <= e[i] /\ (i < Len(L) => e[i - 1] < e[i])
  <2>1. \A x, y, z \in Nat : x = y + z => x - y = z /\ y <= x /\ (z >= 1 => y < x)
    OBVIOUS
  <2> QED BY <1>3, <1>4, <2>1
<1> QED BY <1>3, <1>5 DEF e

(* Room for all: each has a cell and the last one ends with the box.       *)
LEMMA EndsFit ==
  ASSUME NEW L \in Seq(Nat), NEW space \in Nat, 1 <= Len(L), Len(L) <= space
  PROVE  LET e == Ends(L, space)
         IN  /\ e[Len(L)] = space
             /\ \A i \in 0..Len(L) : i < Len(L) => e[i] <= space - (Len(L) - i)
             /\ \A i \in 1..Len(L) : e[i - 1] < e[i]
<1> DEFINE e == Ends(L, space)
           N == Len(L)
           T == {i \in 0..N : i < N => e[i] <= space - (N - i)}
<1>1. N \in Nat /\ 1 <= N /\ N <= space
  BY LenProperties
<1>2. e[0] = 0 /\ \A i \in 0..N : e[i] \in Nat
  <2>1. e \in [0..N -> Nat] /\ e[0] = 0
    BY EndsIs
  <2> HIDE DEF e, N
  <2> QED BY <2>1
<1>3. 0 \in T
  <2> HIDE DEF e, N
  <2> QED BY <1>1, <1>2
<1>4. ASSUME NEW i \in 0..N, i \in T, i < N PROVE i + 1 \in T
  <2>1. i + 1 \in 0..N /\ i + 1 \in 1..N /\ (i + 1) - 1 = i
    BY <1>1, <1>4
  <2>2. SUFFICES ASSUME i + 1 < N PROVE e[i + 1] <= space - (N - (i + 1))
    BY <2>1
  <2>3. e[i + 1] - e[i] = ShareOf(L, space, i + 1, e[i])
    BY <2>1, EndsGrow
  <2>4. ShareOf(L, space, i + 1, e[i]) <= Larger(1, Minus(Minus(space, e[i]), N - (i + 1)))
    BY <1>2, <2>1, <2>2, ShareType
  <2>5. e[i] \in Nat /\ e[i + 1] \in Nat /\ e[i] <= space - (N - i)
    BY <1>2, <1>4, <2>1
  <2>6. Minus(space, e[i]) = space - e[i]
    <3> HIDE DEF e, N
    <3> QED BY <1>1, <1>4, <2>5 DEF Minus, Larger
  <2>7. Minus(space - e[i], N - (i + 1)) = space - e[i] - N + i + 1 /\ space - e[i] - N + i + 1 >= 1
    <3> HIDE DEF e, N
    <3> QED BY <1>1, <1>4, <2>5 DEF Minus, Larger
  <2>8. ShareOf(L, space, i + 1, e[i]) <= space - e[i] - N + i + 1
    <3> HIDE DEF e, N
    <3> QED BY <1>1, <1>4, <2>4, <2>5, <2>6, <2>7 DEF Larger
  <2> HIDE DEF e, N
  <2> QED BY <1>1, <1>4, <2>3, <2>5, <2>8
<1>5. \A i \in 0..N : i \in T
  <2>1. \A i \in 0..N : i \in T /\ i < N => i + 1 \in T
    BY <1>4
  <2> HIDE DEF T, N
  <2> QED BY <1>1, <1>3, <2>1, UpTo
<1>6. e[N] = space /\ e[N - 1] < e[N]
  <2>1. N - 1 \in 0..N /\ N - 1 < N /\ N \in 1..N /\ N \in 0..N
    BY <1>1
  <2>2. e[N - 1] <= space - 1 /\ e[N - 1] \in Nat /\ e[N] \in Nat
    <3>1. e[N - 1] <= space - (N - (N - 1))
      BY <1>5, <2>1
    <3>2. e[N - 1] \in Nat /\ e[N] \in Nat
      BY <1>2, <2>1
    <3> HIDE DEF e, N
    <3> QED BY <1>1, <3>1, <3>2
  <2>3. e[N] - e[N - 1] = ShareOf(L, space, N, e[N - 1])
    BY <2>1, EndsGrow
  <2>4. ShareOf(L, space, N, e[N - 1]) = Minus(space, e[N - 1])
    BY <2>1, <2>2, ShareType
  <2> HIDE DEF e, N
  <2> QED BY <1>1, <2>2, <2>3, <2>4 DEF Minus, Larger
<1>7. ASSUME NEW i \in 1..N PROVE e[i - 1] < e[i]
  <2>1. CASE i = N
    BY <1>6, <2>1
  <2>2. CASE i # N
    <3>1. i < N
      BY <1>1, <2>2
    <3> QED BY <3>1, EndsGrow
  <2> QED BY <2>1, <2>2
<1>8. \A i \in 0..N : i < N => e[i] <= space - (N - i)
  BY <1>5
<1> HIDE DEF e, N
<1> QED BY <1>6, <1>7, <1>8 DEF e, N

(* Too little room: a cell each, and none for the last one, whatever they had. *)
LEMMA EndsTight ==
  ASSUME NEW L \in Seq(Nat), NEW space \in Nat, space < Len(L)
  PROVE  \A i \in 0..Len(L) : Ends(L, space)[i] = IF i < Len(L) THEN i ELSE Len(L) - 1
<1> DEFINE e == Ends(L, space)
           N == Len(L)
           T == {i \in 0..N : e[i] = IF i < N THEN i ELSE N - 1}
<1>1. N \in Nat /\ space < N
  BY LenProperties
<1>2. e[0] = 0
  BY EndsIs
<1>3. 0 \in T
  <2> HIDE DEF e, N
  <2> QED BY <1>1, <1>2
<1>4. ASSUME NEW i \in 0..N, i \in T, i < N PROVE i + 1 \in T
  <2>1. i + 1 \in 0..N /\ i + 1 \in 1..N /\ (i + 1) - 1 = i /\ i \in Nat
    BY <1>1, <1>4
  <2>2. e[i] = i
    BY <1>4
  <2>3. e[i + 1] \in Nat /\ e[i] \in Nat /\ e[i + 1] - e[i] = ShareOf(L, space, i + 1, e[i])
    BY <2>1, EndsGrow
  <2>4. ShareOf(L, space, i + 1, i) = IF i + 1 < N THEN 1 ELSE 0
    <3>1. CASE i + 1 < N
      <4>1. /\ ShareOf(L, space, i + 1, i) \in Nat
            /\ ShareOf(L, space, i + 1, i) >= 1
            /\ ShareOf(L, space, i + 1, i) <= Larger(1, Minus(Minus(space, i), N - (i + 1)))
        BY <2>1, <3>1, ShareType
      <4>2. Minus(Minus(space, i), N - (i + 1)) = 0
        <5> HIDE DEF N
        <5> QED BY <1>1, <2>1, <3>1 DEF Minus, Larger
      <4> HIDE DEF N
      <4> QED BY <3>1, <4>1, <4>2 DEF Larger
    <3>2. CASE i + 1 = N
      <4>1. ShareOf(L, space, i + 1, i) = Minus(space, i)
        BY <2>1, <3>2, ShareType
      <4> HIDE DEF N
      <4> QED BY <1>1, <2>1, <3>2, <4>1 DEF Minus, Larger
    <3> HIDE DEF N
    <3> QED BY <1>1, <1>4, <3>1, <3>2
  <2> HIDE DEF e, N
  <2>5. e[i + 1] = IF i + 1 < N THEN i + 1 ELSE N - 1
    BY <1>1, <1>4, <2>1, <2>2, <2>3, <2>4
  <2> QED BY <2>1, <2>5
<1>5. \A i \in 0..N : i \in T
  <2>1. \A i \in 0..N : i \in T /\ i < N => i + 1 \in T
    BY <1>4
  <2> HIDE DEF T, N
  <2> QED BY <1>1, <1>3, <2>1, UpTo
<1> QED BY <1>5

(* Shares of what they had already.                                        *)
LEMMA IdealIsExact ==
  ASSUME NEW k \in Nat, NEW s \in Nat \ {0}
  PROVE  Ideal(k, s, s) = k
<1> DEFINE h == s \div 2
<1>1. h \in Nat /\ h < s
  OBVIOUS
<1>2. k * s \in Nat
  OBVIOUS
<1> HIDE DEF h
<1>3. (k * s + h) \div s = k
  <2> DEFINE q == (k * s + h) \div s
             r == (k * s + h) % s
  <2>1. q \in Int /\ r \in 0..(s - 1) /\ k * s + h = s * q + r
    BY <1>1, <1>2
  <2> HIDE DEF q, r
  <2>2. s * (k - q) = r - h
    BY <1>1, <1>2, <2>1
  <2>3. r - h < s /\ r - h > -s
    BY <1>1, <2>1
  <2>4. CASE k - q >= 1
    <3>1. s * (k - q) >= s
      BY <2>1, <2>4
    <3> QED BY <2>1, <2>2, <2>3, <3>1
  <2>5. CASE k - q <= -1
    <3>1. s * (k - q) <= -s
      BY <2>1, <2>5
    <3> QED BY <2>1, <2>2, <2>3, <3>1
  <2>6. CASE k - q = 0
    <3>1. q = k
      BY <2>1, <2>6
    <3> QED BY <3>1 DEF q
  <2> QED BY <2>1, <2>4, <2>5, <2>6
<1> QED BY <1>3 DEF Ideal, h

(* Children that fill the box, a cell or more each, keep their places.     *)
LEMMA EndsKeep ==
  ASSUME NEW L \in Seq(Nat), NEW space \in Nat, 1 <= Len(L),
         NEW f, \A i \in 0..Len(L) : f[i] \in Nat,
         f[0] = 0, f[Len(L)] = space,
         \A i \in 1..Len(L) : f[i] = f[i - 1] + L[i] /\ L[i] >= 1
  PROVE  /\ Total(L) = space /\ Len(L) <= space
         /\ \A i \in 0..Len(L) : Ends(L, space)[i] = f[i]
<1> DEFINE N == Len(L)
           e == Ends(L, space)
<1>1. N \in Nat /\ 1 <= N /\ \A i \in 1..N : L[i] \in Nat
  BY LenProperties, ElementOfSeq
<1>2. PICK g \in [0..N -> Nat] : g[0] = 0 /\ Total(L) = g[N] /\ \A i \in 1..N : g[i] = g[i - 1] + L[i]
  BY TotalIs
<1>3. Total(L) = space
  <2> DEFINE T == {i \in 0..N : g[i] = f[i]}
  <2>1. 0 \in T
    BY <1>1, <1>2
  <2>2. ASSUME NEW i \in 0..N, i \in T, i < N PROVE i + 1 \in T
    <3>1. i + 1 \in 0..N /\ i + 1 \in 1..N /\ (i + 1) - 1 = i
      BY <1>1, <2>2
    <3>2. g[i + 1] = g[i] + L[i + 1] /\ f[i + 1] = f[i] + L[i + 1]
      BY <1>2, <3>1
    <3> HIDE DEF N
    <3> QED BY <2>2, <3>1, <3>2
  <2>3. \A i \in 0..N : i \in T
    <3> HIDE DEF T, N
    <3> QED BY <1>1, <2>1, <2>2, UpTo
  <2>4. N \in 0..N
    BY <1>1
  <2> QED BY <1>2, <2>3, <2>4
<1>4. \A i \in 0..N : f[i] <= space - (N - i)
  <2> DEFINE T == {i \in 0..N : f[N - i] <= space - i}
  <2>1. 0 \in T
    <3> HIDE DEF N
    <3>1. N - 0 = N
      BY <1>1
    <3>2. f[N] = space
      BY DEF N
    <3> QED BY <1>1, <3>1, <3>2
  <2>2. ASSUME NEW i \in 0..N, i \in T, i < N PROVE i + 1 \in T
    <3> DEFINE j == N - i
    <3>1. j \in 1..N /\ j \in 0..N /\ j - 1 \in 0..N /\ N - (i + 1) = j - 1 /\ i + 1 \in 0..N /\ i \in Nat
      BY <1>1, <2>2
    <3>2. f[j] <= space - i /\ f[j] \in Nat /\ f[j - 1] \in Nat
      BY <2>2, <3>1
    <3>3. f[j] = f[j - 1] + L[j] /\ L[j] >= 1 /\ L[j] \in Nat
      BY <1>1, <3>1
    <3> HIDE DEF N, j
    <3>4. f[j - 1] <= space - (i + 1)
      BY <3>1, <3>2, <3>3
    <3> QED BY <3>1, <3>4
  <2>3. \A i \in 0..N : i \in T
    <3> HIDE DEF T, N
    <3> QED BY <1>1, <2>1, <2>2, UpTo
  <2>4. ASSUME NEW i \in 0..N PROVE f[i] <= space - (N - i)
    <3>1. N - i \in 0..N /\ N - (N - i) = i
      BY <1>1
    <3>2. f[N - (N - i)] <= space - (N - i)
      BY <2>3, <3>1
    <3> QED BY <3>1, <3>2
  <2> QED BY <2>4
<1>5. N <= space
  <2>1. f[0] <= space - (N - 0)
    BY <1>1, <1>4
  <2> HIDE DEF N
  <2> QED BY <1>1, <2>1
<1>6. ASSUME NEW i \in 1..N PROVE ShareOf(L, space, i, f[i - 1]) = L[i]
  <2>1. i - 1 \in 0..N /\ i \in 0..N /\ i \in Nat
    BY <1>1
  <2>2. f[i] \in Nat /\ f[i - 1] \in Nat /\ f[i] = f[i - 1] + L[i] /\ L[i] >= 1 /\ f[i] <= space - (N - i) /\ L[i] \in Nat
    BY <1>1, <1>4, <2>1
  <2>3. Larger(1, Total(L)) = space
    <3> HIDE DEF N
    <3> QED BY <1>1, <1>3, <1>5 DEF Larger
  <2>4. space \in Nat \ {0}
    <3> HIDE DEF N
    <3> QED BY <1>1, <1>5
  <2>5. Ideal(L[i], space, space) = L[i]
    BY <2>2, <2>4, IdealIsExact
  <2>a. \A x, y, z \in Nat : x = y + z /\ x <= space - (N - i) =>
          /\ Minus(space, y) = space - y
          /\ Minus(space - y, N - i) = space - y - (N - i)
          /\ z <= space - y - (N - i)
          /\ z >= 1 => Larger(1, space - y - (N - i)) = space - y - (N - i)
    <3>1. i <= N
      BY <1>1
    <3> HIDE DEF N
    <3> QED BY <1>1, <2>1, <3>1 DEF Minus, Larger
  <2>6. /\ Minus(space, f[i - 1]) = space - f[i - 1]
        /\ Minus(space - f[i - 1], N - i) = space - f[i - 1] - (N - i)
        /\ L[i] <= space - f[i - 1] - (N - i)
        /\ Larger(1, space - f[i - 1] - (N - i)) = space - f[i - 1] - (N - i)
    <3> HIDE DEF N
    <3> QED BY <2>2, <2>a
  <2>7. CASE i = N
    <3>1. f[i] = space
      BY <2>7
    <3>2. ShareOf(L, space, i, f[i - 1]) = space - f[i - 1]
      BY <2>6, <2>7 DEF ShareOf, Share
    <3> QED BY <2>2, <3>1, <3>2
  <2>8. CASE i # N
    <3>1. ShareOf(L, space, i, f[i - 1])
            = Clamp(L[i], 1, Larger(1, Minus(space - f[i - 1], N - i)))
      BY <2>3, <2>5, <2>6, <2>8 DEF ShareOf, Share
    <3>2. \A x, y \in Int : 1 <= x /\ x <= y => Clamp(x, 1, y) = x
      BY DEF Clamp
    <3>3. space - f[i - 1] - (N - i) \in Int /\ L[i] \in Int
      <4>1. N \in Nat /\ i \in Nat /\ f[i - 1] \in Nat /\ L[i] \in Nat
        BY <1>1, <2>1, <2>2
      <4>2. \A x, y, z, u \in Nat : x - y - (z - u) \in Int /\ u \in Int
        OBVIOUS
      <4> HIDE DEF N
      <4> QED BY <4>1, <4>2
    <3> HIDE DEF N
    <3> QED BY <2>2, <2>6, <3>1, <3>2, <3>3
  <2> QED BY <2>7, <2>8
<1>7. \A i \in 0..N : e[i] = f[i]
  <2> DEFINE T == {i \in 0..N : e[i] = f[i]}
  <2>1. 0 \in T
    <3>1. e[0] = 0
      BY EndsIs
    <3> HIDE DEF e
    <3> QED BY <1>1, <3>1
  <2>2. ASSUME NEW i \in 0..N, i \in T, i < N PROVE i + 1 \in T
    <3>1. i + 1 \in 0..N /\ i + 1 \in 1..N /\ (i + 1) - 1 = i
      BY <1>1, <2>2
    <3>2. e[i + 1] - e[i] = ShareOf(L, space, i + 1, e[i])
      BY <3>1, EndsGrow
    <3>5. e[i + 1] \in Nat /\ e[i] \in Nat
      <4>1. e \in [0..N -> Nat]
        BY EndsIs
      <4> HIDE DEF e, N
      <4> QED BY <3>1, <4>1
    <3>3. e[i] = f[i] /\ ShareOf(L, space, i + 1, f[i]) = L[i + 1] /\ f[i + 1] = f[i] + L[i + 1]
      BY <1>6, <2>2, <3>1
    <3> HIDE DEF N, e
    <3>4. L[i + 1] \in Nat
      BY <1>1, <3>1
    <3> QED BY <3>1, <3>2, <3>3, <3>4, <3>5
  <2>3. \A i \in 0..N : i \in T
    <3> HIDE DEF T, N
    <3> QED BY <1>1, <2>1, <2>2, UpTo
  <2> QED BY <2>3
<1> QED BY <1>3, <1>5, <1>7

(* Laying out twice is laying out once.                                    *)
LEMMA EndsTwice ==
  ASSUME NEW L \in Seq(Nat), NEW space \in Nat, 1 <= Len(L),
         NEW M \in Seq(Nat), Len(M) = Len(L),
         \A i \in 1..Len(L) : M[i] = Ends(L, space)[i] - Ends(L, space)[i - 1]
  PROVE  \A i \in 0..Len(L) : Ends(M, space)[i] = Ends(L, space)[i]
<1> DEFINE N == Len(L)
           e == Ends(L, space)
<1>1. N \in Nat
  BY LenProperties
<1>2. CASE space < N
  BY <1>1, <1>2, EndsTight
<1>3. CASE N <= space
  <2>1. e \in [0..N -> Nat] /\ e[0] = 0 /\ e[N] = space /\ \A i \in 1..N : e[i - 1] < e[i]
    BY <1>3, EndsIs, EndsFit
  <2> HIDE DEF e
  <2>2. ASSUME NEW i \in 1..N PROVE e[i] = e[i - 1] + M[i] /\ M[i] >= 1
    <3>1. M[i] = e[i] - e[i - 1] /\ e[i - 1] < e[i]
      BY <2>1 DEF e
    <3>2. i \in 0..N /\ i - 1 \in 0..N
      BY <1>1
    <3>3. e[i] \in Nat /\ e[i - 1] \in Nat
      BY <2>1, <3>2
    <3>4. \A x, y, z \in Nat : z = x - y /\ y < x => x = y + z /\ z >= 1
      OBVIOUS
    <3>5. M[i] \in Nat
      BY ElementOfSeq
    <3> QED BY <3>1, <3>3, <3>4, <3>5
  <2>3. \A i \in 0..Len(M) : Ends(M, space)[i] = e[i]
    BY <2>1, <2>2, EndsKeep
  <2> QED BY <2>3 DEF e
<1> QED BY <1>1, <1>2, <1>3

---------------------------------------------------------------------------
(* What a layout tree is. *)

(* A layout tree.                                                          *)
Cell(P) == [kind : Axes \cup {"leaf"}, kids : Seq(SUBSET P), at : [Axes -> Nat], len : [Axes -> Nat]]
Kids(t, b) == t[b].kids
Count(t, b) == Len(t[b].kids)

Typed(t) ==
  /\ IsFiniteSet(PanesOf(t)) /\ PanesOf(t) \in DOMAIN t /\ {} \notin DOMAIN t
  /\ t \in [DOMAIN t -> Cell(PanesOf(t))]
Leafy(t) ==
  /\ \A p \in PanesOf(t) : {p} \in DOMAIN t /\ t[{p}].kind = "leaf"
  /\ \A n \in DOMAIN t : t[n].kind = "leaf" => t[n].kids = <<>> /\ \E p \in PanesOf(t) : n = {p}
Kin(t) ==
  \A b \in Boxes(t) :
    /\ Count(t, b) >= 2
    /\ \A i \in 1..Count(t, b) : Kids(t, b)[i] \in DOMAIN t /\ Kids(t, b)[i] \subseteq b
    /\ \A p \in b : \E i \in 1..Count(t, b) : p \in Kids(t, b)[i]
    /\ \A i, j \in 1..Count(t, b) : i # j => Kids(t, b)[i] \cap Kids(t, b)[j] = {}
Nested(t) ==
  \A b \in Boxes(t), n \in DOMAIN t :
    n \subseteq b /\ n # b => \E i \in 1..Count(t, b) : n \subseteq Kids(t, b)[i]
Tree(t) == Typed(t) /\ Leafy(t) /\ Kin(t) /\ Nested(t)

(* A cell has a name, a place and a kind, and only boxes have children.    *)
LEMMA CellFacts ==
  ASSUME NEW t, Tree(t), NEW n \in DOMAIN t
  PROVE  /\ t[n] \in Cell(PanesOf(t)) /\ n # {} /\ n \subseteq PanesOf(t) /\ IsFiniteSet(n)
         /\ t[n].at \in [Axes -> Nat] /\ t[n].len \in [Axes -> Nat]
         /\ t[n].kind \in Axes \cup {"leaf"}
         /\ t[n].kids \in Seq(SUBSET PanesOf(t)) /\ Count(t, n) \in Nat
         /\ DOMAIN t[n].kids = 1..Count(t, n)
         /\ (n \in Boxes(t) <=> t[n].kind # "leaf") /\ (n \in Boxes(t) => t[n].kind \in Axes)
         /\ (n \notin Boxes(t) => Count(t, n) = 0)
<1>1. t[n] \in Cell(PanesOf(t)) /\ n # {} /\ n \subseteq PanesOf(t) /\ IsFiniteSet(PanesOf(t))
  BY DEF Tree, Typed, PanesOf
<1>2. /\ t[n].at \in [Axes -> Nat] /\ t[n].len \in [Axes -> Nat]
      /\ t[n].kind \in Axes \cup {"leaf"} /\ t[n].kids \in Seq(SUBSET PanesOf(t))
  BY <1>1 DEF Cell
<1>3. Len(t[n].kids) \in Nat /\ DOMAIN t[n].kids = 1..Len(t[n].kids)
  BY <1>2, LenProperties
<1>4. n \in Boxes(t) <=> t[n].kind # "leaf"
  BY DEF Boxes
<1>5. ASSUME n \notin Boxes(t) PROVE Count(t, n) = 0
  <2>1. t[n].kids = <<>>
    BY <1>4, <1>5 DEF Tree, Leafy
  <2> QED BY <2>1 DEF Count
<1>6. IsFiniteSet(n)
  BY <1>1, FS_Subset
<1> QED BY <1>1, <1>2, <1>3, <1>4, <1>5, <1>6 DEF Count

(* A child is a smaller cell than its box.                                 *)
LEMMA KidFacts ==
  ASSUME NEW t, Tree(t), NEW b \in Boxes(t), NEW i \in 1..Count(t, b)
  PROVE  /\ b \in DOMAIN t /\ Count(t, b) >= 2
         /\ Kids(t, b)[i] \in DOMAIN t /\ Kids(t, b)[i] \subseteq b
         /\ Kids(t, b)[i] # b /\ Kids(t, b)[i] # {}
<1>1. b \in DOMAIN t
  BY DEF Boxes
<1>2. /\ Count(t, b) >= 2 /\ Count(t, b) \in Nat
      /\ \A j \in 1..Count(t, b) : Kids(t, b)[j] \in DOMAIN t /\ Kids(t, b)[j] \subseteq b
      /\ \A j, k \in 1..Count(t, b) : j # k => Kids(t, b)[j] \cap Kids(t, b)[k] = {}
  BY <1>1, CellFacts DEF Tree, Kin
<1>3. PICK j \in 1..Count(t, b) : j # i
  <2>1. 1 \in 1..Count(t, b) /\ 2 \in 1..Count(t, b)
    BY <1>2
  <2> QED BY <2>1
<1>4. \A n \in DOMAIN t : n # {}
  BY CellFacts
<1>5. Kids(t, b)[i] # b
  BY <1>2, <1>3, <1>4
<1> QED BY <1>1, <1>2, <1>4, <1>5

(* Two cells with a pane in common are one in the other.                   *)
LEMMA Laminar ==
  ASSUME NEW t, Tree(t), NEW m \in DOMAIN t, NEW n \in DOMAIN t, NEW p, p \in m, p \in n
  PROVE  m \subseteq n \/ n \subseteq m
<1> DEFINE T == {b \in DOMAIN t : m \subseteq b /\ n \subseteq b}
<1>1. PanesOf(t) \in T /\ T \subseteq SUBSET PanesOf(t) /\ IsFiniteSet(PanesOf(t))
  <2>1. \A k \in DOMAIN t : k \subseteq PanesOf(t)
    BY CellFacts
  <2> QED BY <2>1 DEF Tree, Typed
<1>2. PICK b \in T : \A y \in T : y \subseteq b => y = b
  <2> HIDE DEF T
  <2> QED BY <1>1, SmallestSet
<1>3. CASE b = m \/ b = n
  BY <1>2, <1>3
<1>4. CASE b # m /\ b # n
  <2>1. b \in Boxes(t)
    <3>1. ~(\E q : b = {q})
      BY <1>2, <1>4
    <3> QED BY <3>1, <1>2 DEF Tree, Leafy, Boxes
  <2>2. PICK i \in 1..Count(t, b) : m \subseteq Kids(t, b)[i]
    BY <1>2, <1>4, <2>1 DEF Tree, Nested
  <2>3. PICK j \in 1..Count(t, b) : n \subseteq Kids(t, b)[j]
    BY <1>2, <1>4, <2>1 DEF Tree, Nested
  <2>4. i = j
    BY <2>1, <2>2, <2>3 DEF Tree, Kin
  <2>5. Kids(t, b)[i] \in DOMAIN t /\ Kids(t, b)[i] \subseteq b /\ Kids(t, b)[i] # b
    BY <2>1, KidFacts
  <2>6. Kids(t, b)[i] \in T
    BY <2>2, <2>3, <2>4, <2>5
  <2> QED BY <1>2, <2>5, <2>6
<1> QED BY <1>3, <1>4

(* Every cell but the root has one parent.                                 *)
LEMMA ParentIs ==
  ASSUME NEW t, Tree(t), NEW n \in DOMAIN t
  PROVE  /\ n # PanesOf(t) =>
              /\ Parent(t, n) \in Boxes(t)
              /\ \E i \in 1..Count(t, Parent(t, n)) : Kids(t, Parent(t, n))[i] = n
         /\ \A b \in Boxes(t) : \A i \in 1..Count(t, b) : Kids(t, b)[i] = n => Parent(t, n) = b
<1>1. ASSUME n # PanesOf(t)
      PROVE  \E b \in Boxes(t) : \E i \in 1..Count(t, b) : Kids(t, b)[i] = n
  <2> DEFINE T == {b \in DOMAIN t : n \subseteq b /\ b # n}
  <2>1. PanesOf(t) \in T /\ T \subseteq SUBSET PanesOf(t) /\ IsFiniteSet(PanesOf(t))
    <3>1. \A k \in DOMAIN t : k \subseteq PanesOf(t)
      BY CellFacts
    <3> QED BY <1>1, <3>1 DEF Tree, Typed
  <2>2. PICK b \in T : \A y \in T : y \subseteq b => y = b
    <3> HIDE DEF T
    <3> QED BY <2>1, SmallestSet
  <2>3. b \in Boxes(t)
    <3>1. n # {}
      BY CellFacts
    <3>2. ~(\E q : b = {q})
      BY <2>2, <3>1
    <3> QED BY <2>2, <3>2 DEF Tree, Leafy, Boxes
  <2>4. PICK i \in 1..Count(t, b) : n \subseteq Kids(t, b)[i]
    BY <2>2, <2>3 DEF Tree, Nested
  <2>5. Kids(t, b)[i] \in DOMAIN t /\ Kids(t, b)[i] \subseteq b /\ Kids(t, b)[i] # b
    BY <2>3, KidFacts
  <2>6. Kids(t, b)[i] = n
    BY <2>2, <2>4, <2>5
  <2> QED BY <2>3, <2>6
<1>2. ASSUME NEW b \in Boxes(t), NEW i \in 1..Count(t, b), Kids(t, b)[i] = n,
             NEW c \in Boxes(t), NEW j \in 1..Count(t, c), Kids(t, c)[j] = n,
             b \subseteq c
      PROVE  b = c
  <2>1. SUFFICES ASSUME b # c PROVE FALSE
    OBVIOUS
  <2>2. n # {} /\ n \subseteq b /\ n # b /\ b \in DOMAIN t
    BY <1>2, KidFacts
  <2>3. PICK k \in 1..Count(t, c) : b \subseteq Kids(t, c)[k]
    BY <1>2, <2>1, <2>2 DEF Tree, Nested
  <2>4. k = j
    BY <1>2, <2>2, <2>3 DEF Tree, Kin
  <2> QED BY <1>2, <2>2, <2>3, <2>4
<1>3. ASSUME NEW b \in Boxes(t), NEW i \in 1..Count(t, b), Kids(t, b)[i] = n,
             NEW c \in Boxes(t), NEW j \in 1..Count(t, c), Kids(t, c)[j] = n
      PROVE  b = c
  <2>1. n # {} /\ n \subseteq b /\ n \subseteq c /\ b \in DOMAIN t /\ c \in DOMAIN t
    BY <1>3, KidFacts
  <2>2. b \subseteq c \/ c \subseteq b
    BY <2>1, Laminar
  <2> QED BY <1>2, <1>3, <2>2
<1>4. \A b \in DOMAIN t : IsKid(t, b, n) <=> b \in Boxes(t) /\ \E i \in 1..Count(t, b) : Kids(t, b)[i] = n
  <2> TAKE b \in DOMAIN t
  <2>1. DOMAIN t[b].kids = 1..Count(t, b) /\ (b \notin Boxes(t) => Count(t, b) = 0)
    BY CellFacts
  <2> QED BY <2>1 DEF IsKid, Kids
<1>5. ASSUME NEW b \in Boxes(t), NEW i \in 1..Count(t, b), Kids(t, b)[i] = n
      PROVE  Parent(t, n) = b
  <2>1. b \in DOMAIN t /\ IsKid(t, b, n)
    BY <1>4, <1>5 DEF Boxes
  <2>2. \A c \in DOMAIN t : IsKid(t, c, n) => c = b
    BY <1>3, <1>4, <1>5
  <2> QED BY <2>1, <2>2 DEF Parent
<1> QED BY <1>1, <1>5

(* The box around a cell is no larger than any larger cell around it.      *)
LEMMA ParentInside ==
  ASSUME NEW t, Tree(t), NEW m \in DOMAIN t, NEW n \in DOMAIN t, n \subseteq m, n # m
  PROVE  /\ n # PanesOf(t) /\ Parent(t, n) \in Boxes(t) /\ Parent(t, n) \subseteq m
         /\ n \subseteq Parent(t, n) /\ n # Parent(t, n)
<1>1. n # PanesOf(t) /\ n # {}
  BY CellFacts
<1> DEFINE b == Parent(t, n)
<1>2. b \in Boxes(t) /\ \E i \in 1..Count(t, b) : Kids(t, b)[i] = n
  BY <1>1, ParentIs
<1>3. PICK i \in 1..Count(t, b) : Kids(t, b)[i] = n
  BY <1>2
<1> HIDE DEF b
<1>4. b \in DOMAIN t /\ n \subseteq b /\ n # b
  BY <1>2, <1>3, KidFacts
<1>5. b \subseteq m
  <2>1. SUFFICES ASSUME m \subseteq b, m # b PROVE FALSE
    BY <1>1, <1>4, Laminar
  <2>2. PICK j \in 1..Count(t, b) : m \subseteq Kids(t, b)[j]
    BY <1>2, <2>1 DEF Tree, Nested
  <2>3. i = j
    BY <1>1, <1>2, <1>3, <2>2 DEF Tree, Kin
  <2> QED BY <1>3, <2>2, <2>3
<1> QED BY <1>1, <1>2, <1>4, <1>5 DEF b

(* One child of a box has the pane.                                        *)
LEMMA KidWithIs ==
  ASSUME NEW t, Tree(t), NEW b \in Boxes(t), NEW p \in b
  PROVE  /\ KidWith(t, b, p) \in 1..Count(t, b) /\ p \in Kids(t, b)[KidWith(t, b, p)]
         /\ \A i \in 1..Count(t, b) : p \in Kids(t, b)[i] => i = KidWith(t, b, p)
<1>1. b \in DOMAIN t
  BY DEF Boxes
<1>2. DOMAIN t[b].kids = 1..Count(t, b)
  BY <1>1, CellFacts
<1>3. /\ \E i \in 1..Count(t, b) : p \in Kids(t, b)[i]
      /\ \A i, j \in 1..Count(t, b) : i # j => Kids(t, b)[i] \cap Kids(t, b)[j] = {}
  BY DEF Tree, Kin
<1> QED BY <1>2, <1>3 DEF KidWith, Kids

---------------------------------------------------------------------------
(* Cells laid out again. *)

(* The rectangles that Scale gives to the cells under n.                   *)
Under(t, n) == {m \in DOMAIN t : m \subseteq n}
Placed(t, n, r, f, m) ==
  IF m = n THEN r
  ELSE LET b == Parent(t, m)
           i == CHOOSE i \in DOMAIN t[b].kids : t[b].kids[i] = m
       IN  Part(t, b, f[b], i)
Rects(t, n, r) ==
  LET rect[m \in Under(t, n)] == Placed(t, n, r, rect, m)
  IN  rect

(* Scale, with its recursive function named.                               *)
LEMMA ScaleRects ==
  \A t, n, at, len :
    Scale(t, n, at, len) =
      LET rect == Rects(t, n, [at |-> at, len |-> len])
      IN  [m \in DOMAIN t |->
             IF m \subseteq n THEN [t[m] EXCEPT !.at = rect[m].at, !.len = rect[m].len] ELSE t[m]]
BY DEF Scale, Rects, Under, Placed

(* The recursive function is well defined: deeper cells need fewer steps.  *)
LEMMA RectsAre ==
  ASSUME NEW t, Tree(t), NEW n \in DOMAIN t, NEW r
  PROVE  \A m \in Under(t, n) : Rects(t, n, r)[m] = Placed(t, n, r, Rects(t, n, r), m)
<1> DEFINE D == Under(t, n)
           deep(m) == Cardinality(n \ m)
           Level(M) == {m \in D : deep(m) <= M}
           Good(g, M) == \A m \in Level(M) : g[m] = Placed(t, n, r, g, m)
           S == {M \in 0..Cardinality(n) : \E g : Good(g, M)}
<1>1. IsFiniteSet(n) /\ Cardinality(n) \in Nat /\ n \in DOMAIN t
  BY CellFacts, FS_CardinalityType
<1>2. ASSUME NEW m \in D PROVE deep(m) \in 0..Cardinality(n)
  <2>1. IsFiniteSet(n \ m) /\ Cardinality(n \ m) <= Cardinality(n) /\ Cardinality(n \ m) \in Nat
    <3>1. n \ m \in SUBSET n
      OBVIOUS
    <3> QED BY <1>1, <3>1, FS_Subset, FS_CardinalityType
  <2> QED BY <1>1, <2>1
<1>3. ASSUME NEW m \in D, m # n PROVE Parent(t, m) \in D /\ deep(Parent(t, m)) < deep(m)
  <2>1. m \in DOMAIN t /\ m \subseteq n
    BY DEF Under
  <2>2. Parent(t, m) \in Boxes(t) /\ Parent(t, m) \subseteq n /\ m \subseteq Parent(t, m) /\ m # Parent(t, m)
    BY <1>3, <2>1, ParentInside
  <2> DEFINE b == Parent(t, m)
  <2>3. b \in D
    BY <2>2 DEF Under, Boxes
  <2> HIDE DEF b
  <2>4. IsFiniteSet(n \ m) /\ n \ b \in SUBSET (n \ m) /\ n \ b # n \ m
    <3>1. IsFiniteSet(n \ m)
      BY <1>1, FS_Difference
    <3>2. b \subseteq n /\ m \subseteq b /\ m # b
      BY <2>2 DEF b
    <3>3. PICK x : x \in b /\ x \notin m
      BY <3>2
    <3>4. x \in n \ m /\ x \notin n \ b
      BY <3>2, <3>3
    <3>5. n \ b \subseteq n \ m
      BY <3>2
    <3> QED BY <3>1, <3>4, <3>5
  <2>5. Cardinality(n \ b) <= Cardinality(n \ m) /\ Cardinality(n \ b) # Cardinality(n \ m)
    BY <2>4, FS_Subset
  <2>6. Cardinality(n \ b) \in Nat /\ Cardinality(n \ m) \in Nat
    BY <2>4, FS_Subset, FS_CardinalityType
  <2>7. Cardinality(n \ b) < Cardinality(n \ m)
    BY <2>5, <2>6
  <2> QED BY <2>3, <2>7 DEF b
<1>4. 0 \in S
  <2> DEFINE g == [m \in D |-> r]
  <2>1. ASSUME NEW m \in Level(0) PROVE m = n
    <3>1. IsFiniteSet(n \ m) /\ Cardinality(n \ m) = 0 /\ m \subseteq n
      <4>1. m \in D /\ deep(m) <= 0
        OBVIOUS
      <4>2. deep(m) = 0
        BY <1>1, <1>2, <4>1
      <4> QED BY <1>1, <4>1, <4>2, FS_Difference DEF Under
    <3>2. n \ m = {}
      BY <3>1, FS_EmptySet
    <3> QED BY <3>1, <3>2
  <2>2. Good(g, 0)
    <3> SUFFICES ASSUME NEW m \in Level(0) PROVE g[m] = Placed(t, n, r, g, m)
      OBVIOUS
    <3>1. m = n /\ m \in D
      BY <2>1
    <3> QED BY <3>1 DEF Placed
  <2> HIDE DEF g, Good
  <2>3. 0 \in 0..Cardinality(n)
    BY <1>1
  <2> QED BY <2>2, <2>3
<1>5. ASSUME NEW M \in 0..Cardinality(n), M \in S, M < Cardinality(n) PROVE M + 1 \in S
  <2>1. PICK g : Good(g, M)
    BY <1>5
  <2> DEFINE h == [m \in D |-> IF deep(m) <= M THEN g[m] ELSE Placed(t, n, r, g, m)]
  <2>2. ASSUME NEW m \in Level(M + 1) PROVE h[m] = Placed(t, n, r, h, m)
    <3>1. m \in D /\ deep(m) <= M + 1 /\ deep(m) \in Nat
      BY <1>2
    <3>2. h[m] = Placed(t, n, r, g, m)
      <4>1. CASE deep(m) <= M
        <5>1. m \in Level(M)
          BY <3>1, <4>1
        <5> QED BY <2>1, <3>1, <4>1, <5>1
      <4>2. CASE ~(deep(m) <= M)
        BY <3>1, <4>2
      <4> QED BY <4>1, <4>2
    <3>3. m # n => h[Parent(t, m)] = g[Parent(t, m)]
      <4>1. SUFFICES ASSUME m # n PROVE h[Parent(t, m)] = g[Parent(t, m)]
        OBVIOUS
      <4>2. Parent(t, m) \in D /\ deep(Parent(t, m)) < deep(m)
        BY <1>3, <3>1, <4>1
      <4>3. deep(Parent(t, m)) \in Nat
        BY <1>2, <4>2
      <4> DEFINE b == Parent(t, m)
      <4> HIDE DEF b
      <4>4. deep(b) <= M
        <5>1. deep(b) < deep(m) /\ deep(b) \in Nat
          BY <4>2, <4>3 DEF b
        <5> HIDE DEF deep
        <5> QED BY <3>1, <5>1
      <4>5. b \in D
        BY <4>2 DEF b
      <4> QED BY <4>4, <4>5 DEF b
    <3> HIDE DEF h
    <3> QED BY <3>2, <3>3 DEF Placed
  <2>3. Good(h, M + 1) /\ M + 1 \in 0..Cardinality(n)
    BY <1>1, <1>5, <2>2
  <2> HIDE DEF Good, h
  <2> QED BY <2>3
<1>6. Cardinality(n) \in S
  <2>1. \A M \in 0..Cardinality(n) : M \in S /\ M < Cardinality(n) => M + 1 \in S
    BY <1>5
  <2> HIDE DEF S
  <2>2. \A M \in 0..Cardinality(n) : M \in S
    BY <1>1, <1>4, <2>1, UpTo
  <2>3. Cardinality(n) \in 0..Cardinality(n)
    BY <1>1
  <2> QED BY <2>2, <2>3
<1>7. PICK g : Good(g, Cardinality(n))
  BY <1>6
<1> DEFINE Body(f) == [m \in D |-> Placed(t, n, r, f, m)]
           k == [m \in D |-> g[m]]
<1>8. k = Body(k)
  <2>1. ASSUME NEW m \in D PROVE k[m] = Placed(t, n, r, k, m)
    <3>1. m \in Level(Cardinality(n))
      <4>1. deep(m) \in 0..Cardinality(n)
        BY <1>2
      <4>2. deep(m) <= Cardinality(n)
        BY <1>1, <4>1
      <4> QED BY <4>2
    <3>2. k[m] = Placed(t, n, r, g, m)
      BY <1>7, <3>1
    <3>3. m # n => k[Parent(t, m)] = g[Parent(t, m)]
      BY <1>3
    <3> HIDE DEF k
    <3> QED BY <3>2, <3>3 DEF Placed
  <2>2. k = [m \in D |-> k[m]]
    OBVIOUS
  <2> HIDE DEF k
  <2> QED BY <2>1, <2>2
<1> DEFINE s == CHOOSE f : f = Body(f)
<1>9. s = Body(s)
  <2> HIDE DEF Body, k
  <2> QED BY <1>8
<1>10. Rects(t, n, r) = s
  BY DEF Rects
<1> HIDE DEF s
<1>11. \A m \in D : s[m] = Placed(t, n, r, s, m)
  BY <1>9
<1> QED BY <1>10, <1>11

Rect(c) == [at |-> c.at, len |-> c.len]
Side == [Axes -> Nat]
Place == [at : Side, len : Side]

(* The two directions.                                                     *)
LEMMA AxesAre ==
  /\ \A a \in Axes : Cross(a) \in Axes /\ Cross(a) # a /\ \A x \in Axes : x = a \/ x = Cross(a)
  /\ "leaf" \notin Axes /\ Origin \in Side /\ Origin \in [Axes -> Nat] /\ \A a \in Axes : Origin[a] = 0
BY DEF Axes, Cross, Origin, Side

(* The lengths of the children along their box.                            *)
LEMMA LensAre ==
  ASSUME NEW t, Tree(t), NEW b \in Boxes(t)
  PROVE  /\ Lens(t, b) \in Seq(Nat) /\ Len(Lens(t, b)) = Count(t, b)
         /\ Count(t, b) \in Nat /\ Count(t, b) >= 2
         /\ \A i \in 1..Count(t, b) : /\ Lens(t, b)[i] = t[Kids(t, b)[i]].len[t[b].kind]
                                      /\ Lens(t, b)[i] \in Nat
<1> DEFINE N == Count(t, b)
           a == t[b].kind
<1>1. b \in DOMAIN t /\ N \in Nat /\ DOMAIN t[b].kids = 1..N /\ a \in Axes
  <2>1. b \in DOMAIN t
    BY DEF Boxes
  <2> QED BY <2>1, CellFacts
<1>2. N >= 2
  BY DEF Tree, Kin
<1>3. \A i \in 1..N : Kids(t, b)[i] \in DOMAIN t
  BY KidFacts
<1>4. \A i \in 1..N : t[Kids(t, b)[i]].len[a] \in Nat
  <2> TAKE i \in 1..N
  <2>1. t[Kids(t, b)[i]].len \in [Axes -> Nat]
    BY <1>3, CellFacts
  <2> QED BY <1>1, <2>1
<1> DEFINE s == [i \in 1..N |-> t[Kids(t, b)[i]].len[a]]
<1>5. Lens(t, b) = s
  BY <1>1 DEF Lens, Kids
<1>6. s \in [1..N -> Nat]
  BY <1>4
<1>7. \A i \in 1..N : s[i] = t[Kids(t, b)[i]].len[a] /\ s[i] \in Nat
  BY <1>4
<1> HIDE DEF s, N
<1>8. s \in Seq(Nat) /\ DOMAIN s = 1..N
  <2>1. s \in UNION {[1..n -> Nat] : n \in Nat}
    BY <1>1, <1>6
  <2> QED BY <2>1, <1>6, SeqDef
<1>9. Len(s) = N
  <2>1. Len(s) \in Nat /\ DOMAIN s = 1..Len(s)
    BY <1>8, LenProperties
  <2>2. Len(s) \in Nat /\ 1..Len(s) = 1..N
    BY <2>1, <1>8
  <2> QED BY <1>1, <1>2, <2>2
<1> QED BY <1>1, <1>2, <1>5, <1>7, <1>8, <1>9 DEF N

(* What a child gets.                                                      *)
LEMMA PartIs ==
  ASSUME NEW t, Tree(t), NEW b \in Boxes(t), NEW r \in Place, NEW i \in 1..Count(t, b)
  PROVE  LET a == t[b].kind
             e == Ends(Lens(t, b), r.len[a])
             p == Part(t, b, r, i)
         IN  /\ a \in Axes /\ p \in Place /\ r.len[a] \in Nat
             /\ e[i] \in Nat /\ e[i - 1] \in Nat /\ e[i - 1] <= e[i]
             /\ p.at[a] = r.at[a] + e[i - 1] /\ p.len[a] = e[i] - e[i - 1]
             /\ p.at[Cross(a)] = r.at[Cross(a)] /\ p.len[Cross(a)] = r.len[Cross(a)]
<1> DEFINE a == t[b].kind
           e == Ends(Lens(t, b), r.len[a])
<1>1. a \in Axes
  <2>1. b \in DOMAIN t
    BY DEF Boxes
  <2> QED BY <2>1, CellFacts
<1>2. r.at \in Side /\ r.len \in Side
  BY DEF Place
<1>3. r.len[a] \in Nat /\ r.at[a] \in Nat
  BY <1>1, <1>2 DEF Side
<1>4. e[i] \in Nat /\ e[i - 1] \in Nat /\ e[i - 1] <= e[i]
  BY <1>3, LensAre, EndsGrow
<1> HIDE DEF e
<1>5. r.at[a] + e[i - 1] \in Nat /\ e[i] - e[i - 1] \in Nat
  BY <1>3, <1>4
<1>6. Part(t, b, r, i) = [at  |-> [r.at  EXCEPT ![a] = @ + e[i - 1]],
                          len |-> [r.len EXCEPT ![a] = e[i] - e[i - 1]]]
  BY DEF Part, e
<1> DEFINE x == [r.at  EXCEPT ![a] = @ + e[i - 1]]
           y == [r.len EXCEPT ![a] = e[i] - e[i - 1]]
<1> HIDE DEF a
<1>7. /\ x \in Side /\ y \in Side /\ x[a] = r.at[a] + e[i - 1] /\ y[a] = e[i] - e[i - 1]
      /\ x[Cross(a)] = r.at[Cross(a)] /\ y[Cross(a)] = r.len[Cross(a)]
  BY <1>1, <1>2, <1>5, AxesAre DEF Side
<1> HIDE DEF x, y
<1>8. /\ Part(t, b, r, i) \in Place
      /\ Part(t, b, r, i).at = x /\ Part(t, b, r, i).len = y
  BY <1>6, <1>7 DEF Place, x, y
<1> QED BY <1>1, <1>3, <1>4, <1>7, <1>8 DEF a, e

(* A cell laid out again: the same tree, the cells elsewhere untouched,    *)
(* and each child of a box in its part of it.                              *)
SameShape(t, r) ==
  /\ DOMAIN r = DOMAIN t
  /\ \A m \in DOMAIN t : r[m].kind = t[m].kind /\ r[m].kids = t[m].kids /\ r[m] \in Cell(PanesOf(t))

(* The same names, kinds and children are a tree again.                    *)
LEMMA ShapeIsTree ==
  ASSUME NEW t, Tree(t), NEW r, SameShape(t, r), r \in [DOMAIN t -> Cell(PanesOf(t))]
  PROVE  /\ Tree(r) /\ PanesOf(r) = PanesOf(t) /\ Boxes(r) = Boxes(t) /\ DOMAIN r = DOMAIN t
         /\ \A b \in Boxes(t) : Count(r, b) = Count(t, b) /\ Kids(r, b) = Kids(t, b)
<1>1. PanesOf(r) = PanesOf(t) /\ Boxes(r) = Boxes(t) /\ DOMAIN r = DOMAIN t
  BY DEF SameShape, PanesOf, Boxes
<1>2. \A b \in DOMAIN t : Count(r, b) = Count(t, b) /\ Kids(r, b) = Kids(t, b)
  BY DEF SameShape, Count, Kids
<1>3. Boxes(t) \subseteq DOMAIN t
  BY DEF Boxes
<1>4. Typed(r)
  BY <1>1 DEF Tree, Typed
<1>5. Leafy(r)
  BY <1>1 DEF Tree, Typed, Leafy, SameShape
<1>6. Kin(r)
  BY <1>1, <1>2, <1>3 DEF Tree, Kin
<1>7. Nested(r)
  BY <1>1, <1>2, <1>3 DEF Tree, Nested
<1> QED BY <1>1, <1>2, <1>3, <1>4, <1>5, <1>6, <1>7 DEF Tree

Scaled(t, n, at, len, r) ==
  /\ Tree(r) /\ SameShape(t, r) /\ PanesOf(r) = PanesOf(t) /\ Boxes(r) = Boxes(t)
  /\ \A m \in DOMAIN t : ~(m \subseteq n) => r[m] = t[m]
  /\ r[n].at = at /\ r[n].len = len
  /\ \A b \in Boxes(t) : b \subseteq n =>
       \A i \in 1..Count(t, b) : Rect(r[Kids(t, b)[i]]) = Part(t, b, Rect(r[b]), i)
  /\ \A m \in DOMAIN t : r[m] = [t[m] EXCEPT !.at = r[m].at, !.len = r[m].len]
  /\ \A m \in DOMAIN t : Rect(r[m]) \in Place

(* Scale gives each child its part, and touches nothing outside n.         *)
LEMMA ScaleIs ==
  ASSUME NEW t, Tree(t), NEW n \in DOMAIN t, NEW at \in Side, NEW len \in Side
  PROVE  Scaled(t, n, at, len, Scale(t, n, at, len))
<1> DEFINE p0 == [at |-> at, len |-> len]
           f == Rects(t, n, p0)
           r == Scale(t, n, at, len)
<1>1. \A m \in Under(t, n) : f[m] = Placed(t, n, p0, f, m)
  <2> HIDE DEF p0
  <2> QED BY RectsAre
<1>2. p0 \in Place
  BY DEF Place
<1>3. n \in Under(t, n) /\ f[n] = p0
  <2>1. n \in Under(t, n)
    BY DEF Under
  <2> HIDE DEF f
  <2> QED BY <1>1, <2>1 DEF Placed
<1>p. f[n].at = at /\ f[n].len = len
  <2> HIDE DEF f
  <2> QED BY <1>3
<1> HIDE DEF f, p0
(* Each child has its part. *)
<1>4. ASSUME NEW b \in Boxes(t), b \subseteq n, NEW i \in 1..Count(t, b)
      PROVE  Kids(t, b)[i] \in Under(t, n) /\ f[Kids(t, b)[i]] = Part(t, b, f[b], i)
  <2> DEFINE m == Kids(t, b)[i]
  <2>1. m \in DOMAIN t /\ m \subseteq b /\ m # b /\ m # {} /\ b \in DOMAIN t
    BY KidFacts
  <2>2. m \in Under(t, n) /\ m # n
    BY <1>4, <2>1 DEF Under
  <2>3. Parent(t, m) = b
    BY <2>1, ParentIs
  <2>4. DOMAIN t[b].kids = 1..Count(t, b)
    BY <2>1, CellFacts
  <2>5. \A j \in DOMAIN t[b].kids : t[b].kids[j] = m => j = i
    BY <2>1, <2>4 DEF Tree, Kin, Kids
  <2>6. (CHOOSE j \in DOMAIN t[b].kids : t[b].kids[j] = m) = i
    BY <2>4, <2>5 DEF Kids
  <2>7. f[m] = Placed(t, n, p0, f, m)
    BY <1>1, <2>2
  <2> HIDE DEF m
  <2>8. f[m] = Part(t, b, f[b], i)
    BY <2>2, <2>3, <2>6, <2>7 DEF Placed
  <2> QED BY <2>2, <2>8 DEF m
<1>5. \A m \in Under(t, n) : f[m] \in Place
  <2> DEFINE T == {m \in Under(t, n) : f[m] \notin Place}
  <2>1. SUFFICES ASSUME T # {} PROVE FALSE
    OBVIOUS
  <2>2. T \subseteq SUBSET n /\ IsFiniteSet(n)
    BY CellFacts DEF Under
  <2>3. PICK m \in T : \A y \in T : m \subseteq y => y = m
    <3> HIDE DEF T
    <3> QED BY <2>1, <2>2, LargestSet
  <2>4. m # n /\ m \in DOMAIN t /\ m \subseteq n /\ f[m] \notin Place
    BY <1>2, <1>3, <2>3 DEF Under
  <2>5. /\ m # PanesOf(t) /\ Parent(t, m) \in Boxes(t) /\ Parent(t, m) \subseteq n
        /\ m \subseteq Parent(t, m) /\ m # Parent(t, m)
    BY <2>4, ParentInside
  <2>6. PICK i \in 1..Count(t, Parent(t, m)) : Kids(t, Parent(t, m))[i] = m
    BY <2>4, <2>5, ParentIs
  <2>7. f[m] = Part(t, Parent(t, m), f[Parent(t, m)], i)
    BY <1>4, <2>5, <2>6
  <2>8. Parent(t, m) \in Under(t, n)
    BY <2>5 DEF Under, Boxes
  <2>9. f[Parent(t, m)] \in Place
    BY <2>3, <2>5, <2>8
  <2>10. f[m] \in Place
    BY <2>5, <2>6, <2>7, <2>9, PartIs
  <2> QED BY <2>4, <2>10
<1>6. r = [m \in DOMAIN t |->
            IF m \subseteq n THEN [t[m] EXCEPT !.at = f[m].at, !.len = f[m].len] ELSE t[m]]
  BY ScaleRects DEF f, p0
<1>7. DOMAIN r = DOMAIN t
  BY <1>6
<1> HIDE DEF r
<1>8. ASSUME NEW m \in DOMAIN t, m \subseteq n
      PROVE  /\ r[m] \in Cell(PanesOf(t)) /\ r[m].kind = t[m].kind /\ r[m].kids = t[m].kids
             /\ r[m].at = f[m].at /\ r[m].len = f[m].len /\ Rect(r[m]) = f[m]
             /\ r[m] = [t[m] EXCEPT !.at = r[m].at, !.len = r[m].len]
  <2>1. t[m] \in Cell(PanesOf(t)) /\ f[m] \in Place
    BY <1>5, <1>8, CellFacts DEF Under
  <2>2. r[m] = [t[m] EXCEPT !.at = f[m].at, !.len = f[m].len]
    BY <1>6, <1>8
  <2> QED BY <2>1, <2>2 DEF Cell, Place, Rect, Side
<1>9. ASSUME NEW m \in DOMAIN t, ~(m \subseteq n)
      PROVE  /\ r[m] = t[m] /\ r[m] \in Cell(PanesOf(t))
             /\ r[m] = [t[m] EXCEPT !.at = r[m].at, !.len = r[m].len] /\ Rect(r[m]) \in Place
  <2>1. t[m] \in Cell(PanesOf(t)) /\ r[m] = t[m]
    BY <1>6, <1>9, CellFacts
  <2> QED BY <2>1 DEF Cell, Rect, Place, Side
<1>10. SameShape(t, r)
  BY <1>7, <1>8, <1>9 DEF SameShape
<1>11. r \in [DOMAIN t -> Cell(PanesOf(t))]
  <2>1. \A m \in DOMAIN t : r[m] \in Cell(PanesOf(t))
    BY <1>8, <1>9
  <2>2. r = [m \in DOMAIN t |-> r[m]]
    BY <1>6
  <2> QED BY <2>1, <2>2
<1>12. Tree(r) /\ PanesOf(r) = PanesOf(t) /\ Boxes(r) = Boxes(t)
  BY <1>10, <1>11, ShapeIsTree
<1>13. ASSUME NEW b \in Boxes(t), b \subseteq n, NEW i \in 1..Count(t, b)
       PROVE  Rect(r[Kids(t, b)[i]]) = Part(t, b, Rect(r[b]), i)
  <2>1. Kids(t, b)[i] \in DOMAIN t /\ Kids(t, b)[i] \subseteq n
    BY <1>4, <1>13 DEF Under
  <2>2. b \in DOMAIN t
    BY DEF Boxes
  <2>3. Rect(r[b]) = f[b]
    BY <1>8, <1>13, <2>2
  <2>4. Rect(r[Kids(t, b)[i]]) = f[Kids(t, b)[i]]
    BY <1>8, <2>1
  <2>5. f[Kids(t, b)[i]] = Part(t, b, f[b], i)
    BY <1>4, <1>13
  <2> QED BY <2>3, <2>4, <2>5
<1>14. r[n].at = at /\ r[n].len = len
  BY <1>p, <1>8
<1>15. ASSUME NEW m \in DOMAIN t PROVE Rect(r[m]) \in Place
  <2>1. CASE m \subseteq n
    <3>1. m \in Under(t, n)
      BY <2>1 DEF Under
    <3>2. f[m] \in Place /\ Rect(r[m]) = f[m]
      BY <1>5, <1>8, <2>1, <3>1
    <3> QED BY <3>2
  <2>2. CASE ~(m \subseteq n)
    BY <1>9, <2>2
  <2> QED BY <2>1, <2>2
<1>16. Scaled(t, n, at, len, r)
  <2>1. \A m \in DOMAIN t : ~(m \subseteq n) => r[m] = t[m]
    BY <1>9
  <2>2. \A m \in DOMAIN t : r[m] = [t[m] EXCEPT !.at = r[m].at, !.len = r[m].len]
    BY <1>8, <1>9
  <2> QED BY <1>10, <1>12, <1>13, <1>14, <1>15, <2>1, <2>2 DEF Scaled
<1> QED BY <1>16 DEF r

---------------------------------------------------------------------------
(* What is kept of each box. *)

(* What is kept of each box: the clauses of Tiled, and that children which *)
(* do not end with it include an empty one; and that none is empty when    *)
(* there was a cell for each.                                              *)
KidAt(t, b, i) == t[Kids(t, b)[i]]
Exact(t, b) == End(KidAt(t, b, Count(t, b)), t[b].kind) = End(t[b], t[b].kind)
InRow(t, b) ==
  LET a == t[b].kind
  IN  /\ KidAt(t, b, 1).at[a] = t[b].at[a]
      /\ \A i \in 1..Count(t, b) - 1 : KidAt(t, b, i + 1).at[a] = End(KidAt(t, b, i), a)
      /\ \A i \in 1..Count(t, b) : /\ KidAt(t, b, i).at[Cross(a)] = t[b].at[Cross(a)]
                                   /\ KidAt(t, b, i).len[Cross(a)] = t[b].len[Cross(a)]
Fits(t, b) ==
  /\ InRow(t, b)
  /\ Count(t, b) > t[b].len[t[b].kind] + 1 \/ Exact(t, b)
  /\ Exact(t, b) \/ \E i \in 1..Count(t, b) : KidAt(t, b, i).len[t[b].kind] = 0
Full(t, b) ==
  t[b].len[t[b].kind] >= Count(t, b) =>
    \A i \in 1..Count(t, b) : KidAt(t, b, i).len[t[b].kind] >= 1

Laid(t)  == \A b \in Boxes(t) : Fits(t, b)
Ample(t) == \A b \in Boxes(t) : Full(t, b)

(* Such boxes are tiled.                                                   *)
LEMMA LaidIsTiled ==
  ASSUME NEW t, Tree(t), Laid(t)
  PROVE  Tiled(t)
<1>1. \A b \in Boxes(t) : Count(t, b) \in Nat /\ DOMAIN t[b].kids = 1..Count(t, b)
  BY CellFacts DEF Boxes
<1> QED BY <1>1 DEF Laid, Fits, InRow, Exact, Tiled, KidAt, Kids, Count

(* Boxes that are full leave no child without a cell.                      *)
LEMMA AmpleIsRoomed ==
  ASSUME NEW t, Tree(t), Ample(t)
  PROVE  ~Squeezed(t)
<1>1. ASSUME NEW b \in Boxes(t), t[b].len[t[b].kind] >= Len(t[b].kids), NEW i \in DOMAIN t[b].kids
      PROVE  Lens(t, b)[i] >= 1
  <2>1. b \in DOMAIN t
    BY DEF Boxes
  <2>2. DOMAIN t[b].kids = 1..Count(t, b) /\ t[b].len[t[b].kind] >= Count(t, b)
    BY <1>1, <2>1, CellFacts DEF Count
  <2>3. Lens(t, b)[i] = t[Kids(t, b)[i]].len[t[b].kind]
    BY <2>2, LensAre
  <2> QED BY <2>2, <2>3 DEF Ample, Full, KidAt
<1>2. \A b \in Boxes(t) : \A i \in DOMAIN t[b].kids : Lens(t, b)[i] \in Nat
  <2> TAKE b \in Boxes(t)
  <2> TAKE i \in DOMAIN t[b].kids
  <2>1. b \in DOMAIN t
    BY DEF Boxes
  <2>2. DOMAIN t[b].kids = 1..Count(t, b)
    BY <2>1, CellFacts
  <2> QED BY <2>2, LensAre
<1>3. \A x \in Nat : x >= 1 => ~(x < 1)
  OBVIOUS
<1> QED BY <1>1, <1>2, <1>3 DEF Squeezed

(* Boxes with the same rectangles.                                         *)
Alike(t, b, r, c) ==
  /\ r[c].kind = t[b].kind /\ Count(r, c) = Count(t, b)
  /\ r[c].at = t[b].at /\ r[c].len = t[b].len
  /\ \A i \in 1..Count(t, b) : /\ KidAt(r, c, i).at = KidAt(t, b, i).at
                               /\ KidAt(r, c, i).len = KidAt(t, b, i).len

(* What holds of a box holds of one with the same rectangles.              *)
LEMMA AlikeFits ==
  ASSUME NEW t, Tree(t), NEW b \in Boxes(t), NEW r, NEW c, Alike(t, b, r, c)
  PROVE  (Fits(t, b) => Fits(r, c)) /\ (Full(t, b) => Full(r, c))
<1>1. Count(t, b) \in Nat /\ Count(t, b) >= 2
  BY LensAre
<1>2. 1 \in 1..Count(t, b) /\ Count(t, b) \in 1..Count(t, b)
      /\ \A i \in 1..Count(t, b) - 1 : i \in 1..Count(t, b) /\ i + 1 \in 1..Count(t, b)
  BY <1>1
<1>3. \A i \in 1..Count(t, b) : \A a : End(KidAt(r, c, i), a) = End(KidAt(t, b, i), a)
  BY DEF Alike, End
<1>4. Exact(r, c) = Exact(t, b)
  <2>1. End(KidAt(r, c, Count(r, c)), r[c].kind) = End(KidAt(t, b, Count(t, b)), t[b].kind)
    BY <1>2, <1>3 DEF Alike
  <2>2. End(r[c], r[c].kind) = End(t[b], t[b].kind)
    BY DEF Alike, End
  <2> QED BY <2>1, <2>2 DEF Exact
<1>5. InRow(t, b) => InRow(r, c)
  BY <1>2, <1>3 DEF Alike, InRow
<1>6. Fits(t, b) => Fits(r, c)
  BY <1>2, <1>4, <1>5 DEF Alike, Fits
<1>7. Full(t, b) => Full(r, c)
  BY DEF Alike, Full
<1> QED BY <1>6, <1>7

(* Children that were given their parts.                                   *)
LEMMA PartsFit ==
  ASSUME NEW t, Tree(t), NEW r, SameShape(t, r), NEW b \in Boxes(t), Rect(r[b]) \in Place,
         \A i \in 1..Count(t, b) : Rect(r[Kids(t, b)[i]]) = Part(t, b, Rect(r[b]), i)
  PROVE  Fits(r, b) /\ Full(r, b)
<1> DEFINE N == Count(t, b)
           a == t[b].kind
           p == Rect(r[b])
           L == Lens(t, b)
           space == p.len[a]
           e == Ends(L, space)
<1>1. N \in Nat /\ N >= 2 /\ Len(L) = N /\ L \in Seq(Nat)
  BY LensAre
<1>2. Count(r, b) = N /\ Kids(r, b) = Kids(t, b) /\ r[b].kind = a
  BY DEF SameShape, Count, Kids, Boxes
<1>3. p.at = r[b].at /\ p.len = r[b].len
  BY DEF Rect
<1>a. 1 \in 1..N
  BY <1>1
<1>4. a \in Axes /\ space \in Nat
  BY <1>a, PartIs
<1>5. ASSUME NEW i \in 1..N
      PROVE  /\ e[i] \in Nat /\ e[i - 1] \in Nat /\ e[i - 1] <= e[i]
             /\ KidAt(r, b, i).at[a] = p.at[a] + e[i - 1] /\ KidAt(r, b, i).len[a] = e[i] - e[i - 1]
             /\ KidAt(r, b, i).at[Cross(a)] = p.at[Cross(a)] /\ KidAt(r, b, i).len[Cross(a)] = p.len[Cross(a)]
  <2> DEFINE q == Part(t, b, p, i)
  <2>1. /\ e[i] \in Nat /\ e[i - 1] \in Nat /\ e[i - 1] <= e[i]
        /\ q.at[a] = p.at[a] + e[i - 1] /\ q.len[a] = e[i] - e[i - 1]
        /\ q.at[Cross(a)] = p.at[Cross(a)] /\ q.len[Cross(a)] = p.len[Cross(a)]
    BY PartIs
  <2>2. Rect(KidAt(r, b, i)) = q
    BY <1>2 DEF KidAt
  <2>3. KidAt(r, b, i).at = q.at /\ KidAt(r, b, i).len = q.len
    <3>1. Rect(KidAt(r, b, i)).at = KidAt(r, b, i).at /\ Rect(KidAt(r, b, i)).len = KidAt(r, b, i).len
      BY DEF Rect
    <3> HIDE DEF q
    <3> QED BY <2>2, <3>1
  <2> HIDE DEF e, p, q
  <2> QED BY <2>1, <2>3
<1>6. p.at[a] \in Nat
  <2>1. p.at \in [Axes -> Nat]
    BY DEF Place, Side
  <2> QED BY <1>4, <2>1
<1>7. e[0] = 0
  BY <1>1, <1>4, EndsIs
<1>8. N <= space => e[N] = space /\ \A i \in 1..N : e[i - 1] < e[i]
  BY <1>1, <1>4, EndsFit
<1>9. space < N => /\ e[N] = N - 1 /\ e[N - 1] = N - 1
  <2>1. SUFFICES ASSUME space < N PROVE e[N] = N - 1 /\ e[N - 1] = N - 1
    OBVIOUS
  <2>2. \A i \in 0..N : e[i] = IF i < N THEN i ELSE N - 1
    BY <1>1, <1>4, <2>1, EndsTight
  <2>3. N \in 0..N /\ N - 1 \in 0..N /\ N - 1 < N /\ ~(N < N)
    BY <1>1
  <2> HIDE DEF e, N
  <2> QED BY <2>2, <2>3
<1>b. N \in 1..N /\ N \in Nat
  BY <1>1
<1> DEFINE K(i) == KidAt(r, b, i)
<1>c. p.at[a] = r[b].at[a] /\ space = r[b].len[a] /\ p.at[Cross(a)] = r[b].at[Cross(a)] /\ p.len[Cross(a)] = r[b].len[Cross(a)]
  BY <1>3
<1> HIDE DEF e, N, a, L, p, space, K
<1>10. InRow(r, b)
  <2>1. K(1).at[a] = r[b].at[a]
    <3>1. K(1).at[a] = p.at[a] + e[1 - 1]
      BY <1>5, <1>a DEF K
    <3>2. 1 - 1 = 0
      OBVIOUS
    <3> QED BY <1>6, <1>7, <1>c, <3>1, <3>2
  <2>2. ASSUME NEW i \in 1..N - 1 PROVE K(i + 1).at[a] = End(K(i), a)
    <3>1. i \in 1..N /\ i + 1 \in 1..N /\ (i + 1) - 1 = i
      BY <1>1
    <3>2. K(i + 1).at[a] = p.at[a] + e[i]
      BY <1>5, <3>1 DEF K
    <3>3. K(i).at[a] = p.at[a] + e[i - 1] /\ K(i).len[a] = e[i] - e[i - 1] /\ e[i] \in Nat /\ e[i - 1] \in Nat
      BY <1>5, <3>1 DEF K
    <3> QED BY <1>6, <3>2, <3>3 DEF End
  <2>3. \A i \in 1..N : K(i).at[Cross(a)] = r[b].at[Cross(a)] /\ K(i).len[Cross(a)] = r[b].len[Cross(a)]
    BY <1>5, <1>c DEF K
  <2> QED BY <1>2, <2>1, <2>2, <2>3 DEF InRow, K
<1>11. /\ End(K(N), a) = p.at[a] + e[N] /\ K(N).len[a] = e[N] - e[N - 1]
       /\ End(r[b], a) = p.at[a] + space
  <2>1. K(N).at[a] = p.at[a] + e[N - 1] /\ K(N).len[a] = e[N] - e[N - 1] /\ e[N] \in Nat /\ e[N - 1] \in Nat
    BY <1>5, <1>b DEF K
  <2> QED BY <1>6, <1>c, <2>1 DEF End
<1>12. Exact(r, b) <=> p.at[a] + e[N] = p.at[a] + space
  BY <1>2, <1>11 DEF Exact, K
<1>13. N > space + 1 \/ Exact(r, b)
  <2>1. CASE N <= space
    BY <1>8, <1>12, <2>1
  <2>2. CASE N = space + 1
    <3>1. e[N] = space
      BY <1>1, <1>4, <1>9, <2>2
    <3> QED BY <1>12, <3>1
  <2> QED BY <1>1, <1>4, <2>1, <2>2
<1>14. Exact(r, b) \/ K(N).len[a] = 0
  <2>1. CASE N <= space
    BY <1>8, <1>12, <2>1
  <2>2. CASE space < N
    BY <1>1, <1>9, <1>11, <2>2
  <2> QED BY <1>1, <1>4, <2>1, <2>2
<1>15. Fits(r, b)
  BY <1>2, <1>10, <1>13, <1>14, <1>b, <1>c DEF Fits, K
<1>16. Full(r, b)
  <2>1. SUFFICES ASSUME space >= N, NEW i \in 1..N PROVE K(i).len[a] >= 1
    BY <1>2, <1>c DEF Full, K
  <2>2. e[i] \in Nat /\ e[i - 1] \in Nat /\ K(i).len[a] = e[i] - e[i - 1]
    BY <1>5 DEF K
  <2>3. e[i - 1] < e[i]
    BY <1>1, <1>4, <1>8, <2>1
  <2> QED BY <2>2, <2>3
<1> QED BY <1>15, <1>16

(* Every box under the cell that was laid out is in order.                 *)
LEMMA ScaleLays ==
  ASSUME NEW t, Tree(t), NEW n \in DOMAIN t, NEW at \in Side, NEW len \in Side,
         NEW b \in Boxes(t), b \subseteq n
  PROVE  Fits(Scale(t, n, at, len), b) /\ Full(Scale(t, n, at, len), b)
<1> DEFINE r == Scale(t, n, at, len)
<1>1. SameShape(t, r)
  BY ScaleIs DEF Scaled
<1>2. b \in DOMAIN t
  BY DEF Boxes
<1>3. Rect(r[b]) \in Place
  BY <1>2, ScaleIs DEF Scaled
<1>4. \A i \in 1..Count(t, b) : Rect(r[Kids(t, b)[i]]) = Part(t, b, Rect(r[b]), i)
  <2>1. Scaled(t, n, at, len, r)
    BY ScaleIs
  <2> HIDE DEF r
  <2> QED BY <2>1 DEF Scaled
<1> HIDE DEF r
<1>5. Fits(r, b) /\ Full(r, b)
  BY <1>1, <1>3, <1>4, PartsFit
<1> QED BY <1>5 DEF r

(* Nothing else moves: of a box that is not under n, only n is laid out.   *)
LEMMA ScaleFrame ==
  ASSUME NEW t, Tree(t), NEW n \in DOMAIN t, NEW at \in Side, NEW len \in Side,
         NEW b \in Boxes(t), ~(b \subseteq n)
  PROVE  LET r == Scale(t, n, at, len)
         IN  /\ r[b] = t[b]
             /\ \A i \in 1..Count(t, b) : Kids(t, b)[i] = n \/ r[Kids(t, b)[i]] = t[Kids(t, b)[i]]
<1> DEFINE r == Scale(t, n, at, len)
<1>1. b \in DOMAIN t
  BY DEF Boxes
<1>2. \A m \in DOMAIN t : ~(m \subseteq n) => r[m] = t[m]
  <2>1. Scaled(t, n, at, len, r)
    BY ScaleIs
  <2> HIDE DEF r
  <2> QED BY <2>1 DEF Scaled
<1> HIDE DEF r
<1>3. ASSUME NEW i \in 1..Count(t, b), Kids(t, b)[i] # n PROVE r[Kids(t, b)[i]] = t[Kids(t, b)[i]]
  <2> DEFINE k == Kids(t, b)[i]
  <2>1. k \in DOMAIN t /\ k \subseteq b /\ k # b /\ k # {}
    BY KidFacts
  <2>2. SUFFICES ASSUME k \subseteq n PROVE FALSE
    BY <1>2, <2>1
  <2>3. PICK x : x \in k
    BY <2>1
  <2>4. n \subseteq b
    BY <1>1, <2>1, <2>2, <2>3, Laminar
  <2>5. PICK j \in 1..Count(t, b) : n \subseteq Kids(t, b)[j]
    BY <2>4 DEF Tree, Nested
  <2>6. j = i
    BY <2>2, <2>3, <2>5 DEF Tree, Kin
  <2> QED BY <1>3, <2>2, <2>5, <2>6
<1> QED BY <1>1, <1>2, <1>3 DEF r

(* A whole window laid out is in order, whatever it was before.            *)
LEMMA ResizeLays ==
  ASSUME NEW t, Tree(t), NEW s \in Side
  PROVE  LET r == Scale(t, PanesOf(t), Origin, s)
         IN  /\ Tree(r) /\ SameShape(t, r) /\ PanesOf(r) = PanesOf(t)
             /\ Root(r).at = Origin /\ Root(r).len = s /\ Laid(r) /\ Ample(r)
<1> DEFINE r == Scale(t, PanesOf(t), Origin, s)
<1>1. PanesOf(t) \in DOMAIN t /\ Origin \in Side
  BY AxesAre DEF Tree, Typed
<1>2. Tree(r) /\ SameShape(t, r) /\ PanesOf(r) = PanesOf(t) /\ Boxes(r) = Boxes(t)
      /\ r[PanesOf(t)].at = Origin /\ r[PanesOf(t)].len = s
  <2>1. Scaled(t, PanesOf(t), Origin, s, r)
    BY <1>1, ScaleIs
  <2> HIDE DEF r
  <2> QED BY <2>1 DEF Scaled
<1>3. \A b \in Boxes(t) : b \subseteq PanesOf(t)
  BY DEF Boxes, PanesOf
<1>4. \A b \in Boxes(t) : Fits(r, b) /\ Full(r, b)
  BY <1>1, <1>3, ScaleLays
<1> HIDE DEF r
<1> QED BY <1>2, <1>4 DEF r, Laid, Ample, Root

---------------------------------------------------------------------------
(* The box whose divider is dragged.                                       *)
LEMMA OutermostIs ==
  ASSUME NEW t, Tree(t), NEW p \in PanesOf(t), NEW a \in Axes, Boundary(t, p, a) # <<>>
  PROVE  LET b == Outermost(t, p, a)
             i == KidWith(t, b, p)
         IN  /\ b \in Boxes(t) /\ t[b].kind = a
             /\ i \in 1..Count(t, b) /\ i + 1 \in 1..Count(t, b)
             /\ Boundary(t, p, a) = <<Kids(t, b)[i], Kids(t, b)[i + 1]>>
<1> DEFINE D == Divided(t, p, a)
<1>1. D # {}
  BY DEF Boundary
<1>2. D \subseteq SUBSET PanesOf(t) /\ IsFiniteSet(PanesOf(t)) /\ \A b \in D : b \in DOMAIN t /\ p \in b
  BY DEF Divided, PanesOf, Tree, Typed
<1>3. PICK b \in D : \A y \in D : b \subseteq y => y = b
  <2> HIDE DEF D
  <2> QED BY <1>1, <1>2, LargestSet
<1>4. \A c \in D : c \subseteq b
  BY <1>2, <1>3, Laminar
<1>5. Outermost(t, p, a) \in D
  BY <1>3, <1>4 DEF Outermost
<1> DEFINE o == Outermost(t, p, a)
<1>6. o \in DOMAIN t /\ t[o].kind = a /\ p \in o /\ KidWith(t, o, p) < Count(t, o)
  BY <1>5 DEF Divided, Count
<1>7. o \in Boxes(t)
  BY <1>6, AxesAre DEF Boxes
<1>8. KidWith(t, o, p) \in 1..Count(t, o) /\ Count(t, o) \in Nat
  BY <1>6, <1>7, KidWithIs, CellFacts
<1>9. KidWith(t, o, p) + 1 \in 1..Count(t, o)
  BY <1>6, <1>8
<1>10. Boundary(t, p, a) = <<Kids(t, o)[KidWith(t, o, p)], Kids(t, o)[KidWith(t, o, p) + 1]>>
  BY <1>1 DEF Boundary, Kids
<1> QED BY <1>6, <1>7, <1>8, <1>9, <1>10

(* A divider moves by as many cells as its two sides allow: the boxes stay *)
(* in order.                                                               *)
LEMMA MoveIs ==
  ASSUME NEW t, Tree(t), NEW p \in PanesOf(t), NEW a \in Axes, NEW d \in Int,
         Boundary(t, p, a) # <<>>,
         t[Boundary(t, p, a)[1]].len[a] + d \in Nat, t[Boundary(t, p, a)[2]].len[a] - d \in Nat
  PROVE  LET r == MoveBoundary(t, p, a, d)
         IN  /\ Tree(r) /\ SameShape(t, r) /\ PanesOf(r) = PanesOf(t)
             /\ Root(r).at = Root(t).at /\ Root(r).len = Root(t).len
             /\ (Laid(t) => Laid(r)) /\ (Ample(t) => Ample(r))
<1> DEFINE b == Outermost(t, p, a)
           i == KidWith(t, b, p)
           x == Kids(t, b)[i]
           y == Kids(t, b)[i + 1]
           u == [t EXCEPT ![x].len[a] = @ + d, ![y].len[a] = @ - d]
           r == Scale(u, b, t[b].at, t[b].len)
<1>1. /\ b \in Boxes(t) /\ t[b].kind = a /\ i \in 1..Count(t, b) /\ i + 1 \in 1..Count(t, b)
      /\ Boundary(t, p, a) = <<x, y>>
  BY OutermostIs
<1>2. CASE d = 0
  <2>1. MoveBoundary(t, p, a, d) = t
    BY <1>2 DEF MoveBoundary
  <2>2. SameShape(t, t)
    BY CellFacts DEF SameShape
  <2> QED BY <2>1, <2>2
<1>3. ASSUME d # 0
      PROVE  /\ Tree(MoveBoundary(t, p, a, d)) /\ SameShape(t, MoveBoundary(t, p, a, d))
             /\ PanesOf(MoveBoundary(t, p, a, d)) = PanesOf(t)
             /\ Root(MoveBoundary(t, p, a, d)).at = Root(t).at
             /\ Root(MoveBoundary(t, p, a, d)).len = Root(t).len
             /\ (Laid(t) => Laid(MoveBoundary(t, p, a, d))) /\ (Ample(t) => Ample(MoveBoundary(t, p, a, d)))
  <2>1. MoveBoundary(t, p, a, d) = r
    <3>1. Boundary(t, p, a)[1] = x /\ Boundary(t, p, a)[2] = y
      BY <1>1
    <3> QED BY <1>3, <3>1 DEF MoveBoundary
  <2>2. /\ x \in DOMAIN t /\ y \in DOMAIN t /\ x \subseteq b /\ y \subseteq b /\ x # b /\ y # b
        /\ x # {} /\ y # {} /\ b \in DOMAIN t
    BY <1>1, KidFacts
  <2>3. x # y
    <3>1. i # i + 1
      BY <1>1
    <3>2. x \cap y = {}
      BY <1>1, <3>1 DEF Tree, Kin
    <3> QED BY <2>2, <3>2
  <2>4. t[x].len[a] + d \in Nat /\ t[y].len[a] - d \in Nat
    <3>1. Boundary(t, p, a)[1] = x /\ Boundary(t, p, a)[2] = y
      BY <1>1
    <3> HIDE DEF x, y
    <3> QED BY <3>1
  <2> HIDE DEF x, y, b
  <2>5. /\ SameShape(t, u) /\ u \in [DOMAIN t -> Cell(PanesOf(t))]
        /\ \A m \in DOMAIN t : m # x /\ m # y => u[m] = t[m]
        /\ \A m \in DOMAIN t : u[m].at = t[m].at
    <3>1. DOMAIN u = DOMAIN t /\ \A m \in DOMAIN t : m # x /\ m # y => u[m] = t[m]
      <4>1. t \in [DOMAIN t -> Cell(PanesOf(t))]
        BY DEF Tree, Typed
      <4> QED BY <2>2, <4>1
    <3>2. u[x] = [t[x] EXCEPT !.len[a] = @ + d] /\ u[y] = [t[y] EXCEPT !.len[a] = @ - d]
      <4>1. t \in [DOMAIN t -> Cell(PanesOf(t))]
        BY DEF Tree, Typed
      <4> QED BY <2>2, <2>3, <4>1
    <3>3. \A m \in DOMAIN t : t[m] \in Cell(PanesOf(t))
      BY CellFacts
    <3>4. /\ u[x] \in Cell(PanesOf(t)) /\ u[x].kind = t[x].kind /\ u[x].kids = t[x].kids /\ u[x].at = t[x].at
          /\ u[y] \in Cell(PanesOf(t)) /\ u[y].kind = t[y].kind /\ u[y].kids = t[y].kids /\ u[y].at = t[y].at
      <4>1. ASSUME NEW c \in Cell(PanesOf(t)), NEW k \in Nat, NEW v, v = [c EXCEPT !.len[a] = k]
            PROVE  v \in Cell(PanesOf(t)) /\ v.kind = c.kind /\ v.kids = c.kids /\ v.at = c.at
        BY <4>1 DEF Cell
      <4>2. t[x] \in Cell(PanesOf(t)) /\ t[y] \in Cell(PanesOf(t))
        BY <2>2, <3>3
      <4> DEFINE k == t[x].len[a] + d
                 l == t[y].len[a] - d
      <4>3. u[x] = [t[x] EXCEPT !.len[a] = k] /\ u[y] = [t[y] EXCEPT !.len[a] = l]
        BY <3>2
      <4>4. k \in Nat /\ l \in Nat
        BY <2>4
      <4> HIDE DEF u, k, l
      <4> QED BY <4>1, <4>2, <4>3, <4>4
    <3>5. \A m \in DOMAIN t : u[m] \in Cell(PanesOf(t)) /\ u[m].kind = t[m].kind /\ u[m].kids = t[m].kids /\ u[m].at = t[m].at
      BY <3>1, <3>3, <3>4
    <3>6. u = [m \in DOMAIN t |-> u[m]]
      <4>1. t \in [DOMAIN t -> Cell(PanesOf(t))]
        BY DEF Tree, Typed
      <4> QED BY <4>1
    <3> HIDE DEF u
    <3> QED BY <3>1, <3>5, <3>6 DEF SameShape
  <2> HIDE DEF u
  <2>6. /\ Tree(u) /\ PanesOf(u) = PanesOf(t) /\ Boxes(u) = Boxes(t) /\ DOMAIN u = DOMAIN t
        /\ \A c \in Boxes(t) : Count(u, c) = Count(t, c) /\ Kids(u, c) = Kids(t, c)
    BY <2>5, ShapeIsTree
  <2>7. t[b].at \in Side /\ t[b].len \in Side
    BY <2>2, CellFacts DEF Side
  <2>8. /\ Tree(r) /\ SameShape(u, r) /\ PanesOf(r) = PanesOf(u) /\ Boxes(r) = Boxes(u)
        /\ r[b].at = t[b].at /\ r[b].len = t[b].len
        /\ \A m \in DOMAIN u : ~(m \subseteq b) => r[m] = u[m]
    <3>1. Scaled(u, b, t[b].at, t[b].len, r)
      BY <2>2, <2>6, <2>7, ScaleIs
    <3> HIDE DEF r
    <3> QED BY <3>1 DEF Scaled
  <2>9. \A c \in Boxes(u) : c \subseteq b => Fits(r, c) /\ Full(r, c)
    BY <2>2, <2>6, <2>7, ScaleLays
  <2>10. \A c \in Boxes(u) : ~(c \subseteq b) =>
           r[c] = u[c] /\ \A j \in 1..Count(u, c) : Kids(u, c)[j] = b \/ r[Kids(u, c)[j]] = u[Kids(u, c)[j]]
    BY <2>2, <2>6, <2>7, ScaleFrame
  <2> HIDE DEF r
  <2>11. ASSUME NEW c \in Boxes(t), ~(c \subseteq b) PROVE Alike(t, c, r, c)
    <3>1. c \in DOMAIN t /\ c # x /\ c # y
      BY <2>2, <2>11 DEF Boxes
    <3>2. r[c] = t[c]
      BY <2>5, <2>6, <2>10, <2>11, <3>1
    <3>3. ASSUME NEW j \in 1..Count(t, c)
          PROVE  r[Kids(t, c)[j]].at = t[Kids(t, c)[j]].at /\ r[Kids(t, c)[j]].len = t[Kids(t, c)[j]].len
      <4> DEFINE k == Kids(t, c)[j]
      <4>1. k \in DOMAIN t
        BY KidFacts
      <4>2. CASE k = b
        BY <2>8, <4>2
      <4>3. CASE k # b
        <5>1. r[k] = u[k]
          BY <2>6, <2>10, <2>11, <4>3
        <5>2. k # x /\ k # y
          <6>1. Parent(t, k) = c
            BY <4>1, ParentIs
          <6>2. Parent(t, x) = b /\ Parent(t, y) = b
            BY <1>1, <2>2, ParentIs DEF x, y, b
          <6> HIDE DEF k
          <6> QED BY <2>11, <6>1, <6>2
        <5>3. u[k] = t[k]
          BY <2>5, <4>1, <5>2
        <5> QED BY <5>1, <5>3
      <4> QED BY <4>2, <4>3
    <3>4. Count(r, c) = Count(t, c) /\ Kids(r, c) = Kids(t, c)
      BY <3>2 DEF Count, Kids
    <3> QED BY <3>2, <3>3, <3>4 DEF Alike, KidAt
  <2>12. ASSUME NEW c \in Boxes(t)
         PROVE  (Fits(t, c) => Fits(r, c)) /\ (Full(t, c) => Full(r, c))
    <3>1. CASE c \subseteq b
      BY <2>6, <2>9, <3>1
    <3>2. CASE ~(c \subseteq b)
      BY <2>11, <3>2, AlikeFits
    <3> QED BY <3>1, <3>2
  <2>13. SameShape(t, r)
    BY <2>5, <2>6, <2>8 DEF SameShape
  <2>14. Root(r).at = Root(t).at /\ Root(r).len = Root(t).len
    <3> DEFINE R == PanesOf(t)
    <3>1. R \in DOMAIN t /\ b \subseteq R
      BY <2>2, CellFacts DEF Tree, Typed
    <3>2. CASE R = b
      BY <2>6, <2>8, <3>2 DEF Root
    <3>3. CASE R # b
      <4>1. ~(R \subseteq b)
        BY <3>1, <3>3
      <4>2. r[R] = u[R] /\ R # x /\ R # y
        BY <2>2, <2>6, <2>8, <3>1, <4>1
      <4>3. r[R] = t[R]
        BY <2>5, <3>1, <4>2
      <4> QED BY <2>6, <2>8, <4>3 DEF Root
    <3> QED BY <3>2, <3>3
  <2> QED BY <2>1, <2>6, <2>8, <2>12, <2>13, <2>14 DEF Laid, Ample
<1> QED BY <1>2, <1>3

---------------------------------------------------------------------------
(* Two panes swapped. *)

(* A function from 1..N is a sequence.                                     *)
LEMMA FunIsSeq ==
  ASSUME NEW N \in Nat, NEW T, NEW g \in [1..N -> T]
  PROVE  g \in Seq(T) /\ Len(g) = N /\ DOMAIN g = 1..N
<1>1. g \in Seq(T)
  <2>1. g \in UNION {[1..n -> T] : n \in Nat}
    OBVIOUS
  <2> QED BY <2>1, SeqDef
<1>2. Len(g) \in Nat /\ DOMAIN g = 1..Len(g) /\ DOMAIN g = 1..N
  BY <1>1, LenProperties
<1>3. Len(g) = N
  <2> DEFINE M == Len(g)
  <2>1. M \in Nat /\ 1..M = 1..N
    BY <1>2
  <2> HIDE DEF M
  <2>2. \A i \in Int : i \in 1..M <=> i \in 1..N
    BY <2>1
  <2>3. (M >= 1 => M <= N) /\ (N >= 1 => N <= M)
    <3>1. M >= 1 => M \in 1..N
      BY <2>1, <2>2
    <3>2. N >= 1 => N \in 1..M
      BY <2>1, <2>2
    <3> QED BY <2>1, <3>1, <3>2
  <2>4. M = N
    BY <2>1, <2>3
  <2> QED BY <2>4 DEF M
<1> QED BY <1>1, <1>2, <1>3

---------------------------------------------------------------------------
(* Two panes trade places.                                                 *)
Other(p, q, x) == CASE x = p -> q [] x = q -> p [] OTHER -> x
Renamed(p, q, n) == {Other(p, q, x) : x \in n}

(* Renaming is its own inverse and keeps the nesting.                      *)
LEMMA RenamedIs ==
  ASSUME NEW p, NEW q
  PROVE  /\ \A n, x : Other(p, q, x) \in Renamed(p, q, n) <=> x \in n
         /\ \A n, x : x \in Renamed(p, q, n) <=> Other(p, q, x) \in n
         /\ \A n : Renamed(p, q, Renamed(p, q, n)) = n
         /\ \A m, n : Renamed(p, q, m) \subseteq Renamed(p, q, n) <=> m \subseteq n
         /\ \A m, n : Renamed(p, q, m) = Renamed(p, q, n) <=> m = n
         /\ \A n, P : p \in P /\ q \in P => (n \subseteq P <=> Renamed(p, q, n) \subseteq P)
         /\ \A P : p \in P /\ q \in P => Renamed(p, q, P) = P
<1>1. \A x : Other(p, q, Other(p, q, x)) = x
  BY DEF Other
<1>2. \A n, x : x \in Renamed(p, q, n) <=> Other(p, q, x) \in n
  <2> SUFFICES ASSUME NEW n, NEW x PROVE x \in Renamed(p, q, n) <=> Other(p, q, x) \in n
    OBVIOUS
  <2>1. ASSUME x \in Renamed(p, q, n) PROVE Other(p, q, x) \in n
    <3>1. PICK y \in n : x = Other(p, q, y)
      BY <2>1 DEF Renamed
    <3> QED BY <1>1, <3>1
  <2>2. ASSUME Other(p, q, x) \in n PROVE x \in Renamed(p, q, n)
    <3>1. Other(p, q, Other(p, q, x)) \in Renamed(p, q, n)
      BY <2>2 DEF Renamed
    <3> QED BY <1>1, <3>1
  <2> QED BY <2>1, <2>2
<1>3. \A n, x : Other(p, q, x) \in Renamed(p, q, n) <=> x \in n
  BY <1>1, <1>2
<1>4. \A n : Renamed(p, q, Renamed(p, q, n)) = n
  <2> SUFFICES ASSUME NEW n PROVE Renamed(p, q, Renamed(p, q, n)) = n
    OBVIOUS
  <2>1. \A x : x \in Renamed(p, q, Renamed(p, q, n)) <=> x \in n
    BY <1>1, <1>2
  <2> QED BY <2>1
<1>5. \A m, n : Renamed(p, q, m) \subseteq Renamed(p, q, n) <=> m \subseteq n
  BY <1>1, <1>2
<1>6. \A m, n : Renamed(p, q, m) = Renamed(p, q, n) <=> m = n
  BY <1>4
<1>7. \A n, P : p \in P /\ q \in P => (n \subseteq P <=> Renamed(p, q, n) \subseteq P)
  <2>1. \A P, x : p \in P /\ q \in P => (x \in P <=> Other(p, q, x) \in P)
    BY DEF Other
  <2> QED BY <1>1, <1>2, <2>1
<1>8. \A P : p \in P /\ q \in P => Renamed(p, q, P) = P
  <2>1. \A P, x : p \in P /\ q \in P => (x \in P <=> Other(p, q, x) \in P)
    BY DEF Other
  <2>2. \A P : p \in P /\ q \in P => \A x : x \in Renamed(p, q, P) <=> x \in P
    BY <1>2, <2>1
  <2> SUFFICES ASSUME NEW P, p \in P, q \in P PROVE Renamed(p, q, P) = P
    OBVIOUS
  <2> QED BY <2>2
<1> QED BY <1>2, <1>3, <1>4, <1>5, <1>6, <1>7, <1>8

(* SwapLeaves with its local operators named.                              *)
LEMMA SwapDef ==
  \A t, p, q :
    SwapLeaves(t, p, q) =
      [m \in {Renamed(p, q, n) : n \in DOMAIN t} |->
         [t[Renamed(p, q, m)] EXCEPT
            !.kids = [i \in DOMAIN t[Renamed(p, q, m)].kids |-> Renamed(p, q, t[Renamed(p, q, m)].kids[i])]]]
BY DEF SwapLeaves, Renamed, Other

(* Swapped panes leave every box in order, and every other pane its size.  *)
LEMMA SwapIs ==
  ASSUME NEW t, Tree(t), NEW p \in PanesOf(t), NEW q \in PanesOf(t)
  PROVE  LET r == SwapLeaves(t, p, q)
         IN  /\ Tree(r) /\ PanesOf(r) = PanesOf(t)
             /\ Root(r).at = Root(t).at /\ Root(r).len = Root(t).len
             /\ (Laid(t) => Laid(r)) /\ (Ample(t) => Ample(r))
             /\ \A x \in PanesOf(t) \ {p, q} : CellOf(r, x).len = CellOf(t, x).len
<1> DEFINE r == SwapLeaves(t, p, q)
           P == PanesOf(t)
           R(n) == Renamed(p, q, n)
           NewKids(n) == [i \in 1..Count(t, n) |-> R(Kids(t, n)[i])]
<1>1. /\ \A n, x : Other(p, q, x) \in R(n) <=> x \in n
      /\ \A n, x : x \in R(n) <=> Other(p, q, x) \in n
      /\ \A n : R(R(n)) = n
      /\ \A m, n : R(m) \subseteq R(n) <=> m \subseteq n
      /\ \A m, n : R(m) = R(n) <=> m = n
      /\ \A n : n \subseteq P <=> R(n) \subseteq P
      /\ R(P) = P
  <2>1. /\ \A n, x : Other(p, q, x) \in R(n) <=> x \in n
        /\ \A n, x : x \in R(n) <=> Other(p, q, x) \in n
        /\ \A n : R(R(n)) = n
        /\ \A m, n : R(m) \subseteq R(n) <=> m \subseteq n
    BY RenamedIs
  <2>2. \A m, n : R(m) = R(n) <=> m = n
    <3> HIDE DEF R
    <3> QED BY <2>1
  <2>3. p \in P /\ q \in P
    OBVIOUS
  <2>4. \A n : n \subseteq P <=> R(n) \subseteq P
    <3> HIDE DEF P
    <3> QED BY <2>3, RenamedIs
  <2>5. R(P) = P
    <3> HIDE DEF P
    <3> QED BY <2>3, RenamedIs
  <2> HIDE DEF R, P
  <2> QED BY <2>1, <2>2, <2>4, <2>5
<1>2. DOMAIN r = {R(n) : n \in DOMAIN t} /\ \A m : m \in DOMAIN r <=> R(m) \in DOMAIN t
  <2>1. DOMAIN r = {R(n) : n \in DOMAIN t}
    BY SwapDef
  <2> HIDE DEF R, r
  <2> QED BY <1>1, <2>1
<1>3. ASSUME NEW n \in DOMAIN t
      PROVE  /\ R(n) \in DOMAIN r /\ r[R(n)] = [t[n] EXCEPT !.kids = NewKids(n)]
  <2>1. R(n) \in DOMAIN r /\ R(R(n)) = n
    BY <1>1, <1>2
  <2>2. DOMAIN t[n].kids = 1..Count(t, n)
    BY CellFacts
  <2>3. r[R(n)] = [t[R(R(n))] EXCEPT !.kids = [i \in DOMAIN t[R(R(n))].kids |-> R(t[R(R(n))].kids[i])]]
    BY <1>2, <2>1, SwapDef
  <2> HIDE DEF R, r
  <2>4. r[R(n)] = [t[n] EXCEPT !.kids = [i \in 1..Count(t, n) |-> R(t[n].kids[i])]]
    BY <2>1, <2>2, <2>3
  <2> QED BY <2>1, <2>4 DEF Kids
<1>z. \A m \in DOMAIN r : R(m) \in DOMAIN t /\ m = R(R(m))
  BY <1>1, <1>2
<1>k. r = [m \in DOMAIN r |-> r[m]]
  BY SwapDef
<1> HIDE DEF R, r
<1>4. ASSUME NEW n \in DOMAIN t
      PROVE  /\ NewKids(n) \in Seq(SUBSET P) /\ Len(NewKids(n)) = Count(t, n)
             /\ \A i \in 1..Count(t, n) : NewKids(n)[i] = R(Kids(t, n)[i])
  <2>1. Count(t, n) \in Nat /\ t[n].kids \in Seq(SUBSET P)
    BY CellFacts
  <2>2. \A i \in 1..Count(t, n) : Kids(t, n)[i] \in SUBSET P
    BY <2>1, ElementOfSeq DEF Count, Kids
  <2>3. \A i \in 1..Count(t, n) : R(Kids(t, n)[i]) \in SUBSET P
    BY <1>1, <2>2
  <2>4. NewKids(n) \in [1..Count(t, n) -> SUBSET P]
    BY <2>3
  <2>5. NewKids(n) \in Seq(SUBSET P) /\ Len(NewKids(n)) = Count(t, n)
    <3> DEFINE g == NewKids(n)
    <3> HIDE DEF g
    <3>1. g \in Seq(SUBSET P) /\ Len(g) = Count(t, n)
      BY <2>1, <2>4, FunIsSeq DEF g
    <3> QED BY <3>1 DEF g
  <2> QED BY <2>5
<1>5. ASSUME NEW n \in DOMAIN t
      PROVE  /\ r[R(n)] \in Cell(P) /\ r[R(n)].kind = t[n].kind /\ Kids(r, R(n)) = NewKids(n)
             /\ r[R(n)].at = t[n].at /\ r[R(n)].len = t[n].len /\ Count(r, R(n)) = Count(t, n)
  <2>1. t[n] \in Cell(P)
    BY CellFacts
  <2> DEFINE g == NewKids(n)
  <2>2. g \in Seq(SUBSET P) /\ r[R(n)] = [t[n] EXCEPT !.kids = g] /\ Len(g) = Count(t, n)
    BY <1>3, <1>4
  <2> HIDE DEF g
  <2>3. /\ r[R(n)] \in Cell(P) /\ r[R(n)].kind = t[n].kind /\ r[R(n)].kids = g
        /\ r[R(n)].at = t[n].at /\ r[R(n)].len = t[n].len
    BY <2>1, <2>2 DEF Cell
  <2> QED BY <2>2, <2>3 DEF g, Kids, Count
<1> HIDE DEF NewKids
<1>6. PanesOf(r) = P
  <2>1. ASSUME NEW x \in PanesOf(r) PROVE x \in P
    <3>1. PICK m \in DOMAIN r : x \in m
      BY DEF PanesOf
    <3>2. R(m) \in DOMAIN t
      BY <1>z
    <3>3. R(m) \subseteq P
      BY <3>2, CellFacts
    <3> QED BY <1>1, <3>1, <3>3
  <2>2. P \in DOMAIN r
    <3>1. P \in DOMAIN t
      BY DEF Tree, Typed
    <3> QED BY <1>1, <1>2, <3>1
  <2>3. ASSUME NEW x \in P PROVE x \in PanesOf(r)
    BY <2>2 DEF PanesOf
  <2> QED BY <2>1, <2>3
<1>7. Typed(r)
  <2>1. IsFiniteSet(P) /\ P \in DOMAIN t /\ {} \notin DOMAIN t
    BY DEF Tree, Typed
  <2>2. P \in DOMAIN r
    BY <1>1, <1>2, <2>1
  <2>3. {} \notin DOMAIN r
    <3>1. R({}) = {}
      BY DEF R, Renamed
    <3> QED BY <1>2, <2>1, <3>1
  <2>4. \A m \in DOMAIN r : r[m] \in Cell(P)
    BY <1>z, <1>5
  <2> QED BY <1>6, <1>k, <2>1, <2>2, <2>3, <2>4 DEF Typed
<1>8. \A n \in DOMAIN t : n \in Boxes(t) <=> R(n) \in Boxes(r)
  BY <1>3, <1>5 DEF Boxes
<1>9. \A c \in Boxes(r) : R(c) \in Boxes(t) /\ R(R(c)) = c
  BY <1>z, <1>8 DEF Boxes
<1>10. \A b \in Boxes(t) : /\ b \in DOMAIN t /\ Count(r, R(b)) = Count(t, b)
                           /\ \A i \in 1..Count(t, b) : Kids(r, R(b))[i] = R(Kids(t, b)[i])
  BY <1>4, <1>5 DEF Boxes
<1>11. \A x : R({x}) = {Other(p, q, x)} /\ (x \in P => Other(p, q, x) \in P)
  BY DEF R, Renamed, Other
<1>12. Leafy(r)
  <2>1. ASSUME NEW x \in P PROVE {x} \in DOMAIN r /\ r[{x}].kind = "leaf"
    <3> DEFINE y == Other(p, q, x)
    <3>1. y \in P /\ R({y}) = {x} /\ R({x}) = {y}
      <4>1. Other(p, q, y) = x
        BY DEF Other
      <4> QED BY <1>11, <4>1
    <3>2. {y} \in DOMAIN t /\ t[{y}].kind = "leaf"
      BY <3>1 DEF Tree, Leafy
    <3> HIDE DEF y
    <3> QED BY <1>3, <1>5, <3>1, <3>2
  <2>2. ASSUME NEW m \in DOMAIN r, r[m].kind = "leaf"
        PROVE  r[m].kids = <<>> /\ \E x \in P : m = {x}
    <3> DEFINE n == R(m)
    <3>1. n \in DOMAIN t /\ R(n) = m
      BY <1>z
    <3> HIDE DEF n
    <3>2. t[n].kind = "leaf"
      BY <1>5, <2>2, <3>1
    <3>3. t[n].kids = <<>> /\ \E y \in P : n = {y}
      BY <3>1, <3>2 DEF Tree, Leafy
    <3>4. PICK y \in P : n = {y}
      BY <3>3
    <3>5. m = {Other(p, q, y)} /\ Other(p, q, y) \in P
      BY <1>11, <3>1, <3>4
    <3>6. Len(r[m].kids) = 0 /\ r[m].kids \in Seq(SUBSET P)
      <4>1. Count(t, n) = 0
        BY <3>1, <3>2, CellFacts
      <4>2. Count(r, m) = 0 /\ r[m] \in Cell(P)
        BY <1>5, <3>1, <4>1
      <4> QED BY <4>2 DEF Count, Cell
    <3>7. r[m].kids = <<>>
      BY <3>6, EmptySeq
    <3> QED BY <3>5, <3>7
  <2> QED BY <1>6, <2>1, <2>2 DEF Leafy
<1>13. Kin(r)
  <2> SUFFICES ASSUME NEW c \in Boxes(r)
        PROVE /\ Count(r, c) >= 2
              /\ \A i \in 1..Count(r, c) : Kids(r, c)[i] \in DOMAIN r /\ Kids(r, c)[i] \subseteq c
              /\ \A x \in c : \E i \in 1..Count(r, c) : x \in Kids(r, c)[i]
              /\ \A i, j \in 1..Count(r, c) : i # j => Kids(r, c)[i] \cap Kids(r, c)[j] = {}
    BY DEF Kin
  <2> DEFINE b == R(c)
  <2>1. b \in Boxes(t) /\ R(b) = c
    BY <1>9
  <2> HIDE DEF b
  <2>2. Count(r, c) = Count(t, b) /\ \A i \in 1..Count(t, b) : Kids(r, c)[i] = R(Kids(t, b)[i])
    BY <1>10, <2>1
  <2>3. /\ Count(t, b) >= 2
        /\ \A i \in 1..Count(t, b) : Kids(t, b)[i] \in DOMAIN t /\ Kids(t, b)[i] \subseteq b
        /\ \A x \in b : \E i \in 1..Count(t, b) : x \in Kids(t, b)[i]
        /\ \A i, j \in 1..Count(t, b) : i # j => Kids(t, b)[i] \cap Kids(t, b)[j] = {}
    BY <2>1 DEF Tree, Kin
  <2>4. ASSUME NEW i \in 1..Count(t, b) PROVE Kids(r, c)[i] \in DOMAIN r /\ Kids(r, c)[i] \subseteq c
    <3>1. Kids(r, c)[i] = R(Kids(t, b)[i]) /\ Kids(t, b)[i] \in DOMAIN t /\ Kids(t, b)[i] \subseteq b
      BY <2>2, <2>3
    <3>2. R(Kids(t, b)[i]) \in DOMAIN r
      BY <1>3, <3>1
    <3>3. R(Kids(t, b)[i]) \subseteq R(b)
      BY <1>1, <3>1
    <3> QED BY <2>1, <3>1, <3>2, <3>3
  <2>5. ASSUME NEW x \in c PROVE \E i \in 1..Count(t, b) : x \in Kids(r, c)[i]
    <3>1. Other(p, q, x) \in b
      BY <1>1, <2>1
    <3>2. PICK i \in 1..Count(t, b) : Other(p, q, x) \in Kids(t, b)[i]
      BY <2>3, <3>1
    <3> QED BY <1>1, <2>2, <3>2
  <2>6. ASSUME NEW i \in 1..Count(t, b), NEW j \in 1..Count(t, b), i # j
        PROVE  Kids(r, c)[i] \cap Kids(r, c)[j] = {}
    <3>1. ASSUME NEW x, x \in Kids(r, c)[i], x \in Kids(r, c)[j] PROVE FALSE
      <4>1. x \in R(Kids(t, b)[i]) /\ x \in R(Kids(t, b)[j])
        BY <2>2, <3>1
      <4>2. Other(p, q, x) \in Kids(t, b)[i] /\ Other(p, q, x) \in Kids(t, b)[j]
        BY <1>1, <4>1
      <4> QED BY <2>3, <2>6, <4>2
    <3> QED BY <3>1
  <2> QED BY <2>2, <2>3, <2>4, <2>5, <2>6
<1>14. Nested(r)
  <2> SUFFICES ASSUME NEW c \in Boxes(r), NEW m \in DOMAIN r, m \subseteq c, m # c
               PROVE  \E i \in 1..Count(r, c) : m \subseteq Kids(r, c)[i]
    BY DEF Nested
  <2> DEFINE b == R(c)
             n == R(m)
  <2>1. b \in Boxes(t) /\ R(b) = c /\ n \in DOMAIN t /\ R(n) = m
    BY <1>9, <1>z
  <2> HIDE DEF b, n
  <2>2. n \subseteq b /\ n # b
    BY <1>1, <2>1
  <2>3. PICK i \in 1..Count(t, b) : n \subseteq Kids(t, b)[i]
    BY <2>1, <2>2 DEF Tree, Nested
  <2> QED BY <1>1, <1>10, <2>1, <2>3
<1>15. Tree(r)
  BY <1>7, <1>12, <1>13, <1>14 DEF Tree
<1>16. ASSUME NEW c \in Boxes(r) PROVE R(c) \in Boxes(t) /\ Alike(t, R(c), r, c)
  <2> DEFINE b == R(c)
  <2>1. b \in Boxes(t) /\ R(b) = c /\ b \in DOMAIN t
    BY <1>9, <1>10
  <2> HIDE DEF b
  <2>2. Count(r, c) = Count(t, b) /\ \A i \in 1..Count(t, b) : Kids(r, c)[i] = R(Kids(t, b)[i])
    BY <1>10, <2>1
  <2>3. \A i \in 1..Count(t, b) : Kids(t, b)[i] \in DOMAIN t
    BY <2>1, KidFacts
  <2>4. ASSUME NEW i \in 1..Count(t, b)
        PROVE  KidAt(r, c, i).at = KidAt(t, b, i).at /\ KidAt(r, c, i).len = KidAt(t, b, i).len
    BY <1>5, <2>2, <2>3 DEF KidAt
  <2>5. r[c].kind = t[b].kind /\ r[c].at = t[b].at /\ r[c].len = t[b].len
    BY <1>5, <2>1
  <2> QED BY <2>1, <2>2, <2>4, <2>5 DEF Alike, b
<1>17. \A c \in Boxes(r) : (Laid(t) => Fits(r, c)) /\ (Ample(t) => Full(r, c))
  BY <1>16, AlikeFits DEF Laid, Ample
<1>18. Root(r).at = Root(t).at /\ Root(r).len = Root(t).len
  <2>1. P \in DOMAIN t
    BY DEF Tree, Typed
  <2> QED BY <1>1, <1>5, <1>6, <2>1 DEF Root
<1>19. ASSUME NEW x \in P \ {p, q} PROVE CellOf(r, x).len = CellOf(t, x).len
  <2>1. {x} \in DOMAIN t /\ R({x}) = {x}
    <3>1. Other(p, q, x) = x
      BY DEF Other
    <3> QED BY <1>11, <3>1 DEF Tree, Leafy
  <2> QED BY <1>5, <2>1 DEF CellOf
<1> QED BY <1>6, <1>15, <1>17, <1>18, <1>19 DEF r, Laid, Ample

---------------------------------------------------------------------------
(* A pane removed. *)

(* A sequence without its i-th element.                                    *)
LEMMA RemoveAtIs ==
  ASSUME NEW S, NEW s \in Seq(S), NEW i \in 1..Len(s)
  PROVE  LET u == RemoveAt(s, i)
         IN  /\ u \in Seq(S) /\ Len(s) \in Nat /\ Len(u) = Len(s) - 1
             /\ \A j \in 1..Len(s) - 1 : u[j] = IF j < i THEN s[j] ELSE s[j + 1]
<1> DEFINE v == SubSeq(s, 1, i - 1)
           w == SubSeq(s, i + 1, Len(s))
<1>1. Len(s) \in Nat /\ \A j \in 1..Len(s) : s[j] \in S
  BY LenProperties, ElementOfSeq
<1>2. v \in Seq(S) /\ Len(v) = i - 1 /\ \A j \in 1..i - 1 : v[j] = s[j]
  <2>1. \A j \in 1..i - 1 : s[j] \in S
    BY <1>1
  <2>2. 1 \in Int /\ i - 1 \in Int
    BY <1>1
  <2>3. /\ v \in Seq(S) /\ Len(v) = IF 1 <= i - 1 THEN i - 1 - 1 + 1 ELSE 0
        /\ \A j \in 1 .. i - 1 - 1 + 1 : v[j] = s[1 + j - 1]
    BY <2>1, <2>2, SubSeqProperties
  <2> HIDE DEF v
  <2> QED BY <1>1, <2>3
<1>3. w \in Seq(S) /\ Len(w) = Len(s) - i /\ \A j \in 1..Len(s) - i : w[j] = s[i + j]
  <2>1. \A j \in i + 1..Len(s) : s[j] \in S
    BY <1>1
  <2>2. i + 1 \in Int /\ Len(s) \in Int
    BY <1>1
  <2>3. /\ w \in Seq(S) /\ Len(w) = IF i + 1 <= Len(s) THEN Len(s) - (i + 1) + 1 ELSE 0
        /\ \A j \in 1 .. Len(s) - (i + 1) + 1 : w[j] = s[i + 1 + j - 1]
    BY <2>1, <2>2, SubSeqProperties
  <2> HIDE DEF w
  <2>4. Len(s) - (i + 1) + 1 = Len(s) - i /\ \A j \in Int : i + 1 + j - 1 = i + j
    BY <1>1
  <2>5. ASSUME NEW j \in 1..Len(s) - i PROVE w[j] = s[i + j]
    <3>1. j \in 1 .. Len(s) - (i + 1) + 1
      BY <1>1
    <3>2. w[j] = s[i + 1 + j - 1]
      BY <2>3, <3>1
    <3>3. i + 1 + j - 1 = i + j
      BY <1>1
    <3> QED BY <3>2, <3>3
  <2>6. Len(w) = Len(s) - i
    BY <1>1, <2>3
  <2> QED BY <2>3, <2>5, <2>6
<1>4. RemoveAt(s, i) = v \o w
  BY DEF RemoveAt
<1> HIDE DEF v, w
<1>5. /\ v \o w \in Seq(S) /\ Len(v \o w) = Len(v) + Len(w)
      /\ \A j \in 1 .. Len(v) + Len(w) : (v \o w)[j] = IF j <= Len(v) THEN v[j] ELSE w[j - Len(v)]
  BY <1>2, <1>3, ConcatProperties
<1> DEFINE u == v \o w
<1> HIDE DEF u
<1>6. Len(u) = Len(s) - 1
  BY <1>1, <1>2, <1>3, <1>5 DEF u
<1>7. ASSUME NEW j \in 1..Len(s) - 1 PROVE u[j] = IF j < i THEN s[j] ELSE s[j + 1]
  <2>1. j \in 1 .. Len(v) + Len(w)
    BY <1>1, <1>2, <1>3
  <2>2. u[j] = IF j <= i - 1 THEN v[j] ELSE w[j - (i - 1)]
    BY <1>2, <1>5, <2>1 DEF u
  <2>3. CASE j < i
    <3>1. j <= i - 1 /\ j \in 1..i - 1
      BY <1>1, <2>3
    <3> QED BY <1>2, <2>2, <2>3, <3>1
  <2>4. CASE ~(j < i)
    <3>1. ~(j <= i - 1) /\ j - (i - 1) \in 1..Len(s) - i /\ i + (j - (i - 1)) = j + 1
      BY <1>1, <2>4
    <3>2. w[j - (i - 1)] = s[j + 1]
      BY <1>3, <3>1
    <3> QED BY <2>2, <2>4, <3>1, <3>2
  <2> QED BY <2>3, <2>4
<1> QED BY <1>1, <1>4, <1>5, <1>6, <1>7 DEF u

WithAt(S, s, i, x, u) ==
  /\ u \in Seq(S) /\ Len(s) \in Nat /\ Len(u) = Len(s) + 1
  /\ \A j \in 1..Len(s) + 1 : u[j] = IF j < i THEN s[j] ELSE IF j = i THEN x ELSE s[j - 1]

(* A sequence with an element inserted.                                    *)
LEMMA InsertAtIs ==
  ASSUME NEW S, NEW s \in Seq(S), NEW i \in 1..Len(s) + 1, NEW x \in S
  PROVE  WithAt(S, s, i, x, InsertAt(s, i, x))
<1> DEFINE v == SubSeq(s, 1, i - 1)
           w == SubSeq(s, i, Len(s))
           m == <<x>>
<1>1. Len(s) \in Nat /\ \A j \in 1..Len(s) : s[j] \in S
  BY LenProperties, ElementOfSeq
<1>2. v \in Seq(S) /\ Len(v) = i - 1 /\ \A j \in 1..i - 1 : v[j] = s[j]
  <2>1. \A j \in 1..i - 1 : s[j] \in S
    BY <1>1
  <2>2. 1 \in Int /\ i - 1 \in Int
    BY <1>1
  <2>3. /\ v \in Seq(S) /\ Len(v) = IF 1 <= i - 1 THEN i - 1 - 1 + 1 ELSE 0
        /\ \A j \in 1 .. i - 1 - 1 + 1 : v[j] = s[1 + j - 1]
    BY <2>1, <2>2, SubSeqProperties
  <2> HIDE DEF v
  <2> QED BY <1>1, <2>3
<1>3. w \in Seq(S) /\ Len(w) = Len(s) - i + 1 /\ \A j \in 1..Len(s) - i + 1 : w[j] = s[i + j - 1]
  <2>1. \A j \in i..Len(s) : s[j] \in S
    BY <1>1
  <2>2. i \in Int /\ Len(s) \in Int
    BY <1>1
  <2>3. /\ w \in Seq(S) /\ Len(w) = IF i <= Len(s) THEN Len(s) - i + 1 ELSE 0
        /\ \A j \in 1 .. Len(s) - i + 1 : w[j] = s[i + j - 1]
    BY <2>1, <2>2, SubSeqProperties
  <2> HIDE DEF w
  <2> QED BY <1>1, <2>3
<1>4. InsertAt(s, i, x) = (v \o m) \o w
  BY DEF InsertAt
<1>m. m \in Seq(S) /\ Len(m) = 1 /\ m[1] = x
  OBVIOUS
<1> HIDE DEF v, w, m
<1>5. /\ v \o m \in Seq(S) /\ Len(v \o m) = Len(v) + Len(m)
      /\ \A j \in 1 .. Len(v) + Len(m) : (v \o m)[j] = IF j <= Len(v) THEN v[j] ELSE m[j - Len(v)]
  BY <1>2, <1>m, ConcatProperties
<1> DEFINE q == v \o m
           u == q \o w
<1>6. q \in Seq(S) /\ Len(q) = i /\ \A j \in 1..i : q[j] = IF j < i THEN s[j] ELSE x
  <2> HIDE DEF q
  <2>1. q \in Seq(S) /\ Len(q) = i
    BY <1>1, <1>2, <1>m, <1>5 DEF q
  <2>2. ASSUME NEW j \in 1..i PROVE q[j] = IF j < i THEN s[j] ELSE x
    <3>1. j \in 1 .. Len(v) + Len(m)
      BY <1>1, <1>2, <1>m
    <3>2. q[j] = IF j <= i - 1 THEN v[j] ELSE m[j - (i - 1)]
      BY <1>2, <1>5, <3>1 DEF q
    <3>3. CASE j < i
      <4>1. j <= i - 1 /\ j \in 1..i - 1
        BY <1>1, <3>3
      <4> QED BY <1>2, <3>2, <3>3, <4>1
    <3>4. CASE ~(j < i)
      <4>1. ~(j <= i - 1) /\ j - (i - 1) = 1
        BY <1>1, <3>4
      <4> QED BY <1>m, <3>2, <3>4, <4>1
    <3> QED BY <3>3, <3>4
  <2> QED BY <2>1, <2>2
<1> HIDE DEF q
<1>7. /\ u \in Seq(S) /\ Len(u) = Len(q) + Len(w)
      /\ \A j \in 1 .. Len(q) + Len(w) : u[j] = IF j <= Len(q) THEN q[j] ELSE w[j - Len(q)]
  BY <1>3, <1>6, ConcatProperties
<1> HIDE DEF u
<1>8. Len(u) = Len(s) + 1
  BY <1>1, <1>3, <1>6, <1>7
<1>9. ASSUME NEW j \in 1..Len(s) + 1 PROVE u[j] = IF j < i THEN s[j] ELSE IF j = i THEN x ELSE s[j - 1]
  <2>1. j \in 1 .. Len(q) + Len(w)
    BY <1>1, <1>3, <1>6
  <2>2. u[j] = IF j <= i THEN q[j] ELSE w[j - i]
    BY <1>6, <1>7, <2>1
  <2>3. CASE j <= i
    <3>1. j \in 1..i /\ (j < i \/ j = i)
      BY <1>1, <2>3
    <3>2. ~(i < i)
      BY <1>1
    <3> QED BY <1>6, <2>2, <2>3, <3>1, <3>2
  <2>4. CASE ~(j <= i)
    <3>1. ~(j < i) /\ j # i /\ j - i \in 1..Len(s) - i + 1 /\ i + (j - i) - 1 = j - 1
      BY <1>1, <2>4
    <3>2. w[j - i] = s[j - 1]
      BY <1>3, <3>1
    <3> QED BY <2>2, <2>4, <3>1, <3>2
  <2> QED BY <2>3, <2>4
<1>10. WithAt(S, s, i, x, u)
  BY <1>1, <1>7, <1>8, <1>9 DEF WithAt
<1> QED BY <1>4, <1>10 DEF u, q

(* The tree without p, before the siblings share what was freed.           *)
Rest(t, p) ==
  LET box == Parent(t, {p})
      Kids0(n) == IF n = box THEN RemoveAt(t[n].kids, KidWith(t, n, p))
                  ELSE [i \in DOMAIN t[n].kids |-> t[n].kids[i] \ {p}]
  IN  [m \in {n \ {p} : n \in DOMAIN t} \ {{}} |->
         IF m \in DOMAIN t THEN t[m] ELSE [t[m \cup {p}] EXCEPT !.kids = Kids0(m \cup {p})]]
Old(t, p, m) == IF m \in DOMAIN t THEN m ELSE m \cup {p}
Skip(t, p, n, i) == IF n = Parent(t, {p}) /\ i >= KidWith(t, n, p) THEN i + 1 ELSE i

(* RemoveLeaf with its local operators named.                              *)
LEMMA RemoveDef ==
  \A t, p : RemoveLeaf(t, p) =
    Scale(Rest(t, p), Parent(t, {p}) \ {p}, t[Parent(t, {p})].at, t[Parent(t, {p})].len)
BY DEF RemoveLeaf, Rest

(* The box of a pane.                                                      *)
LEMMA BoxOfPane ==
  ASSUME NEW t, Tree(t), NEW p \in PanesOf(t), PanesOf(t) # {p}
  PROVE  LET b == Parent(t, {p})
         IN  /\ {p} \in DOMAIN t /\ b \in Boxes(t) /\ b \in DOMAIN t /\ p \in b /\ b # {p}
             /\ KidWith(t, b, p) \in 1..Count(t, b) /\ Kids(t, b)[KidWith(t, b, p)] = {p}
             /\ \A i \in 1..Count(t, b) : p \in Kids(t, b)[i] => i = KidWith(t, b, p)
<1> DEFINE b == Parent(t, {p})
<1>1. {p} \in DOMAIN t /\ {p} # PanesOf(t)
  BY DEF Tree, Leafy
<1>2. b \in Boxes(t) /\ \E i \in 1..Count(t, b) : Kids(t, b)[i] = {p}
  BY <1>1, ParentIs
<1> HIDE DEF b
<1>3. PICK i \in 1..Count(t, b) : Kids(t, b)[i] = {p}
  BY <1>2
<1>4. b \in DOMAIN t /\ p \in b /\ b # {p}
  BY <1>2, <1>3, KidFacts
<1>5. /\ KidWith(t, b, p) \in 1..Count(t, b)
      /\ \A j \in 1..Count(t, b) : p \in Kids(t, b)[j] => j = KidWith(t, b, p)
  BY <1>2, <1>4, KidWithIs
<1>6. i = KidWith(t, b, p)
  BY <1>3, <1>5
<1> QED BY <1>1, <1>2, <1>3, <1>4, <1>5, <1>6 DEF b

(* Only a box of p and one other cell shares its name with that cell.      *)
LEMMA Lone ==
  ASSUME NEW t, Tree(t), NEW p \in PanesOf(t), NEW n \in DOMAIN t, p \in n, n # {p},
         n \ {p} \in DOMAIN t
  PROVE  /\ n = Parent(t, {p}) /\ Parent(t, n \ {p}) = n
         /\ \A i, j, k \in 1..Count(t, n) : i = j \/ j = k \/ i = k
<1>1. n \in Boxes(t)
  <2>1. SUFFICES ASSUME t[n].kind = "leaf" PROVE FALSE
    BY CellFacts
  <2>2. PICK q \in PanesOf(t) : n = {q}
    BY <2>1 DEF Tree, Leafy
  <2> QED BY <2>2
<1> DEFINE m == n \ {p}
           k(i) == Kids(t, n)[i]
<1>2. m \subseteq n /\ m # n /\ m # {} /\ m \in DOMAIN t
  OBVIOUS
<1>3. PICK x \in 1..Count(t, n) : m \subseteq k(x)
  BY <1>1, <1>2 DEF Tree, Nested
<1>4. k(x) = m
  <2>1. k(x) \subseteq n /\ k(x) # n
    BY <1>1, KidFacts
  <2> QED BY <1>3, <2>1
<1>5. PICK y \in 1..Count(t, n) : p \in k(y)
  BY <1>1 DEF Tree, Kin
<1>6. \A i, j \in 1..Count(t, n) : i # j => k(i) \cap k(j) = {}
  BY <1>1 DEF Tree, Kin
<1>7. \A i \in 1..Count(t, n) : k(i) \subseteq n /\ k(i) # {}
  BY <1>1, KidFacts
<1>8. x # y /\ k(y) = {p}
  BY <1>4, <1>5, <1>6, <1>7
<1>9. ASSUME NEW i \in 1..Count(t, n) PROVE i = x \/ i = y
  <2>1. SUFFICES ASSUME i # x, i # y PROVE FALSE
    OBVIOUS
  <2>2. k(i) \cap k(x) = {} /\ k(i) \cap k(y) = {}
    BY <1>6, <2>1
  <2> QED BY <1>4, <1>7, <1>8, <2>2
<1>10. {p} \in DOMAIN t
  BY DEF Tree, Leafy
<1>11. Kids(t, n)[x] = m /\ Kids(t, n)[y] = {p}
  BY <1>4, <1>8
<1>12. \A l \in DOMAIN t : \A i \in 1..Count(t, n) : Kids(t, n)[i] = l => Parent(t, l) = n
  BY <1>1, ParentIs
<1> HIDE DEF m, k
<1>13. n = Parent(t, {p}) /\ Parent(t, m) = n
  BY <1>2, <1>10, <1>11, <1>12
<1> QED BY <1>9, <1>13 DEF m

(* A box of p and no lone cell has three children.                         *)
LEMMA NotLone ==
  ASSUME NEW t, Tree(t), NEW p \in PanesOf(t), PanesOf(t) # {p},
         Parent(t, {p}) \ {p} \notin DOMAIN t
  PROVE  Count(t, Parent(t, {p})) \in Nat /\ Count(t, Parent(t, {p})) >= 3
<1> DEFINE b == Parent(t, {p})
           j == KidWith(t, b, p)
           k == 3 - j
<1>1. /\ b \in Boxes(t) /\ b \in DOMAIN t /\ p \in b /\ j \in 1..Count(t, b) /\ Kids(t, b)[j] = {p}
  BY BoxOfPane
<1>2. Count(t, b) \in Nat /\ Count(t, b) >= 2
  BY <1>1, LensAre
<1>3. SUFFICES ASSUME Count(t, b) = 2 PROVE FALSE
  BY <1>2
<1>4. j \in 1..2 /\ k \in 1..2 /\ k # j /\ \A i \in 1..2 : i = j \/ i = k
  BY <1>1, <1>3
<1> HIDE DEF b, j, k
<1>5. Kids(t, b)[k] \subseteq b /\ Kids(t, b)[k] \in DOMAIN t
  BY <1>1, <1>3, <1>4, KidFacts
<1>6. Kids(t, b)[k] \cap {p} = {}
  BY <1>1, <1>3, <1>4 DEF Tree, Kin
<1>7. \A x \in b : x \in Kids(t, b)[j] \/ x \in Kids(t, b)[k]
  BY <1>1, <1>3, <1>4 DEF Tree, Kin
<1>8. Kids(t, b)[k] = b \ {p}
  BY <1>1, <1>5, <1>6, <1>7
<1> QED BY <1>5, <1>8 DEF b

(* Where the cells of the rest come from.                                  *)
LEMMA OldIs ==
  ASSUME NEW t, Tree(t), NEW p \in PanesOf(t)
  PROVE  /\ \A m \in DOMAIN Rest(t, p) :
              /\ Old(t, p, m) \in DOMAIN t /\ m = Old(t, p, m) \ {p} /\ m # {} /\ p \notin m
              /\ Old(t, p, m) # {p} /\ (m \in DOMAIN t <=> p \notin Old(t, p, m))
         /\ \A n \in DOMAIN t \ {{p}} : n \ {p} \in DOMAIN Rest(t, p)
         /\ \A n \in DOMAIN t \ {{p}} :
              n \ {p} # Parent(t, {p}) \ {p} => Old(t, p, n \ {p}) = n
         /\ \A n \in DOMAIN t \ {{p}} : p \notin n => Old(t, p, n \ {p}) = n /\ n \ {p} = n
<1> DEFINE D == {n \ {p} : n \in DOMAIN t} \ {{}}
<1>1. DOMAIN Rest(t, p) = D
  BY DEF Rest
<1>2. ASSUME NEW m \in D
      PROVE  /\ Old(t, p, m) \in DOMAIN t /\ m = Old(t, p, m) \ {p} /\ m # {} /\ p \notin m
             /\ Old(t, p, m) # {p} /\ (m \in DOMAIN t <=> p \notin Old(t, p, m))
  <2>1. PICK n \in DOMAIN t : m = n \ {p}
    OBVIOUS
  <2>2. CASE m \in DOMAIN t
    BY <2>1, <2>2 DEF Old
  <2>3. CASE m \notin DOMAIN t
    <3>1. p \in n
      BY <2>1, <2>3
    <3>2. m \cup {p} = n
      BY <2>1, <3>1
    <3> QED BY <2>1, <2>3, <3>1, <3>2 DEF Old
  <2> QED BY <2>2, <2>3
<1>3. ASSUME NEW n \in DOMAIN t \ {{p}} PROVE n \ {p} \in D
  <2>1. n # {}
    BY CellFacts
  <2> QED BY <2>1
<1>4. ASSUME NEW n \in DOMAIN t \ {{p}}, p \notin n PROVE Old(t, p, n \ {p}) = n /\ n \ {p} = n
  <2>1. n \ {p} = n
    BY <1>4
  <2> QED BY <2>1 DEF Old
<1>5. ASSUME NEW n \in DOMAIN t \ {{p}}, n \ {p} # Parent(t, {p}) \ {p} PROVE Old(t, p, n \ {p}) = n
  <2>1. CASE p \notin n
    BY <1>4, <2>1
  <2>2. CASE p \in n
    <3>1. n \ {p} \notin DOMAIN t
      BY <1>5, <2>2, Lone
    <3>2. (n \ {p}) \cup {p} = n
      BY <2>2
    <3> QED BY <3>1, <3>2 DEF Old
  <2> QED BY <2>1, <2>2
<1> QED BY <1>1, <1>2, <1>3, <1>4, <1>5

(* The cells of the rest, and their children.                              *)
RestCell(t, p, r, m, n) ==
  /\ r[m] \in Cell(PanesOf(t) \ {p})
  /\ r[m].kind = t[n].kind /\ r[m].at = t[n].at /\ r[m].len = t[n].len
  /\ Count(r, m) = (IF n = Parent(t, {p}) THEN Count(t, n) - 1 ELSE Count(t, n))
  /\ \A i \in 1..Count(r, m) :
       /\ Skip(t, p, n, i) \in 1..Count(t, n)
       /\ Kids(r, m)[i] = Kids(t, n)[Skip(t, p, n, i)] \ {p}
       /\ Kids(t, n)[Skip(t, p, n, i)] # {p}

(* Each cell of the rest is the old one without p.                         *)
LEMMA RestCells ==
  ASSUME NEW t, Tree(t), NEW p \in PanesOf(t), PanesOf(t) # {p}, NEW m \in DOMAIN Rest(t, p)
  PROVE  RestCell(t, p, Rest(t, p), m, Old(t, p, m))
<1> DEFINE r == Rest(t, p)
           n == Old(t, p, m)
           P == PanesOf(t)
           box == Parent(t, {p})
           j == KidWith(t, box, p)
<1>1. /\ n \in DOMAIN t /\ m = n \ {p} /\ m # {} /\ p \notin m /\ n # {p}
      /\ (m \in DOMAIN t <=> p \notin n)
  <2>1. \A l \in DOMAIN Rest(t, p) :
           /\ Old(t, p, l) \in DOMAIN t /\ l = Old(t, p, l) \ {p} /\ l # {} /\ p \notin l
           /\ Old(t, p, l) # {p} /\ (l \in DOMAIN t <=> p \notin Old(t, p, l))
    BY OldIs
  <2> QED BY <2>1
<1>2. /\ {p} \in DOMAIN t /\ box \in Boxes(t) /\ p \in box /\ j \in 1..Count(t, box)
      /\ Kids(t, box)[j] = {p} /\ \A i \in 1..Count(t, box) : p \in Kids(t, box)[i] => i = j
  BY BoxOfPane
<1>3. /\ t[n] \in Cell(P) /\ Count(t, n) \in Nat /\ DOMAIN t[n].kids = 1..Count(t, n)
      /\ t[n].kids \in Seq(SUBSET P)
  BY <1>1, CellFacts
<1>4. \A i \in 1..Count(t, n) : Kids(t, n)[i] \subseteq n /\ Kids(t, n)[i] \subseteq P /\ Kids(t, n)[i] # {}
  <2>1. CASE n \in Boxes(t)
    BY <1>1, <2>1, KidFacts, CellFacts
  <2>2. CASE n \notin Boxes(t)
    <3>1. Count(t, n) = 0
      BY <1>1, <2>2, CellFacts
    <3> QED BY <3>1
  <2> QED BY <2>1, <2>2
<1>5. n # box => \A i \in 1..Count(t, n) : Kids(t, n)[i] # {p}
  <2>1. SUFFICES ASSUME n # box, NEW i \in 1..Count(t, n), Kids(t, n)[i] = {p} PROVE FALSE
    OBVIOUS
  <2>2. n \in Boxes(t)
    <3>1. Count(t, n) # 0
      BY <1>3
    <3> QED BY <1>1, <3>1, CellFacts
  <2>3. \A c \in Boxes(t) : \A k \in 1..Count(t, c) : Kids(t, c)[k] = {p} => Parent(t, {p}) = c
    BY <1>2, ParentIs
  <2>4. Parent(t, {p}) = n
    BY <2>1, <2>2, <2>3
  <2> QED BY <2>1, <2>4
<1>6. IF m \in DOMAIN t THEN r[m] = t[n]
      ELSE r[m] = [t[n] EXCEPT !.kids =
             IF n = box THEN RemoveAt(t[n].kids, KidWith(t, n, p))
             ELSE [i \in DOMAIN t[n].kids |-> t[n].kids[i] \ {p}]]
  <2>1. CASE m \in DOMAIN t
    BY <2>1 DEF Rest, Old
  <2>2. CASE m \notin DOMAIN t
    BY <2>2 DEF Rest, Old
  <2> QED BY <2>1, <2>2
<1> HIDE DEF r, n, box, j
<1>7. ASSUME NEW K, K \in Seq(SUBSET (P \ {p})), r[m] = [t[n] EXCEPT !.kids = K]
      PROVE  /\ r[m] \in Cell(P \ {p}) /\ Kids(r, m) = K /\ Count(r, m) = Len(K)
             /\ r[m].kind = t[n].kind /\ r[m].at = t[n].at /\ r[m].len = t[n].len
  BY <1>3, <1>7 DEF Cell, Kids, Count
<1>8. ASSUME n # box
      PROVE  /\ r[m] \in Cell(P \ {p}) /\ Count(r, m) = Count(t, n)
             /\ r[m].kind = t[n].kind /\ r[m].at = t[n].at /\ r[m].len = t[n].len
             /\ \A i \in 1..Count(t, n) : Kids(r, m)[i] = Kids(t, n)[i] \ {p}
  <2> DEFINE K == [i \in 1..Count(t, n) |-> Kids(t, n)[i] \ {p}]
  <2>1. K \in [1..Count(t, n) -> SUBSET (P \ {p})]
    BY <1>4
  <2>2. K \in Seq(SUBSET (P \ {p})) /\ Len(K) = Count(t, n)
    BY <1>3, <2>1, FunIsSeq
  <2>3. r[m] = [t[n] EXCEPT !.kids = K]
    <3>1. CASE m \in DOMAIN t
      <4>1. r[m] = t[n]
        BY <1>6, <3>1
      <4>2. \A i \in 1..Count(t, n) : Kids(t, n)[i] \ {p} = Kids(t, n)[i]
        BY <1>1, <1>4, <3>1
      <4>3. t[n].kids = [i \in 1..Count(t, n) |-> t[n].kids[i]]
        BY <1>3
      <4>4. K = t[n].kids
        BY <4>2, <4>3 DEF Kids
      <4> HIDE DEF K
      <4>5. t[n] = [t[n] EXCEPT !.kids = t[n].kids]
        BY <1>3 DEF Cell
      <4> QED BY <4>1, <4>4, <4>5
    <3>2. CASE m \notin DOMAIN t
      BY <1>3, <1>6, <1>8, <3>2 DEF Kids
    <3> QED BY <3>1, <3>2
  <2>4. \A i \in 1..Count(t, n) : K[i] = Kids(t, n)[i] \ {p}
    OBVIOUS
  <2> HIDE DEF K
  <2> QED BY <1>7, <2>2, <2>3, <2>4
<1>9. ASSUME n = box
      PROVE  /\ r[m] \in Cell(P \ {p}) /\ Count(r, m) = Count(t, n) - 1
             /\ r[m].kind = t[n].kind /\ r[m].at = t[n].at /\ r[m].len = t[n].len
             /\ \A i \in 1..Count(t, n) - 1 :
                  Kids(r, m)[i] = Kids(t, n)[IF i < j THEN i ELSE i + 1] \ {p}
  <2>1. m \notin DOMAIN t /\ j \in 1..Len(t[n].kids) /\ KidWith(t, n, p) = j
    BY <1>1, <1>2, <1>9 DEF Count, j
  <2> DEFINE K == RemoveAt(t[n].kids, j)
  <2>2. /\ K \in Seq(SUBSET P) /\ Len(K) = Count(t, n) - 1
        /\ \A i \in 1..Count(t, n) - 1 : K[i] = IF i < j THEN t[n].kids[i] ELSE t[n].kids[i + 1]
    BY <1>3, <2>1, RemoveAtIs DEF Count
  <2>3. r[m] = [t[n] EXCEPT !.kids = K]
    BY <1>6, <1>9, <2>1
  <2> HIDE DEF K
  <2>4. ASSUME NEW i \in 1..Count(t, n) - 1
        PROVE  K[i] = Kids(t, n)[IF i < j THEN i ELSE i + 1] \ {p} /\ K[i] \in SUBSET (P \ {p})
    <3> DEFINE x == IF i < j THEN i ELSE i + 1
    <3>1. x \in 1..Count(t, n) /\ x # j
      BY <1>3, <2>1 DEF Count
    <3>2. K[i] = Kids(t, n)[x]
      BY <2>2 DEF Kids
    <3>3. p \notin Kids(t, n)[x]
      BY <1>2, <1>9, <3>1
    <3> QED BY <1>4, <3>1, <3>2, <3>3
  <2>5. K \in Seq(SUBSET (P \ {p}))
    <3>1. Count(t, n) - 1 \in Nat
      BY <1>3, <2>1 DEF Count
    <3>2. DOMAIN K = 1..Count(t, n) - 1 /\ K = [i \in 1..Count(t, n) - 1 |-> K[i]]
      BY <2>2, LenProperties
    <3>3. K \in [1..Count(t, n) - 1 -> SUBSET (P \ {p})]
      BY <2>4, <3>2
    <3> QED BY <3>1, <3>3, FunIsSeq
  <2> QED BY <1>7, <2>2, <2>3, <2>4, <2>5
<1>10. ASSUME NEW i \in 1..Count(r, m)
       PROVE  /\ Skip(t, p, n, i) \in 1..Count(t, n)
              /\ Kids(r, m)[i] = Kids(t, n)[Skip(t, p, n, i)] \ {p}
              /\ Kids(t, n)[Skip(t, p, n, i)] # {p}
  <2>1. CASE n # box
    <3>1. Skip(t, p, n, i) = i
      BY <2>1 DEF Skip, box
    <3> QED BY <1>5, <1>8, <2>1, <3>1
  <2>2. CASE n = box
    <3> DEFINE x == IF i < j THEN i ELSE i + 1
    <3>1. i \in 1..Count(t, n) - 1 /\ j \in 1..Count(t, n)
      BY <1>2, <1>9, <2>2
    <3>2. i \in Int /\ j \in Int /\ x \in 1..Count(t, n) /\ x # j
      BY <1>3, <3>1
    <3>3. Skip(t, p, n, i) = x
      BY <2>2, <3>2 DEF Skip, box, j
    <3>4. Kids(t, n)[x] # {p}
      BY <1>2, <2>2, <3>2
    <3>5. Kids(r, m)[i] = Kids(t, n)[x] \ {p}
      BY <1>9, <2>2, <3>1
    <3> QED BY <3>2, <3>3, <3>4, <3>5
  <2> QED BY <2>1, <2>2
<1> QED BY <1>8, <1>9, <1>10 DEF r, n, box, RestCell

(* Every other child of a box is a child of what is left of it, once.      *)
LEMMA SkipIs ==
  ASSUME NEW t, Tree(t), NEW p \in PanesOf(t), PanesOf(t) # {p}, NEW m \in DOMAIN Rest(t, p)
  PROVE  LET r == Rest(t, p)
             n == Old(t, p, m)
         IN  /\ Count(r, m) \in Nat
             /\ \A i, k \in 1..Count(r, m) : i # k => Skip(t, p, n, i) # Skip(t, p, n, k)
             /\ \A l \in 1..Count(t, n) : Kids(t, n)[l] # {p} =>
                  \E i \in 1..Count(r, m) : Skip(t, p, n, i) = l
             /\ (n \in Boxes(t) => Count(r, m) >= 2)
<1> DEFINE r == Rest(t, p)
           n == Old(t, p, m)
           box == Parent(t, {p})
           j == KidWith(t, box, p)
<1>1. n \in DOMAIN t /\ m = n \ {p}
  <2>1. \A l \in DOMAIN Rest(t, p) :
           /\ Old(t, p, l) \in DOMAIN t /\ l = Old(t, p, l) \ {p} /\ l # {} /\ p \notin l
           /\ Old(t, p, l) # {p} /\ (l \in DOMAIN t <=> p \notin Old(t, p, l))
    BY OldIs
  <2> QED BY <2>1
<1>2. Count(t, n) \in Nat
  BY <1>1, CellFacts
<1>3. /\ j \in 1..Count(t, box) /\ box \in Boxes(t) /\ Kids(t, box)[j] = {p} /\ p \in box
  BY BoxOfPane
<1>4. Count(r, m) = IF n = box THEN Count(t, n) - 1 ELSE Count(t, n)
  <2>1. RestCell(t, p, r, m, n)
    BY RestCells
  <2> QED BY <2>1 DEF RestCell
<1>5. n \in Boxes(t) => Count(t, n) >= 2
  BY LensAre
<1>6. ASSUME n = box PROVE Count(t, n) >= 3
  <2>1. box \ {p} \notin DOMAIN t
    <3>1. m \in DOMAIN t <=> p \notin n
      <4>1. \A l \in DOMAIN Rest(t, p) : (l \in DOMAIN t <=> p \notin Old(t, p, l))
        BY OldIs
      <4> QED BY <4>1
    <3> QED BY <1>1, <1>3, <1>6, <3>1
  <2>2. Count(t, box) \in Nat /\ Count(t, box) >= 3
    BY <2>1, NotLone
  <2> QED BY <1>6, <2>2
<1> HIDE DEF r, n, box, j
<1>7. CASE n # box
  <2>1. \A i : Skip(t, p, n, i) = i
    BY <1>7 DEF Skip, box
  <2> QED BY <1>2, <1>4, <1>5, <1>7, <2>1 DEF r, n
<1>8. CASE n = box
  <2>1. \A i : Skip(t, p, n, i) = IF i >= j THEN i + 1 ELSE i
    BY <1>8 DEF Skip, box, j
  <2>2. Count(t, n) \in Nat /\ Count(t, n) >= 3 /\ Count(r, m) = Count(t, n) - 1 /\ j \in 1..Count(t, n)
    BY <1>2, <1>3, <1>4, <1>6, <1>8
  <2>3. \A i, k \in 1..Count(r, m) : i # k => Skip(t, p, n, i) # Skip(t, p, n, k)
    BY <2>1, <2>2
  <2>4. ASSUME NEW l \in 1..Count(t, n), Kids(t, n)[l] # {p}
        PROVE  \E i \in 1..Count(r, m) : Skip(t, p, n, i) = l
    <3> DEFINE x == IF l > j THEN l - 1 ELSE l
    <3>1. l # j
      BY <1>3, <1>8, <2>4
    <3>2. x \in 1..Count(r, m) /\ (IF x >= j THEN x + 1 ELSE x) = l
      BY <2>2, <3>1
    <3>3. Skip(t, p, n, x) = l
      BY <2>1, <3>2
    <3> HIDE DEF x
    <3> QED BY <3>2, <3>3
  <2>5. Count(r, m) \in Nat /\ Count(r, m) >= 2
    BY <2>2
  <2> QED BY <2>3, <2>4, <2>5 DEF r, n
<1> QED BY <1>7, <1>8

(* The rest is a tree of one pane less.                                    *)
LEMMA RestIs ==
  ASSUME NEW t, Tree(t), NEW p \in PanesOf(t), PanesOf(t) # {p}
  PROVE  LET r == Rest(t, p)
         IN  /\ Tree(r) /\ PanesOf(r) = PanesOf(t) \ {p} /\ Parent(t, {p}) \ {p} \in DOMAIN r
             /\ \A m \in DOMAIN r : m \in Boxes(r) <=> Old(t, p, m) \in Boxes(t)
<1> DEFINE r == Rest(t, p)
           O(m) == Old(t, p, m)
           P == PanesOf(t)
           Q == P \ {p}
           K(n, i) == Kids(t, n)[Skip(t, p, n, i)]
<1>1. \A m \in DOMAIN r : /\ O(m) \in DOMAIN t /\ m = O(m) \ {p} /\ m # {} /\ p \notin m
                          /\ O(m) # {p} /\ (m \in DOMAIN t <=> p \notin O(m))
  BY OldIs
<1>2. /\ \A n \in DOMAIN t \ {{p}} : n \ {p} \in DOMAIN r
      /\ \A n \in DOMAIN t \ {{p}} : p \notin n => O(n \ {p}) = n /\ n \ {p} = n
  BY OldIs
<1>3. ASSUME NEW m \in DOMAIN r
      PROVE  /\ r[m] \in Cell(Q) /\ r[m].kind = t[O(m)].kind
             /\ \A i \in 1..Count(r, m) :
                  /\ Skip(t, p, O(m), i) \in 1..Count(t, O(m))
                  /\ Kids(r, m)[i] = K(O(m), i) \ {p} /\ K(O(m), i) # {p}
  <2>1. RestCell(t, p, r, m, O(m))
    BY RestCells
  <2> HIDE DEF r
  <2> QED BY <2>1 DEF RestCell
<1>4. ASSUME NEW m \in DOMAIN r
      PROVE  /\ Count(r, m) \in Nat
             /\ \A i, k \in 1..Count(r, m) : i # k => Skip(t, p, O(m), i) # Skip(t, p, O(m), k)
             /\ \A l \in 1..Count(t, O(m)) : Kids(t, O(m))[l] # {p} =>
                  \E i \in 1..Count(r, m) : Skip(t, p, O(m), i) = l
             /\ (O(m) \in Boxes(t) => Count(r, m) >= 2)
  BY SkipIs
<1>5. {p} \in DOMAIN t /\ P \in DOMAIN t /\ P # {p} /\ IsFiniteSet(P) /\ \A n \in DOMAIN t : n \subseteq P
  BY CellFacts DEF Tree, Typed, Leafy
<1>6. r = [m \in DOMAIN r |-> r[m]]
  BY DEF Rest
<1>7. Parent(t, {p}) \ {p} \in DOMAIN r
  <2>1. Parent(t, {p}) \in DOMAIN t /\ Parent(t, {p}) # {p}
    BY BoxOfPane
  <2> QED BY <1>2, <2>1
<1> HIDE DEF r
<1>8. \A m \in DOMAIN r : m \in Boxes(r) <=> O(m) \in Boxes(t)
  BY <1>1, <1>3 DEF Boxes
<1>9. PanesOf(r) = Q /\ Q \in DOMAIN r
  <2>1. Q \in DOMAIN r
    BY <1>2, <1>5
  <2>2. \A m \in DOMAIN r : m \subseteq Q
    BY <1>1, <1>5
  <2> QED BY <2>1, <2>2 DEF PanesOf
<1>10. Typed(r)
  <2>1. IsFiniteSet(Q)
    BY <1>5, FS_Subset
  <2>2. {} \notin DOMAIN r
    BY <1>1
  <2>3. r \in [DOMAIN r -> Cell(Q)]
    BY <1>3, <1>6
  <2> QED BY <1>9, <2>1, <2>2, <2>3 DEF Typed
<1>11. Leafy(r)
  <2>1. ASSUME NEW x \in Q PROVE {x} \in DOMAIN r /\ r[{x}].kind = "leaf"
    <3>1. {x} \in DOMAIN t /\ t[{x}].kind = "leaf" /\ {x} # {p} /\ p \notin {x}
      BY DEF Tree, Leafy
    <3>2. {x} \ {p} = {x} /\ O({x} \ {p}) = {x} /\ {x} \ {p} \in DOMAIN r
      BY <1>2, <3>1
    <3> QED BY <1>3, <3>1, <3>2
  <2>2. ASSUME NEW m \in DOMAIN r, r[m].kind = "leaf"
        PROVE  r[m].kids = <<>> /\ \E x \in Q : m = {x}
    <3>1. t[O(m)].kind = "leaf"
      BY <1>3, <2>2
    <3>2. PICK x \in P : O(m) = {x}
      BY <1>1, <3>1 DEF Tree, Leafy
    <3>3. x # p /\ m = {x}
      BY <1>1, <3>2
    <3>4. O(m) \notin Boxes(t) /\ Count(t, O(m)) = 0
      BY <1>1, <3>1, CellFacts
    <3>5. Count(r, m) = 0
      <4>1. SUFFICES ASSUME Count(r, m) # 0 PROVE FALSE
        OBVIOUS
      <4>2. 1 \in 1..Count(r, m)
        BY <1>4, <4>1
      <4>3. Skip(t, p, O(m), 1) \in 1..Count(t, O(m))
        BY <1>3, <4>2
      <4> QED BY <3>4, <4>3
    <3>6. r[m].kids \in Seq(SUBSET Q)
      BY <1>3 DEF Cell
    <3>7. r[m].kids = <<>>
      BY <3>5, <3>6, EmptySeq DEF Count
    <3> QED BY <3>3, <3>7
  <2> QED BY <1>9, <2>1, <2>2 DEF Leafy
<1>12. \A n \in Boxes(t) :
         /\ \A l \in 1..Count(t, n) : Kids(t, n)[l] \in DOMAIN t /\ Kids(t, n)[l] \subseteq n
         /\ \A x \in n : \E l \in 1..Count(t, n) : x \in Kids(t, n)[l]
         /\ \A l, k \in 1..Count(t, n) : l # k => Kids(t, n)[l] \cap Kids(t, n)[k] = {}
  BY DEF Tree, Kin
<1>13. ASSUME NEW b \in Boxes(r)
       PROVE  /\ Count(r, b) >= 2
              /\ \A i \in 1..Count(r, b) : Kids(r, b)[i] \in DOMAIN r /\ Kids(r, b)[i] \subseteq b
              /\ \A x \in b : \E i \in 1..Count(r, b) : x \in Kids(r, b)[i]
              /\ \A i, k \in 1..Count(r, b) : i # k => Kids(r, b)[i] \cap Kids(r, b)[k] = {}
  <2> DEFINE n == O(b)
  <2>1. b \in DOMAIN r /\ n \in Boxes(t) /\ b = n \ {p}
    BY <1>1, <1>8 DEF Boxes
  <2>2. \A i \in 1..Count(r, b) : /\ Skip(t, p, n, i) \in 1..Count(t, n)
                                  /\ Kids(r, b)[i] = K(n, i) \ {p} /\ K(n, i) # {p}
    BY <1>3, <2>1
  <2>3. \A i \in 1..Count(r, b) : Kids(r, b)[i] \in DOMAIN r /\ Kids(r, b)[i] \subseteq b
    BY <1>2, <1>12, <2>1, <2>2
  <2>4. ASSUME NEW x \in b PROVE \E i \in 1..Count(r, b) : x \in Kids(r, b)[i]
    <3>1. x \in n /\ x # p
      BY <2>1
    <3>2. PICK l \in 1..Count(t, n) : x \in Kids(t, n)[l]
      BY <1>12, <2>1, <3>1
    <3>3. Kids(t, n)[l] # {p}
      BY <3>1, <3>2
    <3>4. PICK i \in 1..Count(r, b) : Skip(t, p, n, i) = l
      BY <1>4, <2>1, <3>3
    <3>5. Kids(r, b)[i] = Kids(t, n)[l] \ {p}
      BY <2>2, <3>4
    <3> QED BY <3>1, <3>2, <3>5
  <2>5. ASSUME NEW i \in 1..Count(r, b), NEW k \in 1..Count(r, b), i # k
        PROVE  Kids(r, b)[i] \cap Kids(r, b)[k] = {}
    <3>1. Skip(t, p, n, i) # Skip(t, p, n, k)
      BY <1>4, <2>1, <2>5
    <3>2. K(n, i) \cap K(n, k) = {}
      BY <1>12, <2>1, <2>2, <3>1
    <3> QED BY <2>2, <3>2
  <2>6. Count(r, b) >= 2
    BY <1>4, <2>1
  <2> QED BY <2>3, <2>4, <2>5, <2>6
<1>14. Kin(r)
  BY <1>13 DEF Kin
<1>15. ASSUME NEW b \in Boxes(r), NEW m \in DOMAIN r, m \subseteq b, m # b
       PROVE  \E i \in 1..Count(r, b) : m \subseteq Kids(r, b)[i]
  <2> DEFINE n == O(b)
             k == O(m)
  <2>1. /\ b \in DOMAIN r /\ n \in Boxes(t) /\ n \in DOMAIN t /\ b = n \ {p}
        /\ k \in DOMAIN t /\ m = k \ {p} /\ m # {}
    BY <1>1, <1>8 DEF Boxes
  <2>2. PICK x : x \in m
    BY <2>1
  <2>3. k \subseteq n \/ n \subseteq k
    BY <1>15, <2>1, <2>2, Laminar
  <2>4. k \subseteq n /\ k # n
    BY <1>15, <2>1, <2>3
  <2>5. PICK l \in 1..Count(t, n) : k \subseteq Kids(t, n)[l]
    BY <2>1, <2>4 DEF Tree, Nested
  <2>6. Kids(t, n)[l] # {p}
    BY <2>1, <2>2, <2>5
  <2>7. PICK i \in 1..Count(r, b) : Skip(t, p, n, i) = l
    BY <1>4, <2>1, <2>6
  <2>8. Kids(r, b)[i] = Kids(t, n)[l] \ {p}
    BY <1>3, <2>1, <2>7
  <2> QED BY <2>1, <2>5, <2>8
<1>16. Nested(r)
  BY <1>15 DEF Nested
<1> QED BY <1>7, <1>8, <1>9, <1>10, <1>11, <1>14, <1>16 DEF Tree, r

(* A pane leaves: the boxes around it keep their order.                    *)
LEMMA RemoveIs ==
  ASSUME NEW t, Tree(t), NEW p \in PanesOf(t), PanesOf(t) # {p}
  PROVE  LET r == RemoveLeaf(t, p)
         IN  /\ Tree(r) /\ PanesOf(r) = PanesOf(t) \ {p}
             /\ Root(r).at = Root(t).at /\ Root(r).len = Root(t).len
             /\ (Laid(t) => Laid(r)) /\ (Ample(t) => Ample(r))
<1> DEFINE u == Rest(t, p)
           box == Parent(t, {p})
           c == box \ {p}
           r == Scale(u, c, t[box].at, t[box].len)
           O(m) == Old(t, p, m)
           P == PanesOf(t)
<1>1. RemoveLeaf(t, p) = r
  BY RemoveDef
<1>2. /\ Tree(u) /\ PanesOf(u) = P \ {p} /\ c \in DOMAIN u
      /\ \A m \in DOMAIN u : m \in Boxes(u) <=> O(m) \in Boxes(t)
  BY RestIs
<1>3. /\ box \in Boxes(t) /\ box \in DOMAIN t /\ p \in box
  BY BoxOfPane
<1>4. t[box].at \in Side /\ t[box].len \in Side
  BY <1>3, CellFacts DEF Side
<1>5. /\ \A m \in DOMAIN u : O(m) \in DOMAIN t /\ m = O(m) \ {p} /\ O(m) # {p}
                             /\ (m \in DOMAIN t <=> p \notin O(m))
      /\ \A n \in DOMAIN t \ {{p}} : n \ {p} \in DOMAIN u
      /\ \A n \in DOMAIN t \ {{p}} : n \ {p} # c => O(n \ {p}) = n
  BY OldIs
<1>6. \A m \in DOMAIN u : u[m].kind = t[O(m)].kind /\ u[m].at = t[O(m)].at /\ u[m].len = t[O(m)].len
  <2>1. \A m \in DOMAIN u : RestCell(t, p, u, m, O(m))
    BY RestCells
  <2> HIDE DEF u
  <2> QED BY <2>1 DEF RestCell
<1> HIDE DEF u, r, box, c
<1>7. /\ Tree(r) /\ PanesOf(r) = PanesOf(u) /\ Boxes(r) = Boxes(u)
      /\ r[c].at = t[box].at /\ r[c].len = t[box].len
      /\ \A m \in DOMAIN u : ~(m \subseteq c) => r[m] = u[m]
  <2>1. Scaled(u, c, t[box].at, t[box].len, r)
    BY <1>2, <1>4, ScaleIs DEF r
  <2> QED BY <2>1 DEF Scaled
<1>8. \A b \in Boxes(u) : b \subseteq c => Fits(r, b) /\ Full(r, b)
  BY <1>2, <1>4, ScaleLays DEF r
<1>9. \A b \in Boxes(u) : ~(b \subseteq c) =>
        r[b] = u[b] /\ \A i \in 1..Count(u, b) : Kids(u, b)[i] = c \/ r[Kids(u, b)[i]] = u[Kids(u, b)[i]]
  BY <1>2, <1>4, ScaleFrame DEF r
<1>10. ASSUME NEW b \in Boxes(u), ~(b \subseteq c) PROVE O(b) \in Boxes(t) /\ Alike(t, O(b), r, b)
  <2> DEFINE n == O(b)
  <2>1. b \in DOMAIN u /\ n \in Boxes(t) /\ n \in DOMAIN t /\ b = n \ {p}
    BY <1>2, <1>5 DEF Boxes
  <2>2. n # box
    BY <1>10, <2>1 DEF c
  <2>3. /\ Count(u, b) = Count(t, n)
        /\ \A i \in 1..Count(t, n) : Kids(u, b)[i] = Kids(t, n)[i] \ {p} /\ Kids(t, n)[i] # {p}
    <3>1. /\ Count(u, b) = (IF n = box THEN Count(t, n) - 1 ELSE Count(t, n))
          /\ \A i \in 1..Count(u, b) :
                  /\ Kids(u, b)[i] = Kids(t, n)[Skip(t, p, n, i)] \ {p}
                  /\ Kids(t, n)[Skip(t, p, n, i)] # {p}
      <4>1. RestCell(t, p, u, b, n)
        BY <2>1, RestCells DEF u
      <4> QED BY <4>1 DEF RestCell, box
    <3>2. \A i : Skip(t, p, n, i) = i
      BY <2>2 DEF Skip, box
    <3> QED BY <2>2, <3>1, <3>2
  <2>4. r[b] = u[b]
    BY <1>9, <1>10
  <2>5. ASSUME NEW i \in 1..Count(t, n)
        PROVE  /\ r[Kids(u, b)[i]].at = t[Kids(t, n)[i]].at
               /\ r[Kids(u, b)[i]].len = t[Kids(t, n)[i]].len
    <3> DEFINE k == Kids(t, n)[i]
    <3>1. k \in DOMAIN t /\ k # {p} /\ Kids(u, b)[i] = k \ {p} /\ k \ {p} \in DOMAIN u
      BY <1>5, <2>1, <2>3, KidFacts
    <3>2. Parent(t, k) = n
      BY <2>1, <3>1, ParentIs
    <3> HIDE DEF k
    <3>3. CASE k \ {p} = c
      <4>1. p \in k
        <5>1. SUFFICES ASSUME p \notin k PROVE FALSE
          OBVIOUS
        <5>2. c = k
          BY <3>3, <5>1
        <5>3. box # {p}
          BY BoxOfPane DEF box
        <5>4. Parent(t, box \ {p}) = box
          BY <1>3, <3>1, <5>2, <5>3, Lone DEF c
        <5> QED BY <2>2, <3>2, <5>2, <5>4 DEF c
      <4>2. k = box
        BY <1>3, <3>3, <4>1 DEF c
      <4> QED BY <1>7, <3>1, <3>3, <4>2 DEF k
    <3>4. CASE k \ {p} # c
      <4>1. r[k \ {p}] = u[k \ {p}]
        <5>1. Kids(u, b)[i] = c \/ r[Kids(u, b)[i]] = u[Kids(u, b)[i]]
          BY <1>9, <1>10, <2>3
        <5> QED BY <3>1, <3>4, <5>1
      <4>2. O(k \ {p}) = k
        BY <1>5, <3>1, <3>4
      <4> QED BY <1>6, <3>1, <4>1, <4>2 DEF k
    <3> QED BY <3>3, <3>4
  <2>6. Kids(r, b) = Kids(u, b) /\ Count(r, b) = Count(u, b)
    BY <2>4 DEF Kids, Count
  <2>7. r[b].kind = t[n].kind /\ r[b].at = t[n].at /\ r[b].len = t[n].len
    BY <1>6, <2>1, <2>4
  <2> QED BY <2>1, <2>3, <2>5, <2>6, <2>7 DEF Alike, KidAt
<1>11. ASSUME NEW b \in Boxes(u)
       PROVE  (Laid(t) => Fits(r, b)) /\ (Ample(t) => Full(r, b))
  <2>1. CASE b \subseteq c
    BY <1>8, <2>1
  <2>2. CASE ~(b \subseteq c)
    BY <1>10, <2>2, AlikeFits DEF Laid, Ample
  <2> QED BY <2>1, <2>2
<1>12. Root(r).at = Root(t).at /\ Root(r).len = Root(t).len
  <2> DEFINE Q == P \ {p}
  <2>1. /\ P \in DOMAIN t /\ P # {p} /\ Q \in DOMAIN u /\ box \subseteq P
    BY <1>2, <1>3, <1>5, CellFacts DEF Tree, Typed
  <2>2. CASE Q \subseteq c
    <3>1. P = box /\ Q = c
      BY <1>3, <2>1, <2>2 DEF c
    <3> QED BY <1>2, <1>7, <3>1 DEF Root
  <2>3. CASE ~(Q \subseteq c)
    <3>1. O(Q) = P
      BY <1>5, <2>1, <2>3
    <3> QED BY <1>2, <1>6, <1>7, <2>1, <2>3, <3>1 DEF Root
  <2> QED BY <2>2, <2>3
<1> QED BY <1>1, <1>2, <1>7, <1>11, <1>12 DEF Laid, Ample

---------------------------------------------------------------------------
(* A pane split. *)

InBox(t, p, a) == \E b \in DOMAIN t : t[b].kind = a /\ IsKid(t, b, {p})
Grew(t, p, a, new, n) == IF p \in n /\ ~(InBox(t, p, a) /\ n = {p}) THEN n \cup {new} ELSE n
GrewKids(t, p, a, new, n) ==
  LET kids == [i \in DOMAIN t[n].kids |-> Grew(t, p, a, new, t[n].kids[i])]
  IN  IF InBox(t, p, a) /\ IsKid(t, n, {p}) THEN InsertAt(kids, KidWith(t, n, p) + 1, {new}) ELSE kids

SplitAt(t, p, a, new, m) ==
  LET c == t[{p}]
      h == Halves(c.len[a])
  IN  CASE m = {p}      -> Leaf(c.at, [c.len EXCEPT ![a] = h[1]])
        [] m = {new}    -> Leaf([c.at EXCEPT ![a] = @ + h[1]], [c.len EXCEPT ![a] = h[2]])
        [] m = {p, new} -> Box(a, <<{p}, {new}>>, c.at, c.len)
        [] OTHER        -> [t[m \ {new}] EXCEPT !.kids = GrewKids(t, p, a, new, m \ {new})]

(* SplitLeaf with its local operators named.                               *)
LEMMA SplitDef ==
  \A t, p, a, new : SplitLeaf(t, p, a, new) =
    [m \in {Grew(t, p, a, new, n) : n \in DOMAIN t} \cup {{p}, {new}} |-> SplitAt(t, p, a, new, m)]
BY DEF SplitLeaf, SplitAt, Grew, GrewKids, InBox

(* Two halves make a whole, and both have a cell if it has two.            *)
LEMMA HalvesAre ==
  ASSUME NEW n \in Nat
  PROVE  LET h == Halves(n)
         IN  /\ h[1] \in Nat /\ h[2] \in Nat /\ h[1] + h[2] = n
             /\ (n >= 2 => h[1] >= 1 /\ h[2] >= 1) /\ (n = 0 => h[1] = 0)
             /\ h[2] <= n
<1> DEFINE d == n \div 2
<1>1. d \in Nat /\ d <= n /\ 2 * d <= n /\ n < 2 * d + 2
  OBVIOUS
<1>2. Halves(n)[1] = n - d /\ Halves(n)[2] = d
  BY DEF Halves
<1> HIDE DEF d
<1> QED BY <1>1, <1>2

(* The pane's own box runs the same way.                                   *)
LEMMA InBoxIs ==
  ASSUME NEW t, Tree(t), NEW p \in PanesOf(t), NEW a \in Axes
  PROVE  /\ \A n \in DOMAIN t : IsKid(t, n, {p}) <=> n = Parent(t, {p}) /\ PanesOf(t) # {p}
         /\ InBox(t, p, a) => PanesOf(t) # {p} /\ t[Parent(t, {p})].kind = a
         /\ PanesOf(t) # {p} /\ t[Parent(t, {p})].kind = a => InBox(t, p, a)
<1>1. ASSUME NEW n \in DOMAIN t, IsKid(t, n, {p}) PROVE n = Parent(t, {p}) /\ PanesOf(t) # {p}
  <2>1. PICK i \in 1..Count(t, n) : Kids(t, n)[i] = {p}
    <3>1. DOMAIN t[n].kids = 1..Count(t, n)
      BY CellFacts
    <3> QED BY <1>1, <3>1 DEF IsKid, Kids
  <2>2. n \in Boxes(t)
    <3>1. Count(t, n) # 0
      BY <2>1, CellFacts
    <3> QED BY <3>1, CellFacts
  <2>3. {p} \in DOMAIN t /\ {p} \subseteq n /\ n # {p} /\ n \subseteq PanesOf(t)
    <3>1. Kids(t, n)[i] \in DOMAIN t /\ Kids(t, n)[i] \subseteq n /\ Kids(t, n)[i] # n
      BY <2>2, KidFacts
    <3>2. n \subseteq PanesOf(t)
      BY CellFacts
    <3> QED BY <2>1, <3>1, <3>2
  <2>4. \A b \in Boxes(t) : \A j \in 1..Count(t, b) : Kids(t, b)[j] = {p} => Parent(t, {p}) = b
    BY <2>3, ParentIs
  <2> QED BY <2>1, <2>2, <2>3, <2>4
<1>2. ASSUME PanesOf(t) # {p}
      PROVE  Parent(t, {p}) \in DOMAIN t /\ IsKid(t, Parent(t, {p}), {p})
  <2> DEFINE b == Parent(t, {p})
  <2>1. b \in DOMAIN t /\ KidWith(t, b, p) \in 1..Count(t, b) /\ Kids(t, b)[KidWith(t, b, p)] = {p}
    BY <1>2, BoxOfPane
  <2> HIDE DEF b
  <2>2. DOMAIN t[b].kids = 1..Count(t, b)
    BY <2>1, CellFacts
  <2> QED BY <2>1, <2>2 DEF IsKid, Kids, b
<1>3. InBox(t, p, a) => PanesOf(t) # {p} /\ t[Parent(t, {p})].kind = a
  BY <1>1 DEF InBox
<1>4. PanesOf(t) # {p} /\ t[Parent(t, {p})].kind = a => InBox(t, p, a)
  BY <1>2 DEF InBox
<1> QED BY <1>1, <1>2, <1>3, <1>4

(* The names of the new tree.                                              *)
Special(p, new, m) == m = {p} \/ m = {new} \/ m = {p, new}
Names(t, p, a, new, r) ==
  /\ \A n \in DOMAIN t : /\ Grew(t, p, a, new, n) \in DOMAIN r /\ Grew(t, p, a, new, n) \ {new} = n
                         /\ (n # {p} => ~Special(p, new, Grew(t, p, a, new, n)))
  /\ {p} \in DOMAIN r /\ {new} \in DOMAIN r
  /\ ({p, new} \in DOMAIN r <=> ~InBox(t, p, a)) /\ p # new
  /\ \A m \in DOMAIN r : ~Special(p, new, m) =>
       m \ {new} \in DOMAIN t /\ m \ {new} # {p} /\ m = Grew(t, p, a, new, m \ {new})

(* The names are the old ones, with the new pane where p is.               *)
LEMMA GrewIs ==
  ASSUME NEW t, Tree(t), NEW p \in PanesOf(t), NEW a \in Axes, NEW new, new \notin PanesOf(t)
  PROVE  Names(t, p, a, new, SplitLeaf(t, p, a, new))
<1> DEFINE r == SplitLeaf(t, p, a, new)
           G(n) == Grew(t, p, a, new, n)
<1>1. DOMAIN r = {G(n) : n \in DOMAIN t} \cup {{p}, {new}}
  BY SplitDef
<1>2. p # new /\ \A n \in DOMAIN t : new \notin n /\ n # {}
  BY CellFacts
<1> HIDE DEF r
<1>3. ASSUME NEW n \in DOMAIN t
      PROVE  /\ G(n) \ {new} = n /\ (n # {p} => ~Special(p, new, G(n)))
             /\ (n = {p} => G(n) = IF InBox(t, p, a) THEN {p} ELSE {p, new})
  <2>1. G(n) \ {new} = n
    BY <1>2 DEF Grew
  <2>2. ASSUME n # {p} PROVE ~Special(p, new, G(n))
    <3>1. {p} \ {new} = {p} /\ {new} \ {new} = {} /\ {p, new} \ {new} = {p}
      BY <1>2
    <3> HIDE DEF G
    <3> QED BY <1>2, <2>1, <2>2, <3>1 DEF Special
  <2>3. ASSUME n = {p} PROVE G(n) = IF InBox(t, p, a) THEN {p} ELSE {p, new}
    BY <2>3 DEF Grew
  <2> QED BY <2>1, <2>2, <2>3
<1> HIDE DEF G
<1>4. \A m \in DOMAIN r : ~Special(p, new, m) =>
                  m \ {new} \in DOMAIN t /\ m \ {new} # {p} /\ m = G(m \ {new})
  <2>1. SUFFICES ASSUME NEW m \in DOMAIN r, ~Special(p, new, m)
                 PROVE  m \ {new} \in DOMAIN t /\ m \ {new} # {p} /\ m = G(m \ {new})
    OBVIOUS
  <2>2. PICK n \in DOMAIN t : m = G(n)
    BY <1>1, <2>1 DEF Special
  <2>3. m \ {new} = n
    BY <1>3, <2>2
  <2>4. n # {p}
    BY <1>3, <2>1, <2>2 DEF Special
  <2> QED BY <2>2, <2>3, <2>4
<1>5. {p} \in DOMAIN t
  BY DEF Tree, Leafy
<1>6. {p, new} \in DOMAIN r <=> ~InBox(t, p, a)
  <2>1. ASSUME InBox(t, p, a), {p, new} \in DOMAIN r PROVE FALSE
    <3>1. {p, new} # {p} /\ {p, new} # {new}
      BY <1>2
    <3>2. PICK n \in DOMAIN t : {p, new} = G(n)
      BY <1>1, <2>1, <3>1
    <3>3. n = {p}
      BY <1>3, <3>2 DEF Special
    <3> QED BY <1>3, <2>1, <3>1, <3>2, <3>3
  <2>2. ASSUME ~InBox(t, p, a) PROVE {p, new} \in DOMAIN r
    BY <1>1, <1>3, <1>5, <2>2
  <2> QED BY <2>1, <2>2
<1>7. Names(t, p, a, new, r)
  BY <1>1, <1>2, <1>3, <1>4, <1>6 DEF G, Names
<1> QED BY <1>7 DEF r

(* A leaf is a cell.                                                       *)
LEMMA LeafIs ==
  ASSUME NEW Q, NEW at \in Side, NEW len \in Side, NEW x, x = Leaf(at, len)
  PROVE  x \in Cell(Q) /\ x.kind = "leaf" /\ x.kids = <<>> /\ x.at = at /\ x.len = len
<1>1. <<>> \in Seq(SUBSET Q)
  BY EmptySeq
<1>2. x = [kind |-> "leaf", kids |-> <<>>, at |-> at, len |-> len]
  BY DEF Leaf, Box
<1> QED BY <1>1, <1>2 DEF Cell, Side

(* The two halves.                                                         *)
HalfCells(t, p, a, new, r) ==
  LET c == t[{p}]
      h == Halves(c.len[a])
      Q == PanesOf(t) \cup {new}
  IN  /\ r[{p}] \in Cell(Q) /\ r[{p}].kind = "leaf" /\ r[{p}].kids = <<>>
      /\ r[{p}].at = c.at /\ r[{p}].len = [c.len EXCEPT ![a] = h[1]]
      /\ r[{new}] \in Cell(Q) /\ r[{new}].kind = "leaf" /\ r[{new}].kids = <<>>
      /\ r[{new}].at = [c.at EXCEPT ![a] = c.at[a] + h[1]]
      /\ r[{new}].len = [c.len EXCEPT ![a] = h[2]]

(* The leaf and the new one have a half each.                              *)
LEMMA HalfLeaves ==
  ASSUME NEW t, Tree(t), NEW p \in PanesOf(t), NEW a \in Axes, NEW new, new \notin PanesOf(t)
  PROVE  HalfCells(t, p, a, new, SplitLeaf(t, p, a, new))
<1> DEFINE r == SplitLeaf(t, p, a, new)
           c == t[{p}]
           h == Halves(c.len[a])
           Q == PanesOf(t) \cup {new}
           x == [c.len EXCEPT ![a] = h[1]]
           y == [c.at EXCEPT ![a] = c.at[a] + h[1]]
           z == [c.len EXCEPT ![a] = h[2]]
<1>1. {p} \in DOMAIN t
  BY DEF Tree, Leafy
<1>2. c.at \in Side /\ c.len \in Side /\ c.len[a] \in Nat /\ c.at[a] \in Nat
  <2>1. c.at \in [Axes -> Nat] /\ c.len \in [Axes -> Nat]
    BY <1>1, CellFacts
  <2> HIDE DEF c
  <2> QED BY <2>1 DEF Side
<1>3. h[1] \in Nat /\ h[2] \in Nat
  BY <1>2, HalvesAre
<1>4. {p} \in DOMAIN r /\ {new} \in DOMAIN r /\ p # new
  BY GrewIs DEF Names
<1>5. {p} # {new}
  BY <1>4
<1>6. r[{p}] = Leaf(c.at, x)
  BY <1>4, SplitDef DEF SplitAt
<1>7. r[{new}] = Leaf([c.at EXCEPT ![a] = @ + h[1]], z)
  <2>1. r[{new}] = SplitAt(t, p, a, new, {new})
    BY <1>4, SplitDef
  <2> HIDE DEF r
  <2> QED BY <1>5, <2>1 DEF SplitAt
<1>8. [c.at EXCEPT ![a] = @ + h[1]] = y
  OBVIOUS
<1> HIDE DEF r, h, c
<1>9. x \in Side /\ y \in Side /\ z \in Side
  BY <1>2, <1>3 DEF Side
<1> HIDE DEF x, y, z, Q
<1>10. /\ r[{p}] \in Cell(Q) /\ r[{p}].kind = "leaf" /\ r[{p}].kids = <<>> /\ r[{p}].at = c.at /\ r[{p}].len = x
  BY <1>2, <1>6, <1>9, LeafIs
<1>11. /\ r[{new}] \in Cell(Q) /\ r[{new}].kind = "leaf" /\ r[{new}].kids = <<>> /\ r[{new}].at = y /\ r[{new}].len = z
  BY <1>7, <1>8, <1>9, LeafIs
<1>12. HalfCells(t, p, a, new, r)
  BY <1>10, <1>11 DEF HalfCells, h, c, x, y, z, Q
<1> QED BY <1>12 DEF r

(* The box that takes the place of the leaf.                               *)
IsNewBox(t, p, a, new, r, m) ==
  /\ r[m] \in Cell(PanesOf(t) \cup {new}) /\ r[m].kind = a
  /\ r[m].at = t[{p}].at /\ r[m].len = t[{p}].len
  /\ Count(r, m) = 2 /\ Kids(r, m)[1] = {p} /\ Kids(r, m)[2] = {new}

(* A leaf that becomes a box has the two halves as its children.           *)
LEMMA NewBox ==
  ASSUME NEW t, Tree(t), NEW p \in PanesOf(t), NEW a \in Axes, NEW new, new \notin PanesOf(t),
         {p, new} \in DOMAIN SplitLeaf(t, p, a, new)
  PROVE  IsNewBox(t, p, a, new, SplitLeaf(t, p, a, new), {p, new})
<1> DEFINE r == SplitLeaf(t, p, a, new)
           m == {p, new}
           c == t[{p}]
           Q == PanesOf(t) \cup {new}
<1>1. {p} \in DOMAIN t
  BY DEF Tree, Leafy
<1>2. c.at \in Side /\ c.len \in Side
  BY <1>1, CellFacts DEF Side
<1>3. p # new
  BY GrewIs DEF Names
<1>4. m # {p} /\ m # {new}
  BY <1>3
<1>5. r[m] = Box(a, <<{p}, {new}>>, c.at, c.len)
  <2>1. r[m] = SplitAt(t, p, a, new, m)
    BY SplitDef
  <2> HIDE DEF r
  <2> QED BY <1>4, <2>1 DEF SplitAt
<1> HIDE DEF r, m, c
<1>6. r[m] = [kind |-> a, kids |-> <<{p}, {new}>>, at |-> c.at, len |-> c.len]
  BY <1>5 DEF Box
<1> DEFINE K == <<{p}, {new}>>
<1>7. K \in Seq(SUBSET Q) /\ Len(K) = 2 /\ K[1] = {p} /\ K[2] = {new}
  OBVIOUS
<1> HIDE DEF K
<1>8. r[m] = [kind |-> a, kids |-> K, at |-> c.at, len |-> c.len]
  BY <1>6 DEF K
<1>9. /\ r[m] \in Cell(Q) /\ r[m].kind = a /\ r[m].kids = K /\ r[m].at = c.at /\ r[m].len = c.len
  BY <1>2, <1>7, <1>8 DEF Cell, Side
<1>10. IsNewBox(t, p, a, new, r, m)
  BY <1>7, <1>9 DEF IsNewBox, c, Kids, Count, Q
<1> QED BY <1>10 DEF r, m

(* The other cells.                                                        *)
SplitCell(t, p, a, new, r, m, n) ==
  /\ r[m] \in Cell(PanesOf(t) \cup {new})
  /\ r[m].kind = t[n].kind /\ r[m].at = t[n].at /\ r[m].len = t[n].len
  /\ IF InBox(t, p, a) /\ n = Parent(t, {p})
     THEN /\ Count(r, m) = Count(t, n) + 1
          /\ \A i \in 1..Count(t, n) + 1 :
               Kids(r, m)[i] = IF i < KidWith(t, n, p) + 1 THEN Grew(t, p, a, new, Kids(t, n)[i])
                               ELSE IF i = KidWith(t, n, p) + 1 THEN {new}
                               ELSE Grew(t, p, a, new, Kids(t, n)[i - 1])
     ELSE /\ Count(r, m) = Count(t, n)
          /\ \A i \in 1..Count(t, n) : Kids(r, m)[i] = Grew(t, p, a, new, Kids(t, n)[i])

(* Every other cell is an old one, with the new pane in it where p is.     *)
LEMMA SplitCells ==
  ASSUME NEW t, Tree(t), NEW p \in PanesOf(t), NEW a \in Axes, NEW new, new \notin PanesOf(t),
         NEW m \in DOMAIN SplitLeaf(t, p, a, new), ~Special(p, new, m)
  PROVE  SplitCell(t, p, a, new, SplitLeaf(t, p, a, new), m, m \ {new})
<1> DEFINE r == SplitLeaf(t, p, a, new)
           n == m \ {new}
           G(l) == Grew(t, p, a, new, l)
           P == PanesOf(t)
           Q == P \cup {new}
           N == Count(t, n)
           T == SUBSET Q
           L == [i \in 1..N |-> G(Kids(t, n)[i])]
<1>1. n \in DOMAIN t /\ n # {p} /\ m = G(n)
  <2>1. \A l \in DOMAIN r : ~Special(p, new, l) =>
                  l \ {new} \in DOMAIN t /\ l \ {new} # {p} /\ l = G(l \ {new})
    <3>1. Names(t, p, a, new, r)
      BY GrewIs
    <3> HIDE DEF r
    <3> QED BY <3>1 DEF Names
  <2> QED BY <2>1
<1>2. t[n] \in Cell(P) /\ N \in Nat /\ DOMAIN t[n].kids = 1..N /\ n \subseteq P
  BY <1>1, CellFacts
<1>3. \A i \in 1..N : Kids(t, n)[i] \subseteq P
  <2>1. t[n].kids \in Seq(SUBSET P)
    BY <1>1, CellFacts
  <2> QED BY <1>2, <2>1, ElementOfSeq DEF Kids, Count
<1>4. L \in Seq(T) /\ Len(L) = N /\ \A i \in 1..N : L[i] = G(Kids(t, n)[i])
  <2>1. \A i \in 1..N : G(Kids(t, n)[i]) \in SUBSET Q
    BY <1>3 DEF Grew
  <2>2. L \in [1..N -> SUBSET Q]
    BY <2>1
  <2> QED BY <1>2, <2>2, FunIsSeq
<1>5. r[m] = [t[n] EXCEPT !.kids = GrewKids(t, p, a, new, n)]
  <2>1. r[m] = SplitAt(t, p, a, new, m)
    BY SplitDef
  <2> HIDE DEF r
  <2> QED BY <2>1 DEF Special, SplitAt
<1>6. GrewKids(t, p, a, new, n) =
        IF InBox(t, p, a) /\ IsKid(t, n, {p}) THEN InsertAt(L, KidWith(t, n, p) + 1, {new}) ELSE L
  <2>1. [i \in DOMAIN t[n].kids |-> Grew(t, p, a, new, t[n].kids[i])] = L
    BY <1>2 DEF Kids
  <2> QED BY <2>1 DEF GrewKids
<1>7. (InBox(t, p, a) /\ IsKid(t, n, {p})) <=> (InBox(t, p, a) /\ n = Parent(t, {p}))
  BY <1>1, InBoxIs
<1> HIDE DEF r, n, L
<1> HIDE DEF T
<1>8. ASSUME NEW K, K \in Seq(T), r[m] = [t[n] EXCEPT !.kids = K]
      PROVE  /\ r[m] \in Cell(Q) /\ Kids(r, m) = K /\ Count(r, m) = Len(K)
             /\ r[m].kind = t[n].kind /\ r[m].at = t[n].at /\ r[m].len = t[n].len
  BY <1>2, <1>8 DEF Cell, Kids, Count, T
<1>9. CASE ~(InBox(t, p, a) /\ n = Parent(t, {p}))
  <2>1. r[m] = [t[n] EXCEPT !.kids = L]
    BY <1>5, <1>6, <1>7, <1>9
  <2>2. /\ r[m] \in Cell(Q) /\ Kids(r, m) = L /\ Count(r, m) = N
        /\ r[m].kind = t[n].kind /\ r[m].at = t[n].at /\ r[m].len = t[n].len
    BY <1>4, <1>8, <2>1
  <2> QED BY <1>4, <1>9, <2>2 DEF SplitCell, r, n
<1>10. CASE InBox(t, p, a) /\ n = Parent(t, {p})
  <2> DEFINE j == KidWith(t, n, p)
             K == InsertAt(L, j + 1, {new})
  <2>1. r[m] = [t[n] EXCEPT !.kids = K]
    BY <1>5, <1>6, <1>7, <1>10
  <2>2. j \in 1..N
    BY <1>10, InBoxIs, BoxOfPane
  <2>3. j + 1 \in 1..Len(L) + 1 /\ {new} \in T
    BY <1>2, <1>4, <2>2 DEF T
  <2> HIDE DEF j
  <2>4. /\ K \in Seq(T) /\ Len(K) = N + 1
        /\ \A i \in 1..N + 1 : K[i] = IF i < j + 1 THEN L[i] ELSE IF i = j + 1 THEN {new} ELSE L[i - 1]
    <3>1. L \in Seq(T) /\ Len(L) = N
      BY <1>4
    <3>2. \A x \in T, k \in 1..Len(L) + 1 : WithAt(T, L, k, x, InsertAt(L, k, x))
      BY <3>1, InsertAtIs
    <3>3. WithAt(T, L, j + 1, {new}, K)
      BY <2>3, <3>2
    <3> HIDE DEF K
    <3> QED BY <3>1, <3>3 DEF WithAt
  <2> HIDE DEF K
  <2>5. /\ r[m] \in Cell(Q) /\ Kids(r, m) = K /\ Count(r, m) = N + 1
        /\ r[m].kind = t[n].kind /\ r[m].at = t[n].at /\ r[m].len = t[n].len
    BY <1>8, <2>1, <2>4
  <2>6. ASSUME NEW i \in 1..N + 1
        PROVE  K[i] = IF i < j + 1 THEN G(Kids(t, n)[i]) ELSE IF i = j + 1 THEN {new}
                      ELSE G(Kids(t, n)[i - 1])
    <3>1. i < j + 1 => i \in 1..N
      BY <1>2, <2>2
    <3>2. ~(i < j + 1) /\ i # j + 1 => i - 1 \in 1..N
      BY <1>2, <2>2
    <3> HIDE DEF G
    <3> QED BY <1>4, <2>4, <3>1, <3>2
  <2> QED BY <1>10, <2>5, <2>6 DEF SplitCell, r, n, j
<1> QED BY <1>9, <1>10

Ins(t, p, a, n) == InBox(t, p, a) /\ n = Parent(t, {p})
Back(t, p, a, n, i) == IF Ins(t, p, a, n) /\ i > KidWith(t, n, p) THEN i - 1 ELSE i
SplitKid(t, p, a, new, r, m, n) ==
  /\ Count(r, m) \in Nat /\ Count(r, m) >= 2
  /\ \A i \in 1..Count(r, m) :
       \/ /\ Ins(t, p, a, n) /\ i = KidWith(t, n, p) + 1 /\ Kids(r, m)[i] = {new}
       \/ /\ ~(Ins(t, p, a, n) /\ i = KidWith(t, n, p) + 1)
          /\ Back(t, p, a, n, i) \in 1..Count(t, n)
          /\ Kids(r, m)[i] = Grew(t, p, a, new, Kids(t, n)[Back(t, p, a, n, i)])
  /\ \A i, k \in 1..Count(r, m) :
       i # k /\ ~(Ins(t, p, a, n) /\ i = KidWith(t, n, p) + 1)
             /\ ~(Ins(t, p, a, n) /\ k = KidWith(t, n, p) + 1) =>
         Back(t, p, a, n, i) # Back(t, p, a, n, k)
  /\ \A l \in 1..Count(t, n) :
       \E i \in 1..Count(r, m) : Kids(r, m)[i] = Grew(t, p, a, new, Kids(t, n)[l])
  /\ Ins(t, p, a, n) => \E i \in 1..Count(r, m) : Kids(r, m)[i] = {new}

(* Its children are the old ones, with the new one after p in p's box.     *)
LEMMA SplitKids ==
  ASSUME NEW t, Tree(t), NEW p \in PanesOf(t), NEW a \in Axes, NEW new, NEW n \in Boxes(t),
         NEW r, NEW m, SplitCell(t, p, a, new, r, m, n)
  PROVE  SplitKid(t, p, a, new, r, m, n)
<1> DEFINE N == Count(t, n)
           G(l) == Grew(t, p, a, new, l)
           j == KidWith(t, n, p)
<1>1. N \in Nat /\ N >= 2
  BY LensAre
<1> HIDE DEF N, G
<1>2. CASE Ins(t, p, a, n)
  <2>1. j \in 1..N
    BY <1>2, InBoxIs, BoxOfPane DEF Ins, N
  <2> HIDE DEF j
  <2>2. /\ Count(r, m) = N + 1
        /\ \A i \in 1..N + 1 :
             Kids(r, m)[i] = IF i < j + 1 THEN G(Kids(t, n)[i])
                             ELSE IF i = j + 1 THEN {new} ELSE G(Kids(t, n)[i - 1])
    BY <1>2 DEF SplitCell, Ins, N, G, j
  <2>3. \A i : Back(t, p, a, n, i) = IF i > j THEN i - 1 ELSE i
    BY <1>2 DEF Back, j
  <2>4. ASSUME NEW i \in 1..N + 1
        PROVE  \/ i = j + 1 /\ Kids(r, m)[i] = {new}
               \/ /\ i # j + 1 /\ Back(t, p, a, n, i) \in 1..N
                  /\ Kids(r, m)[i] = G(Kids(t, n)[Back(t, p, a, n, i)])
    <3>1. CASE i < j + 1
      <4>1. i \in 1..N /\ i # j + 1 /\ ~(i > j)
        BY <1>1, <2>1, <3>1
      <4> QED BY <2>2, <2>3, <3>1, <4>1
    <3>2. CASE i = j + 1
      <4>1. ~(i < j + 1)
        BY <2>1, <3>2
      <4> QED BY <2>2, <3>2, <4>1
    <3>3. CASE i > j + 1
      <4>1. i - 1 \in 1..N /\ i # j + 1 /\ i > j /\ ~(i < j + 1)
        BY <1>1, <2>1, <3>3
      <4> QED BY <2>2, <2>3, <4>1
    <3> QED BY <2>1, <3>1, <3>2, <3>3
  <2>5. \A i, k \in 1..N + 1 : i # k /\ i # j + 1 /\ k # j + 1 =>
          Back(t, p, a, n, i) # Back(t, p, a, n, k)
    <3>1. \A i, k \in 1..N + 1 : i # k /\ i # j + 1 /\ k # j + 1 =>
            (IF i > j THEN i - 1 ELSE i) # (IF k > j THEN k - 1 ELSE k)
      BY <1>1, <2>1
    <3> QED BY <2>3, <3>1
  <2>6. ASSUME NEW l \in 1..N PROVE \E i \in 1..N + 1 : Kids(r, m)[i] = G(Kids(t, n)[l])
    <3>1. CASE l < j + 1
      <4>1. l \in 1..N + 1
        BY <1>1
      <4> QED BY <2>2, <3>1, <4>1
    <3>2. CASE ~(l < j + 1)
      <4>1. l + 1 \in 1..N + 1 /\ ~(l + 1 < j + 1) /\ l + 1 # j + 1 /\ l + 1 - 1 = l
        BY <1>1, <2>1, <3>2
      <4>2. Kids(r, m)[l + 1] = G(Kids(t, n)[l + 1 - 1])
        BY <2>2, <4>1
      <4> QED BY <4>1, <4>2
    <3> QED BY <3>1, <3>2
  <2>7. j + 1 \in 1..N + 1 /\ N + 1 \in Nat /\ N + 1 >= 2 /\ ~(j + 1 < j + 1)
    BY <1>1, <2>1
  <2>8. Kids(r, m)[j + 1] = {new}
    BY <2>2, <2>7
  <2> QED BY <1>2, <2>2, <2>4, <2>5, <2>6, <2>7, <2>8 DEF SplitKid, N, G, j
<1>3. CASE ~Ins(t, p, a, n)
  <2>1. Count(r, m) = N /\ \A i \in 1..N : Kids(r, m)[i] = G(Kids(t, n)[i])
    BY <1>3 DEF SplitCell, Ins, N, G
  <2>2. \A i : Back(t, p, a, n, i) = i
    BY <1>3 DEF Back
  <2> QED BY <1>1, <1>3, <2>1, <2>2 DEF SplitKid, N, G
<1> QED BY <1>2, <1>3

(* The result is a tree again, of one pane more.                           *)
LEMMA SplitIsTree ==
  ASSUME NEW t, Tree(t), NEW p \in PanesOf(t), NEW a \in Axes, NEW new, new \notin PanesOf(t)
  PROVE  /\ Tree(SplitLeaf(t, p, a, new))
         /\ PanesOf(SplitLeaf(t, p, a, new)) = PanesOf(t) \cup {new}
<1> DEFINE r == SplitLeaf(t, p, a, new)
           G(n) == Grew(t, p, a, new, n)
           P == PanesOf(t)
           Q == P \cup {new}
           box == Parent(t, {p})
<1>1. Names(t, p, a, new, r)
  BY GrewIs
<1>2. /\ r[{p}] \in Cell(Q) /\ r[{p}].kind = "leaf" /\ r[{p}].kids = <<>>
      /\ r[{new}] \in Cell(Q) /\ r[{new}].kind = "leaf" /\ r[{new}].kids = <<>>
  <2>1. HalfCells(t, p, a, new, r)
    BY HalfLeaves
  <2> HIDE DEF r
  <2> QED BY <2>1 DEF HalfCells
<1>3. {p, new} \in DOMAIN r =>
        /\ r[{p, new}] \in Cell(Q) /\ r[{p, new}].kind = a
        /\ Count(r, {p, new}) = 2 /\ Kids(r, {p, new})[1] = {p} /\ Kids(r, {p, new})[2] = {new}
  <2>1. {p, new} \in DOMAIN r => IsNewBox(t, p, a, new, r, {p, new})
    BY NewBox
  <2> HIDE DEF r
  <2> QED BY <2>1 DEF IsNewBox
<1>4. \A m \in DOMAIN r : ~Special(p, new, m) => SplitCell(t, p, a, new, r, m, m \ {new})
  BY SplitCells
<1>5. r = [m \in DOMAIN r |-> r[m]]
  BY SplitDef
<1> HIDE DEF r
<1>6. /\ \A n \in DOMAIN t : /\ G(n) \in DOMAIN r /\ G(n) \ {new} = n
                             /\ (n # {p} => ~Special(p, new, G(n)))
      /\ {p} \in DOMAIN r /\ {new} \in DOMAIN r
      /\ ({p, new} \in DOMAIN r <=> ~InBox(t, p, a)) /\ p # new
      /\ \A m \in DOMAIN r : ~Special(p, new, m) =>
           m \ {new} \in DOMAIN t /\ m \ {new} # {p} /\ m = G(m \ {new})
  BY <1>1 DEF Names
<1>7. /\ {p} \in DOMAIN t /\ P \in DOMAIN t /\ IsFiniteSet(P) /\ \A n \in DOMAIN t : n \subseteq P /\ n # {}
  BY CellFacts DEF Tree, Typed, Leafy
<1>8. G({p}) = IF InBox(t, p, a) THEN {p} ELSE {p, new}
  BY DEF Grew
<1>9. \A n \in DOMAIN t : n # {p} => G(n) = IF p \in n THEN n \cup {new} ELSE n
  BY DEF Grew
<1> HIDE DEF G
<1>10. \A m \in DOMAIN r : ~Special(p, new, m) =>
         /\ r[m] \in Cell(Q) /\ r[m].kind = t[m \ {new}].kind
  BY <1>4 DEF SplitCell
<1>11. \A m \in DOMAIN r : r[m] \in Cell(Q)
  BY <1>2, <1>3, <1>10 DEF Special
<1>12. Q \in DOMAIN r
  <2>1. CASE P = {p}
    <3>1. ~InBox(t, p, a)
      BY <2>1, InBoxIs
    <3>2. Q = {p, new}
      BY <2>1
    <3> HIDE DEF Q
    <3> QED BY <1>6, <3>1, <3>2
  <2>2. CASE P # {p}
    <3>1. G(P) = Q
      BY <1>7, <1>9, <2>2
    <3> HIDE DEF Q
    <3>2. G(P) \in DOMAIN r
      BY <1>6, <1>7
    <3> QED BY <3>1, <3>2
  <2> QED BY <2>1, <2>2
<1>13. \A m \in DOMAIN r : m \subseteq Q /\ m # {}
  <2>1. SUFFICES ASSUME NEW m \in DOMAIN r PROVE m \subseteq Q /\ m # {}
    OBVIOUS
  <2>2. CASE Special(p, new, m)
    BY <2>2 DEF Special
  <2>3. CASE ~Special(p, new, m)
    <3>1. m \ {new} \in DOMAIN t
      BY <1>6, <2>3
    <3> QED BY <1>7, <3>1
  <2> QED BY <2>2, <2>3
<1>14. PanesOf(r) = Q
  BY <1>12, <1>13 DEF PanesOf
<1>15. Typed(r)
  <2>1. IsFiniteSet(Q)
    BY <1>7, FS_AddElement
  <2>2. r \in [DOMAIN r -> Cell(Q)]
    BY <1>5, <1>11
  <2> QED BY <1>12, <1>13, <1>14, <2>1, <2>2 DEF Typed
<1>16. Leafy(r)
  <2>1. ASSUME NEW x \in Q PROVE {x} \in DOMAIN r /\ r[{x}].kind = "leaf"
    <3>1. CASE x = p \/ x = new
      BY <1>2, <1>6, <3>1
    <3>2. CASE x # p /\ x # new
      <4>1. {x} \in DOMAIN t /\ t[{x}].kind = "leaf" /\ {x} # {p} /\ p \notin {x}
        BY <3>2 DEF Tree, Leafy
      <4>2. G({x}) = {x} /\ ~Special(p, new, {x}) /\ {x} \in DOMAIN r /\ {x} \ {new} = {x}
        BY <1>6, <1>9, <3>2, <4>1
      <4> QED BY <1>10, <4>1, <4>2
    <3> QED BY <3>1, <3>2
  <2>2. ASSUME NEW m \in DOMAIN r, r[m].kind = "leaf"
        PROVE  r[m].kids = <<>> /\ \E x \in Q : m = {x}
    <3>1. CASE m = {p} \/ m = {new}
      BY <1>2, <3>1
    <3>2. CASE m = {p, new}
      BY <1>3, <2>2, <3>2, AxesAre
    <3>3. CASE ~Special(p, new, m)
      <4> DEFINE n == m \ {new}
      <4>1. n \in DOMAIN t /\ n # {p} /\ m = G(n) /\ t[n].kind = "leaf"
        BY <1>6, <1>10, <2>2, <3>3
      <4>2. PICK x \in P : n = {x}
        BY <4>1 DEF Tree, Leafy
      <4>3. m = {x}
        BY <1>9, <4>1, <4>2
      <4>4. SplitCell(t, p, a, new, r, m, n)
        BY <1>4, <3>3
      <4>5. t[n].kind # a
        BY <4>1, AxesAre
      <4>6. Count(t, n) = 0
        BY <4>1, CellFacts
      <4>7. ~(InBox(t, p, a) /\ n = box)
        BY <4>5, InBoxIs
      <4>8. Count(r, m) = 0
        BY <4>4, <4>6, <4>7 DEF SplitCell
      <4>9. r[m].kids \in Seq(SUBSET Q)
        BY <1>11 DEF Cell
      <4>10. r[m].kids = <<>>
        BY <4>8, <4>9, EmptySeq DEF Count
      <4> QED BY <4>3, <4>2, <4>10
    <3> QED BY <3>1, <3>2, <3>3 DEF Special
  <2> QED BY <1>14, <2>1, <2>2 DEF Leafy
<1>17. \A n \in Boxes(t) :
         /\ \A l \in 1..Count(t, n) : Kids(t, n)[l] \in DOMAIN t /\ Kids(t, n)[l] \subseteq n
         /\ \A x \in n : \E l \in 1..Count(t, n) : x \in Kids(t, n)[l]
         /\ \A l, k \in 1..Count(t, n) : l # k => Kids(t, n)[l] \cap Kids(t, n)[k] = {}
  BY DEF Tree, Kin
<1>18. ASSUME NEW b \in Boxes(r), ~Special(p, new, b)
       PROVE  /\ b \ {new} \in Boxes(t) /\ b \ {new} \in DOMAIN t /\ b \ {new} # {p}
              /\ b = IF p \in b \ {new} THEN (b \ {new}) \cup {new} ELSE b \ {new}
              /\ SplitKid(t, p, a, new, r, b, b \ {new}) /\ b \in DOMAIN r
  <2>1. b \in DOMAIN r /\ b \ {new} \in DOMAIN t /\ b \ {new} # {p} /\ b = G(b \ {new})
    BY <1>6, <1>18 DEF Boxes
  <2>2. b \ {new} \in Boxes(t)
    BY <1>10, <1>18, <2>1 DEF Boxes
  <2>3. SplitKid(t, p, a, new, r, b, b \ {new})
    BY <1>4, <1>18, <2>1, <2>2, SplitKids
  <2>4. b = IF p \in b \ {new} THEN (b \ {new}) \cup {new} ELSE b \ {new}
    BY <1>9, <2>1
  <2> QED BY <2>1, <2>2, <2>3, <2>4
(* Where p's cell of a box is.                                             *)
<1>19. ASSUME NEW n \in Boxes(t), NEW l \in 1..Count(t, n), p \in Kids(t, n)[l]
       PROVE  /\ Ins(t, p, a, n) => Kids(t, n)[l] = {p} /\ G(Kids(t, n)[l]) = {p}
              /\ ~Ins(t, p, a, n) => new \in G(Kids(t, n)[l])
  <2> DEFINE k == Kids(t, n)[l]
  <2>1. k \in DOMAIN t
    BY <1>17
  <2>2. k = {p} => Parent(t, {p}) = n
    <3>1. \A b \in Boxes(t) : \A i \in 1..Count(t, b) : Kids(t, b)[i] = {p} => Parent(t, {p}) = b
      BY <1>7, ParentIs
    <3> QED BY <3>1
  <2>3. ASSUME Ins(t, p, a, n) PROVE k = {p} /\ G(k) = {p}
    <3>1. P # {p} /\ n = Parent(t, {p}) /\ InBox(t, p, a)
      BY <2>3, InBoxIs DEF Ins
    <3>2. KidWith(t, n, p) = l /\ Kids(t, n)[KidWith(t, n, p)] = {p}
      BY <1>19, <3>1, BoxOfPane
    <3> QED BY <1>8, <3>1, <3>2
  <2>4. ASSUME ~Ins(t, p, a, n) PROVE new \in G(k)
    <3>1. CASE k = {p}
      <4>1. ~InBox(t, p, a)
        BY <2>2, <2>4, <3>1 DEF Ins
      <4> QED BY <1>8, <3>1, <4>1
    <3>2. CASE k # {p}
      BY <1>9, <1>19, <2>1, <3>2
    <3> QED BY <3>1, <3>2
  <2> QED BY <2>3, <2>4
<1>20. \A k \in DOMAIN t : k \subseteq G(k) /\ G(k) \subseteq k \cup {new} /\ (p \notin k => G(k) = k)
  BY DEF Grew, G
<1>21. ASSUME NEW b \in Boxes(r)
       PROVE  /\ Count(r, b) >= 2
              /\ \A i \in 1..Count(r, b) : Kids(r, b)[i] \in DOMAIN r /\ Kids(r, b)[i] \subseteq b
              /\ \A x \in b : \E i \in 1..Count(r, b) : x \in Kids(r, b)[i]
              /\ \A i, k \in 1..Count(r, b) : i # k => Kids(r, b)[i] \cap Kids(r, b)[k] = {}
  <2>1. CASE Special(p, new, b)
    <3>1. b = {p, new} /\ b \in DOMAIN r
      BY <1>2, <2>1 DEF Special, Boxes
    <3>2. Count(r, b) = 2 /\ Kids(r, b)[1] = {p} /\ Kids(r, b)[2] = {new}
      BY <1>3, <3>1
    <3>3. 1..Count(r, b) = {1, 2}
      BY <3>2
    <3>4. {p} \cap {new} = {} /\ {p} \subseteq b /\ {new} \subseteq b
      BY <1>6, <3>1
    <3>5. ASSUME NEW i \in 1..Count(r, b), NEW k \in 1..Count(r, b), i # k
          PROVE  Kids(r, b)[i] \cap Kids(r, b)[k] = {}
      BY <3>2, <3>3, <3>4, <3>5
    <3>6. ASSUME NEW x \in b PROVE \E i \in 1..Count(r, b) : x \in Kids(r, b)[i]
      BY <3>1, <3>2, <3>3
    <3>7. ASSUME NEW i \in 1..Count(r, b) PROVE Kids(r, b)[i] \in DOMAIN r /\ Kids(r, b)[i] \subseteq b
      <4>1. i = 1 \/ i = 2
        BY <3>3
      <4>2. {p} \in DOMAIN r /\ {new} \in DOMAIN r
        BY <1>6
      <4>3. CASE i = 1
        BY <3>2, <3>4, <4>2, <4>3
      <4>4. CASE i = 2
        BY <3>2, <3>4, <4>2, <4>4
      <4> QED BY <4>1, <4>3, <4>4
    <3> QED BY <3>2, <3>5, <3>6, <3>7
  <2>2. CASE ~Special(p, new, b)
    <3> DEFINE n == b \ {new}
               I == Ins(t, p, a, n)
               j == KidWith(t, n, p)
               Bk(i) == Back(t, p, a, n, i)
    <3>1. /\ n \in Boxes(t) /\ n \in DOMAIN t /\ n # {p} /\ SplitKid(t, p, a, new, r, b, n)
          /\ b = IF p \in n THEN n \cup {new} ELSE n
      BY <1>18, <2>2
    <3> HIDE DEF n, Bk, I, j
    <3>2. /\ Count(r, b) >= 2
          /\ \A i \in 1..Count(r, b) :
               \/ I /\ i = j + 1 /\ Kids(r, b)[i] = {new}
               \/ /\ ~(I /\ i = j + 1) /\ Bk(i) \in 1..Count(t, n) /\ Kids(r, b)[i] = G(Kids(t, n)[Bk(i)])
          /\ \A i, k \in 1..Count(r, b) : i # k /\ ~(I /\ i = j + 1) /\ ~(I /\ k = j + 1) => Bk(i) # Bk(k)
          /\ \A l \in 1..Count(t, n) : \E i \in 1..Count(r, b) : Kids(r, b)[i] = G(Kids(t, n)[l])
          /\ I => \E i \in 1..Count(r, b) : Kids(r, b)[i] = {new}
      BY <3>1 DEF SplitKid, G, I, j, Bk
    <3>i. I => p \in n
      <4>1. I => n = Parent(t, {p}) /\ P # {p}
        BY InBoxIs DEF Ins, I
      <4>2. P # {p} => p \in Parent(t, {p})
        BY BoxOfPane
      <4> QED BY <4>1, <4>2
    <3>3. ASSUME NEW i \in 1..Count(r, b) PROVE Kids(r, b)[i] \in DOMAIN r /\ Kids(r, b)[i] \subseteq b
      <4>1. CASE I /\ i = j + 1 /\ Kids(r, b)[i] = {new}
        BY <1>6, <3>1, <3>i, <4>1
      <4>2. CASE Bk(i) \in 1..Count(t, n) /\ Kids(r, b)[i] = G(Kids(t, n)[Bk(i)])
        <5> DEFINE k == Kids(t, n)[Bk(i)]
        <5>1. k \in DOMAIN t /\ k \subseteq n
          BY <1>17, <3>1, <4>2
        <5>2. G(k) \in DOMAIN r
          BY <1>6, <5>1
        <5>3. G(k) \subseteq b
          BY <1>20, <3>1, <5>1
        <5> QED BY <4>2, <5>2, <5>3
      <4> QED BY <3>2, <4>1, <4>2
    <3>4. ASSUME NEW x \in b PROVE \E i \in 1..Count(r, b) : x \in Kids(r, b)[i]
      <4>1. CASE x \in n
        <5>1. PICK l \in 1..Count(t, n) : x \in Kids(t, n)[l]
          BY <1>17, <3>1, <4>1
        <5>2. PICK i \in 1..Count(r, b) : Kids(r, b)[i] = G(Kids(t, n)[l])
          BY <3>2
        <5>3. Kids(t, n)[l] \in DOMAIN t
          BY <1>17, <3>1
        <5> QED BY <1>20, <5>1, <5>2, <5>3
      <4>2. CASE x \notin n
        <5>1. x = new /\ p \in n
          BY <3>1, <4>2
        <5>2. CASE I
          BY <3>2, <5>1, <5>2
        <5>3. CASE ~I
          <6>1. PICK l \in 1..Count(t, n) : p \in Kids(t, n)[l]
            BY <1>17, <3>1, <5>1
          <6>2. new \in G(Kids(t, n)[l])
            BY <1>19, <3>1, <5>3, <6>1 DEF I
          <6> QED BY <3>2, <5>1, <6>2
        <5> QED BY <5>2, <5>3
      <4> QED BY <4>1, <4>2
    <3>5. ASSUME NEW i \in 1..Count(r, b), I, i = j + 1, Kids(r, b)[i] = {new},
                 NEW k \in 1..Count(r, b), k # i
          PROVE  Kids(r, b)[i] \cap Kids(r, b)[k] = {}
      <4>1. Bk(k) \in 1..Count(t, n) /\ Kids(r, b)[k] = G(Kids(t, n)[Bk(k)])
        BY <3>2, <3>5
      <4> DEFINE l == Kids(t, n)[Bk(k)]
      <4>2. l \in DOMAIN t /\ new \notin l
        BY <1>7, <1>17, <3>1, <4>1
      <4>3. new \notin G(l)
        <5>1. CASE p \in l
          BY <1>6, <1>19, <3>1, <3>5, <4>1, <5>1 DEF I
        <5>2. CASE p \notin l
          BY <1>20, <4>2, <5>2
        <5> QED BY <5>1, <5>2
      <4> QED BY <3>5, <4>1, <4>3
    <3>6. ASSUME NEW i \in 1..Count(r, b), NEW k \in 1..Count(r, b), k # i,
                 ~(I /\ i = j + 1), ~(I /\ k = j + 1)
          PROVE  Kids(r, b)[i] \cap Kids(r, b)[k] = {}
      <4> DEFINE x == Kids(t, n)[Bk(i)]
                 y == Kids(t, n)[Bk(k)]
      <4>1. /\ Bk(i) \in 1..Count(t, n) /\ Kids(r, b)[i] = G(x)
            /\ Bk(k) \in 1..Count(t, n) /\ Kids(r, b)[k] = G(y) /\ Bk(i) # Bk(k)
        BY <3>2, <3>6
      <4>2. x \in DOMAIN t /\ y \in DOMAIN t /\ x \cap y = {} /\ new \notin x /\ new \notin y
        BY <1>7, <1>17, <3>1, <4>1
      <4> HIDE DEF x, y
      <4>3. \/ G(x) = x /\ G(y) \subseteq y \cup {new}
            \/ G(y) = y /\ G(x) \subseteq x \cup {new}
        BY <1>20, <4>2
      <4>4. G(x) \cap G(y) = {}
        BY <4>2, <4>3
      <4> QED BY <4>1, <4>4
    <3>7. ASSUME NEW i \in 1..Count(r, b), NEW k \in 1..Count(r, b), i # k
          PROVE  Kids(r, b)[i] \cap Kids(r, b)[k] = {}
      <4>1. CASE I /\ i = j + 1
        BY <3>2, <3>5, <3>7, <4>1
      <4>2. CASE I /\ k = j + 1
        BY <3>2, <3>5, <3>7, <4>2
      <4>3. CASE ~(I /\ i = j + 1) /\ ~(I /\ k = j + 1)
        BY <3>6, <3>7, <4>3
      <4> QED BY <4>1, <4>2, <4>3
    <3> QED BY <3>2, <3>3, <3>4, <3>7
  <2> QED BY <2>1, <2>2
<1>22. Kin(r)
  BY <1>21 DEF Kin
<1>23. ASSUME NEW b \in Boxes(r), NEW m \in DOMAIN r, m \subseteq b, m # b
       PROVE  \E i \in 1..Count(r, b) : m \subseteq Kids(r, b)[i]
  <2>1. CASE Special(p, new, b)
    <3>1. b = {p, new} /\ b \in DOMAIN r
      BY <1>2, <2>1 DEF Special, Boxes
    <3>2. Count(r, b) = 2 /\ Kids(r, b)[1] = {p} /\ Kids(r, b)[2] = {new}
      BY <1>3, <3>1
    <3>3. m = {p} \/ m = {new}
      BY <1>13, <1>23, <3>1
    <3>4. 1 \in 1..Count(r, b) /\ 2 \in 1..Count(r, b)
      BY <3>2
    <3> QED BY <3>2, <3>3, <3>4
  <2>2. CASE ~Special(p, new, b)
    <3> DEFINE n == b \ {new}
    <3>1. /\ n \in Boxes(t) /\ n \in DOMAIN t /\ n # {p} /\ SplitKid(t, p, a, new, r, b, n)
          /\ b = IF p \in n THEN n \cup {new} ELSE n
      BY <1>18, <2>2
    <3> HIDE DEF n
    <3>2. CASE \E x : m = {x}
      <4>1. PICK x : m = {x}
        BY <3>2
      <4>2. x \in b
        BY <1>23, <4>1
      <4>3. PICK i \in 1..Count(r, b) : x \in Kids(r, b)[i]
        BY <1>21, <4>2
      <4> QED BY <4>1, <4>3
    <3>3. CASE m = {p, new}
      <4>1. p \in b /\ p \in n /\ ~Ins(t, p, a, n)
        BY <1>6, <1>23, <3>1, <3>3 DEF Ins
      <4>2. PICK l \in 1..Count(t, n) : p \in Kids(t, n)[l]
        BY <1>17, <3>1, <4>1
      <4>3. new \in G(Kids(t, n)[l]) /\ p \in G(Kids(t, n)[l])
        <5>1. Kids(t, n)[l] \in DOMAIN t
          BY <1>17, <3>1
        <5> QED BY <1>19, <1>20, <3>1, <4>1, <4>2, <5>1
      <4>4. PICK i \in 1..Count(r, b) : Kids(r, b)[i] = G(Kids(t, n)[l])
        BY <3>1 DEF SplitKid, G
      <4> QED BY <3>3, <4>3, <4>4
    <3>4. CASE ~Special(p, new, m)
      <4> DEFINE k == m \ {new}
      <4>1. k \in DOMAIN t /\ k # {p} /\ m = IF p \in k THEN k \cup {new} ELSE k
        BY <1>6, <1>9, <3>4
      <4> HIDE DEF k
      <4>2. k \subseteq n /\ k # n
        <5>1. new \notin k
          BY <1>7, <4>1
        <5> QED BY <1>23, <3>1, <4>1, <5>1
      <4>3. PICK l \in 1..Count(t, n) : k \subseteq Kids(t, n)[l]
        BY <3>1, <4>1, <4>2 DEF Tree, Nested
      <4>4. Kids(t, n)[l] \in DOMAIN t
        BY <1>17, <3>1
      <4>5. m \subseteq G(Kids(t, n)[l])
        <5>1. CASE p \in k
          <6>1. Kids(t, n)[l] # {p} /\ p \in Kids(t, n)[l]
            BY <4>1, <4>3, <5>1
          <6> QED BY <1>9, <4>1, <4>3, <4>4, <5>1, <6>1
        <5>2. CASE p \notin k
          BY <1>20, <4>1, <4>3, <4>4, <5>2
        <5> QED BY <5>1, <5>2
      <4>6. PICK i \in 1..Count(r, b) : Kids(r, b)[i] = G(Kids(t, n)[l])
        BY <3>1 DEF SplitKid, G
      <4> QED BY <4>5, <4>6
    <3> QED BY <3>2, <3>3, <3>4 DEF Special
  <2> QED BY <2>1, <2>2
<1>24. Nested(r)
  BY <1>23 DEF Nested
<1> QED BY <1>14, <1>15, <1>16, <1>22, <1>24 DEF Tree, r

(* The rectangles of the cells that were there.                            *)
SameRect(x, y) == x.at = y.at /\ x.len = y.len

(* They keep their places.                                                 *)
LEMMA SplitKeeps ==
  ASSUME NEW t, Tree(t), NEW p \in PanesOf(t), NEW a \in Axes, NEW new, new \notin PanesOf(t),
         NEW n \in DOMAIN t, n # {p} \/ ~InBox(t, p, a)
  PROVE  SameRect(SplitLeaf(t, p, a, new)[Grew(t, p, a, new, n)], t[n])
<1> DEFINE r == SplitLeaf(t, p, a, new)
           m == Grew(t, p, a, new, n)
<1>1. Names(t, p, a, new, r)
  BY GrewIs
<1>2. \A l \in DOMAIN r : ~Special(p, new, l) => SplitCell(t, p, a, new, r, l, l \ {new})
  BY SplitCells
<1>3. {p, new} \in DOMAIN r => IsNewBox(t, p, a, new, r, {p, new})
  BY NewBox
<1> HIDE DEF r
<1>4. CASE n # {p}
  <2>1. m \in DOMAIN r /\ m \ {new} = n /\ ~Special(p, new, m)
    BY <1>1, <1>4 DEF Names
  <2>2. SplitCell(t, p, a, new, r, m, n)
    BY <1>2, <2>1
  <2> QED BY <2>2 DEF SplitCell, SameRect, r
<1>5. CASE n = {p}
  <2>1. m = {p, new} /\ {p, new} \in DOMAIN r
    BY <1>1, <1>5 DEF Names, Grew
  <2> QED BY <1>3, <1>5, <2>1 DEF IsNewBox, SameRect, r
<1> QED BY <1>4, <1>5

(* A box that has the new pane next to p.                                  *)
Takes(a, t, n, r, b, N, j, h1, h2) ==
  /\ Count(t, n) = N /\ Count(r, b) = N + 1 /\ t[n].kind = a /\ r[b].kind = a
  /\ SameRect(r[b], t[n]) /\ t[n].at \in Side /\ t[n].len \in Side
  /\ \A i \in 1..N : KidAt(t, n, i).at \in Side /\ KidAt(t, n, i).len \in Side
  /\ \A i \in 1..N + 1 : i < j => SameRect(KidAt(r, b, i), KidAt(t, n, i))
  /\ \A i \in 1..N + 1 : i > j + 1 => SameRect(KidAt(r, b, i), KidAt(t, n, i - 1))
  /\ h1 + h2 = KidAt(t, n, j).len[a]
  /\ KidAt(r, b, j).at = KidAt(t, n, j).at
  /\ KidAt(r, b, j).len = [KidAt(t, n, j).len EXCEPT ![a] = h1]
  /\ KidAt(r, b, j + 1).at = [KidAt(t, n, j).at EXCEPT ![a] = KidAt(t, n, j).at[a] + h1]
  /\ KidAt(r, b, j + 1).len = [KidAt(t, n, j).len EXCEPT ![a] = h2]

(* That box stays in order.                                                *)
LEMMA InsertFits ==
  ASSUME NEW a \in Axes, NEW t, NEW n, NEW r, NEW b, NEW N \in Nat, NEW j \in 1..N,
         NEW h1 \in Nat, NEW h2 \in Nat, Takes(a, t, n, r, b, N, j, h1, h2)
  PROVE  /\ Fits(t, n) => Fits(r, b)
         /\ Full(t, n) /\ h1 >= 1 /\ h2 >= 1 => Full(r, b)
<1>t. /\ Count(t, n) = N /\ Count(r, b) = N + 1 /\ t[n].kind = a /\ r[b].kind = a
      /\ SameRect(r[b], t[n]) /\ t[n].at \in Side /\ t[n].len \in Side
      /\ \A i \in 1..N : KidAt(t, n, i).at \in Side /\ KidAt(t, n, i).len \in Side
      /\ \A i \in 1..N + 1 : i < j => SameRect(KidAt(r, b, i), KidAt(t, n, i))
      /\ \A i \in 1..N + 1 : i > j + 1 => SameRect(KidAt(r, b, i), KidAt(t, n, i - 1))
      /\ h1 + h2 = KidAt(t, n, j).len[a]
      /\ KidAt(r, b, j).at = KidAt(t, n, j).at
      /\ KidAt(r, b, j).len = [KidAt(t, n, j).len EXCEPT ![a] = h1]
      /\ KidAt(r, b, j + 1).at = [KidAt(t, n, j).at EXCEPT ![a] = KidAt(t, n, j).at[a] + h1]
      /\ KidAt(r, b, j + 1).len = [KidAt(t, n, j).len EXCEPT ![a] = h2]
  BY DEF Takes
<1> DEFINE c == Cross(a)
           R(i) == KidAt(r, b, i)
           K(i) == KidAt(t, n, i)
<1>0. c \in Axes /\ c # a
  BY AxesAre
<1>1. \A i \in 1..N : /\ K(i).at[a] \in Nat /\ K(i).len[a] \in Nat
                      /\ K(i).at[c] \in Nat /\ K(i).len[c] \in Nat
  BY <1>t, <1>0 DEF Side
<1>2. /\ r[b].at[a] = t[n].at[a] /\ r[b].len[a] = t[n].len[a] /\ t[n].at[a] \in Nat /\ t[n].len[a] \in Nat
      /\ r[b].at[c] = t[n].at[c] /\ r[b].len[c] = t[n].len[c]
  BY <1>t, <1>0 DEF SameRect, Side
<1> DEFINE O(i) == IF i < j + 1 THEN i ELSE i - 1
<1>3. \A i \in 1..N + 1 : O(i) \in 1..N
  OBVIOUS
<1>4. /\ R(j).at[a] = K(j).at[a] /\ R(j).len[a] = h1
      /\ R(j).at[c] = K(j).at[c] /\ R(j).len[c] = K(j).len[c]
  BY <1>t, <1>0 DEF Side
<1>5. /\ R(j + 1).at[a] = K(j).at[a] + h1 /\ R(j + 1).len[a] = h2
      /\ R(j + 1).at[c] = K(j).at[c] /\ R(j + 1).len[c] = K(j).len[c]
  BY <1>t, <1>0 DEF Side
<1>6. \A i \in 1..N + 1 : i # j /\ i # j + 1 => R(i).at = K(O(i)).at /\ R(i).len = K(O(i)).len
  <2>1. SUFFICES ASSUME NEW i \in 1..N + 1, i # j, i # j + 1
                 PROVE  R(i).at = K(O(i)).at /\ R(i).len = K(O(i)).len
    OBVIOUS
  <2>2. CASE i < j
    <3>1. O(i) = i
      BY <2>2
    <3> QED BY <1>t, <2>2, <3>1 DEF SameRect
  <2>3. CASE i > j + 1
    <3>1. O(i) = i - 1
      BY <2>3
    <3> QED BY <1>t, <2>3, <3>1 DEF SameRect
  <2> QED BY <2>1, <2>2, <2>3
<1> HIDE DEF R, K, c
<1>7. \A i \in 1..N + 1 : R(i).at[c] = K(O(i)).at[c] /\ R(i).len[c] = K(O(i)).len[c]
  <2>1. SUFFICES ASSUME NEW i \in 1..N + 1
                 PROVE  R(i).at[c] = K(O(i)).at[c] /\ R(i).len[c] = K(O(i)).len[c]
    OBVIOUS
  <2>2. CASE i = j
    <3>1. O(i) = j
      BY <2>2
    <3> QED BY <1>4, <2>2, <3>1
  <2>3. CASE i = j + 1
    <3>1. O(i) = j
      BY <2>3
    <3> QED BY <1>5, <2>3, <3>1
  <2> QED BY <1>6, <2>2, <2>3
(* Where each ends. *)
<1>8. \A i \in 1..N : End(K(i), a) = K(i).at[a] + K(i).len[a]
  BY DEF End
<1>9. /\ \A i \in 1..N + 1 : i # j => End(R(i), a) = End(K(O(i)), a)
      /\ End(R(j), a) = K(j).at[a] + h1 /\ R(j + 1).at[a] = End(R(j), a)
  <2>1. End(R(j), a) = K(j).at[a] + h1
    BY <1>4 DEF End
  <2>2. End(R(j + 1), a) = End(K(j), a) /\ O(j + 1) = j
    <3>1. End(R(j + 1), a) = K(j).at[a] + h1 + h2
      BY <1>5 DEF End
    <3>2. End(K(j), a) = K(j).at[a] + K(j).len[a] /\ K(j).len[a] = h1 + h2
      BY <1>t, <1>8 DEF K
    <3> QED BY <1>1, <3>1, <3>2
  <2>3. \A i \in 1..N + 1 : i # j /\ i # j + 1 => End(R(i), a) = End(K(O(i)), a)
    BY <1>6 DEF End
  <2> HIDE DEF O
  <2> QED BY <1>5, <2>1, <2>2, <2>3
<1>10. \A i \in 1..N + 1 : i # j + 1 => R(i).at[a] = K(O(i)).at[a]
  <2>1. O(j) = j
    OBVIOUS
  <2> HIDE DEF O
  <2> QED BY <1>4, <1>6, <2>1
<1>11. Exact(r, b) <=> Exact(t, n)
  <2>1. O(N + 1) = N /\ N + 1 \in 1..N + 1 /\ N + 1 # j
    OBVIOUS
  <2>2. End(R(N + 1), a) = End(K(N), a)
    BY <1>9, <2>1
  <2>3. End(r[b], a) = End(t[n], a)
    BY <1>2 DEF End
  <2> QED BY <1>t, <2>2, <2>3 DEF Exact, R, K
<1>12. ASSUME InRow(t, n) PROVE InRow(r, b)
  <2>1. /\ K(1).at[a] = t[n].at[a]
        /\ \A i \in 1..N - 1 : K(i + 1).at[a] = End(K(i), a)
        /\ \A i \in 1..N : K(i).at[c] = t[n].at[c] /\ K(i).len[c] = t[n].len[c]
    BY <1>t, <1>12 DEF InRow, K, c
  <2>2. R(1).at[a] = r[b].at[a]
    <3>1. O(1) = 1 /\ 1 \in 1..N + 1 /\ 1 # j + 1
      OBVIOUS
    <3> HIDE DEF O
    <3> QED BY <1>2, <1>10, <2>1, <3>1
  <2>3. ASSUME NEW i \in 1..N + 1 - 1 PROVE R(i + 1).at[a] = End(R(i), a)
    <3>1. CASE i = j
      BY <1>9, <3>1
    <3>2. CASE i # j
      <4>1. i \in 1..N + 1 /\ i + 1 \in 1..N + 1 /\ i + 1 # j + 1 /\ O(i + 1) = O(i) + 1 /\ O(i) \in 1..N - 1
        BY <3>2
      <4> HIDE DEF O
      <4>2. R(i + 1).at[a] = K(O(i) + 1).at[a]
        BY <1>10, <4>1
      <4>3. End(R(i), a) = End(K(O(i)), a)
        BY <1>9, <3>2, <4>1
      <4> QED BY <2>1, <4>1, <4>2, <4>3
    <3> QED BY <3>1, <3>2
  <2>4. \A i \in 1..N + 1 : R(i).at[c] = r[b].at[c] /\ R(i).len[c] = r[b].len[c]
    <3> HIDE DEF O
    <3> QED BY <1>2, <1>3, <1>7, <2>1
  <2> QED BY <1>t, <2>2, <2>3, <2>4 DEF InRow, R, c
<1>13. ASSUME Fits(t, n) PROVE Fits(r, b)
  <2>1. InRow(t, n) /\ (N > t[n].len[a] + 1 \/ Exact(t, n))
        /\ (Exact(t, n) \/ \E i \in 1..N : K(i).len[a] = 0)
    BY <1>t, <1>13 DEF Fits, K
  <2>2. N + 1 > r[b].len[a] + 1 \/ Exact(r, b)
    BY <1>2, <1>11, <2>1
  <2>3. Exact(r, b) \/ \E i \in 1..N + 1 : R(i).len[a] = 0
    <3>1. SUFFICES ASSUME NEW i \in 1..N, K(i).len[a] = 0
                   PROVE  \E k \in 1..N + 1 : R(k).len[a] = 0
      BY <1>11, <2>1
    <3>2. CASE i = j
      <4>1. h1 + h2 = 0
        BY <1>t, <3>1, <3>2 DEF K
      <4>2. h1 = 0 /\ j \in 1..N + 1
        BY <4>1
      <4> QED BY <1>4, <4>2
    <3>3. CASE i < j
      <4>1. i \in 1..N + 1 /\ i # j /\ i # j + 1 /\ O(i) = i
        BY <3>3
      <4> HIDE DEF O
      <4> QED BY <1>6, <3>1, <4>1
    <3>4. CASE i > j
      <4>1. i + 1 \in 1..N + 1 /\ i + 1 # j /\ i + 1 # j + 1 /\ O(i + 1) = i
        BY <3>4
      <4> HIDE DEF O
      <4> QED BY <1>6, <3>1, <4>1
    <3> QED BY <3>2, <3>3, <3>4
  <2> QED BY <1>t, <1>12, <2>1, <2>2, <2>3 DEF Fits, R
<1>14. ASSUME Full(t, n), h1 >= 1, h2 >= 1 PROVE Full(r, b)
  <2>1. SUFFICES ASSUME r[b].len[a] >= N + 1, NEW i \in 1..N + 1 PROVE R(i).len[a] >= 1
    BY <1>t DEF Full, R
  <2>2. \A k \in 1..N : K(k).len[a] >= 1
    <3>1. t[n].len[a] >= N
      BY <1>2, <2>1
    <3> QED BY <1>t, <1>14, <3>1 DEF Full, K
  <2>3. CASE i = j \/ i = j + 1
    BY <1>4, <1>5, <1>14, <2>3
  <2>4. CASE i # j /\ i # j + 1
    <3>1. R(i).len = K(O(i)).len /\ O(i) \in 1..N
      <4> HIDE DEF O
      <4> QED BY <1>3, <1>6, <2>4
    <3> HIDE DEF O
    <3> QED BY <2>2, <3>1
  <2> QED BY <2>3, <2>4
<1> QED BY <1>13, <1>14

SplitDone(t, p, a, new, r) ==
  LET c == CellOf(t, p)
      h == Halves(c.len[a])
  IN  /\ Tree(r) /\ PanesOf(r) = PanesOf(t) \cup {new} /\ SameRect(Root(r), Root(t))
      /\ CellOf(r, p).len = [c.len EXCEPT ![a] = h[1]] /\ CellOf(r, new).len = [c.len EXCEPT ![a] = h[2]]
      /\ \A x \in PanesOf(t) \ {p} : CellOf(r, x).len = CellOf(t, x).len
      /\ (Laid(t) => Laid(r)) /\ (Ample(t) /\ h[2] >= 1 => Ample(r))

(* A pane is split: the boxes around it stay in order.                     *)
LEMMA SplitIs ==
  ASSUME NEW t, Tree(t), NEW p \in PanesOf(t), NEW a \in Axes, NEW new, new \notin PanesOf(t)
  PROVE  SplitDone(t, p, a, new, SplitLeaf(t, p, a, new))
<1> DEFINE r == SplitLeaf(t, p, a, new)
           G(n) == Grew(t, p, a, new, n)
           P == PanesOf(t)
           c == t[{p}]
           h == Halves(c.len[a])
<1>1. Names(t, p, a, new, r)
  BY GrewIs
<1>2. Tree(r) /\ PanesOf(r) = P \cup {new}
  BY SplitIsTree
<1>3. HalfCells(t, p, a, new, r)
  BY HalfLeaves
<1>4. {p, new} \in DOMAIN r => IsNewBox(t, p, a, new, r, {p, new})
  BY NewBox
<1>5. \A m \in DOMAIN r : ~Special(p, new, m) => SplitCell(t, p, a, new, r, m, m \ {new})
  BY SplitCells
<1>6. \A n \in DOMAIN t : n # {p} \/ ~InBox(t, p, a) => SameRect(r[G(n)], t[n])
  BY SplitKeeps
<1> HIDE DEF r
<1>7. /\ r[{p}].at = c.at /\ r[{p}].len = [c.len EXCEPT ![a] = h[1]] /\ r[{p}].kind = "leaf"
      /\ r[{new}].at = [c.at EXCEPT ![a] = c.at[a] + h[1]]
      /\ r[{new}].len = [c.len EXCEPT ![a] = h[2]] /\ r[{new}].kind = "leaf"
  BY <1>3 DEF HalfCells
<1>8. {p} \in DOMAIN t /\ P \in DOMAIN t
  BY DEF Tree, Typed, Leafy
<1>9. c.at \in Side /\ c.len \in Side /\ c.len[a] \in Nat /\ c.at[a] \in Nat
  <2>1. c.at \in [Axes -> Nat] /\ c.len \in [Axes -> Nat]
    BY <1>8, CellFacts
  <2> HIDE DEF c
  <2> QED BY <2>1 DEF Side
<1>10. h[1] \in Nat /\ h[2] \in Nat /\ h[1] + h[2] = c.len[a] /\ (c.len[a] = 0 => h[1] = 0) /\ h[2] <= h[1]
  <2> DEFINE n == c.len[a]
             d == n \div 2
  <2>1. d \in Nat /\ 2 * d <= n
    BY <1>9
  <2>2. h[1] = n - d /\ h[2] = d
    BY DEF Halves
  <2>3. n \in Nat
    BY <1>9
  <2> HIDE DEF n, d, h
  <2> QED BY <2>1, <2>2, <2>3 DEF n
<1> HIDE DEF h, c
<1>11. ASSUME NEW x \in P \ {p} PROVE CellOf(r, x).len = CellOf(t, x).len
  <2>1. {x} \in DOMAIN t /\ {x} # {p} /\ G({x}) = {x}
    BY DEF Tree, Leafy, Grew
  <2> HIDE DEF G
  <2> QED BY <1>6, <2>1 DEF SameRect, CellOf
<1>12. SameRect(Root(r), Root(t))
  <2>1. P # {p} \/ ~InBox(t, p, a)
    BY InBoxIs
  <2>2. G(P) = P \cup {new}
    BY <2>1 DEF Grew
  <2> HIDE DEF G
  <2> QED BY <1>2, <1>6, <1>8, <2>1, <2>2 DEF Root
<1>13. ASSUME NEW b \in Boxes(r), Special(p, new, b)
       PROVE  Fits(r, b) /\ (h[2] >= 1 => Full(r, b))
  <2>1. b = {p, new} /\ b \in DOMAIN r
    BY <1>7, <1>13 DEF Special, Boxes
  <2>2. /\ r[b].kind = a /\ r[b].at = c.at /\ r[b].len = c.len
        /\ Count(r, b) = 2 /\ Kids(r, b)[1] = {p} /\ Kids(r, b)[2] = {new}
    BY <1>4, <2>1 DEF IsNewBox, c
  <2>3. KidAt(r, b, 1) = r[{p}] /\ KidAt(r, b, 2) = r[{new}]
    BY <2>2 DEF KidAt
  <2>4. 1..Count(r, b) = {1, 2} /\ 1..Count(r, b) - 1 = {1}
    BY <2>2
  <2> DEFINE d == Cross(a)
  <2>5. d \in Axes /\ d # a
    BY AxesAre
  <2>6. /\ r[{p}].at[a] = c.at[a] /\ r[{p}].len[a] = h[1] /\ r[{p}].at[d] = c.at[d] /\ r[{p}].len[d] = c.len[d]
        /\ r[{new}].at[a] = c.at[a] + h[1] /\ r[{new}].len[a] = h[2]
        /\ r[{new}].at[d] = c.at[d] /\ r[{new}].len[d] = c.len[d]
    BY <1>7, <1>9, <2>5 DEF Side
  <2> HIDE DEF d
  <2>7. End(r[{p}], a) = c.at[a] + h[1] /\ End(r[{new}], a) = c.at[a] + h[1] + h[2]
        /\ End(r[b], a) = c.at[a] + c.len[a]
    BY <2>2, <2>6 DEF End
  <2>8. End(r[{new}], a) = End(r[b], a)
    BY <1>9, <1>10, <2>7
  <2>9. ASSUME NEW i \in 1..Count(r, b)
        PROVE  KidAt(r, b, i).at[d] = r[b].at[d] /\ KidAt(r, b, i).len[d] = r[b].len[d]
    <3>1. i = 1 \/ i = 2
      BY <2>4
    <3> QED BY <2>2, <2>3, <2>6, <3>1
  <2>10. InRow(r, b)
    <3>1. \A i \in 1..Count(r, b) - 1 : KidAt(r, b, i + 1).at[a] = End(KidAt(r, b, i), a)
      <4>1. SUFFICES ASSUME NEW i \in 1..Count(r, b) - 1
                     PROVE  KidAt(r, b, i + 1).at[a] = End(KidAt(r, b, i), a)
        OBVIOUS
      <4>2. i = 1 /\ i + 1 = 2
        BY <2>4
      <4> QED BY <2>3, <2>6, <2>7, <4>2
    <3> QED BY <2>2, <2>3, <2>6, <2>9, <3>1 DEF InRow, d
  <2>11. Exact(r, b)
    BY <2>2, <2>3, <2>8 DEF Exact
  <2>12. ASSUME h[2] >= 1, NEW i \in 1..Count(r, b) PROVE KidAt(r, b, i).len[a] >= 1
    <3>1. i = 1 \/ i = 2
      BY <2>4
    <3>2. h[1] >= 1
      BY <1>10, <2>12
    <3> QED BY <2>3, <2>6, <2>12, <3>1, <3>2
  <2> QED BY <2>2, <2>10, <2>11, <2>12 DEF Fits, Full
<1>14. ASSUME NEW b \in Boxes(r), ~Special(p, new, b)
       PROVE  (Laid(t) => Fits(r, b)) /\ (Ample(t) /\ h[2] >= 1 => Full(r, b))
  <2> DEFINE n == b \ {new}
  <2>1. b \in DOMAIN r /\ n \in DOMAIN t /\ SplitCell(t, p, a, new, r, b, n)
    BY <1>1, <1>5, <1>14 DEF Boxes, Names
  <2>2. r[b].kind = t[n].kind /\ SameRect(r[b], t[n])
    BY <2>1 DEF SplitCell, SameRect
  <2>3. n \in Boxes(t)
    BY <1>14, <2>1, <2>2 DEF Boxes
  <2>4. Count(t, n) \in Nat /\ \A i \in 1..Count(t, n) : Kids(t, n)[i] \in DOMAIN t
    BY <2>3, LensAre, KidFacts
  <2> HIDE DEF n
  <2>5. CASE ~(InBox(t, p, a) /\ n = Parent(t, {p}))
    <3>1. Count(r, b) = Count(t, n) /\ \A i \in 1..Count(t, n) : Kids(r, b)[i] = G(Kids(t, n)[i])
      BY <2>1, <2>5 DEF SplitCell
    <3>2. \A i \in 1..Count(t, n) : Kids(t, n)[i] # {p} \/ ~InBox(t, p, a)
      <4>1. \A d \in Boxes(t) : \A i \in 1..Count(t, d) : Kids(t, d)[i] = {p} => Parent(t, {p}) = d
        BY <1>8, ParentIs
      <4> QED BY <2>3, <2>5, <4>1
    <3> HIDE DEF G
    <3>3. Alike(t, n, r, b)
      BY <1>6, <2>2, <2>4, <3>1, <3>2 DEF Alike, KidAt, SameRect
    <3> QED BY <2>3, <3>3, AlikeFits DEF Laid, Ample
  <2>6. CASE InBox(t, p, a) /\ n = Parent(t, {p})
    <3> DEFINE N == Count(t, n)
               j == KidWith(t, n, p)
    <3>1. P # {p} /\ t[n].kind = a
      BY <2>6, InBoxIs
    <3>2. j \in 1..N /\ Kids(t, n)[j] = {p} /\ \A i \in 1..N : p \in Kids(t, n)[i] => i = j
      BY <2>6, <3>1, BoxOfPane
    <3>3. Count(r, b) = N + 1 /\ \A i \in 1..N + 1 :
               Kids(r, b)[i] = IF i < j + 1 THEN G(Kids(t, n)[i])
                               ELSE IF i = j + 1 THEN {new} ELSE G(Kids(t, n)[i - 1])
      BY <2>1, <2>6 DEF SplitCell
    <3>4. N \in Nat
      BY <2>4
    <3> HIDE DEF N, j
    <3>5. G({p}) = {p}
      BY <2>6 DEF Grew
    <3>6. \A i \in 1..N : i # j => SameRect(r[G(Kids(t, n)[i])], KidAt(t, n, i))
      BY <1>6, <2>4, <3>2 DEF KidAt, N
    <3> HIDE DEF G
    <3>7. \A i \in 1..N + 1 : i < j => SameRect(KidAt(r, b, i), KidAt(t, n, i))
      <4>1. SUFFICES ASSUME NEW i \in 1..N + 1, i < j PROVE SameRect(KidAt(r, b, i), KidAt(t, n, i))
        OBVIOUS
      <4>2. i \in 1..N /\ i # j /\ i < j + 1
        BY <3>2, <3>4, <4>1
      <4> QED BY <3>3, <3>6, <4>2 DEF KidAt
    <3>8. \A i \in 1..N + 1 : i > j + 1 => SameRect(KidAt(r, b, i), KidAt(t, n, i - 1))
      <4>1. SUFFICES ASSUME NEW i \in 1..N + 1, i > j + 1 PROVE SameRect(KidAt(r, b, i), KidAt(t, n, i - 1))
        OBVIOUS
      <4>2. i - 1 \in 1..N /\ i - 1 # j /\ ~(i < j + 1) /\ i # j + 1
        BY <3>2, <3>4, <4>1
      <4> QED BY <3>3, <3>6, <4>2 DEF KidAt
    <3>9. j \in 1..N + 1 /\ j < j + 1 /\ j + 1 \in 1..N + 1 /\ ~(j + 1 < j + 1)
      BY <3>2, <3>4
    <3>10. KidAt(t, n, j) = c /\ KidAt(r, b, j) = r[{p}] /\ KidAt(r, b, j + 1) = r[{new}]
      BY <3>2, <3>3, <3>5, <3>9 DEF KidAt, c
    <3>11. \A i \in 1..N : KidAt(t, n, i).at \in Side /\ KidAt(t, n, i).len \in Side
      BY <2>4, CellFacts DEF Side, N, KidAt
    <3>12. t[n].at \in Side /\ t[n].len \in Side
      BY <2>1, CellFacts DEF Side
    <3>13. /\ Fits(t, n) => Fits(r, b)
           /\ Full(t, n) /\ h[1] >= 1 /\ h[2] >= 1 => Full(r, b)
      <4> DEFINE x == h[1]
                 y == h[2]
      <4>1. x \in Nat /\ y \in Nat /\ x + y = KidAt(t, n, j).len[a]
        BY <1>10, <3>10
      <4>2. /\ KidAt(r, b, j).at = KidAt(t, n, j).at
            /\ KidAt(r, b, j).len = [KidAt(t, n, j).len EXCEPT ![a] = x]
            /\ KidAt(r, b, j + 1).at = [KidAt(t, n, j).at EXCEPT ![a] = KidAt(t, n, j).at[a] + x]
            /\ KidAt(r, b, j + 1).len = [KidAt(t, n, j).len EXCEPT ![a] = y]
        BY <1>7, <3>10
      <4>3. Count(t, n) = N /\ Count(r, b) = N + 1 /\ r[b].kind = a
        BY <2>2, <3>1, <3>3 DEF N
      <4> HIDE DEF x, y
      <4>4. Takes(a, t, n, r, b, N, j, x, y)
        BY <2>2, <3>1, <3>7, <3>8, <3>11, <3>12, <4>1, <4>2, <4>3 DEF Takes
      <4>5. (Fits(t, n) => Fits(r, b)) /\ (Full(t, n) /\ x >= 1 /\ y >= 1 => Full(r, b))
        BY <3>2, <3>4, <4>1, <4>4, InsertFits
      <4> QED BY <4>5 DEF x, y
    <3>14. h[2] >= 1 => h[1] >= 1
      BY <1>10
    <3> QED BY <2>3, <3>13, <3>14 DEF Laid, Ample
  <2> QED BY <2>5, <2>6
<1>15. (Laid(t) => Laid(r)) /\ (Ample(t) /\ h[2] >= 1 => Ample(r))
  BY <1>13, <1>14 DEF Laid, Ample
<1>16. SplitDone(t, p, a, new, r)
  BY <1>2, <1>7, <1>11, <1>12, <1>15 DEF SplitDone, CellOf, c, h
<1> QED BY <1>16 DEF r

---------------------------------------------------------------------------
(* The nearest and the first pane. *)

(* The first and the last of some panes exist: from the root down, the     *)
(* first and the last child that has any of them.                          *)
LEMMA FirstIs ==
  ASSUME NEW t, Tree(t), NEW ps, ps \subseteq PanesOf(t), ps # {}
  PROVE  FirstOf(t, ps) \in ps
<1> DEFINE P == PanesOf(t)
           T == {m \in DOMAIN t : m \cap ps # {} /\ \A p \in m, q \in ps \ m : Before(t, p, q)}
<1>1. IsFiniteSet(P) /\ P \in DOMAIN t
  BY DEF Tree, Typed
<1>2. P \in T
  BY <1>1
<1>3. T \subseteq SUBSET P
  BY CellFacts
<1>4. PICK m \in T : \A n \in T : n \subseteq m => n = m
  <2> HIDE DEF T, P
  <2>1. T # {}
    BY <1>2
  <2> QED BY <1>1, <1>3, <2>1, SmallestSet
<1>5. m \in DOMAIN t /\ m \cap ps # {} /\ \A p \in m, q \in ps \ m : Before(t, p, q)
  OBVIOUS
<1>6. CASE m \in Boxes(t)
  <2> DEFINE N == Count(t, m)
             I == {i \in 1..N : Kids(t, m)[i] \cap ps # {}}
  <2>1. PICK x : x \in m /\ x \in ps
    BY <1>5
  <2>2. \E i \in 1..N : x \in Kids(t, m)[i]
    BY <1>6, <2>1 DEF Tree, Kin
  <2>3. I # {} /\ I \subseteq Nat /\ N \in Nat
    BY <1>6, <2>1, <2>2, LensAre
  <2>4. PICK i \in I : \A k \in I : i <= k
    <3> HIDE DEF I
    <3> QED BY <2>3, LeastNumber
  <2> DEFINE n == Kids(t, m)[i]
  <2>5. i \in 1..N /\ n \cap ps # {}
    BY <2>4
  <2>6. n \in DOMAIN t /\ n \subseteq m /\ n # m
    BY <1>6, <2>5, KidFacts
  <2> HIDE DEF n
  <2>7. ASSUME NEW p \in n, NEW q \in ps \ n PROVE Before(t, p, q)
    <3>1. CASE q \notin m
      BY <1>5, <2>6, <2>7, <3>1
    <3>2. CASE q \in m
      <4>1. PICK k \in 1..N : q \in Kids(t, m)[k]
        BY <1>6, <3>2 DEF Tree, Kin
      <4>2. k \in I
        BY <4>1
      <4>3. i < k
        <5>1. i <= k
          BY <2>4, <4>2
        <5>2. i # k
          BY <2>7, <4>1 DEF n
        <5> QED BY <2>3, <2>5, <5>1, <5>2
      <4>4. DOMAIN t[m].kids = 1..N
        BY <1>5, CellFacts
      <4>5. p \in t[m].kids[i] /\ q \in t[m].kids[k]
        BY <2>7, <4>1 DEF n, Kids
      <4> QED BY <1>5, <2>5, <4>1, <4>3, <4>4, <4>5 DEF Before
    <3> QED BY <3>1, <3>2
  <2>8. n \in T
    BY <2>5, <2>6, <2>7 DEF n
  <2> QED BY <1>4, <2>6, <2>8
<1>7. CASE m \notin Boxes(t)
  <2>1. PICK p \in P : m = {p}
    BY <1>5, <1>7, CellFacts DEF Tree, Leafy
  <2>2. p \in ps /\ \A q \in ps \ {p} : Before(t, p, q)
    BY <1>5, <2>1
  <2> QED BY <2>2 DEF FirstOf
<1> QED BY <1>6, <1>7

(* The last of some panes in layout order exists.                          *)
LEMMA LastIs ==
  ASSUME NEW t, Tree(t), NEW ps, ps \subseteq PanesOf(t), ps # {}
  PROVE  LastOf(t, ps) \in ps
<1> DEFINE P == PanesOf(t)
           T == {m \in DOMAIN t : m \cap ps # {} /\ \A p \in m, q \in ps \ m : Before(t, q, p)}
<1>1. IsFiniteSet(P) /\ P \in DOMAIN t
  BY DEF Tree, Typed
<1>2. P \in T
  BY <1>1
<1>3. T \subseteq SUBSET P
  BY CellFacts
<1>4. PICK m \in T : \A n \in T : n \subseteq m => n = m
  <2> HIDE DEF T, P
  <2>1. T # {}
    BY <1>2
  <2> QED BY <1>1, <1>3, <2>1, SmallestSet
<1>5. m \in DOMAIN t /\ m \cap ps # {} /\ \A p \in m, q \in ps \ m : Before(t, q, p)
  OBVIOUS
<1>6. CASE m \in Boxes(t)
  <2> DEFINE N == Count(t, m)
             I == {i \in 0..N : N - i \in 1..N /\ Kids(t, m)[N - i] \cap ps # {}}
  <2>1. PICK x : x \in m /\ x \in ps
    BY <1>5
  <2>2. PICK l \in 1..N : x \in Kids(t, m)[l]
    BY <1>6, <2>1 DEF Tree, Kin
  <2>3. I # {} /\ I \subseteq Nat /\ N \in Nat
    <3>1. N \in Nat
      BY <1>6, LensAre
    <3>2. N - l \in 0..N /\ N - (N - l) = l
      BY <2>2, <3>1
    <3>3. N - l \in I
      BY <2>1, <2>2, <3>2
    <3> QED BY <3>1, <3>3
  <2>4. PICK i0 \in I : \A k \in I : i0 <= k
    <3> HIDE DEF I
    <3> QED BY <2>3, LeastNumber
  <2> DEFINE i == N - i0
             n == Kids(t, m)[i]
  <2>5. i \in 1..N /\ n \cap ps # {} /\ i0 \in 0..N
    BY <2>4
  <2>6. n \in DOMAIN t /\ n \subseteq m /\ n # m
    BY <1>6, <2>5, KidFacts
  <2> HIDE DEF n
  <2>7. ASSUME NEW p \in n, NEW q \in ps \ n PROVE Before(t, q, p)
    <3>1. CASE q \notin m
      BY <1>5, <2>6, <2>7, <3>1
    <3>2. CASE q \in m
      <4>1. PICK k \in 1..N : q \in Kids(t, m)[k]
        BY <1>6, <3>2 DEF Tree, Kin
      <4>2. N - k \in 0..N /\ N - (N - k) = k
        BY <2>3
      <4>3. N - k \in I
        BY <4>1, <4>2
      <4>4. k < i
        <5>1. i0 <= N - k
          BY <2>4, <4>3
        <5>2. i # k
          BY <2>7, <4>1 DEF n
        <5> QED BY <2>3, <2>5, <5>1, <5>2
      <4>5. DOMAIN t[m].kids = 1..N
        BY <1>5, CellFacts
      <4>6. p \in t[m].kids[i] /\ q \in t[m].kids[k]
        BY <2>7, <4>1 DEF n, Kids
      <4> HIDE DEF i
      <4> QED BY <1>5, <2>5, <4>1, <4>4, <4>5, <4>6 DEF Before
    <3> QED BY <3>1, <3>2
  <2>8. n \in T
    BY <2>5, <2>6, <2>7 DEF n
  <2> QED BY <1>4, <2>6, <2>8
<1>7. CASE m \notin Boxes(t)
  <2>1. PICK p \in P : m = {p}
    BY <1>5, <1>7, CellFacts DEF Tree, Leafy
  <2>2. p \in ps /\ \A q \in ps \ {p} : Before(t, q, p)
    BY <1>5, <2>1
  <2> QED BY <2>2 DEF LastOf
<1> QED BY <1>6, <1>7

---------------------------------------------------------------------------
(* Of the panes that way, one of the nearest is chosen.                    *)
LEMMA NeighbourIs ==
  ASSUME NEW t, Tree(t), PanesOf(t) \subseteq Nat, NEW from \in PanesOf(t), NEW dir \in Dirs
  PROVE  LET to == Neighbour(t, from, dir)
             ahead == Ahead(t, from, dir)
         IN  /\ ahead = {} => to = None
             /\ ahead # {} => /\ to \in ahead /\ to \in PanesOf(t)
                              /\ \A q \in ahead : Gap(CellOf(t, to), CellOf(t, from), dir)
                                                    <= Gap(CellOf(t, q), CellOf(t, from), dir)
<1> DEFINE Far(p)  == Gap(CellOf(t, p), CellOf(t, from), dir)
           c == Cross(AxisOf(dir))
           Edge(p) == Overlap(CellOf(t, p), CellOf(t, from), c)
           ahead   == Ahead(t, from, dir)
           nearest == {p \in ahead : \A q \in ahead : Far(p) <= Far(q)}
           longest == {p \in nearest : \A q \in nearest : Edge(p) >= Edge(q)}
           to == Neighbour(t, from, dir)
<1>1. ahead = {} => to = None
  BY DEF Neighbour
<1>2. ASSUME ahead # {} PROVE to \in longest
  <2>1. AxisOf(dir) \in Axes /\ c \in Axes
    BY AxesAre DEF AxisOf, Axes
  <2>2. \A p \in PanesOf(t) : CellOf(t, p).at \in Side /\ CellOf(t, p).len \in Side
    BY CellFacts DEF Tree, Leafy, CellOf, Side
  <2>3. ahead \subseteq PanesOf(t) /\ \A p \in ahead : Far(p) >= 0 /\ Edge(p) > 0
    BY DEF Ahead
  <2>4. \A p \in PanesOf(t) : Far(p) \in Int
    BY <2>1, <2>2 DEF Gap, End, Side
  <2> DEFINE B == CellOf(t, from).len[c]
  <2>5. \A p \in PanesOf(t) : Edge(p) \in Int /\ Edge(p) <= B /\ B \in Nat
    BY <2>1, <2>2 DEF Overlap, End, Larger, Side
  <2> HIDE DEF Far, Edge, ahead, B
  <2>6. PICK p \in ahead : \A q \in ahead : Far(p) <= Far(q)
    <3> DEFINE R == {Far(q) : q \in ahead}
    <3>1. R # {} /\ R \subseteq Nat
      BY <1>2, <2>3, <2>4
    <3>2. PICK k \in R : \A l \in R : k <= l
      <4> HIDE DEF R
      <4> QED BY <3>1, LeastNumber
    <3> QED BY <3>2
  <2>7. nearest # {} /\ nearest \subseteq ahead
    BY <2>6
  <2>8. PICK u \in nearest : \A q \in nearest : Edge(u) >= Edge(q)
    <3> DEFINE R == {B - Edge(q) : q \in nearest}
    <3> HIDE DEF nearest
    <3>1. \A q \in nearest : Edge(q) \in Int /\ Edge(q) <= B /\ B \in Nat
      BY <2>3, <2>5, <2>7
    <3>2. R # {} /\ R \subseteq Nat
      BY <2>7, <3>1
    <3>3. PICK k \in R : \A l \in R : k <= l
      <4> HIDE DEF R
      <4> QED BY <3>2, LeastNumber
    <3>4. PICK u \in nearest : k = B - Edge(u)
      OBVIOUS
    <3>5. ASSUME NEW q \in nearest PROVE Edge(u) >= Edge(q)
      <4>1. B - Edge(u) <= B - Edge(q)
        BY <3>3, <3>4
      <4>2. Edge(u) \in Int /\ Edge(q) \in Int /\ B \in Nat
        BY <3>1
      <4> QED BY <4>1, <4>2
    <3> QED BY <3>5
  <2>9. longest # {} /\ longest \subseteq Nat
    BY <2>3, <2>7, <2>8
  <2>10. PICK v \in longest : \A q \in longest : v <= q
    <3> HIDE DEF longest
    <3> QED BY <2>9, LeastNumber
  <2>11. to = CHOOSE z \in longest : \A q \in longest : z <= q
    BY <1>2 DEF Neighbour, ahead, Far, Edge
  <2> HIDE DEF longest, to
  <2> QED BY <2>10, <2>11
<1>3. \A x \in longest : x \in ahead /\ x \in PanesOf(t) /\ \A q \in ahead : Far(x) <= Far(q)
  BY DEF Ahead
<1> HIDE DEF longest, to, ahead
<1> QED BY <1>1, <1>2, <1>3 DEF to, ahead

---------------------------------------------------------------------------
(* Windows. *)

(* A window in order.                                                      *)
GoodWin(w) ==
  /\ w = Window(w.root, w.zoomed, w.active)
  /\ Tree(w.root) /\ Laid(w.root) /\ Root(w.root).at = Origin
  /\ w.active \in PanesOf(w.root) /\ w.zoomed \in PanesOf(w.root) \cup {None}

(* A window is its three fields.                                           *)
LEMMA WindowIs ==
  ASSUME NEW root, NEW zoomed, NEW active, NEW w, w = Window(root, zoomed, active)
  PROVE  /\ w.root = root /\ w.zoomed = zoomed /\ w.active = active
         /\ w = Window(w.root, w.zoomed, w.active)
<1>1. w = [root |-> root, zoomed |-> zoomed, active |-> active]
  BY DEF Window
<1>2. w.root = root /\ w.zoomed = zoomed /\ w.active = active
  BY <1>1
<1> QED BY <1>2

(* No window has no panes.                                                 *)
LEMMA NotGood ==
  /\ ~GoodWin(NoWindow) /\ PanesOf(NoWindow.root) = {} /\ NoWindow.root = NoTree
  /\ NoWindow.zoomed = None /\ NoWindow.active = None
<1>1. NoWindow = Window(NoTree, None, None)
  BY DEF NoWindow
<1>2. NoWindow.root = NoTree /\ NoWindow.zoomed = None /\ NoWindow.active = None
  BY <1>1, WindowIs
<1>3. DOMAIN NoTree = {}
  BY DEF NoTree
<1>4. PanesOf(NoTree) = {}
  BY <1>3 DEF PanesOf
<1>5. ~Tree(NoTree)
  BY <1>3 DEF Tree, Typed
<1> QED BY <1>2, <1>4, <1>5 DEF GoodWin

(* What is left of w without the panes `gone`.                             *)
Left(w, gone, v) ==
  IF PanesOf(w.root) \subseteq gone THEN v = NoWindow
  ELSE /\ GoodWin(v) /\ PanesOf(v.root) = PanesOf(w.root) \ gone
       /\ (Ample(w.root) => Ample(v.root))

(* A pane removed from a window in order leaves it in order, or none.      *)
LEMMA RemovePaneIs ==
  ASSUME NEW w, GoodWin(w), NEW p \in PanesOf(w.root)
  PROVE  Left(w, {p}, RemovePane(w, p))
<1> DEFINE P == PanesOf(w.root)
           v == RemovePane(w, p)
           r == RemoveLeaf(w.root, p)
<1>1. CASE P = {p}
  BY <1>1 DEF RemovePane, Left
<1>2. CASE P # {p}
  <2>1. Tree(w.root) /\ Laid(w.root) /\ Root(w.root).at = Origin /\ w.active \in P
    BY DEF GoodWin
  <2>2. /\ Tree(r) /\ PanesOf(r) = P \ {p} /\ Root(r).at = Root(w.root).at
        /\ (Laid(w.root) => Laid(r)) /\ (Ample(w.root) => Ample(r))
    BY <1>2, <2>1, RemoveIs
  <2> DEFINE act == IF w.active = p THEN FirstOf(r, PanesOf(r)) ELSE w.active
  <2>3. v = Window(r, None, act)
    BY <1>2 DEF RemovePane
  <2> HIDE DEF r
  <2>4. act \in PanesOf(r)
    <3>1. P \ {p} # {}
      BY <1>2
    <3>2. FirstOf(r, PanesOf(r)) \in PanesOf(r)
      BY <2>2, <3>1, FirstIs
    <3> QED BY <2>1, <2>2, <3>2
  <2> HIDE DEF act, v
  <2>5. v.root = r /\ v.zoomed = None /\ v.active = act /\ v = Window(v.root, v.zoomed, v.active)
    BY <2>3, WindowIs
  <2>6. GoodWin(v) /\ PanesOf(v.root) = P \ {p} /\ (Ample(w.root) => Ample(v.root))
    BY <2>1, <2>2, <2>4, <2>5 DEF GoodWin
  <2>7. ~(P \subseteq {p})
    BY <1>2
  <2> QED BY <2>6, <2>7 DEF Left, v
<1> QED BY <1>1, <1>2

(* The panes that died meanwhile are removed one by one.                   *)
Reduced(w, f, g) ==
  IF g = {} THEN w ELSE LET p == LastOf(w.root, g) IN RemovePane(f[g \ {p}], p)

(* Reconciled with its step named.                                         *)
LEMMA ReconciledDef ==
  \A w, dead : Reconciled(w, dead) =
    LET rest[g \in SUBSET dead] == Reduced(w, rest, g) IN rest[dead]
BY DEF Reconciled, Reduced

(* So does removing any number of them, one after the other.               *)
LEMMA ReconciledIs ==
  ASSUME NEW w, GoodWin(w), NEW dead, dead \subseteq PanesOf(w.root)
  PROVE  /\ Left(w, dead, Reconciled(w, dead))
         /\ dead = {} => Reconciled(w, dead) = w
<1> DEFINE D == SUBSET dead
           size0(g) == Cardinality(g)
           N == Cardinality(dead)
           Good(f, M) == \A g \in D : size0(g) <= M => f[g] = Reduced(w, f, g)
           S == {M \in 0..N : \E f : Good(f, M)}
<1>1. IsFiniteSet(dead) /\ N \in Nat /\ Tree(w.root)
  BY FS_Subset, FS_CardinalityType DEF GoodWin, Tree, Typed
<1>2. ASSUME NEW g \in D
      PROVE  /\ IsFiniteSet(g) /\ size0(g) \in 0..N
             /\ g # {} => LET p == LastOf(w.root, g)
                          IN  p \in g /\ g \ {p} \in D /\ size0(g \ {p}) < size0(g)
  <2>1. IsFiniteSet(g) /\ size0(g) \in 0..N
    BY <1>1, FS_Subset, FS_CardinalityType
  <2>2. ASSUME g # {}
        PROVE LET p == LastOf(w.root, g) IN p \in g /\ g \ {p} \in D /\ size0(g \ {p}) < size0(g)
    <3> DEFINE p == LastOf(w.root, g)
    <3>1. p \in g
      BY <1>1, <2>2, LastIs
    <3> HIDE DEF p
    <3>2. Cardinality(g \ {p}) = Cardinality(g) - 1
      BY <2>1, <3>1, FS_RemoveElement
    <3>3. size0(g \ {p}) < size0(g)
      BY <2>1, <3>2
    <3> QED BY <3>1, <3>3 DEF p
  <2> QED BY <2>1, <2>2
<1>t. ASSUME NEW g \in D PROVE size0(g) \in Nat /\ size0(g) <= N
  <2>1. size0(g) \in 0..N
    BY <1>2
  <2> QED BY <1>1, <2>1
<1>3. 0 \in S
  <2> DEFINE f == [g \in D |-> w]
  <2>1. Good(f, 0)
    <3>1. SUFFICES ASSUME NEW g \in D, size0(g) <= 0 PROVE f[g] = Reduced(w, f, g)
      OBVIOUS
    <3>2. IsFiniteSet(g) /\ size0(g) \in 0..N
      BY <1>2
    <3>3. size0(g) = 0
      BY <3>1, <3>2
    <3>4. g = {}
      BY <3>2, <3>3, FS_EmptySet
    <3> QED BY <3>4 DEF Reduced
  <2> HIDE DEF f, Good
  <2> QED BY <1>1, <2>1
<1>4. ASSUME NEW M \in 0..N, M \in S, M < N PROVE M + 1 \in S
  <2>1. PICK f : Good(f, M)
    BY <1>4
  <2> DEFINE h == [g \in D |-> IF size0(g) <= M THEN f[g] ELSE Reduced(w, f, g)]
  <2>2. ASSUME NEW g \in D, size0(g) <= M + 1 PROVE h[g] = Reduced(w, h, g)
    <3>1. size0(g) \in Nat
      BY <1>t
    <3>2. h[g] = Reduced(w, f, g)
      BY <2>1
    <3> DEFINE p == LastOf(w.root, g)
    <3>3. g # {} => h[g \ {p}] = f[g \ {p}]
      <4>1. SUFFICES ASSUME g # {} PROVE h[g \ {p}] = f[g \ {p}]
        OBVIOUS
      <4>2. g \ {p} \in D /\ size0(g \ {p}) < size0(g)
        BY <1>2, <4>1
      <4>3. size0(g \ {p}) \in Nat
        BY <1>t, <4>2
      <4> DEFINE k == g \ {p}
      <4> HIDE DEF k
      <4>4. k \in D /\ size0(k) <= M
        <5>1. k \in D /\ size0(k) < size0(g) /\ size0(k) \in Nat
          BY <4>2, <4>3 DEF k
        <5> HIDE DEF size0, D
        <5> QED BY <2>2, <3>1, <5>1
      <4> QED BY <4>4 DEF k
    <3> HIDE DEF h, p
    <3> QED BY <3>2, <3>3 DEF Reduced, p
  <2>3. Good(h, M + 1)
    <3> HIDE DEF h, size0
    <3> QED BY <2>2
  <2>4. M + 1 \in 0..N
    BY <1>1, <1>4
  <2> HIDE DEF Good, h
  <2> QED BY <2>3, <2>4
<1>5. N \in S
  <2>1. \A M \in 0..N : M \in S /\ M < N => M + 1 \in S
    BY <1>4
  <2> HIDE DEF S
  <2>2. \A M \in 0..N : M \in S
    BY <1>1, <1>3, <2>1, UpTo
  <2> QED BY <1>1, <2>2
<1>6. PICK f0 : Good(f0, N)
  BY <1>5
<1> DEFINE Body(f) == [g \in D |-> Reduced(w, f, g)]
           k == [g \in D |-> f0[g]]
<1>7. k = Body(k)
  <2>1. ASSUME NEW g \in D PROVE k[g] = Reduced(w, k, g)
    <3>1. size0(g) <= N
      BY <1>t
    <3>2. k[g] = Reduced(w, f0, g)
      BY <1>6, <3>1
    <3> DEFINE p == LastOf(w.root, g)
    <3>3. g # {} => k[g \ {p}] = f0[g \ {p}]
      BY <1>2
    <3> HIDE DEF k, p
    <3> QED BY <3>2, <3>3 DEF Reduced, p
  <2>2. k = [g \in D |-> k[g]]
    OBVIOUS
  <2> HIDE DEF k
  <2> QED BY <2>1, <2>2
<1> DEFINE s == CHOOSE f : f = Body(f)
<1>8. s = Body(s)
  <2> HIDE DEF Body, k
  <2> QED BY <1>7
<1>9. Reconciled(w, dead) = s[dead]
  BY ReconciledDef
<1> HIDE DEF s
<1>10. \A g \in D : s[g] = Reduced(w, s, g)
  BY <1>8
<1> DEFINE T == {M \in 0..N : \A g \in D : size0(g) <= M => Left(w, g, s[g])}
<1>11. 0 \in T
  <2>1. ASSUME NEW g \in D, size0(g) <= 0 PROVE Left(w, g, s[g])
    <3>1. IsFiniteSet(g) /\ size0(g) \in 0..N
      BY <1>2
    <3>2. g = {}
      BY <2>1, <3>1, FS_EmptySet
    <3>3. s[g] = w
      BY <1>10, <3>2 DEF Reduced
    <3>4. PanesOf(w.root) # {}
      BY DEF GoodWin
    <3> QED BY <3>2, <3>3, <3>4 DEF Left
  <2> QED BY <1>1, <2>1
<1>12. ASSUME NEW M \in 0..N, M \in T, M < N PROVE M + 1 \in T
  <2>1. ASSUME NEW g \in D, size0(g) <= M + 1 PROVE Left(w, g, s[g])
    <3>1. CASE g = {}
      <4>1. Cardinality({}) = 0
        BY FS_EmptySet
      <4>2. size0(g) <= M
        BY <3>1, <4>1
      <4> QED BY <1>12, <4>2
    <3>2. CASE g # {}
      <4> DEFINE p == LastOf(w.root, g)
                 l == g \ {p}
                 v == s[l]
      <4>1. p \in g /\ l \in D /\ size0(l) < size0(g) /\ size0(l) \in 0..N /\ size0(g) \in 0..N
        BY <1>2, <3>2
      <4>2. s[g] = RemovePane(v, p)
        BY <1>10, <3>2 DEF Reduced
      <4>3. size0(l) <= M
        <5> HIDE DEF size0, l, p
        <5> QED BY <2>1, <4>1
      <4>4. Left(w, l, v)
        BY <1>12, <4>1, <4>3
      <4> HIDE DEF p, v
      <4>5. p \in PanesOf(w.root)
        BY <4>1
      <4>6. ~(PanesOf(w.root) \subseteq l)
        BY <4>5
      <4>7. /\ GoodWin(v) /\ PanesOf(v.root) = PanesOf(w.root) \ l
            /\ (Ample(w.root) => Ample(v.root))
        BY <4>4, <4>6 DEF Left
      <4>8. Left(v, {p}, s[g])
        BY <4>2, <4>5, <4>7, RemovePaneIs
      <4>9. PanesOf(v.root) \subseteq {p} <=> PanesOf(w.root) \subseteq g
        BY <4>1, <4>7
      <4>10. PanesOf(v.root) \ {p} = PanesOf(w.root) \ g
        BY <4>1, <4>7
      <4> HIDE DEF l
      <4> QED BY <4>7, <4>8, <4>9, <4>10 DEF Left
    <3> QED BY <3>1, <3>2
  <2> HIDE DEF size0
  <2> QED BY <1>1, <1>12, <2>1
<1>13. Left(w, dead, s[dead])
  <2>1. \A M \in 0..N : M \in T /\ M < N => M + 1 \in T
    BY <1>12
  <2>2. \A M \in 0..N : M \in T
    <3> HIDE DEF T
    <3> QED BY <1>1, <1>11, <2>1, UpTo
  <2>3. N \in T
    <3> HIDE DEF T
    <3> QED BY <1>1, <2>2
  <2> QED BY <1>1, <2>3
<1>14. dead = {} => s[dead] = w
  BY <1>10 DEF Reduced
<1> QED BY <1>9, <1>13, <1>14

---------------------------------------------------------------------------
(* The inductive invariant. *)

(* The inductive invariant.                                                *)
WindowInv == win = NoWindow \/ GoodWin(win)
RoomInv   == late \/ Ample(win.root)
SavedInv  ==
  /\ saved = Window(saved.root, saved.zoomed, saved.active)
  /\ saved.root = win.root /\ saved.active = win.active
  /\ saved.zoomed \in Panes \cup {None} /\ (win.zoomed # None => saved.zoomed = win.zoomed)
Half(s, k) == [s.was EXCEPT ![s.axis] = Halves(s.was[s.axis])[k]]
SplitsInv ==
  /\ \A s \in pending : /\ s.new \in Ids \ Panes /\ s.new < next /\ s.target \in Ids
                        /\ s.axis \in Axes /\ s.was \in Side
                        /\ s.keep = Half(s, 1) /\ s.give = Half(s, 2)
  /\ \A s, r \in pending : s.new = r.new => s = r
PlainInv ==
  /\ Panes \subseteq Ids /\ \A p \in Panes : p < next
  /\ size \in Sizes /\ viewed \in BOOLEAN /\ poisoned \in BOOLEAN /\ late \in BOOLEAN
  /\ next \in 1 .. MaxPane + 1 /\ DOMAIN sent = Ids
LayoutInv == WindowInv /\ RoomInv /\ SavedInv /\ SplitsInv /\ PlainInv /\ SizesAgree

(* The constants.                                                          *)
LEMMA ConstantsAre ==
  /\ Sizes \subseteq Side /\ StartSize \in Sizes /\ Moves \subseteq Int
  /\ MaxPane \in Nat /\ MaxPane >= 1 /\ None \notin Ids /\ Ids \subseteq Nat /\ Founder \in Ids
BY LayoutAssumption DEF Side, Ids, None, Founder

(* One field of a window changed.                                          *)
LEMMA WindowWith ==
  ASSUME NEW w, w = Window(w.root, w.zoomed, w.active), NEW x
  PROVE  /\ [w EXCEPT !.root = x] = Window(x, w.zoomed, w.active)
         /\ [w EXCEPT !.zoomed = x] = Window(w.root, x, w.active)
         /\ [w EXCEPT !.active = x] = Window(w.root, w.zoomed, x)
<1> DEFINE r == w.root
           z == w.zoomed
           a == w.active
<1>1. w = [root |-> r, zoomed |-> z, active |-> a]
  BY DEF Window
<1> HIDE DEF r, z, a
<1>2. /\ [w EXCEPT !.root = x] = [root |-> x, zoomed |-> z, active |-> a]
      /\ [w EXCEPT !.zoomed = x] = [root |-> r, zoomed |-> x, active |-> a]
      /\ [w EXCEPT !.active = x] = [root |-> r, zoomed |-> z, active |-> x]
  BY <1>1
<1> QED BY <1>2 DEF Window, r, z, a

(* A new window of one pane.                                               *)
LEMMA SingleIs ==
  ASSUME NEW p, NEW s \in Side
  PROVE  LET w == Single(p, s)
         IN  /\ GoodWin(w) /\ Ample(w.root) /\ PanesOf(w.root) = {p}
             /\ w.zoomed = None /\ w.active = p /\ CellOf(w.root, p).len = s
<1> DEFINE w == Single(p, s)
           c == Leaf(Origin, s)
           t == [n \in {{p}} |-> c]
<1>1. w = Window(t, None, p)
  BY DEF Single
<1>2. c \in Cell({p}) /\ c.kind = "leaf" /\ c.kids = <<>> /\ c.at = Origin /\ c.len = s
  BY AxesAre, LeafIs
<1> HIDE DEF c
<1>3. DOMAIN t = {{p}} /\ t[{p}] = c /\ t \in [DOMAIN t -> Cell({p})]
  BY <1>2
<1> HIDE DEF t
<1>4. PanesOf(t) = {p} /\ \A n \in DOMAIN t : n = {p}
  BY <1>3 DEF PanesOf
<1>5. Boxes(t) = {}
  BY <1>2, <1>3 DEF Boxes
<1>6. Typed(t)
  <2>1. DOMAIN t = {{p}} /\ PanesOf(t) \in DOMAIN t /\ {} \notin DOMAIN t
    BY <1>3, <1>4
  <2>2. t \in [DOMAIN t -> Cell(PanesOf(t))]
    BY <1>3, <1>4
  <2>3. IsFiniteSet(PanesOf(t))
    BY <1>4, FS_Singleton
  <2>4. DOMAIN t \subseteq SUBSET PanesOf(t)
    BY <2>1, <1>4
  <2> QED BY <2>1, <2>2, <2>3, <2>4 DEF Typed
<1>7. Leafy(t)
  BY <1>2, <1>3, <1>4 DEF Leafy
<1>8. Tree(t)
  BY <1>5, <1>6, <1>7 DEF Tree, Kin, Nested
<1>9. w.root = t /\ w.zoomed = None /\ w.active = p /\ w = Window(w.root, w.zoomed, w.active)
  BY <1>1, WindowIs
<1> HIDE DEF w
<1>10. GoodWin(w)
  BY <1>2, <1>3, <1>4, <1>5, <1>8, <1>9 DEF GoodWin, Laid, Root
<1> QED BY <1>2, <1>3, <1>4, <1>5, <1>9, <1>10 DEF Ample, CellOf, w

(* All cells are laid out again.                                           *)
LEMMA ResizedIs ==
  ASSUME NEW w, GoodWin(w), NEW s \in Side
  PROVE  LET v == Resized(w, s)
         IN  /\ GoodWin(v) /\ Ample(v.root) /\ PanesOf(v.root) = PanesOf(w.root)
             /\ v.zoomed = w.zoomed /\ v.active = w.active
<1> DEFINE v == Resized(w, s)
           r == Scale(w.root, PanesOf(w.root), Origin, s)
<1>1. Tree(w.root) /\ w = Window(w.root, w.zoomed, w.active)
  BY DEF GoodWin
<1>2. /\ Tree(r) /\ PanesOf(r) = PanesOf(w.root)
      /\ Root(r).at = Origin /\ Laid(r) /\ Ample(r)
  BY <1>1, ResizeLays
<1>3. v = [w EXCEPT !.root = r]
  BY DEF Resized
<1> HIDE DEF r, v
<1>4. v = Window(r, w.zoomed, w.active)
  BY <1>1, <1>3, WindowWith
<1>5. v.root = r /\ v.zoomed = w.zoomed /\ v.active = w.active /\ v = Window(v.root, v.zoomed, v.active)
  BY <1>4, WindowIs
<1>6. GoodWin(v)
  BY <1>2, <1>5 DEF GoodWin
<1> QED BY <1>2, <1>5, <1>6 DEF v

(* A dragged divider.                                                      *)
LEMMA DraggedIs ==
  ASSUME GoodWin(win), NEW p \in Panes, NEW a \in Axes, NEW d \in Int,
         Boundary(win.root, p, a) # <<>>,
         ~(Sides(Boundary(win.root, p, a), a)[1] + Sides(Boundary(win.root, p, a), a)[2] < 2)
  PROVE  LET v == [win EXCEPT !.root =
                     MoveBoundary(@, p, a, Allowed(Boundary(win.root, p, a), a, d))]
         IN  /\ GoodWin(v) /\ (Ample(win.root) => Ample(v.root)) /\ PanesOf(v.root) = Panes
             /\ v.zoomed = win.zoomed /\ v.active = win.active
<1> DEFINE t == win.root
           b == Outermost(t, p, a)
           i == KidWith(t, b, p)
           x == Kids(t, b)[i]
           y == Kids(t, b)[i + 1]
           pair == Boundary(t, p, a)
           e == Allowed(pair, a, d)
           r == MoveBoundary(t, p, a, e)
           v == [win EXCEPT !.root = r]
<1>1. Tree(t) /\ PanesOf(t) = Panes /\ win = Window(t, win.zoomed, win.active)
  BY DEF GoodWin, Panes
<1>2. b \in Boxes(t) /\ i \in 1..Count(t, b) /\ i + 1 \in 1..Count(t, b) /\ pair = <<x, y>>
  BY <1>1, OutermostIs
<1>3. x \in DOMAIN t /\ y \in DOMAIN t
  BY <1>1, <1>2, KidFacts
<1> HIDE DEF x, y, t
<1>4. t[x].len[a] \in Nat /\ t[y].len[a] \in Nat
  <2>1. t[x].len \in [Axes -> Nat] /\ t[y].len \in [Axes -> Nat]
    BY <1>1, <1>3, CellFacts
  <2> QED BY <2>1
<1> USE DEF t
<1>5. Sides(pair, a)[1] = t[x].len[a] /\ Sides(pair, a)[2] = t[y].len[a]
  BY <1>2 DEF Sides
<1>6. pair[1] = x /\ pair[2] = y
  BY <1>2
<1> DEFINE m == t[x].len[a]
           n == t[y].len[a]
<1>7. m + n >= 2 /\ m \in Nat /\ n \in Nat
  BY <1>4, <1>5
<1>8. e = Clamp(d, -(m - 1), n - 1)
  BY <1>5 DEF Allowed
<1> HIDE DEF m, n, e
<1>9. e \in Int /\ m + e \in Nat /\ n - e \in Nat
  BY <1>7, <1>8 DEF Clamp
<1>10. t[pair[1]].len[a] + e \in Nat /\ t[pair[2]].len[a] - e \in Nat
  BY <1>6, <1>9 DEF m, n
<1>11. /\ Tree(r) /\ PanesOf(r) = PanesOf(t)
       /\ Root(r).at = Root(t).at /\ (Laid(t) => Laid(r)) /\ (Ample(t) => Ample(r))
  BY <1>1, <1>9, <1>10, MoveIs
<1>12. v = Window(r, win.zoomed, win.active)
  <2> HIDE DEF r
  <2> QED BY <1>1, WindowWith
<1> HIDE DEF r, v
<1>13. /\ v.root = r /\ v.zoomed = win.zoomed /\ v.active = win.active
       /\ v = Window(v.root, v.zoomed, v.active)
  BY <1>12, WindowIs
<1>14. GoodWin(v)
  BY <1>1, <1>11, <1>13 DEF GoodWin
<1> QED BY <1>1, <1>11, <1>13, <1>14 DEF v, r, e

(* Two panes swapped.                                                      *)
LEMMA SwappedIs ==
  ASSUME NEW w, GoodWin(w), NEW p \in PanesOf(w.root), NEW q \in PanesOf(w.root)
  PROVE  LET v == Swapped(w, p, q)
         IN  /\ GoodWin(v) /\ (Ample(w.root) => Ample(v.root)) /\ PanesOf(v.root) = PanesOf(w.root)
             /\ v.zoomed = None
             /\ \A x \in PanesOf(w.root) \ {p, q} : CellOf(v.root, x).len = CellOf(w.root, x).len
<1> DEFINE v == Swapped(w, p, q)
           r == SwapLeaves(w.root, p, q)
<1>1. Tree(w.root)
  BY DEF GoodWin
<1>2. /\ Tree(r) /\ PanesOf(r) = PanesOf(w.root)
      /\ Root(r).at = Root(w.root).at
      /\ (Laid(w.root) => Laid(r)) /\ (Ample(w.root) => Ample(r))
      /\ \A x \in PanesOf(w.root) \ {p, q} : CellOf(r, x).len = CellOf(w.root, x).len
  BY <1>1, SwapIs
<1>3. v = Window(r, None, p)
  BY DEF Swapped
<1> HIDE DEF r, v
<1>4. v.root = r /\ v.zoomed = None /\ v.active = p /\ v = Window(v.root, v.zoomed, v.active)
  BY <1>3, WindowIs
<1>5. GoodWin(v)
  BY <1>2, <1>4 DEF GoodWin
<1> QED BY <1>2, <1>4, <1>5 DEF v

(* The same tree with another zoom and another active pane.                *)
LEMMA RewindowedIs ==
  ASSUME NEW w, GoodWin(w), NEW z \in PanesOf(w.root) \cup {None}, NEW a \in PanesOf(w.root),
         NEW v, v = Window(w.root, z, a)
  PROVE  GoodWin(v) /\ v.root = w.root /\ v.zoomed = z /\ v.active = a
<1>1. v.root = w.root /\ v.zoomed = z /\ v.active = a /\ v = Window(v.root, v.zoomed, v.active)
  BY WindowIs
<1> QED BY <1>1 DEF GoodWin

(* The window with the new pane of a split.                                *)
LEMMA InsertedIs ==
  ASSUME NEW w, GoodWin(w), NEW s, s.target \in PanesOf(w.root), s.new \notin PanesOf(w.root),
         s.axis \in Axes
  PROVE  LET v == Inserted(w, s)
             c == CellOf(w.root, s.target)
         IN  /\ GoodWin(v) /\ v.zoomed = None /\ PanesOf(v.root) = PanesOf(w.root) \cup {s.new}
             /\ (Ample(w.root) /\ Splittable(w, s.target, s.axis) => Ample(v.root))
             /\ CellOf(v.root, s.target).len = [c.len EXCEPT ![s.axis] = Halves(c.len[s.axis])[1]]
             /\ CellOf(v.root, s.new).len = [c.len EXCEPT ![s.axis] = Halves(c.len[s.axis])[2]]
             /\ \A x \in PanesOf(w.root) \ {s.target} : CellOf(v.root, x).len = CellOf(w.root, x).len
<1> DEFINE v == Inserted(w, s)
           p == s.target
           a == s.axis
           t == w.root
           r == SplitLeaf(t, p, a, s.new)
           c == CellOf(t, p)
           h == Halves(c.len[a])
<1>1. Tree(t) /\ Laid(t) /\ Root(t).at = Origin
  BY DEF GoodWin
<1>2. SplitDone(t, p, a, s.new, r)
  BY <1>1, SplitIs
<1>3. v = Window(r, None, s.new)
  BY DEF Inserted
<1> HIDE DEF r, v
<1>4. v.root = r /\ v.zoomed = None /\ v.active = s.new /\ v = Window(v.root, v.zoomed, v.active)
  BY <1>3, WindowIs
<1>5. /\ Tree(r) /\ PanesOf(r) = PanesOf(t) \cup {s.new} /\ Root(r).at = Root(t).at
      /\ CellOf(r, p).len = [c.len EXCEPT ![a] = h[1]] /\ CellOf(r, s.new).len = [c.len EXCEPT ![a] = h[2]]
      /\ \A x \in PanesOf(t) \ {p} : CellOf(r, x).len = CellOf(t, x).len
      /\ (Laid(t) => Laid(r)) /\ (Ample(t) /\ h[2] >= 1 => Ample(r))
  BY <1>2 DEF SplitDone, SameRect
<1>6. Splittable(w, p, a) => h[2] >= 1
  <2>1. {p} \in DOMAIN t
    BY <1>1 DEF Tree, Leafy
  <2>2. c.len[a] \in Nat
    <3>1. c.len \in [Axes -> Nat]
      BY <1>1, <2>1, CellFacts DEF CellOf
    <3> HIDE DEF c
    <3> QED BY <3>1
  <2>3. h[2] \in Nat
    BY <2>2, HalvesAre
  <2> QED BY <2>3 DEF Splittable
<1>7. GoodWin(v)
  BY <1>1, <1>4, <1>5 DEF GoodWin
<1> QED BY <1>4, <1>5, <1>6, <1>7 DEF v

---------------------------------------------------------------------------
(* One lemma for each action. *)

(* A layout saved is the window's.                                         *)
LEMMA SavedBySave ==
  ASSUME Save, win' = NoWindow \/ GoodWin(win')
  PROVE  SavedInv'
<1>1. saved' = win'
  BY DEF Save
<1>2. win' = Window(win'.root, win'.zoomed, win'.active)
  <2>1. NoWindow = Window(NoWindow.root, NoWindow.zoomed, NoWindow.active)
    BY WindowIs DEF NoWindow
  <2> QED BY <2>1 DEF GoodWin
<1>3. win'.zoomed \in PanesOf(win'.root) \cup {None}
  BY NotGood DEF GoodWin
<1> QED BY <1>1, <1>2, <1>3 DEF SavedInv, Panes

(* Splits wait on while the window gets no new pane.                       *)
LEMMA SplitsKept ==
  ASSUME SplitsInv, pending' \subseteq pending, next' = next, Panes' \subseteq Panes
  PROVE  SplitsInv'
<1>1. ASSUME NEW s \in pending'
      PROVE  /\ s.new \in Ids \ Panes' /\ s.new < next' /\ s.target \in Ids
             /\ s.axis \in Axes /\ s.was \in Side
             /\ s.keep = Half(s, 1) /\ s.give = Half(s, 2)
  BY DEF SplitsInv
<1>2. \A s, r \in pending' : s.new = r.new => s = r
  BY DEF SplitsInv
<1> QED BY <1>1, <1>2 DEF SplitsInv

(* The plain facts stay while the window gets no new pane.                 *)
LEMMA PlainKept ==
  ASSUME PlainInv, next' = next, Panes' \subseteq Panes, size' \in Sizes, viewed' \in BOOLEAN,
         poisoned' \in BOOLEAN, late' \in BOOLEAN, DOMAIN sent' = Ids
  PROVE  PlainInv'
BY DEF PlainInv

(* The sizes are right again when those that changed were told.            *)
LEMMA Told ==
  ASSUME NEW ps, Push(win', ps), Panes' \subseteq Ids,
         \A p \in (Panes' \ stale') \ ps : sent[p] = SizeIn(win', p)
  PROVE  SizesAgree' /\ DOMAIN sent' = Ids
<1>1. sent' = [p \in Ids |-> IF p \in ps THEN SizeIn(win', p) ELSE sent[p]]
  BY DEF Push
<1>2. ASSUME NEW p \in Panes' \ stale' PROVE sent'[p] = SizeIn(win', p)
  BY <1>1, <1>2
<1> QED BY <1>1, <1>2 DEF SizesAgree

(* The window is laid out again, and every pane is told.                   *)
LEMMA FitIs ==
  ASSUME PlainInv, NEW w, GoodWin(w), PanesOf(w.root) = Panes, NEW s \in Sizes, Fit(w, s)
  PROVE  /\ WindowInv' /\ RoomInv' /\ SavedInv' /\ SizesAgree'
         /\ Panes' = Panes /\ late' = FALSE /\ DOMAIN sent' = Ids
<1>1. s \in Side
  BY ConstantsAre
<1>2. win' = Resized(w, s) /\ Push(win', PanesOf(w.root)) /\ Save /\ stale' = {} /\ late' = FALSE
  BY DEF Fit
<1>3. GoodWin(win') /\ Ample(win'.root) /\ PanesOf(win'.root) = PanesOf(w.root)
  BY <1>1, <1>2, ResizedIs
<1>4. Panes' = Panes
  BY <1>3 DEF Panes
<1>5. SavedInv'
  BY <1>2, <1>3, SavedBySave
<1>6. SizesAgree' /\ DOMAIN sent' = Ids
  <2>1. Panes' \subseteq Ids
    BY <1>4 DEF PlainInv
  <2>2. Push(win', Panes)
    BY <1>2
  <2> QED BY <1>4, <2>1, <2>2, Told
<1> QED BY <1>2, <1>3, <1>4, <1>5, <1>6 DEF WindowInv, RoomInv

(* The window is there when a command works.                               *)
LEMMA WorksIs ==
  ASSUME LayoutInv, Works
  PROVE  /\ GoodWin(win) /\ Panes = PanesOf(win.root) /\ win.active \in Panes
         /\ win.zoomed \in Panes \cup {None} /\ win = Window(win.root, win.zoomed, win.active)
BY DEF LayoutInv, WindowInv, Works, GoodWin, Panes

(* A new size, whether or not the window is viewed.                        *)
LEMMA StepResize ==
  ASSUME LayoutInv, NEW s \in Sizes, Resize(s)
  PROVE  LayoutInv'
<1>1. GoodWin(win) /\ Panes = PanesOf(win.root)
  BY WorksIs DEF Resize
<1>2. UNCHANGED <<viewed, next, pending, poisoned>> /\ size' \in Sizes
  BY DEF Resize, splits
<1>3. CASE viewed
  <2>1. Fit(win, s)
    BY <1>3 DEF Resize
  <2>2. /\ WindowInv' /\ RoomInv' /\ SavedInv' /\ SizesAgree'
        /\ Panes' = Panes /\ late' = FALSE /\ DOMAIN sent' = Ids
    BY <1>1, <2>1, FitIs DEF LayoutInv
  <2>3. SplitsInv'
    BY <1>2, <2>2, SplitsKept DEF LayoutInv
  <2>4. PlainInv'
    <3>1. PlainInv
      BY DEF LayoutInv
    <3>2. viewed' \in BOOLEAN /\ poisoned' \in BOOLEAN /\ late' \in BOOLEAN
      BY <1>2, <2>2, <3>1 DEF PlainInv
    <3> QED BY <1>2, <2>2, <3>1, <3>2, PlainKept
  <2> QED BY <2>2, <2>3, <2>4 DEF LayoutInv
<1>4. CASE ~viewed
  <2>1. UNCHANGED <<win, sent, saved, history>>
    BY <1>4 DEF Resize
  <2>2. UNCHANGED Panes
    BY <2>1 DEF Panes
  <2>3. SplitsInv'
    BY <1>2, <2>2, SplitsKept DEF LayoutInv
  <2>4. PlainInv'
    <3>1. PlainInv
      BY DEF LayoutInv
    <3>2. viewed' \in BOOLEAN /\ poisoned' \in BOOLEAN /\ late' \in BOOLEAN /\ DOMAIN sent' = Ids
      BY <1>2, <2>1, <3>1 DEF PlainInv, history
    <3> QED BY <1>2, <2>2, <3>1, <3>2, PlainKept
  <2>5. WindowInv' /\ RoomInv' /\ SavedInv' /\ SizesAgree'
    BY <2>1, <2>2 DEF LayoutInv, WindowInv, RoomInv, SavedInv, SizesAgree, history
  <2> QED BY <2>3, <2>4, <2>5 DEF LayoutInv
<1> QED BY <1>3, <1>4

(* The window is shown again.                                              *)
LEMMA StepSelect ==
  ASSUME LayoutInv, Select
  PROVE  LayoutInv'
<1>1. GoodWin(win) /\ Panes = PanesOf(win.root)
  BY WorksIs DEF Select
<1>2. UNCHANGED <<size, next, pending, poisoned>> /\ viewed' = TRUE /\ Fit(win, size)
  BY DEF Select, splits
<1>3. PlainInv /\ size \in Sizes
  BY DEF LayoutInv, PlainInv
<1>4. /\ WindowInv' /\ RoomInv' /\ SavedInv' /\ SizesAgree'
      /\ Panes' = Panes /\ late' = FALSE /\ DOMAIN sent' = Ids
  BY <1>1, <1>2, <1>3, FitIs
<1>5. SplitsInv'
  BY <1>2, <1>4, SplitsKept DEF LayoutInv
<1>6. PlainInv'
  <2>1. viewed' \in BOOLEAN /\ poisoned' \in BOOLEAN /\ late' \in BOOLEAN /\ size' \in Sizes
    BY <1>2, <1>3, <1>4 DEF PlainInv
  <2> QED BY <1>2, <1>3, <1>4, <2>1, PlainKept
<1> QED BY <1>4, <1>5, <1>6 DEF LayoutInv

(* Another window is shown.                                                *)
LEMMA StepLeave ==
  ASSUME LayoutInv, Leave
  PROVE  LayoutInv'
<1>1. viewed' = FALSE /\ UNCHANGED <<win, size, splits, sent, saved, poisoned, history>>
  BY DEF Leave
<1>2. UNCHANGED Panes
  BY <1>1 DEF Panes
<1>3. SplitsInv'
  BY <1>1, <1>2, SplitsKept DEF LayoutInv, splits
<1>4. PlainInv'
  <2>1. PlainInv
    BY DEF LayoutInv
  <2>2. /\ viewed' \in BOOLEAN /\ poisoned' \in BOOLEAN /\ late' \in BOOLEAN /\ DOMAIN sent' = Ids
        /\ size' \in Sizes /\ next' = next
    BY <1>1, <2>1 DEF PlainInv, history, splits
  <2> QED BY <1>2, <2>1, <2>2, PlainKept
<1>5. WindowInv' /\ RoomInv' /\ SavedInv' /\ SizesAgree'
  BY <1>1, <1>2 DEF LayoutInv, WindowInv, RoomInv, SavedInv, SizesAgree, history
<1> QED BY <1>3, <1>4, <1>5 DEF LayoutInv

(* Another pane is active.                                                 *)
LEMMA StepFocus ==
  ASSUME LayoutInv, NEW p \in Ids, Focus(p)
  PROVE  LayoutInv'
<1>1. /\ GoodWin(win) /\ Panes = PanesOf(win.root) /\ win.zoomed \in Panes \cup {None}
      /\ win = Window(win.root, win.zoomed, win.active) /\ p \in Panes
  BY WorksIs DEF Focus
<1>2. /\ win' = [win EXCEPT !.active = p] /\ Save
      /\ UNCHANGED <<viewed, size, next, pending, sent, poisoned, stale, late>>
  BY DEF Focus, ui, splits, history
<1>3. win' = Window(win.root, win.zoomed, p)
  BY <1>1, <1>2, WindowWith
<1>4. GoodWin(win') /\ win'.root = win.root /\ win'.zoomed = win.zoomed
  <2>1. win.zoomed \in PanesOf(win.root) \cup {None} /\ p \in PanesOf(win.root)
    BY <1>1
  <2>2. \A z \in PanesOf(win.root) \cup {None}, a \in PanesOf(win.root) : \A v :
          v = Window(win.root, z, a) => GoodWin(v) /\ v.root = win.root /\ v.zoomed = z
    BY <1>1, RewindowedIs
  <2> QED BY <1>3, <2>1, <2>2
<1>5. UNCHANGED Panes
  BY <1>4 DEF Panes
<1>6. SavedInv'
  BY <1>2, <1>4, SavedBySave
<1>7. SplitsInv'
  BY <1>2, <1>5, SplitsKept DEF LayoutInv
<1>8. PlainInv'
  <2>1. PlainInv
    BY DEF LayoutInv
  <2>2. /\ viewed' \in BOOLEAN /\ poisoned' \in BOOLEAN /\ late' \in BOOLEAN /\ DOMAIN sent' = Ids
        /\ size' \in Sizes
    BY <1>2, <2>1 DEF PlainInv
  <2> QED BY <1>2, <1>5, <2>1, <2>2, PlainKept
<1>9. SizesAgree'
  BY <1>2, <1>4, <1>5 DEF LayoutInv, SizesAgree, SizeIn
<1>10. WindowInv' /\ RoomInv'
  BY <1>2, <1>4 DEF LayoutInv, WindowInv, RoomInv
<1> QED BY <1>6, <1>7, <1>8, <1>9, <1>10 DEF LayoutInv

(* Both of them.                                                           *)
LEMMA RestKept ==
  ASSUME LayoutInv, pending' \subseteq pending, next' = next, Panes' \subseteq Panes,
         size' \in Sizes, viewed' \in BOOLEAN, poisoned' \in BOOLEAN, late' \in BOOLEAN,
         DOMAIN sent' = Ids
  PROVE  SplitsInv' /\ PlainInv'
<1>1. SplitsInv /\ PlainInv
  BY DEF LayoutInv
<1> QED BY <1>1, SplitsKept, PlainKept

(* What the invariant says of the numbers and the flags.                   *)
LEMMA InvFacts ==
  ASSUME LayoutInv
  PROVE  /\ Panes \subseteq Ids /\ (\A p \in Panes : p < next /\ p # None /\ p \in Nat)
         /\ size \in Sizes /\ viewed \in BOOLEAN /\ poisoned \in BOOLEAN /\ late \in BOOLEAN
         /\ next \in 1 .. MaxPane + 1 /\ DOMAIN sent = Ids
BY ConstantsAre DEF LayoutInv, PlainInv

(* Another zoom or another active pane for the same tree.                  *)
LEMMA SameTree ==
  ASSUME LayoutInv, Works, NEW z \in Panes \cup {None}, NEW a \in Panes,
         NEW v, v = Window(win.root, z, a)
  PROVE  /\ GoodWin(v) /\ v.root = win.root /\ v.zoomed = z /\ v.active = a
         /\ PanesOf(v.root) = Panes
<1>1. GoodWin(win) /\ Panes = PanesOf(win.root)
  BY WorksIs
<1>2. \A y \in PanesOf(win.root) \cup {None}, x \in PanesOf(win.root) : \A w :
        w = Window(win.root, y, x) => GoodWin(w) /\ w.root = win.root /\ w.zoomed = y /\ w.active = x
  BY <1>1, RewindowedIs
<1> QED BY <1>1, <1>2

(* The tree stays, and no pane is zoomed any more.                         *)
LEMMA ZoomDropped ==
  ASSUME LayoutInv, Works, NEW a \in Panes, win' = Window(win.root, None, a),
         Push(win', Restored), Fresh(Restored), late' = late
  PROVE  /\ GoodWin(win') /\ win'.root = win.root /\ win'.zoomed = None /\ win'.active = a
         /\ Panes' = Panes /\ WindowInv' /\ RoomInv' /\ SizesAgree' /\ DOMAIN sent' = Ids
<1>1. /\ GoodWin(win') /\ win'.root = win.root /\ win'.zoomed = None /\ win'.active = a
  BY SameTree
<1>2. Panes' = Panes
  BY <1>1 DEF Panes
<1>3. Panes \subseteq Ids /\ \A p \in Panes : p # None
  BY InvFacts
<1>4. ASSUME NEW p \in (Panes' \ stale') \ Restored PROVE sent[p] = SizeIn(win', p)
  <2>1. win.zoomed = None /\ p \in Panes /\ p \notin stale
    BY <1>2, <1>4 DEF Restored, Fresh
  <2>2. sent[p] = SizeIn(win, p)
    BY <2>1 DEF LayoutInv, SizesAgree
  <2> QED BY <1>1, <1>3, <2>1, <2>2 DEF SizeIn
<1>5. SizesAgree' /\ DOMAIN sent' = Ids
  BY <1>2, <1>3, <1>4, Told
<1>6. WindowInv' /\ RoomInv'
  BY <1>1 DEF LayoutInv, WindowInv, RoomInv
<1> QED BY <1>1, <1>2, <1>5, <1>6

(* The neighbour becomes active, and the zoom ends.                        *)
LEMMA StepGoTo ==
  ASSUME LayoutInv, NEW dir \in Dirs, GoTo(dir)
  PROVE  LayoutInv'
<1> DEFINE to == Neighbour(win.root, win.active, dir)
           act == IF to = None THEN win.active ELSE to
<1>1. /\ Works /\ win' = Window(win.root, None, act)
      /\ Push(win', Restored) /\ Fresh(Restored) /\ Save
      /\ UNCHANGED <<viewed, size, next, pending, poisoned, late>>
  BY DEF GoTo, ui, splits
<1>2. GoodWin(win) /\ Panes = PanesOf(win.root) /\ win.active \in Panes
  BY <1>1, WorksIs
<1>3. act \in Panes
  <2>1. Tree(win.root)
    BY <1>2 DEF GoodWin
  <2>2. PanesOf(win.root) \subseteq Nat
    BY <1>2, InvFacts
  <2>3. to = None \/ to \in PanesOf(win.root)
    <3>1. win.active \in PanesOf(win.root)
      BY <1>2
    <3> QED BY <2>1, <2>2, <3>1, NeighbourIs
  <2> QED BY <1>2, <2>3
<1> HIDE DEF act
<1>4. /\ GoodWin(win') /\ Panes' = Panes /\ WindowInv' /\ RoomInv' /\ SizesAgree' /\ DOMAIN sent' = Ids
  <2>1. late' = late
    BY <1>1
  <2> QED BY <1>1, <1>3, <2>1, ZoomDropped
<1>5. SavedInv'
  BY <1>1, <1>4, SavedBySave
<1>6. SplitsInv' /\ PlainInv'
  <2>1. size' \in Sizes /\ viewed' \in BOOLEAN /\ poisoned' \in BOOLEAN /\ late' \in BOOLEAN
    BY <1>1, InvFacts
  <2> QED BY <1>1, <1>4, <2>1, RestKept
<1> QED BY <1>4, <1>5, <1>6 DEF LayoutInv

(* Zooming in and out lays the whole window out again.                     *)
LEMMA StepToggleZoom ==
  ASSUME LayoutInv, NEW p \in Ids, ToggleZoom(p)
  PROVE  LayoutInv'
<1> DEFINE z == IF win.zoomed = p THEN None ELSE p
           w == [win EXCEPT !.zoomed = z]
<1>1. /\ Works /\ p \in Panes /\ Fit(w, size)
      /\ UNCHANGED <<viewed, size, next, pending, poisoned>>
  BY DEF ToggleZoom, ui, splits
<1>2. win = Window(win.root, win.zoomed, win.active) /\ win.active \in Panes /\ z \in Panes \cup {None}
  BY <1>1, WorksIs
<1> HIDE DEF z
<1>3. w = Window(win.root, z, win.active)
  BY <1>2, WindowWith
<1> HIDE DEF w
<1>4. GoodWin(w) /\ PanesOf(w.root) = Panes
  BY <1>1, <1>2, <1>3, SameTree
<1>5. PlainInv /\ size \in Sizes
  BY DEF LayoutInv, PlainInv
<1>6. /\ WindowInv' /\ RoomInv' /\ SavedInv' /\ SizesAgree'
      /\ Panes' = Panes /\ late' = FALSE /\ DOMAIN sent' = Ids
  BY <1>1, <1>4, <1>5, FitIs
<1>7. SplitsInv' /\ PlainInv'
  <2>1. size' \in Sizes /\ viewed' \in BOOLEAN /\ poisoned' \in BOOLEAN /\ late' \in BOOLEAN
    BY <1>1, <1>6, InvFacts
  <2> QED BY <1>1, <1>6, <2>1, RestKept
<1> QED BY <1>6, <1>7 DEF LayoutInv

(* The pane to swap with is one of the window.                             *)
LEMMA OneFromIs ==
  ASSUME LayoutInv, Works, NEW p, NEW step
  PROVE  OneFrom(p, step) \in Panes
<1> DEFINE after  == {q \in Panes : Before(win.root, p, q)}
           before == {q \in Panes : Before(win.root, q, p)}
           ps == IF after # {} THEN after ELSE Panes
           qs == IF before # {} THEN before ELSE Panes
<1>1. Tree(win.root) /\ Panes = PanesOf(win.root) /\ Panes # {}
  BY WorksIs DEF GoodWin
<1>2. ps \subseteq Panes /\ ps # {} /\ qs \subseteq Panes /\ qs # {}
  BY <1>1
<1>3. OneFrom(p, step) = IF step = 1 THEN FirstOf(win.root, ps) ELSE LastOf(win.root, qs)
  BY DEF OneFrom
<1> HIDE DEF ps, qs
<1>4. FirstOf(win.root, ps) \in ps
  BY <1>1, <1>2, FirstIs
<1>5. LastOf(win.root, qs) \in qs
  BY <1>1, <1>2, LastIs
<1> QED BY <1>2, <1>3, <1>4, <1>5

(* Without its zoom a window has the same tree.                            *)
LEMMA UnzoomedWin ==
  ASSUME LayoutInv, Works
  PROVE  Unzoomed(win) = Window(win.root, None, win.active)
<1>1. win = Window(win.root, win.zoomed, win.active)
  BY WorksIs
<1> QED BY <1>1, WindowWith DEF Unzoomed

(* Two panes swapped, or one alone unzoomed.                               *)
LEMMA StepSwapPane ==
  ASSUME LayoutInv, NEW step \in {1, -1}, SwapPane(step)
  PROVE  LayoutInv'
<1> DEFINE p == win.active
           q == OneFrom(p, step)
<1>1. Works /\ UNCHANGED <<viewed, size, next, pending, poisoned, late>>
  BY DEF SwapPane, ui, splits
<1>2. GoodWin(win) /\ Panes = PanesOf(win.root) /\ p \in Panes /\ q \in Panes
  BY <1>1, WorksIs, OneFromIs
<1>r. size' \in Sizes /\ viewed' \in BOOLEAN /\ poisoned' \in BOOLEAN /\ late' \in BOOLEAN
  BY <1>1, InvFacts
<1>3. CASE Several
  <2>1. /\ win' = Swapped(win, p, q) /\ Save
        /\ Push(win', Restored \cup {p, q}) /\ Fresh(Restored \cup {p, q})
    BY <1>3 DEF SwapPane
  <2> HIDE DEF q
  <2>2. /\ GoodWin(win') /\ (Ample(win.root) => Ample(win'.root)) /\ PanesOf(win'.root) = PanesOf(win.root)
        /\ win'.zoomed = None
        /\ \A x \in PanesOf(win.root) \ {p, q} : CellOf(win'.root, x).len = CellOf(win.root, x).len
    BY <1>2, <2>1, SwappedIs
  <2>3. Panes' = Panes
    BY <2>2 DEF Panes
  <2>4. Panes \subseteq Ids /\ \A x \in Panes : x # None
    BY InvFacts
  <2>5. ASSUME NEW x \in (Panes' \ stale') \ (Restored \cup {p, q}) PROVE sent[x] = SizeIn(win', x)
    <3>1. win.zoomed = None /\ x \in Panes /\ x \notin stale /\ x \notin {p, q}
      BY <2>1, <2>3, <2>5 DEF Restored, Fresh
    <3>2. sent[x] = SizeIn(win, x)
      BY <3>1 DEF LayoutInv, SizesAgree
    <3> QED BY <1>2, <2>2, <2>4, <3>1, <3>2 DEF SizeIn
  <2>6. SizesAgree' /\ DOMAIN sent' = Ids
    BY <2>1, <2>3, <2>4, <2>5, Told
  <2>7. SavedInv'
    BY <2>1, <2>2, SavedBySave
  <2>8. WindowInv' /\ RoomInv'
    BY <1>1, <2>2 DEF LayoutInv, WindowInv, RoomInv
  <2>9. SplitsInv' /\ PlainInv'
    BY <1>1, <1>r, <2>3, <2>6, RestKept
  <2> QED BY <2>6, <2>7, <2>8, <2>9 DEF LayoutInv
<1>4. CASE ~Several
  <2>1. /\ win' = Unzoomed(win) /\ UNCHANGED saved /\ Push(win', Restored) /\ Fresh(Restored)
    BY <1>4 DEF SwapPane
  <2>2. win' = Window(win.root, None, p) /\ late' = late
    BY <1>1, <2>1, UnzoomedWin
  <2>3. /\ win'.root = win.root /\ win'.zoomed = None /\ win'.active = p
        /\ Panes' = Panes /\ WindowInv' /\ RoomInv' /\ SizesAgree' /\ DOMAIN sent' = Ids
    BY <1>1, <1>2, <2>1, <2>2, ZoomDropped
  <2>4. SavedInv'
    BY <2>1, <2>3 DEF LayoutInv, SavedInv
  <2>5. SplitsInv' /\ PlainInv'
    BY <1>1, <1>r, <2>3, RestKept
  <2> QED BY <2>3, <2>4, <2>5 DEF LayoutInv
<1> QED BY <1>3, <1>4

(* A divider dragged, or the panic that poisons the mutex.                 *)
LEMMA StepDrag ==
  ASSUME LayoutInv, NEW p \in Ids, NEW a \in Axes, NEW d \in Moves, Drag(p, a, d)
  PROVE  LayoutInv'
<1> DEFINE pair == Boundary(win.root, p, a)
           m == Sides(pair, a)[1]
           n == Sides(pair, a)[2]
<1>1. /\ Works /\ p \in Panes /\ pair # <<>>
      /\ UNCHANGED <<viewed, size, next, pending, late>>
  BY DEF Drag, ui, splits
<1>2. GoodWin(win) /\ Panes = PanesOf(win.root) /\ d \in Int
  BY <1>1, WorksIs, ConstantsAre
<1>3. CASE m + n < 2
  <2>1. poisoned' = TRUE /\ UNCHANGED <<win, sent, saved, stale>>
    BY <1>3 DEF Drag
  <2>2. Panes' = Panes
    BY <2>1 DEF Panes
  <2>3. /\ size' \in Sizes /\ viewed' \in BOOLEAN /\ poisoned' \in BOOLEAN /\ late' \in BOOLEAN
        /\ DOMAIN sent' = Ids
    BY <1>1, <2>1, InvFacts
  <2>4. SplitsInv' /\ PlainInv'
    BY <1>1, <2>2, <2>3, RestKept
  <2>5. WindowInv' /\ RoomInv' /\ SavedInv' /\ SizesAgree'
    BY <1>1, <2>1, <2>2 DEF LayoutInv, WindowInv, RoomInv, SavedInv, SizesAgree
  <2> QED BY <2>4, <2>5 DEF LayoutInv
<1>4. CASE ~(m + n < 2)
  <2>1. /\ win' = [win EXCEPT !.root = MoveBoundary(@, p, a, Allowed(pair, a, d))]
        /\ Push(Unzoomed(win'), Panes) /\ Save
        /\ stale' = {win.zoomed} \ {None} /\ UNCHANGED poisoned
    BY <1>4 DEF Drag
  <2>2. /\ GoodWin(win') /\ (Ample(win.root) => Ample(win'.root)) /\ PanesOf(win'.root) = Panes
        /\ win'.zoomed = win.zoomed
    BY <1>1, <1>2, <1>4, <2>1, DraggedIs
  <2>3. Panes' = Panes
    BY <2>2 DEF Panes
  <2>4. Panes \subseteq Ids /\ \A x \in Panes : x # None
    BY InvFacts
  <2>5. sent' = [x \in Ids |-> IF x \in Panes THEN SizeIn(Unzoomed(win'), x) ELSE sent[x]]
    BY <2>1 DEF Push
  <2>6. ASSUME NEW x \in Panes' \ stale' PROVE sent'[x] = SizeIn(win', x)
    <3>1. x \in Panes /\ x # win'.zoomed /\ x # None
      BY <2>1, <2>2, <2>3, <2>4, <2>6
    <3>2. Unzoomed(win') = Window(win'.root, None, win'.active)
      BY <2>2, WindowWith DEF GoodWin, Unzoomed
    <3>3. Unzoomed(win').root = win'.root /\ Unzoomed(win').zoomed = None
      BY <3>2, WindowIs
    <3>4. SizeIn(Unzoomed(win'), x) = CellOf(win'.root, x).len
      BY <3>1, <3>3 DEF SizeIn
    <3>5. SizeIn(win', x) = CellOf(win'.root, x).len
      BY <3>1 DEF SizeIn
    <3> QED BY <2>4, <2>5, <3>1, <3>4, <3>5
  <2>7. SizesAgree' /\ DOMAIN sent' = Ids
    BY <2>5, <2>6 DEF SizesAgree
  <2>8. SavedInv'
    BY <2>1, <2>2, SavedBySave
  <2>9. WindowInv' /\ RoomInv'
    BY <1>1, <2>2 DEF LayoutInv, WindowInv, RoomInv
  <2>10. SplitsInv' /\ PlainInv'
    <3>1. size' \in Sizes /\ viewed' \in BOOLEAN /\ poisoned' \in BOOLEAN /\ late' \in BOOLEAN
      BY <1>1, <2>1, InvFacts
    <3> QED BY <1>1, <2>3, <2>7, <3>1, RestKept
  <2> QED BY <2>7, <2>8, <2>9, <2>10 DEF LayoutInv
<1> QED BY <1>3, <1>4

(* A pane leaves the window.                                               *)
LEMMA PaneLeft ==
  ASSUME LayoutInv, Works, NEW p \in Panes, win' = RemovePane(win, p), Save,
         Push(win', Panes \ {p}), late' = late
  PROVE  /\ WindowInv' /\ RoomInv' /\ SavedInv' /\ SizesAgree' /\ DOMAIN sent' = Ids
         /\ Panes' = Panes \ {p}
<1>1. GoodWin(win) /\ Panes = PanesOf(win.root)
  BY WorksIs
<1>2. Left(win, {p}, win')
  BY <1>1, RemovePaneIs
<1>3. /\ win' = NoWindow \/ GoodWin(win')
      /\ PanesOf(win'.root) = Panes \ {p}
      /\ Ample(win.root) => Ample(win'.root)
  <2>1. CASE Panes \subseteq {p}
    <3>1. win' = NoWindow
      BY <1>1, <1>2, <2>1 DEF Left
    <3>2. PanesOf(win'.root) = {} /\ win'.root = NoTree
      BY <3>1, NotGood
    <3>3. Boxes(NoTree) = {}
      BY DEF Boxes, NoTree
    <3>4. Ample(NoTree)
      BY <3>3 DEF Ample
    <3> QED BY <2>1, <3>1, <3>2, <3>4
  <2>2. CASE ~(Panes \subseteq {p})
    BY <1>1, <1>2, <2>2 DEF Left
  <2> QED BY <2>1, <2>2
<1>4. Panes' = Panes \ {p}
  BY <1>3 DEF Panes
<1>5. Panes \subseteq Ids
  BY InvFacts
<1>6. SizesAgree' /\ DOMAIN sent' = Ids
  BY <1>4, <1>5, Told
<1>7. SavedInv'
  BY <1>3, SavedBySave
<1>8. WindowInv' /\ RoomInv'
  BY <1>3 DEF LayoutInv, WindowInv, RoomInv
<1> QED BY <1>4, <1>6, <1>7, <1>8

(* A pane closed.                                                          *)
LEMMA StepPaneGone ==
  ASSUME LayoutInv, NEW p \in Ids, PaneGone(p)
  PROVE  LayoutInv'
<1>1. /\ Works /\ p \in Panes /\ win' = RemovePane(win, p) /\ Save /\ Push(win', Panes \ {p})
      /\ viewed' = (viewed /\ win' # NoWindow)
      /\ UNCHANGED <<size, next, pending, poisoned, late>>
  BY DEF PaneGone
<1>2. late' = late
  BY <1>1
<1>3. /\ WindowInv' /\ RoomInv' /\ SavedInv' /\ SizesAgree' /\ DOMAIN sent' = Ids
      /\ Panes' = Panes \ {p}
  BY <1>1, <1>2, PaneLeft
<1>4. size' \in Sizes /\ viewed' \in BOOLEAN /\ poisoned' \in BOOLEAN /\ late' \in BOOLEAN
  BY <1>1, InvFacts
<1>5. SplitsInv' /\ PlainInv'
  BY <1>1, <1>3, <1>4, RestKept
<1> QED BY <1>3, <1>5 DEF LayoutInv

(* A pane moved to a window of its own.                                    *)
LEMMA StepBreakPane ==
  ASSUME LayoutInv, NEW p \in Ids, BreakPane(p)
  PROVE  LayoutInv'
<1>1. Works /\ p \in Panes /\ Save /\ UNCHANGED <<size, next, pending, poisoned>>
  BY DEF BreakPane, splits
<1>2. CASE p = Founder
  <2>1. win' = Single(p, size) /\ viewed' = TRUE /\ Push(win', {p}) /\ stale' = {} /\ late' = FALSE
    BY <1>2 DEF BreakPane
  <2>2. size \in Side
    BY ConstantsAre, InvFacts
  <2>3. GoodWin(win') /\ Ample(win'.root) /\ PanesOf(win'.root) = {p}
    BY <2>1, <2>2, SingleIs
  <2>4. Panes' = {p}
    BY <2>3 DEF Panes
  <2>5. SizesAgree' /\ DOMAIN sent' = Ids
    BY <2>1, <2>4, Told
  <2>6. SavedInv'
    BY <1>1, <2>3, SavedBySave
  <2>7. SplitsInv' /\ PlainInv'
    <3>1. size' \in Sizes /\ viewed' \in BOOLEAN /\ poisoned' \in BOOLEAN /\ late' \in BOOLEAN
      BY <1>1, <2>1, InvFacts
    <3> QED BY <1>1, <2>4, <2>5, <3>1, RestKept
  <2> QED BY <2>3, <2>5, <2>6, <2>7 DEF LayoutInv, WindowInv, RoomInv
<1>3. CASE p # Founder
  <2>1. win' = RemovePane(win, p) /\ viewed' = FALSE /\ Push(win', Panes \ {p}) /\ late' = late
    BY <1>3 DEF BreakPane
  <2>2. /\ WindowInv' /\ RoomInv' /\ SavedInv' /\ SizesAgree' /\ DOMAIN sent' = Ids
        /\ Panes' = Panes \ {p}
    BY <1>1, <2>1, PaneLeft
  <2>3. size' \in Sizes /\ viewed' \in BOOLEAN /\ poisoned' \in BOOLEAN /\ late' \in BOOLEAN
    BY <1>1, <2>1, InvFacts
  <2>4. SplitsInv' /\ PlainInv'
    BY <1>1, <2>2, <2>3, RestKept
  <2> QED BY <2>2, <2>4 DEF LayoutInv
<1> QED BY <1>2, <1>3

(* A split given up.                                                       *)
LEMMA StepSpawnFails ==
  ASSUME LayoutInv, NEW s \in pending, SpawnFails(s)
  PROVE  LayoutInv'
<1>1. /\ pending' = pending \ {s}
      /\ UNCHANGED <<win, viewed, size, next, sent, saved, poisoned, stale, late>>
  BY DEF SpawnFails, ui, history
<1>2. Panes' = Panes
  BY <1>1 DEF Panes
<1>3. /\ size' \in Sizes /\ viewed' \in BOOLEAN /\ poisoned' \in BOOLEAN /\ late' \in BOOLEAN
      /\ DOMAIN sent' = Ids
  BY <1>1, InvFacts
<1>4. SplitsInv' /\ PlainInv'
  BY <1>1, <1>2, <1>3, RestKept
<1>5. WindowInv' /\ RoomInv' /\ SavedInv' /\ SizesAgree'
  BY <1>1, <1>2 DEF LayoutInv, WindowInv, RoomInv, SavedInv, SizesAgree
<1> QED BY <1>4, <1>5 DEF LayoutInv

(* A split up to its await: its sizes are halves of the cell of that       *)
(* moment.                                                                 *)
LEMMA StepBeginSplit ==
  ASSUME LayoutInv, NEW p \in Ids, NEW a \in Axes, BeginSplit(p, a)
  PROVE  LayoutInv'
<1> DEFINE w == Unzoomed(win)
           was == CellOf(w.root, p).len
           h == Halves(was[a])
           s == [new |-> next, target |-> p, axis |-> a, was |-> was,
                 keep |-> [was EXCEPT ![a] = h[1]], give |-> [was EXCEPT ![a] = h[2]]]
<1>1. /\ Works /\ p \in Panes /\ next \in Ids
      /\ \/ pending' = pending \cup {s} /\ next' = next + 1
         \/ UNCHANGED <<next, pending>>
      /\ win' = w /\ Push(w, Restored) /\ Fresh(Restored)
      /\ UNCHANGED <<viewed, size, saved, poisoned, late>>
  BY DEF BeginSplit, ui, splits
<1>2. w = Window(win.root, None, win.active)
  BY <1>1, UnzoomedWin
<1>3. w.root = win.root
  BY <1>2, WindowIs
<1>4. was \in Side
  <2>1. Tree(win.root) /\ Panes = PanesOf(win.root)
    BY <1>1, WorksIs DEF GoodWin
  <2>2. {p} \in DOMAIN win.root
    BY <1>1, <2>1 DEF Tree, Leafy
  <2>3. win.root[{p}].len \in [Axes -> Nat]
    BY <2>1, <2>2, CellFacts
  <2> QED BY <1>3, <2>3 DEF CellOf, Side
<1>5. /\ s.new = next /\ s.target = p /\ s.axis = a /\ s.was = was
      /\ s.keep = Half(s, 1) /\ s.give = Half(s, 2)
  <2> HIDE DEF was
  <2> QED BY DEF Half
<1> HIDE DEF w, was, s
<1>6. win.active \in Panes
  BY <1>1, WorksIs
<1>7. /\ win'.root = win.root /\ win'.zoomed = None /\ win'.active = win.active
      /\ Panes' = Panes /\ WindowInv' /\ RoomInv' /\ SizesAgree' /\ DOMAIN sent' = Ids
  <2>1. win' = Window(win.root, None, win.active) /\ Push(win', Restored) /\ late' = late
    BY <1>1, <1>2
  <2> QED BY <1>1, <1>6, <2>1, ZoomDropped
<1>8. SavedInv'
  BY <1>1, <1>7 DEF LayoutInv, SavedInv
<1>9. SplitsInv' /\ PlainInv'
  <2>1. CASE UNCHANGED <<next, pending>>
    <3>1. size' \in Sizes /\ viewed' \in BOOLEAN /\ poisoned' \in BOOLEAN /\ late' \in BOOLEAN
      BY <1>1, InvFacts
    <3> QED BY <1>7, <2>1, <3>1, RestKept
  <2>2. CASE pending' = pending \cup {s} /\ next' = next + 1
    <3>1. /\ SplitsInv /\ PlainInv /\ next \in Nat
      BY ConstantsAre DEF LayoutInv, PlainInv
    <3>2. \A r \in pending : r.new \in Ids /\ r.new < next
      BY <3>1 DEF SplitsInv
    <3>3. \A r \in Ids : r \in Nat
      BY ConstantsAre
    <3>4. s.new \in Ids \ Panes' /\ s.new < next' /\ \A r \in pending : r.new # s.new /\ r.new < next'
      <4>1. next \notin Panes'
        BY <1>7, <3>1 DEF PlainInv
      <4>2. \A r \in pending : r.new # next /\ r.new < next + 1
        BY <3>1, <3>2, <3>3
      <4>3. next < next + 1
        BY <3>1
      <4> QED BY <1>1, <1>5, <2>2, <4>1, <4>2, <4>3
    <3>5. ASSUME NEW r \in pending'
          PROVE  /\ r.new \in Ids \ Panes' /\ r.new < next' /\ r.target \in Ids
                 /\ r.axis \in Axes /\ r.was \in Side
                 /\ r.keep = Half(r, 1) /\ r.give = Half(r, 2)
      <4>1. CASE r = s
        BY <1>4, <1>5, <3>4, <4>1
      <4>2. CASE r \in pending
        BY <1>7, <3>1, <3>4, <4>2 DEF SplitsInv
      <4> QED BY <2>2, <4>1, <4>2
    <3>6. ASSUME NEW q \in pending', NEW r \in pending', q.new = r.new PROVE q = r
      BY <2>2, <3>1, <3>4, <3>6 DEF SplitsInv
    <3>7. SplitsInv'
      BY <3>5, <3>6 DEF SplitsInv
    <3>8. next' \in 1..MaxPane + 1 /\ \A x \in Panes' : x < next'
      <4>1. MaxPane \in Nat /\ \A x \in Panes : x \in Nat /\ x < next
        BY ConstantsAre, InvFacts
      <4> QED BY <1>1, <1>7, <2>2, <3>1, <4>1 DEF Ids
    <3>9. PlainInv'
      BY <1>1, <1>7, <3>1, <3>8 DEF PlainInv
    <3> QED BY <3>7, <3>9
  <2> QED BY <1>1, <2>1, <2>2
<1> QED BY <1>7, <1>8, <1>9 DEF LayoutInv

(* A split after its await: the sizes of then are right unless the target  *)
(* moved.                                                                  *)
LEMMA StepFinishSplit ==
  ASSUME LayoutInv, NEW s \in pending, FinishSplit(s)
  PROVE  LayoutInv'
<1>1. ~poisoned /\ pending' = pending \ {s} /\ UNCHANGED <<viewed, size, next, poisoned>>
  BY DEF FinishSplit, ui
<1>2. /\ s.new \in Ids \ Panes /\ s.new < next /\ s.target \in Ids /\ s.axis \in Axes
      /\ s.keep = Half(s, 1) /\ s.give = Half(s, 2)
      /\ \A r \in pending : s.new = r.new => s = r
  BY DEF LayoutInv, SplitsInv
<1>3. CASE s.target \notin Panes
  <2>1. UNCHANGED <<win, sent, saved, stale, late>>
    BY <1>3 DEF FinishSplit, history
  <2>2. Panes' = Panes
    BY <2>1 DEF Panes
  <2>3. /\ size' \in Sizes /\ viewed' \in BOOLEAN /\ poisoned' \in BOOLEAN /\ late' \in BOOLEAN
        /\ DOMAIN sent' = Ids
    BY <1>1, <2>1, InvFacts
  <2>4. SplitsInv' /\ PlainInv'
    BY <1>1, <2>2, <2>3, RestKept
  <2>5. WindowInv' /\ RoomInv' /\ SavedInv' /\ SizesAgree'
    BY <2>1, <2>2 DEF LayoutInv, WindowInv, RoomInv, SavedInv, SizesAgree
  <2> QED BY <2>4, <2>5 DEF LayoutInv
<1>4. CASE s.target \in Panes
  <2> DEFINE c == CellOf(win.root, s.target)
             moved == c.len # s.was
  <2>1. /\ win' = Inserted(win, s) /\ Save
        /\ sent' = [sent EXCEPT ![s.target] = s.keep, ![s.new] = s.give]
        /\ stale' = ((stale \cup {win.zoomed}) \ {None, s.target})
                    \cup (IF moved THEN {s.target, s.new} ELSE {})
        /\ late' = (late \/ ~Splittable(win, s.target, s.axis))
    BY <1>4 DEF FinishSplit
  <2>2. win # NoWindow
    BY <1>4, NotGood DEF Panes
  <2>3. Works
    BY <1>1, <2>2 DEF Works
  <2>4. GoodWin(win) /\ Panes = PanesOf(win.root)
    BY <2>3, WorksIs
  <2>5. /\ GoodWin(win') /\ win'.zoomed = None /\ PanesOf(win'.root) = Panes \cup {s.new}
        /\ (Ample(win.root) /\ Splittable(win, s.target, s.axis) => Ample(win'.root))
        /\ CellOf(win'.root, s.target).len = [c.len EXCEPT ![s.axis] = Halves(c.len[s.axis])[1]]
        /\ CellOf(win'.root, s.new).len = [c.len EXCEPT ![s.axis] = Halves(c.len[s.axis])[2]]
        /\ \A x \in Panes \ {s.target} : CellOf(win'.root, x).len = CellOf(win.root, x).len
    <3>1. s.target \in PanesOf(win.root) /\ s.new \notin PanesOf(win.root)
      BY <1>2, <1>4, <2>4
    <3> HIDE DEF c
    <3> QED BY <1>2, <2>1, <2>4, <3>1, InsertedIs DEF c
  <2>6. Panes' = Panes \cup {s.new}
    BY <2>5 DEF Panes
  <2>7. Panes \subseteq Ids /\ (\A x \in Panes : x < next /\ x # None) /\ DOMAIN sent = Ids /\ s.new # None
    BY <1>2, InvFacts, ConstantsAre
  <2> HIDE DEF c
  <2>8. ASSUME NEW x \in Panes' \ stale' PROVE sent'[x] = SizeIn(win', x)
    <3>1. SizeIn(win', x) = CellOf(win'.root, x).len
      BY <1>2, <2>5, <2>6, <2>7, <2>8 DEF SizeIn
    <3>2. CASE x = s.target
      <4>1. ~moved
        BY <2>1, <2>8, <3>2
      <4>2. sent'[x] = s.keep
        BY <1>2, <1>4, <2>1, <2>7, <3>2
      <4> QED BY <1>2, <2>5, <3>1, <3>2, <4>1, <4>2 DEF Half
    <3>3. CASE x = s.new
      <4>1. ~moved
        BY <2>1, <2>8, <3>3
      <4>2. sent'[x] = s.give
        BY <1>2, <2>1, <2>7, <3>3
      <4> QED BY <1>2, <2>5, <3>1, <3>3, <4>1, <4>2 DEF Half
    <3>4. CASE x # s.target /\ x # s.new
      <4>1. x \in Panes /\ x \notin stale /\ x # win.zoomed
        BY <2>1, <2>6, <2>7, <2>8, <3>4
      <4>2. sent[x] = CellOf(win.root, x).len
        BY <4>1 DEF LayoutInv, SizesAgree, SizeIn
      <4>3. sent'[x] = sent[x]
        BY <2>1, <2>7, <3>4, <4>1
      <4> QED BY <2>5, <3>1, <3>4, <4>1, <4>2, <4>3
    <3> QED BY <3>2, <3>3, <3>4
  <2>9. SizesAgree' /\ DOMAIN sent' = Ids
    BY <2>1, <2>7, <2>8 DEF SizesAgree
  <2>10. SavedInv'
    BY <2>1, <2>5, SavedBySave
  <2>11. WindowInv' /\ RoomInv'
    BY <2>1, <2>5 DEF LayoutInv, WindowInv, RoomInv
  <2>12. SplitsInv'
    <3>1. ASSUME NEW r \in pending'
          PROVE  /\ r.new \in Ids \ Panes' /\ r.new < next' /\ r.target \in Ids
                 /\ r.axis \in Axes /\ r.was \in Side
                 /\ r.keep = Half(r, 1) /\ r.give = Half(r, 2)
      <4>1. r \in pending /\ r.new # s.new
        BY <1>1, <1>2
      <4> QED BY <1>1, <2>6, <4>1 DEF LayoutInv, SplitsInv
    <3>2. \A q, r \in pending' : q.new = r.new => q = r
      BY <1>1 DEF LayoutInv, SplitsInv
    <3> QED BY <3>1, <3>2 DEF SplitsInv
  <2>13. PlainInv'
    <3>1. Panes' \subseteq Ids /\ \A x \in Panes' : x < next'
      BY <1>1, <1>2, <2>6, <2>7
    <3>2. late' \in BOOLEAN
      BY <2>1
    <3> QED BY <1>1, <2>9, <3>1, <3>2 DEF LayoutInv, PlainInv
  <2> QED BY <2>9, <2>10, <2>11, <2>12, <2>13 DEF LayoutInv
<1> QED BY <1>3, <1>4

(* mymuxd starts again: what is saved has the tree, if not the zoom.       *)
LEMMA StepRestart ==
  ASSUME LayoutInv, NEW dead \in SUBSET Ids, Restart(dead)
  PROVE  LayoutInv'
<1>1. /\ win # NoWindow /\ dead \subseteq Panes
      /\ win' = Reconciled(saved, dead) /\ Save
      /\ viewed' = FALSE /\ size' = StartSize /\ pending' = {} /\ poisoned' = FALSE
      /\ stale' = IF dead # {} THEN PanesOf(win'.root)
                  ELSE IF win'.zoomed # win.zoomed THEN stale \cup {win'.zoomed} ELSE stale
      /\ UNCHANGED <<next, sent, late>>
  BY DEF Restart
<1>2. GoodWin(win) /\ Panes = PanesOf(win.root)
  BY <1>1 DEF LayoutInv, WindowInv, Panes
<1>3. /\ saved = Window(saved.root, saved.zoomed, saved.active)
      /\ saved.root = win.root /\ saved.active = win.active
      /\ saved.zoomed \in Panes \cup {None} /\ (win.zoomed # None => saved.zoomed = win.zoomed)
  BY DEF LayoutInv, SavedInv
<1>4. GoodWin(saved)
  BY <1>2, <1>3 DEF GoodWin
<1>5. Left(saved, dead, win') /\ (dead = {} => win' = saved)
  <2>1. dead \subseteq PanesOf(saved.root)
    BY <1>1, <1>2, <1>3
  <2> QED BY <1>1, <1>4, <2>1, ReconciledIs
<1>6. /\ win' = NoWindow \/ GoodWin(win')
      /\ PanesOf(win'.root) = Panes \ dead
      /\ Ample(win.root) => Ample(win'.root)
  <2>1. CASE Panes \subseteq dead
    <3>1. win' = NoWindow
      BY <1>2, <1>3, <1>5, <2>1 DEF Left
    <3>2. PanesOf(win'.root) = {} /\ win'.root = NoTree
      BY <3>1, NotGood
    <3>3. Boxes(NoTree) = {}
      BY DEF Boxes, NoTree
    <3>4. Ample(NoTree)
      BY <3>3 DEF Ample
    <3> QED BY <2>1, <3>1, <3>2, <3>4
  <2>2. CASE ~(Panes \subseteq dead)
    BY <1>2, <1>3, <1>5, <2>2 DEF Left
  <2> QED BY <2>1, <2>2
<1>7. Panes' = Panes \ dead
  BY <1>6 DEF Panes
<1>8. SavedInv'
  BY <1>1, <1>6, SavedBySave
<1>9. WindowInv' /\ RoomInv'
  BY <1>1, <1>6 DEF LayoutInv, WindowInv, RoomInv
<1>10. SizesAgree'
  <2>1. CASE dead # {}
    BY <1>1, <2>1 DEF SizesAgree, Panes
  <2>2. CASE dead = {}
    <3>1. win' = saved /\ Panes' = Panes
      BY <1>5, <1>7, <2>2
    <3>2. ASSUME NEW p \in Panes' \ stale' PROVE sent'[p] = SizeIn(win', p)
      <4>1. p \in Panes /\ p \notin stale /\ p # None
        <5>1. p \in Panes /\ p # None
          BY <3>1, InvFacts
        <5> QED BY <1>1, <2>2, <3>2, <5>1
      <4>2. sent'[p] = SizeIn(win, p)
        BY <1>1, <4>1 DEF LayoutInv, SizesAgree
      <4>3. win'.zoomed = win.zoomed \/ (win.zoomed = None /\ p # win'.zoomed)
        BY <1>1, <1>3, <2>2, <3>1, <3>2
      <4> QED BY <1>3, <3>1, <4>1, <4>2, <4>3 DEF SizeIn
    <3> QED BY <3>2 DEF SizesAgree
  <2> QED BY <2>1, <2>2
<1>11. SplitsInv' /\ PlainInv'
  <2>1. /\ size' \in Sizes /\ viewed' \in BOOLEAN /\ poisoned' \in BOOLEAN /\ late' \in BOOLEAN
        /\ DOMAIN sent' = Ids /\ pending' \subseteq pending /\ next' = next /\ Panes' \subseteq Panes
    BY <1>1, <1>7, InvFacts, ConstantsAre
  <2> QED BY <2>1, RestKept
<1> QED BY <1>8, <1>9, <1>10, <1>11 DEF LayoutInv

(* Nothing happens.                                                        *)
LEMMA StepStutter ==
  ASSUME LayoutInv, UNCHANGED vars
  PROVE  LayoutInv'
<1>1. UNCHANGED <<win, viewed, size, next, pending, sent, saved, poisoned, stale, late>>
  BY DEF vars, ui, splits, history
<1>2. Panes' = Panes
  BY <1>1 DEF Panes
<1>3. SplitsInv' /\ PlainInv'
  BY <1>1, <1>2, RestKept, InvFacts
<1>4. WindowInv' /\ RoomInv' /\ SavedInv' /\ SizesAgree'
  BY <1>1, <1>2 DEF LayoutInv, WindowInv, RoomInv, SavedInv, SizesAgree
<1> QED BY <1>3, <1>4 DEF LayoutInv

(* The founder alone.                                                      *)
LEMMA InitInv ==
  Init => LayoutInv
<1> SUFFICES ASSUME Init PROVE LayoutInv
  OBVIOUS
<1>1. /\ size \in Sizes /\ win = Single(Founder, size) /\ viewed = TRUE
      /\ next = Founder + 1 /\ pending = {}
      /\ sent = [p \in Ids |-> IF p = Founder THEN size ELSE Origin]
      /\ saved = win /\ poisoned = FALSE /\ stale = {} /\ late = FALSE
  BY DEF Init
<1>2. size \in Side /\ Founder \in Ids /\ MaxPane \in Nat /\ MaxPane >= 1 /\ Founder # None
  BY <1>1, ConstantsAre
<1>3. /\ GoodWin(win) /\ Ample(win.root) /\ PanesOf(win.root) = {Founder}
      /\ win.zoomed = None /\ CellOf(win.root, Founder).len = size
  BY <1>1, <1>2, SingleIs
<1>4. Panes = {Founder}
  BY <1>3 DEF Panes
<1>5. SavedInv
  BY <1>1, <1>3, <1>4 DEF SavedInv, GoodWin
<1>6. SplitsInv
  BY <1>1 DEF SplitsInv
<1>7. PlainInv
  <2>1. next \in 1..MaxPane + 1 /\ \A p \in Panes : p < next
    BY <1>1, <1>2, <1>4 DEF Founder
  <2>2. DOMAIN sent = Ids
    BY <1>1
  <2>3. late \in BOOLEAN /\ poisoned \in BOOLEAN /\ viewed \in BOOLEAN
    BY <1>1
  <2> QED BY <1>1, <1>2, <1>4, <2>1, <2>2, <2>3 DEF PlainInv
<1>8. SizesAgree
  BY <1>1, <1>2, <1>3, <1>4 DEF SizesAgree, SizeIn
<1> QED BY <1>3, <1>5, <1>6, <1>7, <1>8 DEF LayoutInv, WindowInv, RoomInv

(* The invariant of the window: its tree, its sizes, what is saved and     *)
(* what awaits.                                                            *)
THEOREM LayoutInductive == Spec => []LayoutInv
<1>1. ASSUME LayoutInv, [Next]_vars PROVE LayoutInv'
  BY <1>1, StepResize, StepSelect, StepLeave, StepFocus, StepToggleZoom, StepBreakPane,
     StepPaneGone, StepGoTo, StepSwapPane, StepDrag, StepBeginSplit, StepSpawnFails,
     StepFinishSplit, StepRestart, StepStutter DEF Next, Over
<1> QED BY InitInv, <1>1, PTL DEF Spec

(* Every leaf is a pane of its own; what is zoomed or active is a leaf.    *)
THEOREM TypeCorrect == Spec => []TypeOK
<1>1. ASSUME LayoutInv PROVE TypeOK
  <2>1. CASE win = NoWindow
    <3>1. Panes = {} /\ win.root = NoTree /\ win.zoomed = None /\ win.active = None
      BY <2>1, NotGood DEF Panes
    <3>2. DOMAIN win.root = {}
      BY <3>1 DEF NoTree
    <3> QED BY <1>1, <2>1, <3>1, <3>2 DEF TypeOK, LayoutInv, PlainInv, SplitsInv
  <2>2. CASE GoodWin(win)
    <3>1. Tree(win.root) /\ Panes = PanesOf(win.root) /\ win.active \in Panes
          /\ win.zoomed \in Panes \cup {None}
      BY <2>2 DEF GoodWin, Panes
    <3>2. ASSUME NEW n \in DOMAIN win.root, NEW a \in Axes
          PROVE  win.root[n].at[a] \in Nat /\ win.root[n].len[a] \in Nat
      <4>1. win.root[n].at \in [Axes -> Nat] /\ win.root[n].len \in [Axes -> Nat]
        BY <3>1, CellFacts
      <4> QED BY <4>1
    <3>3. \A p \in Panes : {p} \in DOMAIN win.root
      BY <3>1 DEF Tree, Leafy
    <3>4. win # NoWindow
      BY <2>2, NotGood
    <3> QED BY <1>1, <3>1, <3>2, <3>3, <3>4 DEF TypeOK, LayoutInv, PlainInv, SplitsInv
  <2> QED BY <1>1, <2>1, <2>2 DEF LayoutInv, WindowInv
<1> QED BY <1>1, LayoutInductive, PTL

(* native.rs: ptyd was told each pane's size, whatever was resized,        *)
(* zoomed, swapped, dragged, split or closed, but for the three exceptions *)
(* that SizesAgree names.                                                  *)
THEOREM SizesAlwaysAgree == Spec => []SizesAgree
<1>1. ASSUME LayoutInv PROVE SizesAgree
  BY <1>1 DEF LayoutInv
<1> QED BY <1>1, LayoutInductive, PTL

(* native.rs:72: children tile their box exactly, after any sequence of    *)
(* splits, drags, removals, swaps, resizes and restarts.                   *)
THEOREM CellsTile == Spec => []Tiles
<1>1. ASSUME LayoutInv PROVE Tiles
  BY <1>1, LaidIsTiled DEF LayoutInv, WindowInv, GoodWin, Tiles
<1> QED BY <1>1, LayoutInductive, PTL

(* A pane has a cell wherever its box has one for each child, unless a     *)
(* split finished too late.                                                *)
THEOREM NoPaneIsSqueezed == Spec => []EveryPaneHasACell
<1>1. ASSUME LayoutInv PROVE EveryPaneHasACell
  <2>1. CASE win = NoWindow
    <3>1. win.root = NoTree
      BY <2>1, NotGood
    <3>2. Boxes(win.root) = {}
      BY <3>1 DEF Boxes, NoTree
    <3> QED BY <3>2 DEF EveryPaneHasACell, Squeezed
  <2>2. CASE GoodWin(win)
    BY <1>1, <2>2, AmpleIsRoomed DEF LayoutInv, RoomInv, GoodWin, EveryPaneHasACell
  <2> QED BY <1>1, <2>1, <2>2 DEF LayoutInv, WindowInv
<1> QED BY <1>1, LayoutInductive, PTL

---------------------------------------------------------------------------
(* Laying out again moves nothing. *)

(* The numbers of a cell.                                                  *)
LEMMA CellNumbers ==
  ASSUME NEW t, Tree(t), NEW n \in DOMAIN t, NEW a \in Axes
  PROVE  /\ t[n].at[a] \in Nat /\ t[n].len[a] \in Nat
         /\ End(t[n], a) = t[n].at[a] + t[n].len[a] /\ End(t[n], a) \in Nat
<1>1. t[n].at \in [Axes -> Nat] /\ t[n].len \in [Axes -> Nat]
  BY CellFacts
<1>2. t[n].at[a] \in Nat /\ t[n].len[a] \in Nat
  BY <1>1
<1> QED BY <1>2 DEF End

(* The numbers of a child, and the clauses of its row.                     *)
LEMMA KidNumbers ==
  ASSUME NEW t, Tree(t), NEW b \in Boxes(t), NEW a \in Axes, NEW i \in 1..Count(t, b)
  PROVE  /\ KidAt(t, b, i).at[a] \in Nat /\ KidAt(t, b, i).len[a] \in Nat
         /\ End(KidAt(t, b, i), a) = KidAt(t, b, i).at[a] + KidAt(t, b, i).len[a]
         /\ End(KidAt(t, b, i), a) \in Nat
<1>1. Kids(t, b)[i] \in DOMAIN t
  BY KidFacts
<1> QED BY <1>1, CellNumbers DEF KidAt

(* The children of a row come one after the other.                         *)
LEMMA RowOrder ==
  ASSUME NEW t, Tree(t), NEW b \in Boxes(t), InRow(t, b)
  PROVE  LET a == t[b].kind
         IN  /\ a \in Axes
             /\ \A i, j \in 1..Count(t, b) : i < j => End(KidAt(t, b, i), a) <= KidAt(t, b, j).at[a]
             /\ \A i \in 1..Count(t, b) : t[b].at[a] <= KidAt(t, b, i).at[a]
<1> DEFINE a == t[b].kind
           N == Count(t, b)
           S == {j \in 0..N : \A i \in 1..N : i < j => End(KidAt(t, b, i), a) <= KidAt(t, b, j).at[a]}
<1>1. b \in DOMAIN t /\ N \in Nat /\ N >= 2 /\ a \in Axes
  <2>1. b \in DOMAIN t
    BY DEF Boxes
  <2> QED BY <2>1, CellFacts, LensAre
<1>2. \A i \in 1..N : /\ KidAt(t, b, i).at[a] \in Nat /\ End(KidAt(t, b, i), a) \in Nat
                      /\ KidAt(t, b, i).at[a] <= End(KidAt(t, b, i), a)
  <2> TAKE i \in 1..N
  <2>1. /\ KidAt(t, b, i).at[a] \in Nat /\ KidAt(t, b, i).len[a] \in Nat
        /\ End(KidAt(t, b, i), a) = KidAt(t, b, i).at[a] + KidAt(t, b, i).len[a]
    BY <1>1, KidNumbers
  <2>2. \A x, y, z \in Nat : z = x + y => z \in Nat /\ x <= z
    OBVIOUS
  <2>3. \A x, y \in Nat : x + y \in Nat /\ x <= x + y
    OBVIOUS
  <2> QED BY <2>1, <2>3
<1>3. \A i \in 1..N - 1 : KidAt(t, b, i + 1).at[a] = End(KidAt(t, b, i), a)
  BY DEF InRow
<1>4. ASSUME NEW j \in 0..N, j \in S, j < N PROVE j + 1 \in S
  <2>1. CASE j = 0
    BY <1>1, <2>1
  <2>2. CASE j # 0
    <3>1. j \in 1..N - 1 /\ j \in 1..N /\ j + 1 \in 1..N
      BY <1>1, <1>4, <2>2
    <3>2. KidAt(t, b, j + 1).at[a] = End(KidAt(t, b, j), a)
      BY <1>3, <3>1
    <3>3. ASSUME NEW i \in 1..N, i < j + 1 PROVE End(KidAt(t, b, i), a) <= KidAt(t, b, j + 1).at[a]
      <4>1. CASE i = j
        <5>1. End(KidAt(t, b, j), a) \in Nat
          BY <1>2, <3>1
        <5> QED BY <3>2, <4>1, <5>1
      <4>2. CASE i < j
        <5>1. End(KidAt(t, b, i), a) <= KidAt(t, b, j).at[a]
          BY <1>4, <4>2
        <5>2. /\ KidAt(t, b, j).at[a] <= End(KidAt(t, b, j), a)
              /\ KidAt(t, b, j).at[a] \in Nat /\ End(KidAt(t, b, j), a) \in Nat
          BY <1>2, <3>1
        <5>3. End(KidAt(t, b, i), a) \in Nat
          BY <1>2
        <5>4. \A x, y, z \in Nat : x <= y /\ y <= z => x <= z
          OBVIOUS
        <5> QED BY <3>2, <5>1, <5>2, <5>3, <5>4
      <4> QED BY <3>1, <3>3, <4>1, <4>2
    <3> QED BY <3>1, <3>3
  <2> QED BY <2>1, <2>2
<1>5. 0 \in S
  BY <1>1
<1>6. \A j \in 0..N : j \in S
  <2>1. \A j \in 0..N : j \in S /\ j < N => j + 1 \in S
    BY <1>4
  <2> HIDE DEF S
  <2> QED BY <1>1, <1>5, <2>1, UpTo
<1>7. \A i, j \in 1..N : i < j => End(KidAt(t, b, i), a) <= KidAt(t, b, j).at[a]
  <2>1. \A j \in 1..N : j \in 0..N
    BY <1>1
  <2> QED BY <1>6, <2>1
<1>8. ASSUME NEW i \in 1..N PROVE t[b].at[a] <= KidAt(t, b, i).at[a]
  <2>1. KidAt(t, b, 1).at[a] = t[b].at[a] /\ 1 \in 1..N
    BY <1>1 DEF InRow
  <2>2. CASE i = 1
    <3>1. KidAt(t, b, 1).at[a] \in Nat
      BY <1>2, <2>1
    <3> QED BY <2>1, <2>2, <3>1
  <2>3. CASE i # 1
    <3>1. 1 < i
      BY <1>1, <2>3
    <3>2. End(KidAt(t, b, 1), a) <= KidAt(t, b, i).at[a]
      BY <1>7, <2>1, <3>1
    <3>3. /\ KidAt(t, b, 1).at[a] <= End(KidAt(t, b, 1), a) /\ KidAt(t, b, 1).at[a] \in Nat
          /\ End(KidAt(t, b, 1), a) \in Nat /\ KidAt(t, b, i).at[a] \in Nat
      BY <1>2, <2>1
    <3>4. \A x, y, z \in Nat : x <= y /\ y <= z => x <= z
      OBVIOUS
    <3> QED BY <2>1, <3>2, <3>3, <3>4
  <2> QED BY <2>2, <2>3
<1> QED BY <1>1, <1>7, <1>8

(* A layout with a cell for every pane: each cell has one on each side,    *)
(* and each box is filled exactly.                                         *)
Solid(t) ==
  /\ \A n \in DOMAIN t, a \in Axes : t[n].len[a] >= 1
  /\ \A b \in Boxes(t) : InRow(t, b) /\ Exact(t, b)

(* So it is when every pane has a cell: a box that overflows would hold an *)
(* empty one.                                                              *)
LEMMA RoomyIsSolid ==
  ASSUME NEW t, Tree(t), Laid(t), Roomy(t)
  PROVE  Solid(t)
<1> DEFINE Long(n) == \A a \in Axes : t[n].len[a] >= 1
           T == {n \in DOMAIN t : ~Long(n)}
<1>1. ASSUME NEW b \in Boxes(t), \A i \in 1..Count(t, b) : Long(Kids(t, b)[i])
      PROVE  InRow(t, b) /\ Exact(t, b) /\ Long(b)
  <2> DEFINE a == t[b].kind
             N == Count(t, b)
  <2>1. b \in DOMAIN t /\ N \in Nat /\ N >= 2 /\ a \in Axes
    <3>1. b \in DOMAIN t
      BY DEF Boxes
    <3> QED BY <3>1, CellFacts, LensAre
  <2>2. InRow(t, b) /\ (Exact(t, b) \/ \E i \in 1..N : KidAt(t, b, i).len[a] = 0)
    BY DEF Laid, Fits
  <2>3. \A i \in 1..N : KidAt(t, b, i).len[a] >= 1 /\ KidAt(t, b, i).len[Cross(a)] >= 1
    BY <1>1, <2>1, AxesAre DEF KidAt
  <2>4. Exact(t, b)
    <3>1. \A i \in 1..N : KidAt(t, b, i).len[a] # 0
      BY <2>3
    <3> QED BY <2>2, <3>1
  <2>5. t[b].len[Cross(a)] >= 1
    <3>1. 1 \in 1..N
      BY <2>1
    <3>2. KidAt(t, b, 1).len[Cross(a)] = t[b].len[Cross(a)]
      BY <2>2, <3>1 DEF InRow
    <3> QED BY <2>3, <3>1, <3>2
  <2>6. t[b].len[a] >= 1
    <3>1. N \in 1..N
      BY <2>1
    <3>2. t[b].at[a] <= KidAt(t, b, N).at[a]
      BY <2>2, <3>1, RowOrder
    <3>3. /\ KidAt(t, b, N).at[a] \in Nat /\ KidAt(t, b, N).len[a] \in Nat
          /\ End(KidAt(t, b, N), a) = KidAt(t, b, N).at[a] + KidAt(t, b, N).len[a]
      BY <2>1, <3>1, KidNumbers
    <3>4. /\ t[b].at[a] \in Nat /\ t[b].len[a] \in Nat
          /\ End(t[b], a) = t[b].at[a] + t[b].len[a]
      BY <2>1, CellNumbers
    <3>5. KidAt(t, b, N).at[a] + KidAt(t, b, N).len[a] = t[b].at[a] + t[b].len[a]
      BY <2>4, <3>3, <3>4 DEF Exact
    <3>6. \A x, y, u, v \in Nat : x <= y /\ y + u = x + v /\ u >= 1 => v >= 1
      OBVIOUS
    <3> QED BY <2>3, <3>1, <3>2, <3>3, <3>4, <3>5, <3>6
  <2>7. Long(b)
    <3>1. \A x \in Axes : x = a \/ x = Cross(a)
      BY <2>1, AxesAre
    <3> QED BY <2>5, <2>6, <3>1
  <2> QED BY <2>2, <2>4, <2>7
<1>2. T = {}
  <2>1. SUFFICES ASSUME T # {} PROVE FALSE
    OBVIOUS
  <2>2. T \subseteq SUBSET PanesOf(t) /\ IsFiniteSet(PanesOf(t))
    <3>1. \A k \in DOMAIN t : k \subseteq PanesOf(t)
      BY CellFacts
    <3> QED BY <3>1 DEF Tree, Typed
  <2>3. PICK n \in T : \A y \in T : y \subseteq n => y = n
    <3> HIDE DEF T
    <3> QED BY <2>1, <2>2, SmallestSet
  <2>4. n \in DOMAIN t /\ ~Long(n)
    BY <2>3
  <2>5. CASE t[n].kind = "leaf"
    <3>1. PICK p \in PanesOf(t) : n = {p}
      BY <2>4, <2>5 DEF Tree, Leafy
    <3>2. \A a \in Axes : t[n].len[a] >= 1
      BY <3>1 DEF Roomy, CellOf
    <3> QED BY <2>4, <3>2
  <2>6. CASE t[n].kind # "leaf"
    <3>1. n \in Boxes(t)
      BY <2>4, <2>6 DEF Boxes
    <3>2. \A i \in 1..Count(t, n) : Long(Kids(t, n)[i])
      <4> TAKE i \in 1..Count(t, n)
      <4>1. Kids(t, n)[i] \in DOMAIN t /\ Kids(t, n)[i] \subseteq n /\ Kids(t, n)[i] # n
        BY <3>1, KidFacts
      <4> HIDE DEF Long
      <4> QED BY <2>3, <4>1
    <3> HIDE DEF Long
    <3> QED BY <1>1, <2>4, <3>1, <3>2
  <2> QED BY <2>5, <2>6
<1>3. \A n \in DOMAIN t : Long(n)
  <2> HIDE DEF Long
  <2> QED BY <1>2
<1>4. \A b \in Boxes(t) : InRow(t, b) /\ Exact(t, b)
  <2> TAKE b \in Boxes(t)
  <2>1. \A i \in 1..Count(t, b) : Long(Kids(t, b)[i])
    <3> HIDE DEF Long
    <3> QED BY <1>3, KidFacts
  <2> HIDE DEF Long
  <2> QED BY <1>1, <2>1
<1> QED BY <1>3, <1>4 DEF Solid

(* Children that have their parts already stay where they are.             *)
Settled(t) ==
  \A b \in Boxes(t) : \A i \in 1..Count(t, b) :
    Rect(t[Kids(t, b)[i]]) = Part(t, b, Rect(t[b]), i)

(* Laid out again in its own size, such a tree is the same.                *)
LEMMA SettledStays ==
  ASSUME NEW t, Tree(t), Settled(t)
  PROVE  Scale(t, PanesOf(t), Root(t).at, Root(t).len) = t
<1> DEFINE P == PanesOf(t)
           r == Scale(t, P, Root(t).at, Root(t).len)
           T == {m \in DOMAIN t : Rect(r[m]) # Rect(t[m])}
<1>1. P \in DOMAIN t /\ Root(t) = t[P]
  BY DEF Tree, Typed, Root
<1>2. Scaled(t, P, Root(t).at, Root(t).len, r)
  <2>1. t[P].at \in Side /\ t[P].len \in Side
    BY <1>1, CellFacts DEF Side
  <2> QED BY <1>1, <2>1, ScaleIs
<1> HIDE DEF r
<1>3. /\ SameShape(t, r) /\ r[P].at = t[P].at /\ r[P].len = t[P].len
      /\ \A b \in Boxes(t) : b \subseteq P =>
           \A i \in 1..Count(t, b) : Rect(r[Kids(t, b)[i]]) = Part(t, b, Rect(r[b]), i)
      /\ \A m \in DOMAIN t : r[m] = [t[m] EXCEPT !.at = r[m].at, !.len = r[m].len]
  BY <1>1, <1>2 DEF Scaled
<1>4. T = {}
  <2>1. SUFFICES ASSUME T # {} PROVE FALSE
    OBVIOUS
  <2>2. T \subseteq SUBSET P /\ IsFiniteSet(P)
    <3>1. \A k \in DOMAIN t : k \subseteq P
      BY CellFacts
    <3> QED BY <3>1 DEF Tree, Typed
  <2>3. PICK m \in T : \A y \in T : m \subseteq y => y = m
    <3> HIDE DEF T, P
    <3> QED BY <2>1, <2>2, LargestSet
  <2>4. m # P
    BY <1>3, <2>3 DEF Rect
  <2> DEFINE b == Parent(t, m)
  <2>5. b \in Boxes(t) /\ \E i \in 1..Count(t, b) : Kids(t, b)[i] = m
    BY <2>3, <2>4, ParentIs
  <2> HIDE DEF b
  <2>6. PICK i \in 1..Count(t, b) : Kids(t, b)[i] = m
    BY <2>5
  <2>7. b \in DOMAIN t /\ m \subseteq b /\ b # m
    BY <2>5, <2>6, KidFacts
  <2>8. Rect(r[b]) = Rect(t[b])
    BY <2>3, <2>7
  <2>9. b \subseteq P
    BY <2>7, CellFacts
  <2>10. Rect(r[m]) = Part(t, b, Rect(r[b]), i)
    BY <1>3, <2>5, <2>6, <2>9
  <2>11. Rect(t[m]) = Part(t, b, Rect(t[b]), i)
    BY <2>5, <2>6 DEF Settled
  <2> QED BY <2>3, <2>8, <2>10, <2>11
<1>5. ASSUME NEW m \in DOMAIN t PROVE r[m] = t[m]
  <2>1. Rect(r[m]) = Rect(t[m])
    BY <1>4
  <2>2. r[m].at = t[m].at /\ r[m].len = t[m].len
    BY <2>1 DEF Rect
  <2>3. r[m] = [t[m] EXCEPT !.at = t[m].at, !.len = t[m].len]
    BY <1>3, <2>2
  <2>4. t[m] \in Cell(P)
    BY CellFacts
  <2>5. ASSUME NEW c \in Cell(P) PROVE [c EXCEPT !.at = c.at, !.len = c.len] = c
    BY DEF Cell
  <2> QED BY <2>3, <2>4, <2>5
<1>6. t = [m \in DOMAIN t |-> t[m]]
  BY DEF Tree, Typed
<1>7. r = [m \in DOMAIN t |-> r[m]]
  <2>1. r = [m \in DOMAIN r |-> r[m]]
    BY <1>2 DEF Scaled, Tree, Typed
  <2>2. DOMAIN r = DOMAIN t
    BY <1>3 DEF SameShape
  <2> QED BY <2>1, <2>2
<1>8. r = t
  BY <1>5, <1>6, <1>7
<1> QED BY <1>8 DEF r

(* Laid out once, a tree is settled.                                       *)
LEMMA LaidOutIsSettled ==
  ASSUME NEW t, Tree(t), NEW s \in Side
  PROVE  Settled(Scale(t, PanesOf(t), Origin, s))
<1> DEFINE P == PanesOf(t)
           r == Scale(t, P, Origin, s)
<1>1. Scaled(t, P, Origin, s, r)
  <2>1. P \in DOMAIN t /\ Origin \in Side
    BY AxesAre DEF Tree, Typed
  <2> QED BY <2>1, ScaleIs
<1> HIDE DEF r
<1>2. /\ Tree(r) /\ SameShape(t, r) /\ Boxes(r) = Boxes(t)
      /\ \A b \in Boxes(t) : b \subseteq P =>
           \A i \in 1..Count(t, b) : Rect(r[Kids(t, b)[i]]) = Part(t, b, Rect(r[b]), i)
      /\ \A m \in DOMAIN t : Rect(r[m]) \in Place
  BY <1>1 DEF Scaled
<1>3. ASSUME NEW b \in Boxes(t), NEW i \in 1..Count(t, b)
      PROVE  Part(t, b, Rect(r[b]), i) = Part(r, b, Rect(r[b]), i)
  <2> DEFINE q == Rect(r[b])
             a == t[b].kind
             L == Lens(t, b)
             M == Lens(r, b)
             N == Count(t, b)
             space == q.len[a]
             e == Ends(L, space)
  <2>1. b \in DOMAIN t /\ b \subseteq P /\ q \in Place /\ b \in Boxes(r)
    <3>1. b \in DOMAIN t
      BY DEF Boxes
    <3> QED BY <1>2, <3>1, CellFacts
  <2>2. r[b].kind = a /\ Count(r, b) = N /\ Kids(r, b) = Kids(t, b)
    BY <1>2, <2>1 DEF SameShape, Count, Kids
  <2>3. /\ L \in Seq(Nat) /\ Len(L) = N /\ N \in Nat /\ N >= 2 /\ M \in Seq(Nat) /\ Len(M) = N
        /\ \A j \in 1..N : M[j] = r[Kids(t, b)[j]].len[a]
    BY <1>2, <2>1, <2>2, LensAre
  <2>4. \A j \in 1..N : Rect(r[Kids(t, b)[j]]) = Part(t, b, q, j)
    BY <1>2, <2>1
  <2> HIDE DEF q, L, M
  <2>5. space \in Nat
    BY <2>1, <2>3, PartIs DEF L
  <2>6. ASSUME NEW j \in 1..N PROVE M[j] = e[j] - e[j - 1]
    <3>1. Part(t, b, q, j).len[a] = e[j] - e[j - 1]
      BY <2>1, PartIs DEF L
    <3>2. r[Kids(t, b)[j]].len = Part(t, b, q, j).len
      BY <2>4 DEF Rect
    <3> QED BY <2>3, <3>1, <3>2
  <2>7. \A j \in 0..N : Ends(M, space)[j] = e[j]
    <3>1. \A j \in 1..Len(L) : M[j] = Ends(L, space)[j] - Ends(L, space)[j - 1]
      BY <2>3, <2>6
    <3>2. 1 <= Len(L) /\ Len(M) = Len(L)
      BY <2>3
    <3>3. \A j \in 0..Len(L) : Ends(M, space)[j] = Ends(L, space)[j]
      BY <2>3, <2>5, <3>1, <3>2, EndsTwice
    <3> QED BY <2>3, <3>3
  <2>8. i \in 0..N /\ i - 1 \in 0..N
    BY <2>3
  <2>9. Ends(M, space)[i] = e[i] /\ Ends(M, space)[i - 1] = e[i - 1]
    BY <2>7, <2>8
  <2>10. Part(t, b, q, i) = [at  |-> [q.at  EXCEPT ![a] = @ + e[i - 1]],
                            len |-> [q.len EXCEPT ![a] = e[i] - e[i - 1]]]
    BY DEF Part, L
  <2>11. Part(r, b, q, i) = [at  |-> [q.at  EXCEPT ![a] = @ + Ends(M, space)[i - 1]],
                            len |-> [q.len EXCEPT ![a] = Ends(M, space)[i] - Ends(M, space)[i - 1]]]
    BY <2>2 DEF Part, M
  <2> HIDE DEF e, space
  <2> QED BY <2>9, <2>10, <2>11 DEF q
<1>4. ASSUME NEW b \in Boxes(r), NEW i \in 1..Count(r, b)
      PROVE  Rect(r[Kids(r, b)[i]]) = Part(r, b, Rect(r[b]), i)
  <2>1. b \in Boxes(t) /\ b \in DOMAIN t /\ b \subseteq P
    <3>1. b \in Boxes(t) /\ b \in DOMAIN t
      BY <1>2 DEF Boxes
    <3> QED BY <3>1, CellFacts
  <2>2. Count(r, b) = Count(t, b) /\ Kids(r, b) = Kids(t, b)
    BY <1>2, <2>1 DEF SameShape, Count, Kids
  <2>3. i \in 1..Count(t, b)
    BY <2>2
  <2>4. Rect(r[Kids(t, b)[i]]) = Part(t, b, Rect(r[b]), i)
    BY <1>2, <2>1, <2>3
  <2> QED BY <1>3, <2>1, <2>2, <2>3, <2>4
<1>5. Settled(r)
  BY <1>4 DEF Settled
<1> QED BY <1>5 DEF r

(* Where every child has a cell and fills its box, it has its part.        *)
LEMMA SolidIsSettled ==
  ASSUME NEW t, Tree(t), Solid(t)
  PROVE  Settled(t)
<1>1. ASSUME NEW b \in Boxes(t), NEW k \in 1..Count(t, b)
      PROVE  Rect(t[Kids(t, b)[k]]) = Part(t, b, Rect(t[b]), k)
  <2> DEFINE a == t[b].kind
             N == Count(t, b)
             L == Lens(t, b)
             start == t[b].at[a]
             space == t[b].len[a]
             At(i) == KidAt(t, b, i).at[a]
             To(i) == End(KidAt(t, b, i), a)
             f == [i \in 0..N |-> IF i = 0 THEN 0 ELSE To(i) - start]
  <2>1. /\ b \in DOMAIN t /\ a \in Axes /\ N \in Nat /\ N >= 2
        /\ L \in Seq(Nat) /\ Len(L) = N /\ \A i \in 1..N : L[i] = KidAt(t, b, i).len[a]
    <3>1. b \in DOMAIN t
      BY DEF Boxes
    <3>2. a \in Axes
      BY <3>1, CellFacts
    <3>3. \A i \in 1..N : L[i] = KidAt(t, b, i).len[a]
      BY LensAre DEF KidAt
    <3>4. N \in Nat /\ N >= 2 /\ L \in Seq(Nat) /\ Len(L) = N
      BY LensAre
    <3> QED BY <3>1, <3>2, <3>3, <3>4
  <2>2. InRow(t, b) /\ Exact(t, b)
    BY DEF Solid
  <2>3. start \in Nat /\ space \in Nat /\ End(t[b], a) = start + space
    BY <2>1, CellNumbers
  <2>4. \A i \in 1..N : /\ At(i) \in Nat /\ To(i) \in Nat /\ L[i] \in Nat /\ L[i] >= 1
                        /\ To(i) = At(i) + L[i] /\ start <= At(i)
    <3> TAKE i \in 1..N
    <3>1. /\ At(i) \in Nat /\ KidAt(t, b, i).len[a] \in Nat /\ To(i) \in Nat
          /\ To(i) = At(i) + KidAt(t, b, i).len[a]
      BY <2>1, KidNumbers
    <3>2. KidAt(t, b, i).len[a] >= 1
      BY <2>1, KidFacts DEF Solid, KidAt
    <3>3. start <= At(i)
      BY <2>2, RowOrder
    <3> QED BY <2>1, <3>1, <3>2, <3>3
  <2>5. At(1) = start /\ \A i \in 1..N - 1 : At(i + 1) = To(i)
    BY <2>2 DEF InRow
  <2>6. To(N) = start + space
    BY <2>2, <2>3 DEF Exact
  <2> HIDE DEF L, At, To, start, space, N
  <2>7. \A i \in 1..N : At(i) = start + f[i - 1]
    <3> TAKE i \in 1..N
    <3>1. CASE i = 1
      BY <2>1, <2>3, <2>5, <3>1
    <3>2. CASE i # 1
      <4>1. i - 1 \in 1..N - 1 /\ i - 1 \in 1..N /\ i - 1 \in 0..N /\ i - 1 # 0 /\ (i - 1) + 1 = i
        BY <2>1, <3>2
      <4>2. At(i) = To(i - 1)
        BY <2>5, <4>1
      <4>3. f[i - 1] = To(i - 1) - start /\ To(i - 1) \in Nat
        BY <2>4, <4>1
      <4> QED BY <2>3, <4>2, <4>3
    <3> QED BY <3>1, <3>2
  <2>8. \A i \in 1..N : f[i] = f[i - 1] + L[i] /\ L[i] >= 1
    <3> TAKE i \in 1..N
    <3>1. f[i] = To(i) - start
      BY <2>1
    <3>2. At(i) = start + f[i - 1]
      BY <2>7
    <3>3. f[i - 1] \in Int
      <4>1. CASE i = 1
        BY <2>1, <4>1
      <4>2. CASE i # 1
        <5>1. i - 1 \in 1..N /\ i - 1 \in 0..N /\ i - 1 # 0
          BY <2>1, <4>2
        <5>2. f[i - 1] = To(i - 1) - start /\ To(i - 1) \in Nat
          BY <2>4, <5>1
        <5> QED BY <2>3, <5>2
      <4> QED BY <4>1, <4>2
    <3>4. To(i) = At(i) + L[i] /\ L[i] \in Nat /\ L[i] >= 1
      BY <2>4
    <3> HIDE DEF f
    <3> QED BY <2>3, <3>1, <3>2, <3>3, <3>4
  <2>9. \A i \in 0..N : f[i] \in Nat
    <3> TAKE i \in 0..N
    <3>1. CASE i = 0
      BY <3>1
    <3>2. CASE i # 0
      <4>1. i \in 1..N
        BY <2>1, <3>2
      <4>2. f[i] = To(i) - start
        BY <3>2
      <4>3. To(i) \in Nat /\ L[i] \in Nat /\ At(i) \in Nat /\ To(i) = At(i) + L[i] /\ start <= At(i)
        BY <2>4, <4>1
      <4> HIDE DEF f
      <4> QED BY <2>3, <4>2, <4>3
    <3> QED BY <3>1, <3>2
  <2>10. f[0] = 0 /\ f[N] = space
    BY <2>1, <2>3, <2>6
  <2> HIDE DEF f
  <2>11. \A i \in 0..N : Ends(L, space)[i] = f[i]
    <3>1. Len(L) = N /\ 1 <= Len(L)
      BY <2>1
    <3>3. \A i \in 0..Len(L) : f[i] \in Nat
      BY <2>9, <3>1
    <3>4. f[0] = 0 /\ f[Len(L)] = space
      BY <2>10, <3>1
    <3>5. \A i \in 1..Len(L) : f[i] = f[i - 1] + L[i] /\ L[i] >= 1
      BY <2>8, <3>1
    <3>2. \A i \in 0..Len(L) : Ends(L, space)[i] = f[i]
      <4>1. L \in Seq(Nat) /\ space \in Nat
        BY <2>1, <2>3
      <4>2. ASSUME NEW K \in Seq(Nat), NEW w \in Nat, NEW g, 1 <= Len(K),
                   \A i \in 0..Len(K) : g[i] \in Nat, g[0] = 0, g[Len(K)] = w,
                   \A i \in 1..Len(K) : g[i] = g[i - 1] + K[i] /\ K[i] >= 1
            PROVE  \A i \in 0..Len(K) : Ends(K, w)[i] = g[i]
        BY <4>2, EndsKeep
      <4> QED BY <3>1, <3>3, <3>4, <3>5, <4>1, <4>2
    <3> QED BY <2>1, <3>2
  <2> DEFINE c == KidAt(t, b, k)
             q == t[b]
  <2>12. k \in 1..N /\ k \in 0..N /\ k - 1 \in 0..N
    BY <2>1 DEF N
  <2>13. Part(t, b, Rect(t[b]), k) =
           [at  |-> [q.at  EXCEPT ![a] = @ + f[k - 1]], len |-> [q.len EXCEPT ![a] = f[k] - f[k - 1]]]
    <3>1. Rect(t[b]).at = q.at /\ Rect(t[b]).len = q.len
      BY DEF Rect
    <3>2. Ends(L, space)[k] = f[k] /\ Ends(L, space)[k - 1] = f[k - 1]
      BY <2>11, <2>12
    <3> QED BY <3>1, <3>2 DEF Part, L, space
  <2>14. /\ c.at \in [Axes -> Nat] /\ c.len \in [Axes -> Nat]
         /\ q.at \in [Axes -> Nat] /\ q.len \in [Axes -> Nat]
    BY <2>1, KidFacts, CellFacts DEF KidAt
  <2>15. c.at[a] = q.at[a] + f[k - 1] /\ c.len[a] = f[k] - f[k - 1]
    <3>1. c.at[a] = start + f[k - 1]
      BY <2>7, <2>12 DEF At
    <3>2. c.len[a] = L[k]
      BY <2>1, <2>12
    <3>3. f[k] = f[k - 1] + L[k] /\ f[k - 1] \in Nat /\ L[k] \in Nat
      BY <2>4, <2>8, <2>9, <2>12
    <3> QED BY <3>1, <3>2, <3>3 DEF start
  <2>16. c.at[Cross(a)] = q.at[Cross(a)] /\ c.len[Cross(a)] = q.len[Cross(a)]
    BY <2>2, <2>12 DEF InRow, N
  <2> HIDE DEF c, q, a
  <2>17. /\ c.at = [q.at EXCEPT ![a] = @ + f[k - 1]]
         /\ c.len = [q.len EXCEPT ![a] = f[k] - f[k - 1]]
    <3>1. \A x \in Axes : x = a \/ x = Cross(a)
      BY <2>1, AxesAre
    <3>2. ASSUME NEW u \in [Axes -> Nat], NEW v \in [Axes -> Nat], NEW d,
                 u[a] = d, u[Cross(a)] = v[Cross(a)]
          PROVE  u = [v EXCEPT ![a] = d]
      <4>1. \A x \in Axes : u[x] = [v EXCEPT ![a] = d][x]
        BY <2>1, <3>1, <3>2
      <4>2. DOMAIN [v EXCEPT ![a] = d] = Axes /\ DOMAIN u = Axes
        OBVIOUS
      <4>3. u = [x \in Axes |-> u[x]] /\ [v EXCEPT ![a] = d] = [x \in Axes |-> [v EXCEPT ![a] = d][x]]
        OBVIOUS
      <4> QED BY <4>1, <4>3
    <3>3. c.at = [q.at EXCEPT ![a] = q.at[a] + f[k - 1]]
      BY <2>14, <2>15, <2>16, <3>2
    <3>4. c.len = [q.len EXCEPT ![a] = f[k] - f[k - 1]]
      BY <2>14, <2>15, <2>16, <3>2
    <3> QED BY <3>3, <3>4
  <2> QED BY <2>13, <2>17 DEF Rect, c, KidAt
<1> QED BY <1>1 DEF Settled

(* No tree stays no tree.                                                  *)
LEMMA NothingToScale ==
  ASSUME NEW t, DOMAIN t = {}, NEW n, NEW at, NEW len
  PROVE  Scale(t, n, at, len) = NoTree
<1>1. PICK f : Scale(t, n, at, len) = [m \in DOMAIN t |-> f[m]]
  <2> DEFINE rect == Rects(t, n, [at |-> at, len |-> len])
             g == [m \in DOMAIN t |->
                     IF m \subseteq n THEN [t[m] EXCEPT !.at = rect[m].at, !.len = rect[m].len] ELSE t[m]]
  <2>1. Scale(t, n, at, len) = g
    BY ScaleRects
  <2>2. g = [m \in DOMAIN t |-> g[m]]
    OBVIOUS
  <2> HIDE DEF g
  <2> QED BY <2>1, <2>2
<1> QED BY <1>1 DEF NoTree

(* Both halves of ResizeIsStable.                                          *)
LEMMA StableAlready ==
  ASSUME LayoutInv
  PROVE  ResizeIsStable
<1>1. ASSUME NEW w, w = Window(w.root, w.zoomed, w.active), NEW s, NEW r,
             r = Scale(w.root, PanesOf(w.root), Origin, s)
      PROVE  /\ Resized(w, s) = Window(r, w.zoomed, w.active)
             /\ Resized(w, s).root = r /\ Resized(w, s).zoomed = w.zoomed /\ Resized(w, s).active = w.active
  <2>1. Resized(w, s) = [w EXCEPT !.root = r]
    BY <1>1 DEF Resized
  <2>2. Resized(w, s) = Window(r, w.zoomed, w.active)
    BY <1>1, <2>1, WindowWith
  <2> QED BY <2>2, WindowIs
<1>2. ASSUME NEW w, w = Window(w.root, w.zoomed, w.active), NEW s,
             Scale(w.root, PanesOf(w.root), Origin, s) = w.root
      PROVE  Resized(w, s) = w
  BY <1>1, <1>2
<1>3. CASE GoodWin(win)
  <2>1. /\ Tree(win.root) /\ Laid(win.root) /\ Root(win.root).at = Origin
        /\ win = Window(win.root, win.zoomed, win.active)
    BY <1>3 DEF GoodWin
  <2>2. ASSUME Roomy(win.root) PROVE Resized(win, Root(win.root).len) = win
    <3>1. Settled(win.root)
      BY <2>1, <2>2, RoomyIsSolid, SolidIsSettled
    <3>2. Scale(win.root, PanesOf(win.root), Origin, Root(win.root).len) = win.root
      BY <2>1, <3>1, SettledStays
    <3> QED BY <1>2, <2>1, <3>2
  <2>3. ASSUME NEW s \in Sizes PROVE Resized(Resized(win, s), s) = Resized(win, s)
    <3> DEFINE r == Scale(win.root, PanesOf(win.root), Origin, s)
               w == Resized(win, s)
    <3>1. s \in Side
      BY ConstantsAre
    <3>2. Tree(r) /\ Root(r).at = Origin /\ Root(r).len = s /\ Settled(r)
      BY <2>1, <3>1, ResizeLays, LaidOutIsSettled
    <3>3. Scale(r, PanesOf(r), Origin, s) = r
      BY <3>2, SettledStays
    <3>4. w.root = r /\ w = Window(w.root, w.zoomed, w.active)
      BY <1>1, <2>1
    <3> HIDE DEF r, w
    <3>5. Resized(w, s) = w
      BY <1>2, <3>3, <3>4
    <3> QED BY <3>5 DEF w
  <2> QED BY <2>2, <2>3 DEF ResizeIsStable
<1>4. CASE win = NoWindow
  <2>1. win.root = NoTree /\ DOMAIN NoTree = {} /\ win = Window(win.root, win.zoomed, win.active)
    <3>1. win = Window(NoTree, None, None)
      BY <1>4 DEF NoWindow
    <3> QED BY <3>1, WindowIs DEF NoTree
  <2>2. \A n, at, len : Scale(NoTree, n, at, len) = NoTree
    BY <2>1, NothingToScale
  <2>3. ASSUME NEW s PROVE Resized(win, s) = win
    BY <1>2, <2>1, <2>2
  <2> QED BY <1>4, <2>3 DEF ResizeIsStable
<1> QED BY <1>3, <1>4 DEF LayoutInv, WindowInv

(* select_window and zoom_pane lay the window out again: in the size it has *)
(* already no divider moves, and a resize comes to rest at once.           *)
THEOREM ResizesComeToRest == Spec => []ResizeIsStable
BY StableAlready, LayoutInductive, PTL

---------------------------------------------------------------------------
(* Where the panes are. *)

(* A point in a rectangle.                                                 *)
Spans(c, a, z)  == c.at[a] <= z /\ z < End(c, a)
Covers(c, point) == \A a \in Axes : Spans(c, a, point[a])

(* A child lies in its box.                                                *)
LEMMA KidInside ==
  ASSUME NEW t, Tree(t), Solid(t), NEW b \in Boxes(t), NEW i \in 1..Count(t, b), NEW x \in Axes
  PROVE  t[b].at[x] <= KidAt(t, b, i).at[x] /\ End(KidAt(t, b, i), x) <= End(t[b], x)
<1> DEFINE a == t[b].kind
           N == Count(t, b)
<1>1. b \in DOMAIN t /\ a \in Axes /\ N \in Nat /\ InRow(t, b) /\ Exact(t, b)
  <2>1. b \in DOMAIN t
    BY DEF Boxes
  <2> QED BY <2>1, CellFacts DEF Solid
<1>2. N \in 1..N
  BY <1>1
<1>3. \A k \in 1..N : \A y \in Axes :
        /\ KidAt(t, b, k).at[y] \in Nat /\ KidAt(t, b, k).len[y] \in Nat
        /\ End(KidAt(t, b, k), y) = KidAt(t, b, k).at[y] + KidAt(t, b, k).len[y]
        /\ End(KidAt(t, b, k), y) \in Nat
  BY KidNumbers
<1>4. \A y \in Axes : /\ t[b].at[y] \in Nat /\ t[b].len[y] \in Nat
                      /\ End(t[b], y) = t[b].at[y] + t[b].len[y]
  BY <1>1, CellNumbers
<1>5. CASE x = a
  <2>1. t[b].at[a] <= KidAt(t, b, i).at[a]
    BY <1>1, RowOrder
  <2>2. End(KidAt(t, b, N), a) = End(t[b], a)
    BY <1>1 DEF Exact
  <2>3. End(KidAt(t, b, i), a) <= End(KidAt(t, b, N), a)
    <3>1. CASE i = N
      BY <1>1, <1>2, <1>3, <3>1
    <3>2. CASE i # N
      <4>1. i < N
        BY <1>1, <3>2
      <4>2. End(KidAt(t, b, i), a) <= KidAt(t, b, N).at[a]
        BY <1>1, <1>2, <4>1, RowOrder
      <4>3. \A u, v, w \in Nat : u <= v => u <= v + w
        OBVIOUS
      <4> QED BY <1>1, <1>2, <1>3, <4>2, <4>3
    <3> QED BY <3>1, <3>2
  <2> QED BY <1>5, <2>1, <2>2, <2>3
<1>6. CASE x # a
  <2>1. x = Cross(a)
    BY <1>1, <1>6, AxesAre
  <2>2. KidAt(t, b, i).at[x] = t[b].at[x] /\ KidAt(t, b, i).len[x] = t[b].len[x]
    BY <1>1, <2>1 DEF InRow
  <2>3. \A u, v \in Nat : u <= u /\ u + v <= u + v
    OBVIOUS
  <2> QED BY <1>3, <1>4, <2>2, <2>3
<1> QED BY <1>5, <1>6

(* So does all that is under it.                                           *)
LEMMA Inside ==
  ASSUME NEW t, Tree(t), Solid(t), NEW m \in DOMAIN t, NEW n \in DOMAIN t, m \subseteq n, NEW x \in Axes
  PROVE  t[n].at[x] <= t[m].at[x] /\ End(t[m], x) <= End(t[n], x)
<1> DEFINE In(k) == t[k].at[x] <= t[m].at[x] /\ End(t[m], x) <= End(t[k], x)
           T == {k \in DOMAIN t : m \subseteq k /\ ~In(k)}
<1>1. T = {}
  <2>1. SUFFICES ASSUME T # {} PROVE FALSE
    OBVIOUS
  <2>2. T \subseteq SUBSET PanesOf(t) /\ IsFiniteSet(PanesOf(t))
    <3>1. \A k \in DOMAIN t : k \subseteq PanesOf(t)
      BY CellFacts
    <3> QED BY <3>1 DEF Tree, Typed
  <2>3. PICK k \in T : \A y \in T : y \subseteq k => y = k
    <3> HIDE DEF T
    <3> QED BY <2>1, <2>2, SmallestSet
  <2>4. k \in DOMAIN t /\ m \subseteq k /\ ~In(k)
    BY <2>3
  <2>5. k # m
    <3>1. t[m].at[x] \in Nat /\ End(t[m], x) \in Nat
      BY CellNumbers
    <3> QED BY <2>4, <3>1
  <2>6. k \in Boxes(t)
    <3>1. m # {}
      BY CellFacts
    <3>2. ~(\E q : k = {q})
      BY <2>4, <2>5, <3>1
    <3> QED BY <2>4, <3>2 DEF Tree, Leafy, Boxes
  <2>7. PICK i \in 1..Count(t, k) : m \subseteq Kids(t, k)[i]
    BY <2>4, <2>5, <2>6 DEF Tree, Nested
  <2> DEFINE l == Kids(t, k)[i]
  <2>8. l \in DOMAIN t /\ l \subseteq k /\ l # k
    BY <2>6, KidFacts
  <2>9. In(l)
    <3> HIDE DEF In
    <3> QED BY <2>3, <2>7, <2>8
  <2>10. t[k].at[x] <= t[l].at[x] /\ End(t[l], x) <= End(t[k], x)
    BY <2>6, KidInside DEF KidAt
  <2> HIDE DEF l
  <2>11. /\ t[k].at[x] \in Nat /\ t[l].at[x] \in Nat /\ t[m].at[x] \in Nat
         /\ End(t[k], x) \in Nat /\ End(t[l], x) \in Nat /\ End(t[m], x) \in Nat
    BY <2>4, <2>8, CellNumbers
  <2>12. \A u, v, w \in Nat : u <= v /\ v <= w => u <= w
    OBVIOUS
  <2> QED BY <2>4, <2>9, <2>10, <2>11, <2>12
<1> HIDE DEF In
<1>2. In(n)
  BY <1>1
<1> QED BY <1>2 DEF In

(* No two panes share a cell of the screen.                                *)
LEMMA Apart ==
  ASSUME NEW t, Tree(t), Solid(t), NEW p \in PanesOf(t), NEW q \in PanesOf(t), p # q
  PROVE  \E a \in Axes : \/ End(CellOf(t, p), a) <= CellOf(t, q).at[a]
                         \/ End(CellOf(t, q), a) <= CellOf(t, p).at[a]
<1> DEFINE T == {n \in DOMAIN t : p \in n /\ q \in n}
<1>1. PanesOf(t) \in T /\ T \subseteq SUBSET PanesOf(t) /\ IsFiniteSet(PanesOf(t))
      /\ {p} \in DOMAIN t /\ {q} \in DOMAIN t
  <2>1. \A k \in DOMAIN t : k \subseteq PanesOf(t)
    BY CellFacts
  <2> QED BY <2>1 DEF Tree, Typed, Leafy
<1>2. PICK b \in T : \A y \in T : y \subseteq b => y = b
  <2> HIDE DEF T
  <2> QED BY <1>1, SmallestSet
<1>3. b \in Boxes(t)
  <2>1. ~(\E x : b = {x})
    BY <1>2
  <2> QED BY <1>2, <2>1 DEF Tree, Leafy, Boxes
<1> DEFINE a == t[b].kind
           i == KidWith(t, b, p)
           j == KidWith(t, b, q)
<1>4. /\ i \in 1..Count(t, b) /\ p \in Kids(t, b)[i]
      /\ j \in 1..Count(t, b) /\ q \in Kids(t, b)[j]
  BY <1>2, <1>3, KidWithIs
<1>5. i # j
  <2>1. Kids(t, b)[i] \in DOMAIN t /\ Kids(t, b)[i] \subseteq b /\ Kids(t, b)[i] # b
    BY <1>3, <1>4, KidFacts
  <2> QED BY <1>2, <1>4, <2>1
<1>6. a \in Axes /\ InRow(t, b) /\ Count(t, b) \in Nat
  <2>1. b \in DOMAIN t
    BY DEF Boxes
  <2> QED BY <1>2, <1>3, CellFacts DEF Solid
<1> HIDE DEF i, j, a
<1>7. ASSUME NEW k \in 1..Count(t, b), NEW l \in 1..Count(t, b), k < l,
             NEW x, {x} \in DOMAIN t, x \in Kids(t, b)[k],
             NEW y, {y} \in DOMAIN t, y \in Kids(t, b)[l]
      PROVE  End(t[{x}], a) <= t[{y}].at[a]
  <2>1. Kids(t, b)[k] \in DOMAIN t /\ Kids(t, b)[l] \in DOMAIN t
    BY <1>3, KidFacts
  <2>2. End(KidAt(t, b, k), a) <= KidAt(t, b, l).at[a]
    BY <1>3, <1>6, <1>7, RowOrder DEF a
  <2>3. {x} \subseteq Kids(t, b)[k] /\ {y} \subseteq Kids(t, b)[l]
    BY <1>7
  <2>4. End(t[{x}], a) <= End(KidAt(t, b, k), a)
    BY <1>6, <1>7, <2>1, <2>3, Inside DEF KidAt
  <2>5. KidAt(t, b, l).at[a] <= t[{y}].at[a]
    BY <1>6, <1>7, <2>1, <2>3, Inside DEF KidAt
  <2>6. /\ End(t[{x}], a) \in Nat /\ t[{y}].at[a] \in Nat
    BY <1>6, <1>7, CellNumbers
  <2>7. End(KidAt(t, b, k), a) \in Nat /\ KidAt(t, b, l).at[a] \in Nat
    BY <1>3, <1>6, KidNumbers
  <2>8. \A u, v, w, z \in Nat : u <= v /\ v <= w /\ w <= z => u <= z
    OBVIOUS
  <2> QED BY <2>2, <2>4, <2>5, <2>6, <2>7, <2>8
<1>8. i < j \/ j < i
  <2>1. \A u, v \in Nat : u # v => u < v \/ v < u
    OBVIOUS
  <2>2. i \in Nat /\ j \in Nat
    BY <1>4, <1>6
  <2> QED BY <1>5, <2>1, <2>2
<1>9. i < j => End(t[{p}], a) <= t[{q}].at[a]
  BY <1>1, <1>4, <1>7
<1>10. j < i => End(t[{q}], a) <= t[{p}].at[a]
  BY <1>1, <1>4, <1>7
<1> QED BY <1>6, <1>8, <1>9, <1>10 DEF CellOf

(* Every point of the window is in some pane.                              *)
LEMMA Covered ==
  ASSUME NEW t, Tree(t), Solid(t), NEW point, \A a \in Axes : point[a] \in Nat, Covers(Root(t), point)
  PROVE  \E q \in PanesOf(t) : Covers(CellOf(t, q), point)
<1> DEFINE T == {n \in DOMAIN t : Covers(t[n], point)}
<1>1. PanesOf(t) \in T /\ T \subseteq SUBSET PanesOf(t) /\ IsFiniteSet(PanesOf(t))
  <2>1. \A k \in DOMAIN t : k \subseteq PanesOf(t)
    BY CellFacts
  <2> QED BY <2>1 DEF Tree, Typed, Root
<1>2. PICK n \in T : \A y \in T : y \subseteq n => y = n
  <2> HIDE DEF T
  <2> QED BY <1>1, SmallestSet
<1>3. ASSUME n \in Boxes(t) PROVE FALSE
  <2> DEFINE a == t[n].kind
             N == Count(t, n)
             z == point[a]
             R == {i \in 1..N : z < End(KidAt(t, n, i), a)}
  <2>1. n \in DOMAIN t /\ a \in Axes /\ N \in Nat /\ N >= 2 /\ InRow(t, n) /\ Exact(t, n)
    <3>1. n \in DOMAIN t
      BY <1>2
    <3> QED BY <1>3, <3>1, CellFacts, LensAre DEF Solid
  <2>2. Spans(t[n], a, z) /\ Spans(t[n], Cross(a), point[Cross(a)]) /\ z \in Nat
    BY <1>2, <2>1, AxesAre DEF Covers
  <2>3. N \in R
    <3>1. End(KidAt(t, n, N), a) = End(t[n], a)
      BY <2>1 DEF Exact
    <3>2. z < End(t[n], a)
      BY <2>2 DEF Spans
    <3> QED BY <2>1, <3>1, <3>2
  <2>4. PICK i \in R : \A k \in R : i <= k
    <3>1. R \subseteq Nat /\ R # {}
      BY <2>1, <2>3
    <3> HIDE DEF R
    <3> QED BY <3>1, LeastNumber
  <2>5. i \in 1..N /\ z < End(KidAt(t, n, i), a)
    BY <2>4
  <2>6. KidAt(t, n, i).at[a] <= z
    <3>1. CASE i = 1
      <4>1. KidAt(t, n, 1).at[a] = t[n].at[a]
        BY <2>1 DEF InRow
      <4>2. t[n].at[a] <= z
        BY <2>2 DEF Spans
      <4> QED BY <3>1, <4>1, <4>2
    <3>2. CASE i # 1
      <4>1. i - 1 \in 1..N - 1 /\ i - 1 \in 1..N /\ (i - 1) + 1 = i /\ ~(i <= i - 1)
        BY <2>1, <2>5, <3>2
      <4>2. KidAt(t, n, i).at[a] = End(KidAt(t, n, i - 1), a)
        <5>1. \A k \in 1..N - 1 : KidAt(t, n, k + 1).at[a] = End(KidAt(t, n, k), a)
          BY <2>1 DEF InRow
        <5> QED BY <4>1, <5>1
      <4>3. ~(z < End(KidAt(t, n, i - 1), a))
        BY <2>4, <4>1
      <4>4. End(KidAt(t, n, i - 1), a) \in Nat
        BY <1>3, <2>1, <4>1, KidNumbers
      <4>5. \A u, v \in Nat : ~(u < v) => v <= u
        OBVIOUS
      <4> QED BY <2>2, <4>2, <4>3, <4>4, <4>5
    <3> QED BY <3>1, <3>2
  <2>7. Spans(KidAt(t, n, i), a, z)
    BY <2>5, <2>6 DEF Spans
  <2>8. Spans(KidAt(t, n, i), Cross(a), point[Cross(a)])
    <3>1. /\ KidAt(t, n, i).at[Cross(a)] = t[n].at[Cross(a)]
          /\ KidAt(t, n, i).len[Cross(a)] = t[n].len[Cross(a)]
      BY <2>1, <2>5 DEF InRow
    <3>2. End(KidAt(t, n, i), Cross(a)) = End(t[n], Cross(a))
      BY <3>1 DEF End
    <3> QED BY <2>2, <3>1, <3>2 DEF Spans
  <2>9. Covers(KidAt(t, n, i), point)
    <3>1. \A x \in Axes : x = a \/ x = Cross(a)
      BY <2>1, AxesAre
    <3> QED BY <2>7, <2>8, <3>1 DEF Covers
  <2>10. Kids(t, n)[i] \in DOMAIN t /\ Kids(t, n)[i] \subseteq n /\ Kids(t, n)[i] # n
    BY <1>3, <2>5, KidFacts
  <2> QED BY <1>2, <2>9, <2>10 DEF KidAt
<1>4. PICK q \in PanesOf(t) : n = {q}
  BY <1>2, <1>3 DEF Boxes, Tree, Leafy
<1> QED BY <1>2, <1>4 DEF CellOf

(* Beyond the edge of a pane there is nothing at the edge of the window,   *)
(* and elsewhere a pane that touches it.                                   *)
LEMMA Across ==
  ASSUME NEW t, Tree(t), Solid(t), Root(t).at = Origin,
         NEW p \in PanesOf(t), NEW dir \in Dirs
  PROVE  LET a == AxisOf(dir)
             l == CellOf(t, p)
             edge == IF dir \in {"L", "U"} THEN l.at[a] = 0 ELSE End(l, a) = Root(t).len[a]
         IN  IF edge THEN Ahead(t, p, dir) = {}
             ELSE \E q \in Ahead(t, p, dir) : Gap(CellOf(t, q), l, dir) = 0
<1> DEFINE a == AxisOf(dir)
           c == Cross(a)
           l == CellOf(t, p)
           back == dir \in {"L", "U"}
           R == Root(t)
<1>1. a \in Axes /\ c \in Axes /\ c # a /\ \A x \in Axes : x = a \/ x = c
  <2>1. a \in Axes
    BY DEF AxisOf, Axes
  <2> QED BY <2>1, AxesAre
<1>2. /\ PanesOf(t) \in DOMAIN t /\ R = t[PanesOf(t)]
      /\ \A q \in PanesOf(t) : {q} \in DOMAIN t /\ CellOf(t, q) = t[{q}]
  BY DEF Tree, Typed, Leafy, Root, CellOf
<1>3. ASSUME NEW q \in PanesOf(t), NEW x \in Axes
      PROVE  /\ CellOf(t, q).at[x] \in Nat /\ CellOf(t, q).len[x] \in Nat /\ CellOf(t, q).len[x] >= 1
             /\ End(CellOf(t, q), x) = CellOf(t, q).at[x] + CellOf(t, q).len[x]
             /\ End(CellOf(t, q), x) \in Nat /\ CellOf(t, q).at[x] < End(CellOf(t, q), x)
             /\ R.at[x] = 0 /\ R.len[x] \in Nat /\ End(R, x) = R.len[x]
             /\ End(CellOf(t, q), x) <= R.len[x]
  <2>1. /\ CellOf(t, q).at[x] \in Nat /\ CellOf(t, q).len[x] \in Nat /\ CellOf(t, q).len[x] >= 1
        /\ End(CellOf(t, q), x) = CellOf(t, q).at[x] + CellOf(t, q).len[x]
    <3>1. {q} \in DOMAIN t /\ CellOf(t, q) = t[{q}]
      BY <1>2
    <3>2. /\ t[{q}].at[x] \in Nat /\ t[{q}].len[x] \in Nat
          /\ End(t[{q}], x) = t[{q}].at[x] + t[{q}].len[x]
      BY <3>1, CellNumbers
    <3>3. t[{q}].len[x] >= 1
      BY <3>1 DEF Solid
    <3> QED BY <3>1, <3>2, <3>3
  <2>2. R.at[x] = 0
    BY AxesAre
  <2>3. R.len[x] \in Nat /\ End(R, x) = R.at[x] + R.len[x]
    BY <1>2, CellNumbers
  <2>4. End(CellOf(t, q), x) <= End(R, x)
    <3>1. {q} \subseteq PanesOf(t)
      OBVIOUS
    <3> QED BY <1>2, <3>1, Inside
  <2>5. \A u, v \in Nat : 0 + u = u /\ u + v \in Nat /\ (v >= 1 => u < u + v)
    OBVIOUS
  <2> QED BY <2>1, <2>2, <2>3, <2>4, <2>5
<1>4. \A q : q \in Ahead(t, p, dir) <=>
        /\ q \in PanesOf(t) \ {p} /\ Gap(CellOf(t, q), l, dir) >= 0
        /\ Overlap(CellOf(t, q), l, c) > 0
  BY DEF Ahead
<1>5. \A q : Gap(CellOf(t, q), l, dir) =
        IF back THEN l.at[a] - End(CellOf(t, q), a) ELSE CellOf(t, q).at[a] - End(l, a)
  BY DEF Gap
<1> DEFINE y == l.at[c]
<1>6. ASSUME NEW q \in PanesOf(t) \ {p}, Spans(CellOf(t, q), c, y)
      PROVE  /\ End(CellOf(t, q), a) <= l.at[a] \/ End(l, a) <= CellOf(t, q).at[a]
             /\ Overlap(CellOf(t, q), l, c) > 0
  <2> DEFINE m == CellOf(t, q)
  <2>1. /\ m.at[c] \in Nat /\ End(m, c) \in Nat /\ l.at[c] \in Nat /\ End(l, c) \in Nat
        /\ l.at[c] < End(l, c)
    BY <1>1, <1>3
  <2>2. m.at[c] <= l.at[c] /\ l.at[c] < End(m, c)
    BY <1>6 DEF Spans
  <2>3. ~(End(m, c) <= l.at[c]) /\ ~(End(l, c) <= m.at[c])
    <3>1. \A u, v \in Nat : u < v => ~(v <= u)
      OBVIOUS
    <3>2. \A u, v, w \in Nat : u <= v /\ v < w => ~(w <= u)
      OBVIOUS
    <3> QED BY <2>1, <2>2, <3>1, <3>2
  <2>4. PICK x \in Axes : End(m, x) <= l.at[x] \/ End(l, x) <= m.at[x]
    BY Apart
  <2>5. x = a
    BY <1>1, <2>3, <2>4
  <2>6. Overlap(m, l, c) > 0
    <3> HIDE DEF m, l
    <3>1. \A u, v, w, z \in Nat : u <= w /\ w < v /\ w < z =>
            (IF v < z THEN v ELSE z) - (IF u < w THEN w ELSE u) > 0
      OBVIOUS
    <3> QED BY <2>1, <2>2, <3>1 DEF Overlap, Larger
  <2> QED BY <2>4, <2>5, <2>6
<1>7. /\ l.at[a] \in Nat /\ End(l, a) \in Nat /\ l.at[a] < End(l, a) /\ End(l, a) <= R.len[a]
      /\ R.len[a] \in Nat /\ y \in Nat /\ Spans(l, c, y) /\ Spans(R, c, y) /\ R.at[a] = 0 /\ End(R, a) = R.len[a]
  <2>1. /\ l.at[a] \in Nat /\ End(l, a) \in Nat /\ l.at[a] < End(l, a) /\ End(l, a) <= R.len[a]
        /\ R.len[a] \in Nat /\ R.at[a] = 0 /\ End(R, a) = R.len[a]
    BY <1>1, <1>3
  <2>2. /\ y \in Nat /\ End(l, c) \in Nat /\ y < End(l, c) /\ End(l, c) <= R.len[c]
        /\ R.len[c] \in Nat /\ R.at[c] = 0 /\ End(R, c) = R.len[c]
    BY <1>1, <1>3
  <2>3. \A u, v, w \in Nat : u < v /\ v <= w => u < w /\ 0 <= u /\ u <= u
    OBVIOUS
  <2> QED BY <2>1, <2>2, <2>3 DEF Spans
<1> HIDE DEF y
(* The pane at the point next to the middle of the edge. *)
<1>8. ASSUME NEW z \in Nat, z < R.len[a]
      PROVE  \E q \in PanesOf(t) : Spans(CellOf(t, q), a, z) /\ Spans(CellOf(t, q), c, y)
  <2> DEFINE point == [x \in Axes |-> IF x = a THEN z ELSE y]
  <2>1. point[a] = z /\ point[c] = y /\ \A x \in Axes : point[x] \in Nat
    BY <1>1, <1>7
  <2> HIDE DEF point
  <2>2. Spans(R, a, z)
    <3>1. 0 <= z
      OBVIOUS
    <3> QED BY <1>7, <1>8, <3>1 DEF Spans
  <2>3. Covers(R, point)
    BY <1>1, <1>7, <2>1, <2>2 DEF Covers
  <2>4. PICK q \in PanesOf(t) : Covers(CellOf(t, q), point)
    BY <2>1, <2>3, Covered
  <2> QED BY <1>1, <2>1, <2>4 DEF Covers
<1>9. ASSUME back
      PROVE  IF l.at[a] = 0 THEN Ahead(t, p, dir) = {}
             ELSE \E q \in Ahead(t, p, dir) : Gap(CellOf(t, q), l, dir) = 0
  <2>1. ASSUME l.at[a] = 0, NEW q \in Ahead(t, p, dir) PROVE FALSE
    <3>1. q \in PanesOf(t) /\ l.at[a] - End(CellOf(t, q), a) >= 0
      BY <1>4, <1>5, <1>9, <2>1
    <3>2. CellOf(t, q).at[a] \in Nat /\ End(CellOf(t, q), a) \in Nat /\ CellOf(t, q).at[a] < End(CellOf(t, q), a)
      BY <1>1, <1>3, <3>1
    <3>3. \A u, v \in Nat : u < v => ~(0 - v >= 0)
      OBVIOUS
    <3> QED BY <2>1, <3>1, <3>2, <3>3
  <2>2. ASSUME l.at[a] # 0 PROVE \E q \in Ahead(t, p, dir) : Gap(CellOf(t, q), l, dir) = 0
    <3> DEFINE z == l.at[a] - 1
    <3>1. z \in Nat /\ z < R.len[a] /\ z + 1 = l.at[a]
      BY <1>7, <2>2
    <3> HIDE DEF z
    <3>2. PICK q \in PanesOf(t) : Spans(CellOf(t, q), a, z) /\ Spans(CellOf(t, q), c, y)
      BY <1>8, <3>1
    <3> DEFINE m == CellOf(t, q)
    <3>3. m.at[a] \in Nat /\ End(m, a) \in Nat /\ m.at[a] <= z /\ z < End(m, a)
      BY <1>1, <1>3, <3>2 DEF Spans
    <3>4. q # p
      BY <1>7, <3>1, <3>3
    <3>5. (End(m, a) <= l.at[a] \/ End(l, a) <= m.at[a]) /\ Overlap(m, l, c) > 0
      BY <1>6, <3>2, <3>4
    <3> HIDE DEF m
    <3>6. End(m, a) = l.at[a]
      BY <1>7, <3>1, <3>3, <3>5
    <3>7. Gap(m, l, dir) = 0
      BY <1>5, <1>7, <1>9, <3>6 DEF m
    <3>8. q \in Ahead(t, p, dir)
      BY <1>4, <3>2, <3>4, <3>5, <3>7 DEF m
    <3> QED BY <3>7, <3>8 DEF m
  <2> QED BY <2>1, <2>2
<1>10. ASSUME ~back
       PROVE  IF End(l, a) = R.len[a] THEN Ahead(t, p, dir) = {}
              ELSE \E q \in Ahead(t, p, dir) : Gap(CellOf(t, q), l, dir) = 0
  <2>1. ASSUME End(l, a) = R.len[a], NEW q \in Ahead(t, p, dir) PROVE FALSE
    <3>1. q \in PanesOf(t) /\ CellOf(t, q).at[a] - End(l, a) >= 0
      BY <1>4, <1>5, <1>10, <2>1
    <3>2. /\ CellOf(t, q).at[a] \in Nat /\ End(CellOf(t, q), a) \in Nat
          /\ CellOf(t, q).at[a] < End(CellOf(t, q), a) /\ End(CellOf(t, q), a) <= R.len[a]
      BY <1>1, <1>3, <3>1
    <3>3. \A u, v, w \in Nat : u < v /\ v <= w => ~(u - w >= 0)
      OBVIOUS
    <3> QED BY <1>7, <2>1, <3>1, <3>2, <3>3
  <2>2. ASSUME End(l, a) # R.len[a] PROVE \E q \in Ahead(t, p, dir) : Gap(CellOf(t, q), l, dir) = 0
    <3> DEFINE z == End(l, a)
    <3>1. z \in Nat /\ z < R.len[a]
      BY <1>7, <2>2
    <3>2. PICK q \in PanesOf(t) : Spans(CellOf(t, q), a, z) /\ Spans(CellOf(t, q), c, y)
      BY <1>8, <3>1
    <3> DEFINE m == CellOf(t, q)
    <3>3. m.at[a] \in Nat /\ End(m, a) \in Nat /\ m.at[a] <= z /\ z < End(m, a)
      BY <1>1, <1>3, <3>2 DEF Spans
    <3>4. q # p
      BY <1>7, <3>1, <3>3
    <3>5. (End(m, a) <= l.at[a] \/ End(l, a) <= m.at[a]) /\ Overlap(m, l, c) > 0
      BY <1>6, <3>2, <3>4
    <3> HIDE DEF m
    <3>6. End(l, a) = m.at[a]
      BY <1>7, <3>1, <3>3, <3>5
    <3>7. Gap(m, l, dir) = 0
      BY <1>5, <1>7, <1>10, <3>6 DEF m
    <3>8. q \in Ahead(t, p, dir)
      BY <1>4, <3>2, <3>4, <3>5, <3>7 DEF m
    <3> QED BY <3>7, <3>8 DEF m
  <2> QED BY <2>1, <2>2
<1> QED BY <1>9, <1>10

(* So the nearest pane ahead touches the edge.                             *)
LEMMA ReachesOver ==
  ASSUME LayoutInv
  PROVE  NavReaches
<1> SUFFICES ASSUME Roomy(win.root), NEW p \in Panes, NEW dir \in Dirs
             PROVE  LET a == AxisOf(dir)
                        l == CellOf(win.root, p)
                        edge == IF dir \in {"L", "U"} THEN l.at[a] = 0 ELSE End(l, a) = Root(win.root).len[a]
                        to == Neighbour(win.root, p, dir)
                    IN  IF edge THEN to = None
                        ELSE to # None /\ Gap(CellOf(win.root, to), l, dir) = 0
  BY DEF NavReaches
<1> DEFINE t == win.root
           a == AxisOf(dir)
           l == CellOf(t, p)
           edge == IF dir \in {"L", "U"} THEN l.at[a] = 0 ELSE End(l, a) = Root(t).len[a]
           to == Neighbour(t, p, dir)
           ahead == Ahead(t, p, dir)
<1>1. GoodWin(win) /\ Panes = PanesOf(t)
  BY NotGood DEF LayoutInv, WindowInv, Panes
<1>2. /\ Tree(t) /\ Laid(t) /\ Root(t).at = Origin /\ p \in PanesOf(t)
      /\ PanesOf(t) \subseteq Nat /\ None \notin PanesOf(t)
  <2>1. \A q \in Panes : q \in Nat /\ q # None
    BY InvFacts
  <2> QED BY <1>1, <2>1 DEF GoodWin
<1>3. Solid(t)
  BY <1>2, RoomyIsSolid
<1>4. IF edge THEN ahead = {} ELSE \E q \in ahead : Gap(CellOf(t, q), l, dir) = 0
  BY <1>2, <1>3, Across
<1>5. /\ ahead = {} => to = None
      /\ ahead # {} => /\ to \in ahead /\ to \in PanesOf(t)
                       /\ \A q \in ahead : Gap(CellOf(t, to), l, dir) <= Gap(CellOf(t, q), l, dir)
  BY <1>2, NeighbourIs
<1>6. CASE edge
  BY <1>4, <1>5, <1>6
<1>7. CASE ~edge
  <2>1. PICK q \in ahead : Gap(CellOf(t, q), l, dir) = 0
    BY <1>4, <1>7
  <2>2. to \in ahead /\ to \in PanesOf(t) /\ Gap(CellOf(t, to), l, dir) <= 0
    BY <1>5, <2>1
  <2>3. Gap(CellOf(t, to), l, dir) >= 0
    BY <2>2 DEF Ahead
  <2>4. Gap(CellOf(t, to), l, dir) \in Int
    <3>1. AxisOf(dir) \in Axes
      BY DEF AxisOf, Axes
    <3>2. {to} \in DOMAIN t /\ {p} \in DOMAIN t
      BY <1>2, <2>2 DEF Tree, Leafy
    <3>3. /\ t[{to}].at[a] \in Nat /\ End(t[{to}], a) \in Nat
          /\ t[{p}].at[a] \in Nat /\ End(t[{p}], a) \in Nat
      BY <1>2, <3>1, <3>2, CellNumbers
    <3>4. \A u, v \in Nat : u - v \in Int
      OBVIOUS
    <3> QED BY <3>3, <3>4 DEF Gap, CellOf
  <2>5. Gap(CellOf(t, to), l, dir) = 0
    <3>1. \A u \in Int : u <= 0 /\ u >= 0 => u = 0
      OBVIOUS
    <3> QED BY <2>2, <2>3, <2>4, <3>1
  <2> QED BY <1>2, <1>7, <2>2, <2>5
<1> QED BY <1>6, <1>7

(* select_pane_dir (native.rs): from every pane that is not at the edge of *)
(* the window the arrow leads to a pane that touches it, when every pane   *)
(* has a cell; and at the edge it leads nowhere.                           *)
THEOREM FocusCrossesEveryEdge == Spec => []NavReaches
BY ReachesOver, LayoutInductive, PTL
=============================================================================
