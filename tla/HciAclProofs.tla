----------------------------- MODULE HciAclProofs -----------------------------
(***************************************************************************)
(* Proofs about HciAcl, for any handles, buffers, lengths and thresholds:  *)
(* sums over sets and sequences; what is sent in pieces and the flow       *)
(* control of ATT and SMP (IInv, where the counters are integers); the     *)
(* buffers of the controller (BInv, on top of it); the counter flow        *)
(* control goes by (QInv, on top of both); the refinement of AclStream     *)
(* (LInv, on top of all).                                                  *)
(***************************************************************************)
EXTENDS HciAcl, TLAPS, SequenceTheorems, FiniteSetTheorems, WellFoundedInduction

(* Sums of numbers over finite sets (SumFunctionOnSet of the library).     *)

LEMMA Smallest ==
  ASSUME NEW T \in SUBSET Nat, T # {}
  PROVE  \E x \in T : \A y \in T : x <= y
<1>1. PICK x \in T : \A y \in T : ~ (<<y, x>> \in OpToRel(<, Nat))
  BY NatLessThanWellFounded, WFMin
<1>2. ASSUME NEW y \in T PROVE x <= y
  <2>1. <<y, x>> \in Nat \X Nat /\ <<y, x>>[1] = y /\ <<y, x>>[2] = x
    OBVIOUS
  <2>2. ~ (y < x)
    BY <1>1, <2>1, Zenon DEF OpToRel
  <2>3. QED
    BY <2>2
<1>3. QED
  BY <1>2

Pick(s) == CHOOSE x \in s : TRUE

(* The recursive function the library's sum is, on the sets of D.          *)
Sums(f, D, g) ==
  g = [s \in D |-> IF s = {} THEN 0 ELSE f[Pick(s)] + g[s \ {Pick(s)}]]

LEMMA SumIs ==
  ASSUME NEW f, NEW S
  PROVE  SumFunctionOnSet(f, S) = (CHOOSE g : Sums(f, SUBSET S, g))[S]
BY DEF SumFunctionOnSet, FoldFunctionOnSet, MapThenFoldSet, Sums, Pick

LEMMA PickIn == \A s : s # {} => Pick(s) \in s
BY DEF Pick

UpTo(S, n) == {s \in SUBSET S : Cardinality(s) <= n}

LEMMA OneLess ==
  ASSUME NEW S, IsFiniteSet(S), NEW x \in S
  PROVE  /\ IsFiniteSet(S \ {x})
         /\ Cardinality(S) \in Nat /\ Cardinality(S \ {x}) \in Nat
         /\ Cardinality(S) = Cardinality(S \ {x}) + 1
BY FS_RemoveElement, FS_CardinalityType

LEMMA SumsExist ==
  ASSUME NEW f, NEW S, IsFiniteSet(S)
  PROVE  \E g : Sums(f, SUBSET S, g)
<1> DEFINE Bad == {n \in Nat : ~ \E g : Sums(f, UpTo(S, n), g)}
<1>0. \A s \in SUBSET S : IsFiniteSet(s) /\ Cardinality(s) \in Nat /\ Cardinality(s) <= Cardinality(S)
  BY FS_Subset, FS_CardinalityType
<1>1. Bad = {}
  <2> SUFFICES ASSUME Bad # {} PROVE FALSE
    OBVIOUS
  <2>1. PICK n \in Bad : \A m \in Bad : n <= m
    <3> HIDE DEF Bad
    <3>1. Bad \subseteq Nat
      BY DEF Bad
    <3>2. QED
      BY <3>1, Smallest
  <2>2. n \in Nat /\ ~ \E g : Sums(f, UpTo(S, n), g)
    OBVIOUS
  <2>3. CASE n = 0
    <3> DEFINE g == [s \in UpTo(S, 0) |-> 0]
    <3>1. \A s \in UpTo(S, 0) : s = {}
      BY <1>0, FS_EmptySet DEF UpTo
    <3>2. [s \in UpTo(S, 0) |-> IF s = {} THEN 0 ELSE f[Pick(s)] + g[s \ {Pick(s)}]] = g
      BY <3>1
    <3>3. Sums(f, UpTo(S, 0), g)
      BY <3>2 DEF Sums
    <3>4. QED
      BY <2>2, <2>3, <3>3
  <2>4. CASE n # 0
    <3> DEFINE m == n - 1
    <3>1. m \in Nat /\ n = m + 1
      BY <2>2, <2>4
    <3>2. PICK g : Sums(f, UpTo(S, m), g)
      <4>1. m \notin Bad
        BY <2>1, <3>1
      <4>2. QED
        BY <3>1, <4>1
    <3> HIDE DEF m
    <3> DEFINE h == [s \in UpTo(S, n) |-> IF s = {} THEN 0 ELSE f[Pick(s)] + g[s \ {Pick(s)}]]
    <3>3. \A s \in UpTo(S, m) : h[s] = g[s]
      <4> TAKE s \in UpTo(S, m)
      <4>1. s \in UpTo(S, n)
        BY <1>0, <3>1 DEF UpTo
      <4>2. g[s] = IF s = {} THEN 0 ELSE f[Pick(s)] + g[s \ {Pick(s)}]
        BY <3>2 DEF Sums
      <4>3. QED
        BY <4>1, <4>2
    <3>4. \A s \in UpTo(S, n) : s # {} => s \ {Pick(s)} \in UpTo(S, m)
      <4> TAKE s \in UpTo(S, n)
      <4> HAVE s # {}
      <4>1. Pick(s) \in s /\ s \in SUBSET S /\ Cardinality(s) <= n /\ IsFiniteSet(s)
        BY <1>0, PickIn DEF UpTo
      <4>2. Cardinality(s) = Cardinality(s \ {Pick(s)}) + 1 /\ Cardinality(s \ {Pick(s)}) \in Nat
        BY <4>1, OneLess
      <4>3. QED
        BY <3>1, <4>1, <4>2 DEF UpTo
    <3>5. h = [s \in UpTo(S, n) |-> IF s = {} THEN 0 ELSE f[Pick(s)] + h[s \ {Pick(s)}]]
      <4> HIDE DEF h
      <4>1. \A s \in UpTo(S, n) : s # {} => h[s \ {Pick(s)}] = g[s \ {Pick(s)}]
        BY <3>3, <3>4
      <4>2. QED
        BY <4>1 DEF h
    <3>6. Sums(f, UpTo(S, n), h)
      <4> HIDE DEF h
      <4>1. QED
        BY <3>5 DEF Sums
    <3>7. QED
      BY <2>2, <3>6
  <2>5. QED
    BY <2>3, <2>4
<1>2. Cardinality(S) \in Nat
  BY FS_CardinalityType
<1>3. PICK g : Sums(f, UpTo(S, Cardinality(S)), g)
  BY <1>1, <1>2
<1>4. UpTo(S, Cardinality(S)) = SUBSET S
  BY <1>0 DEF UpTo
<1>5. QED
  BY <1>3, <1>4

Alike(f, R, g, d, S, h) ==
  /\ S \in SUBSET R /\ IsFiniteSet(S)
  /\ Sums(f, SUBSET R, g) /\ Sums(d, SUBSET S, h)
  /\ \A x \in S : f[x] = d[x]

(* One recursive function on the subsets of S is as good as another.       *)
LEMMA SumsAgree ==
  ASSUME NEW f, NEW R, NEW g, NEW d, NEW S, NEW h, Alike(f, R, g, d, S, h)
  PROVE  g[S] = h[S]
<1> USE DEF Alike
<1> DEFINE Bad == {n \in Nat : \E s \in SUBSET S : Cardinality(s) = n /\ g[s] # h[s]}
<1>0. \A s \in SUBSET S : IsFiniteSet(s) /\ Cardinality(s) \in Nat
  BY FS_Subset, FS_CardinalityType
<1>1. Bad = {}
  <2> SUFFICES ASSUME Bad # {} PROVE FALSE
    OBVIOUS
  <2>1. PICK n \in Bad : \A m \in Bad : n <= m
    <3> HIDE DEF Bad
    <3>1. Bad \subseteq Nat
      BY DEF Bad
    <3>2. QED
      BY <3>1, Smallest
  <2>2. PICK s \in SUBSET S : Cardinality(s) = n /\ g[s] # h[s]
    OBVIOUS
  <2>3. /\ g[s] = IF s = {} THEN 0 ELSE f[Pick(s)] + g[s \ {Pick(s)}]
        /\ h[s] = IF s = {} THEN 0 ELSE d[Pick(s)] + h[s \ {Pick(s)}]
    BY DEF Sums
  <2>4. s # {}
    BY <2>2, <2>3
  <2>5. /\ Pick(s) \in s /\ s \ {Pick(s)} \in SUBSET S
        /\ f[Pick(s)] = d[Pick(s)]
    BY <2>4, PickIn
  <2>6. Cardinality(s) = Cardinality(s \ {Pick(s)}) + 1 /\ Cardinality(s \ {Pick(s)}) \in Nat
    BY <1>0, <2>5, OneLess
  <2>7. Cardinality(s \ {Pick(s)}) \notin Bad
    <3> DEFINE k == Cardinality(s \ {Pick(s)})
    <3>1. n = k + 1 /\ k \in Nat
      BY <2>2, <2>6
    <3> HIDE DEF Bad, k
    <3>2. ~ (n <= k)
      BY <3>1
    <3>3. k \notin Bad
      BY <2>1, <3>2, Zenon
    <3>4. QED
      BY <3>3 DEF k
  <2>8. g[s \ {Pick(s)}] = h[s \ {Pick(s)}]
    BY <2>5, <2>6, <2>7
  <2>9. QED
    BY <2>2, <2>3, <2>4, <2>5, <2>8
<1>2. QED
  BY <1>0, <1>1

LEMMA SumIsSums ==
  ASSUME NEW f, NEW S, IsFiniteSet(S)
  PROVE  \E g : Sums(f, SUBSET S, g) /\ SumFunctionOnSet(f, S) = g[S]
<1>1. Sums(f, SUBSET S, CHOOSE g : Sums(f, SUBSET S, g))
  BY SumsExist
<1>2. QED
  BY <1>1, SumIs

LEMMA SumSame ==
  ASSUME NEW f, NEW d, NEW S, IsFiniteSet(S), \A x \in S : f[x] = d[x]
  PROVE  SumFunctionOnSet(f, S) = SumFunctionOnSet(d, S)
<1>1. PICK g : Sums(f, SUBSET S, g) /\ SumFunctionOnSet(f, S) = g[S]
  BY SumIsSums
<1>2. PICK h : Sums(d, SUBSET S, h) /\ SumFunctionOnSet(d, S) = h[S]
  BY SumIsSums
<1>3. Alike(f, S, g, d, S, h)
  BY <1>1, <1>2 DEF Alike
<1>4. QED
  BY <1>1, <1>2, <1>3, SumsAgree

LEMMA SumEmpty == \A f : SumFunctionOnSet(f, {}) = 0
<1> TAKE f
<1>1. IsFiniteSet({})
  BY FS_EmptySet
<1>2. PICK g : Sums(f, SUBSET {}, g) /\ SumFunctionOnSet(f, {}) = g[{}]
  BY <1>1, SumIsSums
<1>3. QED
  BY <1>2 DEF Sums

LEMMA SumPick ==
  ASSUME NEW f, NEW S, IsFiniteSet(S), S # {}
  PROVE  SumFunctionOnSet(f, S) = f[Pick(S)] + SumFunctionOnSet(f, S \ {Pick(S)})
<1> DEFINE R == S \ {Pick(S)}
<1>1. PICK g : Sums(f, SUBSET S, g) /\ SumFunctionOnSet(f, S) = g[S]
  BY SumIsSums
<1>2. IsFiniteSet(R) /\ R \subseteq S
  BY PickIn, OneLess
<1>3. PICK h : Sums(f, SUBSET R, h) /\ SumFunctionOnSet(f, R) = h[R]
  BY <1>2, SumIsSums
<1>4. g[S] = f[Pick(S)] + g[R]
  BY <1>1 DEF Sums
<1>5. g[R] = h[R]
  <2>1. Alike(f, S, g, f, R, h)
    BY <1>1, <1>2, <1>3 DEF Alike
  <2>2. QED
    BY <2>1, SumsAgree
<1>6. QED
  BY <1>1, <1>3, <1>4, <1>5

(* Any element may be taken first.                                         *)
LEMMA SumTake ==
  ASSUME NEW f, NEW S, IsFiniteSet(S), \A x \in S : f[x] \in Int
  PROVE  /\ SumFunctionOnSet(f, S) \in Int
         /\ \A x \in S : SumFunctionOnSet(f, S) = f[x] + SumFunctionOnSet(f, S \ {x})
<1> DEFINE Sum(s) == SumFunctionOnSet(f, s)
           Good(s) == Sum(s) \in Int /\ \A x \in s : Sum(s) = f[x] + Sum(s \ {x})
           Bad == {n \in Nat : \E s \in SUBSET S : Cardinality(s) = n /\ ~ Good(s)}
<1>0. \A s \in SUBSET S : IsFiniteSet(s) /\ Cardinality(s) \in Nat
  BY FS_Subset, FS_CardinalityType
<1>1. Bad = {}
  <2> SUFFICES ASSUME Bad # {} PROVE FALSE
    OBVIOUS
  <2>1. PICK n \in Bad : \A m \in Bad : n <= m
    <3> HIDE DEF Bad
    <3>1. Bad \subseteq Nat
      BY DEF Bad
    <3>2. QED
      BY <3>1, Smallest
  <2>2. PICK s \in SUBSET S : Cardinality(s) = n /\ ~ Good(s)
    OBVIOUS
  <2>3. s # {}
    BY <2>2, SumEmpty
  <2>4. ASSUME NEW t \in SUBSET s, t # s PROVE Good(t)
    <3> HIDE DEF Good
    <3>1. Cardinality(t) \in Nat /\ Cardinality(t) < n
      BY <1>0, <2>2, <2>4, FS_Subset
    <3>2. Cardinality(t) \notin Bad
      <4> HIDE DEF Bad
      <4>1. n \in Nat /\ ~ (n <= Cardinality(t))
        BY <1>0, <2>2, <3>1
      <4>2. QED
        BY <2>1, <4>1, Zenon
    <3>3. QED
      BY <3>1, <3>2
  <2> DEFINE p == Pick(s)
  <2>5. p \in s /\ Sum(s) = f[p] + Sum(s \ {p})
    BY <1>0, <2>3, PickIn, SumPick
  <2>6. Sum(s) \in Int
    <3>1. Good(s \ {p}) /\ f[p] \in Int
      BY <2>4, <2>5
    <3>2. QED
      BY <2>5, <3>1
  <2> HIDE DEF p, Sum
  <2>7. ASSUME NEW x \in s PROVE Sum(s) = f[x] + Sum(s \ {x})
    <3>1. CASE x = p
      BY <2>5, <3>1
    <3>2. CASE x # p
      <4>1. x \in s \ {p} /\ p \in s \ {x} /\ (s \ {x}) \ {p} = (s \ {p}) \ {x}
        BY <2>5, <3>2
      <4>2. Good(s \ {p}) /\ Good(s \ {x}) /\ Good((s \ {p}) \ {x})
        BY <2>4, <2>5, <4>1
      <4>3. Sum(s \ {p}) = f[x] + Sum((s \ {p}) \ {x}) /\ Sum(s \ {x}) = f[p] + Sum((s \ {x}) \ {p})
        BY <4>1, <4>2
      <4>4. Sum((s \ {p}) \ {x}) \in Int /\ f[x] \in Int /\ f[p] \in Int
        BY <2>5, <4>2
      <4>5. /\ Sum(s) = f[p] + (f[x] + Sum((s \ {p}) \ {x}))
            /\ f[x] + Sum(s \ {x}) = f[x] + (f[p] + Sum((s \ {p}) \ {x}))
        BY <2>5, <4>1, <4>3
      <4>6. QED
        BY <4>4, <4>5
    <3>3. QED
      BY <3>1, <3>2
  <2>8. QED
    BY <2>2, <2>6, <2>7
<1>2. QED
  BY <1>0, <1>1

(* A set of numbers that is closed under addition holds the sums of its    *)
(* members.                                                                *)
LEMMA SumWithin ==
  ASSUME NEW V, V \subseteq Int, 0 \in V, \A a, b \in V : a + b \in V,
         NEW f, NEW S, IsFiniteSet(S), \A x \in S : f[x] \in V
  PROVE  SumFunctionOnSet(f, S) \in V
<1> DEFINE Sum(s) == SumFunctionOnSet(f, s)
           Bad == {n \in Nat : \E s \in SUBSET S : Cardinality(s) = n /\ Sum(s) \notin V}
<1>0. \A s \in SUBSET S : IsFiniteSet(s) /\ Cardinality(s) \in Nat
  BY FS_Subset, FS_CardinalityType
<1>1. Bad = {}
  <2> SUFFICES ASSUME Bad # {} PROVE FALSE
    OBVIOUS
  <2>1. PICK n \in Bad : \A m \in Bad : n <= m
    <3> HIDE DEF Bad
    <3>1. Bad \subseteq Nat
      BY DEF Bad
    <3>2. QED
      BY <3>1, Smallest
  <2>2. PICK s \in SUBSET S : Cardinality(s) = n /\ Sum(s) \notin V
    OBVIOUS
  <2>3. PICK x \in s : TRUE
    BY <2>2, SumEmpty
  <2> DEFINE t == s \ {x}
             k == Cardinality(t)
  <2>4. n = k + 1 /\ k \in Nat /\ t \in SUBSET S
    BY <1>0, <2>2, <2>3, OneLess
  <2>5. Sum(s) = f[x] + Sum(t)
    BY <1>0, <2>3, SumTake, ZenonT(40)
  <2>6. k \notin Bad
    <3> HIDE DEF Bad, k
    <3>1. ~ (n <= k)
      BY <2>4
    <3>2. QED
      BY <2>1, <3>1, Zenon
  <2>7. Sum(t) \in V
    BY <2>4, <2>6
  <2>8. f[x] \in V
    BY <2>3
  <2> HIDE DEF Sum, t
  <2>9. QED
    BY <2>2, <2>5, <2>7, <2>8
<1>2. QED
  BY <1>0, <1>1

LEMMA SumNat ==
  ASSUME NEW f, NEW S, IsFiniteSet(S), \A x \in S : f[x] \in Nat
  PROVE  SumFunctionOnSet(f, S) \in Nat
<1>1. Nat \subseteq Int /\ 0 \in Nat /\ \A a, b \in Nat : a + b \in Nat
  OBVIOUS
<1>2. QED
  BY <1>1, SumWithin

LEMMA SumZero ==
  ASSUME NEW f, NEW S, IsFiniteSet(S), \A x \in S : f[x] = 0
  PROVE  SumFunctionOnSet(f, S) = 0
<1>1. {0} \subseteq Int /\ 0 \in {0} /\ \A a, b \in {0} : a + b \in {0}
  OBVIOUS
<1>2. \A x \in S : f[x] \in {0}
  OBVIOUS
<1>3. SumFunctionOnSet(f, S) \in {0}
  BY <1>1, <1>2, SumWithin
<1>4. QED
  BY <1>3

(* What a change at one point does to the sum.                             *)
LEMMA SumChanged ==
  ASSUME NEW f, NEW d, NEW S, IsFiniteSet(S), NEW x \in S,
         \A y \in S : f[y] \in Int /\ d[y] \in Int,
         \A y \in S : y # x => d[y] = f[y]
  PROVE  SumFunctionOnSet(d, S) = SumFunctionOnSet(f, S) - f[x] + d[x]
<1> DEFINE R == S \ {x}
           a == SumFunctionOnSet(f, R)
           b == SumFunctionOnSet(d, R)
<1>1. IsFiniteSet(R)
  BY OneLess
<1>2. a \in Int
  BY <1>1, SumTake
<1>3. a = b
  BY <1>1, SumSame
<1>4. SumFunctionOnSet(f, S) = f[x] + a /\ SumFunctionOnSet(d, S) = d[x] + b
  BY SumTake
<1>5. f[x] \in Int /\ d[x] \in Int
  OBVIOUS
<1> HIDE DEF a, b
<1>6. QED
  BY <1>2, <1>3, <1>4, <1>5

LEMMA SumAtLeast ==
  ASSUME NEW f, NEW S, IsFiniteSet(S), \A y \in S : f[y] \in Nat, NEW x \in S
  PROVE  /\ SumFunctionOnSet(f, S) \in Nat
         /\ SumFunctionOnSet(f, S) >= f[x]
<1>1. IsFiniteSet(S \ {x})
  BY OneLess
<1>2. SumFunctionOnSet(f, S \ {x}) \in Nat
  BY <1>1, SumNat
<1>3. SumFunctionOnSet(f, S) = f[x] + SumFunctionOnSet(f, S \ {x})
  BY SumTake
<1>4. f[x] \in Nat
  OBVIOUS
<1>5. QED
  BY <1>2, <1>3, <1>4

-----------------------------------------------------------------------------
(* Sums over the places of a sequence.                                     *)
LEMMA SumLast ==
  ASSUME NEW n \in Nat, NEW f, NEW d,
         \A i \in 1..(n + 1) : d[i] \in Int, \A i \in 1..n : f[i] = d[i]
  PROVE  SumFunctionOnSet(d, 1..(n + 1)) = SumFunctionOnSet(f, 1..n) + d[n + 1]
<1>1. IsFiniteSet(1..n) /\ IsFiniteSet(1..(n + 1))
  BY FS_Interval
<1>2. (1..(n + 1)) \ {n + 1} = 1..n /\ n + 1 \in 1..(n + 1)
  OBVIOUS
<1>3. SumFunctionOnSet(d, 1..(n + 1)) = d[n + 1] + SumFunctionOnSet(d, (1..(n + 1)) \ {n + 1})
  BY <1>1, <1>2, SumTake
<1>4. SumFunctionOnSet(d, 1..n) = SumFunctionOnSet(f, 1..n)
  BY <1>1, SumSame
<1>5. SumFunctionOnSet(d, 1..n) \in Int
  <2>1. \A i \in 1..n : d[i] \in Int
    OBVIOUS
  <2>2. QED
    BY <1>1, <2>1, SumTake
<1>6. d[n + 1] \in Int
  BY <1>2
<1>7. SumFunctionOnSet(d, 1..(n + 1)) = d[n + 1] + SumFunctionOnSet(d, 1..n)
  BY <1>2, <1>3
<1>8. QED
  BY <1>4, <1>5, <1>6, <1>7

Shifted(f, d, n) == /\ \A i \in 1..(n + 1) : f[i] \in Int
                    /\ \A i \in 1..n : d[i] = f[i + 1]

LEMMA SumFirst ==
  ASSUME NEW k \in Nat, NEW f, NEW d, Shifted(f, d, k)
  PROVE  SumFunctionOnSet(f, 1..(k + 1)) = f[1] + SumFunctionOnSet(d, 1..k)
<1> DEFINE P(n, u, v) == SumFunctionOnSet(u, 1..(n + 1)) = u[1] + SumFunctionOnSet(v, 1..n)
           Bad == {n \in Nat : \E u, v : Shifted(u, v, n) /\ ~ P(n, u, v)}
<1>1. Bad = {}
  <2> SUFFICES ASSUME Bad # {} PROVE FALSE
    OBVIOUS
  <2>1. PICK n \in Bad : \A m \in Bad : n <= m
    <3> HIDE DEF Bad
    <3>1. Bad \subseteq Nat
      BY DEF Bad
    <3>2. QED
      BY <3>1, Smallest
  <2>2. PICK u, v : Shifted(u, v, n) /\ ~ P(n, u, v)
    OBVIOUS
  <2>3. n \in Nat
    OBVIOUS
  <2>4. CASE n = 0
    <3>1. \A i \in 1..(0 + 1) : u[i] \in Int
      BY <2>2, <2>4 DEF Shifted
    <3>2. SumFunctionOnSet(u, 1..(0 + 1)) = SumFunctionOnSet(u, 1..0) + u[0 + 1]
      BY <3>1, SumLast
    <3>3. SumFunctionOnSet(u, 1..0) = 0 /\ SumFunctionOnSet(v, 1..0) = 0
      <4>1. 1..0 = {}
        OBVIOUS
      <4>2. QED
        BY <4>1, SumEmpty
    <3>4. u[1] \in Int /\ 0 + 1 = 1
      BY <3>1
    <3>5. P(0, u, v)
      BY <3>2, <3>3, <3>4
    <3>6. QED
      BY <2>2, <2>4, <3>5
  <2>5. CASE n # 0
    <3>1. PICK m \in Nat : n = m + 1
      <4>1. n - 1 \in Nat /\ n = (n - 1) + 1
        BY <2>3, <2>5
      <4>2. QED
        BY <4>1
    <3>2. m \notin Bad
      <4> HIDE DEF Bad
      <4>1. ~ (n <= m)
        BY <3>1
      <4>2. QED
        BY <2>1, <4>1, Zenon
    <3>3. /\ \A i \in 1..(n + 1) : u[i] \in Int
          /\ \A i \in 1..n : v[i] = u[i + 1]
      BY <2>2 DEF Shifted
    <3>4. Shifted(u, v, m)
      BY <3>1, <3>3 DEF Shifted
    <3>5. P(m, u, v)
      BY <3>2, <3>4
    <3>6. SumFunctionOnSet(u, 1..(n + 1)) = SumFunctionOnSet(u, 1..n) + u[n + 1]
      BY <2>3, <3>3, SumLast
    <3>7. \A i \in 1..(m + 1) : v[i] \in Int
      BY <3>1, <3>3
    <3>8. SumFunctionOnSet(v, 1..(m + 1)) = SumFunctionOnSet(v, 1..m) + v[m + 1]
      BY <3>7, SumLast
    <3>9. v[m + 1] = u[n + 1] /\ u[n + 1] \in Int /\ u[1] \in Int
      BY <2>3, <3>1, <3>3
    <3>10. SumFunctionOnSet(v, 1..m) \in Int
      <4>1. \A i \in 1..m : v[i] \in Int
        BY <3>7
      <4>2. IsFiniteSet(1..m)
        BY FS_Interval
      <4>3. QED
        BY <4>1, <4>2, SumTake
    <3>11. SumFunctionOnSet(u, 1..n) = u[1] + SumFunctionOnSet(v, 1..m)
      BY <3>1, <3>5
    <3>12. P(n, u, v)
      BY <3>1, <3>6, <3>8, <3>9, <3>10, <3>11
    <3>13. QED
      BY <2>2, <3>12
  <2>6. QED
    BY <2>4, <2>5
<1>2. QED
  BY <1>1

-----------------------------------------------------------------------------
(* One packet at a time, and the flow control above HCI.                   *)

IntConn == [open : BOOLEAN, flowDisabled : BOOLEAN, outBufs : Int, queuedBufs : Int,
            fragmenting : BOOLEAN, remLen : Int, attOff : BOOLEAN, smpOff : BOOLEAN]
Sending == [h : Handles, len : Lens, back : {"idle", "flowAtt", "flowSmp"}]
Types == /\ conn \in [Handles -> IntConn]
         /\ availBufs \in Int
         /\ aclQueue \in Seq(Packet)
         /\ at \in Places
         /\ at \in {"start", "send"} => cur \in Sending
         /\ evt \in Counts
         /\ resumed \in SUBSET Handles
         /\ credit \in Int
         /\ rxQueue \in Seq(Event)

(* The connections with a packet cut into pieces.                          *)
Frag == {h \in Handles : conn[h].fragmenting}

(* At most one of them; and what a free buffer of the controller says of   *)
(* the packets that wait, at each place of the code.                       *)
CutInv ==
  /\ \A h \in Frag : conn[h].open
  /\ \A g, h \in Frag : g = h
  /\ at = "start" => availBufs > 0 /\ Frag = {} /\ aclQueue = <<>> /\ conn[cur.h].open
  /\ at = "send" /\ availBufs > 0 => Frag \subseteq {cur.h} /\ aclQueue = <<>>
  /\ at \in {"idle", "cmpl", "flowAtt", "flowSmp"} /\ availBufs > 0 => Frag = {} /\ aclQueue = <<>>

(* SMP is held up without HCI having flow off only until the callback of   *)
(* ATT for its connection is through.                                      *)
InFlowAtt == at = "flowAtt" \/ (at \in {"start", "send"} /\ cur.back = "flowAtt")
FlowInv ==
  /\ \A g, h \in resumed : g = h
  /\ \A h \in Handles :
       /\ conn[h].attOff = conn[h].flowDisabled
       /\ conn[h].smpOff => conn[h].flowDisabled \/ (h \in resumed /\ InFlowAtt)

IInv == Types /\ CutInv /\ FlowInv

LEMMA InitInv == Init => IInv
<1> SUFFICES ASSUME Init PROVE IInv
  OBVIOUS
<1> USE AclAssumption DEF Init
<1>1. Closed \in IntConn
  BY DEF Closed, IntConn
<1>2. NoCounts \in Counts
  BY DEF NoCounts, Counts
<1>3. Types
  BY <1>1, <1>2 DEF Types, Places
<1>4. \A h \in Handles : conn[h] = Closed
  OBVIOUS
<1>5. Frag = {}
  BY <1>4 DEF Frag, Closed
<1>6. CutInv
  BY <1>5 DEF CutInv
<1>7. FlowInv
  BY <1>4 DEF FlowInv, Closed
<1> QED BY <1>3, <1>6, <1>7 DEF IInv

(* What hciCoreSendAclData does to a connection.                           *)
LEMMA SendFacts ==
  ASSUME Types, NEW h \in Handles, NEW c \in IntConn, NEW n, NEW e, SendAclData(h, c, n, e)
  PROVE  /\ conn' \in [Handles -> IntConn] /\ availBufs' \in Int /\ rxQueue' = rxQueue
         /\ \A g \in Handles : g # h => conn'[g] = conn[g]
         /\ conn'[h].open = c.open /\ conn'[h].flowDisabled = c.flowDisabled
         /\ conn'[h].attOff = c.attOff /\ conn'[h].smpOff = c.smpOff
         /\ conn'[h].fragmenting => c.fragmenting
<1> DEFINE d == [c EXCEPT !.outBufs = @ + 1, !.fragmenting = @ /\ c.remLen # 0]
<1>1. /\ d \in IntConn
      /\ d.open = c.open /\ d.flowDisabled = c.flowDisabled /\ d.attOff = c.attOff
      /\ d.smpOff = c.smpOff /\ (d.fragmenting => c.fragmenting)
  <2>1. ASSUME NEW b \in BOOLEAN
        PROVE  LET r == [c EXCEPT !.outBufs = @ + 1, !.fragmenting = b]
               IN  /\ r \in IntConn
                   /\ r.open = c.open /\ r.flowDisabled = c.flowDisabled /\ r.attOff = c.attOff
                   /\ r.smpOff = c.smpOff /\ r.fragmenting = b
    <3>1. c.outBufs + 1 \in Int
      BY DEF IntConn
    <3>2. CASE b = TRUE
      BY <3>1, <3>2 DEF IntConn
    <3>3. CASE b = FALSE
      BY <3>1, <3>3 DEF IntConn
    <3> QED BY <3>2, <3>3
  <2> DEFINE b == c.fragmenting /\ c.remLen # 0
  <2>2. b \in BOOLEAN /\ (b => c.fragmenting)
    BY Zenon
  <2>3. d = [c EXCEPT !.outBufs = @ + 1, !.fragmenting = b]
    BY DEF IntConn
  <2> HIDE DEF b
  <2> QED BY <2>1, <2>2, <2>3
<1>2. conn' = [conn EXCEPT ![h] = d]
  BY DEF SendAclData
<1> HIDE DEF d
<1>3. /\ conn' \in [Handles -> IntConn] /\ conn'[h] = d
      /\ \A g \in Handles : g # h => conn'[g] = conn[g]
  BY <1>1, <1>2 DEF Types
<1>4. availBufs' \in Int /\ rxQueue' = rxQueue
  BY DEF SendAclData, Types
<1> QED BY <1>1, <1>3, <1>4

(* Another piece of the packet that is cut.                                *)
LEMMA ContinueFacts ==
  ASSUME Types, NEW h \in Handles, TxAclContinue(h)
  PROVE  /\ conn' \in [Handles -> IntConn] /\ availBufs' \in Int /\ rxQueue' = rxQueue
         /\ \A g \in Handles :
              /\ conn'[g].open = conn[g].open /\ conn'[g].flowDisabled = conn[g].flowDisabled
              /\ conn'[g].attOff = conn[g].attOff /\ conn'[g].smpOff = conn[g].smpOff
              /\ conn'[g].fragmenting => conn[g].fragmenting
<1> DEFINE n == MinLen(conn[h].remLen, BufSize)
           c == [conn[h] EXCEPT !.remLen = @ - n]
<1>1. conn[h] \in IntConn
  BY DEF Types
<1>2. n \in Int
  BY <1>1, AclAssumption DEF MinLen, IntConn
<1>3. SendAclData(h, c, n, lacks[h])
  BY DEF TxAclContinue
<1> HIDE DEF n
<1>4. /\ c \in IntConn
      /\ c.open = conn[h].open /\ c.flowDisabled = conn[h].flowDisabled
      /\ c.attOff = conn[h].attOff /\ c.smpOff = conn[h].smpOff
      /\ c.fragmenting = conn[h].fragmenting
  BY <1>1, <1>2 DEF IntConn
<1> HIDE DEF c
<1> QED BY <1>3, <1>4, SendFacts

(* The first piece of a packet.                                            *)
LEMMA StartFacts ==
  ASSUME Types, NEW h \in Handles, NEW len \in Lens, TxAclStart(h, len)
  PROVE  /\ conn' \in [Handles -> IntConn] /\ availBufs' \in Int /\ rxQueue' = rxQueue
         /\ \A g \in Handles :
              /\ conn'[g].open = conn[g].open /\ conn'[g].flowDisabled = conn[g].flowDisabled
              /\ conn'[g].attOff = conn[g].attOff /\ conn'[g].smpOff = conn[g].smpOff
              /\ g # h => conn'[g].fragmenting = conn[g].fragmenting
<1> DEFINE c == [conn[h] EXCEPT !.remLen = len - BufSize, !.fragmenting = TRUE]
<1>1. conn[h] \in IntConn
  BY DEF Types
<1>2. /\ c \in IntConn
      /\ c.open = conn[h].open /\ c.flowDisabled = conn[h].flowDisabled
      /\ c.attOff = conn[h].attOff /\ c.smpOff = conn[h].smpOff
  <2>1. len - BufSize \in Int
    BY AclAssumption
  <2> QED BY <1>1, <2>1 DEF IntConn
<1>3. \/ SendAclData(h, c, BufSize, len)
      \/ SendAclData(h, conn[h], len, len)
  BY DEF TxAclStart
<1> HIDE DEF c
<1>4. CASE SendAclData(h, c, BufSize, len)
  BY <1>2, <1>4, SendFacts
<1>5. CASE SendAclData(h, conn[h], len, len)
  BY <1>1, <1>5, SendFacts
<1> QED BY <1>3, <1>4, <1>5

-----------------------------------------------------------------------------
LEMMA NumFragsInt ==
  ASSUME NEW len \in Lens
  PROVE  NumFrags(len) \in Int
<1>1. BufSize \in Nat \ {0} /\ len \in Nat \ {0}
  BY AclAssumption
<1>2. len - 1 \in Nat
  BY <1>1
<1>3. (len - 1) \div BufSize \in Int
  BY <1>1, <1>2, SMT
<1> QED BY <1>3 DEF NumFrags

LEMMA CallSendInv ==
  ASSUME IInv, NEW h \in Handles, NEW len \in Lens, CallSend(h, len),
         at \in {"idle", "flowAtt", "flowSmp"}
  PROVE  IInv'
<1> USE DEF IInv
<1>1. /\ cur' = [h |-> h, len |-> len, back |-> at] /\ at' \in {"start", "send"}
      /\ conn' = conn /\ availBufs' = availBufs /\ rxQueue' = rxQueue
      /\ evt' = evt /\ resumed' = resumed /\ credit' = credit
      /\ conn[h].open
  BY DEF CallSend, radio
<1>2. cur' \in Sending /\ cur'.h = h /\ cur'.back = at
  BY <1>1 DEF Sending
<1>3. aclQueue' \in Seq(Packet)
  <2>1. [h |-> h, len |-> len] \in Packet
    BY DEF Packet
  <2>2. aclQueue' = aclQueue \/ aclQueue' = Append(aclQueue, [h |-> h, len |-> len])
    BY DEF CallSend
  <2> QED BY <2>1, <2>2, AppendProperties DEF Types
<1>4. Types'
  BY <1>1, <1>2, <1>3 DEF Types, Places
<1>5. Frag' = Frag
  BY <1>1 DEF Frag
<1>6. availBufs > 0 => Frag = {} /\ aclQueue = <<>>
  BY DEF CutInv
<1>7. /\ at' = "start" => availBufs > 0 /\ aclQueue' = <<>>
      /\ at' = "send" => ~ (availBufs > 0)
  BY <1>6 DEF CallSend
<1>8. CutInv'
  BY <1>1, <1>2, <1>5, <1>6, <1>7 DEF CutInv
<1>9. InFlowAtt => InFlowAtt'
  BY <1>1, <1>2 DEF InFlowAtt
<1>10. FlowInv'
  BY <1>1, <1>9 DEF FlowInv
<1> QED BY <1>4, <1>8, <1>10

LEMMA StartSendInv ==
  ASSUME IInv, StartSend
  PROVE  IInv'
<1> USE DEF IInv
<1>1. cur \in Sending /\ cur.h \in Handles /\ cur.len \in Lens
  BY DEF StartSend, Types, Sending
<1>2. TxAclStart(cur.h, cur.len)
  BY DEF StartSend
<1>3. /\ conn' \in [Handles -> IntConn] /\ availBufs' \in Int /\ rxQueue' = rxQueue
      /\ \A g \in Handles :
           /\ conn'[g].open = conn[g].open /\ conn'[g].flowDisabled = conn[g].flowDisabled
           /\ conn'[g].attOff = conn[g].attOff /\ conn'[g].smpOff = conn[g].smpOff
           /\ g # cur.h => conn'[g].fragmenting = conn[g].fragmenting
  BY <1>1, <1>2, StartFacts
<1>4. /\ at = "start" /\ at' = "send" /\ cur' = cur /\ aclQueue' = aclQueue
      /\ evt' = evt /\ resumed' = resumed /\ credit' = credit
  BY DEF StartSend
<1>5. Types'
  BY <1>1, <1>3, <1>4 DEF Types, Places
<1>6. Frag = {} /\ aclQueue = <<>> /\ conn[cur.h].open
  BY <1>4 DEF CutInv
<1>7. Frag' \subseteq {cur.h}
  BY <1>3, <1>6 DEF Frag
<1>8. CutInv'
  BY <1>1, <1>3, <1>4, <1>6, <1>7 DEF CutInv, Frag
<1>9. InFlowAtt' <=> InFlowAtt
  BY <1>4 DEF InFlowAtt
<1>10. FlowInv'
  BY <1>3, <1>4, <1>9 DEF FlowInv
<1> QED BY <1>5, <1>8, <1>10

LEMMA ContinueSendInv ==
  ASSUME IInv, ContinueSend
  PROVE  IInv'
<1> USE DEF IInv
<1>1. /\ at = "send" /\ at' = at /\ cur' = cur /\ aclQueue' = aclQueue
      /\ evt' = evt /\ resumed' = resumed /\ credit' = credit /\ availBufs > 0
      /\ TxAclContinue(cur.h)
  BY DEF ContinueSend
<1>2. cur \in Sending /\ cur.h \in Handles
  BY <1>1 DEF Types, Sending
<1>3. /\ conn' \in [Handles -> IntConn] /\ availBufs' \in Int /\ rxQueue' = rxQueue
      /\ \A g \in Handles :
           /\ conn'[g].open = conn[g].open /\ conn'[g].flowDisabled = conn[g].flowDisabled
           /\ conn'[g].attOff = conn[g].attOff /\ conn'[g].smpOff = conn[g].smpOff
           /\ conn'[g].fragmenting => conn[g].fragmenting
  BY <1>1, <1>2, ContinueFacts
<1>4. Types'
  BY <1>1, <1>2, <1>3 DEF Types
<1>5. Frag' \subseteq Frag
  BY <1>3 DEF Frag
<1>6. CutInv'
  BY <1>1, <1>3, <1>5 DEF CutInv, Frag
<1>7. InFlowAtt' <=> InFlowAtt
  BY <1>1 DEF InFlowAtt
<1>8. FlowInv'
  BY <1>1, <1>3, <1>7 DEF FlowInv
<1> QED BY <1>4, <1>6, <1>8

LEMMA FinishSendInv ==
  ASSUME IInv, FinishSend
  PROVE  IInv'
<1> USE DEF IInv
<1> DEFINE h == cur.h
           c == conn[h]
           q == c.queuedBufs + NumFrags(cur.len)
           off == q >= QueueHi /\ ~c.flowDisabled
           d == [c EXCEPT !.queuedBufs = q, !.flowDisabled = @ \/ off,
                          !.attOff = @ \/ off, !.smpOff = @ \/ off]
<1>1. /\ at = "send" /\ at' = cur.back /\ aclQueue' = aclQueue /\ availBufs' = availBufs
      /\ evt' = evt /\ resumed' = resumed /\ credit' = credit /\ rxQueue' = rxQueue
      /\ ~ (availBufs > 0 /\ conn[h].fragmenting)
      /\ conn' = [conn EXCEPT ![h] = d]
  BY DEF FinishSend, radio
<1>2. cur \in Sending /\ h \in Handles /\ cur.len \in Lens /\ cur.back \in {"idle", "flowAtt", "flowSmp"}
  BY <1>1 DEF Types, Sending
<1>3. c \in IntConn
  BY <1>2 DEF Types
<1>4. q \in Int
  <2>1. NumFrags(cur.len) \in Int
    BY <1>2, NumFragsInt
  <2> QED BY <1>3, <2>1 DEF IntConn
<1>5. off \in BOOLEAN
  BY Zenon
<1> HIDE DEF h, q, off
<1>6. /\ d \in IntConn /\ d.open = c.open /\ d.fragmenting = c.fragmenting
      /\ d.flowDisabled = (c.flowDisabled \/ off) /\ d.attOff = (c.attOff \/ off)
      /\ d.smpOff = (c.smpOff \/ off)
  <2>1. CASE off = TRUE
    BY <1>3, <1>4, <2>1 DEF IntConn
  <2>2. CASE off = FALSE
    BY <1>3, <1>4, <2>2 DEF IntConn
  <2> QED BY <1>5, <2>1, <2>2
<1> HIDE DEF d
<1>7. /\ conn' \in [Handles -> IntConn] /\ conn'[h] = d
      /\ \A g \in Handles : g # h => conn'[g] = conn[g]
  BY <1>1, <1>2, <1>6 DEF Types
<1>8. Types'
  BY <1>1, <1>2, <1>7 DEF Types, Places
<1>9. Frag' = Frag
  BY <1>6, <1>7 DEF Frag
<1>10. availBufs > 0 => Frag = {} /\ aclQueue = <<>>
  BY <1>1 DEF CutInv, Frag, h
<1>11. CutInv'
  <2>1. \A g \in Frag' : conn'[g].open
    BY <1>6, <1>7, <1>9 DEF CutInv, Frag
  <2> QED BY <1>1, <1>2, <1>9, <1>10, <2>1 DEF CutInv
<1>12. InFlowAtt' <=> InFlowAtt
  BY <1>1, <1>2 DEF InFlowAtt
<1>13. FlowInv'
  BY <1>1, <1>6, <1>7, <1>12 DEF FlowInv
<1> QED BY <1>8, <1>11, <1>13

LEMMA TxReadyInv ==
  ASSUME IInv, TxReady
  PROVE  IInv'
<1> USE DEF IInv
<1>1. /\ at = "txReady" /\ cur' = cur /\ evt' = evt /\ resumed' = resumed /\ credit' = credit
  BY DEF TxReady
<1>2. ~ InFlowAtt
  BY <1>1 DEF InFlowAtt
<1>3. Fragmenting = Frag
  BY DEF Fragmenting, Frag, CutInv
<1>4. ASSUME NEW h \in Fragmenting, TxAclContinue(h), UNCHANGED <<aclQueue, at>>
      PROVE  IInv'
  <2>1. h \in Handles
    BY DEF Fragmenting
  <2>2. /\ conn' \in [Handles -> IntConn] /\ availBufs' \in Int /\ rxQueue' = rxQueue
        /\ \A g \in Handles :
             /\ conn'[g].open = conn[g].open /\ conn'[g].flowDisabled = conn[g].flowDisabled
             /\ conn'[g].attOff = conn[g].attOff /\ conn'[g].smpOff = conn[g].smpOff
             /\ conn'[g].fragmenting => conn[g].fragmenting
    BY <1>4, <2>1, ContinueFacts
  <2>3. Types'
    BY <1>1, <1>4, <2>2 DEF Types
  <2>4. Frag' \subseteq Frag
    BY <2>2 DEF Frag
  <2>5. CutInv'
    BY <1>1, <1>4, <2>2, <2>4 DEF CutInv, Frag
  <2>6. FlowInv'
    BY <1>1, <1>2, <2>2 DEF FlowInv
  <2> QED BY <2>3, <2>5, <2>6
<1>5. ASSUME Fragmenting = {}, aclQueue # <<>>, aclQueue' = Tail(aclQueue), UNCHANGED at,
             IF conn[Head(aclQueue).h].open
             THEN TxAclStart(Head(aclQueue).h, Head(aclQueue).len)
             ELSE UNCHANGED <<conn, availBufs, radio>>
      PROVE  IInv'
  <2> DEFINE p == Head(aclQueue)
  <2>1. p \in Packet /\ aclQueue' \in Seq(Packet)
    BY <1>5 DEF Types
  <2>2. p.h \in Handles /\ p.len \in Lens
    BY <2>1 DEF Packet
  <2>3. CASE conn[p.h].open
    <3>1. TxAclStart(p.h, p.len)
      BY <1>5, <2>3
    <3> HIDE DEF p
    <3>2. /\ conn' \in [Handles -> IntConn] /\ availBufs' \in Int /\ rxQueue' = rxQueue
          /\ \A g \in Handles :
               /\ conn'[g].open = conn[g].open /\ conn'[g].flowDisabled = conn[g].flowDisabled
               /\ conn'[g].attOff = conn[g].attOff /\ conn'[g].smpOff = conn[g].smpOff
               /\ g # p.h => conn'[g].fragmenting = conn[g].fragmenting
      BY <2>2, <3>1, StartFacts
    <3>3. Types'
      BY <1>1, <1>5, <2>1, <3>2 DEF Types
    <3>4. Frag' \subseteq {p.h}
      BY <1>3, <1>5, <3>2 DEF Frag
    <3>5. CutInv'
      BY <1>1, <1>5, <2>2, <2>3, <3>2, <3>4 DEF CutInv, Frag
    <3>6. FlowInv'
      BY <1>1, <1>2, <3>2 DEF FlowInv
    <3> QED BY <3>3, <3>5, <3>6
  <2>4. CASE ~ conn[p.h].open
    <3>1. conn' = conn /\ availBufs' = availBufs /\ rxQueue' = rxQueue
      BY <1>5, <2>4 DEF radio
    <3> HIDE DEF p
    <3>2. Types'
      BY <1>1, <1>5, <2>1, <3>1 DEF Types
    <3>3. Frag' = Frag
      BY <3>1 DEF Frag
    <3>4. CutInv'
      BY <1>1, <1>5, <3>1, <3>3 DEF CutInv
    <3>5. FlowInv'
      BY <1>1, <1>2, <3>1 DEF FlowInv
    <3> QED BY <3>2, <3>4, <3>5
  <2> QED BY <2>3, <2>4
<1>6. ASSUME availBufs = 0 \/ (Fragmenting = {} /\ aclQueue = <<>>), at' = "idle",
             UNCHANGED <<conn, availBufs, aclQueue, radio>>
      PROVE  IInv'
  <2>1. rxQueue' = rxQueue
    BY <1>6 DEF radio
  <2>2. Types'
    BY <1>1, <1>6, <2>1 DEF Types, Places
  <2>3. Frag' = Frag
    BY <1>6 DEF Frag
  <2>4. CutInv'
    BY <1>3, <1>6, <2>3 DEF CutInv
  <2>5. FlowInv'
    BY <1>1, <1>2, <1>6 DEF FlowInv
  <2> QED BY <2>2, <2>4, <2>5
<1> QED BY <1>4, <1>5, <1>6 DEF TxReady

LEMMA EventsInv ==
  ASSUME IInv, ConnOpen \/ ConnClose
  PROVE  IInv'
<1> USE DEF IInv
<1> DEFINE h == Head(rxQueue).h
<1>1. /\ at = "idle" /\ rxQueue # <<>> /\ Head(rxQueue).type \in {"open", "close"}
      /\ rxQueue' = Tail(rxQueue) /\ aclQueue' = aclQueue
      /\ cur' = cur /\ evt' = evt /\ resumed' = resumed /\ credit' = credit
  BY DEF ConnOpen, ConnClose, NextIs
<1>2. Head(rxQueue) \in Event /\ rxQueue' \in Seq(Event)
  BY <1>1 DEF Types
<1>3. h \in Handles
  BY <1>1, <1>2 DEF Event
<1> HIDE DEF h
<1>4. ~ InFlowAtt
  BY <1>1 DEF InFlowAtt
<1>5. CASE ConnOpen
  <2> DEFINE c == [Closed EXCEPT !.open = TRUE]
  <2>1. /\ c \in IntConn /\ c.fragmenting = FALSE
        /\ c.attOff = FALSE /\ c.smpOff = FALSE /\ c.flowDisabled = FALSE
    <3>1. /\ Closed \in IntConn /\ Closed.fragmenting = FALSE
          /\ Closed.attOff = FALSE /\ Closed.smpOff = FALSE /\ Closed.flowDisabled = FALSE
      BY DEF Closed, IntConn
    <3> QED BY <3>1 DEF IntConn
  <2>2. conn' = [conn EXCEPT ![h] = c] /\ availBufs' = availBufs /\ at' = at
    BY <1>5 DEF ConnOpen, h
  <2> HIDE DEF c
  <2>3. /\ conn' \in [Handles -> IntConn] /\ conn'[h] = c
        /\ \A g \in Handles : g # h => conn'[g] = conn[g]
    BY <1>3, <2>1, <2>2 DEF Types
  <2>4. Types'
    BY <1>1, <1>2, <2>2, <2>3 DEF Types
  <2>5. Frag' \subseteq Frag /\ \A g \in Frag' : conn'[g] = conn[g]
    BY <2>1, <2>3 DEF Frag
  <2>6. CutInv'
    BY <1>1, <2>2, <2>5 DEF CutInv
  <2>7. FlowInv'
    BY <1>1, <1>4, <2>1, <2>3 DEF FlowInv
  <2> QED BY <2>4, <2>6, <2>7
<1>6. CASE ConnClose
  <2>1. /\ Closed \in IntConn /\ Closed.fragmenting = FALSE
        /\ Closed.attOff = FALSE /\ Closed.smpOff = FALSE /\ Closed.flowDisabled = FALSE
    BY DEF Closed, IntConn
  <2>2. /\ conn' = [conn EXCEPT ![h] = Closed] /\ at' = "txReady"
        /\ availBufs' = MinLen(availBufs + conn[h].outBufs, NumBufs)
    BY <1>6 DEF ConnClose, h
  <2>3. /\ conn' \in [Handles -> IntConn] /\ conn'[h] = Closed
        /\ \A g \in Handles : g # h => conn'[g] = conn[g]
    BY <1>3, <2>1, <2>2 DEF Types
  <2>4. availBufs' \in Int
    BY <1>3, <2>2, AclAssumption DEF MinLen, Types, IntConn
  <2>5. Types'
    BY <1>1, <1>2, <2>2, <2>3, <2>4 DEF Types, Places
  <2>6. Frag' \subseteq Frag /\ \A g \in Frag' : conn'[g] = conn[g]
    BY <2>1, <2>3 DEF Frag
  <2>7. CutInv'
    BY <1>1, <2>2, <2>6 DEF CutInv
  <2>8. FlowInv'
    BY <1>1, <1>4, <2>1, <2>3 DEF FlowInv
  <2> QED BY <2>5, <2>7, <2>8
<1> QED BY <1>5, <1>6

LEMMA CmplHandleInv ==
  ASSUME IInv, CmplHandle
  PROVE  IInv'
<1> USE DEF IInv
<1>1. /\ at = "cmpl" /\ availBufs' = availBufs /\ aclQueue' = aclQueue /\ cur' = cur
      /\ rxQueue' = rxQueue
  BY DEF CmplHandle, radio
<1>2. PICK h \in Handles :
        /\ evt' = [evt EXCEPT ![h] = 0]
        /\ IF conn[h].open
           THEN LET c  == [conn[h] EXCEPT !.outBufs = @ - evt[h], !.queuedBufs = @ - evt[h]]
                    on == c.flowDisabled /\ c.queuedBufs <= QueueLo
                IN  /\ credit' = credit + evt[h]
                    /\ conn' = [conn EXCEPT ![h] = IF on THEN [c EXCEPT !.flowDisabled = FALSE,
                                                                        !.attOff = FALSE]
                                                         ELSE c]
                    /\ at' = IF on THEN "flowAtt" ELSE "cmpl"
                    /\ resumed' = IF on THEN {h} ELSE {}
           ELSE UNCHANGED <<conn, credit, at, resumed>>
  BY DEF CmplHandle
<1>3. evt' \in Counts /\ evt[h] \in Int
  BY <1>2, AclAssumption DEF Types, Counts
<1>4. ~ InFlowAtt
  BY <1>1 DEF InFlowAtt
<1>5. CASE ~ conn[h].open
  <2>1. conn' = conn /\ credit' = credit /\ at' = at /\ resumed' = resumed
    BY <1>2, <1>5
  <2>2. Types'
    BY <1>1, <1>3, <2>1 DEF Types
  <2>3. Frag' = Frag
    BY <2>1 DEF Frag
  <2>4. CutInv'
    BY <1>1, <2>1, <2>3 DEF CutInv
  <2>5. FlowInv'
    BY <1>4, <2>1 DEF FlowInv
  <2> QED BY <2>2, <2>4, <2>5
<1>6. CASE conn[h].open
  <2> DEFINE c  == [conn[h] EXCEPT !.outBufs = @ - evt[h], !.queuedBufs = @ - evt[h]]
             on == c.flowDisabled /\ c.queuedBufs <= QueueLo
             d  == IF on THEN [c EXCEPT !.flowDisabled = FALSE, !.attOff = FALSE] ELSE c
  <2>1. /\ credit' = credit + evt[h]
        /\ conn' = [conn EXCEPT ![h] = d]
        /\ at' = IF on THEN "flowAtt" ELSE "cmpl"
        /\ resumed' = IF on THEN {h} ELSE {}
    BY <1>2, <1>6
  <2>2. conn[h] \in IntConn
    BY DEF Types
  <2>3. /\ c \in IntConn /\ c.open = conn[h].open /\ c.fragmenting = conn[h].fragmenting
        /\ c.flowDisabled = conn[h].flowDisabled /\ c.attOff = conn[h].attOff
        /\ c.smpOff = conn[h].smpOff
    <3>1. conn[h].outBufs - evt[h] \in Int /\ conn[h].queuedBufs - evt[h] \in Int
      BY <1>3, <2>2 DEF IntConn
    <3> QED BY <2>2, <3>1 DEF IntConn
  <2> HIDE DEF c, on
  <2>4. /\ d \in IntConn /\ d.open = c.open /\ d.fragmenting = c.fragmenting
        /\ d.smpOff = c.smpOff
        /\ on => d.attOff = FALSE /\ d.flowDisabled = FALSE
        /\ ~ on => d = c
    BY <2>3 DEF IntConn
  <2> HIDE DEF d
  <2>5. /\ conn' \in [Handles -> IntConn] /\ conn'[h] = d
        /\ \A g \in Handles : g # h => conn'[g] = conn[g]
    BY <2>1, <2>4 DEF Types
  <2>6. credit' \in Int
    BY <1>3, <2>1 DEF Types
  <2>7. at' \in {"cmpl", "flowAtt"} /\ resumed' \subseteq {h}
    BY <2>1
  <2>8. Types'
    BY <1>1, <1>3, <2>5, <2>6, <2>7 DEF Types, Places
  <2>9. Frag' = Frag /\ \A g \in Frag : conn'[g].open = conn[g].open
    BY <2>3, <2>4, <2>5 DEF Frag
  <2>10. CutInv'
    BY <1>1, <2>7, <2>9 DEF CutInv
  <2>11. \A g \in Handles : g # h => /\ conn'[g].attOff = conn'[g].flowDisabled
                                     /\ conn'[g].smpOff => conn'[g].flowDisabled
    BY <1>4, <2>5 DEF FlowInv
  <2>12. conn'[h].attOff = conn'[h].flowDisabled
    BY <2>3, <2>4, <2>5 DEF FlowInv
  <2>13. ASSUME on PROVE FlowInv'
    <3>1. at' = "flowAtt" /\ resumed' = {h}
      BY <2>1, <2>13
    <3>2. InFlowAtt'
      BY <3>1 DEF InFlowAtt
    <3> QED BY <2>11, <2>12, <3>1, <3>2 DEF FlowInv
  <2>14. ASSUME ~ on PROVE FlowInv'
    <3>1. conn'[h].smpOff => conn'[h].flowDisabled
      BY <1>4, <2>3, <2>4, <2>5, <2>14 DEF FlowInv
    <3> QED BY <2>7, <2>11, <2>12, <3>1 DEF FlowInv
  <2>15. FlowInv'
    BY <2>13, <2>14
  <2> QED BY <2>8, <2>10, <2>15
<1> QED BY <1>5, <1>6

(* The callbacks through: SMP is told.                                     *)
LEMMA FlowAttInv ==
  ASSUME IInv, FlowAtt
  PROVE  IInv'
<1> USE DEF IInv
<1>1. at = "flowAtt"
  BY DEF FlowAtt
<1>2. PICK h \in resumed :
        \/ \E len \in Lens : CallSend(h, len)
        \/ /\ at' = "flowSmp"
           /\ conn' = [conn EXCEPT ![h].smpOff = FALSE]
           /\ UNCHANGED <<availBufs, aclQueue, cur, evt, resumed, credit, radio>>
  BY DEF FlowAtt
<1>3. h \in Handles
  BY DEF Types
<1>4. CASE \E len \in Lens : CallSend(h, len)
  BY <1>1, <1>3, <1>4, CallSendInv
<1>5. ASSUME at' = "flowSmp", conn' = [conn EXCEPT ![h].smpOff = FALSE],
             UNCHANGED <<availBufs, aclQueue, cur, evt, resumed, credit, radio>>
      PROVE  IInv'
  <2> DEFINE d == [conn[h] EXCEPT !.smpOff = FALSE]
  <2>1. /\ d \in IntConn /\ d.open = conn[h].open /\ d.fragmenting = conn[h].fragmenting
        /\ d.attOff = conn[h].attOff /\ d.flowDisabled = conn[h].flowDisabled /\ d.smpOff = FALSE
    BY <1>3 DEF Types, IntConn
  <2>2. conn' = [conn EXCEPT ![h] = d]
    BY <1>5
  <2> HIDE DEF d
  <2>3. /\ conn' \in [Handles -> IntConn] /\ conn'[h] = d
        /\ \A g \in Handles : g # h => conn'[g] = conn[g]
    BY <1>3, <2>1, <2>2 DEF Types
  <2>4. rxQueue' = rxQueue
    BY <1>5 DEF radio
  <2>5. Types'
    BY <1>5, <2>3, <2>4 DEF Types, Places
  <2>6. Frag' = Frag /\ \A g \in Frag : conn'[g].open = conn[g].open
    BY <2>1, <2>3 DEF Frag
  <2>7. CutInv'
    BY <1>1, <1>5, <2>6 DEF CutInv
  <2>8. \A g \in Handles : g # h => (conn'[g].smpOff => conn'[g].flowDisabled)
    BY <2>3 DEF FlowInv
  <2>9. \A g \in Handles : conn'[g].attOff = conn'[g].flowDisabled
    BY <2>1, <2>3 DEF FlowInv
  <2>10. FlowInv'
    BY <1>5, <2>1, <2>3, <2>8, <2>9 DEF FlowInv
  <2> QED BY <2>5, <2>7, <2>10
<1> QED BY <1>2, <1>4, <1>5

(* Steps that change neither a connection nor what waits to be sent.       *)
LEMMA OtherStepsInv ==
  ASSUME IInv, conn' = conn, aclQueue' = aclQueue, cur' = cur,
         at' \in Places, evt' \in Counts, resumed' \in SUBSET resumed,
         credit' \in Int, availBufs' \in Int, rxQueue' \in Seq(Event),
         at' # "txReady" => availBufs' = availBufs,
         at' # at => at' \notin {"start", "send", "flowAtt"} /\ ~ InFlowAtt,
         at' # at /\ at' # "txReady" => at \in {"idle", "cmpl", "flowSmp"},
         resumed' = resumed \/ ~ InFlowAtt
  PROVE  IInv'
<1> USE DEF IInv
<1>1. Types'
  BY DEF Types
<1>2. Frag' = Frag
  BY DEF Frag
<1>3. CutInv'
  BY <1>2 DEF CutInv, Places
<1>4. InFlowAtt => InFlowAtt'
  BY DEF InFlowAtt
<1>5. FlowInv'
  BY <1>4 DEF FlowInv
<1> QED BY <1>1, <1>3, <1>5

LEMMA NextInv == IInv /\ [Next]_vars => IInv'
<1> SUFFICES ASSUME IInv, [Next]_vars PROVE IInv'
  OBVIOUS
<1> USE DEF IInv
<1>1. CASE Send
  BY <1>1, CallSendInv DEF Send
<1>2. CASE StartSend
  BY <1>2, StartSendInv
<1>3. CASE ContinueSend
  BY <1>3, ContinueSendInv
<1>4. CASE FinishSend
  BY <1>4, FinishSendInv
<1>5. CASE TxReady
  BY <1>5, TxReadyInv
<1>6. CASE ConnOpen \/ ConnClose
  BY <1>6, EventsInv
<1>7. CASE NumCmplPkts
  <2>1. Head(rxQueue) \in Event /\ Head(rxQueue).type = "cmpl" /\ Tail(rxQueue) \in Seq(Event)
    BY <1>7 DEF NumCmplPkts, NextIs, Types
  <2>2. Head(rxQueue).n \in Counts
    BY <2>1 DEF Event
  <2>3. /\ conn' = conn /\ aclQueue' = aclQueue /\ availBufs' = availBufs /\ cur' = cur
        /\ at = "idle" /\ at' = "cmpl" /\ evt' = Head(rxQueue).n /\ credit' = 0
        /\ resumed' = resumed /\ rxQueue' = Tail(rxQueue)
    BY <1>7 DEF NumCmplPkts, NextIs, core
  <2>4. ~ InFlowAtt
    BY <2>3 DEF InFlowAtt
  <2> QED BY <2>1, <2>2, <2>3, <2>4, OtherStepsInv DEF Types, Places
<1>8. CASE CmplHandle
  BY <1>8, CmplHandleInv
<1>9. CASE FlowAtt
  BY <1>9, FlowAttInv
<1>10. CASE FlowSmp
  <2>1. CASE \E h \in resumed, len \in Lens : CallSend(h, len)
    <3>1. at = "flowSmp"
      BY <1>10 DEF FlowSmp
    <3> QED BY <2>1, <3>1, CallSendInv DEF Types
  <2>2. CASE ~ \E h \in resumed, len \in Lens : CallSend(h, len)
    <3>1. /\ conn' = conn /\ aclQueue' = aclQueue /\ availBufs' = availBufs /\ cur' = cur
          /\ at = "flowSmp" /\ at' = "cmpl" /\ evt' = evt /\ credit' = credit
          /\ resumed' = {} /\ rxQueue' = rxQueue
      BY <1>10, <2>2 DEF FlowSmp, core, radio
    <3>2. ~ InFlowAtt
      BY <3>1 DEF InFlowAtt
    <3> QED BY <3>1, <3>2, OtherStepsInv DEF Types, Places
  <2> QED BY <2>1, <2>2
<1>11. CASE CmplDone
  <2>1. /\ conn' = conn /\ aclQueue' = aclQueue /\ cur' = cur
        /\ at = "cmpl" /\ at' = "txReady" /\ evt' = evt /\ credit' = 0
        /\ resumed' = resumed /\ rxQueue' = rxQueue
        /\ availBufs' = MinLen(availBufs + credit, NumBufs)
    BY <1>11 DEF CmplDone, radio
  <2>2. availBufs' \in Int
    BY <2>1, AclAssumption DEF MinLen, Types
  <2>3. ~ InFlowAtt
    BY <2>1 DEF InFlowAtt
  <2> QED BY <2>1, <2>2, <2>3, OtherStepsInv DEF Types, Places
<1>12. CASE Controller
  <2>1. /\ UNCHANGED <<core, at, cur, evt, resumed, credit>>
        /\ \E e \in Event : rxQueue' = Append(rxQueue, e)
    <3>1. CASE \E h \in Handles : CtlOpen(h) \/ CtlClose(h)
      BY <3>1 DEF CtlOpen, CtlClose, Event
    <3>2. CASE \E n \in Counts : CtlComplete(n)
      BY <3>2 DEF CtlComplete, Event
    <3> QED BY <1>12, <3>1, <3>2 DEF Controller
  <2>2. /\ conn' = conn /\ aclQueue' = aclQueue /\ availBufs' = availBufs /\ cur' = cur
        /\ at' = at /\ evt' = evt /\ credit' = credit /\ resumed' = resumed
    BY <2>1 DEF core
  <2>3. rxQueue' \in Seq(Event)
    BY <2>1 DEF Types
  <2> QED BY <2>2, <2>3, OtherStepsInv DEF Types
<1>13. CASE UNCHANGED vars
  <2>1. /\ conn' = conn /\ aclQueue' = aclQueue /\ availBufs' = availBufs /\ cur' = cur
        /\ at' = at /\ evt' = evt /\ credit' = credit /\ resumed' = resumed /\ rxQueue' = rxQueue
    BY <1>13 DEF vars, core, radio
  <2> QED BY <2>1, OtherStepsInv DEF Types
<1> QED
  BY <1>1, <1>2, <1>3, <1>4, <1>5, <1>6, <1>7, <1>8, <1>9, <1>10, <1>11, <1>12, <1>13
  DEF Next, Host

LEMMA Invariant == Spec => []IInv
BY InitInv, NextInv, PTL DEF Spec

(* A packet is cut into pieces while no other is: the assertion of         *)
(* hciCoreTxAclStart holds, and a free buffer leaves nothing waiting.      *)
THEOREM OneAtATime == Spec => []OneCutAtATime
<1>1. IInv => OneCutAtATime
  <2> SUFFICES ASSUME IInv PROVE OneCutAtATime
    OBVIOUS
  <2>1. Fragmenting = Frag
    BY DEF Fragmenting, Frag, IInv, CutInv
  <2>2. at = "start" => ~ conn[cur.h].fragmenting
    <3> SUFFICES ASSUME at = "start" PROVE ~ conn[cur.h].fragmenting
      OBVIOUS
    <3>1. cur.h \in Handles
      BY DEF IInv, Types, Sending
    <3> QED BY <3>1 DEF IInv, CutInv, Frag
  <2> QED BY <2>1, <2>2 DEF IInv, CutInv, OneCutAtATime
<1> QED BY <1>1, Invariant, PTL

(* The flow control of ATT and of SMP follows that of HCI through every    *)
(* nesting of the callbacks and the sends they make.                       *)
THEOREM NoneHeldUp == Spec => []NobodyHeldUp
<1>1. IInv => NobodyHeldUp
  <2> SUFFICES ASSUME IInv, at \notin {"flowAtt", "flowSmp"},
                      cur = NoPacket \/ cur.back = "idle"
               PROVE  \A h \in Handles : conn[h].open =>
                        /\ conn[h].attOff = conn[h].flowDisabled
                        /\ conn[h].smpOff => conn[h].flowDisabled
    BY DEF NobodyHeldUp
  <2>1. cur.back = "idle"
    BY DEF NoPacket
  <2>2. ~ InFlowAtt
    BY <2>1 DEF InFlowAtt
  <2> QED BY <2>2 DEF IInv, FlowInv
<1> QED BY <1>1, Invariant, PTL

-----------------------------------------------------------------------------
(* Sums over the places of a queue.                                        *)

LEMMA SumOfLonger ==
  ASSUME NEW T, NEW q \in Seq(T), NEW e \in T, NEW f, NEW d,
         DOMAIN f = DOMAIN q, DOMAIN d = DOMAIN Append(q, e),
         \A i \in DOMAIN d : d[i] \in Int, \A i \in DOMAIN q : f[i] = d[i]
  PROVE  SumFunction(d) = SumFunction(f) + d[Len(q) + 1]
<1>1. DOMAIN q = 1..Len(q) /\ DOMAIN Append(q, e) = 1..(Len(q) + 1) /\ Len(q) \in Nat
  BY AppendProperties, LenProperties
<1>2. SumFunctionOnSet(d, 1..(Len(q) + 1)) = SumFunctionOnSet(f, 1..Len(q)) + d[Len(q) + 1]
  BY <1>1, SumLast
<1> QED BY <1>1, <1>2 DEF SumFunction

LEMMA SumOfTail ==
  ASSUME NEW T, NEW q \in Seq(T), q # <<>>, NEW f, NEW d,
         DOMAIN f = DOMAIN q, DOMAIN d = DOMAIN Tail(q),
         \A i \in DOMAIN q : f[i] \in Int, \A i \in DOMAIN Tail(q) : d[i] = f[i + 1]
  PROVE  SumFunction(f) = f[1] + SumFunction(d)
<1>1. /\ DOMAIN q = 1..Len(q) /\ DOMAIN Tail(q) = 1..(Len(q) - 1)
      /\ Len(q) \in Nat /\ Len(q) # 0
  BY HeadTailProperties, LenProperties, EmptySeq
<1>2. PICK k \in Nat : Len(q) = k + 1
  <2>1. Len(q) - 1 \in Nat /\ Len(q) = (Len(q) - 1) + 1
    BY <1>1
  <2> QED BY <2>1
<1>3. DOMAIN q = 1..(k + 1) /\ DOMAIN Tail(q) = 1..k
  BY <1>1, <1>2
<1>4. Shifted(f, d, k)
  BY <1>3 DEF Shifted
<1> QED BY <1>3, <1>4, SumFirst DEF SumFunction

-----------------------------------------------------------------------------
(* The completions that are on their way, and the packets that wait.       *)

Coming(q, h) == SumFunction([i \in DOMAIN q |-> Completed(q[i], h)])

LEMMA CompletedNat ==
  ASSUME NEW e \in Event, NEW h \in Handles
  PROVE  Completed(e, h) \in Nat
BY AclAssumption DEF Completed, Event, Counts

LEMMA ComingNat ==
  ASSUME NEW q \in Seq(Event), NEW h \in Handles
  PROVE  Coming(q, h) \in Nat
<1> DEFINE f == [i \in DOMAIN q |-> Completed(q[i], h)]
<1>1. \A i \in DOMAIN q : f[i] \in Nat
  <2>1. \A i \in DOMAIN q : q[i] \in Event
    BY ElementOfSeq
  <2> QED BY <2>1, CompletedNat
<1>2. IsFiniteSet(DOMAIN q) /\ DOMAIN f = DOMAIN q
  BY FS_Interval, LenProperties
<1> HIDE DEF f
<1>3. SumFunctionOnSet(f, DOMAIN q) \in Nat
  BY <1>1, <1>2, SumNat
<1> QED BY <1>2, <1>3 DEF Coming, SumFunction, f

LEMMA ComingAppend ==
  ASSUME NEW q \in Seq(Event), NEW e \in Event, NEW h \in Handles
  PROVE  Coming(Append(q, e), h) = Coming(q, h) + Completed(e, h)
<1> DEFINE r == Append(q, e)
           f == [i \in DOMAIN q |-> Completed(q[i], h)]
           d == [i \in DOMAIN r |-> Completed(r[i], h)]
<1>1. /\ r \in Seq(Event) /\ DOMAIN f = DOMAIN q /\ DOMAIN d = DOMAIN r
      /\ Len(q) + 1 \in DOMAIN r /\ r[Len(q) + 1] = e
      /\ \A i \in DOMAIN q : i \in DOMAIN r /\ r[i] = q[i]
  BY AppendProperties, LenProperties
<1>2. \A i \in DOMAIN d : d[i] \in Int
  <2>1. \A i \in DOMAIN r : r[i] \in Event
    BY <1>1, ElementOfSeq
  <2> QED BY <2>1, CompletedNat
<1>3. /\ \A i \in DOMAIN q : f[i] = d[i]
      /\ d[Len(q) + 1] = Completed(e, h)
  BY <1>1
<1> HIDE DEF f, d
<1>4. SumFunction(d) = SumFunction(f) + d[Len(q) + 1]
  BY <1>1, <1>2, <1>3, SumOfLonger
<1> QED BY <1>3, <1>4 DEF Coming, f, d

LEMMA ComingTail ==
  ASSUME NEW q \in Seq(Event), q # <<>>, NEW h \in Handles
  PROVE  Coming(q, h) = Completed(Head(q), h) + Coming(Tail(q), h)
<1> DEFINE r == Tail(q)
           f == [i \in DOMAIN q |-> Completed(q[i], h)]
           d == [i \in DOMAIN r |-> Completed(r[i], h)]
<1>1. /\ DOMAIN f = DOMAIN q /\ DOMAIN d = DOMAIN r
      /\ 1 \in DOMAIN q /\ q[1] = Head(q)
      /\ \A i \in DOMAIN r : i + 1 \in DOMAIN q /\ r[i] = q[i + 1]
  BY HeadTailProperties, LenProperties, EmptySeq
<1>2. \A i \in DOMAIN q : f[i] \in Int
  <2>1. \A i \in DOMAIN q : q[i] \in Event
    BY ElementOfSeq
  <2> QED BY <2>1, CompletedNat
<1>3. /\ \A i \in DOMAIN r : d[i] = f[i + 1]
      /\ f[1] = Completed(Head(q), h)
  BY <1>1
<1> HIDE DEF f, d
<1>4. SumFunction(f) = f[1] + SumFunction(d)
  BY <1>1, <1>2, <1>3, SumOfTail
<1> QED BY <1>3, <1>4 DEF Coming, f, d

LEMMA ComingZero ==
  ASSUME NEW q \in Seq(Event), NEW h \in Handles, \A i \in DOMAIN q : Completed(q[i], h) = 0
  PROVE  Coming(q, h) = 0
<1> DEFINE f == [i \in DOMAIN q |-> Completed(q[i], h)]
<1>1. IsFiniteSet(DOMAIN q) /\ DOMAIN f = DOMAIN q /\ \A i \in DOMAIN q : f[i] = 0
  BY FS_Interval, LenProperties
<1> HIDE DEF f
<1>2. SumFunctionOnSet(f, DOMAIN q) = 0
  BY <1>1, SumZero
<1> QED BY <1>1, <1>2 DEF Coming, SumFunction, f

(* The same of the packets of a connection in aclQueue.                    *)
Queued(q, h) == SumFunction([i \in DOMAIN q |-> Frags(q[i], h)])

LEMMA FragsInt ==
  ASSUME NEW p \in Packet, NEW h
  PROVE  Frags(p, h) \in Int
BY NumFragsInt DEF Frags, Packet

LEMMA QueuedInt ==
  ASSUME NEW q \in Seq(Packet), NEW h
  PROVE  Queued(q, h) \in Int
<1> DEFINE f == [i \in DOMAIN q |-> Frags(q[i], h)]
<1>1. \A i \in DOMAIN q : f[i] \in Int
  <2>1. \A i \in DOMAIN q : q[i] \in Packet
    BY ElementOfSeq
  <2> QED BY <2>1, FragsInt
<1>2. IsFiniteSet(DOMAIN q) /\ DOMAIN f = DOMAIN q
  BY FS_Interval, LenProperties
<1> HIDE DEF f
<1>3. SumFunctionOnSet(f, DOMAIN q) \in Int
  BY <1>1, <1>2, SumTake
<1> QED BY <1>2, <1>3 DEF Queued, SumFunction, f

LEMMA QueuedAppend ==
  ASSUME NEW q \in Seq(Packet), NEW p \in Packet, NEW h
  PROVE  Queued(Append(q, p), h) = Queued(q, h) + Frags(p, h)
<1> DEFINE r == Append(q, p)
           f == [i \in DOMAIN q |-> Frags(q[i], h)]
           d == [i \in DOMAIN r |-> Frags(r[i], h)]
<1>1. /\ r \in Seq(Packet) /\ DOMAIN f = DOMAIN q /\ DOMAIN d = DOMAIN r
      /\ Len(q) + 1 \in DOMAIN r /\ r[Len(q) + 1] = p
      /\ \A i \in DOMAIN q : i \in DOMAIN r /\ r[i] = q[i]
  BY AppendProperties, LenProperties
<1>2. \A i \in DOMAIN d : d[i] \in Int
  <2>1. \A i \in DOMAIN r : r[i] \in Packet
    BY <1>1, ElementOfSeq
  <2> QED BY <2>1, FragsInt
<1>3. /\ \A i \in DOMAIN q : f[i] = d[i]
      /\ d[Len(q) + 1] = Frags(p, h)
  BY <1>1
<1> HIDE DEF f, d
<1>4. SumFunction(d) = SumFunction(f) + d[Len(q) + 1]
  BY <1>1, <1>2, <1>3, SumOfLonger
<1> QED BY <1>3, <1>4 DEF Queued, f, d

LEMMA QueuedTail ==
  ASSUME NEW q \in Seq(Packet), q # <<>>, NEW h
  PROVE  Queued(q, h) = Frags(Head(q), h) + Queued(Tail(q), h)
<1> DEFINE r == Tail(q)
           f == [i \in DOMAIN q |-> Frags(q[i], h)]
           d == [i \in DOMAIN r |-> Frags(r[i], h)]
<1>1. /\ DOMAIN f = DOMAIN q /\ DOMAIN d = DOMAIN r
      /\ 1 \in DOMAIN q /\ q[1] = Head(q)
      /\ \A i \in DOMAIN r : i + 1 \in DOMAIN q /\ r[i] = q[i + 1]
  BY HeadTailProperties, LenProperties, EmptySeq
<1>2. \A i \in DOMAIN q : f[i] \in Int
  <2>1. \A i \in DOMAIN q : q[i] \in Packet
    BY ElementOfSeq
  <2> QED BY <2>1, FragsInt
<1>3. /\ \A i \in DOMAIN r : d[i] = f[i + 1]
      /\ f[1] = Frags(Head(q), h)
  BY <1>1
<1> HIDE DEF f, d
<1>4. SumFunction(f) = f[1] + SumFunction(d)
  BY <1>1, <1>2, <1>3, SumOfTail
<1> QED BY <1>3, <1>4 DEF Queued, f, d

LEMMA QueuedZero ==
  ASSUME NEW q \in Seq(Packet), NEW h, \A i \in DOMAIN q : q[i].h # h
  PROVE  Queued(q, h) = 0
<1> DEFINE f == [i \in DOMAIN q |-> Frags(q[i], h)]
<1>1. IsFiniteSet(DOMAIN q) /\ DOMAIN f = DOMAIN q
  BY FS_Interval, LenProperties
<1>2. \A i \in DOMAIN q : f[i] = 0
  BY DEF Frags
<1> HIDE DEF f
<1>3. SumFunctionOnSet(f, DOMAIN q) = 0
  BY <1>1, <1>2, SumZero
<1> QED BY <1>1, <1>3 DEF Queued, SumFunction, f

(* The buffers the connections hold.                                       *)
HeldBy(c) == SumFunction([h \in Handles |-> c[h].outBufs])

LEMMA HeldInt ==
  ASSUME NEW c \in [Handles -> IntConn]
  PROVE  HeldBy(c) \in Int
<1> DEFINE f == [h \in Handles |-> c[h].outBufs]
<1>1. DOMAIN f = Handles /\ IsFiniteSet(Handles) /\ \A h \in Handles : f[h] \in Int
  BY AclAssumption DEF IntConn
<1> HIDE DEF f
<1>2. SumFunctionOnSet(f, Handles) \in Int
  BY <1>1, SumTake
<1> QED BY <1>1, <1>2 DEF HeldBy, SumFunction, f

LEMMA HeldAtLeast ==
  ASSUME NEW c \in [Handles -> IntConn], \A g \in Handles : c[g].outBufs >= 0, NEW h \in Handles
  PROVE  HeldBy(c) >= c[h].outBufs
<1> DEFINE f == [g \in Handles |-> c[g].outBufs]
<1>1. /\ DOMAIN f = Handles /\ IsFiniteSet(Handles) /\ f[h] = c[h].outBufs
      /\ \A g \in Handles : f[g] \in Nat
  BY AclAssumption DEF IntConn
<1> HIDE DEF f
<1>2. SumFunctionOnSet(f, Handles) >= f[h]
  BY <1>1, SumAtLeast
<1> QED BY <1>1, <1>2 DEF HeldBy, SumFunction, f

LEMMA HeldChanged ==
  ASSUME NEW c \in [Handles -> IntConn], NEW d \in [Handles -> IntConn], NEW h \in Handles,
         \A g \in Handles : g # h => d[g].outBufs = c[g].outBufs
  PROVE  HeldBy(d) = HeldBy(c) - c[h].outBufs + d[h].outBufs
<1> DEFINE a == [g \in Handles |-> c[g].outBufs]
           b == [g \in Handles |-> d[g].outBufs]
<1>1. /\ DOMAIN a = Handles /\ DOMAIN b = Handles /\ IsFiniteSet(Handles)
      /\ a[h] = c[h].outBufs /\ b[h] = d[h].outBufs
      /\ \A g \in Handles : a[g] \in Int /\ b[g] \in Int
      /\ \A g \in Handles : g # h => b[g] = a[g]
  BY AclAssumption DEF IntConn
<1> HIDE DEF a, b
<1>2. SumFunctionOnSet(b, Handles) = SumFunctionOnSet(a, Handles) - a[h] + b[h]
  BY <1>1, SumChanged
<1> QED BY <1>1, <1>2 DEF HeldBy, SumFunction, a, b

LEMMA HeldSame ==
  ASSUME NEW c, NEW d, \A g \in Handles : d[g].outBufs = c[g].outBufs
  PROVE  HeldBy(d) = HeldBy(c)
<1>1. [g \in Handles |-> d[g].outBufs] = [g \in Handles |-> c[g].outBufs]
  OBVIOUS
<1> QED BY <1>1 DEF HeldBy

LEMMA HeldNone ==
  ASSUME NEW c, \A g \in Handles : c[g].outBufs = 0
  PROVE  HeldBy(c) = 0
<1> DEFINE f == [h \in Handles |-> c[h].outBufs]
<1>1. DOMAIN f = Handles /\ IsFiniteSet(Handles) /\ \A h \in Handles : f[h] = 0
  BY AclAssumption
<1> HIDE DEF f
<1>2. SumFunctionOnSet(f, Handles) = 0
  BY <1>1, SumZero
<1> QED BY <1>1, <1>2 DEF HeldBy, SumFunction, f

-----------------------------------------------------------------------------
(* Where the buffers of the controller are.                                *)

(* Handling an event of completions, with all that its callbacks call.     *)
InCmpl == \/ at \in {"cmpl", "flowAtt", "flowSmp"}
          \/ at \in {"start", "send"} /\ cur.back # "idle"

Is(e, type, h) == e.type = type /\ e.h = h

(* Of each connection the host has yet to hear at most of one opening and, *)
(* after it, of one loss, and of no completion after that.                 *)
LinkOk(q, h, open, linked) ==
  /\ \A i, j \in DOMAIN q : Is(q[i], "open", h) /\ Is(q[j], "open", h) => i = j
  /\ \A i, j \in DOMAIN q : Is(q[i], "close", h) /\ Is(q[j], "close", h) => i = j
  /\ \A i, j \in DOMAIN q : Is(q[i], "open", h) /\ Is(q[j], "close", h) => i < j
  /\ \A i, j \in DOMAIN q : Is(q[i], "close", h) /\ i < j => Completed(q[j], h) = 0
  /\ \A i \in DOMAIN q : Is(q[i], "open", h) => ~open
  /\ \A i \in DOMAIN q : Is(q[i], "close", h) =>
       ~linked /\ (open \/ \E j \in DOMAIN q : Is(q[j], "open", h))
  /\ linked => open \/ \E j \in DOMAIN q : Is(q[j], "open", h)

LinkInv == \A h \in Handles : LinkOk(rxQueue, h, conn[h].open, h \in link)

(* What a connection holds, what the controller has of it and the          *)
(* completions on their way.                                               *)
Share(open, linked, held, has, coming) ==
  /\ ~open => held = 0 /\ has = 0 /\ coming = 0
  /\ ~linked => has = 0
  /\ open => held >= has + coming
  /\ open /\ linked => held = has + coming
  /\ held >= 0 /\ has >= 0

CreditInv ==
  /\ ~InCmpl => evt = NoCounts /\ credit = 0
  /\ \A h \in Handles : Share(conn[h].open, h \in link, conn[h].outBufs, ctl[h],
                              evt[h] + Coming(rxQueue, h))
  /\ availBufs + HeldBy(conn) + credit = NumBufs
  /\ availBufs >= 0 /\ credit >= 0
  /\ ctl \in [Handles -> Int] /\ link \subseteq Handles

BInv == LinkInv /\ CreditInv

LEMMA BInit == Init => BInv
<1> SUFFICES ASSUME Init PROVE BInv
  OBVIOUS
<1>1. /\ \A h \in Handles : conn[h].outBufs = 0 /\ conn[h].open = FALSE
      /\ availBufs = NumBufs /\ credit = 0 /\ evt = NoCounts /\ link = {}
      /\ ctl = NoCounts /\ rxQueue = <<>> /\ NumBufs \in Nat
  BY AclAssumption DEF Init, Closed
<1>2. LinkInv
  BY <1>1 DEF LinkInv, LinkOk
<1>3. HeldBy(conn) = 0
  BY <1>1, HeldNone
<1>4. \A h \in Handles : Coming(rxQueue, h) = 0
  <2> DEFINE q == <<>>
  <2>1. q \in Seq(Event) /\ DOMAIN q = {}
    OBVIOUS
  <2> HIDE DEF q
  <2>2. \A h \in Handles : Coming(q, h) = 0
    BY <2>1, ComingZero
  <2> QED BY <1>1, <2>2 DEF q
<1>5. \A h \in Handles : NoCounts[h] = 0
  BY DEF NoCounts
<1>6. NoCounts \in [Handles -> Int]
  BY DEF NoCounts
<1>7. \A h \in Handles : Share(conn[h].open, h \in link, conn[h].outBufs, ctl[h],
                               evt[h] + Coming(rxQueue, h))
  BY <1>1, <1>4, <1>5 DEF Share
<1>8. availBufs + HeldBy(conn) + credit = NumBufs
  BY <1>1, <1>3
<1> QED BY <1>1, <1>2, <1>6, <1>7, <1>8 DEF BInv, CreditInv

(* Steps that leave the buffers where they are.                            *)
LEMMA QuietSteps ==
  ASSUME IInv, IInv', BInv,
         \A g \in Handles : conn'[g].open = conn[g].open /\ conn'[g].outBufs = conn[g].outBufs,
         availBufs' = availBufs, evt' = evt, credit' = credit, UNCHANGED <<link, ctl, rxQueue>>,
         InCmpl => InCmpl'
  PROVE  BInv'
<1>1. LinkInv'
  BY DEF BInv, LinkInv
<1>2. HeldBy(conn') = HeldBy(conn)
  BY HeldSame
<1>3. CreditInv'
  BY <1>2 DEF BInv, CreditInv
<1> QED BY <1>1, <1>3 DEF BInv

(* A piece of a packet to the controller.                                  *)
Piece(h) ==
  /\ conn' \in [Handles -> IntConn]
  /\ \A g \in Handles : g # h => conn'[g] = conn[g]
  /\ conn'[h].open = conn[h].open
  /\ conn'[h].outBufs = conn[h].outBufs + 1
  /\ conn'[h].queuedBufs = conn[h].queuedBufs
  /\ ctl' = IF h \in link THEN [ctl EXCEPT ![h] = @ + 1] ELSE ctl
  /\ availBufs' = IF availBufs > 0 THEN availBufs - 1 ELSE 0
  /\ UNCHANGED <<link, rxQueue>>

LEMMA PieceKeeps ==
  ASSUME IInv, IInv', BInv, NEW h \in Handles, Piece(h), conn[h].open, availBufs > 0,
         evt' = evt, credit' = credit, InCmpl' = InCmpl
  PROVE  BInv'
<1>1. /\ conn \in [Handles -> IntConn] /\ conn' \in [Handles -> IntConn]
      /\ availBufs \in Int /\ credit \in Int
  BY DEF IInv, Types
<1>2. \A g \in Handles : conn'[g].open = conn[g].open
  BY DEF Piece
<1>3. LinkInv'
  BY <1>2 DEF BInv, LinkInv, Piece
<1>4. HeldBy(conn') = HeldBy(conn) + 1
  <2>1. HeldBy(conn') = HeldBy(conn) - conn[h].outBufs + conn'[h].outBufs
    BY <1>1, HeldChanged DEF Piece
  <2>2. HeldBy(conn) \in Int /\ conn[h].outBufs \in Int
    BY <1>1, HeldInt DEF IntConn
  <2> QED BY <2>1, <2>2 DEF Piece
<1>5. availBufs' = availBufs - 1
  BY DEF Piece
<1>6. HeldBy(conn) \in Int
  BY <1>1, HeldInt
<1>7. /\ ctl' \in [Handles -> Int]
      /\ \A g \in Handles : g # h => ctl'[g] = ctl[g]
      /\ h \in link => ctl'[h] = ctl[h] + 1
      /\ h \notin link => ctl'[h] = ctl[h]
  BY DEF Piece, BInv, CreditInv
<1>8. \A g \in Handles : evt[g] + Coming(rxQueue, g) \in Int
  <2> TAKE g \in Handles
  <2>1. Coming(rxQueue, g) \in Nat
    BY ComingNat DEF IInv, Types
  <2>2. evt[g] \in Int
    BY AclAssumption DEF IInv, Types, Counts
  <2> QED BY <2>1, <2>2
<1>9. \A g \in Handles : Share(conn'[g].open, g \in link', conn'[g].outBufs, ctl'[g],
                               evt'[g] + Coming(rxQueue', g))
  <2> TAKE g \in Handles
  <2>1. Share(conn[g].open, g \in link, conn[g].outBufs, ctl[g], evt[g] + Coming(rxQueue, g))
    BY DEF BInv, CreditInv
  <2>2. link' = link /\ rxQueue' = rxQueue
    BY DEF Piece
  <2>3. CASE g # h
    BY <1>7, <2>1, <2>2, <2>3 DEF Piece
  <2>4. CASE g = h
    <3>1. ctl[h] \in Int /\ conn[h].outBufs \in Int
      BY <1>1 DEF BInv, CreditInv, IntConn
    <3>2. conn'[h].outBufs = conn[h].outBufs + 1
      BY DEF Piece
    <3> QED BY <1>2, <1>7, <1>8, <2>1, <2>2, <2>4, <3>1, <3>2 DEF Share
  <2> QED BY <2>3, <2>4
<1>10. availBufs' + HeldBy(conn') + credit' = NumBufs /\ availBufs' >= 0 /\ credit' >= 0
  BY <1>1, <1>4, <1>5, <1>6 DEF BInv, CreditInv
<1>11. link' \subseteq Handles /\ (~InCmpl' => evt' = NoCounts /\ credit' = 0)
  BY DEF Piece, BInv, CreditInv
<1> QED BY <1>3, <1>7, <1>9, <1>10, <1>11 DEF BInv, CreditInv

(* What hciCoreSendAclData does to the connection it sends for.            *)
LEMMA PieceSent ==
  ASSUME Types, NEW h \in Handles, NEW c \in IntConn, c.open = conn[h].open,
         c.outBufs = conn[h].outBufs, c.queuedBufs = conn[h].queuedBufs,
         NEW n, NEW e, SendAclData(h, c, n, e)
  PROVE  /\ Piece(h)
         /\ conn'[h].remLen = c.remLen
         /\ conn'[h].fragmenting = (c.fragmenting /\ c.remLen # 0)
<1> DEFINE b == c.fragmenting /\ c.remLen # 0
           d == [c EXCEPT !.outBufs = @ + 1, !.fragmenting = b]
<1>1. conn' = [conn EXCEPT ![h] = d]
  BY DEF SendAclData, IntConn
<1>2. b \in BOOLEAN
  BY Zenon
<1>3. c.outBufs + 1 \in Int
  BY DEF IntConn
<1> HIDE DEF b
<1>4. /\ d \in IntConn /\ d.open = c.open /\ d.outBufs = c.outBufs + 1
      /\ d.queuedBufs = c.queuedBufs /\ d.remLen = c.remLen /\ d.fragmenting = b
  <2>1. CASE b = TRUE
    BY <1>3, <2>1 DEF IntConn
  <2>2. CASE b = FALSE
    BY <1>3, <2>2 DEF IntConn
  <2> QED BY <1>2, <2>1, <2>2
<1> HIDE DEF d
<1>5. /\ conn' \in [Handles -> IntConn] /\ conn'[h] = d
      /\ \A g \in Handles : g # h => conn'[g] = conn[g]
  BY <1>1, <1>4 DEF Types
<1>6. Piece(h)
  BY <1>4, <1>5 DEF Piece, SendAclData
<1> QED BY <1>4, <1>5, <1>6 DEF b

LEMMA PieceStarted ==
  ASSUME Types, NEW h \in Handles, NEW len \in Lens, TxAclStart(h, len),
         ~ conn[h].fragmenting
  PROVE  /\ Piece(h)
         /\ conn'[h].fragmenting = (len > BufSize)
         /\ len > BufSize => conn'[h].remLen = len - BufSize
<1> DEFINE c == [conn[h] EXCEPT !.remLen = len - BufSize, !.fragmenting = TRUE]
<1>1. conn[h] \in IntConn
  BY DEF Types
<1>2. len \in Nat \ {0} /\ BufSize \in Nat \ {0}
  BY AclAssumption
<1>3. len - BufSize \in Int
  BY <1>2
<1>4. /\ c \in IntConn /\ c.open = conn[h].open /\ c.outBufs = conn[h].outBufs
      /\ c.queuedBufs = conn[h].queuedBufs /\ c.remLen = len - BufSize
      /\ c.fragmenting = TRUE
  BY <1>1, <1>3 DEF IntConn
<1>5. CASE len > BufSize
  <2>1. SendAclData(h, c, BufSize, len)
    BY <1>5 DEF TxAclStart
  <2> HIDE DEF c
  <2>2. Piece(h) /\ conn'[h].remLen = len - BufSize /\ conn'[h].fragmenting = (TRUE /\ len - BufSize # 0)
    BY <1>4, <2>1, PieceSent
  <2>3. len - BufSize # 0
    BY <1>2, <1>5
  <2> QED BY <1>5, <2>2, <2>3
<1>6. CASE ~ (len > BufSize)
  <2>1. SendAclData(h, conn[h], len, len)
    BY <1>6 DEF TxAclStart
  <2>2. Piece(h) /\ conn'[h].fragmenting = (conn[h].fragmenting /\ conn[h].remLen # 0)
    BY <1>1, <2>1, PieceSent
  <2> QED BY <1>6, <2>2
<1> QED BY <1>5, <1>6

LEMMA PieceContinued ==
  ASSUME Types, NEW h \in Handles, TxAclContinue(h)
  PROVE  /\ Piece(h)
         /\ conn[h].fragmenting /\ conn[h].remLen >= 1 =>
              /\ conn'[h].fragmenting = (conn[h].remLen > BufSize)
              /\ conn[h].remLen > BufSize => conn'[h].remLen = conn[h].remLen - BufSize
<1> DEFINE n == MinLen(conn[h].remLen, BufSize)
           c == [conn[h] EXCEPT !.remLen = @ - n]
<1>1. conn[h] \in IntConn /\ conn[h].remLen \in Int
  BY DEF Types, IntConn
<1>2. BufSize \in Nat \ {0}
  BY AclAssumption
<1>3. n \in Int /\ (conn[h].remLen > BufSize => n = BufSize)
      /\ (~ (conn[h].remLen > BufSize) => n = conn[h].remLen)
  BY <1>1, <1>2 DEF MinLen
<1>4. SendAclData(h, c, n, lacks[h])
  BY DEF TxAclContinue
<1> HIDE DEF n
<1>5. conn[h].remLen - n \in Int
  BY <1>1, <1>3
<1>6. /\ c \in IntConn /\ c.open = conn[h].open /\ c.outBufs = conn[h].outBufs
      /\ c.queuedBufs = conn[h].queuedBufs /\ c.remLen = conn[h].remLen - n
      /\ c.fragmenting = conn[h].fragmenting
  BY <1>1, <1>5 DEF IntConn
<1> HIDE DEF c
<1>7. Piece(h) /\ conn'[h].remLen = c.remLen /\ conn'[h].fragmenting = (c.fragmenting /\ c.remLen # 0)
  BY <1>4, <1>6, PieceSent
<1>8. ASSUME conn[h].fragmenting, conn[h].remLen >= 1
      PROVE  /\ conn'[h].fragmenting = (conn[h].remLen > BufSize)
             /\ conn[h].remLen > BufSize => conn'[h].remLen = conn[h].remLen - BufSize
  <2>1. conn'[h].fragmenting = (conn[h].remLen - n # 0)
    BY <1>6, <1>7, <1>8
  <2>2. (conn[h].remLen - n # 0) = (conn[h].remLen > BufSize)
    BY <1>1, <1>2, <1>3, <1>8
  <2> QED BY <1>3, <1>6, <1>7, <2>1, <2>2
<1> QED BY <1>7, <1>8

LEMMA TailPlaces ==
  ASSUME NEW T, NEW q \in Seq(T), q # <<>>
  PROVE  /\ Tail(q) \in Seq(T) /\ Head(q) \in T /\ 1 \in DOMAIN q /\ q[1] = Head(q)
         /\ \A i \in DOMAIN Tail(q) : i \in Nat /\ i + 1 \in DOMAIN q /\ Tail(q)[i] = q[i + 1]
         /\ \A i \in DOMAIN q : i # 1 => i \in Nat /\ i - 1 \in DOMAIN Tail(q) /\ Tail(q)[i - 1] = q[i]
BY HeadTailProperties, LenProperties, EmptySeq

LEMMA LastPlace ==
  ASSUME NEW T, NEW q \in Seq(T), NEW e \in T
  PROVE  /\ Append(q, e) \in Seq(T) /\ Len(q) \in Nat
         /\ DOMAIN Append(q, e) = DOMAIN q \cup {Len(q) + 1}
         /\ Append(q, e)[Len(q) + 1] = e
         /\ \A i \in DOMAIN q : i \in Nat /\ i < Len(q) + 1 /\ Append(q, e)[i] = q[i]
BY AppendProperties, LenProperties

(* The event at the head, of h or not, is handled.                         *)
LEMMA LinkOther ==
  ASSUME NEW q \in Seq(Event), q # <<>>, NEW h, NEW open \in BOOLEAN, NEW linked \in BOOLEAN,
         LinkOk(q, h, open, linked), ~ Is(Head(q), "open", h), ~ Is(Head(q), "close", h)
  PROVE  LinkOk(Tail(q), h, open, linked)
<1> DEFINE t == Tail(q)
<1>1. /\ q[1] = Head(q) /\ 1 \in DOMAIN q
      /\ \A i \in DOMAIN t : i \in Nat /\ i + 1 \in DOMAIN q /\ t[i] = q[i + 1]
      /\ \A i \in DOMAIN q : i # 1 => i \in Nat /\ i - 1 \in DOMAIN t /\ t[i - 1] = q[i]
  BY TailPlaces
<1> HIDE DEF t
<1>2. (\E j \in DOMAIN q : Is(q[j], "open", h)) => \E j \in DOMAIN t : Is(t[j], "open", h)
  BY <1>1
<1>3. LinkOk(t, h, open, linked)
  <2> USE <1>1 DEF LinkOk
  <2>1. \A i, j \in DOMAIN t : Is(t[i], "open", h) /\ Is(t[j], "open", h) => i = j
    OBVIOUS
  <2>2. \A i, j \in DOMAIN t : Is(t[i], "close", h) /\ Is(t[j], "close", h) => i = j
    OBVIOUS
  <2>3. \A i, j \in DOMAIN t : Is(t[i], "open", h) /\ Is(t[j], "close", h) => i < j
    OBVIOUS
  <2>4. \A i, j \in DOMAIN t : Is(t[i], "close", h) /\ i < j => Completed(t[j], h) = 0
    OBVIOUS
  <2> QED BY <1>2, <2>1, <2>2, <2>3, <2>4
<1> QED BY <1>3 DEF t

LEMMA LinkOpened ==
  ASSUME NEW q \in Seq(Event), q # <<>>, NEW h, NEW open, NEW linked \in BOOLEAN,
         LinkOk(q, h, open, linked), Is(Head(q), "open", h)
  PROVE  LinkOk(Tail(q), h, TRUE, linked)
<1> DEFINE t == Tail(q)
<1>1. /\ q[1] = Head(q) /\ 1 \in DOMAIN q
      /\ \A i \in DOMAIN t : i \in Nat /\ i + 1 \in DOMAIN q /\ t[i] = q[i + 1]
  BY TailPlaces
<1> HIDE DEF t
<1>2. LinkOk(t, h, TRUE, linked)
  <2> USE <1>1 DEF LinkOk
  <2>1. \A i \in DOMAIN t : ~ Is(t[i], "open", h)
    OBVIOUS
  <2>2. \A i, j \in DOMAIN t : Is(t[i], "close", h) /\ Is(t[j], "close", h) => i = j
    OBVIOUS
  <2>3. \A i, j \in DOMAIN t : Is(t[i], "close", h) /\ i < j => Completed(t[j], h) = 0
    OBVIOUS
  <2> QED BY <2>1, <2>2, <2>3
<1> QED BY <1>2 DEF t

LEMMA LinkClosed ==
  ASSUME NEW q \in Seq(Event), q # <<>>, NEW h, NEW open, NEW linked \in BOOLEAN,
         LinkOk(q, h, open, linked), Is(Head(q), "close", h)
  PROVE  /\ LinkOk(Tail(q), h, FALSE, linked)
         /\ linked = FALSE
         /\ \A i \in DOMAIN Tail(q) : Completed(Tail(q)[i], h) = 0
<1> DEFINE t == Tail(q)
<1>1. /\ q[1] = Head(q) /\ 1 \in DOMAIN q
      /\ \A i \in DOMAIN t : i \in Nat /\ i + 1 \in DOMAIN q /\ t[i] = q[i + 1]
  BY TailPlaces
<1> HIDE DEF t
<1>2. LinkOk(t, h, FALSE, linked) /\ linked = FALSE /\ \A i \in DOMAIN t : Completed(t[i], h) = 0
  <2> USE <1>1 DEF LinkOk
  <2>1. \A i \in DOMAIN t : ~ Is(t[i], "close", h)
    OBVIOUS
  <2>2. \A i, j \in DOMAIN t : Is(t[i], "open", h) /\ Is(t[j], "open", h) => i = j
    OBVIOUS
  <2>3. linked = FALSE
    OBVIOUS
  <2>4. \A i \in DOMAIN t : Completed(t[i], h) = 0
    OBVIOUS
  <2> QED BY <2>1, <2>2, <2>3, <2>4
<1> QED BY <1>2 DEF t

(* The controller sends an event, of h or not.                             *)
LEMMA LinkNews ==
  ASSUME NEW q \in Seq(Event), NEW e \in Event, NEW h, NEW open \in BOOLEAN, NEW linked \in BOOLEAN,
         LinkOk(q, h, open, linked), ~ Is(e, "open", h), ~ Is(e, "close", h),
         linked \/ Completed(e, h) = 0
  PROVE  LinkOk(Append(q, e), h, open, linked)
<1> DEFINE r == Append(q, e)
           n == Len(q) + 1
<1>1. /\ DOMAIN r = DOMAIN q \cup {n} /\ r[n] = e /\ n \in Nat
      /\ \A i \in DOMAIN q : i \in Nat /\ i < n /\ r[i] = q[i]
  BY LastPlace
<1> HIDE DEF r, n
<1>2. LinkOk(r, h, open, linked)
  <2> USE <1>1 DEF LinkOk
  <2>1. \A i \in DOMAIN r : Is(r[i], "open", h) => i \in DOMAIN q /\ Is(q[i], "open", h)
    OBVIOUS
  <2>2. \A i \in DOMAIN r : Is(r[i], "close", h) => i \in DOMAIN q /\ Is(q[i], "close", h)
    OBVIOUS
  <2>3. \A i, j \in DOMAIN r : Is(r[i], "close", h) /\ i < j => Completed(r[j], h) = 0
    <3>1. linked => \A i \in DOMAIN q : ~ Is(q[i], "close", h)
      OBVIOUS
    <3> QED BY <2>2, <3>1
  <2>4. (\E j \in DOMAIN q : Is(q[j], "open", h)) => \E j \in DOMAIN r : Is(r[j], "open", h)
    OBVIOUS
  <2> QED BY <2>1, <2>2, <2>3, <2>4
<1> QED BY <1>2 DEF r

LEMMA LinkUp ==
  ASSUME NEW q \in Seq(Event), NEW e \in Event, NEW h, NEW open, ~ open, Is(e, "open", h),
         \A i \in DOMAIN q : ~ Is(q[i], "open", h) /\ ~ Is(q[i], "close", h)
  PROVE  LinkOk(Append(q, e), h, open, TRUE)
<1> DEFINE r == Append(q, e)
           n == Len(q) + 1
<1>1. /\ DOMAIN r = DOMAIN q \cup {n} /\ r[n] = e
      /\ \A i \in DOMAIN q : r[i] = q[i]
  BY LastPlace
<1> HIDE DEF r, n
<1>2. \A i \in DOMAIN r : ~ Is(r[i], "close", h) /\ (Is(r[i], "open", h) <=> i = n)
  BY <1>1 DEF Is
<1>3. LinkOk(r, h, open, TRUE)
  BY <1>1, <1>2 DEF LinkOk
<1> QED BY <1>3 DEF r

LEMMA LinkDown ==
  ASSUME NEW q \in Seq(Event), NEW e \in Event, NEW h, NEW open \in BOOLEAN,
         LinkOk(q, h, open, TRUE), Is(e, "close", h)
  PROVE  LinkOk(Append(q, e), h, open, FALSE)
<1> DEFINE r == Append(q, e)
           n == Len(q) + 1
<1>1. /\ DOMAIN r = DOMAIN q \cup {n} /\ r[n] = e /\ n \in Nat
      /\ \A i \in DOMAIN q : i \in Nat /\ i < n /\ r[i] = q[i]
  BY LastPlace
<1> HIDE DEF r, n
<1>2. \A i \in DOMAIN r : /\ Is(r[i], "close", h) <=> i = n
                          /\ Is(r[i], "open", h) => i \in DOMAIN q /\ Is(q[i], "open", h)
  BY <1>1 DEF LinkOk, Is
<1>3. open \/ \E j \in DOMAIN r : Is(r[j], "open", h)
  BY <1>1 DEF LinkOk
<1>4. LinkOk(r, h, open, FALSE)
  <2>1. \A i, j \in DOMAIN r : Is(r[i], "open", h) /\ Is(r[j], "open", h) => i = j
    BY <1>1, <1>2 DEF LinkOk
  <2>2. \A i, j \in DOMAIN r : Is(r[i], "open", h) /\ Is(r[j], "close", h) => i < j
    BY <1>1, <1>2
  <2>3. \A i, j \in DOMAIN r : ~ (Is(r[i], "close", h) /\ i < j)
    BY <1>1, <1>2
  <2>4. \A i \in DOMAIN r : Is(r[i], "open", h) => ~open
    BY <1>2 DEF LinkOk
  <2> QED BY <1>2, <1>3, <2>1, <2>2, <2>3, <2>4 DEF LinkOk
<1> QED BY <1>4 DEF r

LEMMA HeldNat ==
  ASSUME NEW c \in [Handles -> IntConn], \A g \in Handles : c[g].outBufs >= 0
  PROVE  HeldBy(c) \in Nat
<1> DEFINE f == [g \in Handles |-> c[g].outBufs]
<1>1. DOMAIN f = Handles /\ IsFiniteSet(Handles) /\ \A g \in Handles : f[g] \in Nat
  BY AclAssumption DEF IntConn
<1> HIDE DEF f
<1>2. SumFunctionOnSet(f, Handles) \in Nat
  BY <1>1, SumNat
<1> QED BY <1>1, <1>2 DEF HeldBy, SumFunction, f

(* What the actions find.                                                  *)
LEMMA BFacts ==
  ASSUME IInv, BInv
  PROVE  /\ conn \in [Handles -> IntConn] /\ rxQueue \in Seq(Event) /\ evt \in [Handles -> Nat]
         /\ availBufs \in Int /\ credit \in Int /\ NumBufs \in Nat
         /\ ctl \in [Handles -> Int] /\ link \subseteq Handles
         /\ HeldBy(conn) \in Nat
         /\ availBufs + HeldBy(conn) + credit = NumBufs /\ availBufs >= 0 /\ credit >= 0
         /\ \A h \in Handles : /\ conn[h].outBufs \in Int /\ conn[h].open \in BOOLEAN
                               /\ ctl[h] \in Int /\ evt[h] \in Nat /\ Coming(rxQueue, h) \in Nat
                               /\ LinkOk(rxQueue, h, conn[h].open, h \in link)
                               /\ Share(conn[h].open, h \in link, conn[h].outBufs, ctl[h],
                                        evt[h] + Coming(rxQueue, h))
<1>1. conn \in [Handles -> IntConn] /\ rxQueue \in Seq(Event)
  BY DEF IInv, Types
<1>2. evt \in [Handles -> Nat]
  BY AclAssumption DEF IInv, Types, Counts
<1>3. HeldBy(conn) \in Nat
  BY <1>1, HeldNat DEF BInv, CreditInv, Share
<1>4. /\ ctl \in [Handles -> Int] /\ link \subseteq Handles
      /\ availBufs + HeldBy(conn) + credit = NumBufs /\ availBufs >= 0 /\ credit >= 0
  BY DEF BInv, CreditInv
<1>5. availBufs \in Int /\ credit \in Int /\ NumBufs \in Nat
  BY AclAssumption DEF IInv, Types
<1>6. \A h \in Handles : /\ LinkOk(rxQueue, h, conn[h].open, h \in link)
                         /\ Share(conn[h].open, h \in link, conn[h].outBufs, ctl[h],
                                  evt[h] + Coming(rxQueue, h))
  BY DEF BInv, LinkInv, CreditInv
<1>7. \A h \in Handles : conn[h].outBufs \in Int /\ conn[h].open \in BOOLEAN
  BY <1>1 DEF IntConn
<1>8. \A h \in Handles : Coming(rxQueue, h) \in Nat
  BY <1>1, ComingNat
<1> QED BY <1>1, <1>2, <1>3, <1>4, <1>5, <1>6, <1>7, <1>8

LEMMA OpenKeeps ==
  ASSUME IInv, IInv', BInv, ConnOpen
  PROVE  BInv'
<1> DEFINE h == Head(rxQueue).h
           c == [Closed EXCEPT !.open = TRUE]
<1>1. /\ at = "idle" /\ rxQueue # <<>> /\ Head(rxQueue).type = "open"
      /\ conn' = [conn EXCEPT ![h] = c] /\ rxQueue' = Tail(rxQueue)
      /\ availBufs' = availBufs /\ at' = at /\ cur' = cur /\ evt' = evt /\ credit' = credit
      /\ link' = link /\ ctl' = ctl
  BY DEF ConnOpen, NextIs
<1>2. c.open = TRUE /\ c.outBufs = 0
  BY DEF Closed
<1>3. Head(rxQueue) \in Event
  BY <1>1, BFacts
<1>4. h \in Handles
  BY <1>1, <1>3 DEF Event
<1> HIDE DEF h, c
<1>5. /\ conn' \in [Handles -> IntConn] /\ conn \in [Handles -> IntConn]
      /\ conn'[h].open = TRUE /\ conn'[h].outBufs = 0
      /\ \A g \in Handles : g # h => conn'[g] = conn[g]
  BY <1>1, <1>2, <1>4 DEF IInv, Types
<1>6. conn[h].open = FALSE /\ conn[h].outBufs = 0
  <2>1. Is(rxQueue[1], "open", h) /\ 1 \in DOMAIN rxQueue
    BY <1>1, BFacts, TailPlaces DEF Is, h
  <2>2. conn[h].open = FALSE
    BY <1>4, <2>1, BFacts DEF LinkOk
  <2> QED BY <1>4, <2>2, BFacts DEF Share
<1>7. \A g \in Handles : Coming(rxQueue', g) = Coming(rxQueue, g)
  <2> TAKE g \in Handles
  <2>1. Coming(rxQueue, g) = Completed(Head(rxQueue), g) + Coming(Tail(rxQueue), g)
    BY <1>1, BFacts, ComingTail
  <2>2. Completed(Head(rxQueue), g) = 0
    BY <1>1 DEF Completed
  <2>3. Tail(rxQueue) \in Seq(Event)
    BY <1>1, BFacts, TailPlaces
  <2>4. Coming(Tail(rxQueue), g) \in Nat
    BY <2>3, ComingNat
  <2> QED BY <1>1, <2>1, <2>2, <2>4
<1>8. LinkInv'
  <2>1. \A g \in Handles : LinkOk(Tail(rxQueue), g, conn'[g].open, g \in link)
    <3> TAKE g \in Handles
    <3>1. CASE g = h
      <4>1. Is(Head(rxQueue), "open", h)
        BY <1>1 DEF Is, h
      <4>2. (h \in link) \in BOOLEAN
        OBVIOUS
      <4>3. LinkOk(Tail(rxQueue), h, TRUE, h \in link)
        BY <1>1, <1>4, <4>1, <4>2, BFacts, LinkOpened
      <4> QED BY <1>5, <3>1, <4>3
    <3>2. CASE g # h
      <4>1. ~ Is(Head(rxQueue), "open", g) /\ ~ Is(Head(rxQueue), "close", g)
        BY <1>1, <3>2 DEF Is, h
      <4>2. (g \in link) \in BOOLEAN
        OBVIOUS
      <4>3. LinkOk(Tail(rxQueue), g, conn[g].open, g \in link)
        BY <1>1, <4>1, <4>2, BFacts, LinkOther
      <4> QED BY <1>5, <3>2, <4>3
    <3> QED BY <3>1, <3>2
  <2> QED BY <1>1, <2>1 DEF LinkInv
<1>9. HeldBy(conn') = HeldBy(conn)
  BY <1>5, <1>6, HeldSame
<1>10. \A g \in Handles : Share(conn'[g].open, g \in link', conn'[g].outBufs, ctl'[g],
                                evt'[g] + Coming(rxQueue', g))
  <2> TAKE g \in Handles
  <2>1. Share(conn[g].open, g \in link, conn[g].outBufs, ctl[g], evt[g] + Coming(rxQueue, g))
    BY BFacts
  <2>2. CASE g # h
    BY <1>1, <1>5, <1>7, <2>1, <2>2
  <2>3. CASE g = h
    BY <1>1, <1>4, <1>5, <1>6, <1>7, <2>1, <2>3 DEF Share
  <2> QED BY <2>2, <2>3
<1>11. ~InCmpl' => evt' = NoCounts /\ credit' = 0
  BY <1>1 DEF InCmpl, BInv, CreditInv
<1> QED BY <1>1, <1>8, <1>9, <1>10, <1>11, BFacts DEF BInv, CreditInv

LEMMA CloseKeeps ==
  ASSUME IInv, IInv', BInv, ConnClose
  PROVE  BInv'
<1> DEFINE h == Head(rxQueue).h
<1>1. /\ at = "idle" /\ rxQueue # <<>> /\ Head(rxQueue).type = "close"
      /\ conn' = [conn EXCEPT ![h] = Closed] /\ rxQueue' = Tail(rxQueue)
      /\ availBufs' = MinLen(availBufs + conn[h].outBufs, NumBufs)
      /\ at' = "txReady" /\ evt' = evt /\ credit' = credit /\ link' = link /\ ctl' = ctl
  BY DEF ConnClose, NextIs
<1>2. Closed.open = FALSE /\ Closed.outBufs = 0
  BY DEF Closed
<1>3. Head(rxQueue) \in Event /\ Tail(rxQueue) \in Seq(Event)
  BY <1>1, BFacts, TailPlaces
<1>4. h \in Handles
  BY <1>1, <1>3 DEF Event
<1>5. evt = NoCounts /\ credit = 0 /\ evt[h] = 0
  BY <1>1, <1>4 DEF InCmpl, BInv, CreditInv, NoCounts
<1>6. Is(Head(rxQueue), "close", h)
  BY <1>1 DEF Is
<1> HIDE DEF h
<1>7. /\ conn' \in [Handles -> IntConn] /\ conn \in [Handles -> IntConn]
      /\ conn'[h].open = FALSE /\ conn'[h].outBufs = 0
      /\ \A g \in Handles : g # h => conn'[g] = conn[g]
  BY <1>1, <1>2, <1>4 DEF IInv, Types
<1>8. /\ LinkOk(Tail(rxQueue), h, FALSE, h \in link) /\ h \notin link
      /\ \A i \in DOMAIN Tail(rxQueue) : Completed(Tail(rxQueue)[i], h) = 0
  <2>1. (h \in link) \in BOOLEAN
    OBVIOUS
  <2> QED BY <1>1, <1>4, <1>6, <2>1, BFacts, LinkClosed
<1>9. /\ \A g \in Handles : g # h => Coming(rxQueue', g) = Coming(rxQueue, g)
      /\ Coming(rxQueue', h) = 0
  <2>1. ASSUME NEW g \in Handles PROVE Coming(rxQueue', g) = Coming(rxQueue, g)
    <3>1. Coming(rxQueue, g) = Completed(Head(rxQueue), g) + Coming(Tail(rxQueue), g)
      BY <1>1, BFacts, ComingTail
    <3>2. Completed(Head(rxQueue), g) = 0
      BY <1>1 DEF Completed
    <3>3. Coming(Tail(rxQueue), g) \in Nat
      BY <1>3, ComingNat
    <3> QED BY <1>1, <3>1, <3>2, <3>3
  <2>2. Coming(Tail(rxQueue), h) = 0
    BY <1>3, <1>4, <1>8, ComingZero
  <2> QED BY <1>1, <2>1, <2>2
<1>10. LinkInv'
  <2>1. ASSUME NEW g \in Handles, g # h PROVE LinkOk(Tail(rxQueue), g, conn[g].open, g \in link)
    <3>1. ~ Is(Head(rxQueue), "open", g) /\ ~ Is(Head(rxQueue), "close", g)
      BY <1>1, <2>1 DEF Is, h
    <3>2. (g \in link) \in BOOLEAN
      OBVIOUS
    <3> QED BY <1>1, <3>1, <3>2, BFacts, LinkOther
  <2>2. \A g \in Handles : LinkOk(Tail(rxQueue), g, conn'[g].open, g \in link)
    BY <1>7, <1>8, <2>1
  <2> QED BY <1>1, <2>2 DEF LinkInv
<1>11. /\ conn[h].outBufs \in Int /\ conn[h].outBufs >= 0
       /\ HeldBy(conn) >= conn[h].outBufs
  BY <1>4, <1>7, BFacts, HeldAtLeast DEF Share
<1>12. HeldBy(conn') = HeldBy(conn) - conn[h].outBufs
  <2>1. HeldBy(conn') = HeldBy(conn) - conn[h].outBufs + conn'[h].outBufs
    BY <1>4, <1>7, HeldChanged
  <2> QED BY <1>7, <1>11, <2>1, BFacts
<1>13. availBufs' = availBufs + conn[h].outBufs
  <2>1. availBufs + conn[h].outBufs <= NumBufs
    BY <1>5, <1>11, BFacts
  <2> QED BY <1>1, <1>11, <2>1, BFacts, SMTT(30) DEF MinLen
<1>14. availBufs' + HeldBy(conn') + credit' = NumBufs /\ availBufs' >= 0 /\ credit' >= 0
  BY <1>1, <1>11, <1>12, <1>13, BFacts, SMTT(30)
<1>15. \A g \in Handles : Share(conn'[g].open, g \in link', conn'[g].outBufs, ctl'[g],
                                evt'[g] + Coming(rxQueue', g))
  <2> TAKE g \in Handles
  <2>1. Share(conn[g].open, g \in link, conn[g].outBufs, ctl[g], evt[g] + Coming(rxQueue, g))
    BY BFacts
  <2>2. CASE g # h
    BY <1>1, <1>7, <1>9, <2>1, <2>2
  <2>3. CASE g = h
    BY <1>1, <1>5, <1>7, <1>8, <1>9, <2>1, <2>3 DEF Share
  <2> QED BY <2>2, <2>3
<1> QED BY <1>1, <1>5, <1>10, <1>14, <1>15, BFacts DEF BInv, CreditInv

LEMMA CountsHeard ==
  ASSUME IInv, IInv', BInv, NumCmplPkts
  PROVE  BInv'
<1>1. /\ at = "idle" /\ rxQueue # <<>> /\ Head(rxQueue).type = "cmpl"
      /\ rxQueue' = Tail(rxQueue) /\ conn' = conn /\ availBufs' = availBufs
      /\ at' = "cmpl" /\ evt' = Head(rxQueue).n /\ credit' = 0 /\ link' = link /\ ctl' = ctl
  BY DEF NumCmplPkts, NextIs, core
<1>2. evt = NoCounts /\ credit = 0
  BY <1>1 DEF InCmpl, BInv, CreditInv
<1>3. \A g \in Handles : evt'[g] + Coming(rxQueue', g) = evt[g] + Coming(rxQueue, g)
  <2> TAKE g \in Handles
  <2>1. Coming(rxQueue, g) = Completed(Head(rxQueue), g) + Coming(Tail(rxQueue), g)
    BY <1>1, BFacts, ComingTail
  <2>2. Completed(Head(rxQueue), g) = evt'[g] /\ evt[g] = 0
    BY <1>1, <1>2 DEF Completed, NoCounts
  <2>3. Coming(rxQueue, g) \in Nat
    BY BFacts
  <2> QED BY <1>1, <2>1, <2>2, <2>3
<1>4. LinkInv'
  <2>1. ASSUME NEW g \in Handles PROVE LinkOk(Tail(rxQueue), g, conn[g].open, g \in link)
    <3>1. ~ Is(Head(rxQueue), "open", g) /\ ~ Is(Head(rxQueue), "close", g)
      BY <1>1 DEF Is
    <3>2. (g \in link) \in BOOLEAN
      OBVIOUS
    <3> QED BY <1>1, <3>1, <3>2, BFacts, LinkOther
  <2> QED BY <1>1, <2>1 DEF LinkInv
<1>5. \A g \in Handles : Share(conn'[g].open, g \in link', conn'[g].outBufs, ctl'[g],
                               evt'[g] + Coming(rxQueue', g))
  BY <1>1, <1>3, BFacts
<1>6. InCmpl'
  BY <1>1 DEF InCmpl
<1>7. availBufs' + HeldBy(conn') + credit' = NumBufs /\ availBufs' >= 0 /\ credit' >= 0
  BY <1>1, <1>2, BFacts
<1> QED BY <1>1, <1>4, <1>5, <1>6, <1>7, BFacts DEF BInv, CreditInv

LEMMA HandleCredited ==
  ASSUME IInv, IInv', BInv, CmplHandle
  PROVE  BInv'
<1>1. /\ at = "cmpl" /\ availBufs' = availBufs /\ rxQueue' = rxQueue
      /\ link' = link /\ ctl' = ctl
  BY DEF CmplHandle, radio
<1>2. PICK h \in Handles :
        /\ evt[h] > 0
        /\ evt' = [evt EXCEPT ![h] = 0]
        /\ IF conn[h].open
           THEN LET c  == [conn[h] EXCEPT !.outBufs = @ - evt[h], !.queuedBufs = @ - evt[h]]
                    on == c.flowDisabled /\ c.queuedBufs <= QueueLo
                IN  /\ credit' = credit + evt[h]
                    /\ conn' = [conn EXCEPT ![h] = IF on THEN [c EXCEPT !.flowDisabled = FALSE,
                                                                        !.attOff = FALSE]
                                                         ELSE c]
                    /\ at' = IF on THEN "flowAtt" ELSE "cmpl"
                    /\ resumed' = IF on THEN {h} ELSE {}
           ELSE UNCHANGED <<conn, credit, at, resumed>>
  BY DEF CmplHandle
<1>3. Share(conn[h].open, h \in link, conn[h].outBufs, ctl[h], evt[h] + Coming(rxQueue, h))
  BY BFacts
<1>4. conn[h].open
  BY <1>2, <1>3, BFacts DEF Share
<1> DEFINE c  == [conn[h] EXCEPT !.outBufs = @ - evt[h], !.queuedBufs = @ - evt[h]]
           on == c.flowDisabled /\ c.queuedBufs <= QueueLo
           d  == IF on THEN [c EXCEPT !.flowDisabled = FALSE, !.attOff = FALSE] ELSE c
<1>5. /\ credit' = credit + evt[h]
      /\ conn' = [conn EXCEPT ![h] = d]
      /\ at' = IF on THEN "flowAtt" ELSE "cmpl"
  BY <1>2, <1>4
<1>6. d.outBufs = conn[h].outBufs - evt[h] /\ d.open = conn[h].open
  <2>1. conn[h] \in IntConn
    BY BFacts
  <2>2. c.outBufs = conn[h].outBufs - evt[h] /\ c.open = conn[h].open
    BY <2>1 DEF IntConn
  <2> HIDE DEF on
  <2>3. CASE on
    BY <2>1, <2>2, <2>3 DEF IntConn
  <2>4. CASE ~ on
    BY <2>2, <2>4
  <2> QED BY <2>3, <2>4
<1> HIDE DEF c, on, d
<1>7. /\ conn' \in [Handles -> IntConn] /\ conn \in [Handles -> IntConn]
      /\ conn'[h].open = conn[h].open /\ conn'[h].outBufs = conn[h].outBufs - evt[h]
      /\ \A g \in Handles : g # h => conn'[g] = conn[g]
  BY <1>5, <1>6 DEF IInv, Types
<1>8. evt'[h] = 0 /\ \A g \in Handles : g # h => evt'[g] = evt[g]
  BY <1>2, BFacts
<1>9. LinkInv'
  BY <1>1, <1>7 DEF BInv, LinkInv
<1>10. HeldBy(conn') = HeldBy(conn) - evt[h]
  <2>1. HeldBy(conn') = HeldBy(conn) - conn[h].outBufs + conn'[h].outBufs
    BY <1>7, HeldChanged
  <2> QED BY <1>7, <2>1, BFacts
<1>11. availBufs' + HeldBy(conn') + credit' = NumBufs /\ availBufs' >= 0 /\ credit' >= 0
  BY <1>1, <1>5, <1>10, BFacts
<1>12. \A g \in Handles : Share(conn'[g].open, g \in link', conn'[g].outBufs, ctl'[g],
                                evt'[g] + Coming(rxQueue', g))
  <2> TAKE g \in Handles
  <2>1. CASE g # h
    BY <1>1, <1>7, <1>8, <2>1, BFacts
  <2>2. CASE g = h
    <3>1. Share(conn'[h].open, h \in link, conn[h].outBufs - evt[h], ctl[h],
                0 + Coming(rxQueue, h))
      BY <1>3, <1>4, <1>7, BFacts DEF Share
    <3> QED BY <1>1, <1>7, <1>8, <2>2, <3>1
  <2> QED BY <2>1, <2>2
<1>13. InCmpl'
  BY <1>5 DEF InCmpl
<1> QED BY <1>1, <1>9, <1>11, <1>12, <1>13, BFacts DEF BInv, CreditInv

LEMMA CreditGiven ==
  ASSUME IInv, IInv', BInv, CmplDone
  PROVE  BInv'
<1>1. /\ evt = NoCounts /\ evt' = evt /\ credit' = 0 /\ conn' = conn /\ rxQueue' = rxQueue
      /\ link' = link /\ ctl' = ctl /\ availBufs' = MinLen(availBufs + credit, NumBufs)
  BY DEF CmplDone, radio
<1>2. availBufs' = availBufs + credit
  <2>1. availBufs + credit <= NumBufs
    BY BFacts
  <2> QED BY <1>1, <2>1, BFacts DEF MinLen
<1>3. LinkInv'
  BY <1>1 DEF BInv, LinkInv
<1>4. availBufs' + HeldBy(conn') + credit' = NumBufs /\ availBufs' >= 0 /\ credit' >= 0
  BY <1>1, <1>2, BFacts
<1> QED BY <1>1, <1>3, <1>4, BFacts DEF BInv, CreditInv

LEMMA ControllerKeeps ==
  ASSUME IInv, IInv', BInv, Controller
  PROVE  BInv'
<1>1. /\ conn' = conn /\ availBufs' = availBufs /\ at' = at /\ cur' = cur /\ evt' = evt
      /\ credit' = credit
  BY DEF Controller, CtlOpen, CtlClose, CtlComplete, core
<1>2. /\ ~InCmpl' => evt' = NoCounts /\ credit' = 0
      /\ availBufs' + HeldBy(conn') + credit' = NumBufs /\ availBufs' >= 0 /\ credit' >= 0
  BY <1>1 DEF InCmpl, BInv, CreditInv
<1>3. ASSUME NEW h \in Handles, CtlOpen(h) PROVE BInv'
  <2> DEFINE e == [type |-> "open", h |-> h]
  <2>1. /\ h \notin link /\ link' = link \cup {h} /\ ctl' = ctl /\ Forgotten(h)
        /\ rxQueue' = Append(rxQueue, e)
    BY <1>3 DEF CtlOpen
  <2>2. /\ e \in Event /\ Is(e, "open", h) /\ \A g \in Handles : Completed(e, g) = 0
        /\ \A g \in Handles : g # h => ~ Is(e, "open", g) /\ ~ Is(e, "close", g)
    BY DEF Event, Is, Completed
  <2> HIDE DEF e
  <2>3. ~ conn[h].open /\ \A i \in DOMAIN rxQueue : ~ Is(rxQueue[i], "open", h) /\ ~ Is(rxQueue[i], "close", h)
    BY <2>1 DEF Forgotten, Is
  <2>4. LinkOk(rxQueue', h, conn[h].open, TRUE)
    BY <2>1, <2>2, <2>3, BFacts, LinkUp
  <2>5. ASSUME NEW g \in Handles, g # h PROVE LinkOk(rxQueue', g, conn[g].open, g \in link)
    <3>1. (g \in link) \in BOOLEAN
      OBVIOUS
    <3> QED BY <2>1, <2>2, <2>5, <3>1, BFacts, LinkNews
  <2>6. LinkInv'
    <3>1. ASSUME NEW g \in Handles PROVE LinkOk(rxQueue', g, conn'[g].open, g \in link')
      <4>1. CASE g = h
        <5>1. (g \in link') = TRUE
          BY <2>1, <4>1
        <5> QED BY <1>1, <2>4, <4>1, <5>1
      <4>2. CASE g # h
        <5>1. (g \in link') = (g \in link)
          BY <2>1, <4>2
        <5>2. LinkOk(rxQueue', g, conn[g].open, g \in link)
          BY <2>5, <4>2
        <5> QED BY <1>1, <5>1, <5>2
      <4> QED BY <4>1, <4>2
    <3> QED BY <3>1 DEF LinkInv
  <2>7. \A g \in Handles : Coming(rxQueue', g) = Coming(rxQueue, g)
    <3> TAKE g \in Handles
    <3>1. Coming(rxQueue', g) = Coming(rxQueue, g) + Completed(e, g)
      BY <2>1, <2>2, BFacts, ComingAppend
    <3> QED BY <2>2, <3>1, BFacts
  <2>8. \A g \in Handles : Share(conn'[g].open, g \in link', conn'[g].outBufs, ctl'[g],
                                 evt'[g] + Coming(rxQueue', g))
    <3> TAKE g \in Handles
    <3>1. Share(conn[g].open, g \in link, conn[g].outBufs, ctl[g], evt[g] + Coming(rxQueue, g))
      BY BFacts
    <3>2. CASE g # h
      BY <1>1, <2>1, <2>7, <3>1, <3>2
    <3>3. CASE g = h
      BY <1>1, <2>1, <2>3, <2>7, <3>1, <3>3 DEF Share
    <3> QED BY <3>2, <3>3
  <2> QED BY <1>2, <2>1, <2>6, <2>8, BFacts DEF BInv, CreditInv
<1>4. ASSUME NEW h \in Handles, CtlClose(h) PROVE BInv'
  <2> DEFINE e == [type |-> "close", h |-> h]
  <2>1. /\ h \in link /\ link' = link \ {h} /\ ctl' = [ctl EXCEPT ![h] = 0]
        /\ rxQueue' = Append(rxQueue, e)
    BY <1>4 DEF CtlClose
  <2>2. /\ e \in Event /\ Is(e, "close", h) /\ \A g \in Handles : Completed(e, g) = 0
        /\ \A g \in Handles : g # h => ~ Is(e, "open", g) /\ ~ Is(e, "close", g)
    BY DEF Event, Is, Completed
  <2> HIDE DEF e
  <2>3. ctl' \in [Handles -> Int] /\ ctl'[h] = 0 /\ \A g \in Handles : g # h => ctl'[g] = ctl[g]
    BY <2>1, BFacts
  <2>4. LinkOk(rxQueue', h, conn[h].open, FALSE)
    <3>1. LinkOk(rxQueue, h, conn[h].open, TRUE)
      <4>1. (h \in link) = TRUE
        BY <2>1
      <4>2. LinkOk(rxQueue, h, conn[h].open, h \in link)
        BY BFacts
      <4> QED BY <4>1, <4>2
    <3> QED BY <2>1, <2>2, <3>1, BFacts, LinkDown
  <2>5. ASSUME NEW g \in Handles, g # h PROVE LinkOk(rxQueue', g, conn[g].open, g \in link)
    <3>1. (g \in link) \in BOOLEAN
      OBVIOUS
    <3> QED BY <2>1, <2>2, <2>5, <3>1, BFacts, LinkNews
  <2>6. LinkInv'
    <3>1. ASSUME NEW g \in Handles PROVE LinkOk(rxQueue', g, conn'[g].open, g \in link')
      <4>1. CASE g = h
        <5>1. (g \in link') = FALSE
          BY <2>1, <4>1
        <5> QED BY <1>1, <2>4, <4>1, <5>1
      <4>2. CASE g # h
        <5>1. (g \in link') = (g \in link)
          BY <2>1, <4>2
        <5>2. LinkOk(rxQueue', g, conn[g].open, g \in link)
          BY <2>5, <4>2
        <5> QED BY <1>1, <5>1, <5>2
      <4> QED BY <4>1, <4>2
    <3> QED BY <3>1 DEF LinkInv
  <2>7. \A g \in Handles : Coming(rxQueue', g) = Coming(rxQueue, g)
    <3> TAKE g \in Handles
    <3>1. Coming(rxQueue', g) = Coming(rxQueue, g) + Completed(e, g)
      BY <2>1, <2>2, BFacts, ComingAppend
    <3> QED BY <2>2, <3>1, BFacts
  <2>8. \A g \in Handles : Share(conn'[g].open, g \in link', conn'[g].outBufs, ctl'[g],
                                 evt'[g] + Coming(rxQueue', g))
    <3> TAKE g \in Handles
    <3>1. Share(conn[g].open, g \in link, conn[g].outBufs, ctl[g], evt[g] + Coming(rxQueue, g))
      BY BFacts
    <3>2. CASE g # h
      BY <1>1, <2>1, <2>3, <2>7, <3>1, <3>2
    <3>3. CASE g = h
      <4>1. Share(conn[h].open, FALSE, conn[h].outBufs, 0, evt[h] + Coming(rxQueue, h))
        BY <2>1, <3>1, <3>3, BFacts DEF Share
      <4>2. (g \in link') = FALSE /\ ctl'[g] = 0
        BY <2>1, <2>3, <3>3
      <4> QED BY <1>1, <2>7, <3>3, <4>1, <4>2
    <3> QED BY <3>2, <3>3
  <2> QED BY <1>2, <2>1, <2>3, <2>6, <2>8, BFacts DEF BInv, CreditInv
<1>5. ASSUME NEW n \in Counts, CtlComplete(n) PROVE BInv'
  <2> DEFINE e == [type |-> "cmpl", n |-> n]
  <2>1. /\ \A h \in Handles : n[h] > 0 => h \in link /\ n[h] <= ctl[h]
        /\ link' = link /\ ctl' = [h \in Handles |-> ctl[h] - n[h]]
        /\ rxQueue' = Append(rxQueue, e)
    BY <1>5 DEF CtlComplete
  <2>2. \A g \in Handles : n[g] \in Nat
    BY AclAssumption DEF Counts
  <2>3. /\ e \in Event /\ \A g \in Handles : Completed(e, g) = n[g]
        /\ \A g \in Handles : ~ Is(e, "open", g) /\ ~ Is(e, "close", g)
    BY DEF Event, Is, Completed
  <2> HIDE DEF e
  <2>4. ctl' \in [Handles -> Int] /\ \A g \in Handles : ctl'[g] = ctl[g] - n[g]
    BY <2>1, <2>2, BFacts
  <2>5. ASSUME NEW g \in Handles PROVE LinkOk(rxQueue', g, conn[g].open, g \in link)
    <3>1. (g \in link) \in BOOLEAN /\ (g \in link \/ Completed(e, g) = 0)
      BY <2>1, <2>2, <2>3
    <3> QED BY <2>1, <2>3, <2>5, <3>1, BFacts, LinkNews, ZenonT(40)
  <2>6. LinkInv'
    BY <1>1, <2>1, <2>5 DEF LinkInv
  <2>7. \A g \in Handles : Coming(rxQueue', g) = Coming(rxQueue, g) + n[g]
    BY <2>1, <2>3, BFacts, ComingAppend
  <2>8. \A g \in Handles : Share(conn'[g].open, g \in link', conn'[g].outBufs, ctl'[g],
                                 evt'[g] + Coming(rxQueue', g))
    <3> TAKE g \in Handles
    <3>1. Share(conn[g].open, g \in link, conn[g].outBufs, ctl[g], evt[g] + Coming(rxQueue, g))
      BY BFacts
    <3>2. n[g] \in Nat /\ (n[g] > 0 => g \in link /\ n[g] <= ctl[g])
      BY <2>1, <2>2
    <3>3. Share(conn[g].open, g \in link, conn[g].outBufs, ctl[g] - n[g],
                evt[g] + (Coming(rxQueue, g) + n[g]))
      BY <3>1, <3>2, BFacts DEF Share
    <3> QED BY <1>1, <2>1, <2>4, <2>7, <3>3
  <2> QED BY <1>2, <2>1, <2>4, <2>6, <2>8, BFacts DEF BInv, CreditInv
<1> QED BY <1>3, <1>4, <1>5 DEF Controller

LEMMA FinishFacts ==
  ASSUME IInv, FinishSend
  PROVE  /\ at = "send" /\ at' = cur.back /\ cur \in Sending /\ cur.h \in Handles /\ cur.len \in Lens
         /\ \A g \in Handles : /\ conn'[g].open = conn[g].open /\ conn'[g].outBufs = conn[g].outBufs
                               /\ conn'[g].fragmenting = conn[g].fragmenting
                               /\ conn'[g].remLen = conn[g].remLen
                               /\ g # cur.h => conn'[g].queuedBufs = conn[g].queuedBufs
         /\ conn'[cur.h].queuedBufs = conn[cur.h].queuedBufs + NumFrags(cur.len)
         /\ availBufs' = availBufs /\ evt' = evt /\ credit' = credit /\ aclQueue' = aclQueue
         /\ UNCHANGED <<link, ctl, rxQueue>>
<1> DEFINE h == cur.h
           c == conn[h]
           q == c.queuedBufs + NumFrags(cur.len)
           off == q >= QueueHi /\ ~c.flowDisabled
           d == [c EXCEPT !.queuedBufs = q, !.flowDisabled = @ \/ off,
                          !.attOff = @ \/ off, !.smpOff = @ \/ off]
<1>1. /\ at = "send" /\ at' = cur.back /\ aclQueue' = aclQueue /\ availBufs' = availBufs
      /\ evt' = evt /\ credit' = credit /\ UNCHANGED <<link, ctl, rxQueue>>
      /\ conn' = [conn EXCEPT ![h] = d]
  BY DEF FinishSend, radio
<1>2. cur \in Sending /\ h \in Handles /\ cur.len \in Lens
  BY <1>1 DEF IInv, Types, Sending
<1>3. c \in IntConn /\ conn \in [Handles -> IntConn]
  BY <1>2 DEF IInv, Types
<1> HIDE DEF q, off
<1>4. /\ d.open = c.open /\ d.outBufs = c.outBufs /\ d.fragmenting = c.fragmenting
      /\ d.remLen = c.remLen /\ d.queuedBufs = q
  BY <1>3 DEF IntConn
<1> HIDE DEF h, d
<1>5. conn'[h] = d /\ \A g \in Handles : g # h => conn'[g] = conn[g]
  BY <1>1, <1>2, <1>3
<1> QED BY <1>1, <1>2, <1>4, <1>5 DEF h, q

LEMMA CallSendKeeps ==
  ASSUME IInv, IInv', BInv, NEW h \in Handles, NEW len \in Lens, CallSend(h, len),
         at \in {"idle", "flowAtt", "flowSmp"}
  PROVE  BInv'
<1>1. /\ conn' = conn /\ availBufs' = availBufs /\ evt' = evt /\ credit' = credit
      /\ UNCHANGED <<link, ctl, rxQueue>> /\ at' \in {"start", "send"} /\ cur'.back = at
  BY DEF CallSend, radio
<1>2. InCmpl => InCmpl'
  BY <1>1 DEF InCmpl
<1> QED BY <1>1, <1>2, QuietSteps

LEMMA TxReadyKeeps ==
  ASSUME IInv, IInv', BInv, TxReady
  PROVE  BInv'
<1>1. at = "txReady" /\ cur' = cur /\ evt' = evt /\ credit' = credit
  BY DEF TxReady
<1>2. Types
  BY DEF IInv
<1>3. ASSUME availBufs > 0, NEW h \in Fragmenting, TxAclContinue(h), UNCHANGED <<aclQueue, at>>
      PROVE  BInv'
  <2>1. h \in Handles /\ conn[h].open
    BY DEF Fragmenting
  <2>2. Piece(h)
    BY <1>2, <1>3, <2>1, PieceContinued
  <2>3. InCmpl' = InCmpl
    BY <1>1, <1>3 DEF InCmpl
  <2> QED BY <1>1, <1>3, <2>1, <2>2, <2>3, PieceKeeps
<1>4. ASSUME availBufs > 0, Fragmenting = {}, aclQueue # <<>>,
             IF conn[Head(aclQueue).h].open
             THEN TxAclStart(Head(aclQueue).h, Head(aclQueue).len)
             ELSE UNCHANGED <<conn, availBufs, radio>>, at' = at
      PROVE  BInv'
  <2>1. PICK h \in Handles, len \in Lens : h = Head(aclQueue).h /\ len = Head(aclQueue).len
    <3>1. Head(aclQueue) \in Packet
      BY <1>2, <1>4 DEF Types
    <3> QED BY <3>1 DEF Packet
  <2>2. InCmpl' = InCmpl
    BY <1>1, <1>4 DEF InCmpl
  <2>3. CASE conn[h].open
    <3>1. ~ conn[h].fragmenting
      BY <1>4, <2>1, <2>3 DEF Fragmenting
    <3>2. TxAclStart(h, len)
      BY <1>4, <2>1, <2>3
    <3>3. Piece(h)
      BY <1>2, <2>1, <3>1, <3>2, PieceStarted
    <3> QED BY <1>1, <1>4, <2>1, <2>2, <2>3, <3>3, PieceKeeps
  <2>4. CASE ~ conn[h].open
    <3>1. UNCHANGED <<conn, availBufs, radio>>
      BY <1>4, <2>1, <2>4
    <3> QED BY <1>1, <2>2, <3>1, QuietSteps DEF radio
  <2> QED BY <2>3, <2>4
<1>5. ASSUME at' = "idle", UNCHANGED <<conn, availBufs, aclQueue, radio>>
      PROVE  BInv'
  <2>1. InCmpl => InCmpl'
    BY <1>1 DEF InCmpl
  <2> QED BY <1>1, <1>5, <2>1, QuietSteps DEF radio
<1> QED BY <1>3, <1>4, <1>5 DEF TxReady

LEMMA BNext == IInv /\ IInv' /\ BInv /\ [Next]_vars => BInv'
<1> SUFFICES ASSUME IInv, IInv', BInv, [Next]_vars PROVE BInv'
  OBVIOUS
<1>0. Types
  BY DEF IInv
<1>1. CASE Send
  BY <1>1, CallSendKeeps DEF Send
<1>2. CASE StartSend
  <2>1. /\ at = "start" /\ at' = "send" /\ cur' = cur /\ evt' = evt /\ credit' = credit
        /\ TxAclStart(cur.h, cur.len)
    BY <1>2 DEF StartSend
  <2>2. cur.h \in Handles /\ cur.len \in Lens
    BY <1>0, <2>1 DEF Types, Sending
  <2>3. availBufs > 0 /\ conn[cur.h].open /\ ~ conn[cur.h].fragmenting
    BY <2>1, <2>2 DEF IInv, CutInv, Frag
  <2>4. Piece(cur.h)
    BY <1>0, <2>1, <2>2, <2>3, PieceStarted
  <2>5. InCmpl' = InCmpl
    BY <2>1 DEF InCmpl
  <2> QED BY <2>1, <2>2, <2>3, <2>4, <2>5, PieceKeeps
<1>3. CASE ContinueSend
  <2>1. /\ at = "send" /\ at' = at /\ cur' = cur /\ evt' = evt /\ credit' = credit
        /\ TxAclContinue(cur.h) /\ availBufs > 0 /\ conn[cur.h].fragmenting
    BY <1>3 DEF ContinueSend
  <2>2. cur.h \in Handles
    BY <1>0, <2>1 DEF Types, Sending
  <2>3. conn[cur.h].open
    BY <2>1, <2>2 DEF IInv, CutInv, Frag
  <2>4. Piece(cur.h)
    BY <1>0, <2>1, <2>2, PieceContinued
  <2>5. InCmpl' = InCmpl
    BY <2>1 DEF InCmpl
  <2> QED BY <2>1, <2>2, <2>3, <2>4, <2>5, PieceKeeps
<1>4. CASE FinishSend
  <2>1. InCmpl => InCmpl'
    BY <1>4, FinishFacts DEF InCmpl, Sending
  <2> QED BY <1>4, <2>1, FinishFacts, QuietSteps
<1>5. CASE TxReady
  BY <1>5, TxReadyKeeps
<1>6. CASE ConnOpen
  BY <1>6, OpenKeeps
<1>7. CASE ConnClose
  BY <1>7, CloseKeeps
<1>8. CASE NumCmplPkts
  BY <1>8, CountsHeard
<1>9. CASE CmplHandle
  BY <1>9, HandleCredited
<1>10. CASE FlowAtt
  <2>1. at = "flowAtt" /\ resumed \subseteq Handles
    BY <1>0, <1>10 DEF FlowAtt, Types
  <2>2. CASE \E h \in resumed, len \in Lens : CallSend(h, len)
    BY <2>1, <2>2, CallSendKeeps
  <2>3. CASE ~ \E h \in resumed, len \in Lens : CallSend(h, len)
    <3>1. PICK h \in resumed :
            /\ at' = "flowSmp"
            /\ conn' = [conn EXCEPT ![h].smpOff = FALSE]
            /\ UNCHANGED <<availBufs, aclQueue, cur, evt, resumed, credit, radio>>
      BY <1>10, <2>3 DEF FlowAtt
    <3>2. conn[h] \in IntConn /\ conn \in [Handles -> IntConn] /\ h \in Handles
      BY <1>0, <2>1 DEF Types
    <3>3. \A g \in Handles : conn'[g].open = conn[g].open /\ conn'[g].outBufs = conn[g].outBufs
      BY <3>1, <3>2 DEF IntConn
    <3>4. InCmpl'
      BY <3>1 DEF InCmpl
    <3> QED BY <3>1, <3>3, <3>4, QuietSteps DEF radio
  <2> QED BY <2>2, <2>3
<1>11. CASE FlowSmp
  <2>1. at = "flowSmp" /\ resumed \subseteq Handles
    BY <1>0, <1>11 DEF FlowSmp, Types
  <2>2. CASE \E h \in resumed, len \in Lens : CallSend(h, len)
    BY <2>1, <2>2, CallSendKeeps
  <2>3. CASE ~ \E h \in resumed, len \in Lens : CallSend(h, len)
    <3>1. at' = "cmpl" /\ UNCHANGED <<core, cur, evt, credit, radio>>
      BY <1>11, <2>3 DEF FlowSmp
    <3>2. InCmpl'
      BY <3>1 DEF InCmpl
    <3> QED BY <3>1, <3>2, QuietSteps DEF core, radio
  <2> QED BY <2>2, <2>3
<1>12. CASE CmplDone
  BY <1>12, CreditGiven
<1>13. CASE Controller
  BY <1>13, ControllerKeeps
<1>14. CASE UNCHANGED vars
  <2>1. InCmpl' = InCmpl
    BY <1>14 DEF vars, InCmpl
  <2> QED BY <1>14, <2>1, QuietSteps DEF vars, core, radio
<1> QED
  BY <1>1, <1>2, <1>3, <1>4, <1>5, <1>6, <1>7, <1>8, <1>9, <1>10, <1>11, <1>12, <1>13, <1>14
  DEF Next, Host

LEMMA BInvariant == Spec => [](IInv /\ BInv)
<1>1. Init => IInv /\ BInv
  BY InitInv, BInit
<1>2. (IInv /\ BInv) /\ [Next]_vars => (IInv /\ BInv)'
  BY NextInv, BNext
<1> QED BY <1>1, <1>2, PTL DEF Spec

(* What is free, what connections hold and what is being given back make   *)
(* up NumBufs through any order of completions, losses and reopenings, and *)
(* a connection holds the pieces in the controller and the completions it  *)
(* has not handled.                                                        *)
THEOREM NoCreditLost == Spec => []CreditsConserved
<1>1. IInv /\ BInv => CreditsConserved
  <2> SUFFICES ASSUME IInv, BInv PROVE CreditsConserved
    OBVIOUS
  <2>1. OutBufs = HeldBy(conn)
    BY DEF OutBufs, HeldBy
  <2>2. \A h \in Handles : OnTheWay(h) = evt[h] + Coming(rxQueue, h)
    BY DEF OnTheWay, Coming
  <2>3. ASSUME NEW h \in link, conn[h].open PROVE conn[h].outBufs = ctl[h] + OnTheWay(h)
    <3>1. h \in Handles
      BY BFacts
    <3>2. Share(conn[h].open, h \in link, conn[h].outBufs, ctl[h], evt[h] + Coming(rxQueue, h))
      BY <3>1, BFacts
    <3>3. conn[h].outBufs = ctl[h] + (evt[h] + Coming(rxQueue, h))
      BY <2>3, <3>2 DEF Share
    <3> QED BY <2>2, <3>1, <3>3
  <2> QED BY <2>1, <2>3, BFacts DEF CreditsConserved
<1> QED BY <1>1, BInvariant, PTL

-----------------------------------------------------------------------------
(* What flow control counts.                                               *)

(* A packet as long as BufSize or shorter is one piece, a longer one is a  *)
(* piece and the pieces of the rest.                                       *)
LEMMA PiecesOf ==
  ASSUME NEW n \in Int, n >= 1
  PROVE  /\ NumFrags(n) \in Int
         /\ n > BufSize => NumFrags(n) = 1 + NumFrags(n - BufSize)
         /\ ~ (n > BufSize) => NumFrags(n) = 1
<1> DEFINE a == n - 1
<1>1. a \in Nat /\ BufSize \in Nat \ {0}
  BY AclAssumption
<1>2. NumFrags(n) = (a \div BufSize) + 1 /\ NumFrags(n - BufSize) = ((n - BufSize) - 1) \div BufSize + 1
  BY DEF NumFrags
<1>3. a \div BufSize \in Int
  BY <1>1
<1>4. ASSUME n > BufSize
      PROVE  NumFrags(n) = 1 + NumFrags(n - BufSize)
  <2>1. a >= BufSize /\ a - BufSize = (n - BufSize) - 1 /\ a - BufSize \in Nat
    BY <1>1, <1>4
  <2> HIDE DEF a
  <2>2. a \div BufSize = ((a - BufSize) \div BufSize) + 1
    BY <1>1, <2>1
  <2>3. (a - BufSize) \div BufSize \in Int
    BY <1>1, <2>1
  <2> QED BY <1>2, <2>1, <2>2, <2>3
<1>5. ASSUME ~ (n > BufSize)
      PROVE  NumFrags(n) = 1
  <2>1. a < BufSize
    BY <1>1, <1>5
  <2> HIDE DEF a
  <2>2. a \div BufSize = 0
    BY <1>1, <2>1
  <2> QED BY <1>2, <2>2
<1> HIDE DEF a
<1> QED BY <1>2, <1>3, <1>4, <1>5

(* What a connection's counter stands for: the packet inside               *)
(* HciSendAclData, the rest of the packet that is cut, what is in aclQueue.*)
Pending(h) == IF at = "send" /\ cur.h = h THEN NumFrags(cur.len) ELSE 0
Rest(c) == IF c.fragmenting THEN NumFrags(c.remLen) ELSE 0
Announced(h) == \E i \in DOMAIN rxQueue : Is(rxQueue[i], "open", h)

QInv == \A h \in Handles :
  /\ conn[h].fragmenting => conn[h].remLen >= 1
  /\ conn[h].open => conn[h].queuedBufs + Pending(h)
                       = conn[h].outBufs + Rest(conn[h]) + Queued(aclQueue, h)
  /\ Announced(h) => \A j \in DOMAIN aclQueue : aclQueue[j].h # h

LEMMA QFacts ==
  ASSUME IInv, QInv, NEW h \in Handles
  PROVE  /\ conn[h] \in IntConn /\ conn[h].open \in BOOLEAN /\ conn[h].fragmenting \in BOOLEAN
         /\ conn[h].outBufs \in Int /\ conn[h].queuedBufs \in Int /\ conn[h].remLen \in Int
         /\ Queued(aclQueue, h) \in Int /\ Pending(h) \in Int /\ Rest(conn[h]) \in Int
<1>1. conn[h] \in IntConn /\ aclQueue \in Seq(Packet)
  BY DEF IInv, Types
<1>2. Queued(aclQueue, h) \in Int
  BY <1>1, QueuedInt
<1>3. Pending(h) \in Int
  <2>1. CASE at = "send"
    <3>1. cur.len \in Lens
      BY <2>1 DEF IInv, Types, Sending
    <3>2. NumFrags(cur.len) \in Int
      BY <3>1, NumFragsInt
    <3> QED BY <3>2 DEF Pending
  <2>2. CASE at # "send"
    BY <2>2 DEF Pending
  <2> QED BY <2>1, <2>2
<1>4. Rest(conn[h]) \in Int
  <2>1. CASE conn[h].fragmenting
    <3>1. conn[h].remLen \in Int /\ conn[h].remLen >= 1
      BY <1>1, <2>1 DEF IntConn, QInv
    <3>2. NumFrags(conn[h].remLen) \in Int
      BY <3>1, PiecesOf
    <3> QED BY <2>1, <3>2 DEF Rest
  <2>2. CASE ~ conn[h].fragmenting
    BY <2>2 DEF Rest
  <2> QED BY <2>1, <2>2
<1> QED BY <1>1, <1>2, <1>3, <1>4 DEF IntConn

(* A connection's packets wait only while it is not announced anew.        *)
LEMMA OpenUnannounced ==
  ASSUME IInv, BInv, NEW h \in Handles, conn[h].open
  PROVE  ~ Announced(h)
<1>1. LinkOk(rxQueue, h, conn[h].open, h \in link)
  BY BFacts
<1> QED BY <1>1 DEF LinkOk, Announced

LEMMA QInit == Init => QInv
<1> SUFFICES ASSUME Init PROVE QInv
  OBVIOUS
<1>1. /\ \A h \in Handles : conn[h] = Closed
      /\ rxQueue = <<>>
  BY DEF Init
<1>2. \A h \in Handles : ~ Announced(h)
  BY <1>1 DEF Announced
<1>3. Closed.fragmenting = FALSE /\ Closed.open = FALSE
  BY DEF Closed
<1> QED BY <1>1, <1>2, <1>3 DEF QInv

(* Steps outside HciSendAclData that leave the packets as they are; `d'    *)
(* counters may be changed by completions.                                 *)
LEMMA QSteady ==
  ASSUME IInv, QInv, aclQueue' = aclQueue, at # "send", at' # "send",
         \A g \in Handles :
           /\ conn'[g].open = conn[g].open /\ conn'[g].fragmenting = conn[g].fragmenting
           /\ conn'[g].remLen = conn[g].remLen
           /\ conn[g].open => /\ conn'[g].outBufs \in Int /\ conn'[g].queuedBufs \in Int
                              /\ conn'[g].queuedBufs - conn'[g].outBufs
                                    = conn[g].queuedBufs - conn[g].outBufs
           /\ Announced(g)' => Announced(g)
  PROVE  QInv'
<1> SUFFICES ASSUME NEW g \in Handles
             PROVE  /\ conn'[g].fragmenting => conn'[g].remLen >= 1
                    /\ conn'[g].open => conn'[g].queuedBufs + Pending(g)'
                          = conn'[g].outBufs + Rest(conn'[g]) + Queued(aclQueue', g)
                    /\ Announced(g)' => \A j \in DOMAIN aclQueue' : aclQueue'[j].h # g
  BY DEF QInv
<1>1. Pending(g)' = 0 /\ Pending(g) = 0
  BY DEF Pending
<1>2. Rest(conn'[g]) = Rest(conn[g])
  BY DEF Rest
<1>3. conn[g].open => conn[g].queuedBufs + Pending(g)
                        = conn[g].outBufs + Rest(conn[g]) + Queued(aclQueue, g)
  BY DEF QInv
<1>4. conn'[g].open => conn'[g].queuedBufs + Pending(g)'
                          = conn'[g].outBufs + Rest(conn'[g]) + Queued(aclQueue', g)
  <2>1. /\ conn[g].outBufs \in Int /\ conn[g].queuedBufs \in Int
        /\ Queued(aclQueue, g) \in Int /\ Rest(conn[g]) \in Int
    BY QFacts
  <2>2. Queued(aclQueue', g) = Queued(aclQueue, g)
    OBVIOUS
  <2>3. conn[g].open => conn'[g].queuedBufs
                          = conn'[g].outBufs + Rest(conn[g]) + Queued(aclQueue, g)
    <3> SUFFICES ASSUME conn[g].open
                 PROVE  conn'[g].queuedBufs = conn'[g].outBufs + Rest(conn[g]) + Queued(aclQueue, g)
      OBVIOUS
    <3>1. /\ conn'[g].outBufs \in Int /\ conn'[g].queuedBufs \in Int
          /\ conn'[g].queuedBufs - conn'[g].outBufs = conn[g].queuedBufs - conn[g].outBufs
      OBVIOUS
    <3>2. conn[g].queuedBufs = conn[g].outBufs + Rest(conn[g]) + Queued(aclQueue, g)
      BY <1>1, <1>3, <2>1
    <3> QED BY <2>1, <3>1, <3>2
  <2> QED BY <1>1, <1>2, <2>2, <2>3
<1>5. conn'[g].fragmenting => conn'[g].remLen >= 1
  BY DEF QInv
<1>6. Announced(g)' => \A j \in DOMAIN aclQueue' : aclQueue'[j].h # g
  BY DEF QInv
<1> QED BY <1>4, <1>5, <1>6

(* A piece, of a packet of which `fresh' pieces were not counted before.   *)
LEMMA QPiece ==
  ASSUME IInv, QInv, NEW h \in Handles, Piece(h),
         conn'[h].fragmenting => conn'[h].remLen >= 1,
         Rest(conn'[h]) + 1 + Queued(aclQueue', h) - Pending(h)'
           = Rest(conn[h]) + Queued(aclQueue, h) - Pending(h),
         Rest(conn'[h]) \in Int, Queued(aclQueue', h) \in Int, Pending(h)' \in Int,
         \A g \in Handles : g # h => Pending(g)' = Pending(g) /\ Queued(aclQueue', g) = Queued(aclQueue, g),
         \A j \in DOMAIN aclQueue' : \E i \in DOMAIN aclQueue : aclQueue'[j] = aclQueue[i]
  PROVE  QInv'
<1> SUFFICES ASSUME NEW g \in Handles
             PROVE  /\ conn'[g].fragmenting => conn'[g].remLen >= 1
                    /\ conn'[g].open => conn'[g].queuedBufs + Pending(g)'
                          = conn'[g].outBufs + Rest(conn'[g]) + Queued(aclQueue', g)
                    /\ Announced(g)' => \A j \in DOMAIN aclQueue' : aclQueue'[j].h # g
  BY DEF QInv
<1>1. Announced(g)' = Announced(g)
  BY DEF Announced, Piece
<1>2. Announced(g)' => \A j \in DOMAIN aclQueue' : aclQueue'[j].h # g
  BY <1>1 DEF QInv
<1>3. conn[g].open => conn[g].queuedBufs + Pending(g)
                        = conn[g].outBufs + Rest(conn[g]) + Queued(aclQueue, g)
  BY DEF QInv
<1>4. CASE g # h
  <2>1. conn'[g] = conn[g]
    BY <1>4 DEF Piece
  <2> QED BY <1>2, <1>3, <1>4, <2>1 DEF QInv
<1>5. CASE g = h
  <2>1. /\ conn'[h].open = conn[h].open /\ conn'[h].outBufs = conn[h].outBufs + 1
        /\ conn'[h].queuedBufs = conn[h].queuedBufs
    BY DEF Piece
  <2>2. conn'[h].open => conn'[h].queuedBufs + Pending(h)'
                            = conn'[h].outBufs + Rest(conn'[h]) + Queued(aclQueue', h)
    BY <1>3, <1>5, <2>1, QFacts
  <2> QED BY <1>2, <1>5, <2>2
<1> QED BY <1>4, <1>5

(* What is left to send after the first piece of a packet, and after       *)
(* another one.                                                            *)
LEMMA RestStarted ==
  ASSUME IInv, NEW h \in Handles, NEW len \in Lens, TxAclStart(h, len), ~ conn[h].fragmenting
  PROVE  /\ Piece(h) /\ Rest(conn[h]) = 0
         /\ Rest(conn'[h]) = NumFrags(len) - 1 /\ Rest(conn'[h]) \in Int /\ NumFrags(len) \in Int
         /\ conn'[h].fragmenting => conn'[h].remLen >= 1
<1>1. Types
  BY DEF IInv
<1>2. /\ Piece(h)
      /\ conn'[h].fragmenting = (len > BufSize)
      /\ len > BufSize => conn'[h].remLen = len - BufSize
  BY <1>1, PieceStarted
<1>3. len \in Int /\ len >= 1 /\ BufSize \in Nat
  BY AclAssumption
<1>4. NumFrags(len) \in Int
  BY <1>3, PiecesOf
<1>5. CASE len > BufSize
  <2>1. NumFrags(len) = 1 + NumFrags(len - BufSize)
    BY <1>3, <1>5, PiecesOf
  <2>2. len - BufSize \in Int /\ len - BufSize >= 1
    BY <1>3, <1>5
  <2>3. NumFrags(len - BufSize) \in Int
    BY <2>2, PiecesOf
  <2>4. Rest(conn'[h]) = NumFrags(len - BufSize)
    BY <1>2, <1>5 DEF Rest
  <2> QED BY <1>2, <1>4, <1>5, <2>1, <2>2, <2>3, <2>4 DEF Rest
<1>6. CASE ~ (len > BufSize)
  <2>1. NumFrags(len) = 1
    BY <1>3, <1>6, PiecesOf
  <2>2. Rest(conn'[h]) = 0 /\ ~ conn'[h].fragmenting
    BY <1>2, <1>6 DEF Rest
  <2> QED BY <1>2, <1>4, <2>1, <2>2 DEF Rest
<1> QED BY <1>5, <1>6

LEMMA RestContinued ==
  ASSUME IInv, QInv, NEW h \in Handles, TxAclContinue(h), conn[h].fragmenting
  PROVE  /\ Piece(h)
         /\ Rest(conn'[h]) = Rest(conn[h]) - 1 /\ Rest(conn'[h]) \in Int
         /\ conn'[h].fragmenting => conn'[h].remLen >= 1
<1> DEFINE n == conn[h].remLen
<1>1. Types
  BY DEF IInv
<1>2. n \in Int /\ n >= 1 /\ BufSize \in Nat
  BY AclAssumption, QFacts DEF QInv
<1>3. /\ Piece(h)
      /\ conn'[h].fragmenting = (n > BufSize)
      /\ n > BufSize => conn'[h].remLen = n - BufSize
  BY <1>1, <1>2, PieceContinued
<1>4. Rest(conn[h]) = NumFrags(n) /\ NumFrags(n) \in Int
  BY <1>2, PiecesOf DEF Rest
<1> HIDE DEF n
<1>5. CASE n > BufSize
  <2>1. NumFrags(n) = 1 + NumFrags(n - BufSize)
    BY <1>2, <1>5, PiecesOf
  <2>2. n - BufSize \in Int /\ n - BufSize >= 1
    BY <1>2, <1>5
  <2>3. NumFrags(n - BufSize) \in Int
    BY <2>2, PiecesOf
  <2>4. Rest(conn'[h]) = NumFrags(n - BufSize)
    BY <1>3, <1>5 DEF Rest
  <2> QED BY <1>3, <1>4, <1>5, <2>1, <2>2, <2>3, <2>4
<1>6. CASE ~ (n > BufSize)
  <2>1. NumFrags(n) = 1
    BY <1>2, <1>6, PiecesOf
  <2>2. Rest(conn'[h]) = 0 /\ ~ conn'[h].fragmenting
    BY <1>3, <1>6 DEF Rest
  <2> QED BY <1>3, <1>4, <2>1, <2>2
<1> QED BY <1>5, <1>6

LEMMA CallSendQueues ==
  ASSUME IInv, BInv, QInv, NEW h \in Handles, NEW len \in Lens, CallSend(h, len),
         at \in {"idle", "flowAtt", "flowSmp"}
  PROVE  QInv'
<1> DEFINE p == [h |-> h, len |-> len]
<1>1. /\ conn' = conn /\ rxQueue' = rxQueue /\ conn[h].open
      /\ cur' = [h |-> h, len |-> len, back |-> at]
      /\ \/ at' = "start" /\ aclQueue' = aclQueue
         \/ at' = "send" /\ aclQueue' = Append(aclQueue, p)
  BY DEF CallSend, radio
<1>2. \A g \in Handles : Announced(g)' = Announced(g)
  BY <1>1 DEF Announced
<1>3. CASE at' = "start" /\ aclQueue' = aclQueue
  BY <1>1, <1>2, <1>3, QSteady, QFacts
<1>4. CASE at' = "send" /\ aclQueue' = Append(aclQueue, p)
  <2>1. aclQueue \in Seq(Packet) /\ p \in Packet /\ p.h = h /\ p.len = len
    BY DEF IInv, Types, Packet
  <2> HIDE DEF p
  <2> SUFFICES ASSUME NEW g \in Handles
               PROVE  /\ conn'[g].fragmenting => conn'[g].remLen >= 1
                      /\ conn'[g].open => conn'[g].queuedBufs + Pending(g)'
                            = conn'[g].outBufs + Rest(conn'[g]) + Queued(aclQueue', g)
                      /\ Announced(g)' => \A j \in DOMAIN aclQueue' : aclQueue'[j].h # g
    BY DEF QInv
  <2>2. Queued(aclQueue', g) = Queued(aclQueue, g) + Frags(p, g)
    BY <1>4, <2>1, QueuedAppend
  <2>3. Pending(g) = 0 /\ Pending(g)' = Frags(p, g)
    BY <1>1, <1>4, <2>1 DEF Pending, Frags
  <2>4. Frags(p, g) \in Int
    BY <2>1, FragsInt
  <2>5. conn[g].open => conn[g].queuedBufs + Pending(g)
                          = conn[g].outBufs + Rest(conn[g]) + Queued(aclQueue, g)
    BY DEF QInv
  <2>6. conn'[g].open => conn'[g].queuedBufs + Pending(g)'
                            = conn'[g].outBufs + Rest(conn'[g]) + Queued(aclQueue', g)
    BY <1>1, <2>2, <2>3, <2>4, <2>5, QFacts
  <2>7. Announced(g)' => \A j \in DOMAIN aclQueue' : aclQueue'[j].h # g
    <3> SUFFICES ASSUME Announced(g)' PROVE \A j \in DOMAIN aclQueue' : aclQueue'[j].h # g
      OBVIOUS
    <3>1. \A j \in DOMAIN aclQueue : aclQueue[j].h # g
      BY <1>2 DEF QInv
    <3>2. g # h
      BY <1>1, <1>2, OpenUnannounced
    <3>3. \A j \in DOMAIN aclQueue' : aclQueue'[j] = p \/ \E i \in DOMAIN aclQueue : aclQueue'[j] = aclQueue[i]
      BY <1>4, <2>1, LastPlace
    <3> QED BY <2>1, <3>1, <3>2, <3>3
  <2> QED BY <1>1, <2>6, <2>7 DEF QInv
<1> QED BY <1>1, <1>3, <1>4

LEMMA StartSendQueues ==
  ASSUME IInv, QInv, StartSend
  PROVE  QInv'
<1>1. /\ at = "start" /\ at' = "send" /\ cur' = cur /\ aclQueue' = aclQueue
      /\ TxAclStart(cur.h, cur.len)
  BY DEF StartSend
<1>2. PICK h \in Handles, len \in Lens : h = cur.h /\ len = cur.len
  BY <1>1 DEF IInv, Types, Sending
<1>3. ~ conn[h].fragmenting
  BY <1>1, <1>2 DEF IInv, CutInv, Frag
<1>4. /\ Piece(h) /\ Rest(conn[h]) = 0
      /\ Rest(conn'[h]) = NumFrags(len) - 1 /\ Rest(conn'[h]) \in Int
      /\ NumFrags(len) \in Int
      /\ conn'[h].fragmenting => conn'[h].remLen >= 1
  BY <1>1, <1>2, <1>3, RestStarted
<1>5. /\ \A g \in Handles : Pending(g) = 0 /\ (g # h => Pending(g)' = 0)
      /\ Pending(h)' = NumFrags(len)
  BY <1>1, <1>2 DEF Pending
<1>6. Queued(aclQueue', h) = Queued(aclQueue, h) /\ Queued(aclQueue, h) \in Int
  BY <1>1, <1>2, QFacts
<1>7. Rest(conn'[h]) + 1 + Queued(aclQueue', h) - Pending(h)'
        = Rest(conn[h]) + Queued(aclQueue, h) - Pending(h)
  BY <1>2, <1>4, <1>5, <1>6
<1> QED BY <1>1, <1>2, <1>4, <1>5, <1>6, <1>7, QPiece

LEMMA ContinueQueues ==
  ASSUME IInv, QInv, NEW h \in Handles, TxAclContinue(h), conn[h].fragmenting,
         UNCHANGED <<at, cur, aclQueue>>
  PROVE  QInv'
<1>1. /\ Piece(h)
      /\ Rest(conn'[h]) = Rest(conn[h]) - 1 /\ Rest(conn'[h]) \in Int
      /\ conn'[h].fragmenting => conn'[h].remLen >= 1
  BY RestContinued
<1>2. \A g \in Handles : Pending(g)' = Pending(g) /\ Queued(aclQueue', g) = Queued(aclQueue, g)
  BY DEF Pending
<1>3. Queued(aclQueue, h) \in Int /\ Pending(h) \in Int /\ Rest(conn[h]) \in Int
  BY QFacts
<1>4. Rest(conn'[h]) + 1 + Queued(aclQueue', h) - Pending(h)'
        = Rest(conn[h]) + Queued(aclQueue, h) - Pending(h)
  BY <1>1, <1>2, <1>3
<1> QED BY <1>1, <1>2, <1>3, <1>4, QPiece

LEMMA FinishQueues ==
  ASSUME IInv, QInv, FinishSend
  PROVE  QInv'
<1> SUFFICES ASSUME NEW g \in Handles
             PROVE  /\ conn'[g].fragmenting => conn'[g].remLen >= 1
                    /\ conn'[g].open => conn'[g].queuedBufs + Pending(g)'
                          = conn'[g].outBufs + Rest(conn'[g]) + Queued(aclQueue', g)
                    /\ Announced(g)' => \A j \in DOMAIN aclQueue' : aclQueue'[j].h # g
  BY DEF QInv
<1>1. at = "send" /\ at' # "send" /\ aclQueue' = aclQueue /\ rxQueue' = rxQueue
  BY FinishFacts DEF Sending
<1>2. Pending(g)' = 0 /\ Announced(g)' = Announced(g)
  BY <1>1 DEF Pending, Announced
<1>3. Rest(conn'[g]) = Rest(conn[g])
  BY FinishFacts DEF Rest
<1>4. conn'[g].queuedBufs = conn[g].queuedBufs + Pending(g)
  <2>1. CASE g = cur.h
    BY <1>1, <2>1, FinishFacts DEF Pending
  <2>2. CASE g # cur.h
    <3>1. Pending(g) = 0 /\ conn'[g].queuedBufs = conn[g].queuedBufs
      BY <2>2, FinishFacts DEF Pending
    <3> QED BY <3>1, QFacts
  <2> QED BY <2>1, <2>2
<1>5. conn[g].open => conn[g].queuedBufs + Pending(g)
                        = conn[g].outBufs + Rest(conn[g]) + Queued(aclQueue, g)
  BY DEF QInv
<1>6. conn'[g].open => conn'[g].queuedBufs + Pending(g)'
                          = conn'[g].outBufs + Rest(conn'[g]) + Queued(aclQueue', g)
  <2>1. conn'[g].open = conn[g].open /\ conn'[g].outBufs = conn[g].outBufs
    BY FinishFacts
  <2>2. Queued(aclQueue', g) = Queued(aclQueue, g)
    BY <1>1
  <2> QED BY <1>2, <1>3, <1>4, <1>5, <2>1, <2>2, QFacts
<1> QED BY <1>1, <1>2, <1>6, FinishFacts DEF QInv

LEMMA TxReadyQueues ==
  ASSUME IInv, QInv, TxReady
  PROVE  QInv'
<1>1. at = "txReady" /\ cur' = cur /\ aclQueue \in Seq(Packet)
  BY DEF TxReady, IInv, Types
<1>2. ASSUME NEW h \in Fragmenting, TxAclContinue(h), UNCHANGED <<aclQueue, at>>
      PROVE  QInv'
  BY <1>1, <1>2, ContinueQueues DEF Fragmenting
<1>3. ASSUME Fragmenting = {}, aclQueue # <<>>, aclQueue' = Tail(aclQueue), at' = at,
             IF conn[Head(aclQueue).h].open
             THEN TxAclStart(Head(aclQueue).h, Head(aclQueue).len)
             ELSE UNCHANGED <<conn, availBufs, radio>>
      PROVE  QInv'
  <2>1. PICK h \in Handles, len \in Lens :
          /\ h = Head(aclQueue).h /\ len = Head(aclQueue).len /\ Head(aclQueue) \in Packet
    <3>1. Head(aclQueue) \in Packet
      BY <1>1, <1>3
    <3> QED BY <3>1 DEF Packet
  <2>2. \A g \in Handles : Pending(g) = 0 /\ Pending(g)' = 0
    BY <1>1, <1>3 DEF Pending
  <2>3. /\ aclQueue' \in Seq(Packet)
        /\ \A j \in DOMAIN aclQueue' : \E i \in DOMAIN aclQueue : aclQueue'[j] = aclQueue[i]
    BY <1>1, <1>3, TailPlaces
  <2>4. \A g \in Handles : Queued(aclQueue', g) \in Int
    BY <2>3, QueuedInt
  <2>5. /\ Queued(aclQueue, h) = NumFrags(len) + Queued(aclQueue', h)
        /\ \A g \in Handles : g # h => Queued(aclQueue', g) = Queued(aclQueue, g)
    <3>1. \A g : Queued(aclQueue, g) = Frags(Head(aclQueue), g) + Queued(Tail(aclQueue), g)
      BY <1>1, <1>3, QueuedTail
    <3>2. Frags(Head(aclQueue), h) = NumFrags(len) /\ \A g : g # h => Frags(Head(aclQueue), g) = 0
      BY <2>1 DEF Frags
    <3>3. \A g \in Handles : Queued(aclQueue, g) = Frags(Head(aclQueue), g) + Queued(aclQueue', g)
      BY <1>3, <3>1
    <3>4. ASSUME NEW g \in Handles, g # h PROVE Queued(aclQueue', g) = Queued(aclQueue, g)
      <4>1. Queued(aclQueue, g) = 0 + Queued(aclQueue', g)
        BY <3>2, <3>3, <3>4
      <4> QED BY <2>4, <4>1
    <3> QED BY <2>1, <3>2, <3>3, <3>4
  <2>6. CASE conn[h].open
    <3>1. ~ conn[h].fragmenting
      BY <1>3, <2>1, <2>6 DEF Fragmenting
    <3>2. TxAclStart(h, len)
      BY <1>3, <2>1, <2>6
    <3>3. /\ Piece(h) /\ Rest(conn[h]) = 0
          /\ Rest(conn'[h]) = NumFrags(len) - 1 /\ Rest(conn'[h]) \in Int /\ NumFrags(len) \in Int
          /\ conn'[h].fragmenting => conn'[h].remLen >= 1
      BY <2>1, <3>1, <3>2, RestStarted
    <3>4. Rest(conn'[h]) + 1 + Queued(aclQueue', h) - Pending(h)'
            = Rest(conn[h]) + Queued(aclQueue, h) - Pending(h)
      <4>1. Queued(aclQueue', h) \in Int /\ Pending(h)' = 0 /\ Pending(h) = 0
        BY <2>1, <2>2, <2>4
      <4>2. Rest(conn'[h]) + 1 + Queued(aclQueue', h) - 0 = NumFrags(len) + Queued(aclQueue', h)
        BY <3>3, <4>1
      <4>3. Rest(conn[h]) + Queued(aclQueue, h) - 0 = NumFrags(len) + Queued(aclQueue', h)
        BY <2>5, <3>3, <4>1
      <4> QED BY <4>1, <4>2, <4>3
    <3> QED BY <2>1, <2>2, <2>3, <2>4, <2>5, <3>3, <3>4, QPiece
  <2>7. CASE ~ conn[h].open
    <3>1. conn' = conn /\ rxQueue' = rxQueue
      BY <1>3, <2>1, <2>7 DEF radio
    <3> SUFFICES ASSUME NEW g \in Handles
                 PROVE  /\ conn'[g].fragmenting => conn'[g].remLen >= 1
                        /\ conn'[g].open => conn'[g].queuedBufs + Pending(g)'
                              = conn'[g].outBufs + Rest(conn'[g]) + Queued(aclQueue', g)
                        /\ Announced(g)' => \A j \in DOMAIN aclQueue' : aclQueue'[j].h # g
      BY DEF QInv
    <3>2. Announced(g)' = Announced(g)
      BY <3>1 DEF Announced
    <3>3. conn[g].open => g # h
      BY <2>7
    <3>4. Announced(g)' => \A j \in DOMAIN aclQueue' : aclQueue'[j].h # g
      BY <2>3, <3>2 DEF QInv
    <3> QED BY <2>2, <2>5, <3>1, <3>3, <3>4 DEF QInv
  <2> QED BY <2>6, <2>7
<1>4. ASSUME at' = "idle", UNCHANGED <<conn, availBufs, aclQueue, radio>>
      PROVE  QInv'
  <2>1. \A g \in Handles : Announced(g)' = Announced(g)
    BY <1>4 DEF Announced, radio
  <2> QED BY <1>1, <1>4, <2>1, QFacts, QSteady
<1> QED BY <1>2, <1>3, <1>4 DEF TxReady

LEMMA OpenQueues ==
  ASSUME IInv, BInv, QInv, ConnOpen
  PROVE  QInv'
<1> DEFINE h == Head(rxQueue).h
           c == [Closed EXCEPT !.open = TRUE]
<1>1. /\ at = "idle" /\ rxQueue # <<>> /\ Head(rxQueue).type = "open"
      /\ conn' = [conn EXCEPT ![h] = c] /\ rxQueue' = Tail(rxQueue)
      /\ aclQueue' = aclQueue /\ at' = at /\ cur' = cur
  BY DEF ConnOpen, NextIs
<1>2. c.outBufs = 0 /\ c.queuedBufs = 0 /\ c.fragmenting = FALSE
  BY DEF Closed
<1>3. Head(rxQueue) \in Event /\ rxQueue \in Seq(Event)
  BY <1>1, BFacts, TailPlaces
<1>4. h \in Handles
  BY <1>1, <1>3 DEF Event
<1>5. Announced(h)
  <2>1. Is(rxQueue[1], "open", h) /\ 1 \in DOMAIN rxQueue
    BY <1>1, <1>3, TailPlaces DEF Is
  <2> QED BY <2>1 DEF Announced
<1> HIDE DEF h, c
<1>6. conn'[h] = c /\ \A g \in Handles : g # h => conn'[g] = conn[g]
  BY <1>1, <1>4 DEF IInv, Types
<1> SUFFICES ASSUME NEW g \in Handles
             PROVE  /\ conn'[g].fragmenting => conn'[g].remLen >= 1
                    /\ conn'[g].open => conn'[g].queuedBufs + Pending(g)'
                          = conn'[g].outBufs + Rest(conn'[g]) + Queued(aclQueue', g)
                    /\ Announced(g)' => \A j \in DOMAIN aclQueue' : aclQueue'[j].h # g
  BY DEF QInv
<1>7. Announced(g)' => Announced(g)
  BY <1>1, <1>3, TailPlaces DEF Announced
<1>8. Pending(g)' = Pending(g)
  BY <1>1 DEF Pending
<1>9. CASE g # h
  BY <1>1, <1>6, <1>7, <1>8, <1>9 DEF QInv
<1>10. CASE g = h
  <2>1. aclQueue \in Seq(Packet) /\ \A j \in DOMAIN aclQueue : aclQueue[j].h # h
    BY <1>4, <1>5 DEF QInv, IInv, Types
  <2>2. Queued(aclQueue, h) = 0
    BY <2>1, QueuedZero
  <2>3. Pending(g)' = 0 /\ Rest(conn'[g]) = 0
    BY <1>1, <1>2, <1>6, <1>10 DEF Pending, Rest
  <2> QED BY <1>1, <1>2, <1>6, <1>10, <2>1, <2>2, <2>3
<1> QED BY <1>9, <1>10

LEMMA CloseQueues ==
  ASSUME IInv, BInv, QInv, ConnClose
  PROVE  QInv'
<1> DEFINE h == Head(rxQueue).h
<1>1. /\ at = "idle" /\ rxQueue # <<>> /\ Head(rxQueue).type = "close"
      /\ conn' = [conn EXCEPT ![h] = Closed] /\ rxQueue' = Tail(rxQueue)
      /\ aclQueue' = aclQueue /\ at' = "txReady"
  BY DEF ConnClose, NextIs
<1>2. Closed.open = FALSE /\ Closed.fragmenting = FALSE
  BY DEF Closed
<1>3. Head(rxQueue) \in Event /\ rxQueue \in Seq(Event)
  BY <1>1, BFacts, TailPlaces
<1>4. h \in Handles
  BY <1>1, <1>3 DEF Event
<1> HIDE DEF h
<1>5. conn'[h] = Closed /\ \A g \in Handles : g # h => conn'[g] = conn[g]
  BY <1>1, <1>4 DEF IInv, Types
<1> SUFFICES ASSUME NEW g \in Handles
             PROVE  /\ conn'[g].fragmenting => conn'[g].remLen >= 1
                    /\ conn'[g].open => conn'[g].queuedBufs + Pending(g)'
                          = conn'[g].outBufs + Rest(conn'[g]) + Queued(aclQueue', g)
                    /\ Announced(g)' => \A j \in DOMAIN aclQueue' : aclQueue'[j].h # g
  BY DEF QInv
<1>6. Announced(g)' => Announced(g)
  BY <1>1, <1>3, TailPlaces DEF Announced
<1>7. Pending(g)' = Pending(g)
  BY <1>1 DEF Pending
<1>8. CASE g # h
  BY <1>1, <1>5, <1>6, <1>7, <1>8 DEF QInv
<1>9. CASE g = h
  BY <1>1, <1>2, <1>5, <1>6, <1>9 DEF QInv
<1> QED BY <1>8, <1>9

LEMMA CmplQueues ==
  ASSUME IInv, QInv, CmplHandle
  PROVE  QInv'
<1>1. /\ at = "cmpl" /\ aclQueue' = aclQueue /\ rxQueue' = rxQueue
  BY DEF CmplHandle, radio
<1>2. PICK h \in Handles :
        /\ evt' = [evt EXCEPT ![h] = 0]
        /\ IF conn[h].open
           THEN LET c  == [conn[h] EXCEPT !.outBufs = @ - evt[h], !.queuedBufs = @ - evt[h]]
                    on == c.flowDisabled /\ c.queuedBufs <= QueueLo
                IN  /\ credit' = credit + evt[h]
                    /\ conn' = [conn EXCEPT ![h] = IF on THEN [c EXCEPT !.flowDisabled = FALSE,
                                                                        !.attOff = FALSE]
                                                         ELSE c]
                    /\ at' = IF on THEN "flowAtt" ELSE "cmpl"
                    /\ resumed' = IF on THEN {h} ELSE {}
           ELSE UNCHANGED <<conn, credit, at, resumed>>
  BY DEF CmplHandle
<1>3. \A g \in Handles : Announced(g)' = Announced(g)
  BY <1>1 DEF Announced
<1>4. CASE ~ conn[h].open
  BY <1>1, <1>2, <1>3, <1>4, QFacts, QSteady
<1>5. CASE conn[h].open
  <2> DEFINE c  == [conn[h] EXCEPT !.outBufs = @ - evt[h], !.queuedBufs = @ - evt[h]]
             on == c.flowDisabled /\ c.queuedBufs <= QueueLo
             d  == IF on THEN [c EXCEPT !.flowDisabled = FALSE, !.attOff = FALSE] ELSE c
  <2>1. /\ conn' = [conn EXCEPT ![h] = d] /\ at' = IF on THEN "flowAtt" ELSE "cmpl"
    BY <1>2, <1>5
  <2>2. conn[h] \in IntConn /\ evt[h] \in Int
    BY AclAssumption DEF IInv, Types, Counts
  <2>3. /\ c.outBufs = conn[h].outBufs - evt[h] /\ c.queuedBufs = conn[h].queuedBufs - evt[h]
        /\ c.open = conn[h].open /\ c.fragmenting = conn[h].fragmenting
        /\ c.remLen = conn[h].remLen /\ DOMAIN c = DOMAIN conn[h]
    BY <2>2 DEF IntConn
  <2> HIDE DEF c, on
  <2>4. /\ d.outBufs = c.outBufs /\ d.queuedBufs = c.queuedBufs /\ d.open = c.open
        /\ d.fragmenting = c.fragmenting /\ d.remLen = c.remLen
    <3>1. CASE on
      BY <2>3, <3>1
    <3>2. CASE ~ on
      BY <3>2
    <3> QED BY <3>1, <3>2
  <2> HIDE DEF d
  <2>5. conn'[h] = d /\ \A g \in Handles : g # h => conn'[g] = conn[g]
    BY <2>1 DEF IInv, Types
  <2>6. ASSUME NEW g \in Handles
        PROVE  /\ conn'[g].open = conn[g].open /\ conn'[g].fragmenting = conn[g].fragmenting
               /\ conn'[g].remLen = conn[g].remLen
               /\ conn'[g].outBufs \in Int /\ conn'[g].queuedBufs \in Int
               /\ conn'[g].queuedBufs - conn'[g].outBufs = conn[g].queuedBufs - conn[g].outBufs
    <3>1. conn[g].outBufs \in Int /\ conn[g].queuedBufs \in Int
      BY QFacts
    <3>2. CASE g # h
      BY <2>5, <3>1, <3>2
    <3>3. CASE g = h
      BY <2>2, <2>3, <2>4, <2>5, <3>1, <3>3
    <3> QED BY <3>2, <3>3
  <2>7. at' # "send"
    BY <2>1
  <2> QED BY <1>1, <1>3, <2>6, <2>7, QSteady
<1> QED BY <1>4, <1>5

(* No packet of a connection waits when the controller announces it.       *)
LEMMA ControllerQueues ==
  ASSUME IInv, QInv, Controller
  PROVE  QInv'
<1>1. /\ conn' = conn /\ at' = at /\ cur' = cur /\ aclQueue' = aclQueue
  BY DEF Controller, CtlOpen, CtlClose, CtlComplete, core
<1>2. ASSUME NEW g \in Handles, Announced(g)'
      PROVE  \A j \in DOMAIN aclQueue : aclQueue[j].h # g
  <2>1. PICK e \in Event : /\ rxQueue' = Append(rxQueue, e)
                           /\ e.type = "open" => Forgotten(e.h)
    <3>1. CASE \E h \in Handles : CtlOpen(h) \/ CtlClose(h)
      <4>1. PICK h \in Handles : CtlOpen(h) \/ CtlClose(h)
        BY <3>1
      <4>2. CASE CtlOpen(h)
        <5>1. [type |-> "open", h |-> h] \in Event
          BY DEF Event
        <5> QED BY <4>2, <5>1 DEF CtlOpen
      <4>3. CASE CtlClose(h)
        <5>1. [type |-> "close", h |-> h] \in Event
          BY DEF Event
        <5> QED BY <4>3, <5>1 DEF CtlClose
      <4> QED BY <4>1, <4>2, <4>3
    <3>2. CASE \E n \in Counts : CtlComplete(n)
      BY <3>2 DEF CtlComplete, Event
    <3> QED BY <3>1, <3>2 DEF Controller
  <2>2. rxQueue \in Seq(Event)
    BY DEF IInv, Types
  <2>3. Announced(g) \/ Is(e, "open", g)
    BY <1>2, <2>1, <2>2, LastPlace DEF Announced
  <2> QED BY <2>1, <2>3 DEF QInv, Is, Forgotten
<1>3. \A g \in Handles : Pending(g)' = Pending(g)
  BY <1>1 DEF Pending
<1> QED BY <1>1, <1>2, <1>3 DEF QInv

LEMMA QNext == IInv /\ BInv /\ QInv /\ [Next]_vars => QInv'
<1> SUFFICES ASSUME IInv, BInv, QInv, [Next]_vars PROVE QInv'
  OBVIOUS
<1>0. Types
  BY DEF IInv
<1>1. CASE Send
  BY <1>1, CallSendQueues DEF Send
<1>2. CASE StartSend
  BY <1>2, StartSendQueues
<1>3. CASE ContinueSend
  <2>1. cur.h \in Handles
    BY <1>0, <1>3 DEF ContinueSend, Types, Sending
  <2> QED BY <1>3, <2>1, ContinueQueues DEF ContinueSend
<1>4. CASE FinishSend
  BY <1>4, FinishQueues
<1>5. CASE TxReady
  BY <1>5, TxReadyQueues
<1>6. CASE ConnOpen
  BY <1>6, OpenQueues
<1>7. CASE ConnClose
  BY <1>7, CloseQueues
<1>8. CASE NumCmplPkts
  <2>1. /\ at = "idle" /\ at' = "cmpl" /\ conn' = conn /\ aclQueue' = aclQueue
        /\ rxQueue # <<>> /\ rxQueue' = Tail(rxQueue) /\ rxQueue \in Seq(Event)
    BY <1>0, <1>8 DEF NumCmplPkts, NextIs, core, Types
  <2>2. \A g \in Handles : Announced(g)' => Announced(g)
    BY <2>1, TailPlaces DEF Announced
  <2> QED BY <2>1, <2>2, QFacts, QSteady
<1>9. CASE CmplHandle
  BY <1>9, CmplQueues
<1>10. CASE FlowAtt
  <2>1. at = "flowAtt" /\ resumed \subseteq Handles
    BY <1>0, <1>10 DEF FlowAtt, Types
  <2>2. CASE \E h \in resumed, len \in Lens : CallSend(h, len)
    BY <2>1, <2>2, CallSendQueues
  <2>3. CASE ~ \E h \in resumed, len \in Lens : CallSend(h, len)
    <3>1. PICK h \in resumed :
            /\ at' = "flowSmp"
            /\ conn' = [conn EXCEPT ![h].smpOff = FALSE]
            /\ UNCHANGED <<availBufs, aclQueue, cur, evt, resumed, credit, radio>>
      BY <1>10, <2>3 DEF FlowAtt
    <3>2. conn[h] \in IntConn /\ conn \in [Handles -> IntConn] /\ h \in Handles
      BY <1>0, <2>1 DEF Types
    <3>3. \A g \in Handles :
            /\ conn'[g].open = conn[g].open /\ conn'[g].outBufs = conn[g].outBufs
            /\ conn'[g].queuedBufs = conn[g].queuedBufs /\ conn'[g].remLen = conn[g].remLen
            /\ conn'[g].fragmenting = conn[g].fragmenting
      BY <3>1, <3>2 DEF IntConn
    <3>4. \A g \in Handles : Announced(g)' = Announced(g)
      BY <3>1 DEF Announced, radio
    <3> QED BY <2>1, <3>1, <3>3, <3>4, QFacts, QSteady
  <2> QED BY <2>2, <2>3
<1>11. CASE FlowSmp
  <2>1. at = "flowSmp" /\ resumed \subseteq Handles
    BY <1>0, <1>11 DEF FlowSmp, Types
  <2>2. CASE \E h \in resumed, len \in Lens : CallSend(h, len)
    BY <2>1, <2>2, CallSendQueues
  <2>3. CASE ~ \E h \in resumed, len \in Lens : CallSend(h, len)
    <3>1. at' = "cmpl" /\ conn' = conn /\ aclQueue' = aclQueue /\ rxQueue' = rxQueue
      BY <1>11, <2>3 DEF FlowSmp, core, radio
    <3>2. \A g \in Handles : Announced(g)' = Announced(g)
      BY <3>1 DEF Announced
    <3> QED BY <2>1, <3>1, <3>2, QFacts, QSteady
  <2> QED BY <2>2, <2>3
<1>12. CASE CmplDone
  <2>1. /\ at = "cmpl" /\ at' = "txReady" /\ conn' = conn /\ aclQueue' = aclQueue
        /\ rxQueue' = rxQueue
    BY <1>12 DEF CmplDone, radio
  <2>2. \A g \in Handles : Announced(g)' = Announced(g)
    BY <2>1 DEF Announced
  <2> QED BY <2>1, <2>2, QFacts, QSteady
<1>13. CASE Controller
  BY <1>13, ControllerQueues
<1>14. CASE UNCHANGED vars
  BY <1>14 DEF vars, core, radio, QInv, Pending, Announced
<1> QED
  BY <1>1, <1>2, <1>3, <1>4, <1>5, <1>6, <1>7, <1>8, <1>9, <1>10, <1>11, <1>12, <1>13, <1>14
  DEF Next, Host

(* Outside HciSendAclData, flow control goes by the buffers a connection   *)
(* holds and those its waiting packets will need, for every length of      *)
(* packets and every size of buffers.                                      *)
THEOREM PiecesCounted == Spec => []QueuedCounted
<1>1. Init => IInv /\ BInv /\ QInv
  BY InitInv, BInit, QInit
<1>2. (IInv /\ BInv /\ QInv) /\ [Next]_vars => (IInv /\ BInv /\ QInv)'
  BY NextInv, BNext, QNext
<1>3. IInv /\ BInv /\ QInv => QueuedCounted
  <2> SUFFICES ASSUME IInv, BInv, QInv, at \notin {"start", "send"},
                      NEW h \in Handles, conn[h].open
               PROVE  conn[h].queuedBufs = WaitingFrags(h)
    BY DEF QueuedCounted
  <2>1. conn[h].queuedBufs + Pending(h) = conn[h].outBufs + Rest(conn[h]) + Queued(aclQueue, h)
    BY DEF QInv
  <2>2. Pending(h) = 0
    BY DEF Pending
  <2>3. conn[h].queuedBufs = conn[h].outBufs + Rest(conn[h]) + Queued(aclQueue, h)
    BY <2>1, <2>2, QFacts
  <2> QED BY <2>3 DEF WaitingFrags, Rest, Queued
<1> QED BY <1>1, <1>2, <1>3, PTL DEF Spec

-----------------------------------------------------------------------------
(* The packets of a connection in aclQueue (LensOf).                       *)

LEMMA Induct ==
  ASSUME NEW G \in SUBSET Nat, 0 \in G, \A k \in Nat : k \in G => k + 1 \in G
  PROVE  G = Nat
<1> SUFFICES ASSUME Nat \ G # {} PROVE FALSE
  OBVIOUS
<1>1. PICK x \in Nat \ G : \A y \in Nat \ G : x <= y
  <2>1. Nat \ G \in SUBSET Nat
    OBVIOUS
  <2> QED BY <2>1, Smallest
<1>2. x # 0 /\ x - 1 \in Nat /\ (x - 1) + 1 = x
  BY <1>1
<1>3. x - 1 \in G
  BY <1>1, <1>2
<1> QED BY <1>1, <1>2, <1>3

(* The recursive function LensOf goes by, on the places up to m.           *)
IsLens(q, h, m, g) ==
  g = [k \in 0..m |-> IF k = 0 THEN <<>>
                      ELSE IF q[k].h = h THEN Append(g[k - 1], q[k].len) ELSE g[k - 1]]
LensFun(q, h) == CHOOSE g : IsLens(q, h, Len(q), g)

LEMMA LensIs ==
  ASSUME NEW q, NEW h
  PROVE  LensOf(q, h) = LensFun(q, h)[Len(q)]
BY DEF LensOf, LensFun, IsLens

LEMMA LensExist ==
  ASSUME NEW q, NEW h
  PROVE  \A m \in Nat : \E g : IsLens(q, h, m, g)
<1> DEFINE G == {m \in Nat : \E g : IsLens(q, h, m, g)}
<1>1. 0 \in G
  <2> DEFINE g == [k \in 0..0 |-> <<>>]
  <2>1. g = [k \in 0..0 |-> IF k = 0 THEN <<>>
                            ELSE IF q[k].h = h THEN Append(g[k - 1], q[k].len) ELSE g[k - 1]]
    OBVIOUS
  <2>2. IsLens(q, h, 0, g)
    BY <2>1 DEF IsLens
  <2> QED BY <2>2
<1>2. ASSUME NEW m \in Nat, m \in G
      PROVE  m + 1 \in G
  <2>1. PICK g : IsLens(q, h, m, g)
    BY <1>2
  <2> DEFINE f == [k \in 0..(m + 1) |->
                     IF k = 0 THEN <<>>
                     ELSE IF q[k].h = h THEN Append(g[k - 1], q[k].len) ELSE g[k - 1]]
  <2>2. \A k \in 0..m : f[k] = g[k]
    <3> TAKE k \in 0..m
    <3>1. g[k] = IF k = 0 THEN <<>>
                 ELSE IF q[k].h = h THEN Append(g[k - 1], q[k].len) ELSE g[k - 1]
      BY <2>1 DEF IsLens
    <3>2. k \in 0..(m + 1)
      OBVIOUS
    <3> QED BY <3>1, <3>2
  <2>3. \A k \in 0..(m + 1) : k # 0 => k - 1 \in 0..m
    OBVIOUS
  <2>4. f = [k \in 0..(m + 1) |->
               IF k = 0 THEN <<>>
               ELSE IF q[k].h = h THEN Append(f[k - 1], q[k].len) ELSE f[k - 1]]
    <3> HIDE DEF f
    <3>1. \A k \in 0..(m + 1) : k # 0 => f[k - 1] = g[k - 1]
      BY <2>2, <2>3
    <3> QED BY <3>1 DEF f
  <2> HIDE DEF f
  <2>5. IsLens(q, h, m + 1, f)
    BY <2>4 DEF IsLens
  <2>6. m + 1 \in Nat
    OBVIOUS
  <2> QED BY <2>5, <2>6
<1> HIDE DEF G
<1>3. G = Nat
  <2>1. G \in SUBSET Nat
    BY DEF G
  <2> QED BY <1>1, <1>2, <2>1, Induct
<1> QED BY <1>3 DEF G

LEMMA LensStep ==
  ASSUME NEW q \in Seq(Packet), NEW h
  PROVE  /\ LensFun(q, h)[0] = <<>>
         /\ \A k \in 1..Len(q) :
              LensFun(q, h)[k] = IF q[k].h = h THEN Append(LensFun(q, h)[k - 1], q[k].len)
                                             ELSE LensFun(q, h)[k - 1]
<1> DEFINE g == LensFun(q, h)
<1>1. Len(q) \in Nat
  OBVIOUS
<1>2. \E f : IsLens(q, h, Len(q), f)
  BY <1>1, LensExist
<1>3. IsLens(q, h, Len(q), g)
  BY <1>2 DEF LensFun
<1> HIDE DEF g
<1>4. g = [k \in 0..Len(q) |-> IF k = 0 THEN <<>>
             ELSE IF q[k].h = h THEN Append(g[k - 1], q[k].len) ELSE g[k - 1]]
  BY <1>3 DEF IsLens
<1>5. \A k \in 0..Len(q) : g[k] = IF k = 0 THEN <<>>
        ELSE IF q[k].h = h THEN Append(g[k - 1], q[k].len) ELSE g[k - 1]
  BY <1>4
<1>6. g[0] = <<>>
  BY <1>1, <1>5
<1>7. \A k \in 1..Len(q) : g[k] = IF q[k].h = h THEN Append(g[k - 1], q[k].len) ELSE g[k - 1]
  BY <1>1, <1>5
<1> QED BY <1>6, <1>7 DEF g

(* They are lengths, and none where no packet is the connection's.         *)
LEMMA LensInts ==
  ASSUME NEW q \in Seq(Packet), NEW h
  PROVE  /\ \A k \in 0..Len(q) : LensFun(q, h)[k] \in Seq(Lens)
         /\ (\A k \in 1..Len(q) : q[k].h # h) => LensFun(q, h)[Len(q)] = <<>>
<1> DEFINE g == LensFun(q, h)
           G == {k \in Nat : k <= Len(q) =>
                   /\ g[k] \in Seq(Lens)
                   /\ (\A j \in 1..Len(q) : q[j].h # h) => g[k] = <<>>}
<1>0. Len(q) \in Nat
  OBVIOUS
<1>1. /\ g[0] = <<>>
      /\ \A k \in 1..Len(q) : g[k] = IF q[k].h = h THEN Append(g[k - 1], q[k].len) ELSE g[k - 1]
  BY LensStep
<1> HIDE DEF g
<1>2. 0 \in G
  <2>1. <<>> \in Seq(Lens)
    OBVIOUS
  <2> QED BY <1>1, <2>1
<1>3. ASSUME NEW k \in Nat, k \in G
      PROVE  k + 1 \in G
  <2> SUFFICES ASSUME k + 1 <= Len(q)
               PROVE  /\ g[k + 1] \in Seq(Lens)
                      /\ (\A j \in 1..Len(q) : q[j].h # h) => g[k + 1] = <<>>
    OBVIOUS
  <2>1. k + 1 \in 1..Len(q) /\ (k + 1) - 1 = k /\ k <= Len(q)
    BY <1>0
  <2>2. g[k + 1] = IF q[k + 1].h = h THEN Append(g[k], q[k + 1].len) ELSE g[k]
    BY <1>1, <2>1
  <2>3. g[k] \in Seq(Lens) /\ ((\A j \in 1..Len(q) : q[j].h # h) => g[k] = <<>>)
    BY <1>3, <2>1
  <2>4. q[k + 1] \in Packet
    BY <2>1
  <2>5. q[k + 1].len \in Lens
    BY <2>4 DEF Packet
  <2>6. Append(g[k], q[k + 1].len) \in Seq(Lens)
    BY <2>3, <2>5
  <2> QED BY <2>1, <2>2, <2>3, <2>6
<1>4. G = Nat
  <2> HIDE DEF G
  <2>1. G \in SUBSET Nat
    BY DEF G
  <2> QED BY <1>2, <1>3, <2>1, Induct
<1>5. \A k \in 0..Len(q) : /\ g[k] \in Seq(Lens)
                           /\ (\A j \in 1..Len(q) : q[j].h # h) => g[k] = <<>>
  BY <1>0, <1>4
<1>6. Len(q) \in 0..Len(q)
  BY <1>0
<1> HIDE DEF G
<1> QED BY <1>5, <1>6 DEF g

LEMMA LensOfInts ==
  ASSUME NEW q \in Seq(Packet), NEW h
  PROVE  /\ LensOf(q, h) \in Seq(Lens)
         /\ (\A k \in DOMAIN q : q[k].h # h) => LensOf(q, h) = <<>>
<1>1. Len(q) \in 0..Len(q) /\ DOMAIN q = 1..Len(q)
  OBVIOUS
<1> QED BY <1>1, LensInts, LensIs

(* A packet more at the end, and one less at the front.                    *)
LEMMA LensOfAppend ==
  ASSUME NEW q \in Seq(Packet), NEW p \in Packet, NEW h
  PROVE  LensOf(Append(q, p), h) = IF p.h = h THEN Append(LensOf(q, h), p.len)
                                              ELSE LensOf(q, h)
<1> DEFINE r == Append(q, p)
           f == LensFun(q, h)
           g == LensFun(r, h)
           G == {k \in Nat : k <= Len(q) => g[k] = f[k]}
<1>0. /\ r \in Seq(Packet) /\ Len(q) \in Nat /\ Len(r) = Len(q) + 1
      /\ \A k \in 1..Len(q) : r[k] = q[k]
      /\ r[Len(q) + 1] = p
  OBVIOUS
<1> HIDE DEF r
<1>1. /\ f[0] = <<>>
      /\ \A k \in 1..Len(q) : f[k] = IF q[k].h = h THEN Append(f[k - 1], q[k].len) ELSE f[k - 1]
  BY LensStep
<1>2. /\ g[0] = <<>>
      /\ \A k \in 1..Len(r) : g[k] = IF r[k].h = h THEN Append(g[k - 1], r[k].len) ELSE g[k - 1]
  BY <1>0, LensStep
<1> HIDE DEF f, g
<1>3. 0 \in G
  BY <1>1, <1>2
<1>4. ASSUME NEW k \in Nat, k \in G
      PROVE  k + 1 \in G
  <2> SUFFICES ASSUME k + 1 <= Len(q) PROVE g[k + 1] = f[k + 1]
    OBVIOUS
  <2>1. k + 1 \in 1..Len(q) /\ k + 1 \in 1..Len(r) /\ (k + 1) - 1 = k /\ k <= Len(q)
    BY <1>0
  <2>2. g[k] = f[k] /\ r[k + 1] = q[k + 1]
    BY <1>0, <1>4, <2>1
  <2>3. f[k + 1] = IF q[k + 1].h = h THEN Append(f[k], q[k + 1].len) ELSE f[k]
    BY <1>1, <2>1
  <2>4. g[k + 1] = IF r[k + 1].h = h THEN Append(g[k], r[k + 1].len) ELSE g[k]
    BY <1>2, <2>1
  <2> QED BY <2>2, <2>3, <2>4
<1>5. G = Nat
  <2> HIDE DEF G
  <2>1. G \in SUBSET Nat
    BY DEF G
  <2> QED BY <1>3, <1>4, <2>1, Induct
<1>6. g[Len(q)] = f[Len(q)]
  BY <1>0, <1>5
<1> HIDE DEF G
<1>7. Len(r) \in 1..Len(r) /\ Len(r) - 1 = Len(q) /\ r[Len(r)] = p
  BY <1>0
<1>8. g[Len(r)] = IF p.h = h THEN Append(g[Len(q)], p.len) ELSE g[Len(q)]
  BY <1>2, <1>7
<1>9. LensOf(q, h) = f[Len(q)] /\ LensOf(r, h) = g[Len(r)]
  BY LensIs DEF f, g
<1> QED BY <1>6, <1>8, <1>9 DEF r

First(p, h) == IF p.h = h THEN <<p.len>> ELSE <<>>

LEMMA LensOfTail ==
  ASSUME NEW q \in Seq(Packet), q # <<>>, NEW h
  PROVE  /\ LensOf(q, h) = First(Head(q), h) \o LensOf(Tail(q), h)
         /\ Tail(q) \in Seq(Packet) /\ Head(q) \in Packet
<1> DEFINE r == Tail(q)
           f == LensFun(q, h)
           g == LensFun(r, h)
           a == First(Head(q), h)
           G == {k \in Nat : k <= Len(r) => f[k + 1] = a \o g[k]}
<1>0. /\ r \in Seq(Packet) /\ Len(r) \in Nat /\ Len(q) = Len(r) + 1
      /\ \A k \in 1..Len(r) : r[k] = q[k + 1]
      /\ Head(q) = q[1] /\ Head(q) \in Packet
  OBVIOUS
<1> HIDE DEF r
<1>1. /\ f[0] = <<>>
      /\ \A k \in 1..Len(q) : f[k] = IF q[k].h = h THEN Append(f[k - 1], q[k].len) ELSE f[k - 1]
  BY LensStep
<1>2. /\ g[0] = <<>>
      /\ \A k \in 1..Len(r) : g[k] = IF r[k].h = h THEN Append(g[k - 1], r[k].len) ELSE g[k - 1]
  BY <1>0, LensStep
<1>3. \A k \in 0..Len(r) : g[k] \in Seq(Lens)
  BY <1>0, LensInts
<1>4. a \in Seq(Lens)
  <2>1. Head(q).len \in Lens
    BY <1>0 DEF Packet
  <2> QED BY <2>1 DEF First
<1> HIDE DEF f, g
<1>5. 0 \in G
  <2>1. 1 \in 1..Len(q) /\ 1 - 1 = 0
    BY <1>0
  <2>2. f[1] = IF q[1].h = h THEN Append(f[0], q[1].len) ELSE f[0]
    BY <1>1, <2>1
  <2>3. f[1] = a
    BY <1>0, <1>1, <2>2 DEF First
  <2>4. a \o <<>> = a
    <3> HIDE DEF a
    <3> QED BY <1>4, ConcatEmptySeq
  <2> HIDE DEF a
  <2>5. f[0 + 1] = a \o g[0]
    BY <1>2, <2>3, <2>4
  <2> QED BY <2>5
<1> HIDE DEF a
<1>6. ASSUME NEW k \in Nat, k \in G
      PROVE  k + 1 \in G
  <2> SUFFICES ASSUME k + 1 <= Len(r) PROVE f[(k + 1) + 1] = a \o g[k + 1]
    OBVIOUS
  <2>1. /\ k + 1 \in 1..Len(r) /\ (k + 1) + 1 \in 1..Len(q) /\ (k + 1) - 1 = k
        /\ ((k + 1) + 1) - 1 = k + 1 /\ k <= Len(r) /\ k \in 0..Len(r)
    BY <1>0
  <2>2. f[k + 1] = a \o g[k]
    BY <1>6, <2>1
  <2>3. r[k + 1] = q[(k + 1) + 1]
    BY <1>0, <2>1
  <2>4. f[(k + 1) + 1] = IF r[k + 1].h = h THEN Append(f[k + 1], r[k + 1].len) ELSE f[k + 1]
    BY <1>1, <2>1, <2>3
  <2>5. g[k + 1] = IF r[k + 1].h = h THEN Append(g[k], r[k + 1].len) ELSE g[k]
    BY <1>2, <2>1
  <2>6. g[k] \in Seq(Lens)
    BY <1>3, <2>1
  <2>7. r[k + 1].len \in Lens
    <3>1. r[k + 1] \in Packet
      BY <1>0, <2>1
    <3> QED BY <3>1 DEF Packet
  <2>8. Append(a \o g[k], r[k + 1].len) = a \o Append(g[k], r[k + 1].len)
    <3> DEFINE u == g[k]
               y == r[k + 1].len
    <3>1. a \in Seq(Lens) /\ u \in Seq(Lens) /\ y \in Lens
      BY <1>4, <2>6, <2>7
    <3> HIDE DEF u, y
    <3>2. a \o u \in Seq(Lens) /\ <<y>> \in Seq(Lens)
      BY <3>1, ConcatProperties
    <3>3. Append(a \o u, y) = (a \o u) \o <<y>> /\ Append(u, y) = u \o <<y>>
      BY <3>1, <3>2, AppendIsConcat
    <3>4. Append(a \o u, y) = a \o Append(u, y)
      BY <3>1, <3>2, <3>3, ConcatAssociative
    <3> QED BY <3>4 DEF u, y
  <2> QED BY <2>2, <2>4, <2>5, <2>8
<1>7. G = Nat
  <2> HIDE DEF G
  <2>1. G \in SUBSET Nat
    BY DEF G
  <2> QED BY <1>5, <1>6, <2>1, Induct
<1>8. f[Len(r) + 1] = a \o g[Len(r)]
  BY <1>0, <1>7
<1>9. LensOf(q, h) = f[Len(q)] /\ LensOf(r, h) = g[Len(r)]
  BY LensIs DEF f, g
<1> HIDE DEF G
<1> QED BY <1>0, <1>8, <1>9 DEF r, a

-----------------------------------------------------------------------------
(* The data path implements AclStream.                                     *)

(* What the peer lacks of a packet is what hciCoreConn_t has of it.        *)
Left(c) == IF c.fragmenting THEN c.remLen ELSE 0
LInv == lacks = [h \in Handles |-> Left(conn[h])]

StreamStep == [Stream!StreamNext]_(Stream!streamVars)

Lead(x) == IF x # 0 THEN <<x>> ELSE <<>>
Starting(h) == IF at = "start" /\ cur.h = h THEN <<cur.len>> ELSE <<>>

LEMMA TodoIs ==
  ASSUME NEW h \in Handles
  PROVE  /\ conn[h].open => Todo[h] = (Lead(lacks[h]) \o LensOf(aclQueue, h)) \o Starting(h)
         /\ ~ conn[h].open => Todo[h] = <<>>
BY DEF Todo, Waiting, Lead, Starting

LEMMA TodoIsNext ==
  ASSUME NEW h \in Handles
  PROVE  /\ conn'[h].open => Todo'[h] = (Lead(lacks'[h]) \o LensOf(aclQueue', h)) \o Starting(h)'
         /\ ~ conn'[h].open => Todo'[h] = <<>>
BY DEF Todo, Waiting, Lead, Starting

LEMMA SameTodo ==
  ASSUME NEW h \in Handles, conn'[h].open = conn[h].open, lacks'[h] = lacks[h],
         LensOf(aclQueue', h) = LensOf(aclQueue, h), Starting(h)' = Starting(h)
  PROVE  Todo'[h] = Todo[h]
<1>1. CASE conn[h].open
  BY <1>1, TodoIs, TodoIsNext
<1>2. CASE ~ conn[h].open
  BY <1>2, TodoIs, TodoIsNext
<1> QED BY <1>1, <1>2

LEMMA LeadInts ==
  ASSUME NEW x \in Int
  PROVE  Lead(x) \in Seq(Int)
BY DEF Lead

LEMMA LensAreInts ==
  ASSUME NEW q \in Seq(Packet), NEW h
  PROVE  LensOf(q, h) \in Seq(Int)
<1>1. Lens \subseteq Int
  BY AclAssumption
<1>2. LensOf(q, h) \in Seq(Lens)
  BY LensOfInts
<1> QED BY <1>1, <1>2, SeqMonotonic

LEMMA LacksIs ==
  ASSUME IInv, QInv, LInv, NEW h \in Handles
  PROVE  /\ conn[h].fragmenting => lacks[h] = conn[h].remLen /\ lacks[h] >= 1
         /\ ~ conn[h].fragmenting => lacks[h] = 0
         /\ lacks[h] \in Int
         /\ ~ conn[h].open => lacks[h] = 0 /\ ~ conn[h].fragmenting
<1>1. lacks[h] = Left(conn[h])
  BY DEF LInv
<1>2. conn[h].remLen \in Int
  BY QFacts
<1>3. conn[h].fragmenting => conn[h].remLen >= 1
  BY DEF QInv
<1>4. conn[h].fragmenting => conn[h].open
  BY DEF IInv, CutInv, Frag
<1> QED BY <1>1, <1>2, <1>3, <1>4 DEF Left

LEMMA LKeeps ==
  ASSUME LInv, lacks' = lacks,
         \A g \in Handles : /\ conn'[g].fragmenting = conn[g].fragmenting
                            /\ conn'[g].remLen = conn[g].remLen
  PROVE  LInv'
<1>1. \A g \in Handles : Left(conn'[g]) = Left(conn[g])
  BY DEF Left
<1>2. [g \in Handles |-> Left(conn'[g])] = [g \in Handles |-> Left(conn[g])]
  BY <1>1
<1> QED BY <1>2 DEF LInv

LEMMA LChanges ==
  ASSUME LInv, NEW h \in Handles, NEW x, lacks' = [lacks EXCEPT ![h] = x],
         x = Left(conn'[h]), \A g \in Handles : g # h => conn'[g] = conn[g]
  PROVE  LInv'
<1>1. lacks' = [g \in Handles |-> IF g = h THEN x ELSE Left(conn[g])]
  BY DEF LInv
<1>2. \A g \in Handles : (IF g = h THEN x ELSE Left(conn[g])) = Left(conn'[g])
  OBVIOUS
<1>3. lacks' = [g \in Handles |-> Left(conn'[g])]
  BY <1>1, <1>2
<1> QED BY <1>3 DEF LInv

(* What a piece is: n bytes of a packet of which a were left.              *)
Gave(h, a, n) == /\ n \in 1..BufSize /\ a \in Int /\ n <= a
                 /\ lacks'[h] = a - n
                 /\ \A g \in Handles : g # h => lacks'[g] = lacks[g]

LEMMA StartGives ==
  ASSUME IInv, QInv, LInv, NEW h \in Handles, NEW len \in Lens, TxAclStart(h, len),
         ~ conn[h].fragmenting
  PROVE  Piece(h) /\ LInv' /\ lacks[h] = 0 /\ \E n : Gave(h, len, n)
<1>1. /\ Piece(h)
      /\ conn'[h].fragmenting = (len > BufSize)
      /\ len > BufSize => conn'[h].remLen = len - BufSize
  BY PieceStarted DEF IInv
<1>2. len \in Nat \ {0} /\ BufSize \in Nat \ {0}
  BY AclAssumption
<1>3. DOMAIN lacks = Handles
  BY DEF LInv
<1>4. PICK n \in 1..BufSize : /\ n <= len /\ (len > BufSize => n = BufSize)
                              /\ (~ (len > BufSize) => n = len)
                              /\ lacks' = [lacks EXCEPT ![h] = len - n]
  <2>1. CASE len > BufSize
    <3>1. lacks' = [lacks EXCEPT ![h] = len - BufSize]
      BY <2>1 DEF TxAclStart, SendAclData
    <3>2. BufSize \in 1..BufSize /\ BufSize <= len
      BY <1>2, <2>1
    <3> QED BY <2>1, <3>1, <3>2
  <2>2. CASE ~ (len > BufSize)
    <3>1. lacks' = [lacks EXCEPT ![h] = len - len]
      BY <2>2 DEF TxAclStart, SendAclData
    <3>2. len \in 1..BufSize /\ len <= len
      BY <1>2, <2>2
    <3> QED BY <2>2, <3>1, <3>2
  <2> QED BY <2>1, <2>2
<1>5. len - n = Left(conn'[h])
  <2>1. CASE len > BufSize
    <3>1. conn'[h].fragmenting /\ conn'[h].remLen = len - BufSize /\ n = BufSize
      BY <1>1, <1>4, <2>1
    <3> QED BY <3>1 DEF Left
  <2>2. CASE ~ (len > BufSize)
    <3>1. ~ conn'[h].fragmenting /\ n = len
      BY <1>1, <1>4, <2>2
    <3> QED BY <1>2, <3>1 DEF Left
  <2> QED BY <2>1, <2>2
<1>6. LInv'
  BY <1>1, <1>4, <1>5, LChanges DEF Piece
<1>7. Gave(h, len, n)
  BY <1>2, <1>3, <1>4 DEF Gave
<1> QED BY <1>1, <1>6, <1>7, LacksIs

LEMMA ContinueGives ==
  ASSUME IInv, QInv, LInv, NEW h \in Handles, TxAclContinue(h), conn[h].fragmenting
  PROVE  Piece(h) /\ LInv' /\ lacks[h] # 0 /\ \E n : Gave(h, lacks[h], n)
<1> DEFINE a == conn[h].remLen
           n == MinLen(a, BufSize)
<1>1. a \in Int /\ a >= 1 /\ lacks[h] = a
  BY LacksIs, QFacts
<1>2. BufSize \in Nat \ {0}
  BY AclAssumption
<1>3. DOMAIN lacks = Handles
  BY DEF LInv
<1>4. lacks' = [lacks EXCEPT ![h] = lacks[h] - n]
  BY DEF TxAclContinue, SendAclData
<1>5. /\ Piece(h)
      /\ conn'[h].fragmenting = (a > BufSize)
      /\ a > BufSize => conn'[h].remLen = a - BufSize
  BY <1>1, PieceContinued DEF IInv
<1>6. n \in 1..BufSize /\ n <= a /\ (a > BufSize => n = BufSize) /\ (~ (a > BufSize) => n = a)
  BY <1>1, <1>2 DEF MinLen
<1> HIDE DEF a, n
<1>7. a - n = Left(conn'[h])
  <2>1. CASE a > BufSize
    <3>1. conn'[h].fragmenting /\ conn'[h].remLen = a - BufSize /\ n = BufSize
      BY <1>5, <1>6, <2>1
    <3> QED BY <3>1 DEF Left
  <2>2. CASE ~ (a > BufSize)
    <3>1. ~ conn'[h].fragmenting /\ n = a
      BY <1>5, <1>6, <2>2
    <3> QED BY <1>1, <3>1 DEF Left
  <2> QED BY <2>1, <2>2
<1>8. LInv'
  BY <1>1, <1>4, <1>5, <1>7, LChanges DEF Piece
<1>9. Gave(h, lacks[h], n)
  BY <1>1, <1>3, <1>4, <1>6 DEF Gave
<1> QED BY <1>1, <1>5, <1>8, <1>9

(* Steps AclStream does not see.                                           *)
LEMMA Unseen ==
  ASSUME \A g \in Handles : /\ conn'[g].open = conn[g].open
                            /\ conn'[g].outBufs = conn[g].outBufs
                            /\ Todo'[g] = Todo[g]
  PROVE  StreamStep
<1>1. Up' = Up
  BY DEF Up
<1>2. HeldNow' = HeldNow
  BY DEF HeldNow
<1>3. Todo' = Todo
  <2>1. Todo = [g \in Handles |-> Todo[g]] /\ Todo' = [g \in Handles |-> Todo'[g]]
    BY DEF Todo
  <2> QED BY <2>1
<1> QED BY <1>1, <1>2, <1>3 DEF StreamStep, Stream!streamVars

(* Taking a queue with a first item apart gives back that item and the     *)
(* rest.                                                                   *)
LEMMA FirstOfQueue ==
  ASSUME NEW a \in Int, NEW r \in Seq(Int), NEW s, s = <<a>> \o r
  PROVE  s # <<>> /\ Head(s) = a /\ Tail(s) = r
<1>1. <<a>> \in Seq(Int) /\ Len(<<a>>) = 1 /\ <<a>>[1] = a
  OBVIOUS
<1>2. s \in Seq(Int) /\ Len(s) = 1 + Len(r) /\ Len(r) \in Nat
  BY <1>1
<1>3. s # <<>>
  BY <1>2
<1>4. s[1] = a
  BY <1>1, <1>2
<1>5. Head(s) = a
  BY <1>2, <1>3, <1>4
<1>6. Tail(s) = r
  BY <1>1, <1>2, <1>3
<1> QED BY <1>3, <1>5, <1>6

(* A piece is the next of the first packet that waits.                     *)
LEMMA PieceHandsOver ==
  ASSUME IInv, BInv, NEW h \in Handles, Piece(h), conn[h].open, availBufs > 0,
         NEW a, NEW n, Gave(h, a, n), NEW r \in Seq(Int),
         Todo[h] = <<a>> \o r, Todo'[h] = Lead(lacks'[h]) \o r,
         \A g \in Handles : g # h => Todo'[g] = Todo[g]
  PROVE  StreamStep
<1>1. /\ conn \in [Handles -> IntConn] /\ conn[h].outBufs \in Int
      /\ availBufs + HeldBy(conn) + credit = NumBufs /\ HeldBy(conn) \in Nat
      /\ credit \in Int /\ credit >= 0 /\ availBufs \in Int /\ NumBufs \in Nat
  BY BFacts
<1>2. Stream!Held < NumBufs
  <2>1. Stream!Held = HeldBy(conn)
    BY DEF Stream!Held, Stream!SumFunction, Stream!SumFunctionOnSet, Stream!FoldFunctionOnSet,
           Stream!MapThenFoldSet, HeldNow, HeldBy, SumFunction, SumFunctionOnSet,
           FoldFunctionOnSet, MapThenFoldSet
  <2> QED BY <1>1, <2>1
<1>3. Up' = Up
  BY DEF Up, Piece
<1>4. HeldNow' = [HeldNow EXCEPT ![h] = @ + 1]
  BY DEF HeldNow, Piece
<1>5. a \in Int /\ n \in 1..BufSize /\ n <= a /\ lacks'[h] = a - n /\ n \in Int
  BY AclAssumption DEF Gave
<1>6. Todo[h] # <<>> /\ Head(Todo[h]) = a /\ Tail(Todo[h]) = r
  BY <1>5, FirstOfQueue
<1>7. Todo'[h] = IF n = a THEN r ELSE <<a - n>> \o r
  <2>1. CASE n = a
    <3>1. lacks'[h] = 0
      BY <1>5, <2>1
    <3>2. <<>> \o r = r
      BY ConcatEmptySeq
    <3> QED BY <2>1, <3>1, <3>2 DEF Lead
  <2>2. CASE n # a
    <3>1. lacks'[h] # 0
      BY <1>5, <2>2
    <3> QED BY <1>5, <2>2, <3>1 DEF Lead
  <2> QED BY <2>1, <2>2
<1>8. Todo' = [Todo EXCEPT ![h] = IF n = Head(@) THEN Tail(@) ELSE <<Head(@) - n>> \o Tail(@)]
  <2>1. Todo = [g \in Handles |-> Todo[g]] /\ Todo' = [g \in Handles |-> Todo'[g]]
    BY DEF Todo
  <2> DEFINE x == IF n = a THEN r ELSE <<a - n>> \o r
  <2>2. Todo'[h] = x
    BY <1>7
  <2>3. [Todo EXCEPT ![h] = IF n = Head(@) THEN Tail(@) ELSE <<Head(@) - n>> \o Tail(@)]
          = [Todo EXCEPT ![h] = x]
    BY <1>6
  <2> HIDE DEF x
  <2>4. Todo' = [Todo EXCEPT ![h] = x]
    BY <2>1, <2>2
  <2> QED BY <2>3, <2>4
<1>9. Stream!HandOver(h, n)
  BY <1>2, <1>3, <1>4, <1>5, <1>6, <1>8 DEF Stream!HandOver
<1> QED BY <1>5, <1>9 DEF StreamStep, Stream!StreamNext

(* What the stack sends waits behind what is there.                        *)
LEMMA AcceptIs ==
  ASSUME NEW h \in Handles, NEW len \in Lens, conn[h].open,
         \A g \in Handles : conn'[g].open = conn[g].open /\ conn'[g].outBufs = conn[g].outBufs,
         Todo'[h] = Append(Todo[h], len),
         \A g \in Handles : g # h => Todo'[g] = Todo[g]
  PROVE  StreamStep
<1>1. Up' = Up /\ h \in Up
  BY DEF Up
<1>2. HeldNow' = HeldNow
  BY DEF HeldNow
<1>3. Todo' = [Todo EXCEPT ![h] = Append(@, len)]
  <2>1. Todo = [g \in Handles |-> Todo[g]] /\ Todo' = [g \in Handles |-> Todo'[g]]
    BY DEF Todo
  <2> DEFINE x == Append(Todo[h], len)
  <2>2. Todo'[h] = x
    OBVIOUS
  <2> HIDE DEF x
  <2>3. Todo' = [Todo EXCEPT ![h] = x]
    BY <2>1, <2>2
  <2> QED BY <2>3 DEF x
<1>4. Stream!Accept(h, len)
  BY <1>1, <1>2, <1>3 DEF Stream!Accept
<1> QED BY <1>4 DEF StreamStep, Stream!StreamNext

LEMMA CallSendStreams ==
  ASSUME IInv, QInv, LInv, NEW h \in Handles, NEW len \in Lens, CallSend(h, len),
         at \in {"idle", "flowAtt", "flowSmp"}
  PROVE  LInv' /\ StreamStep
<1> DEFINE p == [h |-> h, len |-> len]
           a == Lead(lacks[h])
           q == LensOf(aclQueue, h)
<1>1. /\ conn' = conn /\ lacks' = lacks /\ conn[h].open
      /\ cur' = [h |-> h, len |-> len, back |-> at]
      /\ \/ at' = "start" /\ aclQueue' = aclQueue
         \/ at' = "send" /\ aclQueue' = Append(aclQueue, p)
  BY DEF CallSend, radio
<1>2. LInv'
  BY <1>1, LKeeps
<1>3. /\ aclQueue \in Seq(Packet) /\ p \in Packet /\ p.h = h /\ p.len = len /\ len \in Int
  BY AclAssumption DEF IInv, Types, Packet
<1>4. a \in Seq(Int) /\ q \in Seq(Int)
  <2>1. lacks[h] \in Int
    BY LacksIs
  <2> QED BY <1>3, <2>1, LeadInts, LensAreInts
<1>5. \A g \in Handles : Starting(g) = <<>>
  BY DEF Starting
<1> HIDE DEF a, q
<1>6. a \o q \in Seq(Int) /\ Todo[h] = a \o q
  <2>1. a \o q \in Seq(Int)
    BY <1>4, ConcatProperties
  <2>2. Todo[h] = (a \o q) \o <<>>
    BY <1>1, <1>5, TodoIs DEF a, q
  <2> QED BY <2>1, <2>2, ConcatEmptySeq
<1>7. Append(Todo[h], len) = (a \o q) \o <<len>>
  BY <1>3, <1>6, AppendIsConcat
<1>8. CASE at' = "start" /\ aclQueue' = aclQueue
  <2>1. Starting(h)' = <<len>>
    BY <1>1, <1>8 DEF Starting
  <2>2. Todo'[h] = (a \o q) \o <<len>>
    BY <1>1, <1>8, <2>1, TodoIsNext DEF a, q
  <2>3. \A g \in Handles : g # h => Starting(g)' = <<>>
    BY <1>1 DEF Starting
  <2>4. \A g \in Handles : g # h => Todo'[g] = Todo[g]
    BY <1>1, <1>5, <1>8, <2>3, SameTodo
  <2> QED BY <1>1, <1>2, <1>7, <2>2, <2>4, AcceptIs
<1>9. CASE at' = "send" /\ aclQueue' = Append(aclQueue, p)
  <2>0. \A g \in Handles : Starting(g)' = <<>>
    BY <1>9 DEF Starting
  <2>1. \A g \in Handles : LensOf(aclQueue', g) = IF h = g THEN Append(LensOf(aclQueue, g), len)
                                                           ELSE LensOf(aclQueue, g)
    <3> HIDE DEF p
    <3> QED BY <1>3, <1>9, LensOfAppend
  <2>2. LensOf(aclQueue', h) = q \o <<len>>
    <3>1. LensOf(aclQueue', h) = Append(q, len)
      BY <2>1 DEF q
    <3> QED BY <1>3, <1>4, <3>1, AppendIsConcat
  <2>3. Todo'[h] = (a \o (q \o <<len>>)) \o <<>>
    BY <1>1, <2>0, <2>2, TodoIsNext DEF a
  <2>4. <<len>> \in Seq(Int) /\ q \o <<len>> \in Seq(Int)
    BY <1>3, <1>4, ConcatProperties
  <2>5. a \o (q \o <<len>>) \in Seq(Int)
    BY <1>4, <2>4, ConcatProperties
  <2>6. Todo'[h] = a \o (q \o <<len>>)
    BY <2>3, <2>5, ConcatEmptySeq
  <2>7. (a \o q) \o <<len>> = a \o (q \o <<len>>)
    BY <1>4, <2>4, ConcatAssociative
  <2>8. \A g \in Handles : g # h => Todo'[g] = Todo[g]
    BY <1>1, <1>5, <2>0, <2>1, SameTodo
  <2> QED BY <1>1, <1>2, <1>7, <2>6, <2>7, <2>8, AcceptIs
<1> QED BY <1>1, <1>8, <1>9

LEMMA StartStreams ==
  ASSUME IInv, BInv, QInv, LInv, StartSend
  PROVE  LInv' /\ StreamStep
<1> DEFINE h == cur.h
<1>1. /\ at = "start" /\ at' = "send" /\ aclQueue' = aclQueue /\ cur' = cur
      /\ TxAclStart(h, cur.len)
  BY DEF StartSend
<1>2. h \in Handles /\ cur.len \in Lens
  BY <1>1 DEF IInv, Types, Sending
<1>3. availBufs > 0 /\ ~ conn[h].fragmenting /\ aclQueue = <<>> /\ conn[h].open
  BY <1>1, <1>2 DEF IInv, CutInv, Frag
<1>4. PICK n : Piece(h) /\ LInv' /\ lacks[h] = 0 /\ Gave(h, cur.len, n)
  BY <1>1, <1>2, <1>3, StartGives
<1>5. LensOf(aclQueue, h) = <<>> /\ LensOf(aclQueue', h) = <<>>
  <2>1. aclQueue \in Seq(Packet) /\ DOMAIN aclQueue = {}
    BY <1>3 DEF IInv, Types
  <2> QED BY <1>1, <2>1, LensOfInts
<1>6. Starting(h) = <<cur.len>> /\ \A g \in Handles : Starting(g)' = <<>>
  BY <1>1 DEF Starting
<1>7. \A g \in Handles : g # h => Starting(g) = <<>>
  BY DEF Starting
<1> HIDE DEF h
<1>8. cur.len \in Int /\ lacks'[h] \in Int
  BY <1>4, AclAssumption DEF Gave
<1>9. Todo[h] = <<cur.len>> \o <<>>
  <2>1. Todo[h] = (<<>> \o <<>>) \o <<cur.len>>
    BY <1>2, <1>3, <1>4, <1>5, <1>6, TodoIs DEF Lead
  <2> QED BY <1>8, <2>1
<1>10. Todo'[h] = Lead(lacks'[h]) \o <<>>
  <2>1. conn'[h].open
    BY <1>3, <1>4 DEF Piece
  <2>2. Todo'[h] = (Lead(lacks'[h]) \o <<>>) \o <<>>
    BY <1>2, <1>5, <1>6, <2>1, TodoIsNext
  <2>3. Lead(lacks'[h]) \in Seq(Int)
    BY <1>8, LeadInts
  <2> QED BY <2>2, <2>3, ConcatEmptySeq
<1>11. \A g \in Handles : g # h => Todo'[g] = Todo[g]
  BY <1>1, <1>4, <1>6, <1>7, SameTodo DEF Piece, Gave
<1>12. <<>> \in Seq(Int)
  OBVIOUS
<1> QED BY <1>2, <1>3, <1>4, <1>9, <1>10, <1>11, <1>12, PieceHandsOver

(* The next piece of a packet, whichever loop sends it.                    *)
LEMMA ContinueStreams ==
  ASSUME IInv, BInv, QInv, LInv, NEW h \in Handles, TxAclContinue(h), conn[h].fragmenting,
         availBufs > 0, aclQueue' = aclQueue, at # "start", at' # "start"
  PROVE  LInv' /\ StreamStep
<1>1. conn[h].open
  BY DEF IInv, CutInv, Frag
<1>2. PICK n : Piece(h) /\ LInv' /\ lacks[h] # 0 /\ Gave(h, lacks[h], n)
  BY ContinueGives
<1>3. \A g \in Handles : Starting(g) = <<>> /\ Starting(g)' = <<>>
  BY DEF Starting
<1> DEFINE q == LensOf(aclQueue, h)
<1>4. q \in Seq(Int) /\ lacks'[h] \in Int /\ lacks[h] \in Int
  <2>1. aclQueue \in Seq(Packet)
    BY DEF IInv, Types
  <2> QED BY <1>2, <2>1, LensAreInts, AclAssumption DEF Gave
<1> HIDE DEF q
<1>5. Todo[h] = <<lacks[h]>> \o q
  <2>1. Todo[h] = (<<lacks[h]>> \o q) \o <<>>
    BY <1>1, <1>2, <1>3, TodoIs DEF Lead, q
  <2>2. <<lacks[h]>> \o q \in Seq(Int)
    BY <1>4, ConcatProperties
  <2> QED BY <2>1, <2>2, ConcatEmptySeq
<1>6. Todo'[h] = Lead(lacks'[h]) \o q
  <2>1. conn'[h].open
    BY <1>1, <1>2 DEF Piece
  <2>2. Todo'[h] = (Lead(lacks'[h]) \o q) \o <<>>
    BY <1>3, <2>1, TodoIsNext DEF q
  <2>3. Lead(lacks'[h]) \in Seq(Int)
    BY <1>4, LeadInts
  <2>4. Lead(lacks'[h]) \o q \in Seq(Int)
    BY <1>4, <2>3, ConcatProperties
  <2> QED BY <2>2, <2>4, ConcatEmptySeq
<1>7. \A g \in Handles : g # h => Todo'[g] = Todo[g]
  BY <1>2, <1>3, SameTodo DEF Piece, Gave
<1> QED BY <1>1, <1>2, <1>4, <1>5, <1>6, <1>7, PieceHandsOver

LEMMA QueueStreams ==
  ASSUME IInv, BInv, QInv, LInv, availBufs > 0, Fragmenting = {}, aclQueue # <<>>,
         aclQueue' = Tail(aclQueue), at = "txReady", at' = "txReady",
         IF conn[Head(aclQueue).h].open
         THEN TxAclStart(Head(aclQueue).h, Head(aclQueue).len)
         ELSE UNCHANGED <<conn, availBufs, radio>>
  PROVE  LInv' /\ StreamStep
<1>1. aclQueue \in Seq(Packet)
  BY DEF IInv, Types
<1>2. PICK h \in Handles, len \in Lens : h = Head(aclQueue).h /\ len = Head(aclQueue).len
  <2>1. Head(aclQueue) \in Packet
    BY <1>1, LensOfTail
  <2> QED BY <2>1 DEF Packet
<1>3. \A g \in Handles : Starting(g) = <<>> /\ Starting(g)' = <<>>
  BY DEF Starting
<1>4. aclQueue' \in Seq(Packet)
  BY <1>1, LensOfTail
<1>5. \A g \in Handles : g # h => LensOf(aclQueue', g) = LensOf(aclQueue, g)
  <2> SUFFICES ASSUME NEW g \in Handles, g # h
               PROVE  LensOf(aclQueue', g) = LensOf(aclQueue, g)
    OBVIOUS
  <2>1. LensOf(aclQueue, g) = <<>> \o LensOf(aclQueue', g)
    BY <1>1, <1>2, LensOfTail DEF First
  <2>2. LensOf(aclQueue', g) \in Seq(Int)
    BY <1>4, LensAreInts
  <2> QED BY <2>1, <2>2, ConcatEmptySeq
<1> DEFINE q == LensOf(aclQueue', h)
<1>6. LensOf(aclQueue, h) = <<len>> \o q
  BY <1>1, <1>2, LensOfTail DEF First
<1>7. q \in Seq(Int) /\ len \in Int
  <2>1. q \in Seq(Int)
    BY <1>4, LensAreInts
  <2>2. len \in Int
    BY <1>2, AclAssumption
  <2> QED BY <2>1, <2>2
<1> HIDE DEF q
<1>8. CASE conn[h].open
  <2>1. ~ conn[h].fragmenting
    BY <1>8 DEF Fragmenting
  <2>2. TxAclStart(h, len)
    BY <1>2, <1>8
  <2>3. PICK n : Piece(h) /\ LInv' /\ lacks[h] = 0 /\ Gave(h, len, n)
    BY <2>1, <2>2, StartGives
  <2>4. lacks'[h] \in Int
    BY <2>3, AclAssumption DEF Gave
  <2>5. Todo[h] = <<len>> \o q
    <3>1. Todo[h] = (<<>> \o (<<len>> \o q)) \o <<>>
      BY <1>3, <1>6, <1>8, <2>3, TodoIs DEF Lead
    <3>2. <<len>> \o q \in Seq(Int)
      BY <1>7, ConcatProperties
    <3> QED BY <3>1, <3>2, ConcatEmptySeq
  <2>6. Todo'[h] = Lead(lacks'[h]) \o q
    <3>1. conn'[h].open
      BY <1>8, <2>3 DEF Piece
    <3>2. Todo'[h] = (Lead(lacks'[h]) \o q) \o <<>>
      BY <1>3, <3>1, TodoIsNext DEF q
    <3>3. Lead(lacks'[h]) \in Seq(Int)
      BY <2>4, LeadInts
    <3>4. Lead(lacks'[h]) \o q \in Seq(Int)
      BY <1>7, <3>3, ConcatProperties
    <3> QED BY <3>2, <3>4, ConcatEmptySeq
  <2>7. \A g \in Handles : g # h => Todo'[g] = Todo[g]
    BY <1>3, <1>5, <2>3, SameTodo DEF Piece, Gave
  <2> QED BY <1>7, <1>8, <2>3, <2>5, <2>6, <2>7, PieceHandsOver
<1>9. CASE ~ conn[h].open
  <2>1. conn' = conn /\ lacks' = lacks
    BY <1>2, <1>9 DEF radio
  <2>2. LInv'
    BY <2>1, LKeeps
  <2>3. Todo'[h] = Todo[h]
    BY <1>9, <2>1, TodoIs, TodoIsNext
  <2>4. \A g \in Handles : g # h => Todo'[g] = Todo[g]
    BY <1>3, <1>5, <2>1, SameTodo
  <2> QED BY <2>1, <2>2, <2>3, <2>4, Unseen
<1> QED BY <1>8, <1>9

LEMMA TxReadyStreams ==
  ASSUME IInv, BInv, QInv, LInv, TxReady
  PROVE  LInv' /\ StreamStep
<1>1. at = "txReady"
  BY DEF TxReady
<1>2. ASSUME availBufs > 0, NEW h \in Fragmenting, TxAclContinue(h), UNCHANGED <<aclQueue, at>>
      PROVE  LInv' /\ StreamStep
  <2>1. h \in Handles /\ conn[h].fragmenting
    BY DEF Fragmenting
  <2> QED BY <1>1, <1>2, <2>1, ContinueStreams
<1>3. ASSUME availBufs > 0, Fragmenting = {}, aclQueue # <<>>, aclQueue' = Tail(aclQueue),
             IF conn[Head(aclQueue).h].open
             THEN TxAclStart(Head(aclQueue).h, Head(aclQueue).len)
             ELSE UNCHANGED <<conn, availBufs, radio>>, at' = at
      PROVE  LInv' /\ StreamStep
  BY <1>1, <1>3, QueueStreams
<1>4. ASSUME at' = "idle", UNCHANGED <<conn, availBufs, aclQueue, radio>>
      PROVE  LInv' /\ StreamStep
  <2>1. conn' = conn /\ lacks' = lacks /\ aclQueue' = aclQueue
    BY <1>4 DEF radio
  <2>2. \A g \in Handles : Starting(g) = <<>> /\ Starting(g)' = <<>>
    BY <1>1, <1>4 DEF Starting
  <2> QED BY <2>1, <2>2, LKeeps, SameTodo, Unseen
<1> QED BY <1>2, <1>3, <1>4 DEF TxReady

LEMMA OpenStreams ==
  ASSUME IInv, BInv, QInv, LInv, ConnOpen
  PROVE  LInv' /\ StreamStep
<1> DEFINE h == Head(rxQueue).h
           c == [Closed EXCEPT !.open = TRUE]
<1>1. /\ at = "idle" /\ at' = "idle" /\ rxQueue # <<>> /\ Head(rxQueue).type = "open"
      /\ conn' = [conn EXCEPT ![h] = c] /\ aclQueue' = aclQueue /\ lacks' = lacks
  BY DEF ConnOpen, NextIs
<1>2. c.open = TRUE /\ c.outBufs = 0 /\ c.fragmenting = FALSE
  BY DEF Closed
<1>3. Head(rxQueue) \in Event /\ 1 \in DOMAIN rxQueue /\ Head(rxQueue) = rxQueue[1]
  BY <1>1, BFacts
<1>4. h \in Handles
  BY <1>1, <1>3 DEF Event
<1>5. Is(rxQueue[1], "open", h)
  BY <1>1, <1>3 DEF Is
<1> HIDE DEF h, c
<1>6. ~ conn[h].open
  <2>1. LinkOk(rxQueue, h, conn[h].open, h \in link)
    BY <1>4, BFacts
  <2> QED BY <1>3, <1>5, <2>1 DEF LinkOk
<1>7. /\ conn'[h] = c /\ \A g \in Handles : g # h => conn'[g] = conn[g]
      /\ DOMAIN conn = Handles
  BY <1>1, <1>4 DEF IInv, Types
<1>8. lacks[h] = 0
  BY <1>4, <1>6, LacksIs
<1>9. LInv'
  <2>1. lacks = [lacks EXCEPT ![h] = 0]
    <3>1. lacks = [g \in Handles |-> lacks[g]]
      BY DEF LInv
    <3> QED BY <1>8, <3>1
  <2>2. 0 = Left(conn'[h])
    BY <1>2, <1>7 DEF Left
  <2>3. lacks' = [lacks EXCEPT ![h] = 0]
    BY <1>1, <2>1
  <2> QED BY <1>4, <1>7, <2>2, <2>3, LChanges
<1>10. \A g \in Handles : Starting(g) = <<>> /\ Starting(g)' = <<>>
  BY <1>1 DEF Starting
<1>11. LensOf(aclQueue, h) = <<>>
  <2>1. aclQueue \in Seq(Packet)
    BY DEF IInv, Types
  <2>2. Announced(h)
    BY <1>3, <1>5 DEF Announced
  <2>3. \A j \in DOMAIN aclQueue : aclQueue[j].h # h
    BY <1>4, <2>2 DEF QInv
  <2> QED BY <2>1, <2>3, LensOfInts
<1>12. Todo'[h] = Todo[h]
  <2>1. Todo[h] = <<>>
    BY <1>4, <1>6, TodoIs
  <2>2. Todo'[h] = (<<>> \o <<>>) \o <<>>
    BY <1>1, <1>2, <1>4, <1>7, <1>8, <1>10, <1>11, TodoIsNext DEF Lead
  <2> QED BY <2>1, <2>2
<1>13. \A g \in Handles : g # h => Todo'[g] = Todo[g]
  BY <1>1, <1>7, <1>10, SameTodo
<1>14. Todo' = Todo
  <2>1. Todo = [g \in Handles |-> Todo[g]] /\ Todo' = [g \in Handles |-> Todo'[g]]
    BY DEF Todo
  <2> QED BY <1>12, <1>13, <2>1
<1>15. h \notin Up /\ Up' = Up \cup {h}
  BY <1>2, <1>4, <1>6, <1>7 DEF Up
<1>16. HeldNow' = HeldNow
  <2>1. conn[h].outBufs = 0
    BY <1>4, <1>6, BFacts DEF Share
  <2>2. \A g \in Handles : conn'[g].outBufs = conn[g].outBufs
    BY <1>2, <1>7, <2>1
  <2> QED BY <2>2 DEF HeldNow
<1>17. Stream!Open(h)
  BY <1>14, <1>15, <1>16 DEF Stream!Open
<1> QED BY <1>4, <1>9, <1>17 DEF StreamStep, Stream!StreamNext

LEMMA CloseStreams ==
  ASSUME IInv, BInv, QInv, LInv, ConnClose
  PROVE  LInv' /\ StreamStep
<1> DEFINE h == Head(rxQueue).h
<1>1. /\ at = "idle" /\ at' = "txReady" /\ rxQueue # <<>> /\ Head(rxQueue).type = "close"
      /\ conn' = [conn EXCEPT ![h] = Closed] /\ aclQueue' = aclQueue
      /\ lacks' = [lacks EXCEPT ![h] = 0]
  BY DEF ConnClose, NextIs
<1>2. Closed.open = FALSE /\ Closed.outBufs = 0 /\ Closed.fragmenting = FALSE
  BY DEF Closed
<1>3. Head(rxQueue) \in Event /\ 1 \in DOMAIN rxQueue /\ Head(rxQueue) = rxQueue[1]
      /\ DOMAIN rxQueue \subseteq Nat \ {0}
  BY <1>1, BFacts
<1>4. h \in Handles
  BY <1>1, <1>3 DEF Event
<1>5. Is(rxQueue[1], "close", h)
  BY <1>1, <1>3 DEF Is
<1> HIDE DEF h
<1>6. conn[h].open
  <2>1. LinkOk(rxQueue, h, conn[h].open, h \in link)
    BY <1>4, BFacts
  <2>2. ASSUME NEW j \in DOMAIN rxQueue, Is(rxQueue[j], "open", h) PROVE FALSE
    <3>1. j < 1
      BY <1>3, <1>5, <2>1, <2>2 DEF LinkOk
    <3> QED BY <1>3, <3>1
  <2> QED BY <1>3, <1>5, <2>1, <2>2 DEF LinkOk
<1>7. /\ conn'[h] = Closed /\ \A g \in Handles : g # h => conn'[g] = conn[g]
      /\ conn' = [conn EXCEPT ![h] = Closed] /\ DOMAIN conn = Handles
  BY <1>1, <1>4 DEF IInv, Types
<1>8. LInv'
  <2>1. 0 = Left(conn'[h])
    BY <1>2, <1>7 DEF Left
  <2> QED BY <1>1, <1>4, <1>7, <2>1, LChanges
<1>9. \A g \in Handles : Starting(g) = <<>> /\ Starting(g)' = <<>>
  BY <1>1 DEF Starting
<1>10. \A g \in Handles : g # h => lacks'[g] = lacks[g]
  <2>1. DOMAIN lacks = Handles
    BY DEF LInv
  <2> QED BY <1>1, <2>1
<1>11. Todo' = [Todo EXCEPT ![h] = <<>>]
  <2>1. Todo = [g \in Handles |-> Todo[g]] /\ Todo' = [g \in Handles |-> Todo'[g]]
    BY DEF Todo
  <2>2. Todo'[h] = <<>>
    BY <1>2, <1>4, <1>7, TodoIsNext
  <2>3. \A g \in Handles : g # h => Todo'[g] = Todo[g]
    BY <1>1, <1>7, <1>9, <1>10, SameTodo
  <2> QED BY <1>4, <2>1, <2>2, <2>3
<1>12. h \in Up /\ Up' = Up \ {h}
  BY <1>2, <1>4, <1>6, <1>7 DEF Up
<1>13. HeldNow' = [HeldNow EXCEPT ![h] = 0]
  BY <1>2, <1>4, <1>7 DEF HeldNow
<1>14. Stream!Close(h)
  BY <1>11, <1>12, <1>13 DEF Stream!Close
<1> QED BY <1>4, <1>8, <1>14 DEF StreamStep, Stream!StreamNext

LEMMA CmplStreams ==
  ASSUME IInv, BInv, QInv, LInv, CmplHandle
  PROVE  LInv' /\ StreamStep
<1>1. /\ at = "cmpl" /\ aclQueue' = aclQueue /\ lacks' = lacks
  BY DEF CmplHandle, radio
<1>2. PICK h \in Handles :
        /\ evt[h] > 0
        /\ IF conn[h].open
           THEN LET c  == [conn[h] EXCEPT !.outBufs = @ - evt[h], !.queuedBufs = @ - evt[h]]
                    on == c.flowDisabled /\ c.queuedBufs <= QueueLo
                IN  /\ credit' = credit + evt[h]
                    /\ conn' = [conn EXCEPT ![h] = IF on THEN [c EXCEPT !.flowDisabled = FALSE,
                                                                        !.attOff = FALSE]
                                                         ELSE c]
                    /\ at' = IF on THEN "flowAtt" ELSE "cmpl"
                    /\ resumed' = IF on THEN {h} ELSE {}
           ELSE UNCHANGED <<conn, credit, at, resumed>>
  BY DEF CmplHandle
<1>3. conn[h].open /\ evt[h] <= conn[h].outBufs
  <2>1. Share(conn[h].open, h \in link, conn[h].outBufs, ctl[h], evt[h] + Coming(rxQueue, h))
    BY BFacts
  <2>2. /\ evt[h] \in Nat /\ Coming(rxQueue, h) \in Nat /\ ctl[h] \in Int
        /\ conn[h].outBufs \in Int /\ conn[h].open \in BOOLEAN
    BY BFacts
  <2>3. conn[h].open
    BY <1>2, <2>1, <2>2 DEF Share
  <2> QED BY <2>1, <2>2, <2>3 DEF Share
<1> DEFINE c  == [conn[h] EXCEPT !.outBufs = @ - evt[h], !.queuedBufs = @ - evt[h]]
           on == c.flowDisabled /\ c.queuedBufs <= QueueLo
           d  == IF on THEN [c EXCEPT !.flowDisabled = FALSE, !.attOff = FALSE] ELSE c
<1>4. /\ conn' = [conn EXCEPT ![h] = d] /\ at' = IF on THEN "flowAtt" ELSE "cmpl"
  BY <1>2, <1>3
<1>5. conn[h] \in IntConn /\ evt[h] \in 1..NumBufs
  BY <1>2, AclAssumption DEF IInv, Types, Counts
<1>6. /\ c.outBufs = conn[h].outBufs - evt[h] /\ c.open = conn[h].open
      /\ c.fragmenting = conn[h].fragmenting /\ c.remLen = conn[h].remLen
      /\ DOMAIN c = DOMAIN conn[h]
  BY <1>5 DEF IntConn
<1> HIDE DEF c, on
<1>7. /\ d.outBufs = c.outBufs /\ d.open = c.open /\ d.fragmenting = c.fragmenting
      /\ d.remLen = c.remLen
  <2>1. CASE on
    BY <1>6, <2>1
  <2>2. CASE ~ on
    BY <2>2
  <2> QED BY <2>1, <2>2
<1>8. at' # "start"
  BY <1>4
<1> HIDE DEF d
<1>9. conn'[h] = d /\ \A g \in Handles : g # h => conn'[g] = conn[g]
  BY <1>4 DEF IInv, Types
<1>10. \A g \in Handles : /\ conn'[g].open = conn[g].open
                          /\ conn'[g].fragmenting = conn[g].fragmenting
                          /\ conn'[g].remLen = conn[g].remLen
  BY <1>6, <1>7, <1>9
<1>11. LInv'
  BY <1>1, <1>10, LKeeps
<1>12. \A g \in Handles : Starting(g) = <<>> /\ Starting(g)' = <<>>
  BY <1>1, <1>8 DEF Starting
<1>13. \A g \in Handles : Todo'[g] = Todo[g]
  BY <1>1, <1>10, <1>12, SameTodo
<1>14. Todo' = Todo
  <2>1. Todo = [g \in Handles |-> Todo[g]] /\ Todo' = [g \in Handles |-> Todo'[g]]
    BY DEF Todo
  <2> QED BY <1>13, <2>1
<1>15. Up' = Up
  BY <1>10 DEF Up
<1>16. evt[h] <= HeldNow[h] /\ HeldNow' = [HeldNow EXCEPT ![h] = @ - evt[h]]
  BY <1>3, <1>6, <1>7, <1>9 DEF HeldNow
<1>17. Stream!Release(h, evt[h])
  BY <1>14, <1>15, <1>16 DEF Stream!Release
<1> QED BY <1>5, <1>11, <1>17 DEF StreamStep, Stream!StreamNext

(* Steps that leave the packets and what is left of them as they are.      *)
LEMMA QuietStreams ==
  ASSUME LInv, lacks' = lacks, aclQueue' = aclQueue, at # "start", at' # "start",
         \A g \in Handles : /\ conn'[g].open = conn[g].open
                            /\ conn'[g].outBufs = conn[g].outBufs
                            /\ conn'[g].fragmenting = conn[g].fragmenting
                            /\ conn'[g].remLen = conn[g].remLen
  PROVE  LInv' /\ StreamStep
<1>1. LInv'
  BY LKeeps
<1>2. \A g \in Handles : Starting(g) = <<>> /\ Starting(g)' = <<>>
  BY DEF Starting
<1>3. \A g \in Handles : Todo'[g] = Todo[g]
  BY <1>2, SameTodo
<1> QED BY <1>1, <1>3, Unseen

LEMMA StreamsNext ==
  ASSUME IInv, BInv, QInv, LInv, [Next]_vars
  PROVE  LInv' /\ StreamStep
<1>0. Types
  BY DEF IInv
<1>1. CASE Send
  BY <1>1, CallSendStreams DEF Send
<1>2. CASE StartSend
  BY <1>2, StartStreams
<1>3. CASE ContinueSend
  <2>1. /\ cur.h \in Handles /\ at = "send" /\ at' = "send" /\ aclQueue' = aclQueue
        /\ availBufs > 0 /\ conn[cur.h].fragmenting /\ TxAclContinue(cur.h)
    BY <1>0, <1>3 DEF ContinueSend, Types, Sending
  <2> QED BY <2>1, ContinueStreams
<1>4. CASE FinishSend
  <2>1. lacks' = lacks
    BY <1>4 DEF FinishSend, radio
  <2>2. at' # "start" /\ at # "start"
    BY <1>4, FinishFacts DEF Sending
  <2> QED BY <1>4, <2>1, <2>2, FinishFacts, QuietStreams
<1>5. CASE TxReady
  BY <1>5, TxReadyStreams
<1>6. CASE ConnOpen
  BY <1>6, OpenStreams
<1>7. CASE ConnClose
  BY <1>7, CloseStreams
<1>8. CASE NumCmplPkts
  <2>1. /\ at = "idle" /\ at' = "cmpl" /\ conn' = conn /\ aclQueue' = aclQueue /\ lacks' = lacks
    BY <1>8 DEF NumCmplPkts, NextIs, core
  <2> QED BY <2>1, QuietStreams
<1>9. CASE CmplHandle
  BY <1>9, CmplStreams
<1>10. CASE FlowAtt
  <2>1. at = "flowAtt" /\ resumed \subseteq Handles
    BY <1>0, <1>10 DEF FlowAtt, Types
  <2>2. CASE \E h \in resumed, len \in Lens : CallSend(h, len)
    BY <2>1, <2>2, CallSendStreams
  <2>3. CASE ~ \E h \in resumed, len \in Lens : CallSend(h, len)
    <3>1. PICK h \in resumed :
            /\ at' = "flowSmp"
            /\ conn' = [conn EXCEPT ![h].smpOff = FALSE]
            /\ UNCHANGED <<availBufs, aclQueue, cur, evt, resumed, credit, radio>>
      BY <1>10, <2>3 DEF FlowAtt
    <3>2. conn[h] \in IntConn /\ conn \in [Handles -> IntConn] /\ h \in Handles
      BY <1>0, <2>1 DEF Types
    <3>3. \A g \in Handles :
            /\ conn'[g].open = conn[g].open /\ conn'[g].outBufs = conn[g].outBufs
            /\ conn'[g].remLen = conn[g].remLen
            /\ conn'[g].fragmenting = conn[g].fragmenting
      BY <3>1, <3>2 DEF IntConn
    <3>4. lacks' = lacks /\ aclQueue' = aclQueue
      BY <3>1 DEF radio
    <3> QED BY <2>1, <3>1, <3>3, <3>4, QuietStreams
  <2> QED BY <2>2, <2>3
<1>11. CASE FlowSmp
  <2>1. at = "flowSmp" /\ resumed \subseteq Handles
    BY <1>0, <1>11 DEF FlowSmp, Types
  <2>2. CASE \E h \in resumed, len \in Lens : CallSend(h, len)
    BY <2>1, <2>2, CallSendStreams
  <2>3. CASE ~ \E h \in resumed, len \in Lens : CallSend(h, len)
    <3>1. at' = "cmpl" /\ conn' = conn /\ aclQueue' = aclQueue /\ lacks' = lacks
      BY <1>11, <2>3 DEF FlowSmp, core, radio
    <3> QED BY <2>1, <3>1, QuietStreams
  <2> QED BY <2>2, <2>3
<1>12. CASE CmplDone
  <2>1. /\ at = "cmpl" /\ at' = "txReady" /\ conn' = conn /\ aclQueue' = aclQueue /\ lacks' = lacks
    BY <1>12 DEF CmplDone, radio
  <2> QED BY <2>1, QuietStreams
<1>13. CASE Controller \/ UNCHANGED vars
  <2>1. /\ conn' = conn /\ at' = at /\ cur' = cur /\ aclQueue' = aclQueue /\ lacks' = lacks
    BY <1>13 DEF Controller, CtlOpen, CtlClose, CtlComplete, core, vars, radio
  <2>2. \A g \in Handles : Starting(g)' = Starting(g)
    BY <2>1 DEF Starting
  <2> QED BY <2>1, <2>2, LKeeps, SameTodo, Unseen
<1> QED
  BY <1>1, <1>2, <1>3, <1>4, <1>5, <1>6, <1>7, <1>8, <1>9, <1>10, <1>11, <1>12, <1>13
  DEF Next, Host

LEMMA StreamsInit == Init => LInv /\ Stream!StreamInit
<1> SUFFICES ASSUME Init PROVE LInv /\ Stream!StreamInit
  OBVIOUS
<1>1. /\ \A h \in Handles : conn[h] = Closed
      /\ lacks = [h \in Handles |-> 0]
  BY DEF Init, NoCounts
<1>2. Closed.open = FALSE /\ Closed.outBufs = 0 /\ Closed.fragmenting = FALSE
  BY DEF Closed
<1>3. LInv
  BY <1>1, <1>2 DEF LInv, Left
<1>4. Up = {} /\ Todo = [h \in Handles |-> <<>>] /\ HeldNow = [h \in Handles |-> 0]
  BY <1>1, <1>2 DEF Up, Todo, HeldNow
<1> QED BY <1>3, <1>4 DEF Stream!StreamInit

(* The data path hands over the packets of each connection whole and in    *)
(* order, in pieces that fit a buffer of the controller, and no more of    *)
(* them than there are (hci_core.c:328-519, hci_core_ps.c:61-105), for any *)
(* connections, buffers, lengths and thresholds.                           *)
THEOREM StreamImplemented == Spec => ImplementsStream
<1>1. Init => IInv /\ BInv /\ QInv /\ LInv /\ Stream!StreamInit
  BY InitInv, BInit, QInit, StreamsInit
<1>2. (IInv /\ BInv /\ QInv /\ LInv) /\ [Next]_vars
        => (IInv /\ BInv /\ QInv /\ LInv)' /\ [Stream!StreamNext]_(Stream!streamVars)
  BY NextInv, BNext, QNext, StreamsNext DEF StreamStep
<1> QED BY <1>1, <1>2, PTL DEF Spec, ImplementsStream, Stream!StreamSpec
=============================================================================
