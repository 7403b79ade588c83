----------------------------- MODULE WsfBufProofs -----------------------------
(***************************************************************************)
(* Proofs about WsfBuf, for any pools, callers and lengths.                *)
(***************************************************************************)
EXTENDS WsfBuf, TLAPS, SequenceTheorems, WellFoundedInduction

(* A set of numbers that is not empty has a smallest.                      *)
LEMMA Smallest ==
  ASSUME NEW T \in SUBSET Nat, T # {}
  PROVE  \E x \in T : \A y \in T : x <= y
<1>1. PICK x \in T : \A y \in T : ~ (<<y, x>> \in OpToRel(<, Nat))
  BY NatLessThanWellFounded, WFMin
<1>2. ASSUME NEW y \in T PROVE x <= y
  <2>1. <<y, x>> \in Nat \X Nat /\ <<y, x>>[1] = y /\ <<y, x>>[2] = x
    OBVIOUS
  <2>2. ~ (y < x)
    BY <1>1, <2>1, Zenon DEF OpToRel
  <2> QED BY <2>2
<1> QED BY <1>2

(* What LayoutAssumption says of one pool.                                 *)
LEMMA PoolFacts ==
  ASSUME NEW p \in Pools
  PROVE  /\ p \in Nat /\ p + 1 \in Nat
         /\ PoolStart[p] \in Nat /\ PoolStart[p + 1] \in Nat
         /\ PoolLen[p] \in Nat /\ PoolLen[p] > 0
         /\ PoolNum[p] \in Nat /\ PoolNum[p] > 0
         /\ PoolStart[p + 1] = PoolStart[p] + PoolNum[p] * PoolLen[p]
<1>1. p \in 1..NumPools + 1 /\ p + 1 \in 1..NumPools + 1
  BY LayoutAssumption DEF Pools
<1>2. p \in Nat /\ p + 1 \in Nat
  BY DEF Pools
<1>3. PoolStart[p] \in Nat /\ PoolStart[p + 1] \in Nat
  BY <1>1, LayoutAssumption
<1>4. PoolLen[p] \in Nat \ {0} /\ PoolNum[p] \in Nat \ {0}
  BY LayoutAssumption
<1>5. PoolStart[p + 1] = PoolStart[p] + PoolNum[p] * PoolLen[p]
  BY LayoutAssumption, Zenon
<1>6. PoolLen[p] > 0 /\ PoolNum[p] > 0
  BY <1>4
<1> QED BY <1>2, <1>3, <1>4, <1>5, <1>6, Zenon

(* The pools lie one behind the other.                                     *)
LEMMA PoolsApart ==
  ASSUME NEW p \in Pools, NEW q \in Pools, p < q
  PROVE  PoolStart[p + 1] <= PoolStart[q]
<1> DEFINE T == {n \in Pools : p < n /\ ~ (PoolStart[p + 1] <= PoolStart[n])}
<1> SUFFICES ASSUME T # {} PROVE FALSE
  OBVIOUS
<1>1. T \subseteq Nat
  BY DEF Pools
<1>2. PICK n \in T : \A m \in T : n <= m
  <2> HIDE DEF T
  <2> QED BY <1>1, Smallest
<1>3. n \in Pools /\ p < n /\ ~ (PoolStart[p + 1] <= PoolStart[n])
  OBVIOUS
<1>4. n # p + 1
  BY <1>3, PoolFacts
<1>5. n - 1 \in Pools /\ p < n - 1 /\ n - 1 + 1 = n
  BY <1>3, <1>4, LayoutAssumption DEF Pools
<1>6. n - 1 \notin T
  <2> HIDE DEF T
  <2> QED BY <1>2, <1>3, <1>5, PoolFacts
<1>7. PoolStart[p + 1] <= PoolStart[n - 1]
  BY <1>5, <1>6
<1>8. PoolNum[n - 1] * PoolLen[n - 1] >= 0
  <2>1. PoolNum[n - 1] \in Nat /\ PoolLen[n - 1] \in Nat
    BY <1>5, PoolFacts
  <2> QED BY <2>1
<1>9. /\ PoolStart[n] = PoolStart[n - 1] + PoolNum[n - 1] * PoolLen[n - 1]
      /\ PoolStart[n - 1] \in Nat /\ PoolStart[n] \in Nat /\ PoolStart[p + 1] \in Nat
  BY <1>5, PoolFacts
<1> DEFINE size == PoolNum[n - 1] * PoolLen[n - 1]
<1>10. size \in Int /\ size >= 0
  BY <1>5, <1>8, PoolFacts
<1> HIDE DEF size, T
<1>11. PoolStart[n] = PoolStart[n - 1] + size
  BY <1>9 DEF size
<1> QED BY <1>3, <1>7, <1>9, <1>10, <1>11

(* A buffer lies in its pool.                                              *)
LEMMA BufferInPool ==
  ASSUME NEW p \in Pools, NEW b \in Buffers(p)
  PROVE  b \in Nat /\ PoolStart[p] <= b /\ b < PoolStart[p + 1]
<1>1. PICK i \in 1..PoolNum[p] : b = PoolStart[p] + (i - 1) * PoolLen[p]
  BY DEF Buffers, Addr
<1>2. ASSUME NEW l \in Nat, l > 0, NEW n \in Nat, NEW s \in Nat, NEW k \in 1..n
      PROVE  /\ s + (k - 1) * l \in Nat
             /\ s <= s + (k - 1) * l
             /\ s + (k - 1) * l < s + n * l
  <2>1. n * l = (k - 1) * l + (n - k) * l + l
    BY <1>2
  <2>2. (k - 1) * l \in Nat /\ (n - k) * l \in Nat
    BY <1>2
  <2> DEFINE x == (k - 1) * l y == (n - k) * l z == n * l
  <2>3. z = x + y + l /\ x \in Nat /\ y \in Nat
    BY <2>1, <2>2
  <2> HIDE DEF x, y, z
  <2>4. s + x \in Nat /\ s <= s + x /\ s + x < s + z
    BY <1>2, <2>3
  <2> QED BY <2>4 DEF x, y, z
<1>3. /\ PoolStart[p] \in Nat /\ PoolLen[p] \in Nat /\ PoolLen[p] > 0 /\ PoolNum[p] \in Nat
      /\ PoolStart[p + 1] = PoolStart[p] + PoolNum[p] * PoolLen[p]
  BY PoolFacts
<1> QED BY <1>1, <1>2, <1>3, Zenon

(* WsfBufFree finds the pool of every buffer.                              *)
LEMMA PoolOfBuffer ==
  ASSUME NEW p \in Pools, NEW b \in Buffers(p)
  PROVE  PoolOf(b) = p
<1>1. b \in Nat /\ PoolStart[p] <= b /\ b < PoolStart[p + 1]
  BY BufferInPool
<1>2. ASSUME NEW q \in Pools, q > p PROVE b < PoolStart[q]
  BY <1>1, <1>2, PoolFacts, PoolsApart
<1>3. ASSUME NEW q \in Pools, b >= PoolStart[q], \A r \in Pools : r > q => b < PoolStart[r]
      PROVE  q = p
  BY <1>1, <1>2, <1>3, PoolFacts
<1>4. b >= PoolStart[p]
  BY <1>1, PoolFacts
<1> QED BY <1>2, <1>3, <1>4 DEF PoolOf

(* A buffer is at one place of its pool.                                   *)
LEMMA AddrInjective ==
  ASSUME NEW p \in Pools, NEW i \in 1..PoolNum[p], NEW j \in 1..PoolNum[p],
         Addr(p, i) = Addr(p, j)
  PROVE  i = j
<1>1. ASSUME NEW l \in Nat, l > 0, NEW x \in Int, NEW y \in Int, x * l = y * l
      PROVE  x = y
  <2>1. CASE x < y
    <3>1. (y - x) * l = 0 /\ y - x > 0
      BY <1>1, <2>1
    <3> QED BY <1>1, <3>1
  <2>2. CASE y < x
    <3>1. (x - y) * l = 0 /\ x - y > 0
      BY <1>1, <2>2
    <3> QED BY <1>1, <3>1
  <2> QED BY <2>1, <2>2
<1> DEFINE l == PoolLen[p] x == (i - 1) * l y == (j - 1) * l
<1>2. PoolStart[p] \in Nat /\ l \in Nat /\ l > 0 /\ PoolNum[p] \in Nat
  BY PoolFacts
<1>3. x \in Int /\ y \in Int /\ PoolStart[p] + x = PoolStart[p] + y
  BY <1>2 DEF Addr
<1>4. x = y
  <2> HIDE DEF x, y
  <2> QED BY <1>2, <1>3
<1> QED BY <1>1, <1>2, <1>4

(* Lists without repetition: the first off, another in front.              *)
LEMMA TailOfList ==
  ASSUME NEW S, NEW s \in Seq(S), s # <<>>, IsInjective(s)
  PROVE  /\ Tail(s) \in Seq(S) /\ IsInjective(Tail(s))
         /\ Range(Tail(s)) = Range(s) \ {Head(s)}
         /\ Head(s) \in Range(s) /\ Head(s) \in S
<1>1. /\ Len(s) \in Nat /\ Len(s) > 0 /\ DOMAIN s = 1..Len(s)
      /\ Head(s) = s[1] /\ 1 \in DOMAIN s
  OBVIOUS
<1>2. /\ Tail(s) \in Seq(S) /\ DOMAIN Tail(s) = 1..Len(s) - 1
      /\ \A i \in 1..Len(s) - 1 : Tail(s)[i] = s[i + 1]
  BY <1>1
<1>3. IsInjective(Tail(s))
  BY <1>1, <1>2 DEF IsInjective
<1>4. Head(s) \in Range(s) /\ Head(s) \in S
  BY <1>1 DEF Range
<1>5. ASSUME NEW x \in Range(Tail(s)) PROVE x \in Range(s) \ {Head(s)}
  <2>1. PICK i \in 1..Len(s) - 1 : x = s[i + 1]
    BY <1>2 DEF Range
  <2> QED BY <1>1, <2>1 DEF Range, IsInjective
<1>6. ASSUME NEW x \in Range(s), x # Head(s) PROVE x \in Range(Tail(s))
  <2>1. PICK i \in 1..Len(s) : x = s[i]
    BY <1>1 DEF Range
  <2>2. i - 1 \in 1..Len(s) - 1 /\ i - 1 + 1 = i
    BY <1>1, <1>6, <2>1
  <2>3. x = Tail(s)[i - 1]
    BY <1>2, <2>1, <2>2
  <2> QED BY <1>2, <2>2, <2>3 DEF Range
<1> QED BY <1>2, <1>3, <1>4, <1>5, <1>6

LEMMA InFrontOfList ==
  ASSUME NEW S, NEW s \in Seq(S), IsInjective(s), NEW b \in S, b \notin Range(s)
  PROVE  /\ <<b>> \o s \in Seq(S) /\ IsInjective(<<b>> \o s)
         /\ Range(<<b>> \o s) = Range(s) \cup {b}
<1> DEFINE t == <<b>> \o s
<1>1. Len(s) \in Nat /\ DOMAIN s = 1..Len(s)
  OBVIOUS
<1>2. /\ t \in Seq(S) /\ DOMAIN t = 1..Len(s) + 1 /\ t[1] = b
      /\ \A i \in 2..Len(s) + 1 : t[i] = s[i - 1]
  BY <1>1
<1> HIDE DEF t
<1>3. \A i \in 2..Len(s) + 1 : i - 1 \in 1..Len(s) /\ t[i] \in Range(s)
  BY <1>1, <1>2 DEF Range
<1>4. ASSUME NEW i \in DOMAIN t, NEW j \in DOMAIN t, t[i] = t[j] PROVE i = j
  <2>1. CASE i = 1 \/ j = 1
    BY <1>1, <1>2, <1>3, <1>4, <2>1
  <2>2. CASE i # 1 /\ j # 1
    <3>1. i \in 2..Len(s) + 1 /\ j \in 2..Len(s) + 1
      BY <1>1, <1>2, <2>2
    <3>2. s[i - 1] = s[j - 1] /\ i - 1 \in DOMAIN s /\ j - 1 \in DOMAIN s
      BY <1>1, <1>2, <1>3, <1>4, <3>1
    <3>3. i - 1 = j - 1
      BY <3>2 DEF IsInjective
    <3> QED BY <3>1, <3>3
  <2> QED BY <2>1, <2>2
<1>5. ASSUME NEW x \in Range(s) \cup {b} PROVE x \in Range(t)
  <2>1. CASE x = b
    BY <1>1, <1>2, <2>1 DEF Range
  <2>2. CASE x \in Range(s)
    <3>1. PICK i \in 1..Len(s) : x = s[i]
      BY <1>1, <2>2 DEF Range
    <3>2. i + 1 \in 2..Len(s) + 1 /\ i + 1 - 1 = i
      BY <1>1
    <3>3. x = t[i + 1] /\ i + 1 \in DOMAIN t
      BY <1>1, <1>2, <3>1, <3>2
    <3> QED BY <3>3 DEF Range
  <2> QED BY <2>1, <2>2
<1>6. ASSUME NEW x \in Range(t) PROVE x \in Range(s) \cup {b}
  <2>1. PICK i \in DOMAIN t : x = t[i]
    BY DEF Range
  <2>2. i = 1 \/ i \in 2..Len(s) + 1
    BY <1>1, <1>2
  <2> QED BY <1>2, <1>3, <2>1, <2>2
<1> QED BY <1>2, <1>4, <1>5, <1>6 DEF IsInjective, t

(* No buffer is of two pools.                                              *)
LEMMA PoolsDisjoint ==
  ASSUME NEW p \in Pools, NEW q \in Pools, p # q
  PROVE  Buffers(p) \cap Buffers(q) = {}
<1> SUFFICES ASSUME NEW b \in Buffers(p), b \in Buffers(q) PROVE FALSE
  OBVIOUS
<1> QED BY PoolOfBuffer

-----------------------------------------------------------------------------
(* What a caller holds to have been free all the time is not in use.       *)
StayedFree == \A c \in Callers : call[c].stayed \cap held = {}

IInv == TypeOK /\ Partition /\ StayedFree /\ BestFit

AllBuffers == UNION {Buffers(p) : p \in Pools}

LEMMA AllBuffersNat == AllBuffers \subseteq Nat
BY BufferInPool DEF AllBuffers

LEMMA InitInv == Init => IInv
<1> SUFFICES ASSUME Init PROVE IInv
  OBVIOUS
<1>1. ASSUME NEW p \in Pools
      PROVE  /\ free[p] \in Seq(Nat) /\ IsInjective(free[p])
             /\ Range(free[p]) = Buffers(p)
  <2>1. free[p] = [i \in 1..PoolNum[p] |-> Addr(p, i)]
    BY DEF Init
  <2>2. \A i \in 1..PoolNum[p] : Addr(p, i) \in Buffers(p)
    BY DEF Buffers
  <2>3. \A i \in 1..PoolNum[p] : Addr(p, i) \in Nat
    BY <2>2, BufferInPool
  <2>4. free[p] \in Seq(Nat)
    BY <2>1, <2>3, PoolFacts, IsASeq
  <2>5. IsInjective(free[p])
    BY <2>1, AddrInjective DEF IsInjective
  <2>6. Range(free[p]) = Buffers(p)
    BY <2>1 DEF Range, Buffers
  <2> QED BY <2>4, <2>5, <2>6
<1>2. TypeOK
  <2>1. free = [p \in Pools |-> free[p]]
    BY DEF Init
  <2>2. 1 \in 1..NumPools + 1
    BY LayoutAssumption
  <2>3. call \in [Callers -> Call]
    BY <2>2 DEF Init, Call
  <2> QED BY <1>1, <2>1, <2>3 DEF Init, TypeOK
<1>3. Partition
  BY <1>1 DEF Init, Partition
<1>4. StayedFree
  BY DEF Init, StayedFree
<1>5. BestFit
  BY DEF Init, BestFit, Pools
<1> QED BY <1>2, <1>3, <1>4, <1>5 DEF IInv

LEMMA AllocInv ==
  ASSUME IInv, NEW c \in Callers, NEW len \in ReqLens, Alloc(c, len)
  PROVE  IInv'
<1> USE DEF IInv
<1> DEFINE all == UNION {Range(free[p]) : p \in Pools}
<1>1. all \cap held = {} /\ all \subseteq Nat
  BY AllBuffersNat DEF Partition, AllBuffers
<1>2. /\ call' = [call EXCEPT ![c] = [at |-> "alloc", len |-> len, pool |-> 1, stayed |-> all]]
      /\ free' = free /\ held' = held
  BY DEF Alloc
<1> HIDE DEF all
<1>3. 1 \in Pools /\ 1 \in 1..NumPools + 1
  BY LayoutAssumption DEF Pools
<1>4. [at |-> "alloc", len |-> len, pool |-> 1, stayed |-> all] \in Call
  BY <1>1, <1>3 DEF Call
<1>5. TypeOK'
  BY <1>2, <1>3, <1>4 DEF TypeOK
<1>6. Partition'
  BY <1>2 DEF Partition
<1>7. StayedFree'
  BY <1>1, <1>2 DEF StayedFree, TypeOK
<1>8. BestFit'
  BY <1>2 DEF BestFit, TypeOK, Pools
<1> QED BY <1>5, <1>6, <1>7, <1>8

LEMMA TakeInv ==
  ASSUME IInv, NEW c \in Callers, Take(c)
  PROVE  IInv'
<1> USE DEF IInv
<1> DEFINE p == call[c].pool s == free[p] b == Head(s)
<1>1. p \in Pools
  BY DEF Take, TypeOK
<1>2. /\ s \in Seq(Nat) /\ s # <<>> /\ IsInjective(s) /\ Range(s) = Buffers(p) \ held
  BY <1>1 DEF Take, Serves, TypeOK, Partition
<1>3. /\ Tail(s) \in Seq(Nat) /\ IsInjective(Tail(s))
      /\ Range(Tail(s)) = Range(s) \ {b} /\ b \in Range(s) /\ b \in Nat
  <2> HIDE DEF s
  <2> QED BY <1>2, TailOfList
<1>4. /\ free' = [free EXCEPT ![p] = Tail(s)]
      /\ held' = held \cup {b}
      /\ call' = [d \in Callers |-> [call[d] EXCEPT !.stayed = @ \ {b},
                                                    !.at = IF d = c THEN "idle" ELSE @]]
  BY DEF Take
<1>5. \A q \in Pools : q # p => b \notin Buffers(q)
  BY <1>1, <1>2, <1>3, PoolsDisjoint
<1> HIDE DEF s, b
<1>6. ASSUME NEW d \in Callers
      PROVE  /\ call'[d] \in Call
             /\ call'[d].pool = call[d].pool /\ call'[d].len = call[d].len
             /\ call'[d].stayed = call[d].stayed \ {b}
             /\ call'[d].at = "alloc" => call[d].at = "alloc"
  BY <1>4 DEF TypeOK, Call
<1>7. ASSUME NEW q \in Pools
      PROVE  free'[q] = IF q = p THEN Tail(s) ELSE free[q]
  BY <1>4 DEF TypeOK
<1>8. TypeOK'
  <2>1. free' \in [Pools -> Seq(Nat)]
    BY <1>1, <1>3, <1>4 DEF TypeOK
  <2>2. held' \in SUBSET Nat
    BY <1>3, <1>4 DEF TypeOK
  <2>3. call' \in [Callers -> Call]
    BY <1>4, <1>6
  <2> QED BY <1>6, <2>1, <2>2, <2>3 DEF TypeOK
<1>9. Partition'
  <2>1. held' \subseteq AllBuffers
    BY <1>1, <1>2, <1>3, <1>4 DEF Partition, AllBuffers
  <2>2. ASSUME NEW q \in Pools
        PROVE  IsInjective(free'[q]) /\ Range(free'[q]) = Buffers(q) \ held'
    <3>1. CASE q = p
      BY <1>2, <1>3, <1>4, <1>7, <3>1
    <3>2. CASE q # p
      <4>1. IsInjective(free[q]) /\ Range(free[q]) = Buffers(q) \ held
        BY DEF Partition
      <4>2. b \notin Buffers(q)
        BY <1>5, <3>2
      <4> QED BY <1>4, <1>7, <3>2, <4>1, <4>2
    <3> QED BY <3>1, <3>2
  <2> QED BY <2>1, <2>2 DEF Partition, AllBuffers
<1>10. StayedFree'
  BY <1>4, <1>6 DEF StayedFree
<1>11. \A q \in Pools : Range(free'[q]) \subseteq Range(free[q])
  BY <1>3, <1>7 DEF s
<1>12. BestFit'
  BY <1>6, <1>11 DEF BestFit
<1> QED BY <1>8, <1>9, <1>10, <1>12

LEMMA PassInv ==
  ASSUME IInv, NEW c \in Callers, Pass(c)
  PROVE  IInv'
<1> USE DEF IInv
<1> DEFINE p == call[c].pool
<1>1. p \in Pools /\ p \in Nat
  BY DEF Pass, TypeOK, Pools
<1>2. /\ free' = free /\ held' = held
      /\ call' = [call EXCEPT ![c].pool = @ + 1,
                              ![c].at = IF p = NumPools THEN "idle" ELSE @]
  BY DEF Pass
<1>3. ASSUME NEW d \in Callers
      PROVE  /\ call'[d] \in Call
             /\ call'[d].pool = IF d = c THEN p + 1 ELSE call[d].pool
             /\ call'[d].len = call[d].len /\ call'[d].stayed = call[d].stayed
             /\ call'[d].at = "alloc" => call'[d].pool \in Pools
  <2>1. call[d] \in Call /\ (call[d].at = "alloc" => call[d].pool \in Pools)
    BY DEF TypeOK
  <2>2. p + 1 \in 1..NumPools + 1 /\ (p # NumPools => p + 1 \in Pools)
    <3>1. NumPools \in Nat /\ p \in 1..NumPools
      BY <1>1, LayoutAssumption DEF Pools
    <3> HIDE DEF p
    <3> QED BY <3>1 DEF Pools
  <2>3. CASE d = c
    BY <1>2, <2>1, <2>2, <2>3 DEF TypeOK, Call
  <2>4. CASE d # c
    BY <1>2, <2>1, <2>4 DEF TypeOK
  <2> QED BY <2>3, <2>4
<1>4. TypeOK'
  BY <1>2, <1>3 DEF TypeOK
<1>5. Partition'
  BY <1>2 DEF Partition
<1>6. StayedFree'
  BY <1>2, <1>3 DEF StayedFree
<1>7. ASSUME NEW d \in Callers, NEW q \in Pools, q < call'[d].pool, call'[d].len <= PoolLen[q]
      PROVE  Range(free'[q]) \cap call'[d].stayed = {}
  <2>1. CASE d = c /\ q = p
    <3>1. free[q] = <<>>
      BY <1>3, <1>7, <2>1 DEF Pass, Serves
    <3>2. Range(free[q]) = {}
      BY <3>1 DEF Range
    <3> QED BY <1>2, <3>2
  <2>2. CASE ~ (d = c /\ q = p)
    <3>1. q < call[d].pool
      BY <1>1, <1>3, <1>7, <2>2 DEF Pools
    <3> QED BY <1>2, <1>3, <1>7, <3>1 DEF BestFit
  <2> QED BY <2>1, <2>2
<1> QED BY <1>4, <1>5, <1>6, <1>7 DEF BestFit

LEMMA FreeInv ==
  ASSUME IInv, NEW c \in Callers, NEW b \in held, Free(c, b)
  PROVE  IInv'
<1> USE DEF IInv
<1>1. PICK p \in Pools : b \in Buffers(p)
  BY DEF Partition
<1>2. PoolOf(b) = p
  BY <1>1, PoolOfBuffer
<1> DEFINE s == free[p]
<1>3. /\ free' = [free EXCEPT ![p] = <<b>> \o s] /\ held' = held \ {b} /\ call' = call
  BY <1>2 DEF Free
<1>4. s \in Seq(Nat) /\ IsInjective(s) /\ Range(s) = Buffers(p) \ held /\ b \in Nat
  BY <1>1 DEF TypeOK, Partition
<1>5. /\ <<b>> \o s \in Seq(Nat) /\ IsInjective(<<b>> \o s)
      /\ Range(<<b>> \o s) = Range(s) \cup {b}
  <2> HIDE DEF s
  <2> QED BY <1>4, InFrontOfList
<1>6. \A q \in Pools : q # p => b \notin Buffers(q)
  BY <1>1, PoolsDisjoint
<1>7. ASSUME NEW q \in Pools
      PROVE  free'[q] = IF q = p THEN <<b>> \o s ELSE free[q]
  BY <1>3 DEF TypeOK
<1>8. TypeOK'
  <2>1. free' \in [Pools -> Seq(Nat)]
    BY <1>3, <1>5 DEF TypeOK
  <2> QED BY <1>3, <2>1 DEF TypeOK
<1>9. Partition'
  <2>1. ASSUME NEW q \in Pools
        PROVE  IsInjective(free'[q]) /\ Range(free'[q]) = Buffers(q) \ held'
    BY <1>1, <1>3, <1>4, <1>5, <1>6, <1>7 DEF Partition
  <2> QED BY <1>3, <2>1 DEF Partition
<1>10. StayedFree'
  BY <1>3 DEF StayedFree
<1>11. \A d \in Callers : b \notin call[d].stayed
  BY DEF StayedFree
<1>12. \A q \in Pools : Range(free'[q]) \subseteq Range(free[q]) \cup {b}
  BY <1>5, <1>7
<1>13. BestFit'
  BY <1>3, <1>11, <1>12 DEF BestFit
<1> QED BY <1>8, <1>9, <1>10, <1>13

LEMMA NextInv == IInv /\ [Next]_vars => IInv'
<1> SUFFICES ASSUME IInv, [Next]_vars PROVE IInv'
  OBVIOUS
<1>1. CASE Next
  <2>1. PICK c \in Callers : \/ \E len \in ReqLens : Alloc(c, len)
                            \/ Take(c)
                            \/ Pass(c)
                            \/ \E b \in held : Free(c, b)
    BY <1>1 DEF Next
  <2> QED BY <2>1, AllocInv, TakeInv, PassInv, FreeInv
<1>2. CASE UNCHANGED vars
  BY <1>2 DEF vars, IInv, TypeOK, Partition, StayedFree, BestFit
<1> QED BY <1>1, <1>2

LEMMA Invariant == Spec => []IInv
BY InitInv, NextInv, PTL DEF Spec

(* The state of the pools is well formed: lists of addresses, and a caller *)
(* inside WsfBufAlloc looks at a pool there is.                            *)
THEOREM TypeCorrect == Spec => []TypeOK
<1>1. IInv => TypeOK
  BY DEF IInv
<1> QED BY <1>1, Invariant, PTL

(* WsfBufAlloc and WsfBufFree lose no buffer, give none out twice, and put *)
(* each back into its own pool, for any pools laid out as by WsfBufInit.   *)
THEOREM PoolsStayApart == Spec => []Partition
<1>1. IInv => Partition
  BY DEF IInv
<1> QED BY <1>1, Invariant, PTL

(* WsfBufAlloc goes past a pool, or fails, for want of a buffer only.      *)
THEOREM FailsForWantOnly == Spec => []BestFit
<1>1. IInv => BestFit
  BY DEF IInv
<1> QED BY <1>1, Invariant, PTL
=============================================================================
