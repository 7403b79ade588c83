---------------------------- MODULE PayloadProofs ----------------------------
(***************************************************************************)
(* Proofs about the payload: about SleepTimer, for every timeout and every *)
(* counter width, and about Wallet, for any number of PINs and keys, any   *)
(* messages and any layout of the statics.                                 *)
(***************************************************************************)
EXTENDS MCPayload, TLAPS

(* What the counter and the loaded value may exceed the silence by, unless   *)
(* the last kick came too late: nothing before the increment of a round, and *)
(* one between it and the delay.                                             *)
Ahead(n) == n <= quiet \/ quiet >= SECONDS_TO_SLEEP
AheadByOne(n) == n <= quiet + 1 \/ quiet >= SECONDS_TO_SLEEP
CountInv ==
  ~kickedInside =>
    /\ at = "loop" => Ahead(jiffies)
    /\ at \in {"store", "test"} => Ahead(loaded)
    /\ at \in {"test", "sleep", "delay"} => AheadByOne(jiffies)
    /\ at = "sleep" => quiet >= SECONDS_TO_SLEEP

(* Rounds of ConfigTask before round x that write the configuration, and     *)
(* those that count for the timer.                                           *)
Epochs(x) == (x + EPOCH_CONFIG - 1) \div EPOCH_CONFIG
Counted(x) == x - Epochs(x)

(* The silence of q seconds up to round x began in some round s, before or   *)
(* after the last wrap of config_jiffies, and all rounds that count since    *)
(* then are in c, but for the one s itself.                                  *)
Within(c, x, q) == \E s \in 0 .. JiffyValues :
  \/ q <= x - s /\ Counted(x) - Counted(s) <= c + 1
  \/ q <= x + JiffyValues - s /\ Counted(x) + Counted(JiffyValues) - Counted(s) <= c + 1

TimeInv ==
  ~slept =>
    /\ at \in {"loop", "delay"} => jiffies <= SECONDS_TO_SLEEP
    /\ at = "loop" => Within(jiffies, config_jiffies, quiet)
    /\ at = "store" => Within(loaded, config_jiffies, quiet)
    /\ at = "test" /\ ~SleepDue =>
         jiffies <= SECONDS_TO_SLEEP /\ Within(jiffies, config_jiffies + 1, quiet + 1)
    /\ at = "delay" => Within(jiffies, config_jiffies + 1, quiet + 1)
    /\ quiet <= LongestSilence

IInv == TypeOK /\ CountInv

LEMMA Wide ==
  /\ SECONDS_TO_SLEEP \in Nat \ {0} /\ EPOCH_CONFIG \in Nat \ {0, 1}
  /\ JiffyValues \in Nat \ {0} /\ LongestSilence \in Nat
  /\ LongestSilence =
       SECONDS_TO_SLEEP + 1 + ((SECONDS_TO_SLEEP + 1) \div (EPOCH_CONFIG - 1)) + 2
  /\ (SECONDS_TO_SLEEP + 1) \div (EPOCH_CONFIG - 1) \in Nat
  /\ JiffyValues > LongestSilence /\ JiffyValues > SECONDS_TO_SLEEP + 1
  /\ QuietBound \in Nat /\ QuietBound >= SECONDS_TO_SLEEP
<1>1. SECONDS_TO_SLEEP \in Nat \ {0} /\ EPOCH_CONFIG \in Nat \ {0, 1} /\ JiffyValues \in Nat
      /\ JiffyValues > LongestSilence /\ QuietBound \in Nat /\ QuietBound >= SECONDS_TO_SLEEP
  BY SleepAssumption
<1>2. (SECONDS_TO_SLEEP + 1) \div (EPOCH_CONFIG - 1) \in Nat
  BY <1>1, SMT
<1>3. LongestSilence =
       SECONDS_TO_SLEEP + 1 + ((SECONDS_TO_SLEEP + 1) \div (EPOCH_CONFIG - 1)) + 2
  BY DEF LongestSilence
<1> QED  BY <1>1, <1>2, <1>3

LEMMA InitInv == Init => IInv
<1> SUFFICES ASSUME Init PROVE IInv
  OBVIOUS
<1>1. TypeOK
  <2>1. kickedInside \in BOOLEAN /\ slept \in BOOLEAN
    BY Zenon DEF Init
  <2>2. 0 \in 0 .. JiffyValues - 1 /\ 0 \in 0 .. QuietBound
    BY Wide
  <2> QED
    BY <2>1, <2>2, Zenon DEF Init, TypeOK
<1>2. CountInv
  BY Wide DEF Init, CountInv, Ahead
<1> QED  BY <1>1, <1>2 DEF IInv

(* A counter value reduced to the width of the counter is in its range, and  *)
(* is no larger than before.                                                 *)
LEMMA Wraps ==
  ASSUME NEW n \in Nat
  PROVE  /\ (n + 1) % JiffyValues \in 0 .. JiffyValues - 1
         /\ (n + 1) % JiffyValues <= n + 1
<1> JiffyValues \in Nat \ {0}
  BY Wide
<1>1. (n + 1) % JiffyValues \in 0 .. JiffyValues - 1
  BY SMT
<1>2. n + 1 = (JiffyValues * ((n + 1) \div JiffyValues)) + ((n + 1) % JiffyValues)
  BY SMT
<1>3. (n + 1) \div JiffyValues \in Nat
  BY SMT
<1>4. JiffyValues * ((n + 1) \div JiffyValues) >= 0
  BY <1>3, SMT
<1> QED  BY <1>1, <1>2, <1>3, <1>4

LEMMA NextInv == IInv /\ [Next]_vars => IInv'
<1> SUFFICES ASSUME IInv, [Next]_vars PROVE IInv'
  OBVIOUS
<1> USE Wide
<1>1. CASE RunConfigTask
  BY <1>1 DEF RunConfigTask, IInv, TypeOK, CountInv, Ahead, AheadByOne
<1>2. CASE LoadJiffies
  BY <1>2 DEF LoadJiffies, IInv, TypeOK, CountInv, Ahead, AheadByOne
<1>3. CASE StoreJiffies
  <2>1. loaded \in Nat
    BY DEF IInv, TypeOK
  <2>2. jiffies' \in 0 .. JiffyValues - 1 /\ jiffies' <= loaded + 1
    BY <1>3, <2>1, Wraps DEF StoreJiffies, NextJiffies
  <2> QED
    BY <1>3, <2>1, <2>2 DEF StoreJiffies, IInv, TypeOK, CountInv, Ahead, AheadByOne
<1>4. CASE TestJiffies
  <2>1. TypeOK'
    BY <1>4 DEF TestJiffies, IInv, TypeOK
  <2>2. ~kickedInside /\ SleepDue => quiet >= SECONDS_TO_SLEEP
    <3>1. loaded \in Nat /\ quiet \in Nat
      BY DEF IInv, TypeOK
    <3> QED  BY <1>4, <3>1 DEF TestJiffies, IInv, CountInv, Ahead, SleepDue
  <2>3. CountInv'
    BY <1>4, <2>2 DEF TestJiffies, IInv, CountInv, Ahead, AheadByOne
  <2> QED
    BY <2>1, <2>3 DEF IInv
<1>5. CASE Sleep
  BY <1>5 DEF Sleep, IInv, TypeOK, CountInv, Ahead, AheadByOne
<1>6. CASE Delay
  <2>1. config_jiffies \in Nat
    BY DEF IInv, TypeOK
  <2>2. config_jiffies' \in 0 .. JiffyValues - 1
    BY <1>6, <2>1, Wraps DEF Delay
  <2>3. quiet' \in 0 .. QuietBound
    BY <1>6 DEF Delay, IInv, TypeOK
  <2>4. quiet' >= quiet + 1 \/ quiet' >= SECONDS_TO_SLEEP
    BY <1>6 DEF Delay, IInv, TypeOK
  <2>5. TypeOK'
    BY <1>6, <2>2, <2>3 DEF Delay, IInv, TypeOK
  <2>6. ~kickedInside => AheadByOne(jiffies)
    BY <1>6 DEF Delay, IInv, CountInv
  <2>7. quiet \in Nat /\ quiet' \in Nat /\ jiffies \in Nat
    BY <2>3, Wide DEF IInv, TypeOK
  <2>8. ~kickedInside => Ahead(jiffies)'
    BY <1>6, <2>4, <2>6, <2>7 DEF Delay, Ahead, AheadByOne
  <2>9. CountInv'
    BY <1>6, <2>8 DEF Delay, CountInv
  <2> QED
    BY <2>5, <2>9 DEF IInv
<1>7. CASE Kick \/ PowerRequest
  <2>1. 0 \in 0 .. JiffyValues - 1 /\ 0 \in 0 .. QuietBound
    BY DEF IInv, TypeOK
  <2>2. kickedInside' \in BOOLEAN /\ slept' \in BOOLEAN
    <3>1. kickedInside' = (at \in Inside)
      BY <1>7, Zenon DEF Kick, PowerRequest
    <3>2. kickedInside' \in BOOLEAN
      <4> DEFINE inside == at \in Inside
      <4>1. kickedInside' = inside
        BY <3>1
      <4>2. inside \in BOOLEAN
        OBVIOUS
      <4> HIDE DEF inside
      <4> QED  BY <4>1, <4>2, Zenon
    <3>3. slept' \in BOOLEAN
      BY <1>7, Zenon DEF Kick, PowerRequest
    <3> QED  BY <3>2, <3>3
  <2>3. power' \in {"on", "off"}
    BY <1>7 DEF Kick, PowerRequest, IInv, TypeOK
  <2>4. jiffies' = 0 /\ quiet' = 0 /\ at' = at
        /\ config_jiffies' = config_jiffies /\ loaded' = loaded
    BY <1>7 DEF Kick, PowerRequest
  <2>5. TypeOK'
    BY <2>1, <2>2, <2>3, <2>4, Zenon DEF IInv, TypeOK
  <2>6. kickedInside' <=> at \in Inside
    BY <1>7, Zenon DEF Kick, PowerRequest
  <2>7. Ahead(jiffies)' /\ AheadByOne(jiffies)'
    BY <2>4 DEF Ahead, AheadByOne
  <2>8. CountInv'
    BY <2>4, <2>6, <2>7 DEF CountInv, Inside
  <2> QED
    BY <2>5, <2>8 DEF IInv
<1>8. CASE UNCHANGED vars
  BY <1>8 DEF vars, IInv, TypeOK, CountInv, Ahead, AheadByOne
<1> QED
  BY <1>1, <1>2, <1>3, <1>4, <1>5, <1>6, <1>7, <1>8 DEF Next, ConfigTask

-----------------------------------------------------------------------------
(* Rounds that count, and rounds that do not.                                *)
LEMMA TimesMonotonic ==
  ASSUME NEW a \in Nat, NEW b \in Nat, a <= b, NEW d \in Nat
  PROVE  a * d <= b * d
<1>1. PICK n \in Nat : b = a + n
  BY b - a \in Nat
<1>2. (a + n) * d = a * d + n * d /\ n * d \in Nat /\ a * d \in Nat
  BY SMT
<1> QED  BY <1>1, <1>2

LEMMA DivMod ==
  ASSUME NEW n \in Nat, NEW d \in Nat \ {0}
  PROVE  /\ n \div d \in Nat /\ n % d \in 0 .. d - 1
         /\ n = (n \div d) * d + (n % d)
         /\ (n \div d) * d \in Nat
<1>1. n % d \in 0 .. d - 1
  BY SMT
<1>2. n = (d * (n \div d)) + (n % d)
  BY SMT
<1>3. n \div d \in Nat
  BY SMT
<1>4. \A k \in Nat : k * d = d * k /\ k * d \in Nat
  BY SMT
<1> DEFINE q == n \div d
           r == n % d
<1>5. q \in Nat /\ n = (d * q) + r
  BY <1>2, <1>3
<1> HIDE DEF q, r
<1>6. n = q * d + r /\ q * d \in Nat
  BY <1>4, <1>5
<1> QED  BY <1>1, <1>5, <1>6 DEF q, r

LEMMA Fits ==
  ASSUME NEW n \in Nat, NEW k \in Nat, NEW d \in Nat \ {0}, n * d <= k
  PROVE  n <= k \div d
<1> DEFINE q == k \div d
           r == k % d
<1>1. q \in Nat /\ r \in 0 .. d - 1 /\ k = q * d + r
  BY DivMod
<1> HIDE DEF q, r
<1>2. (q + 1) * d = q * d + d /\ q * d \in Nat /\ n * d \in Nat
  BY <1>1, SMT
<1>3. k < (q + 1) * d
  BY <1>1, <1>2
<1>4. n >= q + 1 => (q + 1) * d <= n * d
  BY <1>1, TimesMonotonic
<1>5. n <= q
  BY <1>1, <1>2, <1>3, <1>4
<1> QED  BY <1>5 DEF q

LEMMA DivSum ==
  ASSUME NEW a \in Nat, NEW b \in Nat, NEW c \in Nat, a + b <= c, NEW d \in Nat \ {0}
  PROVE  (a \div d) + (b \div d) <= c \div d
<1> DEFINE p == a \div d
           q == b \div d
<1>1. p \in Nat /\ q \in Nat /\ p * d <= a /\ q * d <= b
  <2> DEFINE r == a % d
             t == b % d
  <2>1. p \in Nat /\ r \in 0 .. d - 1 /\ a = p * d + r /\ p * d \in Nat
    BY DivMod
  <2>2. q \in Nat /\ t \in 0 .. d - 1 /\ b = q * d + t /\ q * d \in Nat
    BY DivMod
  <2> HIDE DEF p, q, r, t
  <2> QED  BY <2>1, <2>2
<1> HIDE DEF p, q
<1>2. (p + q) * d = p * d + q * d /\ p * d \in Nat /\ q * d \in Nat
  BY <1>1, SMT
<1>3. (p + q) * d <= c
  BY <1>1, <1>2
<1>4. p + q \in Nat
  BY <1>1
<1>5. p + q <= c \div d
  BY <1>3, <1>4, Fits
<1> QED  BY <1>5 DEF p, q

LEMMA DivMonotonic ==
  ASSUME NEW a \in Nat, NEW c \in Nat, a <= c, NEW d \in Nat \ {0}
  PROVE  a \div d <= c \div d
<1>1. 0 \div d \in Nat /\ a \div d \in Nat /\ c \div d \in Nat
  BY DivMod
<1>2. (a \div d) + (0 \div d) <= c \div d
  BY DivSum
<1> QED  BY <1>1, <1>2

LEMMA EpochsBounds ==
  ASSUME NEW x \in Nat
  PROVE  /\ Epochs(x) \in Nat /\ Counted(x) \in Int
         /\ x <= Epochs(x) * EPOCH_CONFIG
         /\ Epochs(x) * EPOCH_CONFIG <= x + EPOCH_CONFIG - 1
<1> DEFINE y == x + EPOCH_CONFIG - 1
<1>0. y \in Nat /\ EPOCH_CONFIG \in Nat \ {0}
  BY Wide
<1> HIDE DEF y
<1>1. /\ y \div EPOCH_CONFIG \in Nat
      /\ y % EPOCH_CONFIG \in 0 .. EPOCH_CONFIG - 1
      /\ y = (y \div EPOCH_CONFIG) * EPOCH_CONFIG + (y % EPOCH_CONFIG)
      /\ (y \div EPOCH_CONFIG) * EPOCH_CONFIG \in Nat
  BY <1>0, DivMod
<1>2. Epochs(x) = y \div EPOCH_CONFIG
  BY DEF Epochs, y
<1>3. y = x + EPOCH_CONFIG - 1
  BY DEF y
<1> QED  BY <1>0, <1>1, <1>2, <1>3 DEF Counted

(* What lies between two rounds, by the rounds that count.                   *)
LEMMA Apart ==
  ASSUME NEW a \in Nat, NEW b \in Nat, a <= b
  PROVE  LET k == Counted(b) - Counted(a)
         IN  k \in Nat /\ b - a <= k + (k \div (EPOCH_CONFIG - 1)) + 1
<1> DEFINE k == Counted(b) - Counted(a)
           t == b - a
           m == Epochs(b) - Epochs(a)
           E == EPOCH_CONFIG
<1>1. E \in Nat \ {0, 1} /\ t \in Nat /\ m \in Int
  BY Wide, EpochsBounds
<1>2. m * E = Epochs(b) * E - Epochs(a) * E
  BY <1>1, EpochsBounds, SMT
<1>3. m * E <= t + E - 1
  <2>1. Epochs(b) * E <= b + E - 1 /\ a <= Epochs(a) * E
    BY EpochsBounds
  <2>2. Epochs(b) * E \in Nat /\ Epochs(a) * E \in Nat
    BY <1>1, EpochsBounds, SMT
  <2> QED  BY <1>1, <1>2, <2>1, <2>2
<1>4. k = t - m
  BY EpochsBounds DEF Counted
<1> HIDE DEF k, t, m, E
<1>5. CASE m <= 0
  <2>1. k \in Nat /\ t <= k
    BY <1>1, <1>4, <1>5
  <2>2. k \div (E - 1) \in Nat
    BY <1>1, <2>1, SMT
  <2> QED  BY <1>1, <2>1, <2>2 DEF k, t, E
<1>6. CASE m >= 1
  <2>1. (m - 1) * E = m * E - E /\ (m - 1) * (E - 1) = (m - 1) * E - (m - 1)
    BY <1>1, SMT
  <2>2. m * E \in Int /\ (m - 1) * E \in Int
    BY <1>1, SMT
  <2>3. (m - 1) * (E - 1) <= k
    BY <1>1, <1>3, <1>4, <2>1, <2>2
  <2>4. (m - 1) * (E - 1) \in Nat /\ m - 1 \in Nat /\ E - 1 \in Nat \ {0}
    BY <1>1, <1>6, SMT
  <2>5. k \in Nat
    BY <1>1, <1>4, <2>3, <2>4
  <2>6. m - 1 <= k \div (E - 1)
    BY <2>3, <2>4, <2>5, Fits
  <2>7. k \div (E - 1) \in Nat
    BY <2>4, <2>5, DivMod
  <2>8. t <= k + (k \div (E - 1)) + 1
    BY <1>1, <1>4, <2>5, <2>6, <2>7
  <2> QED  BY <2>5, <2>8 DEF k, t, E
<1> QED  BY <1>1, <1>5, <1>6

LEMMA CountedSteps ==
  /\ Counted(0) = 0
  /\ \A x \in Nat :
       /\ Counted(x + 1) <= Counted(x) + 1
       /\ x % EPOCH_CONFIG = 0 => Counted(x + 1) = Counted(x)
  /\ Counted(JiffyValues) > SECONDS_TO_SLEEP + 1
<1> DEFINE E == EPOCH_CONFIG
<1>0. E \in Nat \ {0, 1}
  BY Wide
<1>1. Counted(0) = 0
  <2>1. Epochs(0) \in Nat /\ Epochs(0) * E <= E - 1
    BY <1>0, EpochsBounds
  <2>2. 1 <= Epochs(0) => 1 * E <= Epochs(0) * E
    BY <1>0, <2>1, TimesMonotonic
  <2>3. Epochs(0) * E \in Nat
    BY <1>0, <2>1, SMT
  <2> QED  BY <1>0, <2>1, <2>2, <2>3 DEF Counted
<1>2. ASSUME NEW x \in Nat
      PROVE  Counted(x + 1) <= Counted(x) + 1
  <2>1. Counted(x + 1) - Counted(x) = 1 - (Epochs(x + 1) - Epochs(x))
    BY EpochsBounds DEF Counted
  <2>2. Epochs(x) <= Epochs(x + 1)
    <3>1. SUFFICES ASSUME Epochs(x + 1) + 1 <= Epochs(x) PROVE FALSE
      BY EpochsBounds
    <3>2. (Epochs(x + 1) + 1) * E <= Epochs(x) * E
      BY <1>0, <3>1, EpochsBounds, TimesMonotonic
    <3>3. (Epochs(x + 1) + 1) * E = Epochs(x + 1) * E + E /\ Epochs(x + 1) * E \in Nat
          /\ Epochs(x) * E \in Nat
      BY <1>0, EpochsBounds, SMT
    <3>4. x + 1 <= Epochs(x + 1) * E /\ Epochs(x) * E <= x + E - 1
      BY EpochsBounds
    <3> QED  BY <1>0, <3>2, <3>3, <3>4
  <2> QED  BY <2>1, <2>2, EpochsBounds
<1>3. ASSUME NEW x \in Nat, x % E = 0
      PROVE  Counted(x + 1) = Counted(x)
  <2>1. SUFFICES Epochs(x + 1) = Epochs(x) + 1
    BY EpochsBounds DEF Counted
  <2>2. x \div E \in Nat /\ x = (x \div E) * E
    <3>1. x \div E \in Nat /\ x = (x \div E) * E + (x % E) /\ (x \div E) * E \in Nat
      BY <1>0, DivMod
    <3> QED  BY <1>3, <3>1
  <2>3. PICK p \in Nat : x = p * E
    BY <2>2
  <2>4. Epochs(x) = p
    <3>1. Epochs(x) \in Nat /\ p * E <= Epochs(x) * E /\ Epochs(x) * E <= p * E + E - 1
      BY <2>3, EpochsBounds
    <3>2. p + 1 <= Epochs(x) => (p + 1) * E <= Epochs(x) * E
      BY <1>0, <3>1, TimesMonotonic
    <3>3. Epochs(x) + 1 <= p => (Epochs(x) + 1) * E <= p * E
      BY <1>0, <3>1, TimesMonotonic
    <3>4. (p + 1) * E = p * E + E /\ (Epochs(x) + 1) * E = Epochs(x) * E + E
          /\ p * E \in Nat /\ Epochs(x) * E \in Nat
      BY <1>0, <3>1, SMT
    <3> QED  BY <1>0, <3>1, <3>2, <3>3, <3>4
  <2>5. Epochs(x + 1) = p + 1
    <3> DEFINE n == Epochs(x + 1)
    <3>1. n \in Nat /\ p * E + 1 <= n * E /\ n * E <= p * E + E
      BY <1>0, <2>3, EpochsBounds
    <3> HIDE DEF n
    <3>2. p + 2 <= n => (p + 2) * E <= n * E
      BY <1>0, <3>1, TimesMonotonic
    <3>3. n <= p => n * E <= p * E
      BY <1>0, <3>1, TimesMonotonic
    <3>4. (p + 2) * E = p * E + 2 * E /\ p * E \in Nat /\ n * E \in Nat
      BY <1>0, <3>1, SMT
    <3>5. n = p + 1
      BY <1>0, <3>1, <3>2, <3>3, <3>4
    <3> QED  BY <3>5 DEF n
  <2> QED  BY <2>4, <2>5
<1>4. Counted(JiffyValues) > SECONDS_TO_SLEEP + 1
  <2> DEFINE k == Counted(JiffyValues)
             C == SECONDS_TO_SLEEP + 1
  <2>1. k \in Nat /\ JiffyValues <= k + (k \div (E - 1)) + 1
    BY <1>1, Wide, Apart, EpochsBounds
  <2> SUFFICES ASSUME k <= C PROVE FALSE
    BY <2>1, Wide
  <2>2. k \div (E - 1) <= C \div (E - 1)
    BY <1>0, <2>1, Wide, DivMonotonic
  <2>3. k \div (E - 1) \in Nat
    BY <1>0, <2>1, SMT
  <2> QED  BY <2>1, <2>2, <2>3, Wide
<1> QED  BY <1>1, <1>2, <1>3, <1>4

(* No silence that c accounts for is longer than LongestSilence.             *)
LEMMA InTime ==
  ASSUME NEW c \in 0 .. SECONDS_TO_SLEEP, NEW x \in 0 .. JiffyValues,
         NEW q \in Nat, Within(c, x, q)
  PROVE  q <= LongestSilence
<1> DEFINE C == SECONDS_TO_SLEEP + 1
           F == EPOCH_CONFIG - 1
<1>1. C \in Nat /\ F \in Nat \ {0} /\ C \div F \in Nat /\ JiffyValues \in Nat
      /\ c + 1 <= C /\ LongestSilence = C + (C \div F) + 2
  BY Wide
<1>2. PICK s \in 0 .. JiffyValues :
        \/ q <= x - s /\ Counted(x) - Counted(s) <= c + 1
        \/ q <= x + JiffyValues - s
           /\ Counted(x) + Counted(JiffyValues) - Counted(s) <= c + 1
  BY DEF Within
<1>3. x \in Nat /\ s \in Nat /\ Counted(x) \in Int /\ Counted(s) \in Int
      /\ Counted(JiffyValues) \in Int /\ Counted(0) = 0
  BY <1>1, EpochsBounds, CountedSteps
<1>4. CASE q <= x - s /\ Counted(x) - Counted(s) <= c + 1
  <2> DEFINE k == Counted(x) - Counted(s)
  <2>1. s <= x
    BY <1>3, <1>4
  <2>2. k \in Nat /\ x - s <= k + (k \div F) + 1
    BY <1>3, <2>1, Apart
  <2>3. k <= C
    BY <1>1, <1>3, <1>4
  <2> HIDE DEF k, C, F
  <2>4. k \div F <= C \div F /\ k \div F \in Nat
    BY <1>1, <2>2, <2>3, DivMonotonic, DivMod
  <2> QED  BY <1>1, <1>3, <1>4, <2>2, <2>3, <2>4
<1>5. CASE q <= x + JiffyValues - s
           /\ Counted(x) + Counted(JiffyValues) - Counted(s) <= c + 1
  <2> DEFINE k == Counted(x) - Counted(0)
             m == Counted(JiffyValues) - Counted(s)
  <2>1. k \in Nat /\ x - 0 <= k + (k \div F) + 1
    BY <1>3, Apart
  <2>2. m \in Nat /\ JiffyValues - s <= m + (m \div F) + 1
    BY <1>1, <1>3, Apart
  <2>3. k + m <= C
    BY <1>1, <1>3, <1>5
  <2> HIDE DEF k, m, C, F
  <2>4. (k \div F) + (m \div F) <= C \div F /\ k \div F \in Nat /\ m \div F \in Nat
    BY <1>1, <2>1, <2>2, <2>3, DivSum, DivMod
  <2> QED  BY <1>1, <1>3, <1>5, <2>1, <2>2, <2>3, <2>4
<1> QED  BY <1>2, <1>4, <1>5

(* Time passes: a round that counts, one that does not, and the next round.  *)
LEMMA CountsOne ==
  ASSUME NEW c \in Nat, NEW x \in Nat, NEW q \in Nat, Within(c, x, q)
  PROVE  Within(c + 1, x + 1, q + 1)
<1>1. PICK s \in 0 .. JiffyValues :
        \/ q <= x - s /\ Counted(x) - Counted(s) <= c + 1
        \/ q <= x + JiffyValues - s
           /\ Counted(x) + Counted(JiffyValues) - Counted(s) <= c + 1
  BY DEF Within
<1>2. Counted(x + 1) <= Counted(x) + 1
  BY CountedSteps
<1>3. Counted(x) \in Int /\ Counted(x + 1) \in Int /\ Counted(s) \in Int
      /\ Counted(JiffyValues) \in Int /\ JiffyValues \in Nat
  BY Wide, EpochsBounds
<1> QED  BY <1>1, <1>2, <1>3 DEF Within

LEMMA CountsNone ==
  ASSUME NEW c \in Nat, NEW x \in Nat, NEW q \in Nat, Within(c, x, q),
         x % EPOCH_CONFIG = 0
  PROVE  Within(c, x + 1, q + 1)
<1>1. PICK s \in 0 .. JiffyValues :
        \/ q <= x - s /\ Counted(x) - Counted(s) <= c + 1
        \/ q <= x + JiffyValues - s
           /\ Counted(x) + Counted(JiffyValues) - Counted(s) <= c + 1
  BY DEF Within
<1>2. Counted(x + 1) = Counted(x)
  BY CountedSteps
<1>3. Counted(x) \in Int /\ Counted(s) \in Int
      /\ Counted(JiffyValues) \in Int /\ JiffyValues \in Nat
  BY Wide, EpochsBounds
<1> QED  BY <1>1, <1>2, <1>3 DEF Within

LEMMA NextRound ==
  ASSUME NEW c \in 0 .. SECONDS_TO_SLEEP, NEW x \in 0 .. JiffyValues - 1,
         NEW q \in Nat, Within(c, x + 1, q)
  PROVE  Within(c, (x + 1) % JiffyValues, q)
<1>0. JiffyValues \in Nat \ {0}
  BY Wide
<1>1. CASE x + 1 < JiffyValues
  <2>1. (x + 1) % JiffyValues = x + 1
    BY <1>0, <1>1, SMT
  <2> QED  BY <2>1
<1>2. CASE x + 1 = JiffyValues
  <2>1. (x + 1) % JiffyValues = 0
    BY <1>0, <1>2, SMT
  <2>2. PICK s \in 0 .. JiffyValues :
          \/ q <= x + 1 - s /\ Counted(x + 1) - Counted(s) <= c + 1
          \/ q <= x + 1 + JiffyValues - s
             /\ Counted(x + 1) + Counted(JiffyValues) - Counted(s) <= c + 1
    BY DEF Within
  <2>3. Counted(s) \in Int /\ Counted(JiffyValues) \in Int /\ Counted(0) = 0
        /\ Counted(JiffyValues) > SECONDS_TO_SLEEP + 1
    BY <1>0, EpochsBounds, CountedSteps
  <2>4. Counted(JiffyValues) - Counted(s) \in Nat
    BY <1>0, Apart
  <2>5. q <= 0 + JiffyValues - s /\ Counted(0) + Counted(JiffyValues) - Counted(s) <= c + 1
    BY <1>0, <1>2, <2>2, <2>3, <2>4, Wide
  <2>6. Within(c, 0, q)
    BY <2>5 DEF Within
  <2> QED  BY <2>1, <2>6
<1> QED  BY <1>0, <1>1, <1>2

(* A kick: the silence begins in this round.                                 *)
LEMMA Kicked ==
  ASSUME NEW c \in Nat, NEW x \in 0 .. JiffyValues - 1
  PROVE  Within(c, x, 0) /\ Within(c, x + 1, 1)
<1>1. x \in Nat /\ x \in 0 .. JiffyValues /\ 0 <= x - x /\ 1 <= (x + 1) - x
  BY Wide
<1>2. Counted(x) \in Int /\ Counted(x + 1) \in Int /\ Counted(x + 1) <= Counted(x) + 1
  BY <1>1, EpochsBounds, CountedSteps
<1>3. Counted(x) - Counted(x) <= c + 1 /\ Counted(x + 1) - Counted(x) <= c + 1
  BY <1>2
<1> QED  BY <1>1, <1>3 DEF Within

LEMMA LessQuiet ==
  ASSUME NEW c \in Nat, NEW x \in Nat, NEW q \in Nat, Within(c, x, q),
         NEW p \in Nat, p <= q
  PROVE  Within(c, x, p)
<1>1. JiffyValues \in Nat
  BY Wide
<1> QED  BY <1>1 DEF Within

LEMMA InitTime == Init => TimeInv
<1> SUFFICES ASSUME Init PROVE TimeInv
  OBVIOUS
<1>1. 0 \in 0 .. JiffyValues - 1 /\ 0 <= SECONDS_TO_SLEEP /\ 0 <= LongestSilence
  BY Wide
<1>2. Within(0, 0, 0)
  BY <1>1, Kicked
<1> QED  BY <1>1, <1>2 DEF Init, TimeInv

LEMMA NextTime == IInv /\ TimeInv /\ [Next]_vars => TimeInv'
<1> SUFFICES ASSUME IInv, TimeInv, [Next]_vars, ~slept' PROVE TimeInv'
  BY DEF TimeInv
<1>0. /\ config_jiffies \in 0 .. JiffyValues - 1 /\ config_jiffies \in Nat
      /\ jiffies \in Nat /\ loaded \in Nat /\ quiet \in Nat
      /\ SECONDS_TO_SLEEP \in Nat /\ LongestSilence \in Nat /\ JiffyValues \in Nat
  BY Wide DEF IInv, TypeOK
<1>1. CASE RunConfigTask
  <2>1. ~slept /\ at = "loop" /\ config_jiffies % EPOCH_CONFIG = 0
    BY <1>1 DEF RunConfigTask, IsConfigEpoch
  <2>2. Within(jiffies, config_jiffies + 1, quiet + 1)
    BY <1>0, <2>1, CountsNone DEF TimeInv
  <2> QED
    BY <1>1, <2>1, <2>2 DEF RunConfigTask, TimeInv
<1>2. CASE LoadJiffies
  BY <1>2 DEF LoadJiffies, TimeInv
<1>3. CASE StoreJiffies
  <2>1. ~slept /\ at = "store" /\ at' = "test"
    BY <1>3 DEF StoreJiffies
  <2>2. ASSUME ~SleepDue
        PROVE  jiffies' = loaded + 1 /\ jiffies' <= SECONDS_TO_SLEEP
               /\ Within(loaded + 1, config_jiffies + 1, quiet + 1)
    <3>1. loaded + 1 <= SECONDS_TO_SLEEP /\ loaded + 1 < JiffyValues
      BY <1>0, <2>2, Wide DEF SleepDue
    <3>2. (loaded + 1) % JiffyValues = loaded + 1
      BY <1>0, <3>1, SMT
    <3>3. Within(loaded + 1, config_jiffies + 1, quiet + 1)
      BY <1>0, <2>1, CountsOne DEF TimeInv
    <3> QED
      BY <1>3, <3>1, <3>2, <3>3 DEF StoreJiffies, NextJiffies
  <2> QED
    BY <1>3, <2>1, <2>2 DEF StoreJiffies, TimeInv, SleepDue
<1>4. CASE TestJiffies
  BY <1>4 DEF TestJiffies, TimeInv
<1>5. CASE Sleep
  BY <1>5 DEF Sleep
<1>6. CASE Delay
  <2>1. ~slept /\ at = "delay" /\ at' = "loop" /\ jiffies' = jiffies
        /\ config_jiffies' = (config_jiffies + 1) % JiffyValues
    BY <1>6 DEF Delay
  <2>2. quiet' \in Nat /\ quiet' <= quiet + 1
    BY <1>0, <1>6 DEF Delay
  <2>3. jiffies \in 0 .. SECONDS_TO_SLEEP /\ Within(jiffies, config_jiffies + 1, quiet + 1)
    BY <1>0, <2>1 DEF TimeInv
  <2>4. Within(jiffies, config_jiffies + 1, quiet')
    BY <1>0, <2>2, <2>3, LessQuiet
  <2>5. quiet' <= LongestSilence
    BY <1>0, <2>2, <2>3, <2>4, InTime
  <2>6. Within(jiffies, config_jiffies', quiet')
    BY <1>0, <2>1, <2>2, <2>3, <2>4, NextRound
  <2> QED
    BY <2>1, <2>3, <2>5, <2>6 DEF TimeInv
<1>7. CASE Kick
  <2>1. jiffies' = 0 /\ quiet' = 0 /\ at' = at
        /\ config_jiffies' = config_jiffies /\ loaded' = loaded
    BY <1>7 DEF Kick
  <2>2. \A c \in Nat : Within(c, config_jiffies, 0) /\ Within(c, config_jiffies + 1, 0 + 1)
    BY <1>0, Kicked
  <2> QED
    BY <1>0, <2>1, <2>2 DEF TimeInv
<1>8. CASE PowerRequest
  BY <1>8 DEF PowerRequest
<1>9. CASE UNCHANGED vars
  BY <1>9 DEF vars, TimeInv, SleepDue
<1> QED
  BY <1>1, <1>2, <1>3, <1>4, <1>5, <1>6, <1>7, <1>8, <1>9 DEF Next, ConfigTask

(* The counters of config_task.c and ble_deepsleep.cpp stay in their width   *)
(* and ConfigTask stands at one of its points.                               *)
THEOREM TypeCorrect == Spec => []TypeOK
<1>1. IInv => TypeOK
  BY DEF IInv
<1> QED
  BY InitInv, NextInv, <1>1, PTL DEF Spec

(* Whatever the timeout, the timer never cuts the supply before that many    *)
(* seconds of silence, unless the last kick came between the load of jiffies *)
(* and the cut (ble_deepsleep.cpp:73, 66).                                   *)
THEOREM NotBeforeQuiet == Spec => SleepsOnlyWhenQuiet
<1>1. IInv => [Sleep => quiet >= SECONDS_TO_SLEEP \/ kickedInside]_vars
  BY DEF IInv, CountInv, Sleep
<1> QED
  BY InitInv, NextInv, <1>1, PTL DEF Spec, SleepsOnlyWhenQuiet

(* Whatever the timeout, the round that writes the configuration and the     *)
(* width of the counters (wider than the longest silence), silence ends in   *)
(* sleep within the rounds that count and those that do not                  *)
(* (config_task.c:22-40, ble_deepsleep.cpp:71-77), wherever in the increment *)
(* a kick came and however often config_jiffies has wrapped.                 *)
THEOREM AsleepInTime == Spec => []SleepsInTime
<1>1. IInv /\ TimeInv => SleepsInTime
  BY DEF TimeInv, SleepsInTime
<1> QED
  BY InitInv, NextInv, InitTime, NextTime, <1>1, PTL DEF Spec

-----------------------------------------------------------------------------
(* Wallet.                                                                 *)

(* Who has signed could do so because there is a key, and with what the    *)
(* stored key gives for that PIN: there is no second key.                  *)
SignerInv ==
  \A s \in signers : W!KeyExists /\ s.by = W!Decrypt(s.pin, s.pin, app.encrypted_private_key)

(* What is stored is of the pair whose public half is stored, damaged or   *)
(* not.                                                                    *)
PairInv ==
  W!KeyExists => app.encrypted_private_key.secret.n = app.public_key

WalletInv ==
  /\ SignerInv
  /\ PairInv
  /\ W!ResidueOnlyAfterFailure
  /\ W!StoredKeyIsMade
  /\ W!AnswersRequest

LEMMA WalletInitInv == W!Init => WalletInv
<1> SUFFICES ASSUME W!Init PROVE WalletInv
  OBVIOUS
<1>1. SignerInv /\ PairInv
  BY DEF W!Init, SignerInv, PairInv, W!KeyExists
<1>2. W!ResidueOnlyAfterFailure
  BY DEF W!Init, W!ResidueOnlyAfterFailure, W!Residue
<1>3. W!StoredKeyIsMade
  BY DEF W!Init, W!StoredKeyIsMade, W!StoresThePrivateKey, W!KeyExists
<1>4. W!AnswersRequest
  BY DEF W!Init, W!AnswersRequest, W!Silent
<1> QED BY <1>1, <1>2, <1>3, <1>4 DEF WalletInv

(* A step that touches neither the key nor the statics keeps everything    *)
(* but, perhaps, the answer.                                               *)
LEMMA QuietInv ==
  ASSUME WalletInv, UNCHANGED <<app, W!statics, behind, signFailed, signers>>
  PROVE  SignerInv' /\ PairInv' /\ W!ResidueOnlyAfterFailure' /\ W!StoredKeyIsMade'
<1>1. SignerInv'
  BY DEF WalletInv, SignerInv, W!KeyExists, W!Decrypt
<1>2. PairInv' /\ W!StoredKeyIsMade'
  BY DEF WalletInv, PairInv, W!StoredKeyIsMade, W!StoresThePrivateKey, W!KeyExists
<1>3. W!ResidueOnlyAfterFailure'
  BY DEF WalletInv, W!ResidueOnlyAfterFailure, W!Residue, W!statics
<1> QED BY <1>1, <1>2, <1>3

(* The first key: nobody has signed before it.                             *)
LEMMA NewKeyInv ==
  ASSUME WalletInv, NEW pin \in Pins, W!bleWalletCreateNewKey(pin)
  PROVE  WalletInv'
<1> DEFINE secret == W!Overrun(W!MadeKey(made + 1))
<1>1. /\ app'.key_created /\ app'.public_key = made + 1
      /\ app'.encrypted_private_key.secret = secret
      /\ behind' = behind /\ signers' = signers
  BY DEF W!bleWalletCreateNewKey, W!Encrypt
<1>2. /\ secret.n = made + 1
      /\ "private_key" \notin behind["pin_iv"] \cup behind["pin_iv_buf"] => secret = W!MadeKey(made + 1)
  BY DEF W!Overrun, W!MadeKey, W!Zeros
<1>3. signers = {}
  BY DEF WalletInv, SignerInv, W!bleWalletCreateNewKey
<1>4. SignerInv'
  BY <1>1, <1>3 DEF SignerInv
<1>5. PairInv'
  BY <1>1, <1>2 DEF PairInv
<1>6. W!StoredKeyIsMade'
  BY <1>1, <1>2 DEF W!StoredKeyIsMade, W!StoresThePrivateKey
<1>7. W!ResidueOnlyAfterFailure'
  BY DEF W!ResidueOnlyAfterFailure, W!Residue, W!bleWalletCreateNewKey, W!Wiped
<1>8. last'.req = "KEY" /\ last'.body = W!PublicKey(app'.public_key)
  BY DEF W!bleWalletCreateNewKey, W!Reply
<1>9. W!AnswersRequest'
  BY <1>1, <1>2, <1>8 DEF W!AnswersRequest, W!PublicKey, W!NoBody
<1> QED BY <1>4, <1>5, <1>6, <1>7, <1>9 DEF WalletInv

(* A signature adds what the stored key gives for its PIN.                 *)
LEMMA SignInv ==
  ASSUME WalletInv, NEW pin \in Pins, W!Sign(pin)
  PROVE  WalletInv'
<1> DEFINE secret == W!Decrypt(pin, pin, app.encrypted_private_key)
<1>1. app' = app /\ behind' = behind /\ W!KeyExists
  BY DEF W!Sign
<1>2. PairInv' /\ W!StoredKeyIsMade'
  BY <1>1 DEF WalletInv, PairInv, W!StoredKeyIsMade, W!StoresThePrivateKey, W!KeyExists
<1>3. signers' \subseteq signers \cup {[pin |-> pin, by |-> secret]}
  BY DEF W!Sign, W!SigningIV
<1>4. SignerInv'
  BY <1>1, <1>3 DEF WalletInv, SignerInv, W!KeyExists, W!Decrypt
<1>5. W!ResidueOnlyAfterFailure'
  BY DEF W!Sign, W!ResidueOnlyAfterFailure, W!Residue
<1>6. last'.req = "SIGN" /\ (last'.rsp = "KEY" => last'.body.is = "signature")
  <2>1. last'.req = "SIGN" /\ (last'.rsp = "ERR" \/ last'.body = W!Signature(secret))
    BY DEF W!Sign, W!SigningIV, W!Reply
  <2>2. W!Signature(secret).is = "signature"
    BY DEF W!Signature, W!NoBody
  <2>3. last'.rsp = "ERR" \/ last'.body.is = "signature"
    BY <2>1, <2>2
  <2> QED BY <2>1, <2>3
<1>7. W!AnswersRequest'
  BY <1>6 DEF W!AnswersRequest
<1> QED BY <1>2, <1>4, <1>5, <1>7 DEF WalletInv

LEMMA WalletNextInv == WalletInv /\ [W!Next]_(W!vars) => WalletInv'
<1> SUFFICES ASSUME WalletInv, [W!Next]_(W!vars) PROVE WalletInv'
  OBVIOUS
<1> DEFINE Quiet == UNCHANGED <<app, W!statics, behind, signFailed, signers>>
<1>1. ASSUME Quiet, W!AnswersRequest' PROVE WalletInv'
  BY <1>1, QuietInv DEF WalletInv
<1>2. CASE UNCHANGED W!vars
  BY <1>1, <1>2 DEF WalletInv, W!AnswersRequest, W!vars
<1>3. CASE W!DropMessage
  <2>1. W!AnswersRequest'
    BY <1>3 DEF W!DropMessage, W!Silent, W!AnswersRequest
  <2> QED BY <1>1, <1>3, <2>1 DEF W!DropMessage
<1>4. ASSUME NEW m \in Messages, NEW cmd, W!ParseError(m, cmd) PROVE WalletInv'
  <2>1. W!AnswersRequest'
    BY <1>4 DEF W!ParseError, W!Reply, W!AnswersRequest
  <2> QED BY <1>1, <1>4, <2>1 DEF W!ParseError
<1>5. CASE W!KeyKnown
  <2>1. W!KeyExists /\ app' = app /\ last'.req = "KEY" /\ last'.body = W!PublicKey(app.public_key)
    BY <1>5 DEF W!KeyKnown, W!Reply
  <2>2. W!AnswersRequest'
    BY <2>1 DEF WalletInv, PairInv, W!AnswersRequest, W!PublicKey, W!NoBody
  <2> QED BY <1>1, <1>5, <2>2 DEF W!KeyKnown
<1>6. CASE W!KeyNotMade
  <2>1. W!AnswersRequest'
    BY <1>6 DEF W!KeyNotMade, W!Reply, W!AnswersRequest
  <2> QED BY <1>1, <1>6, <2>1 DEF W!KeyNotMade
<1>7. CASE W!SignWithoutKey
  <2>1. W!AnswersRequest'
    BY <1>7 DEF W!SignWithoutKey, W!Reply, W!AnswersRequest
  <2> QED BY <1>1, <1>7, <2>1 DEF W!SignWithoutKey
<1>8. CASE W!Power
  <2>1. W!AnswersRequest'
    BY <1>8 DEF W!Power, W!Reply, W!Silent, W!AnswersRequest
  <2> QED BY <1>1, <1>8, <2>1 DEF W!Power
<1>9. ASSUME NEW cmd, NEW pin \in Pins, W!bleProtocolHandler(cmd, pin) PROVE WalletInv'
  BY <1>5, <1>6, <1>7, <1>8, <1>9, NewKeyInv, SignInv DEF W!bleProtocolHandler
<1>10. CASE W!HandleMessage
  BY <1>4, <1>9, <1>10 DEF W!HandleMessage
<1> QED BY <1>2, <1>3, <1>10 DEF W!Next

LEMMA WalletInvariant == W!Spec => []WalletInv
BY WalletInitInv, WalletNextInv, PTL DEF W!Spec

(* Every signature for one PIN is by one private key, whatever keys,       *)
(* failures and other PINs came between (ble_app_protocol.cpp:335-348).    *)
THEOREM OneSignerPerPin == W!Spec => []StableSigner
<1>1. WalletInv => StableSigner
  BY DEF WalletInv, SignerInv, StableSigner, W!StableSigner
<1> QED BY <1>1, WalletInvariant, PTL

(* Between requests the salted hash of the PIN in pin_iv is all that is    *)
(* left in the four buffers of a private key or of a PIN, unless the last  *)
(* use of a PIN was a signature that failed (ble_app_protocol.cpp:242-249, *)
(* 350-357).                                                               *)
THEOREM NoResidue == W!Spec => []ResidueOnlyAfterFailure
<1>1. WalletInv => ResidueOnlyAfterFailure
  BY DEF WalletInv, ResidueOnlyAfterFailure
<1> QED BY <1>1, WalletInvariant, PTL

(* The stored private key is the whole private half of the public key, for *)
(* every layout of the statics in which neither 32 bytes of hash in pin_iv *)
(* nor 32 bytes of zeros in pin_iv_buf run into the private key            *)
(* (ble_app_protocol.cpp:241-246).                                         *)
THEOREM StoredWhole == W!Spec => []StoredKeyIsMade
<1>1. WalletInv => StoredKeyIsMade
  BY DEF WalletInv, StoredKeyIsMade
<1> QED BY <1>1, WalletInvariant, PTL

(* A reply that is no error carries what its request asked for             *)
(* (ble_app_protocol.cpp:281-318).                                         *)
THEOREM AnswersRight == W!Spec => []AnswersRequest
<1>1. WalletInv => AnswersRequest
  BY DEF WalletInv, AnswersRequest
<1> QED BY <1>1, WalletInvariant, PTL
=============================================================================
