-------------------------------- MODULE WsfBuf --------------------------------
(***************************************************************************)
(* The buffer pools of WSF (wsf/sources/port/freertos/wsf_buf.c): an       *)
(* allocation looks at one pool after the other, each in a critical        *)
(* section of its own, and other callers come in between; a buffer that is *)
(* freed has nothing but its address to say which pool it is of.           *)
(* Lengths and addresses are in units of wsfBufMem_t.                      *)
(***************************************************************************)
EXTENDS Naturals, Sequences, Functions

CONSTANTS Callers,   \* tasks, timer callbacks and interrupts
          NumPools,  \* wsfBufNumPools
          PoolLen,   \* desc.len of a pool
          PoolNum,   \* desc.num of a pool
          PoolStart, \* pStart of a pool, and the end of the last one
          ReqLens    \* lengths asked for

Pools == 1..NumPools

(* The layout that the loop of WsfBufInit makes.                           *)
ASSUME LayoutAssumption ==
  /\ NumPools \in Nat \ {0}
  /\ PoolLen \in [Pools -> Nat \ {0}]
  /\ PoolNum \in [Pools -> Nat \ {0}]
  /\ PoolStart \in [1..NumPools + 1 -> Nat]
  /\ PoolStart[1] = 0
  /\ \A p \in Pools : PoolStart[p + 1] = PoolStart[p] + PoolNum[p] * PoolLen[p]
  /\ ReqLens \subseteq Nat \ {0}

VARIABLES free, \* the free list of each pool, by pFree and pNext
          held, \* the buffers in use
          call  \* the last allocation of each caller

vars == <<free, held, call>>

(* The i-th buffer of a pool, and all of them.                             *)
Addr(p, i) == PoolStart[p] + (i - 1) * PoolLen[p]
Buffers(p) == {Addr(p, i) : i \in 1..PoolNum[p]}

(* An allocation: its length, the pool it has come to (one past the last   *)
(* when it returned NULL), and (history) the buffers that have been free   *)
(* all the time since it began.                                            *)
Call == [at : {"idle", "alloc"}, len : ReqLens \cup {0}, pool : 1..NumPools + 1,
         stayed : SUBSET Nat]

TypeOK == /\ free \in [Pools -> Seq(Nat)]
          /\ held \in SUBSET Nat
          /\ call \in [Callers -> Call]
          /\ \A c \in Callers : call[c].at = "alloc" => call[c].pool \in Pools

Init == /\ free = [p \in Pools |-> [i \in 1..PoolNum[p] |-> Addr(p, i)]]
        /\ held = {}
        /\ call = [c \in Callers |-> [at |-> "idle", len |-> 0, pool |-> 1, stayed |-> {}]]

Alloc(c, len) ==
  /\ call[c].at = "idle"
  /\ call' = [call EXCEPT ![c] = [at |-> "alloc", len |-> len, pool |-> 1,
                                  stayed |-> UNION {Range(free[p]) : p \in Pools}]]
  /\ UNCHANGED <<free, held>>

(* The pool is big enough for c and has a buffer.                          *)
Serves(p, c) == call[c].len <= PoolLen[p] /\ free[p] # <<>>

(* The critical section of WsfBufAlloc, where it succeeds.                 *)
Take(c) ==
  LET p == call[c].pool
  IN  /\ call[c].at = "alloc"
      /\ Serves(p, c)
      /\ free' = [free EXCEPT ![p] = Tail(@)]
      /\ held' = held \cup {Head(free[p])}
      /\ call' = [d \in Callers |-> [call[d] EXCEPT !.stayed = @ \ {Head(free[p])},
                                                    !.at = IF d = c THEN "idle" ELSE @]]

(* bug: an allocation fails if the pool that fits best is empty            *)
Pass_BestFitOnly(c) ==
  LET p == call[c].pool
  IN  /\ call[c].at = "alloc"
      /\ ~Serves(p, c)
      /\ call' = [call EXCEPT ![c].pool = IF call[c].len <= PoolLen[p] THEN NumPools + 1
                                                                       ELSE @ + 1,
                              ![c].at = IF p = NumPools \/ call[c].len <= PoolLen[p]
                                        THEN "idle" ELSE @]
      /\ UNCHANGED <<free, held>>

(* A pool that is too small or empty; NULL after the last.                 *)
Pass(c) ==
  LET p == call[c].pool
  IN  /\ call[c].at = "alloc"
      /\ ~Serves(p, c)
      /\ call' = [call EXCEPT ![c].pool = @ + 1,
                              ![c].at = IF p = NumPools THEN "idle" ELSE @]
      /\ UNCHANGED <<free, held>>

(* bug: the first buffer of a pool is taken for one of the pool before     *)
PoolOf_Strict(b) ==
  CHOOSE p \in Pools : /\ p = 1 \/ b > PoolStart[p]
                       /\ \A q \in Pools : q > p => b <= PoolStart[q]

(* WsfBufFree looks from the last pool on for one that starts no later.    *)
PoolOf(b) == CHOOSE p \in Pools : /\ b >= PoolStart[p]
                                  /\ \A q \in Pools : q > p => b < PoolStart[q]

(* A buffer may be freed by another than its allocator: a handler frees    *)
(* the messages sent to it.                                                *)
Free(c, b) == /\ call[c].at = "idle"
              /\ b \in held
              /\ free' = [free EXCEPT ![PoolOf(b)] = <<b>> \o @]
              /\ held' = held \ {b}
              /\ UNCHANGED call

Next == \E c \in Callers : \/ \E len \in ReqLens : Alloc(c, len)
                           \/ Take(c)
                           \/ Pass(c)
                           \/ \E b \in held : Free(c, b)

Spec == Init /\ [][Next]_vars

-----------------------------------------------------------------------------
(* Whatever the callers do to each other, every buffer of a pool is in use *)
(* or in the free list of that pool, and once in it; nothing else is in    *)
(* either.                                                                 *)
Partition == /\ held \subseteq UNION {Buffers(p) : p \in Pools}
             /\ \A p \in Pools : /\ IsInjective(free[p])
                                 /\ Range(free[p]) = Buffers(p) \ held

(* An allocation that passed a pool big enough, to take a larger buffer or *)
(* to return NULL, had to: no buffer of that pool was free all the time.   *)
BestFit == \A c \in Callers : \A p \in Pools :
             p < call[c].pool /\ call[c].len <= PoolLen[p]
               => Range(free[p]) \cap call[c].stayed = {}
=============================================================================
