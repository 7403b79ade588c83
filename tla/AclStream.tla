------------------------------ MODULE AclStream ------------------------------
(***************************************************************************)
(* What the host's ACL data path promises the stack above it, whatever     *)
(* buffers and queues it has: the packets accepted for a connection are    *)
(* handed to the controller in order, each one whole before the next, in   *)
(* pieces no longer than a buffer of the controller, and never more pieces *)
(* than it has buffers.  A packet is its length.                           *)
(***************************************************************************)
EXTENDS Naturals, Sequences, Functions

CONSTANTS Handles, NumBufs, BufSize, Lens

VARIABLES up,     \* the connections the host has open
          todo,   \* todo[h]: packets accepted, the first less what is handed over
          held    \* held[h]: buffers the host believes the controller holds

streamVars == <<up, todo, held>>

Held == SumFunction(held)

StreamInit == /\ up = {}
              /\ todo = [h \in Handles |-> <<>>]
              /\ held = [h \in Handles |-> 0]

Open(h) == /\ h \notin up
           /\ up' = up \cup {h}
           /\ UNCHANGED <<todo, held>>

Close(h) == /\ h \in up
            /\ up' = up \ {h}
            /\ todo' = [todo EXCEPT ![h] = <<>>]
            /\ held' = [held EXCEPT ![h] = 0]

Accept(h, len) == /\ h \in up
                  /\ todo' = [todo EXCEPT ![h] = Append(@, len)]
                  /\ UNCHANGED <<up, held>>

(* The next piece of the first packet; the last piece completes it.        *)
HandOver(h, n) == /\ todo[h] # <<>>
                  /\ Held < NumBufs
                  /\ n <= Head(todo[h])
                  /\ held' = [held EXCEPT ![h] = @ + 1]
                  /\ todo' = [todo EXCEPT ![h] =
                       IF n = Head(@) THEN Tail(@) ELSE <<Head(@) - n>> \o Tail(@)]
                  /\ UNCHANGED up

Release(h, k) == /\ k <= held[h]
                 /\ held' = [held EXCEPT ![h] = @ - k]
                 /\ UNCHANGED <<up, todo>>

StreamNext == \E h \in Handles :
                 \/ Open(h)
                 \/ Close(h)
                 \/ \E len \in Lens : Accept(h, len)
                 \/ \E n \in 1..BufSize : HandOver(h, n)
                 \/ \E k \in 1..NumBufs : Release(h, k)

StreamSpec == StreamInit /\ [][StreamNext]_streamVars
=============================================================================
