--------------------------- MODULE MessageExchange ---------------------------
(***************************************************************************)
(* What the fragment layer of the payload promises its two users, the host *)
(* applications and bleServer: a message a host starts is handed to the    *)
(* server at most once, whole, while its exchange is open; it is answered  *)
(* only after that; and an exchange may be given up at any moment.         *)
(***************************************************************************)
EXTENDS Naturals, Sequences

CONSTANTS Conn, Message, NoMessage

VARIABLES
  current,    (* per connection: the message of the open exchange, if any *)
  delivered,  (* messages handed to the server, in order                  *)
  answered    (* messages whose reply their host has complete             *)

vars == <<current, delivered, answered>>

Handed(m) == \E i \in 1 .. Len(delivered) : delivered[i] = m

Init ==
  /\ current = [c \in Conn |-> NoMessage]
  /\ delivered = <<>>
  /\ answered = {}

Start(c, m) ==
  /\ current[c] = NoMessage
  /\ ~Handed(m)
  /\ current' = [current EXCEPT ![c] = m]
  /\ UNCHANGED <<delivered, answered>>

Deliver(c) ==
  /\ current[c] # NoMessage
  /\ ~Handed(current[c])
  /\ delivered' = Append(delivered, current[c])
  /\ UNCHANGED <<current, answered>>

Answer(c) ==
  /\ Handed(current[c])
  /\ answered' = answered \union {current[c]}
  /\ current' = [current EXCEPT ![c] = NoMessage]
  /\ UNCHANGED delivered

GiveUp(c) ==
  /\ current' = [current EXCEPT ![c] = NoMessage]
  /\ UNCHANGED <<delivered, answered>>

Next == \E c \in Conn :
  (\E m \in Message : Start(c, m)) \/ Deliver(c) \/ Answer(c) \/ GiveUp(c)
Spec == Init /\ [][Next]_vars
=============================================================================
