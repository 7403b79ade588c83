------------------------------ MODULE Fragments ------------------------------
(***************************************************************************)
(* The fragment layer of the wallet payload (payload/ble_usr.cpp): the     *)
(* reassembly of host messages in bleUsrCallback, and the stop-and-wait    *)
(* sending of replies by bleSendFragmented and bleSendNextFragment.        *)
(*                                                                         *)
(* The callback runs in RadioTask for one packet at a time, so it is one   *)
(* step, with the call of bleServer and the reply it sends inside it.      *)
(* The host and the link are not in this repository.  They are modelled    *)
(* from the protocol the code implements: the host sends a fragment, waits *)
(* for a request before the next one, then collects the reply by           *)
(* requesting after each fragment marked as not the last.  A connection    *)
(* may drop at any moment; the device keeps its state when it does.  There *)
(* can be several connections (gp_main.c:103): all the device's variables  *)
(* are shared by them.  A host that sees no fragment may ask again.        *)
(***************************************************************************)
EXTENDS Integers, Sequences, FiniteSets

CONSTANTS
  Conn,         (* ids of the connections, from 1 (DM_CONN_ID_NONE is 0)   *)
  MAX_FRAG_SIZE, MAX_FRAGMENTS,
  AES_BLOCK_SIZE,
  PktIds,       (* values of the uint8_t packet id (256)                   *)
  SentValues,   (* values of the uint8_t sent_frag_idx (256)               *)
  Counting,     (* kinds of host: TRUE for one that counts its packet ids  *)
                (* up, as the device does, FALSE for one that chooses any  *)
                (* of HostIds for any message                              *)
  HostIds,
  HostLens,     (* lengths of host messages                                *)
  RspLens,      (* lengths of the server's replies                         *)
  MaxMessages,  (* bound: messages the hosts start                         *)
  MaxAsked      (* bound: packets in flight when a host asks again; with 0 *)
                (* every host asks once for a fragment                     *)

ASSUME FragmentsAssumption ==
  /\ Conn \subseteq Nat \ {0}
  /\ MAX_FRAG_SIZE \in Nat \ {0}
  /\ MAX_FRAGMENTS \in Nat \ {0}
  /\ AES_BLOCK_SIZE \in Nat \ {0}
  /\ PktIds \in Nat \ {0}
  /\ SentValues \in Nat
  /\ SentValues > MAX_FRAGMENTS
  /\ HostIds \subseteq 0 .. PktIds - 1
  /\ Counting \subseteq BOOLEAN
  /\ HostLens \subseteq Nat \ {0}
  /\ RspLens \subseteq 1 .. MAX_FRAGMENTS * MAX_FRAG_SIZE
  /\ MaxMessages \in Nat
  /\ MaxAsked \in Nat

VARIABLES
  in_frags,       (* per slot: the packet id it is marked with, its data    *)
  handler,        (* struct reassemble_handler_s                            *)
  out_frags,      (* the reply, cut into fragments                          *)
  sent_frag_idx,
  pkt_ids,        (* the last packet id the device used                     *)
  up, down,       (* per connection: packets to the device, and to the host *)
  host,           (* per connection: the host's side of the exchange        *)
  started,        (* messages started so far                                *)
  delivered,      (* history: messages handed to bleServer                  *)
  answered,       (* history: messages whose reply the host has complete    *)
  stray           (* history: may requests come that follow no fragment of  *)
                  (* the reply cut last?                                    *)

device == <<in_frags, handler, out_frags, sent_frag_idx, pkt_ids>>
vars == <<device, up, down, host, started, delivered, answered, stray>>

-----------------------------------------------------------------------------
Slot == 0 .. MAX_FRAGMENTS - 1
PktId == 0 .. PktIds - 1

(* A message is its number and its length; the data of its i-th fragment is  *)
(* told apart from any other by the message, the place being the slot.       *)
NoMessage == [msg |-> 0, len |-> 0]
Message == [msg : 1 .. MaxMessages, len : HostLens]

TotalFragments(len) ==
  len \div MAX_FRAG_SIZE + (IF len % MAX_FRAG_SIZE # 0 THEN 1 ELSE 0)

DataSizeFull(i, len) == MAX_FRAG_SIZE          (* bug: last one not shortened *)
DataSize(i, len) ==
  IF len % MAX_FRAG_SIZE # 0 /\ i + 1 = TotalFragments(len)
    THEN len % MAX_FRAG_SIZE ELSE MAX_FRAG_SIZE

ActionOf(i, len) == IF i + 1 < TotalFragments(len) THEN "MORE" ELSE "DONE"

(* A packet to the device.  A request carries no data.                       *)
Packet(id, i, m) ==
  [action |-> ActionOf(i, m.len), pkt_id |-> id, frag_id |-> i,
   tot_len |-> m.len, msg |-> m.msg]
Request(id) ==
  [action |-> "REQUEST", pkt_id |-> id, frag_id |-> 0, tot_len |-> 0, msg |-> 0]

EmptySlots == [i \in Slot |-> [pkt_id |-> 0, msg |-> 0]]   (* memset to zero *)
NoFragment == [action |-> "NONE", pkt_id |-> 0, frag_id |-> 0, tot_len |-> 0, msg |-> 0]
EmptyOut == [conn |-> 0, frag |-> NoFragment]
Quiet(counts) == [phase |-> "idle", counts |-> counts, id |-> 0, message |-> NoMessage,
                  next |-> 0, got |-> <<>>]

Init ==
  /\ in_frags = EmptySlots
  /\ handler = [pkt_id |-> 0, recvd_len |-> 0, total_len |-> 0]
  /\ out_frags = [i \in Slot |-> EmptyOut]
  /\ sent_frag_idx = 0
  /\ pkt_ids = 0
  /\ up = [c \in Conn |-> <<>>]
  /\ down = [c \in Conn |-> <<>>]
  /\ \E counts \in [Conn -> Counting] : host = [c \in Conn |-> Quiet(counts[c])]
  /\ started = 0
  /\ delivered = <<>>
  /\ answered = {}
  /\ stray = FALSE

-----------------------------------------------------------------------------
(* The device.                                                               *)

NextPktId == (pkt_ids + 1) % PktIds

SendTo(c, p) == down' = [down EXCEPT ![c] = Append(@, p)]

(* bleSendNextFragment sends to the connection the fragment was cut for,     *)
(* whoever asked.  A slot of zeros is for no connection: nothing is sent.    *)
(* No bound is checked: what lies past the array is any fragment or none.    *)
bleSendNextFragment ==
  /\ IF sent_frag_idx \in Slot /\ out_frags[sent_frag_idx] # EmptyOut
       THEN SendTo(out_frags[sent_frag_idx].conn, out_frags[sent_frag_idx].frag)
       ELSE \/ down' = down
            \/ sent_frag_idx \notin Slot /\ \E c \in Conn : SendTo(c, NoFragment)
  /\ sent_frag_idx' = (sent_frag_idx + 1) % SentValues

(* bleSendFragmented: cut the reply, send its first fragment.                *)
FirstIdxKept == sent_frag_idx + 1              (* bug: index not reset *)
FirstIdx == 1
bleSendFragmented(c, len) ==
  LET frag(i) == [action |-> ActionOf(i, len), pkt_id |-> NextPktId,
                  frag_id |-> i, tot_len |-> len, msg |-> 0]
  IN  /\ pkt_ids' = NextPktId
      /\ out_frags' = [i \in Slot |-> IF i < TotalFragments(len)
                                        THEN [conn |-> c, frag |-> frag(i)]
                                        ELSE EmptyOut]
      /\ sent_frag_idx' = FirstIdx
      /\ SendTo(c, frag(0))

(* What the handler and the slots are after the test of the packet id.       *)
NewPacket(p) == handler.pkt_id # p.pkt_id
HandlerFor(p) ==
  IF NewPacket(p) THEN [pkt_id |-> p.pkt_id, recvd_len |-> 0, total_len |-> p.tot_len]
                  ELSE handler
SlotsFor(p) == IF NewPacket(p) THEN EmptySlots ELSE in_frags

NeverMarked(p) == FALSE                        (* bug: rewrites accepted *)
AlreadyMarked(p) == SlotsFor(p)[p.frag_id].pkt_id = p.pkt_id

(* A request: send the next fragment of the reply.                           *)
ServeRequest(p) ==
  /\ p.action = "REQUEST"
  /\ bleSendNextFragment
  /\ UNCHANGED <<in_frags, handler, out_frags, pkt_ids, delivered, stray>>

OutOfRange(p) == p.frag_id >= MAX_FRAGMENTS
Refused(p) ==
  \/ p.frag_id >= TotalFragments(HandlerFor(p).total_len)
  \/ AlreadyMarked(p)

(* A fragment that is not stored: too far, or a rewrite.  The reset has      *)
(* taken place all the same, and nothing is sent.                            *)
Refuse(p) ==
  /\ p.action # "REQUEST"
  /\ IF OutOfRange(p)
       THEN UNCHANGED <<in_frags, handler>>
       ELSE /\ Refused(p)
            /\ in_frags' = SlotsFor(p)
            /\ handler' = HandlerFor(p)
  /\ UNCHANGED <<out_frags, sent_frag_idx, pkt_ids, down, delivered, stray>>

(* A fragment that is stored.  With more to come the next one is requested;  *)
(* otherwise, if all have come, the packet goes to bleServer, which replies  *)
(* if it can decrypt it.                                                     *)
Reassembled(slots, len) ==
  LET msgs == {slots[i].msg : i \in 0 .. TotalFragments(len) - 1}
  IN  [msg |-> IF Cardinality(msgs) = 1 THEN CHOOSE m \in msgs : TRUE ELSE 0,
       len |-> len]

(* aes256_cbc_decrypt asks for a whole number of blocks, and for no more.    *)
Decrypts(len) == len % AES_BLOCK_SIZE = 0

(* Packets that follow a fragment of some earlier reply: one that asks for   *)
(* the next, and requests for it.                                            *)
Asks(q) == \E i \in DOMAIN q : q[i].action = "REQUEST"
AsksFor(q) == \E i \in DOMAIN q : q[i].action = "MORE"
StillCollected == \E c \in Conn : Asks(up'[c]) \/ AsksFor(down[c])

Store(c, p) ==
  LET h == HandlerFor(p)
      slots == [SlotsFor(p) EXCEPT ![p.frag_id] =
                  [pkt_id |-> p.pkt_id, msg |-> p.msg]]
      recvd == h.recvd_len + DataSize(p.frag_id, h.total_len)
  IN  /\ p.action # "REQUEST"
      /\ ~OutOfRange(p)
      /\ ~Refused(p)
      /\ in_frags' = slots
      /\ handler' = [h EXCEPT !.recvd_len = recvd]
      /\ \/ /\ p.action = "MORE"                    (* bleRequestNextFragment *)
            /\ pkt_ids' = NextPktId
            /\ SendTo(c, Request(NextPktId))
            /\ UNCHANGED <<out_frags, sent_frag_idx, delivered, stray>>
         \/ /\ p.action = "DONE"
            /\ recvd # h.total_len
            /\ UNCHANGED <<out_frags, sent_frag_idx, pkt_ids, down, delivered, stray>>
         \/ /\ p.action = "DONE"
            /\ recvd = h.total_len
            /\ delivered' = Append(delivered, Reassembled(slots, h.total_len))
            /\ IF Decrypts(h.total_len)
                 THEN /\ stray' = StillCollected
                      /\ \E len \in RspLens : bleSendFragmented(c, len)
                 ELSE UNCHANGED <<out_frags, sent_frag_idx, pkt_ids, down, stray>>

bleUsrCallback(c) ==
  /\ up[c] # <<>>
  /\ up' = [up EXCEPT ![c] = Tail(@)]
  /\ LET p == Head(up[c]) IN ServeRequest(p) \/ Refuse(p) \/ Store(c, p)
  /\ UNCHANGED <<host, started, answered>>

-----------------------------------------------------------------------------
(* The hosts and the link.                                                   *)

(* Send fragment i of m; after the last one the host waits for the reply.    *)
HostSend(c, id, i, m) ==
  /\ up' = [up EXCEPT ![c] = Append(@, Packet(id, i, m))]
  /\ host' = [host EXCEPT ![c] =
                [@ EXCEPT !.phase = IF ActionOf(i, m.len) = "MORE" THEN "send" ELSE "reply",
                          !.id = id, !.message = m, !.next = i + 1, !.got = <<>>]]

HostStart(c) ==
  /\ host[c].phase = "idle"
  /\ started < MaxMessages
  /\ started' = started + 1
  /\ \E len \in HostLens,
        id \in IF host[c].counts THEN {(host[c].id + 1) % PktIds} ELSE HostIds :
       HostSend(c, id, 0, [msg |-> started + 1, len |-> len])
  /\ UNCHANGED <<device, down, delivered, answered, stray>>

HostNext(c) ==                  (* the next fragment was requested *)
  /\ host[c].phase = "send"
  /\ down[c] # <<>>
  /\ Head(down[c]).action = "REQUEST"
  /\ down' = [down EXCEPT ![c] = Tail(@)]
  /\ HostSend(c, host[c].id, host[c].next, host[c].message)
  /\ UNCHANGED <<device, started, delivered, answered, stray>>

HostCollect(c) ==               (* a fragment of the reply *)
  /\ host[c].phase = "reply"
  /\ down[c] # <<>>
  /\ down' = [down EXCEPT ![c] = Tail(@)]
  /\ LET p == Head(down[c])
         h == [host[c] EXCEPT !.got = Append(@, p)]
     IN  IF p.action = "MORE"
           THEN /\ host' = [host EXCEPT ![c] = h]
                /\ up' = [up EXCEPT ![c] = Append(@, Request(h.id))]
                /\ UNCHANGED answered
           ELSE /\ host' = [host EXCEPT ![c] =
                              [h EXCEPT !.phase = "idle", !.message = NoMessage]]
                /\ answered' = answered \union {h.message}
                /\ UNCHANGED up
  /\ UNCHANGED <<device, started, delivered, stray>>

HostAskAgain(c) ==              (* a fragment of the reply is overdue *)
  /\ host[c].phase = "reply"
  /\ \A d \in Conn : Len(up[d]) + Len(down[d]) < MaxAsked
  /\ up' = [up EXCEPT ![c] = Append(@, Request(host[c].id))]
  /\ stray' = TRUE
  /\ UNCHANGED <<device, down, host, started, delivered, answered>>

(* The connection drops, or the host gives up and closes it, perhaps because *)
(* a notification was lost: what is in flight is lost, the host forgets the  *)
(* exchange, the device forgets nothing.                                     *)
Disconnect(c) ==
  /\ up' = [up EXCEPT ![c] = <<>>]
  /\ down' = [down EXCEPT ![c] = <<>>]
  /\ host' = [host EXCEPT ![c] = [@ EXCEPT !.phase = "idle", !.message = NoMessage,
                                           !.next = 0, !.got = <<>>]]
  /\ UNCHANGED <<device, started, delivered, answered, stray>>

Next == \E c \in Conn :
  \/ bleUsrCallback(c)
  \/ HostStart(c) \/ HostNext(c) \/ HostCollect(c) \/ HostAskAgain(c)
  \/ Disconnect(c)
Spec == Init /\ [][Next]_vars

(* RadioTask handles every packet that arrives, and a host that is owed      *)
(* nothing else handles what it receives.  Nobody has to start a message and *)
(* the connection need not drop.                                             *)
FairSpec ==
  /\ Spec
  /\ \A c \in Conn :
       WF_vars(bleUsrCallback(c)) /\ WF_vars(HostNext(c)) /\ WF_vars(HostCollect(c))

-----------------------------------------------------------------------------
PacketType == [action : {"MORE", "DONE", "REQUEST", "NONE"}, pkt_id : PktId,
               frag_id : Nat, tot_len : Nat, msg : 0 .. MaxMessages]

TypeOK ==
  /\ in_frags \in [Slot -> [pkt_id : PktId, msg : 0 .. MaxMessages]]
  /\ handler \in [pkt_id : PktId, recvd_len : Nat, total_len : Nat]
  /\ out_frags \in [Slot -> [conn : Conn \union {0}, frag : PacketType]]
  /\ sent_frag_idx \in Nat
  /\ pkt_ids \in PktId
  /\ up \in [Conn -> Seq(PacketType)]
  /\ down \in [Conn -> Seq(PacketType)]
  /\ host \in [Conn -> [phase : {"idle", "send", "reply"}, counts : BOOLEAN, id : PktId,
                        message : Message \union {NoMessage},
                        next : Nat, got : Seq(PacketType)]]
  /\ started \in 0 .. MaxMessages
  /\ delivered \in Seq([msg : 0 .. MaxMessages, len : Nat])
  /\ answered \subseteq Message
  /\ stray \in BOOLEAN

(* The byte count the completion test relies on (ble_usr.cpp:209,222) is the *)
(* size of what the slots hold, every fragment full but perhaps the last,    *)
(* however often the host reused an id, dropped the connection or changed    *)
(* the length in between, and however many hosts there are.                  *)
Stored == {i \in Slot : in_frags[i].msg # 0}
ShortOf(len) == IF len % MAX_FRAG_SIZE = 0 THEN 0 ELSE MAX_FRAG_SIZE - (len % MAX_FRAG_SIZE)
RecvdAccounts ==
  LET len == handler.total_len
  IN  handler.recvd_len = Cardinality(Stored) * MAX_FRAG_SIZE
        - (IF TotalFragments(len) - 1 \in Stored THEN ShortOf(len) ELSE 0)

(* bleSendNextFragment never runs past the fragments of the reply, although  *)
(* it checks no bound, as long as every request follows a fragment of that   *)
(* reply marked as not last: no host has asked again, and it was not cut     *)
(* while another host was still collecting the one before (ble_usr.cpp:75).  *)
SentWithinReply ==
  stray \/ /\ sent_frag_idx <= MAX_FRAGMENTS
           /\ \A i \in Slot : i < sent_frag_idx => out_frags[i] # EmptyOut

(* "Is it a request for waiting fragments?" (ble_usr.cpp:163): when one is   *)
(* served there is a fragment that waits.                                    *)
RequestsFindFragments ==
  \A c \in Conn : up[c] # <<>> /\ Head(up[c]).action = "REQUEST" =>
    sent_frag_idx \in Slot /\ out_frags[sent_frag_idx] # EmptyOut

(* "No fragment rewrite" (ble_usr.cpp:191): what is refused for that is in   *)
(* its slot already.                                                         *)
OnlyRewritesRefused ==
  \A c \in Conn : up[c] # <<>> =>
    LET p == Head(up[c])
    IN  p.action # "REQUEST" /\ ~OutOfRange(p) /\ AlreadyMarked(p)
          /\ p.frag_id < TotalFragments(HandlerFor(p).total_len) =>
        SlotsFor(p)[p.frag_id].msg # 0

(* The layer implements the exchange it promises.                            *)
Exchange == INSTANCE MessageExchange WITH
  current <- [c \in Conn |-> host[c].message]
ImplementsExchange == Exchange!Spec

(* An exchange the connection lasts for comes to its end: neither side waits *)
(* for the other forever, whatever earlier exchanges left in the device, if  *)
(* the host counts its ids, the message fits and decrypts, and its id is not *)
(* the 0 of a cleared slot (ble_usr.cpp:187-242, ble_server.cpp:148-149).    *)
Answerable(c) ==
  /\ host[c].counts /\ host[c].id # 0
  /\ host[c].message.len <= MAX_FRAGMENTS * MAX_FRAG_SIZE
  /\ Decrypts(host[c].message.len)
=============================================================================
