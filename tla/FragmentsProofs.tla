--------------------------- MODULE FragmentsProofs ---------------------------
(***************************************************************************)
(* Proofs about Fragments, for every size and number of slots, every width *)
(* of the packet ids, any lengths and any number of messages.              *)
(*                                                                         *)
(* What the slots hold and how far the reply is sent is proved for any     *)
(* number of hosts.  Two at once share in_frags, the handler and the reply *)
(* and do not keep to the exchange, nor does one that asks twice: it is    *)
(* proved for one host at a time that asks once for each fragment.         *)
(***************************************************************************)
EXTENDS Fragments, FiniteSetTheorems, SequenceTheorems, TLAPS

OneHost == \A c, d \in Conn : c = d
AsksOnce == MaxAsked = 0

-----------------------------------------------------------------------------
(* The arithmetic of fragments.                                              *)
LEMMA TimesMonotonic ==
  ASSUME NEW a \in Nat, NEW b \in Nat, a <= b, NEW s \in Nat
  PROVE  a * s <= b * s
<1>1. PICK d \in Nat : b = a + d
  BY b - a \in Nat
<1>2. (a + d) * s = a * s + d * s /\ d * s \in Nat /\ a * s \in Nat
  BY SMT
<1>3. QED
  BY <1>1, <1>2

LEMMA Cut ==
  ASSUME NEW len \in Nat \ {0}
  PROVE  /\ TotalFragments(len) \in Nat \ {0}
         /\ \A k \in Nat : k < TotalFragments(len) =>
              /\ k * MAX_FRAG_SIZE < len
              /\ k * MAX_FRAG_SIZE + DataSize(k, len) =
                   IF k + 1 = TotalFragments(len) THEN len ELSE (k + 1) * MAX_FRAG_SIZE
<1> DEFINE s == MAX_FRAG_SIZE
           q == len \div s
           r == len % s
<1>1. s \in Nat \ {0}
  BY FragmentsAssumption
<1>2. q \in Nat /\ r \in 0 .. s - 1 /\ len = s * q + r
  BY <1>1, SMT
<1>3. s * q = q * s /\ q * s \in Nat
  BY <1>1, <1>2, SMT
<1>4. TotalFragments(len) = q + (IF r # 0 THEN 1 ELSE 0)
  BY DEF TotalFragments
<1>5. \A k : DataSize(k, len) = IF r # 0 /\ k + 1 = TotalFragments(len) THEN r ELSE s
  BY DEF DataSize
<1> HIDE DEF s, q, r
<1>6. TotalFragments(len) \in Nat \ {0}
  <2>1. CASE q = 0
    <3>1. q * s = 0
      BY <1>1, <2>1
    <3>2. r = len
      BY <1>1, <1>2, <1>3, <3>1
    <3>3. QED
      BY <1>2, <1>4, <3>2
  <2>2. CASE q # 0
    BY <1>2, <1>4, <2>2
  <2>3. QED
    BY <2>1, <2>2
<1>7. ASSUME NEW k \in Nat, k < TotalFragments(len)
      PROVE  /\ k * s < len
             /\ k * s + DataSize(k, len) =
                  IF k + 1 = TotalFragments(len) THEN len ELSE (k + 1) * s
  <2>1. (k + 1) * s = k * s + s /\ k * s \in Nat
    BY <1>1, SMT
  <2>2. CASE r # 0
    <3>1. k <= q /\ TotalFragments(len) = q + 1
      BY <1>2, <1>4, <1>7, <2>2
    <3>2. k * s <= q * s
      BY <1>1, <1>2, <3>1, TimesMonotonic
    <3>3. CASE k = q
      BY <1>2, <1>3, <1>5, <2>1, <2>2, <3>1, <3>2, <3>3
    <3>4. CASE k # q
      <4>1. k + 1 # TotalFragments(len)
        BY <1>2, <3>1, <3>4
      <4>2. QED
        BY <1>1, <1>2, <1>3, <1>5, <2>1, <2>2, <3>2, <4>1
    <3>5. QED
      BY <3>3, <3>4
  <2>3. CASE r = 0
    <3>1. k + 1 <= q /\ TotalFragments(len) = q /\ len = q * s
      BY <1>2, <1>3, <1>4, <1>7, <2>3
    <3>2. (k + 1) * s <= q * s
      BY <1>1, <1>2, <3>1, TimesMonotonic
    <3>3. DataSize(k, len) = s
      BY <1>5, <2>3
    <3>4. CASE k + 1 = q
      BY <1>1, <2>1, <3>1, <3>3, <3>4
    <3>5. CASE k + 1 # q
      BY <1>1, <1>3, <2>1, <3>1, <3>2, <3>3, <3>5
    <3>6. QED
      BY <3>4, <3>5
  <2>4. QED
    BY <2>2, <2>3
<1>8. QED
  BY <1>6, <1>7 DEF s

(* A reply that bleServer may give fits into the slots.                      *)
LEMMA ReplyFits ==
  ASSUME NEW len \in RspLens
  PROVE  len \in Nat \ {0} /\ TotalFragments(len) \in 1 .. MAX_FRAGMENTS
<1>1. len \in 1 .. MAX_FRAGMENTS * MAX_FRAG_SIZE /\ MAX_FRAGMENTS \in Nat
      /\ MAX_FRAGMENTS * MAX_FRAG_SIZE \in Nat
  BY FragmentsAssumption, SMT
<1>2. TotalFragments(len) \in Nat \ {0}
  BY <1>1, Cut
<1>3. MAX_FRAGMENTS < TotalFragments(len) => MAX_FRAGMENTS * MAX_FRAG_SIZE < len
  BY <1>1, Cut
<1>4. QED
  BY <1>1, <1>2, <1>3

-----------------------------------------------------------------------------
(* The device.  What bleSendFragmented has cut: behind a fragment marked as  *)
(* not the last there is another, and all that was sent is there.            *)
ReplyInv ==
  /\ sent_frag_idx \in 0 .. MAX_FRAGMENTS
  /\ \A i \in Slot : i < sent_frag_idx => out_frags[i] # EmptyOut
  /\ \A i \in Slot : out_frags[i].frag.action = "MORE" =>
       i + 1 \in Slot /\ out_frags[i + 1] # EmptyOut
  /\ \A i \in Slot : out_frags[i] # EmptyOut =>
       out_frags[i].conn \in Conn /\ out_frags[i].frag.action \in {"MORE", "DONE"}

MoreToSend ==
  sent_frag_idx > 0 /\ out_frags[sent_frag_idx - 1].frag.action = "MORE"

(* The slots hold the first k fragments of message m, and the count is what  *)
(* they have: the fragments of a message come in order, and those of another *)
(* are refused, or have the slots cleared, at its first one.                 *)
FirstOf(k, m) ==
  /\ \A i \in Slot : in_frags[i] = IF i < k THEN [pkt_id |-> handler.pkt_id, msg |-> m]
                                            ELSE [pkt_id |-> 0, msg |-> 0]
  /\ handler.recvd_len = IF k = TotalFragments(handler.total_len)
                           THEN handler.total_len ELSE k * MAX_FRAG_SIZE
  /\ k = 0 => handler.pkt_id = 0
SlotsInv == \E k \in 0 .. MAX_FRAGMENTS, m \in 0 .. MaxMessages : FirstOf(k, m)

Current(c, k) ==
  /\ k \in 0 .. MAX_FRAGMENTS
  /\ handler.pkt_id = host[c].id
  /\ handler.total_len = host[c].message.len
  /\ FirstOf(k, host[c].message.msg)

-----------------------------------------------------------------------------
(* The exchange.  Whose turn it is: of the two directions one at most holds  *)
(* a packet.                                                                 *)
Open(c) ==
  /\ host[c].message \in Message
  /\ host[c].message.msg <= started
  /\ host[c].next \in 1 .. TotalFragments(host[c].message.len)
  /\ host[c].phase = IF host[c].next < TotalFragments(host[c].message.len)
                       THEN "send" ELSE "reply"

Idle(c) ==
  /\ host[c].phase = "idle" /\ host[c].message = NoMessage
  /\ up[c] = <<>> /\ down[c] = <<>>

Sending(c) ==            (* a fragment is on its way to the device *)
  /\ Open(c)
  /\ up[c] = <<Packet(host[c].id, host[c].next - 1, host[c].message)>> /\ down[c] = <<>>
  /\ ~Exchange!Handed(host[c].message)
  /\ host[c].next > 1 => Current(c, host[c].next - 1)

Asked(c) ==              (* a request is on its way to the host *)
  /\ Open(c) /\ host[c].phase = "send"
  /\ up[c] = <<>> /\ \E id \in PktId : down[c] = <<Request(id)>>
  /\ ~Exchange!Handed(host[c].message)
  /\ Current(c, host[c].next)

Asking(c) ==             (* a request is on its way to the device *)
  /\ Open(c) /\ host[c].phase = "reply"
  /\ up[c] = <<Request(host[c].id)>> /\ down[c] = <<>>
  /\ Exchange!Handed(host[c].message)
  /\ MoreToSend

Replying(c) ==           (* a fragment of the reply is on its way to the host *)
  /\ Open(c) /\ host[c].phase = "reply"
  /\ up[c] = <<>>
  /\ Len(down[c]) = 1 /\ Head(down[c]).action \in {"MORE", "DONE"}
  /\ Head(down[c]).action = "MORE" => MoreToSend
  /\ Exchange!Handed(host[c].message)

Refusing(c) ==           (* the fragment was refused, and nobody goes on *)
  Open(c) /\ up[c] = <<>> /\ down[c] = <<>>

Turn(c) == Idle(c) \/ Sending(c) \/ Asked(c) \/ Asking(c) \/ Replying(c) \/ Refusing(c)

DeliveredInv == \A i \in 1 .. Len(delivered) : delivered[i].msg <= started

IInv == TypeOK /\ ReplyInv /\ SlotsInv /\ DeliveredInv /\ \A c \in Conn : Turn(c)

(* What the two users of the layer may see of a step.                        *)
ExchangeStep == [Exchange!Next]_(Exchange!vars)
Kept == IInv' /\ ExchangeStep

-----------------------------------------------------------------------------
(* Types.                                                                    *)
HostState ==
  [phase : {"idle", "send", "reply"}, counts : BOOLEAN, id : PktId,
   message : Message \union {NoMessage}, next : Nat, got : Seq(PacketType)]

LEMMA Types ==
  ASSUME TypeOK
  PROVE  /\ host \in [Conn -> HostState]
         /\ up \in [Conn -> Seq(PacketType)] /\ down \in [Conn -> Seq(PacketType)]
         /\ started \in 0 .. MaxMessages
         /\ delivered \in Seq([msg : 0 .. MaxMessages, len : Nat])
         /\ answered \subseteq Message /\ stray \in BOOLEAN
BY DEF TypeOK, HostState

LEMMA DeviceTypes ==
  ASSUME TypeOK
  PROVE  /\ in_frags \in [Slot -> [pkt_id : PktId, msg : 0 .. MaxMessages]]
         /\ handler \in [pkt_id : PktId, recvd_len : Nat, total_len : Nat]
         /\ out_frags \in [Slot -> [conn : Conn \union {0}, frag : PacketType]]
         /\ sent_frag_idx \in Nat
         /\ pkt_ids \in PktId
BY DEF TypeOK

LEMMA TypesTogether ==
  ASSUME in_frags \in [Slot -> [pkt_id : PktId, msg : 0 .. MaxMessages]],
         handler \in [pkt_id : PktId, recvd_len : Nat, total_len : Nat],
         out_frags \in [Slot -> [conn : Conn \union {0}, frag : PacketType]],
         sent_frag_idx \in Nat,
         pkt_ids \in PktId,
         host \in [Conn -> HostState],
         up \in [Conn -> Seq(PacketType)], down \in [Conn -> Seq(PacketType)],
         started \in 0 .. MaxMessages,
         delivered \in Seq([msg : 0 .. MaxMessages, len : Nat]),
         answered \subseteq Message, stray \in BOOLEAN
  PROVE  TypeOK
BY DEF TypeOK, HostState

LEMMA Constants ==
  /\ MAX_FRAG_SIZE \in Nat \ {0} /\ MAX_FRAGMENTS \in Nat \ {0} /\ MaxMessages \in Nat
  /\ SentValues \in Nat /\ SentValues > MAX_FRAGMENTS
  /\ 0 \in PktId /\ 0 \in Slot /\ 0 \in 0 .. MaxMessages
  /\ HostIds \subseteq PktId
  /\ \A m \in Message : m.msg \in 1 .. MaxMessages /\ m.len \in Nat \ {0}
<1>1. /\ MAX_FRAG_SIZE \in Nat \ {0} /\ MAX_FRAGMENTS \in Nat \ {0} /\ MaxMessages \in Nat
      /\ PktIds \in Nat \ {0} /\ HostLens \subseteq Nat \ {0}
      /\ SentValues \in Nat /\ SentValues > MAX_FRAGMENTS
      /\ HostIds \subseteq 0 .. PktIds - 1
  BY FragmentsAssumption
<1>2. ASSUME NEW m \in Message
      PROVE  m.msg \in 1 .. MaxMessages /\ m.len \in Nat \ {0}
  BY <1>1 DEF Message
<1>3. QED
  BY <1>1, <1>2 DEF PktId, Slot

LEMMA NextId == \A id \in PktId : (id + 1) % PktIds \in PktId
BY FragmentsAssumption, SMT DEF PktId

LEMMA PacketTypes ==
  /\ \A id \in PktId, i \in Nat, m \in Message : Packet(id, i, m) \in PacketType
  /\ \A id \in PktId : Request(id) \in PacketType
  /\ NoFragment \in PacketType
<1>1. ASSUME NEW id \in PktId, NEW i \in Nat, NEW m \in Message
      PROVE  Packet(id, i, m) \in PacketType
  <2>1. m.msg \in 0 .. MaxMessages /\ m.len \in Nat
    BY Constants
  <2>2. ActionOf(i, m.len) \in {"MORE", "DONE", "REQUEST", "NONE"}
    BY DEF ActionOf
  <2>3. QED
    BY <2>1, <2>2 DEF Packet, PacketType
<1>2. ASSUME NEW id \in PktId PROVE Request(id) \in PacketType
  BY Constants DEF Request, PacketType
<1>3. NoFragment \in PacketType
  BY Constants DEF NoFragment, PacketType
<1>4. QED
  BY <1>1, <1>2, <1>3

LEMMA InitInv == Init => IInv
<1> SUFFICES ASSUME Init PROVE IInv
  OBVIOUS
<1> USE Constants
<1>1. /\ in_frags = EmptySlots /\ handler = [pkt_id |-> 0, recvd_len |-> 0, total_len |-> 0]
      /\ out_frags = [i \in Slot |-> EmptyOut] /\ sent_frag_idx = 0 /\ pkt_ids = 0
      /\ up = [c \in Conn |-> <<>>] /\ down = [c \in Conn |-> <<>>]
      /\ started = 0 /\ delivered = <<>> /\ answered = {} /\ stray = FALSE
  BY DEF Init
<1>2. PICK counts \in [Conn -> Counting] : host = [c \in Conn |-> Quiet(counts[c])]
  BY DEF Init
<1>3. \A c \in Conn : Quiet(counts[c]) \in HostState
  <2>1. \A c \in Conn : counts[c] \in BOOLEAN
    BY FragmentsAssumption
  <2>2. <<>> \in Seq(PacketType)
    OBVIOUS
  <2>3. QED
    BY <2>1, <2>2 DEF Quiet, HostState
<1>4. TypeOK
  <2>1. [conn |-> 0, frag |-> NoFragment] \in [conn : Conn \union {0}, frag : PacketType]
    BY PacketTypes
  <2>2. out_frags \in [Slot -> [conn : Conn \union {0}, frag : PacketType]]
    BY <1>1, <2>1 DEF EmptyOut
  <2>3. in_frags \in [Slot -> [pkt_id : PktId, msg : 0 .. MaxMessages]]
    BY <1>1 DEF EmptySlots
  <2>4. <<>> \in Seq(PacketType) /\ <<>> \in Seq([msg : 0 .. MaxMessages, len : Nat])
    OBVIOUS
  <2>5. host \in [Conn -> HostState]
    BY <1>2, <1>3
  <2>6. /\ handler \in [pkt_id : PktId, recvd_len : Nat, total_len : Nat]
        /\ up \in [Conn -> Seq(PacketType)] /\ down \in [Conn -> Seq(PacketType)]
    BY <1>1, <2>4
  <2>7. QED
    BY <1>1, <2>2, <2>3, <2>4, <2>5, <2>6, TypesTogether
<1>5. ReplyInv
  BY <1>1 DEF ReplyInv, EmptyOut, NoFragment, Slot
<1>6. SlotsInv
  <2>1. FirstOf(0, 0)
    BY <1>1 DEF FirstOf, EmptySlots, Slot
  <2>2. 0 \in 0 .. MAX_FRAGMENTS
    OBVIOUS
  <2>3. QED
    BY <2>1, <2>2 DEF SlotsInv
<1>7. DeliveredInv
  BY <1>1 DEF DeliveredInv
<1>8. \A c \in Conn : Idle(c)
  BY <1>1, <1>2 DEF Idle, Quiet
<1>9. QED
  BY <1>4, <1>5, <1>6, <1>7, <1>8 DEF IInv, Turn

-----------------------------------------------------------------------------
(* The hosts and the link leave the device as it is.                         *)
LEMMA DeviceSame ==
  ASSUME IInv, UNCHANGED <<device, delivered>>, started' \in Nat, started' >= started
  PROVE  /\ ReplyInv' /\ SlotsInv' /\ DeliveredInv'
         /\ MoreToSend' <=> MoreToSend
         /\ \A m : Exchange!Handed(m)' <=> Exchange!Handed(m)
<1>1. UNCHANGED <<in_frags, handler, out_frags, sent_frag_idx, delivered>>
  BY DEF device
<1>2. ReplyInv' /\ (MoreToSend' <=> MoreToSend)
  BY <1>1 DEF IInv, ReplyInv, MoreToSend
<1>3. SlotsInv'
  BY <1>1 DEF IInv, SlotsInv, FirstOf
<1>4. DeliveredInv'
  <2>1. ASSUME NEW i \in 1 .. Len(delivered) PROVE delivered[i].msg <= started'
    <3>1. /\ delivered \in Seq([msg : 0 .. MaxMessages, len : Nat])
          /\ started \in 0 .. MaxMessages
      BY Types DEF IInv
    <3>2. delivered[i].msg <= started
      BY DEF IInv, DeliveredInv
    <3>3. delivered[i].msg \in 0 .. MaxMessages
      <4>1. PICK M : M = [msg : 0 .. MaxMessages, len : Nat]
        OBVIOUS
      <4>2. delivered \in Seq(M)
        BY <3>1, <4>1
      <4>3. delivered[i] \in M
        BY <4>2
      <4>4. QED
        BY <4>1, <4>3
    <3>4. MaxMessages \in Nat
      BY Constants
    <3>5. QED
      BY <3>1, <3>2, <3>3, <3>4
  <2>2. QED
    BY <1>1, <2>1 DEF DeliveredInv
<1>5. \A m : Exchange!Handed(m)' <=> Exchange!Handed(m)
  BY <1>1 DEF Exchange!Handed
<1>6. QED
  BY <1>2, <1>3, <1>4, <1>5

LEMMA DeviceTypesSame ==
  ASSUME TypeOK, UNCHANGED device,
         host' \in [Conn -> HostState],
         up' \in [Conn -> Seq(PacketType)], down' \in [Conn -> Seq(PacketType)],
         started' \in 0 .. MaxMessages, UNCHANGED delivered, answered' \subseteq Message,
         stray' \in BOOLEAN
  PROVE  TypeOK'
BY DEF TypeOK, HostState, device

(* A host sends fragment i of m into an empty link.                          *)
LEMMA Sent ==
  ASSUME TypeOK, NEW c \in Conn, NEW id \in PktId, NEW i \in Nat, NEW m \in Message,
         i < TotalFragments(m.len), up[c] = <<>>, HostSend(c, id, i, m)
  PROVE  /\ host' \in [Conn -> HostState] /\ up' \in [Conn -> Seq(PacketType)]
         /\ up'[c] = <<Packet(id, i, m)>>
         /\ host'[c].id = id /\ host'[c].message = m /\ host'[c].next = i + 1
         /\ m.msg <= started' => Open(c)'
<1>1. host \in [Conn -> HostState] /\ up \in [Conn -> Seq(PacketType)]
  BY Types
<1>2. Packet(id, i, m) \in PacketType
  BY PacketTypes
<1>3. up' = [up EXCEPT ![c] = Append(@, Packet(id, i, m))]
  BY DEF HostSend
<1>4. Append(up[c], Packet(id, i, m)) = <<Packet(id, i, m)>>
  OBVIOUS
<1>5. <<Packet(id, i, m)>> \in Seq(PacketType)
  BY <1>2
<1>6. up' \in [Conn -> Seq(PacketType)] /\ up'[c] = <<Packet(id, i, m)>>
  BY <1>1, <1>3, <1>4, <1>5
<1> DEFINE phase == IF ActionOf(i, m.len) = "MORE" THEN "send" ELSE "reply"
           h == [host[c] EXCEPT !.phase = phase, !.id = id, !.message = m,
                                !.next = i + 1, !.got = <<>>]
<1>7. host' = [host EXCEPT ![c] = h]
  BY DEF HostSend
<1>8. host[c] \in HostState
  BY <1>1
<1>9. phase \in {"idle", "send", "reply"} /\ <<>> \in Seq(PacketType) /\ i + 1 \in Nat
  OBVIOUS
<1>10. phase = IF i + 1 < TotalFragments(m.len) THEN "send" ELSE "reply"
  BY DEF ActionOf
<1> HIDE DEF phase
<1>11. /\ h \in HostState
       /\ h.id = id /\ h.message = m /\ h.next = i + 1 /\ h.phase = phase
  BY <1>8, <1>9 DEF HostState
<1> HIDE DEF h
<1>12. host' \in [Conn -> HostState] /\ host'[c] = h
  BY <1>1, <1>7, <1>11
<1>13. TotalFragments(m.len) \in Nat
  BY Constants, Cut
<1>14. m.msg <= started' => Open(c)'
  BY <1>10, <1>11, <1>12, <1>13 DEF Open
<1>15. QED
  BY <1>6, <1>11, <1>12, <1>14

(* The exchange is the host's message, the server's input and the answers.   *)
LEMMA ExchangeSame ==
  ASSUME UNCHANGED <<delivered, answered>>,
         \A c \in Conn : host'[c].message = host[c].message
  PROVE  ExchangeStep
BY DEF ExchangeStep, Exchange!vars

LEMMA StartKeeps ==
  ASSUME OneHost, IInv, NEW c \in Conn, HostStart(c)
  PROVE  Kept
<1> USE DEF IInv
<1>1. Idle(c) /\ Conn = {c}
  BY DEF HostStart, Turn, Idle, Sending, Asked, Asking, Replying, Refusing, Open, OneHost
<1>2. PICK len \in HostLens,
           id \in IF host[c].counts THEN {(host[c].id + 1) % PktIds} ELSE HostIds :
             HostSend(c, id, 0, [msg |-> started + 1, len |-> len])
  BY DEF HostStart
<1>3. id \in PktId
  BY NextId, Constants, Types DEF HostState
<1>0. PICK m : m = [msg |-> started + 1, len |-> len]
  OBVIOUS
<1>4. started \in Nat /\ started < MaxMessages /\ started' = started + 1
      /\ UNCHANGED <<device, down, delivered, answered, stray>>
  BY Types DEF HostStart
<1>5. m \in Message /\ m.msg = started + 1
  BY <1>0, <1>4, Constants DEF Message
<1>6. 0 < TotalFragments(m.len)
  BY <1>5, Constants, Cut
<1>7. /\ host' \in [Conn -> HostState] /\ up' \in [Conn -> Seq(PacketType)]
      /\ up'[c] = <<Packet(id, 0, m)>>
      /\ host'[c].id = id /\ host'[c].message = m /\ host'[c].next = 1
      /\ Open(c)'
  <2>1. HostSend(c, id, 0, m) /\ up[c] = <<>>
    BY <1>0, <1>1, <1>2 DEF Idle
  <2>2. m.msg <= started'
    BY <1>4, <1>5
  <2>3. QED
    BY <1>3, <1>5, <1>6, <2>1, <2>2, Sent
<1>8. ~Exchange!Handed(m)
  <2>1. SUFFICES ASSUME NEW k \in 1 .. Len(delivered), delivered[k] = m PROVE FALSE
    BY DEF Exchange!Handed
  <2>2. QED
    BY <1>4, <1>5, <2>1 DEF DeliveredInv
<1>9. ReplyInv' /\ SlotsInv' /\ DeliveredInv' /\ ~Exchange!Handed(m)'
  <2>1. started' \in Nat /\ started' >= started
    BY <1>4
  <2>2. UNCHANGED <<device, delivered>>
    BY <1>4
  <2>3. QED
    BY <1>8, <2>1, <2>2, DeviceSame
<1>10. TypeOK'
  <2>1. started' \in 0 .. MaxMessages
    BY <1>4, Constants
  <2>2. /\ down' \in [Conn -> Seq(PacketType)] /\ answered' \subseteq Message
        /\ stray' \in BOOLEAN
    BY <1>4, Types
  <2>3. QED
    BY <1>4, <1>7, <2>1, <2>2, DeviceTypesSame
<1>11. Sending(c)'
  <2>1. down'[c] = <<>>
    BY <1>1, <1>4 DEF Idle
  <2>2. host'[c].next - 1 = 0 /\ ~(host'[c].next > 1)
    BY <1>7
  <2>3. QED
    BY <1>7, <1>9, <2>1, <2>2 DEF Sending
<1>12. Exchange!Start(c, m)
  <2>1. host[c].message = NoMessage
    BY <1>1 DEF Idle
  <2>2. [d \in Conn |-> host'[d].message] = [[d \in Conn |-> host[d].message] EXCEPT ![c] = m]
    BY <1>1, <1>7
  <2>3. QED
    BY <1>4, <1>8, <2>1, <2>2 DEF Exchange!Start
<1>13. QED
  <2>1. \A d \in Conn : Turn(d)'
    BY <1>1, <1>11 DEF Turn
  <2>2. Exchange!Next
    BY <1>5, <1>12 DEF Exchange!Next
  <2>3. QED
    BY <1>9, <1>10, <2>1, <2>2 DEF Kept, ExchangeStep

LEMMA CurrentSame ==
  ASSUME UNCHANGED <<in_frags, handler>>, NEW c \in Conn, NEW k, Current(c, k),
         host'[c].id = host[c].id, host'[c].message = host[c].message
  PROVE  Current(c, k)'
BY DEF Current, FirstOf

LEMMA NextKeeps ==
  ASSUME OneHost, IInv, NEW c \in Conn, HostNext(c)
  PROVE  Kept
<1> USE DEF IInv
<1>1. Asked(c) /\ Conn = {c}
  BY DEF HostNext, Turn, Idle, Sending, Asked, Asking, Replying, Refusing, Open, OneHost
<1>2. PICK m, i, id : m = host[c].message /\ i = host[c].next /\ id = host[c].id
  OBVIOUS
<1>3. host[c] \in HostState /\ down \in [Conn -> Seq(PacketType)] /\ started \in Nat
  BY Types
<1>4. id \in PktId /\ m \in Message /\ TotalFragments(m.len) \in Nat
  BY <1>1, <1>2, <1>3, Constants, Cut DEF HostState, Asked, Open
<1>5. i \in Nat \ {0} /\ i < TotalFragments(m.len) /\ m.msg <= started
  BY <1>1, <1>2, <1>4 DEF Asked, Open
<1>6. /\ HostSend(c, id, i, m)
      /\ down' = [down EXCEPT ![c] = Tail(@)]
      /\ UNCHANGED <<device, started, delivered, answered, stray>>
  BY <1>2 DEF HostNext
<1>7. down' \in [Conn -> Seq(PacketType)] /\ down'[c] = <<>>
  <2>1. PICK p : down[c] = <<p>>
    BY <1>1 DEF Asked
  <2>2. Tail(down[c]) = <<>> /\ <<>> \in Seq(PacketType)
    BY <2>1
  <2>3. QED
    BY <1>3, <1>6, <2>2
<1>8. /\ host' \in [Conn -> HostState] /\ up' \in [Conn -> Seq(PacketType)]
      /\ up'[c] = <<Packet(id, i, m)>>
      /\ host'[c].id = id /\ host'[c].message = m /\ host'[c].next = i + 1
      /\ Open(c)'
  <2>1. up[c] = <<>>
    BY <1>1 DEF Asked
  <2>2. QED
    BY <1>4, <1>5, <1>6, <2>1, Sent
<1>9. ReplyInv' /\ SlotsInv' /\ DeliveredInv' /\ ~Exchange!Handed(m)'
  <2>1. ~Exchange!Handed(m)
    BY <1>1, <1>2 DEF Asked
  <2>2. QED
    BY <1>3, <1>6, <2>1, DeviceSame
<1>10. TypeOK'
  BY <1>6, <1>7, <1>8, Types, DeviceTypesSame
<1>11. Current(c, i)'
  BY <1>1, <1>2, <1>6, <1>8, CurrentSame DEF Asked, device
<1>12. Sending(c)'
  <2>1. host'[c].next - 1 = i
    BY <1>5, <1>8
  <2>2. QED
    BY <1>7, <1>8, <1>9, <1>11, <2>1 DEF Sending
<1>13. ExchangeStep
  BY <1>1, <1>2, <1>6, <1>8, ExchangeSame
<1>14. QED
  BY <1>1, <1>9, <1>10, <1>12, <1>13 DEF Kept, Turn

LEMMA CollectKeeps ==
  ASSUME OneHost, IInv, NEW c \in Conn, HostCollect(c)
  PROVE  Kept
<1> USE DEF IInv
<1>1. Replying(c) /\ Conn = {c}
  BY DEF HostCollect, Turn, Idle, Sending, Asked, Asking, Replying, Refusing, Open, OneHost
<1>2. PICK m, p : m = host[c].message /\ p = Head(down[c])
  OBVIOUS
<1>3. /\ host \in [Conn -> HostState] /\ host[c] \in HostState
      /\ down \in [Conn -> Seq(PacketType)] /\ up \in [Conn -> Seq(PacketType)]
      /\ started \in Nat
  BY Types
<1>4. p \in PacketType /\ Tail(down[c]) = <<>>
  <2>1. down[c] \in Seq(PacketType) /\ Len(down[c]) = 1
    BY <1>1, <1>3 DEF Replying
  <2>2. Head(down[c]) \in PacketType
    BY <2>1
  <2>3. Tail(down[c]) \in Seq(PacketType) /\ Len(Tail(down[c])) = 0
    BY <2>1
  <2>4. QED
    BY <1>2, <2>2, <2>3, EmptySeq
<1>5. /\ down' = [down EXCEPT ![c] = Tail(@)]
      /\ UNCHANGED <<device, started, delivered, stray>>
  BY DEF HostCollect
<1>6. down' \in [Conn -> Seq(PacketType)] /\ down'[c] = <<>>
  <2>1. <<>> \in Seq(PacketType)
    OBVIOUS
  <2>2. QED
    BY <1>3, <1>4, <1>5, <2>1
<1>7. Exchange!Handed(m)
  BY <1>1, <1>2 DEF Replying
<1>8. /\ ReplyInv' /\ SlotsInv' /\ DeliveredInv' /\ Exchange!Handed(m)'
      /\ MoreToSend' <=> MoreToSend
  BY <1>3, <1>5, <1>7, DeviceSame
<1>9. Append(host[c].got, p) \in Seq(PacketType)
  <2>1. host[c].got \in Seq(PacketType)
    BY <1>3 DEF HostState
  <2>2. QED
    BY <1>4, <2>1
<1> DEFINE h == [host[c] EXCEPT !.got = Append(@, p)]
           done == [h EXCEPT !.phase = "idle", !.message = NoMessage]
<1>10. CASE p.action = "MORE"
  <2>1. /\ host' = [host EXCEPT ![c] = h]
        /\ up' = [up EXCEPT ![c] = Append(@, Request(h.id))]
        /\ UNCHANGED answered
    BY <1>2, <1>10 DEF HostCollect
  <2>2. /\ h \in HostState
        /\ h.id = host[c].id /\ h.message = m /\ h.next = host[c].next
        /\ h.phase = host[c].phase
    BY <1>2, <1>3, <1>9 DEF HostState
  <2> HIDE DEF h
  <2>3. host' \in [Conn -> HostState] /\ host'[c] = h
    BY <1>3, <2>1, <2>2
  <2>4. up'[c] = <<Request(host'[c].id)>> /\ up' \in [Conn -> Seq(PacketType)]
    <3>1. up[c] = <<>>
      BY <1>1 DEF Replying
    <3>2. Append(up[c], Request(h.id)) = <<Request(h.id)>>
      BY <3>1
    <3>3. Request(h.id) \in PacketType
      BY <2>2, PacketTypes DEF HostState
    <3>4. <<Request(h.id)>> \in Seq(PacketType)
      BY <3>3
    <3>5. QED
      BY <1>3, <2>1, <2>3, <3>2, <3>4
  <2>5. Asking(c)'
    <3>1. Open(c)' /\ host'[c].phase = "reply" /\ host'[c].message = m
      BY <1>1, <1>2, <1>5, <2>2, <2>3 DEF Open, Replying
    <3>2. MoreToSend'
      BY <1>1, <1>2, <1>8, <1>10 DEF Replying
    <3>3. QED
      BY <1>6, <1>8, <2>4, <3>1, <3>2 DEF Asking
  <2>6. TypeOK'
    BY <1>5, <1>6, <2>1, <2>3, <2>4, Types, DeviceTypesSame
  <2>7. ExchangeStep
    BY <1>1, <1>2, <1>5, <2>1, <2>2, <2>3, ExchangeSame
  <2>8. QED
    BY <1>1, <1>8, <2>5, <2>6, <2>7 DEF Kept, Turn
<1>11. CASE p.action # "MORE"
  <2>1. /\ host' = [host EXCEPT ![c] = done]
        /\ answered' = answered \union {h.message}
        /\ UNCHANGED up
    BY <1>2, <1>11 DEF HostCollect
  <2>2. done \in HostState /\ done.phase = "idle" /\ done.message = NoMessage
        /\ h.message = m
    BY <1>2, <1>3, <1>9 DEF HostState
  <2> HIDE DEF h, done
  <2>3. host' \in [Conn -> HostState] /\ host'[c] = done
    BY <1>3, <2>1, <2>2
  <2>4. Idle(c)'
    BY <1>1, <1>6, <2>1, <2>2, <2>3 DEF Idle, Replying
  <2>5. answered' \subseteq Message
    BY <1>1, <1>2, <2>1, <2>2, Types DEF Replying, Open
  <2>6. TypeOK'
    BY <1>3, <1>5, <1>6, <2>1, <2>3, <2>5, Types, DeviceTypesSame
  <2>7. Exchange!Answer(c)
    <3>1. [d \in Conn |-> host'[d].message] =
            [[d \in Conn |-> host[d].message] EXCEPT ![c] = NoMessage]
      BY <1>1, <2>2, <2>3
    <3>2. [d \in Conn |-> host[d].message][c] = m
      BY <1>2
    <3>3. QED
      BY <1>5, <1>7, <2>1, <2>2, <3>1, <3>2 DEF Exchange!Answer
  <2>8. QED
    BY <1>1, <1>8, <2>4, <2>6, <2>7 DEF Kept, Turn, ExchangeStep, Exchange!Next
<1>12. QED
  BY <1>10, <1>11

LEMMA DisconnectKeeps ==
  ASSUME OneHost, IInv, NEW c \in Conn, Disconnect(c)
  PROVE  Kept
<1> USE DEF IInv
<1>1. Conn = {c}
  BY DEF OneHost
<1>2. /\ host \in [Conn -> HostState] /\ host[c] \in HostState
      /\ down \in [Conn -> Seq(PacketType)] /\ up \in [Conn -> Seq(PacketType)]
      /\ started \in Nat
  BY Types
<1> DEFINE h == [host[c] EXCEPT !.phase = "idle", !.message = NoMessage,
                                !.next = 0, !.got = <<>>]
<1>3. /\ up' = [up EXCEPT ![c] = <<>>] /\ down' = [down EXCEPT ![c] = <<>>]
      /\ host' = [host EXCEPT ![c] = h]
      /\ UNCHANGED <<device, started, delivered, answered, stray>>
  BY DEF Disconnect
<1>4. <<>> \in Seq(PacketType)
  OBVIOUS
<1>5. h \in HostState /\ h.phase = "idle" /\ h.message = NoMessage
  BY <1>2, <1>4 DEF HostState
<1> HIDE DEF h
<1>6. host' \in [Conn -> HostState] /\ host'[c] = h
  BY <1>2, <1>3, <1>5
<1>7. /\ up' \in [Conn -> Seq(PacketType)] /\ up'[c] = <<>>
      /\ down' \in [Conn -> Seq(PacketType)] /\ down'[c] = <<>>
  BY <1>2, <1>3, <1>4
<1>8. ReplyInv' /\ SlotsInv' /\ DeliveredInv'
  BY <1>2, <1>3, DeviceSame
<1>9. TypeOK'
  BY <1>3, <1>6, <1>7, Types, DeviceTypesSame
<1>10. Idle(c)'
  BY <1>5, <1>6, <1>7 DEF Idle
<1>11. Exchange!GiveUp(c)
  <2>1. [d \in Conn |-> host'[d].message] =
          [[d \in Conn |-> host[d].message] EXCEPT ![c] = NoMessage]
    BY <1>1, <1>5, <1>6
  <2>2. QED
    BY <1>3, <2>1 DEF Exchange!GiveUp
<1>12. QED
  BY <1>1, <1>8, <1>9, <1>10, <1>11 DEF Kept, Turn, ExchangeStep, Exchange!Next

-----------------------------------------------------------------------------
(* The index of the reply has room for every slot.                           *)
LEMMA NoWrap == \A i \in Slot : (i + 1) % SentValues = i + 1
<1>1. ASSUME NEW i \in Slot PROVE i + 1 \in Nat /\ i + 1 < SentValues
  BY Constants DEF Slot
<1>2. \A n \in Nat, w \in Nat : n < w => n % w = n
  BY SMT
<1>3. QED
  BY <1>1, <1>2, Constants

(* The device serves a request with the fragment behind the last one sent.   *)
LEMMA ServeKeeps ==
  ASSUME OneHost, IInv, NEW c \in Conn, Asking(c), bleUsrCallback(c)
  PROVE  Kept
<1> USE DEF IInv
<1>1. Conn = {c}
  BY DEF OneHost
<1>2. PICK p, i : p = Head(up[c]) /\ i = sent_frag_idx
  OBVIOUS
<1>3. p.action = "REQUEST" /\ Tail(up[c]) = <<>>
  BY <1>2 DEF Asking, Request
<1>4. ServeRequest(p) /\ up' = [up EXCEPT ![c] = <<>>]
      /\ UNCHANGED <<host, started, answered>>
  BY <1>2, <1>3 DEF bleUsrCallback, Refuse, Store
<1>5. /\ up \in [Conn -> Seq(PacketType)] /\ down \in [Conn -> Seq(PacketType)]
      /\ out_frags \in [Slot -> [conn : Conn \union {0}, frag : PacketType]]
  BY Types, DeviceTypes
<1>6. i \in Slot /\ out_frags[i] # EmptyOut /\ i \in Nat
  <2>1. i \in 1 .. MAX_FRAGMENTS /\ out_frags[i - 1].frag.action = "MORE"
    BY <1>2, Constants DEF Asking, MoreToSend, ReplyInv
  <2>2. i - 1 \in Slot /\ i = (i - 1) + 1
    BY <2>1, Constants DEF Slot
  <2>3. QED
    BY <2>1, <2>2 DEF ReplyInv
<1>7. PICK f : f = out_frags[i].frag
  OBVIOUS
<1>8. f \in PacketType /\ f.action \in {"MORE", "DONE"} /\ out_frags[i].conn = c
  BY <1>1, <1>5, <1>6, <1>7 DEF ReplyInv
<1>9. /\ down' = [down EXCEPT ![c] = Append(@, f)]
      /\ sent_frag_idx' = i + 1
      /\ UNCHANGED <<in_frags, handler, out_frags, pkt_ids, delivered, stray>>
  <2>1. (i + 1) % SentValues = i + 1
    BY <1>6, NoWrap
  <2>2. QED
    BY <1>2, <1>4, <1>6, <1>7, <1>8, <2>1 DEF ServeRequest, bleSendNextFragment, SendTo
<1>10. down' \in [Conn -> Seq(PacketType)] /\ down'[c] = <<f>>
  <2>1. Append(down[c], f) = <<f>> /\ <<f>> \in Seq(PacketType)
    BY <1>8 DEF Asking
  <2>2. QED
    BY <1>5, <1>9, <2>1
<1>11. up' \in [Conn -> Seq(PacketType)] /\ up'[c] = <<>>
  <2>1. <<>> \in Seq(PacketType)
    OBVIOUS
  <2>2. QED
    BY <1>4, <1>5, <2>1
<1>12. ReplyInv'
  <2>1. i + 1 \in 0 .. MAX_FRAGMENTS
    BY <1>6, Constants DEF Slot
  <2>2. \A j \in Slot : j < i + 1 => j < i \/ j = i
    BY <1>6, Constants DEF Slot
  <2>3. QED
    BY <1>2, <1>6, <1>9, <2>1, <2>2 DEF ReplyInv
<1>13. SlotsInv' /\ DeliveredInv'
  BY <1>4, <1>9 DEF SlotsInv, FirstOf, DeliveredInv
<1>14. TypeOK'
  <2>1. sent_frag_idx' \in Nat
    BY <1>6, <1>9
  <2>2. /\ host' \in [Conn -> HostState] /\ started' \in 0 .. MaxMessages
        /\ delivered' \in Seq([msg : 0 .. MaxMessages, len : Nat])
        /\ answered' \subseteq Message /\ stray' \in BOOLEAN
    BY <1>4, <1>9, Types
  <2>3. /\ in_frags' \in [Slot -> [pkt_id : PktId, msg : 0 .. MaxMessages]]
        /\ handler' \in [pkt_id : PktId, recvd_len : Nat, total_len : Nat]
        /\ out_frags' \in [Slot -> [conn : Conn \union {0}, frag : PacketType]]
        /\ pkt_ids' \in PktId
    BY <1>9, DeviceTypes
  <2>4. QED
    BY <1>10, <1>11, <2>1, <2>2, <2>3, Zenon DEF TypeOK, HostState
<1>15. Replying(c)'
  <2>1. Len(down'[c]) = 1 /\ Head(down'[c]) = f
    BY <1>10
  <2>2. f.action = "MORE" => MoreToSend'
    BY <1>6, <1>7, <1>9 DEF MoreToSend
  <2>3. Open(c)' /\ host'[c].phase = "reply" /\ Exchange!Handed(host[c].message)'
    BY <1>4, <1>9 DEF Asking, Open, Exchange!Handed
  <2>4. QED
    BY <1>4, <1>8, <1>11, <2>1, <2>2, <2>3 DEF Replying
<1>16. ExchangeStep
  BY <1>4, <1>9, ExchangeSame
<1>17. QED
  BY <1>1, <1>12, <1>13, <1>14, <1>15, <1>16 DEF Kept, Turn

(* What the handler and the slots hold for the message that is coming in,    *)
(* where its fragment is not refused: the fragments before it.               *)
LEMMA InHand ==
  ASSUME IInv, NEW c \in Conn, Sending(c),
         NEW id, id = host[c].id, NEW k, k = host[c].next - 1, NEW m, m = host[c].message,
         NEW p, p = Packet(id, k, m), ~OutOfRange(p), ~Refused(p)
  PROVE  /\ k \in Slot /\ id # 0
         /\ HandlerFor(p) = [pkt_id |-> id, recvd_len |-> k * MAX_FRAG_SIZE,
                             total_len |-> m.len]
         /\ SlotsFor(p) = [i \in Slot |-> IF i < k THEN [pkt_id |-> id, msg |-> m.msg]
                                                  ELSE [pkt_id |-> 0, msg |-> 0]]
<1> USE DEF IInv
<1>1. /\ p.pkt_id = id /\ p.frag_id = k /\ p.tot_len = m.len /\ p.msg = m.msg
  BY DEF Packet
<1>2. /\ m \in Message /\ k \in Nat /\ k < TotalFragments(m.len)
      /\ TotalFragments(m.len) \in Nat
  BY Constants, Cut, SMTT(30) DEF Sending, Open
<1>3. k \in Slot
  BY <1>1, <1>2, Constants DEF OutOfRange, Slot
<1>4. SlotsFor(p)[k].pkt_id # id
  BY <1>1 DEF Refused, AlreadyMarked
<1>5. /\ in_frags \in [Slot -> [pkt_id : PktId, msg : 0 .. MaxMessages]]
      /\ handler \in [pkt_id : PktId, recvd_len : Nat, total_len : Nat]
  BY DeviceTypes
<1>6. CASE k = 0
  <2>1. NewPacket(p)
    <3>1. SUFFICES ASSUME handler.pkt_id = id PROVE FALSE
      BY <1>1 DEF NewPacket
    <3>2. in_frags[0].pkt_id # id
      BY <1>1, <1>4, <1>6, <3>1 DEF SlotsFor, NewPacket
    <3>3. PICK j \in 0 .. MAX_FRAGMENTS, n \in 0 .. MaxMessages : FirstOf(j, n)
      BY DEF SlotsInv
    <3>4. j = 0 => handler.pkt_id = 0 /\ in_frags[0].pkt_id = 0
      BY <3>3, Constants DEF FirstOf
    <3>5. j # 0 => in_frags[0].pkt_id = handler.pkt_id
      BY <3>3, Constants DEF FirstOf
    <3>6. QED
      BY <3>1, <3>2, <3>4, <3>5
  <2>2. SlotsFor(p) = EmptySlots
        /\ HandlerFor(p) = [pkt_id |-> id, recvd_len |-> 0, total_len |-> m.len]
    BY <1>1, <2>1 DEF SlotsFor, HandlerFor
  <2>3. EmptySlots = [i \in Slot |-> IF i < k THEN [pkt_id |-> id, msg |-> m.msg]
                                                ELSE [pkt_id |-> 0, msg |-> 0]]
    BY <1>6 DEF EmptySlots, Slot
  <2>4. id # 0
    BY <1>3, <1>4, <2>2 DEF EmptySlots
  <2>5. k * MAX_FRAG_SIZE = 0
    BY <1>6, Constants
  <2>6. QED
    BY <1>3, <2>2, <2>3, <2>4, <2>5
<1>7. CASE k # 0
  <2>1. Current(c, k)
    BY <1>2, <1>7 DEF Sending, Open
  <2>2. handler.pkt_id = id /\ handler.total_len = m.len /\ FirstOf(k, m.msg)
    BY <2>1 DEF Current
  <2>3. ~NewPacket(p)
    BY <1>1, <2>2 DEF NewPacket
  <2>4. SlotsFor(p) = in_frags /\ HandlerFor(p) = handler
    BY <2>3 DEF SlotsFor, HandlerFor
  <2>5. handler.recvd_len = k * MAX_FRAG_SIZE
    BY <1>2, <2>2 DEF FirstOf
  <2>6. handler = [pkt_id |-> id, recvd_len |-> k * MAX_FRAG_SIZE, total_len |-> m.len]
    BY <1>5, <2>2, <2>5
  <2>7. in_frags = [i \in Slot |-> IF i < k THEN [pkt_id |-> id, msg |-> m.msg]
                                          ELSE [pkt_id |-> 0, msg |-> 0]]
    BY <1>5, <2>2 DEF FirstOf
  <2>8. id # 0
    <3>1. in_frags[k].pkt_id = 0
      BY <1>2, <1>3, <2>7
    <3>2. QED
      BY <1>4, <2>4, <3>1
  <2>9. QED
    BY <1>3, <2>4, <2>6, <2>7, <2>8
<1>8. QED
  BY <1>6, <1>7

(* A fragment comes in, and is taken off the link.                           *)
LEMMA TakenIn ==
  ASSUME OneHost, IInv, NEW c \in Conn, Sending(c), bleUsrCallback(c)
  PROVE  \E id, k, m, p :
           /\ id = host[c].id /\ k = host[c].next - 1 /\ m = host[c].message
           /\ p = Packet(id, k, m)
           /\ id \in PktId /\ m \in Message
           /\ k \in Nat /\ k < TotalFragments(m.len) /\ TotalFragments(m.len) \in Nat
           /\ p.pkt_id = id /\ p.frag_id = k /\ p.tot_len = m.len /\ p.msg = m.msg
           /\ p.action = ActionOf(k, m.len)
           /\ up' \in [Conn -> Seq(PacketType)] /\ up'[c] = <<>>
           /\ Refuse(p) \/ Store(c, p)
           /\ UNCHANGED <<host, started, answered>>
<1> USE DEF IInv
<1>1. PICK id, k, m, p :
        /\ id = host[c].id /\ k = host[c].next - 1 /\ m = host[c].message
        /\ p = Packet(id, k, m)
  OBVIOUS
<1>2. up[c] = <<p>>
  BY <1>1 DEF Sending
<1>3. Head(up[c]) = p /\ Tail(up[c]) = <<>> /\ <<>> \in Seq(PacketType)
  BY <1>2
<1>4. host[c] \in HostState /\ up \in [Conn -> Seq(PacketType)]
  BY Types
<1>5. /\ id \in PktId /\ m \in Message
      /\ k \in Nat /\ k < TotalFragments(m.len) /\ TotalFragments(m.len) \in Nat
  <2>1. id \in PktId /\ m \in Message /\ host[c].next \in 1 .. TotalFragments(m.len)
    BY <1>1, <1>4 DEF Sending, Open, HostState
  <2>2. TotalFragments(m.len) \in Nat
    BY <2>1, Constants, Cut
  <2>3. QED
    BY <1>1, <2>1, <2>2
<1>6. /\ p.pkt_id = id /\ p.frag_id = k /\ p.tot_len = m.len /\ p.msg = m.msg
      /\ p.action = ActionOf(k, m.len)
  BY <1>1 DEF Packet
<1>7. /\ ServeRequest(p) \/ Refuse(p) \/ Store(c, p)
      /\ up' = [up EXCEPT ![c] = <<>>]
      /\ UNCHANGED <<host, started, answered>>
  BY <1>3 DEF bleUsrCallback
<1>8. ~ServeRequest(p)
  BY <1>6 DEF ServeRequest, ActionOf
<1>9. QED
  BY <1>1, <1>3, <1>4, <1>5, <1>6, <1>7, <1>8

LEMMA RefuseKeeps ==
  ASSUME OneHost, IInv, NEW c \in Conn, Sending(c), bleUsrCallback(c),
         NEW id, NEW k, NEW m, NEW p,
         id = host[c].id, k = host[c].next - 1, m = host[c].message,
         id \in PktId, m \in Message,
         k \in Nat, k < TotalFragments(m.len), TotalFragments(m.len) \in Nat,
         p.pkt_id = id, p.frag_id = k, p.tot_len = m.len,
         up' \in [Conn -> Seq(PacketType)], up'[c] = <<>>,
         UNCHANGED <<host, started, answered>>,
         Refuse(p)
  PROVE  Kept
<1> USE DEF IInv
<1>1. Conn = {c}
  BY DEF OneHost
<1>2. UNCHANGED <<out_frags, sent_frag_idx, pkt_ids, down, delivered, stray>>
  BY DEF Refuse
<1>3. /\ in_frags \in [Slot -> [pkt_id : PktId, msg : 0 .. MaxMessages]]
      /\ handler \in [pkt_id : PktId, recvd_len : Nat, total_len : Nat]
  BY DeviceTypes
<1>4. /\ SlotsInv'
      /\ in_frags' \in [Slot -> [pkt_id : PktId, msg : 0 .. MaxMessages]]
      /\ handler' \in [pkt_id : PktId, recvd_len : Nat, total_len : Nat]
  <2>1. CASE UNCHANGED <<in_frags, handler>>
    BY <1>3, <2>1 DEF SlotsInv, FirstOf
  <2>2. CASE ~UNCHANGED <<in_frags, handler>>
    <3>1. ~OutOfRange(p) /\ Refused(p) /\ in_frags' = SlotsFor(p) /\ handler' = HandlerFor(p)
      BY <2>2 DEF Refuse
    <3>2. NewPacket(p)
      BY <2>2, <3>1 DEF SlotsFor, HandlerFor
    <3>3. k = 0
      <4>1. ASSUME k > 0 PROVE FALSE
        <5>1. host[c].next > 1
          BY <4>1 DEF Sending, Open
        <5>2. handler.pkt_id = id
          BY <5>1 DEF Sending, Current
        <5>3. QED
          BY <3>2, <5>2 DEF NewPacket
      <4>2. k = 0 \/ k > 0
        <5>1. \A n \in Nat : n = 0 \/ n > 0
          OBVIOUS
        <5>2. QED
          BY <5>1, Zenon
      <4>3. QED
        BY <4>1, <4>2, Zenon
    <3>4. in_frags' = EmptySlots
          /\ handler' = [pkt_id |-> id, recvd_len |-> 0, total_len |-> m.len]
      BY <3>1, <3>2 DEF SlotsFor, HandlerFor
    <3>5. id = 0
      <4>1. AlreadyMarked(p)
        BY <3>1, <3>2, <3>3 DEF Refused, HandlerFor
      <4>2. QED
        BY <3>2, <3>3, <4>1, Constants DEF AlreadyMarked, SlotsFor, EmptySlots
    <3>6. FirstOf(0, 0)'
      <4>1. 0 * MAX_FRAG_SIZE = 0 /\ 0 # TotalFragments(m.len)
        BY <3>3, Constants
      <4>2. \A i \in Slot : ~(i < 0)
        BY Constants DEF Slot
      <4>3. QED
        BY <3>4, <3>5, <4>1, <4>2 DEF FirstOf, EmptySlots
    <3>7. 0 \in 0 .. MAX_FRAGMENTS /\ 0 \in 0 .. MaxMessages /\ m.len \in Nat
      BY Constants
    <3>8. [pkt_id |-> 0, msg |-> 0] \in [pkt_id : PktId, msg : 0 .. MaxMessages]
      BY Constants
    <3>9. in_frags' \in [Slot -> [pkt_id : PktId, msg : 0 .. MaxMessages]]
      BY <3>4, <3>8 DEF EmptySlots
    <3>10. QED
      BY <3>4, <3>6, <3>7, <3>9 DEF SlotsInv
  <2>3. QED
    BY <2>1, <2>2
<1>5. ReplyInv' /\ DeliveredInv'
  BY <1>2 DEF ReplyInv, DeliveredInv
<1>6. TypeOK'
  BY <1>2, <1>4, Zenon DEF TypeOK
<1>7. Refusing(c)'
  BY <1>2 DEF Refusing, Sending, Open
<1>8. ExchangeStep
  BY <1>2, ExchangeSame
<1>9. QED
  BY <1>1, <1>4, <1>5, <1>6, <1>7, <1>8 DEF Kept, Turn

(* All slots of one message make that message.                               *)
LEMMA Whole ==
  ASSUME NEW m \in Message, NEW slots,
         \A i \in 0 .. TotalFragments(m.len) - 1 : slots[i].msg = m.msg
  PROVE  Reassembled(slots, m.len) = m
<1> DEFINE msgs == {slots[i].msg : i \in 0 .. TotalFragments(m.len) - 1}
<1>1. TotalFragments(m.len) \in Nat \ {0}
  BY Constants, Cut
<1>2. msgs = {m.msg}
  BY <1>1
<1>3. Cardinality({m.msg}) = 1
  BY FS_Singleton
<1>4. (CHOOSE x \in {m.msg} : TRUE) = m.msg
  OBVIOUS
<1>5. Reassembled(slots, m.len) = [msg |-> m.msg, len |-> m.len]
  BY <1>2, <1>3, <1>4 DEF Reassembled
<1>6. QED
  BY <1>5 DEF Message

(* The reply bleSendFragmented has cut.                                      *)
LEMMA CutReply ==
  ASSUME IInv, NEW c \in Conn, down[c] = <<>>, NEW len \in RspLens, bleSendFragmented(c, len)
  PROVE  /\ ReplyInv'
         /\ out_frags' \in [Slot -> [conn : Conn \union {0}, frag : PacketType]]
         /\ sent_frag_idx' \in Nat /\ pkt_ids' \in PktId
         /\ down' \in [Conn -> Seq(PacketType)]
         /\ Len(down'[c]) = 1 /\ Head(down'[c]).action \in {"MORE", "DONE"}
         /\ Head(down'[c]).action = "MORE" => MoreToSend'
<1> DEFINE frag(i) == [action |-> ActionOf(i, len), pkt_id |-> NextPktId,
                       frag_id |-> i, tot_len |-> len, msg |-> 0]
<1>1. /\ len \in Nat \ {0} /\ TotalFragments(len) \in 1 .. MAX_FRAGMENTS
  BY ReplyFits
<1>2. /\ down \in [Conn -> Seq(PacketType)] /\ pkt_ids \in PktId
  BY Types, DeviceTypes DEF IInv
<1>3. NextPktId \in PktId
  BY <1>2, NextId DEF NextPktId
<1>4. ASSUME NEW i \in Nat
      PROVE  /\ frag(i) \in PacketType /\ frag(i).action \in {"MORE", "DONE"}
             /\ frag(i).action = "MORE" <=> i + 1 < TotalFragments(len)
  <2>1. ActionOf(i, len) = IF i + 1 < TotalFragments(len) THEN "MORE" ELSE "DONE"
    BY DEF ActionOf
  <2>2. QED
    BY <1>1, <1>3, <2>1, Constants DEF PacketType
<1>5. /\ pkt_ids' = NextPktId /\ sent_frag_idx' = 1
      /\ out_frags' = [i \in Slot |-> IF i < TotalFragments(len)
                                        THEN [conn |-> c, frag |-> frag(i)] ELSE EmptyOut]
      /\ down' = [down EXCEPT ![c] = Append(@, frag(0))]
  BY DEF bleSendFragmented, FirstIdx, SendTo
<1> HIDE DEF frag
<1>6. c # 0
  BY FragmentsAssumption
<1>7. \A i \in Slot : i \in Nat /\ (i + 1 < TotalFragments(len) => i + 1 \in Slot)
  BY <1>1, Constants DEF Slot
<1>8. [conn |-> 0, frag |-> NoFragment] \in [conn : Conn \union {0}, frag : PacketType]
  BY PacketTypes
<1>9. out_frags' \in [Slot -> [conn : Conn \union {0}, frag : PacketType]]
  <2>1. \A i \in Slot : [conn |-> c, frag |-> frag(i)]
                           \in [conn : Conn \union {0}, frag : PacketType]
    BY <1>4, <1>7
  <2>2. EmptyOut \in [conn : Conn \union {0}, frag : PacketType]
    BY <1>8 DEF EmptyOut
  <2>3. QED
    BY <1>5, <2>1, <2>2
<1>10. \A i \in Slot : i < TotalFragments(len) =>
         /\ out_frags'[i] # EmptyOut
         /\ out_frags'[i].conn = c /\ out_frags'[i].frag = frag(i)
  BY <1>5, <1>6 DEF EmptyOut
<1>11. \A i \in Slot : ~(i < TotalFragments(len)) =>
         out_frags'[i] = EmptyOut /\ out_frags'[i].frag.action # "MORE"
  BY <1>5 DEF EmptyOut, NoFragment
<1>12. ReplyInv'
  <2>1. sent_frag_idx' \in 0 .. MAX_FRAGMENTS
    BY <1>5, Constants
  <2>2. \A i \in Slot : i < sent_frag_idx' => out_frags'[i] # EmptyOut
    BY <1>1, <1>5, <1>10, Constants DEF Slot
  <2>3. \A i \in Slot : out_frags'[i].frag.action = "MORE" =>
          i + 1 \in Slot /\ out_frags'[i + 1] # EmptyOut
    BY <1>4, <1>7, <1>10, <1>11
  <2>4. \A i \in Slot : out_frags'[i] # EmptyOut =>
          out_frags'[i].conn \in Conn /\ out_frags'[i].frag.action \in {"MORE", "DONE"}
    BY <1>4, <1>7, <1>10, <1>11
  <2>5. QED
    BY <2>1, <2>2, <2>3, <2>4 DEF ReplyInv, EmptyOut
<1>13. 0 \in Nat /\ 0 \in Slot /\ 0 < TotalFragments(len)
  BY <1>1, Constants
<1>14. Append(down[c], frag(0)) = <<frag(0)>> /\ <<frag(0)>> \in Seq(PacketType)
  BY <1>4
<1>15. down' \in [Conn -> Seq(PacketType)] /\ down'[c] = <<frag(0)>>
  BY <1>2, <1>5, <1>14
<1>16. Len(down'[c]) = 1 /\ Head(down'[c]) = frag(0)
  BY <1>15
<1>17. frag(0).action = "MORE" => MoreToSend'
  BY <1>5, <1>10, <1>13 DEF MoreToSend
<1>18. QED
  BY <1>3, <1>4, <1>5, <1>9, <1>12, <1>13, <1>15, <1>16, <1>17

LEMMA StoreKeeps ==
  ASSUME OneHost, IInv, NEW c \in Conn, Sending(c), bleUsrCallback(c),
         NEW id, NEW k, NEW m, NEW p,
         id = host[c].id, k = host[c].next - 1, m = host[c].message,
         p = Packet(id, k, m),
         id \in PktId, m \in Message,
         k \in Nat, k < TotalFragments(m.len), TotalFragments(m.len) \in Nat,
         p.pkt_id = id, p.frag_id = k, p.tot_len = m.len, p.msg = m.msg,
         p.action = ActionOf(k, m.len),
         up' \in [Conn -> Seq(PacketType)], up'[c] = <<>>,
         UNCHANGED <<host, started, answered>>,
         Store(c, p)
  PROVE  Kept
<1>1. Conn = {c}
  BY DEF OneHost
<1>2. ~OutOfRange(p) /\ ~Refused(p)
  BY DEF Store
<1>3. /\ k \in Slot /\ id # 0
      /\ HandlerFor(p) = [pkt_id |-> id, recvd_len |-> k * MAX_FRAG_SIZE,
                          total_len |-> m.len]
      /\ SlotsFor(p) = [i \in Slot |-> IF i < k THEN [pkt_id |-> id, msg |-> m.msg]
                                               ELSE [pkt_id |-> 0, msg |-> 0]]
  <2>1. k \in Slot /\ id # 0
    BY <1>2, InHand
  <2>2. HandlerFor(p) = [pkt_id |-> id, recvd_len |-> k * MAX_FRAG_SIZE,
                          total_len |-> m.len]
    BY <1>2, InHand
  <2>3. SlotsFor(p) = [i \in Slot |-> IF i < k THEN [pkt_id |-> id, msg |-> m.msg]
                                               ELSE [pkt_id |-> 0, msg |-> 0]]
    BY <1>2, InHand
  <2>4. QED
    BY <2>1, <2>2, <2>3
<1> USE DEF IInv
<1>4. PICK h, slots, recvd :
        /\ h = HandlerFor(p)
        /\ slots = [SlotsFor(p) EXCEPT ![k] = [pkt_id |-> id, msg |-> m.msg]]
        /\ recvd = k * MAX_FRAG_SIZE + DataSize(k, m.len)
  OBVIOUS
<1>5. slots = [i \in Slot |-> IF i < k + 1 THEN [pkt_id |-> id, msg |-> m.msg]
                                          ELSE [pkt_id |-> 0, msg |-> 0]]
  <2>1. \A i \in Slot : i < k + 1 <=> i < k \/ i = k
    BY Constants DEF Slot
  <2>2. QED
    BY <1>3, <1>4, <2>1
<1>6. /\ recvd = IF k + 1 = TotalFragments(m.len) THEN m.len ELSE (k + 1) * MAX_FRAG_SIZE
      /\ recvd \in Nat /\ m.len \in Nat /\ k + 1 \in 0 .. MAX_FRAGMENTS
  <2>1. recvd = IF k + 1 = TotalFragments(m.len) THEN m.len ELSE (k + 1) * MAX_FRAG_SIZE
    BY <1>4, Constants, Cut
  <2>2. (k + 1) * MAX_FRAG_SIZE \in Nat /\ m.len \in Nat
    BY Constants, SMT
  <2>3. k + 1 \in 0 .. MAX_FRAGMENTS
    BY <1>3, Constants DEF Slot
  <2>4. QED
    BY <2>1, <2>2, <2>3
<1>7. /\ in_frags' = slots
      /\ handler' = [pkt_id |-> id, recvd_len |-> recvd, total_len |-> m.len]
  <2>1. h.recvd_len + DataSize(k, h.total_len) = recvd
    BY <1>3, <1>4
  <2>2. in_frags' = slots /\ handler' = [h EXCEPT !.recvd_len = recvd]
    BY <1>4, <2>1 DEF Store
  <2>3. QED
    BY <1>3, <1>4, <2>2
<1>8. FirstOf(k + 1, m.msg)' /\ SlotsInv' /\ Current(c, k + 1)'
  <2>1. FirstOf(k + 1, m.msg)'
    BY <1>5, <1>6, <1>7 DEF FirstOf
  <2>2. m.msg \in 0 .. MaxMessages
    BY Constants
  <2>3. QED
    BY <1>6, <1>7, <2>1, <2>2 DEF SlotsInv, Current
<1>9. /\ in_frags' \in [Slot -> [pkt_id : PktId, msg : 0 .. MaxMessages]]
      /\ handler' \in [pkt_id : PktId, recvd_len : Nat, total_len : Nat]
  <2>1. /\ [pkt_id |-> id, msg |-> m.msg] \in [pkt_id : PktId, msg : 0 .. MaxMessages]
        /\ [pkt_id |-> 0, msg |-> 0] \in [pkt_id : PktId, msg : 0 .. MaxMessages]
    BY Constants
  <2>2. QED
    BY <1>5, <1>6, <1>7, <2>1
<1>10. Open(c)' /\ host'[c].message = m /\ host'[c].next = k + 1
  BY Constants, Cut DEF Sending, Open
<1>11. down \in [Conn -> Seq(PacketType)] /\ down[c] = <<>>
  BY Types DEF Sending
<1>12. CASE p.action = "MORE"
  <2>1. /\ pkt_ids' = NextPktId
        /\ down' = [down EXCEPT ![c] = Append(@, Request(NextPktId))]
        /\ UNCHANGED <<out_frags, sent_frag_idx, delivered, stray>>
    BY <1>12 DEF Store, SendTo
  <2>2. NextPktId \in PktId
    BY NextId, DeviceTypes DEF NextPktId
  <2>3. down' \in [Conn -> Seq(PacketType)] /\ down'[c] = <<Request(NextPktId)>>
    <3>1. Append(down[c], Request(NextPktId)) = <<Request(NextPktId)>>
      BY <1>11
    <3>2. <<Request(NextPktId)>> \in Seq(PacketType)
      BY <2>2, PacketTypes
    <3>3. QED
      BY <1>11, <2>1, <3>1, <3>2
  <2>4. host'[c].phase = "send"
    <3>1. k + 1 < TotalFragments(m.len)
      BY <1>12 DEF ActionOf
    <3>2. QED
      BY <1>10, <3>1 DEF Open
  <2>5. ~Exchange!Handed(host[c].message)'
    BY <2>1 DEF Sending, Exchange!Handed
  <2>6. Asked(c)'
    BY <1>8, <1>10, <2>2, <2>3, <2>4, <2>5 DEF Asked
  <2>7. ReplyInv' /\ DeliveredInv'
    BY <2>1 DEF ReplyInv, DeliveredInv
  <2>8. TypeOK'
    BY <1>9, <2>1, <2>2, <2>3, Zenon DEF TypeOK
  <2>9. ExchangeStep
    BY <2>1, ExchangeSame
  <2>10. QED
    BY <1>1, <1>8, <2>6, <2>7, <2>8, <2>9 DEF Kept, Turn
<1>13. CASE p.action = "DONE"
  <2>1. k + 1 = TotalFragments(m.len)
    BY <1>13 DEF ActionOf
  <2>2. recvd = m.len
    BY <1>6, <2>1
  <2>3. /\ delivered' = Append(delivered, Reassembled(slots, m.len))
        /\ \/ /\ stray' = StillCollected
              /\ \E len \in RspLens : bleSendFragmented(c, len)
           \/ UNCHANGED <<out_frags, sent_frag_idx, pkt_ids, down, stray>>
    <3>1. h.total_len = m.len /\ h.recvd_len + DataSize(k, h.total_len) = recvd
      BY <1>3, <1>4
    <3>2. QED
      BY <1>4, <1>13, <2>2, <3>1 DEF Store
  <2>4. delivered' = Append(delivered, m)
    <3>1. \A i \in 0 .. TotalFragments(m.len) - 1 : i \in Slot /\ i < k + 1
      BY <1>6, <2>1, Constants DEF Slot
    <3>2. \A i \in 0 .. TotalFragments(m.len) - 1 : slots[i].msg = m.msg
      BY <1>5, <3>1
    <3>3. QED
      BY <2>3, <3>2, Whole
  <2>5. /\ ReplyInv'
        /\ out_frags' \in [Slot -> [conn : Conn \union {0}, frag : PacketType]]
        /\ sent_frag_idx' \in Nat /\ pkt_ids' \in PktId
        /\ down' \in [Conn -> Seq(PacketType)] /\ stray' \in BOOLEAN
        /\ \/ down'[c] = <<>>
           \/ /\ Len(down'[c]) = 1 /\ Head(down'[c]).action \in {"MORE", "DONE"}
              /\ Head(down'[c]).action = "MORE" => MoreToSend'
    <3>1. CASE /\ stray' = StillCollected
               /\ \E len \in RspLens : bleSendFragmented(c, len)
      <4>1. StillCollected \in BOOLEAN
        BY DEF StillCollected
      <4>2. QED
        BY <1>11, <3>1, <4>1, CutReply
    <3>2. CASE UNCHANGED <<out_frags, sent_frag_idx, pkt_ids, down, stray>>
      <4>1. ReplyInv'
        BY <3>2 DEF ReplyInv
      <4>2. QED
        BY <1>11, <3>2, <4>1, DeviceTypes, Types
    <3>3. QED
      BY <2>3, <3>1, <3>2
  <2>6. PICK M : M = [msg : 0 .. MaxMessages, len : Nat]
    OBVIOUS
  <2>7. delivered \in Seq(M) /\ m \in M
    <3>1. m \in [msg : 0 .. MaxMessages, len : Nat]
      BY Constants DEF Message
    <3>2. QED
      BY <2>6, <3>1, Types
  <2>8. /\ delivered' \in Seq(M) /\ Len(delivered') = Len(delivered) + 1
        /\ Len(delivered) \in Nat
        /\ \A j \in 1 .. Len(delivered) : delivered'[j] = delivered[j]
        /\ delivered'[Len(delivered) + 1] = m
    BY <2>4, <2>7
  <2>9. Exchange!Handed(m)'
    BY <2>8 DEF Exchange!Handed
  <2>10. DeliveredInv'
    <3>1. m.msg <= started
      BY DEF Sending, Open
    <3>2. \A j \in 1 .. Len(delivered') : j \in 1 .. Len(delivered) \/ j = Len(delivered) + 1
      BY <2>8
    <3>3. QED
      BY <2>8, <3>1, <3>2 DEF DeliveredInv
  <2>11. host'[c].phase = "reply"
    BY <1>10, <2>1 DEF Open
  <2>12. Replying(c)' \/ Refusing(c)'
    BY <1>10, <2>5, <2>9, <2>11 DEF Replying, Refusing
  <2>13. TypeOK'
    BY <1>9, <2>5, <2>6, <2>8, Zenon DEF TypeOK
  <2>14. Exchange!Deliver(c)
    <3>1. m # NoMessage
      BY Constants DEF NoMessage
    <3>2. ~Exchange!Handed(m)
      BY DEF Sending
    <3>3. [d \in Conn |-> host[d].message][c] = m
      OBVIOUS
    <3>4. QED
      BY <2>4, <3>1, <3>2, <3>3 DEF Exchange!Deliver
  <2>15. QED
    BY <1>1, <1>8, <2>5, <2>10, <2>12, <2>13, <2>14
    DEF Kept, Turn, ExchangeStep, Exchange!Next
<1>14. QED
  BY <1>12, <1>13 DEF ActionOf

LEMMA DeviceKeeps ==
  ASSUME OneHost, IInv, NEW c \in Conn, bleUsrCallback(c)
  PROVE  Kept
<1>1. Sending(c) \/ Asking(c)
  BY DEF IInv, bleUsrCallback, Turn, Idle, Sending, Asked, Asking, Replying, Refusing
<1>2. CASE Sending(c)
  BY <1>2, TakenIn, RefuseKeeps, StoreKeeps
<1>3. CASE Asking(c)
  BY <1>3, ServeKeeps
<1>4. QED
  BY <1>1, <1>2, <1>3

LEMMA StepKeeps ==
  ASSUME OneHost, AsksOnce, IInv, [Next]_vars
  PROVE  Kept
<1>1. ASSUME NEW c \in Conn, bleUsrCallback(c) PROVE Kept
  BY <1>1, DeviceKeeps
<1>2. ASSUME NEW c \in Conn, HostStart(c) PROVE Kept
  BY <1>2, StartKeeps
<1>3. ASSUME NEW c \in Conn, HostNext(c) PROVE Kept
  BY <1>3, NextKeeps
<1>4. ASSUME NEW c \in Conn, HostCollect(c) PROVE Kept
  BY <1>4, CollectKeeps
<1>5. ASSUME NEW c \in Conn, Disconnect(c) PROVE Kept
  BY <1>5, DisconnectKeeps
<1>0. ASSUME NEW c \in Conn, HostAskAgain(c) PROVE Kept
  <2>1. Len(up[c]) + Len(down[c]) < 0
    BY <1>0 DEF HostAskAgain, AsksOnce
  <2>2. up[c] \in Seq(PacketType) /\ down[c] \in Seq(PacketType)
    BY Types DEF IInv
  <2>3. Len(up[c]) \in Nat /\ Len(down[c]) \in Nat
    BY <2>2
  <2>4. \A m, n \in Nat : ~(m + n < 0)
    OBVIOUS
  <2>5. QED
    BY <2>1, <2>3, <2>4, Zenon
<1>6. CASE UNCHANGED vars
  <2>1. UNCHANGED <<device, up, down, host, started, delivered, answered, stray>>
    BY <1>6 DEF vars
  <2>2. TypeOK'
    BY <2>1 DEF IInv, TypeOK, device
  <2>3. started' \in Nat /\ started' >= started
    BY <2>1, Constants DEF IInv, TypeOK
  <2>4. ReplyInv' /\ SlotsInv' /\ DeliveredInv'
    BY <2>1, <2>3, DeviceSame
  <2>5. ASSUME NEW c \in Conn PROVE Turn(c)'
    <3>1. MoreToSend' <=> MoreToSend
      BY <2>1, <2>3, DeviceSame
    <3>2. Turn(c)
      BY DEF IInv
    <3>3. UNCHANGED <<handler, in_frags>>
      BY <2>1 DEF device
    <3>4. QED
      BY <2>1, <3>1, <3>2, <3>3 DEF Turn, Idle, Sending, Asked, Asking, Replying, Refusing,
        Open, Current, FirstOf, Exchange!Handed
  <2>6. ExchangeStep
    BY <2>1, ExchangeSame
  <2>7. QED
    BY <2>2, <2>4, <2>5, <2>6 DEF Kept, IInv
<1>7. QED
  BY <1>0, <1>1, <1>2, <1>3, <1>4, <1>5, <1>6 DEF Next

LEMMA ExchangeInit == Init => Exchange!Init
<1> SUFFICES ASSUME Init PROVE Exchange!Init
  OBVIOUS
<1>1. PICK counts \in [Conn -> Counting] : host = [c \in Conn |-> Quiet(counts[c])]
  BY DEF Init
<1>2. \A c \in Conn : host[c].message = NoMessage
  BY <1>1 DEF Quiet
<1>3. delivered = <<>> /\ answered = {}
  BY DEF Init
<1>4. QED
  BY <1>2, <1>3 DEF Exchange!Init

-----------------------------------------------------------------------------
LEMMA Invariant == ASSUME OneHost, AsksOnce PROVE Spec => []IInv
<1>1. ASSUME IInv, [Next]_vars PROVE IInv'
  BY <1>1, StepKeeps DEF Kept
<1>2. QED
  BY <1>1, InitInv, PTL DEF Spec

(* bleUsrCallback, bleSendFragmented and bleSendNextFragment implement the   *)
(* exchange of MessageExchange: a message is handed to bleServer at most     *)
(* once, whole, while the host is waiting for it, and the host has a reply   *)
(* only to a message that was handed over, wherever the connection dropped   *)
(* and whatever ids and lengths the host chose.                              *)
THEOREM ExchangeImplemented == ASSUME OneHost, AsksOnce PROVE Spec => ImplementsExchange
<1>1. ASSUME IInv, [Next]_vars PROVE [Exchange!Next]_(Exchange!vars)
  BY <1>1, StepKeeps DEF Kept, ExchangeStep
<1>2. QED
  BY <1>1, Invariant, ExchangeInit, PTL DEF Spec, ImplementsExchange, Exchange!Spec

-----------------------------------------------------------------------------
(* What the slots hold, with any number of hosts, whose packets may come in  *)
(* any order.  A fragment on its way has a message, and a host that is not   *)
(* idle has one.                                                             *)
Genuine(p) == p.action # "REQUEST" => p.msg # 0

HostInv ==
  \A c \in Conn :
    /\ \A i \in 1 .. Len(up[c]) : Genuine(up[c][i])
    /\ host[c].phase # "idle" => host[c].message \in Message

(* A slot that holds a fragment is marked with the id the handler is at, and *)
(* lies within the length the handler has.                                   *)
Full(slots) == {i \in Slot : slots[i].msg # 0}
Filled(slots, h) ==
  /\ \A i \in Full(slots) : /\ slots[i].pkt_id = h.pkt_id
                            /\ i < TotalFragments(h.total_len)
  /\ h.recvd_len = Cardinality(Full(slots)) * MAX_FRAG_SIZE
       - (IF TotalFragments(h.total_len) - 1 \in Full(slots) THEN ShortOf(h.total_len) ELSE 0)

CountInv == TypeOK /\ HostInv /\ Filled(in_frags, handler)

LEMMA FullFinite ==
  ASSUME NEW slots
  PROVE  IsFiniteSet(Full(slots)) /\ Cardinality(Full(slots)) \in Nat
<1>1. IsFiniteSet(Slot)
  BY Constants, FS_Interval DEF Slot
<1>2. IsFiniteSet(Full(slots))
  BY <1>1, FS_Subset DEF Full
<1> QED  BY <1>2, FS_CardinalityType

(* The handler and the slots as a new packet id finds them.                  *)
LEMMA EmptyFilled ==
  ASSUME NEW id, NEW len
  PROVE  Filled(EmptySlots, [pkt_id |-> id, recvd_len |-> 0, total_len |-> len])
<1>1. Full(EmptySlots) = {}
  BY DEF Full, EmptySlots
<1>2. Cardinality(Full(EmptySlots)) * MAX_FRAG_SIZE = 0
  BY <1>1, FS_EmptySet, Constants
<1> QED  BY <1>1, <1>2 DEF Filled

LEMMA CountInit == Init => CountInv
<1> SUFFICES ASSUME Init PROVE CountInv
  OBVIOUS
<1>1. TypeOK
  BY InitInv DEF IInv
<1>2. /\ in_frags = EmptySlots /\ handler = [pkt_id |-> 0, recvd_len |-> 0, total_len |-> 0]
      /\ up = [c \in Conn |-> <<>>]
  BY DEF Init
<1>5. Filled(in_frags, handler)
  BY <1>2, EmptyFilled
<1>6. HostInv
  <2>1. PICK counts \in [Conn -> Counting] : host = [c \in Conn |-> Quiet(counts[c])]
    BY DEF Init
  <2> QED  BY <1>2, <2>1 DEF HostInv, Quiet
<1> QED  BY <1>1, <1>5, <1>6 DEF CountInv

(* The hosts and the link.                                                   *)
LEMMA HostSent ==
  ASSUME TypeOK, HostInv, NEW c \in Conn, NEW id \in PktId, NEW i \in Nat,
         NEW m \in Message, HostSend(c, id, i, m)
  PROVE  /\ host' \in [Conn -> HostState] /\ up' \in [Conn -> Seq(PacketType)]
         /\ HostInv'
<1> DEFINE p == Packet(id, i, m)
           phase == IF ActionOf(i, m.len) = "MORE" THEN "send" ELSE "reply"
           h == [host[c] EXCEPT !.phase = phase, !.id = id, !.message = m,
                                !.next = i + 1, !.got = <<>>]
<1>1. host \in [Conn -> HostState] /\ up \in [Conn -> Seq(PacketType)]
  BY Types
<1>2. p \in PacketType /\ Genuine(p)
  BY PacketTypes, Constants DEF Genuine, Packet
<1>3. up' = [up EXCEPT ![c] = Append(@, p)] /\ host' = [host EXCEPT ![c] = h]
  BY DEF HostSend
<1>4. phase \in {"idle", "send", "reply"} /\ <<>> \in Seq(PacketType) /\ i + 1 \in Nat
  OBVIOUS
<1> HIDE DEF p, phase
<1>5. h \in HostState /\ h.message = m
  BY <1>1, <1>4 DEF HostState
<1> HIDE DEF h
<1>6. host' \in [Conn -> HostState] /\ up' \in [Conn -> Seq(PacketType)]
  BY <1>1, <1>2, <1>3, <1>5
<1>7. ASSUME NEW d \in Conn
      PROVE  /\ \A j \in 1 .. Len(up'[d]) : Genuine(up'[d][j])
             /\ host'[d].phase # "idle" => host'[d].message \in Message
  <2>1. CASE d # c
    <3>1. up'[d] = up[d] /\ host'[d] = host[d]
      BY <1>1, <1>3, <2>1
    <3> QED  BY <3>1 DEF HostInv
  <2>2. CASE d = c
    <3>1. up'[d] = Append(up[c], p) /\ host'[d] = h
      BY <1>1, <1>3, <2>2
    <3>2. up[c] \in Seq(PacketType)
      BY <1>1
    <3>3. \A j \in 1 .. Len(up[c]) + 1 :
            Append(up[c], p)[j] = IF j <= Len(up[c]) THEN up[c][j] ELSE p
      BY <3>2
    <3>4. Len(Append(up[c], p)) = Len(up[c]) + 1 /\ Len(up[c]) \in Nat
      BY <3>2
    <3>5. \A j \in 1 .. Len(up[c]) : Genuine(up[c][j])
      BY DEF HostInv
    <3>6. \A j \in 1 .. Len(up[c]) + 1 : Genuine(Append(up[c], p)[j])
      BY <1>2, <3>3, <3>4, <3>5
    <3> QED  BY <1>5, <3>1, <3>4, <3>6
  <2> QED  BY <2>1, <2>2
<1> QED  BY <1>6, <1>7 DEF HostInv

(* A request from the host of c that is not idle.                            *)
LEMMA HostAsked ==
  ASSUME TypeOK, HostInv, NEW c \in Conn, NEW id, up' = [up EXCEPT ![c] = Append(@, Request(id))],
         host' \in [Conn -> HostState],
         \A d \in Conn : host'[d].phase # "idle" => host'[d].message \in Message
  PROVE  HostInv'
<1>1. up \in [Conn -> Seq(PacketType)]
  BY Types
<1>2. Genuine(Request(id))
  BY DEF Genuine, Request
<1> DEFINE p == Request(id)
<1> HIDE DEF p
<1>3. ASSUME NEW d \in Conn
      PROVE  \A j \in 1 .. Len(up'[d]) : Genuine(up'[d][j])
  <2>1. CASE d # c
    <3>1. up'[d] = up[d]
      BY <1>1, <2>1
    <3> QED  BY <3>1 DEF HostInv
  <2>2. CASE d = c
    <3>1. up'[d] = Append(up[c], p)
      BY <1>1, <2>2 DEF p
    <3>2. up[c] \in Seq(PacketType)
      BY <1>1
    <3>3. \A j \in 1 .. Len(up[c]) + 1 :
            Append(up[c], p)[j] = IF j <= Len(up[c]) THEN up[c][j] ELSE p
      BY <3>2
    <3>4. Len(Append(up[c], p)) = Len(up[c]) + 1 /\ Len(up[c]) \in Nat
      BY <3>2
    <3>5. \A j \in 1 .. Len(up[c]) : Genuine(up[c][j])
      BY DEF HostInv
    <3>6. \A j \in 1 .. Len(up[c]) + 1 : Genuine(Append(up[c], p)[j])
      BY <1>2, <3>3, <3>4, <3>5 DEF p
    <3> QED  BY <3>1, <3>4, <3>6
  <2> QED  BY <2>1, <2>2
<1> QED  BY <1>3 DEF HostInv

LEMMA HostsCount ==
  ASSUME CountInv, NEW c \in Conn,
         HostStart(c) \/ HostNext(c) \/ HostCollect(c) \/ HostAskAgain(c) \/ Disconnect(c)
  PROVE  CountInv'
<1> USE DEF CountInv
<1>1. /\ host \in [Conn -> HostState] /\ started \in 0 .. MaxMessages
      /\ up \in [Conn -> Seq(PacketType)] /\ down \in [Conn -> Seq(PacketType)]
      /\ answered \subseteq Message /\ stray \in BOOLEAN
  BY Types
<1>2. UNCHANGED <<device, delivered>>
  BY DEF HostStart, HostNext, HostCollect, HostAskAgain, Disconnect
<1>3. Filled(in_frags, handler)'
  BY <1>2 DEF device, Filled, Full
<1>4. CASE HostStart(c)
  <2>1. PICK len \in HostLens,
             id \in IF host[c].counts THEN {(host[c].id + 1) % PktIds} ELSE HostIds :
          HostSend(c, id, 0, [msg |-> started + 1, len |-> len])
    BY <1>4 DEF HostStart
  <2>2. host[c].id \in PktId
    BY <1>1 DEF HostState
  <2>3. id \in PktId
    BY <2>2, NextId, Constants
  <2>4. /\ started' = started + 1 /\ started < MaxMessages
        /\ UNCHANGED <<device, down, delivered, answered, stray>>
    BY <1>4 DEF HostStart
  <2>5. started' \in 0 .. MaxMessages /\ [msg |-> started + 1, len |-> len] \in Message
    BY <1>1, <2>4, Constants DEF Message
  <2>6. /\ host' \in [Conn -> HostState] /\ up' \in [Conn -> Seq(PacketType)]
        /\ HostInv'
    BY <2>1, <2>3, <2>5, HostSent
  <2>7. TypeOK'
    BY <1>1, <2>4, <2>5, <2>6, DeviceTypesSame
  <2> QED  BY <1>3, <2>6, <2>7
<1>5. CASE HostNext(c)
  <2>1. /\ HostSend(c, host[c].id, host[c].next, host[c].message)
        /\ down' = [down EXCEPT ![c] = Tail(@)] /\ down[c] # <<>>
        /\ host[c].phase = "send" /\ UNCHANGED <<device, started, delivered, answered, stray>>
    BY <1>5 DEF HostNext
  <2>2. host[c].id \in PktId /\ host[c].next \in Nat /\ host[c].message \in Message
    BY <1>1, <2>1 DEF HostState, HostInv
  <2>3. /\ host' \in [Conn -> HostState] /\ up' \in [Conn -> Seq(PacketType)]
        /\ HostInv'
    BY <2>1, <2>2, HostSent
  <2>4. down' \in [Conn -> Seq(PacketType)]
    BY <1>1, <2>1
  <2>5. TypeOK'
    BY <1>1, <2>1, <2>3, <2>4, DeviceTypesSame
  <2> QED  BY <1>3, <2>3, <2>5
<1>6. CASE HostCollect(c)
  <2> DEFINE p == Head(down[c])
             h == [host[c] EXCEPT !.got = Append(@, p)]
  <2>1. /\ host[c].phase = "reply" /\ down[c] # <<>> /\ down' = [down EXCEPT ![c] = Tail(@)]
        /\ UNCHANGED <<device, started, delivered, stray>>
    BY <1>6 DEF HostCollect
  <2>2. p \in PacketType /\ host[c] \in HostState /\ down' \in [Conn -> Seq(PacketType)]
    BY <1>1, <2>1
  <2>3. Append(host[c].got, p) \in Seq(PacketType)
    BY <2>2 DEF HostState
  <2>4. h \in HostState /\ h.message \in Message /\ h.message = host[c].message
        /\ h.id \in PktId
    BY <2>1, <2>2, <2>3 DEF HostState, HostInv
  <2>5. CASE p.action = "MORE"
    <3>1. /\ host' = [host EXCEPT ![c] = h] /\ up' = [up EXCEPT ![c] = Append(@, Request(h.id))]
          /\ answered' = answered
      BY <1>6, <2>5 DEF HostCollect
    <3> HIDE DEF p, h
    <3>2. host' \in [Conn -> HostState]
      BY <1>1, <2>4, <3>1
    <3>3. Request(h.id) \in PacketType
      BY <2>4, PacketTypes
    <3>4. up' \in [Conn -> Seq(PacketType)]
      BY <1>1, <3>1, <3>3
    <3>5. \A d \in Conn : host'[d].phase # "idle" => host'[d].message \in Message
      BY <1>1, <2>4, <3>1 DEF HostInv
    <3>6. HostInv'
      BY <3>1, <3>2, <3>5, HostAsked
    <3>7. TypeOK'
      BY <1>1, <2>1, <2>2, <3>1, <3>2, <3>4, DeviceTypesSame
    <3> QED  BY <1>3, <3>6, <3>7
  <2>6. CASE p.action # "MORE"
    <3> DEFINE g == [h EXCEPT !.phase = "idle", !.message = NoMessage]
    <3>1. /\ host' = [host EXCEPT ![c] = g] /\ up' = up
          /\ answered' = answered \union {h.message}
      BY <1>6, <2>6 DEF HostCollect
    <3> HIDE DEF p, h
    <3>2. g \in HostState /\ g.phase = "idle"
      BY <2>4 DEF HostState
    <3> HIDE DEF g
    <3>3. host' \in [Conn -> HostState] /\ answered' \subseteq Message
      BY <1>1, <2>4, <3>1, <3>2
    <3>4. HostInv'
      BY <1>1, <3>1, <3>2 DEF HostInv
    <3>5. TypeOK'
      BY <1>1, <2>1, <2>2, <3>1, <3>3, DeviceTypesSame
    <3> QED  BY <1>3, <3>4, <3>5
  <2> QED  BY <2>5, <2>6
<1>7. CASE Disconnect(c)
  <2> DEFINE g == [host[c] EXCEPT !.phase = "idle", !.message = NoMessage,
                                  !.next = 0, !.got = <<>>]
  <2>1. /\ up' = [up EXCEPT ![c] = <<>>] /\ down' = [down EXCEPT ![c] = <<>>]
        /\ host' = [host EXCEPT ![c] = g]
        /\ UNCHANGED <<device, started, delivered, answered, stray>>
    BY <1>7 DEF Disconnect
  <2>2. host[c] \in HostState /\ <<>> \in Seq(PacketType)
    BY <1>1
  <2>3. g \in HostState /\ g.phase = "idle"
    BY <2>2 DEF HostState
  <2> HIDE DEF g
  <2>4. /\ host' \in [Conn -> HostState] /\ up' \in [Conn -> Seq(PacketType)]
        /\ down' \in [Conn -> Seq(PacketType)]
    BY <1>1, <2>1, <2>2, <2>3
  <2>5. HostInv'
    BY <1>1, <2>1, <2>3 DEF HostInv
  <2>6. TypeOK'
    BY <1>1, <2>1, <2>4, DeviceTypesSame
  <2> QED  BY <1>3, <2>5, <2>6
<1>8. CASE HostAskAgain(c)
  <2>1. /\ up' = [up EXCEPT ![c] = Append(@, Request(host[c].id))] /\ stray' = TRUE
        /\ UNCHANGED <<device, down, host, started, delivered, answered>>
    BY <1>8 DEF HostAskAgain
  <2>2. Request(host[c].id) \in PacketType
    BY <1>1, PacketTypes DEF HostState
  <2>3. up' \in [Conn -> Seq(PacketType)]
    BY <1>1, <2>1, <2>2
  <2>4. \A d \in Conn : host'[d].phase # "idle" => host'[d].message \in Message
    BY <2>1 DEF HostInv
  <2>5. HostInv'
    BY <1>1, <2>1, <2>4, HostAsked
  <2>6. TypeOK'
    BY <1>1, <2>1, <2>3, DeviceTypesSame
  <2> QED  BY <1>3, <2>5, <2>6
<1> QED  BY <1>4, <1>5, <1>6, <1>7, <1>8

(* The device takes in a packet: first, perhaps, the reset.                  *)
LEMMA ResetCount ==
  ASSUME CountInv, NEW p \in PacketType
  PROVE  /\ SlotsFor(p) \in [Slot -> [pkt_id : PktId, msg : 0 .. MaxMessages]]
         /\ HandlerFor(p) \in [pkt_id : PktId, recvd_len : Nat, total_len : Nat]
         /\ HandlerFor(p).pkt_id = p.pkt_id
         /\ Filled(SlotsFor(p), HandlerFor(p))
<1>1. /\ in_frags \in [Slot -> [pkt_id : PktId, msg : 0 .. MaxMessages]]
      /\ handler \in [pkt_id : PktId, recvd_len : Nat, total_len : Nat]
  BY DeviceTypes DEF CountInv
<1>2. p.pkt_id \in PktId /\ p.tot_len \in Nat
  BY DEF PacketType
<1>3. CASE NewPacket(p)
  <2>1. /\ SlotsFor(p) = EmptySlots
        /\ HandlerFor(p) = [pkt_id |-> p.pkt_id, recvd_len |-> 0, total_len |-> p.tot_len]
    BY <1>3 DEF SlotsFor, HandlerFor
  <2>2. EmptySlots \in [Slot -> [pkt_id : PktId, msg : 0 .. MaxMessages]]
    BY Constants DEF EmptySlots
  <2> QED  BY <1>2, <2>1, <2>2, EmptyFilled
<1>4. CASE ~NewPacket(p)
  BY <1>1, <1>4 DEF SlotsFor, HandlerFor, NewPacket, CountInv
<1> QED  BY <1>3, <1>4

(* One fragment more.                                                        *)
LEMMA OneMore ==
  ASSUME NEW slots \in [Slot -> [pkt_id : PktId, msg : 0 .. MaxMessages]],
         NEW h \in [pkt_id : PktId, recvd_len : Nat, total_len : Nat],
         Filled(slots, h), NEW k \in Slot, NEW id \in PktId, NEW m \in 1 .. MaxMessages,
         h.pkt_id = id, slots[k].pkt_id # id, k < TotalFragments(h.total_len)
  PROVE  /\ h.recvd_len + DataSize(k, h.total_len) \in Nat
         /\ Filled([slots EXCEPT ![k] = [pkt_id |-> id, msg |-> m]],
                   [h EXCEPT !.recvd_len = h.recvd_len + DataSize(k, h.total_len)])
<1> DEFINE new == [slots EXCEPT ![k] = [pkt_id |-> id, msg |-> m]]
           len == h.total_len
           last == TotalFragments(len) - 1
           n == Cardinality(Full(slots))
           s == MAX_FRAG_SIZE
           r == len % s
<1>1. k \notin Full(slots) /\ Full(new) = Full(slots) \union {k}
  BY Constants DEF Filled, Full
<1>2. n \in Nat /\ Cardinality(Full(new)) = n + 1
  BY <1>1, FullFinite, FS_AddElement
<1>3. s \in Nat \ {0} /\ len \in Nat /\ k \in Nat
  BY Constants DEF Slot
<1>4. r \in 0 .. s - 1
  BY <1>3, SMT
<1>5. DataSize(k, len) = IF r # 0 /\ k + 1 = last + 1 THEN r ELSE s
  <2>1. last + 1 = TotalFragments(len)
    <3>1. TotalFragments(len) \in Int
      <4>1. len \div s \in Int
        BY <1>3, SMT
      <4> QED  BY <4>1 DEF TotalFragments
    <3> QED  BY <3>1
  <2> QED  BY <2>1 DEF DataSize
<1>6. last \in Int
  <2>1. len \div s \in Int
    BY <1>3, SMT
  <2> QED  BY <2>1 DEF TotalFragments
<1>7. ShortOf(len) = IF r = 0 THEN 0 ELSE s - r
  BY DEF ShortOf
<1>8. h.recvd_len = n * s - (IF last \in Full(slots) THEN ShortOf(len) ELSE 0)
  BY DEF Filled
<1>9. (n + 1) * s = n * s + s /\ n * s \in Nat
  BY <1>2, <1>3, SMT
<1>10. h.recvd_len \in Nat
  OBVIOUS
<1> HIDE DEF s, r, last, n
<1>11. DataSize(k, len) \in Nat
  BY <1>3, <1>4, <1>5
<1>12. h.recvd_len + DataSize(k, len) =
         (n + 1) * s - (IF last \in Full(new) THEN ShortOf(len) ELSE 0)
  <2>1. CASE last = k
    <3>1. last \notin Full(slots) /\ last \in Full(new)
      BY <1>1, <2>1
    <3> QED  BY <1>3, <1>4, <1>5, <1>6, <1>7, <1>8, <1>9, <2>1, <3>1
  <2>2. CASE last # k
    <3>1. last \in Full(slots) <=> last \in Full(new)
      BY <1>1, <2>2
    <3>2. ShortOf(len) \in Int
      BY <1>3, <1>4, <1>7
    <3>3. DataSize(k, len) = s
      BY <1>3, <1>5, <1>6, <2>2
    <3> HIDE DEF new, len
    <3> QED  BY <1>3, <1>8, <1>9, <3>1, <3>2, <3>3
  <2> QED  BY <2>1, <2>2
<1>13. \A i \in Full(new) : new[i].pkt_id = id /\ i < TotalFragments(len)
  BY <1>1 DEF Filled, Full
<1>14. Filled(new, [h EXCEPT !.recvd_len = h.recvd_len + DataSize(k, len)])
  BY <1>2, <1>12, <1>13 DEF Filled, s, last
<1> QED  BY <1>10, <1>11, <1>14

LEMMA SendToTypes ==
  ASSUME TypeOK, NEW d, NEW p \in PacketType, SendTo(d, p)
  PROVE  down' \in [Conn -> Seq(PacketType)]
<1>1. down \in [Conn -> Seq(PacketType)]
  BY Types
<1>2. CASE d \in Conn
  <2>1. Append(down[d], p) \in Seq(PacketType)
    BY <1>1, <1>2
  <2> QED  BY <1>1, <2>1 DEF SendTo
<1>3. CASE d \notin Conn
  <2>1. down' = down
    BY <1>1, <1>3 DEF SendTo
  <2> QED  BY <1>1, <2>1
<1> QED  BY <1>2, <1>3

(* What a packet may make the device send, by type alone.                    *)
LEMMA RepliedTypes ==
  ASSUME TypeOK, NEW c \in Conn, NEW len \in RspLens, bleSendFragmented(c, len)
  PROVE  /\ out_frags' \in [Slot -> [conn : Conn \union {0}, frag : PacketType]]
         /\ sent_frag_idx' \in Nat /\ pkt_ids' \in PktId
         /\ down' \in [Conn -> Seq(PacketType)]
<1> DEFINE frag(i) == [action |-> ActionOf(i, len), pkt_id |-> NextPktId,
                       frag_id |-> i, tot_len |-> len, msg |-> 0]
<1>1. len \in Nat
  BY ReplyFits
<1>2. NextPktId \in PktId
  BY DeviceTypes, NextId DEF NextPktId
<1>3. \A i \in Nat : frag(i) \in PacketType
  BY <1>1, <1>2, Constants DEF PacketType, ActionOf
<1>4. /\ pkt_ids' = NextPktId /\ sent_frag_idx' = 1 /\ SendTo(c, frag(0))
      /\ out_frags' = [i \in Slot |-> IF i < TotalFragments(len)
                                        THEN [conn |-> c, frag |-> frag(i)] ELSE EmptyOut]
  BY DEF bleSendFragmented, FirstIdx
<1> HIDE DEF frag
<1>5. down' \in [Conn -> Seq(PacketType)]
  BY <1>3, <1>4, SendToTypes
<1>6. EmptyOut \in [conn : Conn \union {0}, frag : PacketType]
  BY PacketTypes DEF EmptyOut
<1>7. \A i \in Slot : [conn |-> c, frag |-> frag(i)] \in [conn : Conn \union {0}, frag : PacketType]
  BY <1>3 DEF Slot
<1> QED  BY <1>2, <1>4, <1>5, <1>6, <1>7

LEMMA NextSentTypes ==
  ASSUME TypeOK, bleSendNextFragment
  PROVE  sent_frag_idx' \in Nat /\ down' \in [Conn -> Seq(PacketType)]
<1>1. /\ out_frags \in [Slot -> [conn : Conn \union {0}, frag : PacketType]]
      /\ sent_frag_idx \in Nat
  BY DeviceTypes
<1>2. sent_frag_idx' \in Nat
  <2>1. SentValues \in Nat \ {0}
    BY Constants
  <2>2. \A n \in Nat, w \in Nat \ {0} : n % w \in Nat
    BY SMT
  <2> QED  BY <1>1, <2>1, <2>2 DEF bleSendNextFragment
<1>3. ASSUME down' = down
      PROVE  down' \in [Conn -> Seq(PacketType)]
  BY <1>3, Types
<1>4. ASSUME NEW c \in Conn, SendTo(c, NoFragment)
      PROVE  down' \in [Conn -> Seq(PacketType)]
  BY <1>4, PacketTypes, SendToTypes
<1>5. ASSUME sent_frag_idx \in Slot,
             SendTo(out_frags[sent_frag_idx].conn, out_frags[sent_frag_idx].frag)
      PROVE  down' \in [Conn -> Seq(PacketType)]
  <2>1. out_frags[sent_frag_idx].frag \in PacketType
    BY <1>1, <1>5
  <2> QED  BY <1>5, <2>1, SendToTypes
<1>6. down' \in [Conn -> Seq(PacketType)]
  BY <1>3, <1>4, <1>5 DEF bleSendNextFragment
<1> QED  BY <1>1, <1>2, <1>6

LEMMA ReassembledType ==
  ASSUME NEW slots \in [Slot -> [pkt_id : PktId, msg : 0 .. MaxMessages]], NEW len \in Nat,
         TotalFragments(len) <= MAX_FRAGMENTS, TotalFragments(len) \in Nat
  PROVE  Reassembled(slots, len) \in [msg : 0 .. MaxMessages, len : Nat]
<1> DEFINE msgs == {slots[i].msg : i \in 0 .. TotalFragments(len) - 1}
           m == IF Cardinality(msgs) = 1 THEN CHOOSE x \in msgs : TRUE ELSE 0
<1>1. \A i \in 0 .. TotalFragments(len) - 1 : i \in Slot
  BY Constants DEF Slot
<1>2. msgs \subseteq 0 .. MaxMessages
  BY <1>1
<1> HIDE DEF msgs
<1>3. m \in 0 .. MaxMessages
  <2>1. CASE Cardinality(msgs) = 1
    <3>1. msgs # {}
      BY <2>1, FS_EmptySet
    <3>2. (CHOOSE x \in msgs : TRUE) \in msgs
      BY <3>1
    <3> QED  BY <1>2, <2>1, <3>2
  <2>2. CASE Cardinality(msgs) # 1
    BY <2>2, Constants
  <2> QED  BY <2>1, <2>2
<1>4. Reassembled(slots, len) = [msg |-> m, len |-> len]
  BY DEF Reassembled, msgs
<1> HIDE DEF m
<1> QED  BY <1>3, <1>4

(* A count that comes to the length leaves no fragment past the slots.       *)
LEMMA WithinSlots ==
  ASSUME NEW slots, NEW h \in [pkt_id : PktId, recvd_len : Nat, total_len : Nat],
         Filled(slots, h), h.recvd_len = h.total_len
  PROVE  TotalFragments(h.total_len) \in 0 .. MAX_FRAGMENTS
<1> DEFINE len == h.total_len
           n == Cardinality(Full(slots))
           s == MAX_FRAG_SIZE
<1>1. s \in Nat \ {0} /\ MAX_FRAGMENTS \in Nat /\ len \in Nat
  BY Constants
<1>2. n \in Nat /\ n <= MAX_FRAGMENTS
  <2>1. IsFiniteSet(Slot) /\ Cardinality(Slot) = MAX_FRAGMENTS
    BY <1>1, Constants, FS_Interval DEF Slot
  <2>2. Full(slots) \subseteq Slot
    BY DEF Full
  <2> QED  BY <2>1, <2>2, FS_Subset, FullFinite
<1>3. n * s <= MAX_FRAGMENTS * s /\ n * s \in Nat /\ MAX_FRAGMENTS * s \in Nat
  <2>1. n * s <= MAX_FRAGMENTS * s
    BY <1>1, <1>2, TimesMonotonic
  <2> QED  BY <1>1, <1>2, <2>1, SMT
<1>4. ShortOf(len) \in Nat
  <2>1. len % s \in 0 .. s - 1
    BY <1>1, SMT
  <2> QED  BY <1>1, <2>1 DEF ShortOf
<1>5. len <= MAX_FRAGMENTS * s
  <2>1. len = n * s - (IF TotalFragments(len) - 1 \in Full(slots) THEN ShortOf(len) ELSE 0)
    BY DEF Filled
  <2> HIDE DEF len, n, s
  <2> QED  BY <1>1, <1>3, <1>4, <2>1
<1>6. CASE len = 0
  <2>1. 0 \div s = 0 /\ 0 % s = 0
    BY <1>1, SMT
  <2>2. TotalFragments(len) = 0
    BY <1>6, <2>1 DEF TotalFragments
  <2> QED  BY <1>1, <2>2
<1>7. CASE len # 0
  <2>1. TotalFragments(len) \in Nat
    BY <1>1, <1>7, Cut
  <2>2. MAX_FRAGMENTS < TotalFragments(len) => MAX_FRAGMENTS * s < len
    BY <1>1, <1>7, Cut
  <2> QED  BY <1>1, <1>3, <1>5, <2>1, <2>2
<1> QED  BY <1>6, <1>7

LEMMA DeviceCounts ==
  ASSUME CountInv, NEW c \in Conn, bleUsrCallback(c)
  PROVE  CountInv'
<1> USE DEF CountInv
<1> DEFINE p == Head(up[c])
<1>1. /\ up[c] # <<>> /\ up' = [up EXCEPT ![c] = Tail(@)]
      /\ ServeRequest(p) \/ Refuse(p) \/ Store(c, p)
      /\ UNCHANGED <<host, started, answered>>
  BY DEF bleUsrCallback
<1>2. /\ host \in [Conn -> HostState] /\ up \in [Conn -> Seq(PacketType)]
      /\ down \in [Conn -> Seq(PacketType)] /\ started \in 0 .. MaxMessages
      /\ delivered \in Seq([msg : 0 .. MaxMessages, len : Nat]) /\ answered \subseteq Message
      /\ stray \in BOOLEAN
  BY Types
<1>3. /\ in_frags \in [Slot -> [pkt_id : PktId, msg : 0 .. MaxMessages]]
      /\ handler \in [pkt_id : PktId, recvd_len : Nat, total_len : Nat]
      /\ out_frags \in [Slot -> [conn : Conn \union {0}, frag : PacketType]]
      /\ sent_frag_idx \in Nat /\ pkt_ids \in PktId
  BY DeviceTypes
<1>4. up[c] \in Seq(PacketType) /\ p = up[c][1] /\ 1 \in 1 .. Len(up[c])
  BY <1>1, <1>2
<1>5. p \in PacketType /\ Genuine(p) /\ up' \in [Conn -> Seq(PacketType)]
  BY <1>1, <1>2, <1>4 DEF HostInv
<1>6. HostInv'
  <2>1. ASSUME NEW d \in Conn, NEW i \in 1 .. Len(up'[d])
        PROVE  Genuine(up'[d][i])
    <3>1. CASE d = c
      <4>1. up'[d] = Tail(up[c])
        BY <1>1, <1>2, <3>1
      <4>2. PICK q : q = up[c]
        OBVIOUS
      <4>3. q \in Seq(PacketType) /\ q # <<>> /\ i \in 1 .. Len(Tail(q))
        BY <1>1, <1>4, <4>1, <4>2
      <4>4. i + 1 \in 1 .. Len(q) /\ Tail(q)[i] = q[i + 1]
        BY <4>3
      <4>5. Genuine(q[i + 1])
        BY <4>2, <4>4 DEF HostInv
      <4> QED  BY <4>1, <4>2, <4>4, <4>5
    <3>2. CASE d # c
      <4>1. up'[d] = up[d]
        BY <1>1, <1>2, <3>2
      <4> QED  BY <4>1 DEF HostInv
    <3> QED  BY <3>1, <3>2
  <2> QED  BY <1>1, <2>1 DEF HostInv
<1> HIDE DEF p
<1>7. CASE ServeRequest(p)
  <2>1. bleSendNextFragment
        /\ UNCHANGED <<in_frags, handler, out_frags, pkt_ids, delivered, stray>>
    BY <1>7 DEF ServeRequest
  <2>2. sent_frag_idx' \in Nat /\ down' \in [Conn -> Seq(PacketType)]
    BY <2>1, NextSentTypes
  <2>3. TypeOK'
    BY <1>1, <1>2, <1>3, <1>5, <2>1, <2>2, Zenon DEF TypeOK, HostState
  <2> QED  BY <1>6, <2>1, <2>3 DEF Filled, Full
<1>8. CASE Refuse(p)
  <2>1. UNCHANGED <<out_frags, sent_frag_idx, pkt_ids, down, delivered, stray>>
    BY <1>8 DEF Refuse
  <2>2. \/ UNCHANGED <<in_frags, handler>>
        \/ in_frags' = SlotsFor(p) /\ handler' = HandlerFor(p)
    BY <1>8 DEF Refuse
  <2>3. /\ in_frags' \in [Slot -> [pkt_id : PktId, msg : 0 .. MaxMessages]]
        /\ handler' \in [pkt_id : PktId, recvd_len : Nat, total_len : Nat]
        /\ Filled(in_frags', handler')
    BY <1>3, <1>5, <2>2, ResetCount
  <2>4. TypeOK'
    BY <1>1, <1>2, <1>3, <1>5, <2>1, <2>3, Zenon DEF TypeOK
  <2> QED  BY <1>6, <2>3, <2>4 DEF Filled, Full
<1>9. CASE Store(c, p)
  <2> DEFINE h == HandlerFor(p)
             k == p.frag_id
             recvd == h.recvd_len + DataSize(k, h.total_len)
             slots == [SlotsFor(p) EXCEPT ![k] = [pkt_id |-> p.pkt_id, msg |-> p.msg]]
             new == [h EXCEPT !.recvd_len = recvd]
  <2>1. /\ p.action # "REQUEST" /\ ~OutOfRange(p) /\ ~Refused(p)
        /\ in_frags' = slots /\ handler' = new
    BY <1>9 DEF Store
  <2>2. /\ k \in Nat /\ p.pkt_id \in PktId /\ p.msg \in 1 .. MaxMessages
    BY <1>5, <2>1, Constants DEF PacketType, Genuine
  <2>3. /\ SlotsFor(p) \in [Slot -> [pkt_id : PktId, msg : 0 .. MaxMessages]]
        /\ h \in [pkt_id : PktId, recvd_len : Nat, total_len : Nat]
        /\ h.pkt_id = p.pkt_id /\ Filled(SlotsFor(p), h)
    BY <1>5, ResetCount
  <2>4. k \in Slot
    BY <2>1, <2>2, Constants DEF OutOfRange, Slot
  <2>5. TotalFragments(h.total_len) \in Int
    <3>1. h.total_len \div MAX_FRAG_SIZE \in Int
      BY <2>3, Constants, SMT
    <3> QED  BY <3>1 DEF TotalFragments
  <2>6. k < TotalFragments(h.total_len) /\ SlotsFor(p)[k].pkt_id # p.pkt_id
    BY <2>1, <2>2, <2>5 DEF Refused, AlreadyMarked
  <2>7. recvd \in Nat /\ Filled(slots, new)
    BY <2>2, <2>3, <2>4, <2>6, OneMore
  <2>8. /\ slots \in [Slot -> [pkt_id : PktId, msg : 0 .. MaxMessages]]
        /\ new \in [pkt_id : PktId, recvd_len : Nat, total_len : Nat]
        /\ new.recvd_len = recvd /\ new.total_len = h.total_len
    <3>1. p.msg \in 0 .. MaxMessages
      BY <2>2
    <3> HIDE DEF h, recvd
    <3> QED  BY <2>2, <2>3, <2>7, <3>1
  <2>9. \/ /\ pkt_ids' = NextPktId /\ SendTo(c, Request(NextPktId))
           /\ UNCHANGED <<out_frags, sent_frag_idx, delivered, stray>>
        \/ UNCHANGED <<out_frags, sent_frag_idx, pkt_ids, down, delivered, stray>>
        \/ /\ recvd = h.total_len
           /\ delivered' = Append(delivered, Reassembled(slots, h.total_len))
           /\ \/ stray' = StillCollected /\ \E len \in RspLens : bleSendFragmented(c, len)
              \/ UNCHANGED <<out_frags, sent_frag_idx, pkt_ids, down, stray>>
    BY <1>9 DEF Store
  <2> HIDE DEF h, k, recvd, slots, new
  <2>10. Filled(in_frags', handler')
    BY <2>1, <2>7
  <2>11. /\ out_frags' \in [Slot -> [conn : Conn \union {0}, frag : PacketType]]
         /\ sent_frag_idx' \in Nat /\ pkt_ids' \in PktId
         /\ down' \in [Conn -> Seq(PacketType)]
         /\ delivered' \in Seq([msg : 0 .. MaxMessages, len : Nat])
         /\ stray' \in BOOLEAN
    <3>1. CASE /\ pkt_ids' = NextPktId /\ SendTo(c, Request(NextPktId))
               /\ UNCHANGED <<out_frags, sent_frag_idx, delivered, stray>>
      <4>1. NextPktId \in PktId
        BY <1>3, NextId DEF NextPktId
      <4>2. down' \in [Conn -> Seq(PacketType)]
        BY <3>1, <4>1, PacketTypes, SendToTypes
      <4> QED  BY <1>2, <1>3, <3>1, <4>1, <4>2
    <3>2. CASE UNCHANGED <<out_frags, sent_frag_idx, pkt_ids, down, delivered, stray>>
      BY <1>2, <1>3, <3>2
    <3>3. CASE /\ recvd = h.total_len
               /\ delivered' = Append(delivered, Reassembled(slots, h.total_len))
               /\ \/ stray' = StillCollected /\ \E len \in RspLens : bleSendFragmented(c, len)
                  \/ UNCHANGED <<out_frags, sent_frag_idx, pkt_ids, down, stray>>
      <4>1. TotalFragments(new.total_len) \in 0 .. MAX_FRAGMENTS
        BY <2>7, <2>8, <3>3, WithinSlots
      <4>2. Reassembled(slots, h.total_len) \in [msg : 0 .. MaxMessages, len : Nat]
        BY <2>3, <2>8, <4>1, Constants, ReassembledType
      <4>3. delivered' \in Seq([msg : 0 .. MaxMessages, len : Nat])
        BY <1>2, <3>3, <4>2, AppendProperties
      <4>4. StillCollected \in BOOLEAN
        BY DEF StillCollected
      <4>5. CASE stray' = StillCollected /\ \E len \in RspLens : bleSendFragmented(c, len)
        BY <4>3, <4>4, <4>5, RepliedTypes
      <4>6. CASE UNCHANGED <<out_frags, sent_frag_idx, pkt_ids, down, stray>>
        BY <1>2, <1>3, <4>3, <4>6
      <4> QED  BY <3>3, <4>5, <4>6
    <3> QED  BY <2>9, <3>1, <3>2, <3>3
  <2>12. TypeOK'
    BY <1>1, <1>2, <1>5, <2>1, <2>8, <2>11, Zenon DEF TypeOK, HostState
  <2> QED  BY <1>6, <2>10, <2>12 DEF Filled, Full
<1> QED  BY <1>1, <1>7, <1>8, <1>9

LEMMA CountNext == CountInv /\ [Next]_vars => CountInv'
<1> SUFFICES ASSUME CountInv, [Next]_vars PROVE CountInv'
  OBVIOUS
<1>1. ASSUME NEW c \in Conn, bleUsrCallback(c) PROVE CountInv'
  BY <1>1, DeviceCounts
<1>2. ASSUME NEW c \in Conn,
             HostStart(c) \/ HostNext(c) \/ HostCollect(c) \/ HostAskAgain(c)
             \/ Disconnect(c)
      PROVE  CountInv'
  BY <1>2, HostsCount
<1>3. CASE UNCHANGED vars
  <2>1. UNCHANGED <<in_frags, handler, out_frags, sent_frag_idx, pkt_ids, up, down, host,
                    started, delivered, answered, stray>>
    BY <1>3 DEF vars, device
  <2>2. TypeOK'
    BY <2>1, Zenon DEF CountInv, TypeOK
  <2> QED  BY <2>1, <2>2 DEF CountInv, HostInv, Filled, Full
<1> QED  BY <1>1, <1>2, <1>3 DEF Next

(* Any number of hosts, that choose their ids, lengths and moments as they   *)
(* like, leave handler.recvd_len (ble_usr.cpp:174-222) with the size of what *)
(* in_frags holds: no byte is counted twice and none is left out.            *)
THEOREM BytesCounted == Spec => []RecvdAccounts
<1>1. CountInv => RecvdAccounts
  <2>1. Stored = Full(in_frags)
    BY DEF Stored, Full
  <2> QED  BY <2>1 DEF CountInv, Filled, RecvdAccounts
<1> QED  BY CountInit, CountNext, <1>1, PTL DEF Spec

(* Every packet, id, count and slot keeps its type, with any number of hosts *)
(* at once (ble_usr.cpp:143-247): what is handed to bleServer never reaches  *)
(* past the slots.                                                           *)
THEOREM TypeCorrect == Spec => []TypeOK
<1>1. CountInv => TypeOK
  BY DEF CountInv
<1> QED  BY CountInit, CountNext, <1>1, PTL DEF Spec
-----------------------------------------------------------------------------
(* The reply, with any number of hosts.  A turn is a request on its way to   *)
(* the device, or a fragment on its way to a host that will ask for the one  *)
(* behind it.                                                                *)
AskedAt(c, i) == i \in 1 .. Len(up[c]) /\ up[c][i].action = "REQUEST"
MoreAt(c, i) == i \in 1 .. Len(down[c]) /\ down[c][i].action = "MORE"
SomeTurn == \E c \in Conn, i \in Nat : AskedAt(c, i) \/ MoreAt(c, i)

OneTurn == \A c, d \in Conn, i, j \in Nat :
  /\ AskedAt(c, i) /\ AskedAt(d, j) => c = d /\ i = j
  /\ MoreAt(c, i) /\ MoreAt(d, j) => c = d /\ i = j
  /\ ~(AskedAt(c, i) /\ MoreAt(d, j))

(* There is one turn at most, and while there is one a fragment waits.       *)
Ready == sent_frag_idx \in Slot /\ out_frags[sent_frag_idx] # EmptyOut
InTurn ==
  /\ OneTurn
  /\ SomeTurn => Ready
  /\ sent_frag_idx \in 0 .. MAX_FRAGMENTS
  /\ \A i \in Slot : i < sent_frag_idx => out_frags[i] # EmptyOut

MoreBehind == \A i \in Slot : out_frags[i].frag.action = "MORE" =>
  i + 1 \in Slot /\ out_frags[i + 1] # EmptyOut

TurnInv == CountInv /\ MoreBehind /\ (stray \/ InTurn)

(* A step that takes packets off the links, and sends none that counts.      *)
LEMMA NoNewTurn ==
  ASSUME InTurn, UNCHANGED <<out_frags, sent_frag_idx>>,
         NEW s, NEW t, \A c \in Conn : s[c] \in Nat /\ t[c] \in Nat,
         \A c \in Conn, i \in Nat : AskedAt(c, i)' => AskedAt(c, i + s[c]),
         \A c \in Conn, i \in Nat : MoreAt(c, i)' => MoreAt(c, i + t[c])
  PROVE  InTurn'
<1>1. ASSUME NEW c \in Conn, NEW d \in Conn, NEW i \in Nat, NEW j \in Nat
      PROVE  /\ AskedAt(c, i)' /\ AskedAt(d, j)' => c = d /\ i = j
             /\ MoreAt(c, i)' /\ MoreAt(d, j)' => c = d /\ i = j
             /\ ~(AskedAt(c, i)' /\ MoreAt(d, j)')
  <2>1. /\ i + s[c] \in Nat /\ j + s[d] \in Nat /\ i + t[c] \in Nat /\ j + t[d] \in Nat
        /\ s[c] \in Nat /\ s[d] \in Nat /\ t[c] \in Nat /\ t[d] \in Nat
    OBVIOUS
  <2>2. ASSUME AskedAt(c, i)', AskedAt(d, j)' PROVE c = d /\ i = j
    <3>1. AskedAt(c, i + s[c]) /\ AskedAt(d, j + s[d])
      BY <2>2
    <3>2. c = d /\ i + s[c] = j + s[d]
      BY <2>1, <3>1 DEF InTurn, OneTurn
    <3> QED  BY <2>1, <3>2
  <2>3. ASSUME MoreAt(c, i)', MoreAt(d, j)' PROVE c = d /\ i = j
    <3>1. MoreAt(c, i + t[c]) /\ MoreAt(d, j + t[d])
      BY <2>3
    <3>2. c = d /\ i + t[c] = j + t[d]
      BY <2>1, <3>1 DEF InTurn, OneTurn
    <3> QED  BY <2>1, <3>2
  <2>4. ASSUME AskedAt(c, i)', MoreAt(d, j)' PROVE FALSE
    <3>1. AskedAt(c, i + s[c]) /\ MoreAt(d, j + t[d])
      BY <2>4
    <3> QED  BY <2>1, <3>1 DEF InTurn, OneTurn
  <2> QED  BY <2>2, <2>3, <2>4
<1>2. OneTurn'
  BY <1>1 DEF OneTurn
<1>3. SomeTurn' => SomeTurn
  <2>1. ASSUME NEW c \in Conn, NEW i \in Nat, AskedAt(c, i)' \/ MoreAt(c, i)'
        PROVE  SomeTurn
    <3>1. AskedAt(c, i + s[c]) \/ MoreAt(c, i + t[c])
      BY <2>1
    <3>2. i + s[c] \in Nat /\ i + t[c] \in Nat
      OBVIOUS
    <3> QED  BY <3>1, <3>2 DEF SomeTurn
  <2> QED  BY <2>1 DEF SomeTurn
<1> QED  BY <1>2, <1>3 DEF InTurn, Ready

(* The links, by what is taken off or put on one of them.                    *)
LEMMA TakenOff ==
  ASSUME NEW q, q \in Seq(PacketType), q # <<>>, NEW i \in 1 .. Len(Tail(q))
  PROVE  i + 1 \in 1 .. Len(q) /\ Tail(q)[i] = q[i + 1]
OBVIOUS

LEMMA PutOn ==
  ASSUME NEW q, q \in Seq(PacketType), NEW p \in PacketType,
         NEW i \in 1 .. Len(Append(q, p))
  PROVE  \/ i \in 1 .. Len(q) /\ Append(q, p)[i] = q[i]
         \/ i = Len(q) + 1 /\ Append(q, p)[i] = p
OBVIOUS

LEMMA UpTaken ==
  ASSUME TypeOK, NEW c \in Conn, up[c] # <<>>, up' = [up EXCEPT ![c] = Tail(@)],
         NEW d \in Conn, NEW i \in Nat, AskedAt(d, i)'
  PROVE  AskedAt(d, i + (IF d = c THEN 1 ELSE 0))
<1>1. up \in [Conn -> Seq(PacketType)]
  BY Types
<1>2. CASE d = c
  <2>1. up'[d] = Tail(up[c])
    BY <1>1, <1>2
  <2>2. i + 1 \in 1 .. Len(up[c]) /\ Tail(up[c])[i] = up[c][i + 1]
    BY <1>1, <2>1, TakenOff DEF AskedAt
  <2> QED  BY <1>2, <2>1, <2>2 DEF AskedAt
<1>3. CASE d # c
  <2>1. up'[d] = up[d] /\ i + 0 = i
    BY <1>1, <1>3
  <2> QED  BY <1>3, <2>1 DEF AskedAt
<1> QED  BY <1>2, <1>3

LEMMA DownTaken ==
  ASSUME TypeOK, NEW c \in Conn, down[c] # <<>>, down' = [down EXCEPT ![c] = Tail(@)],
         NEW d \in Conn, NEW i \in Nat, MoreAt(d, i)'
  PROVE  MoreAt(d, i + (IF d = c THEN 1 ELSE 0))
<1>1. down \in [Conn -> Seq(PacketType)]
  BY Types
<1>2. CASE d = c
  <2>1. down'[d] = Tail(down[c])
    BY <1>1, <1>2
  <2>2. i + 1 \in 1 .. Len(down[c]) /\ Tail(down[c])[i] = down[c][i + 1]
    BY <1>1, <2>1, TakenOff DEF MoreAt
  <2> QED  BY <1>2, <2>1, <2>2 DEF MoreAt
<1>3. CASE d # c
  <2>1. down'[d] = down[d] /\ i + 0 = i
    BY <1>1, <1>3
  <2> QED  BY <1>3, <2>1 DEF MoreAt
<1> QED  BY <1>2, <1>3

LEMMA UpPut ==
  ASSUME TypeOK, NEW c \in Conn, NEW p \in PacketType, up' = [up EXCEPT ![c] = Append(@, p)],
         NEW d \in Conn, NEW i \in Nat, AskedAt(d, i)'
  PROVE  AskedAt(d, i) \/ (d = c /\ i = Len(up[c]) + 1 /\ p.action = "REQUEST")
<1>1. up \in [Conn -> Seq(PacketType)]
  BY Types
<1>2. CASE d = c
  <2>1. up'[d] = Append(up[c], p)
    BY <1>1, <1>2
  <2>2. \/ i \in 1 .. Len(up[c]) /\ Append(up[c], p)[i] = up[c][i]
        \/ i = Len(up[c]) + 1 /\ Append(up[c], p)[i] = p
    BY <1>1, <2>1, PutOn DEF AskedAt
  <2> QED  BY <1>2, <2>1, <2>2 DEF AskedAt
<1>3. CASE d # c
  <2>1. up'[d] = up[d]
    BY <1>1, <1>3
  <2> QED  BY <2>1 DEF AskedAt
<1> QED  BY <1>2, <1>3

LEMMA DownPut ==
  ASSUME TypeOK, NEW c \in Conn, NEW p \in PacketType, SendTo(c, p),
         NEW d \in Conn, NEW i \in Nat, MoreAt(d, i)'
  PROVE  MoreAt(d, i) \/ (d = c /\ i = Len(down[c]) + 1 /\ p.action = "MORE")
<1>1. down \in [Conn -> Seq(PacketType)] /\ down' = [down EXCEPT ![c] = Append(@, p)]
  BY Types DEF SendTo
<1>2. CASE d = c
  <2>1. down'[d] = Append(down[c], p)
    BY <1>1, <1>2
  <2>2. \/ i \in 1 .. Len(down[c]) /\ Append(down[c], p)[i] = down[c][i]
        \/ i = Len(down[c]) + 1 /\ Append(down[c], p)[i] = p
    BY <1>1, <2>1, PutOn DEF MoreAt
  <2> QED  BY <1>2, <2>1, <2>2 DEF MoreAt
<1>3. CASE d # c
  <2>1. down'[d] = down[d]
    BY <1>1, <1>3
  <2> QED  BY <2>1 DEF MoreAt
<1> QED  BY <1>2, <1>3
(* The device gives a request the fragment that waits.                       *)
LEMMA ServeTurn ==
  ASSUME TurnInv, NEW c \in Conn, up[c] # <<>>, up' = [up EXCEPT ![c] = Tail(@)],
         ServeRequest(Head(up[c]))
  PROVE  MoreBehind' /\ (stray' \/ InTurn')
<1> USE DEF TurnInv, CountInv
<1> DEFINE n == sent_frag_idx
           f == out_frags[n].frag
<1>1. UNCHANGED <<out_frags, stray>> /\ bleSendNextFragment /\ Head(up[c]).action = "REQUEST"
  BY DEF ServeRequest
<1>2. MoreBehind'
  BY <1>1 DEF MoreBehind
<1>3. ASSUME ~stray PROVE InTurn'
  <2>1. up[c] \in Seq(PacketType) /\ 1 \in 1 .. Len(up[c]) /\ Head(up[c]) = up[c][1]
    BY Types
  <2>2. AskedAt(c, 1)
    BY <1>1, <2>1 DEF AskedAt
  <2>3. InTurn /\ n \in Slot /\ out_frags[n] # EmptyOut
    BY <1>3, <2>2 DEF InTurn, SomeTurn, Ready
  <2>4. ASSUME NEW d \in Conn, NEW i \in Nat PROVE ~AskedAt(d, i)'
    <3>1. SUFFICES ASSUME AskedAt(d, i)' PROVE FALSE
      OBVIOUS
    <3>2. AskedAt(d, i + (IF d = c THEN 1 ELSE 0))
      BY <3>1, UpTaken
    <3>3. d = c /\ i + 1 = 1
      BY <2>2, <2>3, <3>2 DEF InTurn, OneTurn
    <3>4. i \in 1 .. Len(up'[c])
      BY <3>1, <3>3 DEF AskedAt
    <3> QED  BY <3>3, <3>4
  <2>5. ASSUME NEW d \in Conn, NEW i \in Nat PROVE ~MoreAt(d, i)
    BY <2>2, <2>3 DEF InTurn, OneTurn
  <2>6. f \in PacketType /\ SendTo(out_frags[n].conn, f)
    <3>1. out_frags \in [Slot -> [conn : Conn \union {0}, frag : PacketType]]
      BY DeviceTypes
    <3> QED  BY <1>1, <2>3, <3>1 DEF bleSendNextFragment
  <2>7. sent_frag_idx' = n + 1 /\ n + 1 \in 0 .. MAX_FRAGMENTS
    <3>1. (n + 1) % SentValues = n + 1
      BY <2>3, NoWrap
    <3>2. n + 1 \in 0 .. MAX_FRAGMENTS
      BY <2>3, Constants DEF Slot
    <3> QED  BY <1>1, <3>1, <3>2 DEF bleSendNextFragment
  <2> DEFINE e == out_frags[n].conn
  <2>8. ASSUME NEW d \in Conn, NEW i \in Nat, MoreAt(d, i)'
        PROVE  d = e /\ i = Len(down[e]) + 1 /\ f.action = "MORE"
    <3>1. CASE e \in Conn
      BY <2>5, <2>6, <2>8, <3>1, DownPut
    <3>2. CASE e \notin Conn
      <4>1. down' = down
        BY <2>6, <3>2, Types DEF SendTo
      <4>2. MoreAt(d, i)
        BY <2>8, <4>1 DEF MoreAt
      <4> QED  BY <2>5, <4>2
    <3> QED  BY <3>1, <3>2
  <2> HIDE DEF f, e
  <2>9. OneTurn'
    <3>1. ASSUME NEW c1 \in Conn, NEW d1 \in Conn, NEW i \in Nat, NEW j \in Nat
          PROVE  /\ AskedAt(c1, i)' /\ AskedAt(d1, j)' => c1 = d1 /\ i = j
                 /\ MoreAt(c1, i)' /\ MoreAt(d1, j)' => c1 = d1 /\ i = j
                 /\ ~(AskedAt(c1, i)' /\ MoreAt(d1, j)')
      BY <2>4, <2>8
    <3> QED  BY <3>1 DEF OneTurn
  <2>10. SomeTurn' => Ready'
    <3>1. ASSUME NEW d \in Conn, NEW i \in Nat, AskedAt(d, i)' \/ MoreAt(d, i)' PROVE Ready'
      <4>1. f.action = "MORE"
        BY <2>4, <2>8, <3>1
      <4>2. n + 1 \in Slot /\ out_frags[n + 1] # EmptyOut
        BY <2>3, <4>1 DEF MoreBehind, f
      <4> QED  BY <1>1, <2>7, <4>2 DEF Ready
    <3> QED  BY <3>1 DEF SomeTurn
  <2>11. \A i \in Slot : i < n + 1 => out_frags[i] # EmptyOut
    <3>1. ASSUME NEW i \in Slot, i < n + 1 PROVE out_frags[i] # EmptyOut
      <4>1. i < n \/ i = n
        BY <2>3, <3>1, Constants DEF Slot
      <4> QED  BY <2>3, <4>1 DEF InTurn
    <3> QED  BY <3>1
  <2> QED  BY <1>1, <2>7, <2>9, <2>10, <2>11 DEF InTurn
<1> QED  BY <1>1, <1>2, <1>3

(* A reply is cut while no turn is left of the one before, or stray says so. *)
LEMMA ReplyTurn ==
  ASSUME TurnInv, NEW c \in Conn, up[c] # <<>>, up' = [up EXCEPT ![c] = Tail(@)],
         stray' = StillCollected, NEW len \in RspLens, bleSendFragmented(c, len)
  PROVE  MoreBehind' /\ (stray' \/ InTurn')
<1> USE DEF TurnInv, CountInv
<1> DEFINE frag(i) == [action |-> ActionOf(i, len), pkt_id |-> NextPktId,
                       frag_id |-> i, tot_len |-> len, msg |-> 0]
<1>1. len \in Nat /\ TotalFragments(len) \in 1 .. MAX_FRAGMENTS
  BY ReplyFits
<1>2. NextPktId \in PktId
  BY DeviceTypes, NextId DEF NextPktId
<1>3. ASSUME NEW i \in Nat
      PROVE  frag(i) \in PacketType /\ (frag(i).action = "MORE" <=> i + 1 < TotalFragments(len))
  BY <1>1, <1>2, Constants DEF PacketType, ActionOf
<1>4. /\ sent_frag_idx' = 1 /\ SendTo(c, frag(0))
      /\ out_frags' = [i \in Slot |-> IF i < TotalFragments(len)
                                        THEN [conn |-> c, frag |-> frag(i)] ELSE EmptyOut]
  BY DEF bleSendFragmented, FirstIdx
<1> HIDE DEF frag
<1>5. c # 0
  BY FragmentsAssumption
<1>6. \A i \in Slot : i \in Nat /\ (i + 1 < TotalFragments(len) => i + 1 \in Slot)
  BY <1>1, Constants DEF Slot
<1>7. \A i \in Slot : i < TotalFragments(len) =>
        out_frags'[i] # EmptyOut /\ out_frags'[i].frag = frag(i)
  BY <1>4, <1>5 DEF EmptyOut
<1>8. \A i \in Slot : ~(i < TotalFragments(len)) => out_frags'[i].frag.action # "MORE"
  BY <1>4 DEF EmptyOut, NoFragment
<1>9. MoreBehind'
  BY <1>3, <1>6, <1>7, <1>8 DEF MoreBehind
<1>10. ASSUME ~StillCollected PROVE InTurn'
  <2>1. ASSUME NEW d \in Conn, NEW i \in Nat PROVE ~AskedAt(d, i)' /\ ~MoreAt(d, i)
    <3>1. up' \in [Conn -> Seq(PacketType)] /\ down \in [Conn -> Seq(PacketType)]
      BY Types
    <3>2. ~Asks(up'[d]) /\ ~AsksFor(down[d])
      BY <1>10 DEF StillCollected
    <3>3. DOMAIN up'[d] = 1 .. Len(up'[d]) /\ DOMAIN down[d] = 1 .. Len(down[d])
      BY <3>1
    <3> QED  BY <3>2, <3>3 DEF Asks, AsksFor, AskedAt, MoreAt
  <2>2. ASSUME NEW d \in Conn, NEW i \in Nat, MoreAt(d, i)'
        PROVE  d = c /\ i = Len(down[c]) + 1 /\ frag(0).action = "MORE"
    BY <1>3, <1>4, <2>1, <2>2, DownPut
  <2>3. OneTurn'
    <3>1. ASSUME NEW c1 \in Conn, NEW d1 \in Conn, NEW i \in Nat, NEW j \in Nat
          PROVE  /\ AskedAt(c1, i)' /\ AskedAt(d1, j)' => c1 = d1 /\ i = j
                 /\ MoreAt(c1, i)' /\ MoreAt(d1, j)' => c1 = d1 /\ i = j
                 /\ ~(AskedAt(c1, i)' /\ MoreAt(d1, j)')
      BY <2>1, <2>2
    <3> QED  BY <3>1 DEF OneTurn
  <2>4. SomeTurn' => Ready'
    <3>1. ASSUME NEW d \in Conn, NEW i \in Nat, AskedAt(d, i)' \/ MoreAt(d, i)' PROVE Ready'
      <4>1. frag(0).action = "MORE"
        BY <2>1, <2>2, <3>1
      <4>2. 1 < TotalFragments(len)
        BY <1>3, <4>1
      <4>3. 1 \in Slot
        BY <1>1, <4>2, Constants DEF Slot
      <4> QED  BY <1>4, <1>7, <4>2, <4>3 DEF Ready
    <3> QED  BY <3>1 DEF SomeTurn
  <2>5. 1 \in 0 .. MAX_FRAGMENTS
    BY Constants
  <2>6. \A i \in Slot : i < 1 => out_frags'[i] # EmptyOut
    BY <1>1, <1>7, Constants DEF Slot
  <2> QED  BY <1>4, <2>3, <2>4, <2>5, <2>6 DEF InTurn
<1> QED  BY <1>9, <1>10

(* The other packets leave the reply alone.                                  *)
LEMMA OtherTurn ==
  ASSUME TurnInv, NEW c \in Conn, up[c] # <<>>, up' = [up EXCEPT ![c] = Tail(@)],
         UNCHANGED <<out_frags, sent_frag_idx, stray>>,
         down' = down \/ \E id \in PktId : SendTo(c, Request(id))
  PROVE  MoreBehind' /\ (stray' \/ InTurn')
<1> USE DEF TurnInv, CountInv
<1>1. MoreBehind'
  BY DEF MoreBehind
<1>2. ASSUME NEW d \in Conn, NEW i \in Nat, MoreAt(d, i)'
      PROVE  MoreAt(d, i)
  <2>1. CASE down' = down
    BY <1>2, <2>1 DEF MoreAt
  <2>2. ASSUME NEW id \in PktId, SendTo(c, Request(id)) PROVE MoreAt(d, i)
    <3>1. Request(id) \in PacketType /\ Request(id).action # "MORE"
      BY PacketTypes DEF Request
    <3> QED  BY <1>2, <2>2, <3>1, DownPut
  <2> QED  BY <2>1, <2>2
<1>3. ASSUME ~stray PROVE InTurn'
  <2> DEFINE s == [d \in Conn |-> IF d = c THEN 1 ELSE 0]
             t == [d \in Conn |-> 0]
  <2>1. \A d \in Conn : s[d] \in Nat /\ t[d] \in Nat /\ s[d] = (IF d = c THEN 1 ELSE 0)
                        /\ t[d] = 0
    OBVIOUS
  <2> HIDE DEF s, t
  <2>2. \A d \in Conn, i \in Nat : AskedAt(d, i)' => AskedAt(d, i + s[d])
    BY <2>1, UpTaken
  <2>3. \A d \in Conn, i \in Nat : MoreAt(d, i)' => MoreAt(d, i + t[d])
    <3>1. \A i \in Nat : i + 0 = i
      OBVIOUS
    <3> QED  BY <1>2, <2>1, <3>1
  <2> QED  BY <1>3, <2>1, <2>2, <2>3, NoNewTurn
<1> QED  BY <1>1, <1>3

LEMMA DeviceTurn ==
  ASSUME TurnInv, NEW c \in Conn, bleUsrCallback(c)
  PROVE  MoreBehind' /\ (stray' \/ InTurn')
<1> DEFINE p == Head(up[c])
<1>1. /\ up[c] # <<>> /\ up' = [up EXCEPT ![c] = Tail(@)]
      /\ ServeRequest(p) \/ Refuse(p) \/ Store(c, p)
  BY DEF bleUsrCallback
<1>2. CASE ServeRequest(p)
  BY <1>1, <1>2, ServeTurn
<1>3. CASE Refuse(p)
  BY <1>1, <1>3, OtherTurn DEF Refuse
<1>4. CASE Store(c, p)
  <2>1. \/ SendTo(c, Request(NextPktId)) /\ UNCHANGED <<out_frags, sent_frag_idx, stray>>
        \/ UNCHANGED <<out_frags, sent_frag_idx, down, stray>>
        \/ stray' = StillCollected /\ \E len \in RspLens : bleSendFragmented(c, len)
    BY <1>4 DEF Store
  <2>2. NextPktId \in PktId
    BY DeviceTypes, NextId DEF NextPktId, TurnInv, CountInv
  <2> HIDE DEF p
  <2> QED  BY <1>1, <2>1, <2>2, OtherTurn, ReplyTurn
<1> QED  BY <1>1, <1>2, <1>3, <1>4
(* The hosts put fragments of messages on the links, and a request for each  *)
(* fragment that asks for one.                                               *)
LEMMA HostSentTurn ==
  ASSUME TurnInv, NEW c \in Conn, NEW id \in PktId, NEW i \in Nat, NEW m \in Message,
         HostSend(c, id, i, m), UNCHANGED <<out_frags, sent_frag_idx, stray>>,
         down' = down \/ (down[c] # <<>> /\ down' = [down EXCEPT ![c] = Tail(@)])
  PROVE  MoreBehind' /\ (stray' \/ InTurn')
<1> USE DEF TurnInv, CountInv
<1> DEFINE p == Packet(id, i, m)
<1>1. MoreBehind'
  BY DEF MoreBehind
<1>2. /\ p \in PacketType /\ p.action # "REQUEST"
      /\ up' = [up EXCEPT ![c] = Append(@, p)]
  BY PacketTypes DEF Packet, ActionOf, HostSend
<1> HIDE DEF p
<1>3. \A d \in Conn, j \in Nat : AskedAt(d, j)' => AskedAt(d, j)
  BY <1>2, UpPut
<1> DEFINE s == [d \in Conn |-> 0]
           t == [d \in Conn |-> IF down' # down /\ d = c THEN 1 ELSE 0]
<1>4. \A d \in Conn : /\ s[d] \in Nat /\ t[d] \in Nat /\ s[d] = 0
                      /\ t[d] = (IF down' # down /\ d = c THEN 1 ELSE 0)
  OBVIOUS
<1> HIDE DEF s, t
<1>5. \A j \in Nat : j + 0 = j
  OBVIOUS
<1>6. \A d \in Conn, j \in Nat : AskedAt(d, j)' => AskedAt(d, j + s[d])
  BY <1>3, <1>4, <1>5
<1>7. ASSUME NEW d \in Conn, NEW j \in Nat, MoreAt(d, j)' PROVE MoreAt(d, j + t[d])
  <2>1. CASE down' = down
    <3>1. MoreAt(d, j)
      BY <1>7, <2>1 DEF MoreAt
    <3> QED  BY <1>4, <1>5, <2>1, <3>1
  <2>2. CASE down' # down
    <3>1. MoreAt(d, j + (IF d = c THEN 1 ELSE 0))
      BY <1>7, <2>2, DownTaken
    <3>2. t[d] = (IF d = c THEN 1 ELSE 0)
      BY <1>4, <2>2
    <3> QED  BY <3>1, <3>2
  <2> QED  BY <2>1, <2>2
<1>8. ~stray => InTurn'
  BY <1>4, <1>6, <1>7, NoNewTurn
<1> QED  BY <1>1, <1>8

LEMMA CollectTurn ==
  ASSUME TurnInv, NEW c \in Conn, HostCollect(c)
  PROVE  MoreBehind' /\ (stray' \/ InTurn')
<1> USE DEF TurnInv, CountInv
<1> DEFINE p == Head(down[c])
<1>1. /\ down[c] # <<>> /\ down' = [down EXCEPT ![c] = Tail(@)]
      /\ UNCHANGED <<out_frags, sent_frag_idx, stray>> /\ host[c].phase = "reply"
      /\ IF p.action = "MORE" THEN up' = [up EXCEPT ![c] = Append(@, Request(host[c].id))]
                              ELSE up' = up
  BY DEF HostCollect, device
<1>2. MoreBehind'
  BY <1>1 DEF MoreBehind
<1>3. CASE ~stray /\ p.action = "MORE"
  <2>1. down[c] \in Seq(PacketType) /\ 1 \in 1 .. Len(down[c]) /\ p = down[c][1]
    BY <1>1, Types
  <2>2. MoreAt(c, 1) /\ InTurn
    BY <1>3, <2>1 DEF MoreAt
  <2>3. ASSUME NEW d \in Conn, NEW i \in Nat PROVE ~MoreAt(d, i)'
    <3>1. SUFFICES ASSUME MoreAt(d, i)' PROVE FALSE
      OBVIOUS
    <3>2. MoreAt(d, i + (IF d = c THEN 1 ELSE 0))
      BY <1>1, <3>1, DownTaken
    <3>3. d = c /\ i + 1 = 1
      BY <2>2, <3>2 DEF InTurn, OneTurn
    <3>4. i \in 1 .. Len(down'[c])
      BY <3>1, <3>3 DEF MoreAt
    <3> QED  BY <3>3, <3>4
  <2>4. ASSUME NEW d \in Conn, NEW i \in Nat PROVE ~AskedAt(d, i)
    BY <2>2 DEF InTurn, OneTurn
  <2>5. Request(host[c].id) \in PacketType
    BY Types, PacketTypes DEF HostState
  <2>6. ASSUME NEW d \in Conn, NEW i \in Nat, AskedAt(d, i)'
        PROVE  d = c /\ i = Len(up[c]) + 1
    BY <1>1, <1>3, <2>4, <2>5, <2>6, UpPut
  <2>7. OneTurn'
    <3>1. ASSUME NEW c1 \in Conn, NEW d1 \in Conn, NEW i \in Nat, NEW j \in Nat
          PROVE  /\ AskedAt(c1, i)' /\ AskedAt(d1, j)' => c1 = d1 /\ i = j
                 /\ MoreAt(c1, i)' /\ MoreAt(d1, j)' => c1 = d1 /\ i = j
                 /\ ~(AskedAt(c1, i)' /\ MoreAt(d1, j)')
      BY <2>3, <2>6
    <3> QED  BY <3>1 DEF OneTurn
  <2>8. Ready'
    <3>1. Ready
      BY <2>2 DEF InTurn, SomeTurn
    <3> QED  BY <1>1, <3>1 DEF Ready
  <2> QED  BY <1>1, <1>2, <2>2, <2>7, <2>8 DEF InTurn
<1>4. CASE ~stray /\ p.action # "MORE"
  <2> DEFINE s == [d \in Conn |-> 0]
             t == [d \in Conn |-> IF d = c THEN 1 ELSE 0]
  <2>1. \A d \in Conn : s[d] \in Nat /\ t[d] \in Nat /\ s[d] = 0
                        /\ t[d] = (IF d = c THEN 1 ELSE 0)
    OBVIOUS
  <2> HIDE DEF s, t
  <2>2. \A d \in Conn, j \in Nat : AskedAt(d, j)' => AskedAt(d, j + s[d])
    <3>1. \A j \in Nat : j + 0 = j
      OBVIOUS
    <3>2. up' = up
      BY <1>1, <1>4
    <3>3. \A d \in Conn, j \in Nat : AskedAt(d, j)' => AskedAt(d, j)
      BY <3>2 DEF AskedAt
    <3> QED  BY <2>1, <3>1, <3>3
  <2>3. \A d \in Conn, j \in Nat : MoreAt(d, j)' => MoreAt(d, j + t[d])
    BY <1>1, <2>1, DownTaken
  <2>4. InTurn'
    BY <1>1, <1>4, <2>1, <2>2, <2>3, NoNewTurn
  <2> QED  BY <1>2, <2>4
<1> QED  BY <1>1, <1>2, <1>3, <1>4

LEMMA DisconnectTurn ==
  ASSUME TurnInv, NEW c \in Conn, Disconnect(c)
  PROVE  MoreBehind' /\ (stray' \/ InTurn')
<1> USE DEF TurnInv, CountInv
<1>1. /\ up' = [up EXCEPT ![c] = <<>>] /\ down' = [down EXCEPT ![c] = <<>>]
      /\ UNCHANGED <<out_frags, sent_frag_idx, stray>>
  BY DEF Disconnect, device
<1>2. up \in [Conn -> Seq(PacketType)] /\ down \in [Conn -> Seq(PacketType)]
  BY Types
<1>3. MoreBehind'
  BY <1>1 DEF MoreBehind
<1> DEFINE s == [d \in Conn |-> 0]
<1>4. \A d \in Conn : s[d] \in Nat /\ s[d] = 0
  OBVIOUS
<1> HIDE DEF s
<1>5. ASSUME NEW d \in Conn, NEW j \in Nat
      PROVE  (AskedAt(d, j)' => AskedAt(d, j)) /\ (MoreAt(d, j)' => MoreAt(d, j))
  <2>1. CASE d = c
    <3>1. Len(up'[d]) = 0 /\ Len(down'[d]) = 0
      BY <1>1, <1>2, <2>1
    <3> QED  BY <3>1 DEF AskedAt, MoreAt
  <2>2. CASE d # c
    <3>1. up'[d] = up[d] /\ down'[d] = down[d]
      BY <1>1, <1>2, <2>2
    <3> QED  BY <3>1 DEF AskedAt, MoreAt
  <2> QED  BY <2>1, <2>2
<1>6. \A j \in Nat : j + 0 = j
  OBVIOUS
<1>7. /\ \A d \in Conn, j \in Nat : AskedAt(d, j)' => AskedAt(d, j + s[d])
      /\ \A d \in Conn, j \in Nat : MoreAt(d, j)' => MoreAt(d, j + s[d])
  BY <1>4, <1>5, <1>6
<1>8. ~stray => InTurn'
  BY <1>1, <1>4, <1>7, NoNewTurn
<1> QED  BY <1>1, <1>3, <1>8

LEMMA TurnNext == TurnInv /\ [Next]_vars => TurnInv'
<1> SUFFICES ASSUME TurnInv, [Next]_vars PROVE TurnInv'
  OBVIOUS
<1>1. CountInv'
  BY CountNext DEF TurnInv
<1>2. MoreBehind' /\ (stray' \/ InTurn')
  <2> USE DEF TurnInv, CountInv
  <2>1. ASSUME NEW c \in Conn, bleUsrCallback(c) PROVE MoreBehind' /\ (stray' \/ InTurn')
    BY <2>1, DeviceTurn
  <2>2. ASSUME NEW c \in Conn, HostStart(c) PROVE MoreBehind' /\ (stray' \/ InTurn')
    <3>1. PICK len \in HostLens,
               id \in IF host[c].counts THEN {(host[c].id + 1) % PktIds} ELSE HostIds :
            HostSend(c, id, 0, [msg |-> started + 1, len |-> len])
      BY <2>2 DEF HostStart
    <3>2. id \in PktId
      BY <3>1, Types, NextId, Constants DEF HostState
    <3>3. started \in 0 .. MaxMessages /\ started < MaxMessages
          /\ UNCHANGED <<out_frags, sent_frag_idx, stray, down>>
      BY <2>2, Types DEF HostStart, device
    <3>4. [msg |-> started + 1, len |-> len] \in Message
      BY <3>3, Constants DEF Message
    <3> QED  BY <3>1, <3>2, <3>3, <3>4, HostSentTurn
  <2>3. ASSUME NEW c \in Conn, HostNext(c) PROVE MoreBehind' /\ (stray' \/ InTurn')
    <3>1. /\ HostSend(c, host[c].id, host[c].next, host[c].message)
          /\ down[c] # <<>> /\ down' = [down EXCEPT ![c] = Tail(@)]
          /\ host[c].phase = "send" /\ UNCHANGED <<out_frags, sent_frag_idx, stray>>
      BY <2>3 DEF HostNext, device
    <3>2. host[c].id \in PktId /\ host[c].next \in Nat /\ host[c].message \in Message
      BY <3>1, Types DEF HostState, HostInv
    <3> QED  BY <3>1, <3>2, HostSentTurn
  <2>4. ASSUME NEW c \in Conn, HostCollect(c) PROVE MoreBehind' /\ (stray' \/ InTurn')
    BY <2>4, CollectTurn
  <2>5. ASSUME NEW c \in Conn, HostAskAgain(c) PROVE MoreBehind' /\ (stray' \/ InTurn')
    BY <2>5 DEF HostAskAgain, device, MoreBehind
  <2>6. ASSUME NEW c \in Conn, Disconnect(c) PROVE MoreBehind' /\ (stray' \/ InTurn')
    BY <2>6, DisconnectTurn
  <2>7. CASE UNCHANGED vars
    BY <2>7 DEF vars, device, MoreBehind, InTurn, OneTurn, SomeTurn, Ready, AskedAt, MoreAt
  <2> QED  BY <2>1, <2>2, <2>3, <2>4, <2>5, <2>6, <2>7 DEF Next
<1> QED  BY <1>1, <1>2 DEF TurnInv

LEMMA TurnInit == Init => TurnInv
<1> SUFFICES ASSUME Init PROVE TurnInv
  OBVIOUS
<1>1. ReplyInv
  BY InitInv DEF IInv
<1>2. up = [c \in Conn |-> <<>>] /\ down = [c \in Conn |-> <<>>]
  BY DEF Init
<1>3. \A c \in Conn, i \in Nat : ~AskedAt(c, i) /\ ~MoreAt(c, i)
  BY <1>2 DEF AskedAt, MoreAt
<1>4. InTurn
  BY <1>1, <1>3 DEF InTurn, OneTurn, SomeTurn, ReplyInv
<1> QED  BY <1>1, <1>4, CountInit DEF TurnInv, MoreBehind, ReplyInv

(* For every size and number of slots, any number of hosts that ask as often *)
(* as they like, every reply and every order of packets and disconnections,  *)
(* bleSendNextFragment (ble_usr.cpp:70-77), which checks no bound, sends     *)
(* only fragments that bleSendFragmented cut, until a host asks twice for    *)
(* one or a reply is cut while another is still collected.                   *)
THEOREM RepliesStayWithin == Spec => []SentWithinReply
<1>1. TurnInv => SentWithinReply
  BY Constants DEF TurnInv, InTurn, SentWithinReply
<1> QED  BY TurnInit, TurnNext, <1>1, PTL DEF Spec
=============================================================================
