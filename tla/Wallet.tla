-------------------------------- MODULE Wallet --------------------------------
(***************************************************************************)
(* The wallet protocol of the payload: bleServer and bleSendEncrypted      *)
(* (payload/ble_server.cpp), bleRequestParse, bleProtocolHandler,          *)
(* bleWalletCreateNewKey and bleSerialize (payload/ble_app_protocol.cpp).  *)
(*                                                                         *)
(* A message is handled to its end in RadioTask, so a handler is one step. *)
(* Cryptography is ideal: decryption under another key or IV than those of *)
(* the encryption gives a value that is no key anyone made, the same one   *)
(* each time.  The link encryption is left out: a request is what bleServer*)
(* decrypts, a reply what the host decrypts.  The kick of the sleep timer  *)
(* by every message that parses is in SleepTimer.                          *)
(***************************************************************************)
EXTENDS Integers, FiniteSets

CONSTANTS
  Pins,
  MaxKeys,       (* bound: key pairs ever made                               *)
  Messages,      (* [len, pad] of decrypted messages: total and pad byte     *)
  Layouts        (* what 32 bytes written to pin_iv and to pin_iv_buf run    *)
                 (* into, as a build may arrange the statics in memory       *)

Static == {"private_key", "pin_iv_buf", "pin_key", "pin_iv"}

WalletConstants ==
  /\ "zero" \notin Pins
  /\ MaxKeys \in Nat
  /\ Messages \subseteq [len : Nat, pad : 0 .. 255]
  /\ Layouts \subseteq [{"pin_iv", "pin_iv_buf"} -> SUBSET Static]

VARIABLES
  power,
  app,           (* the current struct app_config_s                          *)
  private_key, pin_iv_buf, pin_key, pin_iv,                  (* the statics  *)
  behind,        (* the layout, a constant of the build                      *)
  made,          (* key pairs made so far                                    *)
  last,          (* the last message, and the reply to it                    *)
  signFailed,    (* history: was uECC_sign's failure the last use of a PIN?  *)
  signers        (* history: who signed for which PIN                        *)

statics == <<private_key, pin_iv_buf, pin_key, pin_iv>>
vars == <<power, app, statics, behind, made, last, signFailed, signers>>

-----------------------------------------------------------------------------
AesKey == Pins \union {"zero"}        (* SHA256 of a PIN, or zeros; also IVs *)

(* The contents of a private key buffer: zeros, the n-th key made, what an   *)
(* overrun left of it, or what decrypting it under by and iv gave.           *)
Secret == [kind : {"none", "made", "damaged", "garbled"}, n : 0 .. MaxKeys,
           by : AesKey, iv : AesKey]
Zeros == [kind |-> "none", n |-> 0, by |-> "zero", iv |-> "zero"]
MadeKey(n) == [Zeros EXCEPT !.kind = "made", !.n = n]

Cipher == [secret : Secret, key : AesKey, iv : AesKey]
Encrypt(key, iv, secret) == [secret |-> secret, key |-> key, iv |-> iv]
Decrypt(key, iv, c) ==
  IF key = c.key /\ iv = c.iv THEN c.secret
  ELSE [kind |-> "garbled", n |-> c.secret.n, by |-> key, iv |-> iv]

(* The union in struct bleResponse: a public key, a signature, or zeros.     *)
NoBody == [is |-> "zeros", n |-> 0, by |-> Zeros]
PublicKey(n) == [NoBody EXCEPT !.is = "key", !.n = n]
Signature(secret) == [NoBody EXCEPT !.is = "signature", !.by = secret]

Silent == [req |-> "NONE", rsp |-> "NONE", body |-> NoBody]

Init ==
  /\ power = "on"
  /\ app = [key_created |-> FALSE, public_key |-> 0,
            encrypted_private_key |-> Encrypt("zero", "zero", Zeros)]
  /\ private_key = Zeros
  /\ pin_iv_buf = "zero" /\ pin_key = "zero" /\ pin_iv = "zero"
  /\ behind \in Layouts
  /\ made = 0
  /\ last = Silent
  /\ signFailed = FALSE
  /\ signers = {}

-----------------------------------------------------------------------------
(* bleServer passes on a whole number of AES blocks, and takes the pad byte  *)
(* off the length, as a uint16_t; the pad byte itself stays counted.         *)
Decrypts(m) == m.len % 16 = 0
HandlerLen(m) == (m.len - m.pad) % 2^16

(* bleRequestParse needs the command only: a PIN that is not there is read   *)
(* from behind the message all the same.                                     *)
Parses(m, cmd) == HandlerLen(m) >= 1 /\ cmd \in {"KEY", "SIGN", "POWER"}

(* bleSerialize, and bleSendEncrypted: only a reply named KEY or SIGN has a  *)
(* body.  rsp.cmd is E_RSP_KEY where nothing was assigned to it.             *)
ReplyNotCleared(req, rsp, body) ==          (* bug: no memset of rsp *)
  last' = [req |-> req, rsp |-> rsp,
           body |-> IF body # NoBody THEN body ELSE last.body]
Reply(req, rsp, body) ==
  last' = [req |-> req, rsp |-> rsp,
           body |-> IF rsp \in {"KEY", "SIGN"} THEN body ELSE NoBody]

DropMessage ==         (* not a whole number of blocks: no reply *)
  /\ \E m \in Messages : ~Decrypts(m)
  /\ last' = Silent
  /\ UNCHANGED <<power, app, statics, behind, made, signFailed, signers>>

ParseError(m, cmd) ==
  /\ ~Parses(m, cmd)
  /\ Reply(cmd, "ERR", NoBody)
  /\ UNCHANGED <<power, app, statics, behind, made, signFailed, signers>>

KeyExists == app.key_created

KeyKnown ==
  /\ KeyExists
  /\ Reply("KEY", "KEY", PublicKey(app.public_key))
  /\ UNCHANGED <<power, app, statics, behind, made, signFailed, signers>>

KeyNotMade ==         (* uECC_make_key fails *)
  /\ ~KeyExists
  /\ Reply("KEY", "ERR", NoBody)
  /\ UNCHANGED <<power, app, statics, behind, made, signFailed, signers>>

(* Two calls write 32 bytes to less: bleSHA256 to the 16 of pin_iv, and      *)
(* memset to the 10 of pin_iv_buf.  Before the private key is encrypted they *)
(* may run into it, and the memset into pin_iv.                              *)
OverrunAfterWipe(secret) == Zeros          (* bug: the key wiped before its use *)
Overrun(secret) ==
  IF "private_key" \in behind["pin_iv"] \cup behind["pin_iv_buf"]
    THEN [secret EXCEPT !.kind = "damaged"] ELSE secret
IVLeft(pin) == IF "pin_iv" \in behind["pin_iv_buf"] THEN "zero" ELSE pin

(* The key for the private key is hashed from the PIN, and zeroed before use.*)
WalletKey(pin) == "zero"

NotWiped == MadeKey(made + 1)                   (* bug: the last memset gone *)
Wiped == Zeros

bleWalletCreateNewKey(pin) ==
  /\ ~KeyExists
  /\ made < MaxKeys
  /\ made' = made + 1
  /\ app' = [key_created |-> TRUE, public_key |-> made + 1,
             encrypted_private_key |->
               Encrypt(WalletKey(pin), IVLeft(pin), Overrun(MadeKey(made + 1)))]
  /\ private_key' = Wiped
  /\ pin_key' = "zero" /\ pin_iv_buf' = "zero" /\ pin_iv' = IVLeft(pin)
  /\ signFailed' = FALSE
  /\ Reply("KEY", "KEY", PublicKey(app'.public_key))
  /\ UNCHANGED <<power, behind, signers>>

SignWithoutKey ==
  /\ ~KeyExists
  /\ Reply("SIGN", "ERR", NoBody)
  /\ UNCHANGED <<power, app, statics, behind, made, signFailed, signers>>

SigningIVOfLast(pin) == pin_iv                   (* bug: used before it is computed *)
SigningIV(pin) == pin

(* Where bleSHA256 runs over pin_iv into pin_key or pin_iv_buf, it leaves    *)
(* there another function of the PIN: pin stands for either.  The private    *)
(* key is decrypted after it.                                                *)
Sign(pin) ==
  LET secret == Decrypt(pin, SigningIV(pin), app.encrypted_private_key)
  IN  /\ KeyExists
      /\ \/ /\ private_key' = Zeros          (* signed, and all but pin_iv wiped *)
            /\ pin_key' = "zero" /\ pin_iv_buf' = "zero" /\ pin_iv' = IVLeft(pin)
            /\ signFailed' = FALSE
            /\ signers' = signers \union {[pin |-> pin, by |-> secret]}
            /\ Reply("SIGN", "KEY", Signature(secret))
         \/ /\ private_key' = secret         (* uECC_sign fails: nothing wiped *)
            /\ pin_key' = pin /\ pin_iv_buf' = pin /\ pin_iv' = pin
            /\ signFailed' = TRUE
            /\ Reply("SIGN", "ERR", NoBody)
            /\ UNCHANGED signers
      /\ UNCHANGED <<power, app, behind, made>>

(* bleDeepSleep cuts the supply, or, where it stays, returns and the reply   *)
(* is sent.                                                                  *)
Power ==
  /\ \/ power' = "off" /\ last' = Silent
     \/ power' = power /\ Reply("POWER", "KEY", NoBody)
  /\ UNCHANGED <<app, statics, behind, made, signFailed, signers>>

bleProtocolHandler(cmd, pin) ==
  \/ cmd = "KEY" /\ (KeyKnown \/ KeyNotMade \/ bleWalletCreateNewKey(pin))
  \/ cmd = "SIGN" /\ (SignWithoutKey \/ Sign(pin))
  \/ cmd = "POWER" /\ Power

HandleMessage ==
  \E m \in {x \in Messages : Decrypts(x)}, cmd \in {"KEY", "SIGN", "POWER", "OTHER"} :
    \/ ParseError(m, cmd)
    \/ Parses(m, cmd) /\ \E pin \in Pins : bleProtocolHandler(cmd, pin)

Next == power = "on" /\ (DropMessage \/ HandleMessage)
Spec == Init /\ [][Next]_vars

-----------------------------------------------------------------------------
TypeOK ==
  /\ power \in {"on", "off"}
  /\ app \in [key_created : BOOLEAN, public_key : 0 .. MaxKeys,
              encrypted_private_key : Cipher]
  /\ private_key \in Secret
  /\ pin_iv_buf \in AesKey /\ pin_key \in AesKey /\ pin_iv \in AesKey
  /\ behind \in Layouts
  /\ made \in 0 .. MaxKeys
  /\ last \in [req : {"NONE", "KEY", "SIGN", "POWER", "OTHER"},
               rsp : {"NONE", "KEY", "ERR"},
               body : [is : {"zeros", "key", "signature"}, n : 0 .. MaxKeys,
                       by : Secret]]
  /\ signFailed \in BOOLEAN
  /\ signers \subseteq [pin : Pins, by : Secret]

(* Whatever came in between, keys, failures and other PINs, every signature  *)
(* for one PIN is by one private key: the statics the handlers share carry   *)
(* nothing from one request to the next (ble_app_protocol.cpp:335-348).      *)
StableSigner == \A s, t \in signers : s.pin = t.pin => s.by = t.by

(* What is not zero between requests, of the four buffers.                   *)
Residue ==
  {v \in Static : \/ v = "private_key" /\ private_key # Zeros
                  \/ v = "pin_key" /\ pin_key # "zero"
                  \/ v = "pin_iv_buf" /\ pin_iv_buf # "zero"
                  \/ v = "pin_iv" /\ pin_iv # "zero"}

(* Between requests the one thing left of a private key or of a PIN is the   *)
(* salted hash of the PIN in pin_iv, which nothing wipes; after a failed     *)
(* signature, whose error path skips the wiping, there is more               *)
(* (ble_app_protocol.cpp:242-249, 350-357).                                  *)
ResidueOnlyAfterFailure == signFailed \/ Residue \subseteq {"pin_iv"}

(* "Encrypt the private key" (ble_app_protocol.cpp:245): what is stored is   *)
(* the private half of the public key, whole.                                *)
StoresThePrivateKey ==
  KeyExists => app.encrypted_private_key.secret = MadeKey(app.public_key)

(* It is, unless the build lays the statics out so that hashing into pin_iv, *)
(* or clearing pin_iv_buf, runs into the private key.                        *)
StoredKeyIsMade ==
  "private_key" \notin behind["pin_iv"] \cup behind["pin_iv_buf"] => StoresThePrivateKey

(* A reply that is no error carries what was asked for, whatever came before *)
(* and whatever command it is named with: the public key whose private half  *)
(* is stored, a signature, or zeros (ble_app_protocol.cpp:281-318).          *)
AnswersRequest ==
  last.rsp = "KEY" =>
    \/ /\ last.req = "KEY"
       /\ last.body = PublicKey(app.public_key)
       /\ last.body.n = app.encrypted_private_key.secret.n
    \/ last.req = "SIGN" /\ last.body.is = "signature"
    \/ last.req = "POWER" /\ last.body = NoBody

(* "Create the key encryption using the pin" (ble_app_protocol.cpp:235): a   *)
(* signature for the PIN the key was made with is by the key that was made.  *)
SignatureVerifies ==
  \A s \in signers : s.pin = app.encrypted_private_key.iv => s.by.kind = "made"
=============================================================================
