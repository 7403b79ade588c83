------------------------------ MODULE MCPayload ------------------------------
(***************************************************************************)
(* The payload for TLC: the sleep timer, or the wallet protocol.  Of each  *)
(* other they know the supply only, so that one run checks each alone.     *)
(***************************************************************************)
EXTENDS SleepTimer

CONSTANTS Pins, MaxKeys, Messages, Layouts

VARIABLES part,
          app, private_key, pin_iv_buf, pin_key, pin_iv, behind, made, last,
          signFailed, signers

W == INSTANCE Wallet

ASSUME WalletAssumption == W!WalletConstants

timerVars == <<config_jiffies, jiffies, at, loaded, quiet, kickedInside, slept>>
walletVars == <<app, private_key, pin_iv_buf, pin_key, pin_iv, behind, made, last,
                signFailed, signers>>

SleepTimer == part = "sleep"  /\ Next   /\ UNCHANGED <<part, walletVars>>
Wallet     == part = "wallet" /\ W!Next /\ UNCHANGED <<part, timerVars>>

PayloadInit == part \in {"sleep", "wallet"} /\ Init /\ W!Init
PayloadNext == SleepTimer \/ Wallet

PayloadSpec == PayloadInit /\ [][PayloadNext]_<<part, power, timerVars, walletVars>>

-----------------------------------------------------------------------------
(* Whatever came in between, keys, failures and other PINs, every signature  *)
(* for one PIN is by one private key: the statics the handlers share carry   *)
(* nothing from one request to the next (ble_app_protocol.cpp:335-348).      *)
StableSigner == W!StableSigner

(* Between requests the one thing left of a private key or of a PIN is the   *)
(* salted hash of the PIN in pin_iv, which nothing wipes; after a failed     *)
(* signature, whose error path skips the wiping, there is more               *)
(* (ble_app_protocol.cpp:242-249, 350-357).                                  *)
ResidueOnlyAfterFailure == W!ResidueOnlyAfterFailure

(* "Encrypt the private key" (ble_app_protocol.cpp:245): what is stored is   *)
(* the private half of the public key, whole.                                *)
StoresThePrivateKey == W!StoresThePrivateKey

(* It is, unless the build lays the statics out so that hashing into pin_iv, *)
(* or clearing pin_iv_buf, runs into the private key                         *)
(* (ble_app_protocol.cpp:241-243).                                           *)
StoredKeyIsMade == W!StoredKeyIsMade

(* A reply that is no error carries what was asked for: the public key whose *)
(* private half is stored, a signature, or zeros                             *)
(* (ble_app_protocol.cpp:281-318).                                           *)
AnswersRequest == W!AnswersRequest

(* "Create the key encryption using the pin" (ble_app_protocol.cpp:235): a   *)
(* signature for the PIN the key was made with is by the key that was made.  *)
SignatureVerifies == W!SignatureVerifies

-----------------------------------------------------------------------------
(* Messages of no whole number of blocks, of one block with its pad byte at  *)
(* the boundaries, and of two blocks.                                        *)
MCMessages ==
  {[len |-> l, pad |-> p] : l \in {8, 16, 32}, p \in {0, 15, 16, 17}}

(* Every order of the four statics and of something else.  Of these only     *)
(* pin_iv and pin_iv_buf are so short that 32 bytes from one of them reach   *)
(* past it; past both, if they follow each other.                            *)
MCLayouts ==
  LET Memory == W!Static \cup {"other"}
      Short  == {"pin_iv", "pin_iv_buf"}
      Orders == {o \in [Memory -> 1 .. 5] : \A x, y \in Memory : o[x] = o[y] => x = y}
  IN  {[v \in Short |-> {w \in W!Static : /\ o[v] < o[w]
                                         /\ \A x \in Memory : o[v] < o[x] /\ o[x] < o[w]
                                                               => x \in Short}] :
         o \in Orders}
=============================================================================
