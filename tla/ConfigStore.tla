----------------------------- MODULE ConfigStore -----------------------------
(***************************************************************************)
(* The configuration store of the wallet payload: three RAM banks          *)
(* (payload/ble_config.cpp), the emulated EEPROM in a flash page           *)
(* (libraries/EEPROM/src/EEPROM.cpp), the low-priority ConfigTask that     *)
(* writes the flush bank to flash (payload/config_task.c), and the         *)
(* handlers of the high-priority RadioTask that change the configuration   *)
(* (bleServerInit, and the E_REQ_KEY path of bleProtocolHandler).          *)
(*                                                                         *)
(* FreeRTOS runs RadioTask (priority 3) to completion before ConfigTask    *)
(* (priority 2) continues, so a handler of RadioTask is one step, and the  *)
(* copy, the erase and the program of writeBlockToEEPROM are separate      *)
(* steps between which a handler may run.  Power may go at any step, inside *)
(* the programming of the page too: no critical section is taken there     *)
(* (EEPROM.cpp:110-119), and RadioTask clears the power pin on E_REQ_POWER. *)
(***************************************************************************)
EXTENDS Integers, Sequences

CONSTANT MaxGenerated   (* bound: passwords and keys generated in a behaviour *)

ASSUME ConstAssumption == MaxGenerated \in Nat

VARIABLES
  power,            (* "off"; "boot": setup_task ran; "on": gp_setup ran too *)
  bank,             (* conn_config[NUM_OF_BANKS]                             *)
  flush_bank,
  modifiable_bank,
  generated,        (* how many passwords and keys were ever generated       *)
  task,             (* where ConfigTask stands in writeBlockToEEPROM         *)
  source,           (* the bank its dataToWrite argument points into         *)
  flashContent,     (* its SRAM copy of the page                             *)
  done,             (* fields copied, or programmed, so far                  *)
  flash,            (* the page itself: all that survives a power loss       *)
  erasedBool,       (* does this build take a bool byte of 0xFF as true?     *)
  committed,        (* history: the configuration last loaded or flushed     *)
  versions,         (* history: the configurations of this session, in order *)
  replied,          (* history: public keys told to the host in this session *)
  cutOff            (* history: marks programmed without all of their data   *)

ram   == <<bank, flush_bank, modifiable_bank>>
writer == <<task, source, flashContent, done>>
history == <<committed, versions, replied>>
fixed == <<erasedBool, cutOff>>
vars  == <<power, ram, generated, writer, flash, history, fixed>>

-----------------------------------------------------------------------------
(* struct conn_config_s, its fields in memory order.  A field is Erased, or  *)
(* the number of the password or key it was generated with (for the two      *)
(* flags: Set).  aes_iv is always zero and is left out.                      *)

LayoutFlagsLast ==              (* bug: the struct reordered, flags after data *)
  <<"password", "aes_key", "configured",
    "encrypted_private_key", "public_key", "key_created">>
Layout == <<"configured", "password", "aes_key",
            "key_created", "encrypted_private_key", "public_key">>
NumFields == 6
Field  == {"configured", "password", "aes_key",
           "key_created", "encrypted_private_key", "public_key"}

Erased == 0      (* every byte 0xFF, what an erased page reads as *)
Set    == 1      (* CONN_CONFIGURED_MAGIC, or true                *)
Half   == -1     (* some words programmed and the others erased   *)
Config == [Field -> Nat \cup {Half}]
Blank  == [f \in Field |-> Erased]

(* A mark is a word or less and programmed at once; its data is not.         *)
Mark == {"configured", "key_created"}
DataOf(m) == IF m = "configured" THEN {"password", "aes_key"}
                                 ELSE {"encrypted_private_key", "public_key"}

(* Bugs: the guard forgotten, and the wrong flag tested. *)
KeyNeverCreated(c) == FALSE
KeyCreatedIfConfigured(c) == c["configured"] = Set

(* if (app_config->key_created != true): on an erased byte the comparison is *)
(* of a bool that is neither 0 nor 1, and the build decides.                 *)
KeyCreated(c) == IF c["key_created"] = Erased THEN erasedBool ELSE TRUE

NUM_OF_BANKS == 3
Bank == 0 .. NUM_OF_BANKS - 1
NEXT_BANK(b) == (b + 1) % NUM_OF_BANKS

-----------------------------------------------------------------------------
Init ==
  /\ power = "off"
  /\ bank = [b \in Bank |-> Blank]
  /\ flush_bank = 0
  /\ modifiable_bank = 1
  /\ generated = 0
  /\ task = "idle"
  /\ source = 0
  /\ flashContent = Blank
  /\ done = 0
  /\ flash = Blank
  /\ erasedBool \in BOOLEAN
  /\ committed = Blank
  /\ versions = <<>>
  /\ replied = {}
  /\ cutOff = {}

(* setup_task: the statics of ble_config.cpp get their initial values and    *)
(* bleConfigInit loads every bank from the page.                             *)
bleConfigInit ==
  /\ power = "off"
  /\ power' = "boot"
  /\ bank' = [b \in Bank |-> flash]
  /\ committed' = flash
  /\ versions' = <<flash>>
  /\ UNCHANGED <<flush_bank, modifiable_bank, generated, writer, flash, replied, fixed>>

(* The two memcpy of bleFlushConfig: the other banks get what bank fl holds. *)
CopiedToNextOnly(b, fl) ==      (* bug: "Fix the last one too" forgotten *)
  [b EXCEPT ![NEXT_BANK(fl)] = b[fl]]
CopiedToOthers(b, fl) ==
  [b EXCEPT ![NEXT_BANK(fl)] = b[fl], ![NEXT_BANK(NEXT_BANK(fl))] = b[fl]]

(* bleFlushConfig, called by a handler that has left the banks as b.  (The   *)
(* detour of modifiable_bank through PREV_BANK is overwritten before any     *)
(* other task can run.)                                                      *)
bleFlushConfig(b) ==
  LET fl == NEXT_BANK(flush_bank)
  IN  /\ flush_bank' = fl
      /\ modifiable_bank' = NEXT_BANK(fl)
      /\ bank' = CopiedToOthers(b, fl)
      /\ committed' = b[fl]
      /\ versions' = Append(versions, b[fl])

(* The edits of the two handlers to the configuration they flush.            *)
Configured(c, n) ==
  [c EXCEPT !["password"] = n, !["aes_key"] = n, !["configured"] = Set]
WithKey(c, n) ==
  [c EXCEPT !["public_key"] = n, !["encrypted_private_key"] = n,
            !["key_created"] = Set]

(* bleServerInit: a device without a configuration invents its password and  *)
(* link key, in the modifiable bank, and flushes them.                       *)
bleServerInit ==
  /\ power = "boot"
  /\ power' = "on"
  /\ IF bank[modifiable_bank]["configured"] = Set
       THEN UNCHANGED <<ram, generated, committed, versions>>
       ELSE /\ generated < MaxGenerated
            /\ generated' = generated + 1
            /\ bleFlushConfig([bank EXCEPT ![modifiable_bank] =
                                              Configured(@, generated + 1)])
  /\ UNCHANGED <<writer, flash, replied, fixed>>

(* E_REQ_KEY when the wallet has a key: the reply carries it.                *)
ReplyKnownKey ==
  /\ power = "on"
  /\ KeyCreated(bank[modifiable_bank])
  /\ replied' = replied \union {bank[modifiable_bank]["public_key"]}
  /\ UNCHANGED <<power, ram, generated, writer, flash, committed, versions, fixed>>

(* E_REQ_KEY when it has none: bleWalletCreateNewKey writes the modifiable   *)
(* bank and flushes, and the reply is read through the app_config pointer    *)
(* obtained before the flush.                                                *)
bleWalletCreateNewKey ==
  LET held == modifiable_bank
  IN  /\ power = "on"
      /\ ~KeyCreated(bank[held])
      /\ generated < MaxGenerated
      /\ generated' = generated + 1
      /\ bleFlushConfig([bank EXCEPT ![held] = WithKey(@, generated + 1)])
      /\ replied' = replied \union {bank'[held]["public_key"]}
      /\ UNCHANGED <<power, writer, flash, fixed>>

-----------------------------------------------------------------------------
(* ConfigTask, a step at a time.  It runs only while RadioTask waits for an  *)
(* event, which it first does when gp_setup has returned.                    *)

bleConfigTask ==          (* the call: dataToWrite is evaluated here, once *)
  /\ power = "on"
  /\ task = "idle"
  /\ task' = "copy"
  /\ source' = flush_bank
  /\ flashContent' = flash
  /\ done' = 0
  /\ UNCHANGED <<power, ram, generated, flash, history, fixed>>

CopyField ==
  /\ task = "copy"
  /\ done < NumFields
  /\ flashContent' = [flashContent EXCEPT
                        ![Layout[done + 1]] = bank[source][Layout[done + 1]]]
  /\ done' = done + 1
  /\ UNCHANGED <<power, ram, generated, task, source, flash, history, fixed>>

NeverTheSame == FALSE               (* bug: the page rewritten every epoch *)
SameMark == flashContent["configured"] = flash["configured"]     (* bug: shallow *)
theSame == flashContent = flash

Compare ==                (* theSame: return without touching the page *)
  /\ task = "copy"
  /\ done = NumFields
  /\ IF theSame
       THEN /\ task' = "idle"
            /\ source' = 0 /\ done' = 0 /\ flashContent' = Blank
       ELSE /\ task' = "erase"
            /\ UNCHANGED <<source, done, flashContent>>
  /\ UNCHANGED <<power, ram, generated, flash, history, fixed>>

ErasePage ==
  /\ task = "erase"
  /\ task' = "program"
  /\ done' = 0
  /\ flash' = Blank
  /\ UNCHANGED <<power, ram, generated, source, flashContent, history, fixed>>

ProgramField ==
  /\ task = "program"
  /\ flash' = [flash EXCEPT ![Layout[done + 1]] = flashContent[Layout[done + 1]]]
  /\ IF done + 1 = NumFields
       THEN /\ task' = "idle"
            /\ source' = 0 /\ done' = 0 /\ flashContent' = Blank
       ELSE /\ done' = done + 1
            /\ UNCHANGED <<task, source, flashContent>>
  /\ UNCHANGED <<power, ram, generated, history, fixed>>

ConfigTask == bleConfigTask \/ CopyField \/ Compare \/ ErasePage \/ ProgramField

(* The page when power goes: programming stops before a field or inside it.  *)
LeftInFlash ==
  {flash} \cup
  (IF task = "program" /\ Layout[done + 1] \notin Mark
     THEN {[flash EXCEPT ![Layout[done + 1]] = Half]} ELSE {})

Programmed == {Layout[i] : i \in 1 .. done}
CutOffHere == {m \in Mark : /\ task = "program" /\ flashContent[m] # Erased
                            /\ m \in Programmed /\ ~(DataOf(m) \subseteq Programmed)}

(* The supply goes: only the page and what was ever generated remain.        *)
PowerLoss ==
  /\ power # "off"
  /\ power' = "off"
  /\ flash' \in LeftInFlash
  /\ cutOff' = cutOff \cup CutOffHere
  /\ bank' = [b \in Bank |-> Blank]
  /\ flush_bank' = 0
  /\ modifiable_bank' = 1
  /\ task' = "idle"
  /\ source' = 0
  /\ flashContent' = Blank
  /\ done' = 0
  /\ committed' = Blank
  /\ versions' = <<>>
  /\ replied' = {}
  /\ UNCHANGED <<generated, erasedBool>>

RadioTask == bleServerInit \/ ReplyKnownKey \/ bleWalletCreateNewKey
Next == bleConfigInit \/ RadioTask \/ ConfigTask \/ PowerLoss
Spec == Init /\ [][Next]_vars

(* RadioTask blocks in xEventGroupWaitBits between events, so ConfigTask is  *)
(* never starved: it, and the boot, go on as long as there is power.         *)
Fairness == WF_vars(bleConfigInit) /\ WF_vars(bleServerInit) /\ WF_vars(ConfigTask)
FairSpec == Spec /\ Fairness

-----------------------------------------------------------------------------
TypeOK ==
  /\ power \in {"off", "boot", "on"}
  /\ bank \in [Bank -> Config]
  /\ flush_bank \in Bank
  /\ modifiable_bank \in Bank
  /\ generated \in Nat
  /\ task \in {"idle", "copy", "erase", "program"}
  /\ source \in Bank
  /\ flashContent \in Config
  /\ done \in 0 .. NumFields
  /\ task = "program" => done < NumFields
  /\ flash \in Config
  /\ committed \in Config
  /\ erasedBool \in BOOLEAN
  /\ versions \in Seq(Config)
  /\ replied \in SUBSET (Nat \cup {Half})
  /\ cutOff \in SUBSET Mark

(* Between handlers every bank holds the committed configuration and the two *)
(* indices are adjacent.  A pointer obtained before a flush, such as         *)
(* bleProtocolHandler's app_config, therefore still reads the current data,  *)
(* and the next modification starts from it (ble_config.cpp:34-50).          *)
BanksAgree ==
  power # "off" =>
    /\ modifiable_bank = NEXT_BANK(flush_bank)
    /\ \A b \in Bank : bank[b] = committed

(* What writeBlockToEEPROM has copied is torn at one point at most: a prefix *)
(* of one configuration of this session, then the rest of one flushed later, *)
(* or of the same.  Only the guard on key_created, which allows one flush    *)
(* while ConfigTask runs, keeps a third version out.                         *)
TornAtMostOnce ==
  task \in {"copy", "erase"} =>
    \E older, newer \in DOMAIN versions : \E cut \in 0 .. done :
      /\ older <= newer
      /\ \A i \in 1 .. done :
           flashContent[Layout[i]] = versions[IF i <= cut THEN older ELSE newer][Layout[i]]

Complete(c, m) ==
  c[m] # Erased => \E k \in 1 .. generated : \A f \in DataOf(m) : c[f] = k

(* "Interrupts must be disabled via a critical section handler prior to      *)
(* calling the flash function" (am_hal_flash.c:14): the page is programmed   *)
(* whole, so that what is marked in it is complete.                          *)
LoadedRecordWhole ==
  power # "off" => \A m \in Mark : Complete(committed, m)

(* Whatever page a reboot can find, a record marked as configured has its    *)
(* password and the link key made with it, and one marked as created both    *)
(* halves of one key pair, unless power went between the programming of that *)
(* very mark and of its data.  At every other point a cut is harmless, and   *)
(* so are torn copies, because each mark precedes its data in memory.        *)
LoadedRecordComplete ==
  power # "off" => \A m \in Mark \ cutOff : Complete(committed, m)

(* The host is told one public key per power session, whatever is flushed    *)
(* between its requests (ble_app_protocol.cpp:285-319).                      *)
OneIdentity == \A k, l \in replied : k = l

(* What goes out as "Public key from config" (ble_app_protocol.cpp:302) is a *)
(* public key that was made.                                                 *)
RepliesAreMade == replied \subseteq 1 .. generated

(* It is, unless the build takes the erased mark as true, so that no key is  *)
(* ever made, or power went between the mark of a key and the key            *)
(* (ble_app_protocol.cpp:293).                                               *)
ReplyIsAKey == erasedBool \/ "key_created" \in cutOff \/ RepliesAreMade

Settled == /\ flash["configured"] = Set
           /\ flash["key_created"] = Set
           /\ power # "off" => flash = committed /\ task # "program"

(* Once a configured wallet and its key are in the page, and the page is     *)
(* what the banks hold, no step changes the page again: writes are skipped   *)
(* (EEPROM.cpp:93-107), so neither wear nor a power cycle can lose the key.  *)
DurableOnceSettled == [][Settled => flash' = flash /\ Settled']_vars

(* If the power stays on, the page ends up holding the committed             *)
(* configuration for good, also after a torn copy was programmed: the next   *)
(* epochs of ConfigTask repair it.                                           *)
EventuallyPersistent == <>[](power = "on") => <>[](flash = committed)
=============================================================================
