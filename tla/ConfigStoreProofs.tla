--------------------------- MODULE ConfigStoreProofs ---------------------------
(* Theorems about ConfigStore, for every value of its constants. *)
EXTENDS ConfigStore, TLAPS

LEMMA LayoutType ==
  /\ NumFields = 6
  /\ \A i \in 1 .. NumFields : Layout[i] \in Field
BY DEF NumFields, Layout, Field

LEMMA BlankType == Blank \in Config
BY DEF Blank, Config, Erased

LEMMA LayoutMarks == Mark \subseteq Field /\ \A m \in Mark : DataOf(m) \subseteq Field
BY DEF Mark, DataOf, Field

LEMMA NextBankType == \A b \in Bank : NEXT_BANK(b) \in Bank
BY DEF Bank, NEXT_BANK, NUM_OF_BANKS

(* The rotation visits every bank: one flush after another reaches them all. *)
LEMMA NextBankCovers ==
  \A fl \in Bank : Bank = {fl, NEXT_BANK(fl), NEXT_BANK(NEXT_BANK(fl))}
BY DEF Bank, NEXT_BANK, NUM_OF_BANKS

LEMMA CopiedType ==
  ASSUME NEW b \in [Bank -> Config], NEW fl \in Bank
  PROVE  CopiedToOthers(b, fl) \in [Bank -> Config]
BY NextBankType DEF CopiedToOthers

(* After the two memcpy every bank holds what the flush bank holds. *)
LEMMA CopiedAgree ==
  ASSUME NEW b \in [Bank -> Config], NEW fl \in Bank
  PROVE  \A x \in Bank : CopiedToOthers(b, fl)[x] = b[fl]
BY NextBankType, NextBankCovers DEF CopiedToOthers, Bank, NEXT_BANK, NUM_OF_BANKS

LEMMA EditTypes ==
  ASSUME NEW c \in Config, NEW n \in Nat
  PROVE  Configured(c, n) \in Config /\ WithKey(c, n) \in Config
BY DEF Configured, WithKey, Config, Set

(* The part of the type invariant that a flush assigns.                      *)
FlushedType ==
  /\ bank \in [Bank -> Config]
  /\ flush_bank \in Bank
  /\ modifiable_bank \in Bank
  /\ committed \in Config
  /\ versions \in Seq(Config)

(* What a flush establishes, whatever the handler left in the banks.         *)
LEMMA FlushEffect ==
  ASSUME TypeOK, NEW b \in [Bank -> Config], bleFlushConfig(b)
  PROVE  /\ FlushedType'
         /\ flush_bank' = NEXT_BANK(flush_bank)
         /\ modifiable_bank' = NEXT_BANK(flush_bank')
         /\ \A x \in Bank : bank'[x] = committed'
BY NextBankType, CopiedType, CopiedAgree DEF bleFlushConfig, TypeOK, FlushedType

LEMMA FlushType ==
  ASSUME TypeOK, NEW c \in Config,
         bleFlushConfig([bank EXCEPT ![modifiable_bank] = c])
  PROVE  /\ FlushedType'
         /\ flush_bank' = NEXT_BANK(flush_bank)
         /\ modifiable_bank' = NEXT_BANK(flush_bank')
         /\ \A x \in Bank : bank'[x] = committed'
<1> [bank EXCEPT ![modifiable_bank] = c] \in [Bank -> Config]
  BY DEF TypeOK
<1> QED
  BY FlushEffect

-----------------------------------------------------------------------------
(* Type correctness: in particular the two bank indices stay within          *)
(* conn_config and the field counters within the struct.                     *)

LEMMA InitType == Init => TypeOK
BY BlankType DEF Init, TypeOK, Bank, NUM_OF_BANKS, NumFields

LEMMA RadioType ==
  ASSUME TypeOK, RadioTask
  PROVE  TypeOK'
<1>1. CASE bleServerInit
  <2>1. CASE bank[modifiable_bank]["configured"] = Set
    BY <1>1, <2>1 DEF bleServerInit, TypeOK, ram, writer, fixed
  <2>2. CASE bank[modifiable_bank]["configured"] # Set
    <3> DEFINE c == Configured(bank[modifiable_bank], generated + 1)
    <3>1. c \in Config
      BY EditTypes DEF TypeOK
    <3>2. bleFlushConfig([bank EXCEPT ![modifiable_bank] = c])
      BY <1>1, <2>2 DEF bleServerInit
    <3> HIDE DEF c
    <3>3. FlushedType'
      BY <3>1, <3>2, FlushType
    <3> QED
      BY <1>1, <2>2, <3>3 DEF bleServerInit, TypeOK, writer, fixed, FlushedType
  <2> QED
    BY <2>1, <2>2
<1>2. CASE ReplyKnownKey
  <2>1. bank[modifiable_bank]["public_key"] \in Nat \cup {Half}
    BY DEF TypeOK, Config, Field
  <2>2. replied' \in SUBSET (Nat \cup {Half})
    BY <1>2, <2>1 DEF ReplyKnownKey, TypeOK
  <2> QED
    BY <1>2, <2>2 DEF ReplyKnownKey, TypeOK, ram, writer, fixed
<1>3. CASE bleWalletCreateNewKey
  <2> DEFINE c == WithKey(bank[modifiable_bank], generated + 1)
  <2>1. c \in Config
    BY EditTypes DEF TypeOK
  <2>2. bleFlushConfig([bank EXCEPT ![modifiable_bank] = c])
    BY <1>3 DEF bleWalletCreateNewKey
  <2> HIDE DEF c
  <2>3. bank'[modifiable_bank]["public_key"] \in Nat \cup {Half}
    BY <2>1, <2>2, FlushType DEF TypeOK, FlushedType, Config, Field
  <2>4. FlushedType'
    BY <2>1, <2>2, FlushType
  <2>5. /\ replied' = replied \union {bank'[modifiable_bank]["public_key"]}
        /\ generated' = generated + 1
    BY <1>3 DEF bleWalletCreateNewKey
  <2>6. replied' \in SUBSET (Nat \cup {Half})
    BY <2>3, <2>5 DEF TypeOK
  <2>7. generated' \in Nat
    BY <2>5 DEF TypeOK
  <2> QED
    BY <1>3, <2>4, <2>6, <2>7 DEF bleWalletCreateNewKey, TypeOK, writer, fixed, FlushedType
<1> QED
  BY <1>1, <1>2, <1>3 DEF RadioTask

LEMMA WriterType ==
  ASSUME TypeOK, ConfigTask
  PROVE  TypeOK'
<1> USE DEF TypeOK, ram, history, fixed
<1>1. CASE bleConfigTask
  BY <1>1 DEF bleConfigTask, NumFields
<1>2. CASE CopyField
  <2>1. done + 1 \in 1 .. NumFields
    BY <1>2, LayoutType DEF CopyField
  <2>2. bank[source][Layout[done + 1]] \in Nat \cup {Half}
    BY <2>1, LayoutType DEF Config
  <2>3. flashContent' \in Config
    BY <1>2, <2>2 DEF CopyField, Config
  <2> QED
    BY <1>2, <2>1, <2>3, LayoutType DEF CopyField
<1>3. CASE Compare
  BY <1>3, BlankType DEF Compare, Bank, NUM_OF_BANKS, NumFields
<1>4. CASE ErasePage
  BY <1>4, BlankType DEF ErasePage, NumFields
<1>5. CASE ProgramField
  <2>1. done + 1 \in 1 .. NumFields
    BY <1>5, LayoutType DEF ProgramField
  <2>2. flash' \in Config
    BY <1>5, <2>1, LayoutType DEF ProgramField, Config
  <2>3. CASE done + 1 = NumFields
    BY <1>5, <2>2, <2>3, BlankType, LayoutType DEF ProgramField, Bank, NUM_OF_BANKS
  <2>4. CASE done + 1 # NumFields
    BY <1>5, <2>1, <2>2, <2>4, LayoutType DEF ProgramField
  <2> QED
    BY <2>3, <2>4
<1> QED
  BY <1>1, <1>2, <1>3, <1>4, <1>5 DEF ConfigTask

(* The bank indices stay inside conn_config[] and the writer inside the page. *)
THEOREM TypeCorrect == Spec => []TypeOK
<1>1. TypeOK /\ [Next]_vars => TypeOK'
  <2> SUFFICES ASSUME TypeOK, [Next]_vars
               PROVE  TypeOK'
    OBVIOUS
  <2>1. CASE bleConfigInit
    BY <2>1 DEF bleConfigInit, TypeOK, writer, fixed
  <2>2. CASE PowerLoss
    <3>1. Layout[done + 1] \in Field \/ task # "program"
      BY LayoutType DEF TypeOK, NumFields
    <3>2. flash' \in Config
      BY <2>2, <3>1 DEF PowerLoss, LeftInFlash, TypeOK, Config
    <3>3. cutOff' \in SUBSET Mark
      BY <2>2 DEF PowerLoss, CutOffHere, TypeOK
    <3> QED BY <2>2, <3>2, <3>3, BlankType DEF PowerLoss, TypeOK, Bank, NUM_OF_BANKS, NumFields
  <2>3. CASE UNCHANGED vars
    BY <2>3 DEF vars, TypeOK, ram, writer, history, fixed
  <2> QED
    BY <2>1, <2>2, <2>3, RadioType, WriterType DEF Next
<1> QED
  BY <1>1, InitType, PTL DEF Spec

-----------------------------------------------------------------------------
(* Between handlers the banks agree.  The indices stay adjacent also without *)
(* power, where the statics have their initial values.                       *)
BanksInv == /\ modifiable_bank = NEXT_BANK(flush_bank)
            /\ power # "off" => \A b \in Bank : bank[b] = committed

(* The flushed configuration is the one the handler edited: the flush bank   *)
(* advances onto the bank that was modifiable.                               *)
LEMMA FlushCommits ==
  ASSUME TypeOK, BanksInv, NEW c \in Config,
         bleFlushConfig([bank EXCEPT ![modifiable_bank] = c])
  PROVE  committed' = c
BY DEF TypeOK, BanksInv, bleFlushConfig

LEMMA BanksInvInit == Init => BanksInv
BY DEF Init, BanksInv, NEXT_BANK, NUM_OF_BANKS

LEMMA BanksInvStep == TypeOK /\ BanksInv /\ [Next]_vars => BanksInv'
<1> SUFFICES ASSUME TypeOK, BanksInv, [Next]_vars
             PROVE  BanksInv'
  OBVIOUS
<1> USE DEF BanksInv
<1>1. CASE bleConfigInit
  BY <1>1 DEF bleConfigInit
<1>2. CASE bleServerInit
  <2>1. CASE bank[modifiable_bank]["configured"] = Set
    BY <1>2, <2>1 DEF bleServerInit, ram
  <2>2. CASE bank[modifiable_bank]["configured"] # Set
    <3>1. Configured(bank[modifiable_bank], generated + 1) \in Config
      BY EditTypes DEF TypeOK
    <3> QED
      BY <1>2, <2>2, <3>1, FlushType DEF bleServerInit
  <2> QED
    BY <2>1, <2>2
<1>3. CASE ReplyKnownKey
  BY <1>3 DEF ReplyKnownKey, ram
<1>4. CASE bleWalletCreateNewKey
  <2>1. WithKey(bank[modifiable_bank], generated + 1) \in Config
    BY EditTypes DEF TypeOK
  <2> QED
    BY <1>4, <2>1, FlushType DEF bleWalletCreateNewKey
<1>5. CASE ConfigTask
  BY <1>5 DEF ConfigTask, bleConfigTask, CopyField, Compare, ErasePage,
              ProgramField, ram, history, fixed
<1>6. CASE PowerLoss
  BY <1>6 DEF PowerLoss, NEXT_BANK, NUM_OF_BANKS
<1>7. CASE UNCHANGED vars
  BY <1>7 DEF vars, ram, history, fixed
<1> QED
  BY <1>1, <1>2, <1>3, <1>4, <1>5, <1>6, <1>7 DEF Next, RadioTask

(* Every handler leaves the committed configuration in every bank, so a      *)
(* pointer into a bank obtained before a flush still reads current data.     *)
THEOREM BanksAlwaysAgree == Spec => []BanksAgree
<1>1. BanksInv => BanksAgree
  BY DEF BanksInv, BanksAgree
<1> QED
  BY <1>1, BanksInvInit, BanksInvStep, TypeCorrect, PTL DEF Spec

-----------------------------------------------------------------------------
(* A session in which a key was reported is one whose committed              *)
(* configuration has that key, and then no handler makes another.            *)
IdentityInv ==
  replied # {} => /\ power = "on"
                  /\ KeyCreated(committed)
                  /\ \A k \in replied : k = committed["public_key"]

(* Whatever the host asks and whenever ConfigTask writes, the public keys    *)
(* reported in a power session are one key.                                  *)
THEOREM OneIdentityHolds == Spec => []OneIdentity
<1>1. Init => IdentityInv
  BY DEF Init, IdentityInv
<1>2. TypeOK /\ BanksInv /\ IdentityInv /\ [Next]_vars => IdentityInv'
  <2> SUFFICES ASSUME TypeOK, BanksInv, IdentityInv, [Next]_vars
               PROVE  IdentityInv'
    OBVIOUS
  <2> USE DEF IdentityInv
  <2>1. CASE bleConfigInit
    BY <2>1 DEF bleConfigInit
  <2>2. CASE bleServerInit
    BY <2>2 DEF bleServerInit
  <2>3. CASE ReplyKnownKey
    BY <2>3 DEF ReplyKnownKey, BanksInv, TypeOK, KeyCreated, fixed
  <2>4. CASE bleWalletCreateNewKey
    <3> DEFINE c == WithKey(bank[modifiable_bank], generated + 1)
    <3>1. c \in Config
      BY EditTypes DEF TypeOK
    <3>2. c["key_created"] = Set
      BY DEF WithKey, TypeOK, Config, Field
    <3>3. bleFlushConfig([bank EXCEPT ![modifiable_bank] = c])
      BY <2>4 DEF bleWalletCreateNewKey
    <3> HIDE DEF c
    <3>4. committed' = c /\ KeyCreated(committed')
      BY <3>1, <3>2, <3>3, FlushCommits DEF KeyCreated, Set, Erased
    <3>5. bank'[modifiable_bank] = committed'
      BY <3>1, <3>3, FlushType DEF TypeOK
    <3>6. replied = {}
      BY <2>4 DEF bleWalletCreateNewKey, BanksInv, TypeOK
    <3> QED
      BY <2>4, <3>4, <3>5, <3>6 DEF bleWalletCreateNewKey, KeyCreated, fixed
  <2>5. CASE ConfigTask
    BY <2>5 DEF ConfigTask, bleConfigTask, CopyField, Compare, ErasePage,
                ProgramField, history, fixed, KeyCreated
  <2>6. CASE PowerLoss
    BY <2>6 DEF PowerLoss
  <2>7. CASE UNCHANGED vars
    BY <2>7 DEF vars, history, fixed, KeyCreated
  <2> QED
    BY <2>1, <2>2, <2>3, <2>4, <2>5, <2>6, <2>7 DEF Next, RadioTask
<1>3. IdentityInv => OneIdentity
  BY DEF IdentityInv, OneIdentity
<1> QED
  BY <1>1, <1>2, <1>3, BanksInvInit, BanksInvStep, TypeCorrect, PTL DEF Spec

-----------------------------------------------------------------------------
(* Why a settled page is final.  A key number in the page was generated      *)
(* before, so no flush can make the committed configuration equal to the     *)
(* page while ConfigTask still holds an older copy; and a copy begun when    *)
(* they are equal stays equal to the page, since every bank agrees with it.  *)
DurableInv ==
  /\ power # "on" => task = "idle"
  /\ committed["public_key"] <= generated
  /\ flash["public_key"] <= generated
  /\ flashContent["public_key"] <= generated
  /\ Settled /\ task # "idle" => task = "copy" /\ flashContent = flash

LEMMA DurableInvInit == Init => DurableInv
BY DEF Init, DurableInv, Blank, Erased, Field

LEMMA DurableInvRadio ==
  ASSUME TypeOK, BanksInv, DurableInv, RadioTask
  PROVE  DurableInv'
<1> USE DEF DurableInv
<1>1. CASE bleServerInit
  <2>1. task' = "idle"
    BY <1>1 DEF bleServerInit, writer
  <2>2. CASE bank[modifiable_bank]["configured"] = Set
    BY <1>1, <2>1, <2>2 DEF bleServerInit, writer
  <2>3. CASE bank[modifiable_bank]["configured"] # Set
    <3> DEFINE c == Configured(bank[modifiable_bank], generated + 1)
    <3>0. bank[modifiable_bank] = committed
      BY <1>1 DEF bleServerInit, TypeOK, BanksInv
    <3>1. c \in Config /\ c["public_key"] = committed["public_key"]
      <4>1. committed \in Config /\ generated + 1 \in Nat
        BY DEF TypeOK
      <4>2. \A n : Configured(committed, n)["public_key"] = committed["public_key"]
        BY <4>1 DEF Configured, Config, Field
      <4> QED
        BY <3>0, <4>1, <4>2, EditTypes
    <3>2. bleFlushConfig([bank EXCEPT ![modifiable_bank] = c])
      BY <1>1, <2>3 DEF bleServerInit
    <3> HIDE DEF c
    <3>3. committed' = c
      BY <3>1, <3>2, FlushCommits
    <3>4. /\ generated' = generated + 1
          /\ UNCHANGED <<flash, flashContent>>
      BY <1>1, <2>3 DEF bleServerInit, writer
    <3> QED
      BY <2>1, <3>1, <3>3, <3>4 DEF TypeOK, Config, Field, Half
  <2> QED
    BY <2>2, <2>3
<1>2. CASE ReplyKnownKey
  BY <1>2 DEF ReplyKnownKey, Settled, writer
<1>3. CASE bleWalletCreateNewKey
  <2> DEFINE c == WithKey(bank[modifiable_bank], generated + 1)
  <2>1. c \in Config /\ c["public_key"] = generated + 1
    <3>1. bank[modifiable_bank] \in Config /\ generated + 1 \in Nat
      BY DEF TypeOK
    <3>2. ASSUME NEW b \in Config, NEW n PROVE WithKey(b, n)["public_key"] = n
      BY DEF WithKey, Config, Field
    <3> QED BY <3>1, <3>2, EditTypes
  <2>2. bleFlushConfig([bank EXCEPT ![modifiable_bank] = c])
    BY <1>3 DEF bleWalletCreateNewKey
  <2> HIDE DEF c
  <2>3. committed' = c
    BY <2>1, <2>2, FlushCommits
  <2>4. /\ generated' = generated + 1
        /\ power = "on" /\ power' = "on"
        /\ UNCHANGED <<flash, task, flashContent>>
    BY <1>3 DEF bleWalletCreateNewKey, writer
  <2>5. flash' # committed'
    BY <2>1, <2>3, <2>4 DEF TypeOK, Config, Field
  <2> QED
    BY <2>1, <2>3, <2>4, <2>5 DEF TypeOK, Config, Field, Settled, Half
<1> QED
  BY <1>1, <1>2, <1>3 DEF RadioTask

LEMMA DurableInvWriter ==
  ASSUME TypeOK, BanksInv, DurableInv, ConfigTask
  PROVE  DurableInv'
<1> USE DEF DurableInv
<1>1. CASE bleConfigTask
  BY <1>1 DEF bleConfigTask, history, ram
<1>2. CASE CopyField
  <2> DEFINE f == Layout[done + 1]
  <2>1. f \in Field
    BY <1>2, LayoutType DEF CopyField, TypeOK
  <2>2. /\ flashContent' = [flashContent EXCEPT ![f] = committed[f]]
        /\ task = "copy"
        /\ UNCHANGED <<power, task, flash, committed, generated>>
    BY <1>2 DEF CopyField, BanksInv, TypeOK, history, fixed
  <2> HIDE DEF f
  <2>3. flashContent'["public_key"] \in {committed["public_key"], flashContent["public_key"]}
    BY <2>1, <2>2 DEF TypeOK, Config, Field
  <2>4. Settled /\ flashContent = flash => flashContent' = flash
    BY <2>1, <2>2 DEF TypeOK, Config, Settled
  <2> QED
    BY <2>2, <2>3, <2>4 DEF Settled
<1>3. CASE Compare
  <2>1. CASE theSame
    BY <1>3, <2>1 DEF Compare, history, Blank, Erased, Field, TypeOK
  <2>2. CASE ~theSame
    BY <1>3, <2>2 DEF Compare, history, theSame, Settled
  <2> QED
    BY <2>1, <2>2
<1>4. CASE ErasePage
  <2>1. flash'["configured"] # Set /\ flash'["public_key"] = 0
    BY <1>4 DEF ErasePage, Blank, Erased, Set, Field
  <2> QED
    BY <1>4, <2>1 DEF ErasePage, history, Settled, TypeOK
<1>5. CASE ProgramField
  <2>1. flash'["public_key"] \in {flash["public_key"], flashContent["public_key"]}
    BY <1>5, LayoutType DEF ProgramField, TypeOK, Config, Field
  <2>2. \/ task' = "idle" /\ flashContent' = Blank
        \/ task' = "program" /\ flashContent' = flashContent
    BY <1>5 DEF ProgramField
  <2>3. power' = "on" /\ UNCHANGED <<committed, generated>>
    BY <1>5 DEF ProgramField, history, fixed
  <2> QED
    BY <2>1, <2>2, <2>3 DEF Settled, Blank, Erased, Field, TypeOK
<1> QED
  BY <1>1, <1>2, <1>3, <1>4, <1>5 DEF ConfigTask

LEMMA DurableInvStep == TypeOK /\ BanksInv /\ DurableInv /\ [Next]_vars => DurableInv'
<1> SUFFICES ASSUME TypeOK, BanksInv, DurableInv, [Next]_vars
             PROVE  DurableInv'
  OBVIOUS
<1>1. CASE bleConfigInit
  BY <1>1 DEF bleConfigInit, DurableInv, writer
<1>2. CASE PowerLoss
  <2>1. flash'["public_key"] \in {flash["public_key"], Half}
    <3>1. Layout[done + 1] \in Field \/ task # "program"
      BY LayoutType DEF TypeOK, NumFields
    <3> QED BY <1>2, <3>1 DEF PowerLoss, LeftInFlash, TypeOK, Config, Field
  <2>2. flash'["public_key"] <= generated
    BY <2>1 DEF DurableInv, TypeOK, Half
  <2> QED BY <1>2, <2>2 DEF PowerLoss, DurableInv, Blank, Erased, Field, TypeOK
<1>3. CASE UNCHANGED vars
  BY <1>3 DEF vars, DurableInv, Settled, writer, history, fixed
<1> QED
  BY <1>1, <1>2, <1>3, DurableInvRadio, DurableInvWriter DEF Next

(* Once the page holds the committed configuration of a wallet with a key,   *)
(* no step of either task, no request and no power cycle changes it.         *)
THEOREM Durability == Spec => DurableOnceSettled
<1>1. TypeOK /\ BanksInv /\ DurableInv /\ [Next]_vars
        => [Settled => flash' = flash /\ Settled']_vars
  <2> SUFFICES ASSUME TypeOK, BanksInv, DurableInv, Settled, [Next]_vars
               PROVE  flash' = flash /\ Settled'
    OBVIOUS
  <2> USE DEF Settled
  <2>1. CASE bleConfigInit
    BY <2>1 DEF bleConfigInit, writer, DurableInv
  <2>2. CASE bleServerInit
    <3>1. bank[modifiable_bank]["configured"] = Set
      BY <2>2 DEF bleServerInit, BanksInv, TypeOK
    <3> QED
      BY <2>2, <3>1 DEF bleServerInit, writer
  <2>3. CASE ReplyKnownKey
    BY <2>3 DEF ReplyKnownKey, writer
  <2>4. CASE bleWalletCreateNewKey
    <3>1. KeyCreated(bank[modifiable_bank])
      BY <2>4 DEF bleWalletCreateNewKey, BanksInv, TypeOK, KeyCreated, Set, Erased
    <3> QED
      BY <2>4, <3>1 DEF bleWalletCreateNewKey
  <2>5. CASE ConfigTask
    <3>1. task \in {"idle", "copy"}
      BY DEF DurableInv
    <3>2. ~ErasePage /\ ~ProgramField
      BY <3>1 DEF ErasePage, ProgramField
    <3>3. CASE bleConfigTask \/ CopyField
      BY <3>3 DEF bleConfigTask, CopyField, history, fixed
    <3>4. CASE Compare
      BY <3>4 DEF Compare, history, fixed
    <3> QED
      BY <2>5, <3>2, <3>3, <3>4 DEF ConfigTask
  <2>6. CASE PowerLoss
    BY <2>6 DEF PowerLoss, LeftInFlash, DurableInv
  <2>7. CASE UNCHANGED vars
    BY <2>7 DEF vars, writer, history, fixed
  <2> QED
    BY <2>1, <2>2, <2>3, <2>4, <2>5, <2>6, <2>7 DEF Next, RadioTask
<1> QED
  BY <1>1, TypeCorrect, BanksInvInit, BanksInvStep, DurableInvInit, DurableInvStep,
     PTL DEF Spec, DurableOnceSettled

-----------------------------------------------------------------------------
(* What is being copied: the fields up to some point are of a version of     *)
(* this session, the rest of the committed one.  Where the two differ, the   *)
(* key was made in between, and nothing is flushed after that.               *)
Before(older, newer) ==
  /\ older["key_created"] = Erased
  /\ \A f \in {"configured", "password", "aes_key"} : older[f] = newer[f]

CopiedFrom(older, cut) ==
  /\ \A i \in 1 .. done : flashContent[Layout[i]] =
                            IF i <= cut THEN older[Layout[i]] ELSE committed[Layout[i]]
  /\ older = committed \/ (KeyCreated(committed) /\ Before(older, committed))

CopyInv ==
  /\ power # "off" => Len(versions) > 0 /\ versions[Len(versions)] = committed
  /\ power # "on" => task = "idle"
  /\ task = "erase" => done = NumFields
  /\ task \in {"copy", "erase"} =>
       \E older \in 1 .. Len(versions), cut \in Nat : CopiedFrom(versions[older], cut)

LEMMA CopyInvInit == Init => CopyInv
BY DEF Init, CopyInv

LEMMA CopyInvNewKey ==
  ASSUME TypeOK, BanksInv, CopyInv, bleWalletCreateNewKey
  PROVE  CopyInv'
<1> DEFINE c == WithKey(bank[modifiable_bank], generated + 1)
<1>0. bank[modifiable_bank] = committed
  BY DEF bleWalletCreateNewKey, TypeOK, BanksInv
<1>1. c \in Config
  BY EditTypes DEF TypeOK
<1>2. c["key_created"] = Set /\ Before(committed, c)
  <2>1. committed["key_created"] = Erased
    BY <1>0 DEF bleWalletCreateNewKey, KeyCreated
  <2>2. committed \in Config
    BY DEF TypeOK
  <2> QED
    BY <1>0, <2>1, <2>2 DEF WithKey, Config, Field, Before
<1>3. bleFlushConfig([bank EXCEPT ![modifiable_bank] = c])
  BY DEF bleWalletCreateNewKey
<1> HIDE DEF c
<1>4. committed' = c /\ versions' = Append(versions, committed') /\ power' = "on" /\ power = "on"
  BY <1>1, <1>3, FlushCommits DEF bleFlushConfig, bleWalletCreateNewKey
<1>5. UNCHANGED <<task, done, flashContent>>
  BY DEF bleWalletCreateNewKey, writer
<1>6. KeyCreated(committed') /\ Before(committed, committed')
  BY <1>2, <1>4 DEF KeyCreated, Set, Erased
<1>7. /\ Len(versions') = Len(versions) + 1 /\ versions'[Len(versions')] = committed'
      /\ \A i \in 1 .. Len(versions) : versions'[i] = versions[i]
  BY <1>4 DEF TypeOK
<1>8. ASSUME task \in {"copy", "erase"}
      PROVE  \E o \in 1 .. Len(versions'), cut \in Nat : CopiedFrom(versions[o], cut)'
  <2>1. PICK older \in 1 .. Len(versions), cut \in Nat : CopiedFrom(versions[older], cut)
    BY <1>8 DEF CopyInv
  <2>2. ~KeyCreated(committed)
    BY <1>0 DEF bleWalletCreateNewKey
  <2>3. \A i \in 1 .. done : flashContent[Layout[i]] = committed[Layout[i]]
    BY <2>1, <2>2 DEF CopiedFrom
  <2>4. PICK o \in 1 .. Len(versions), cut0 \in Nat : versions[o] = committed /\ cut0 = done
    BY <1>4 DEF TypeOK, NumFields, CopyInv
  <2>5. o \in 1 .. Len(versions') /\ versions'[o] = committed
    BY <1>7, <2>4 DEF TypeOK
  <2>6. \A i \in 1 .. done' : flashContent'[Layout[i]] =
          IF i <= cut0 THEN versions'[o][Layout[i]] ELSE committed'[Layout[i]]
    BY <1>5, <2>3, <2>4, <2>5
  <2>7. KeyCreated(committed') /\ Before(versions'[o], committed')
    BY <1>6, <2>5
  <2>8. CopiedFrom(versions[o], cut0)'
    BY <2>6, <2>7, <1>6 DEF CopiedFrom, KeyCreated, bleWalletCreateNewKey, fixed
  <2> QED BY <2>4, <2>5, <2>8
<1> QED BY <1>4, <1>5, <1>7, <1>8 DEF CopyInv, TypeOK

LEMMA CopyInvField ==
  ASSUME TypeOK, BanksInv, CopyInv, CopyField
  PROVE  CopyInv'
<1>1. PICK o \in 1 .. Len(versions), cut0 \in Nat : CopiedFrom(versions[o], cut0)
  BY DEF CopyInv, CopyField
<1> DEFINE older == versions[o]
<1>2. PICK cut \in Nat : cut <= done /\ CopiedFrom(older, cut)
  <2>1. CASE cut0 <= done
    BY <1>1, <2>1
  <2>2. CASE ~(cut0 <= done)
    <3>1. done \in Nat
      BY DEF TypeOK, NumFields
    <3>2. PICK d \in Nat : d = done
      BY <3>1
    <3>3. \A j \in 1 .. done : (j <= cut0) /\ (j <= d)
      BY <2>2, <3>1, <3>2
    <3>4. CopiedFrom(older, d)
      BY <1>1, <3>3 DEF CopiedFrom
    <3> QED BY <3>2, <3>4
  <2> QED BY <2>1, <2>2
<1>3. /\ flashContent' = [flashContent EXCEPT ![Layout[done + 1]] = committed[Layout[done + 1]]]
      /\ done' = done + 1 /\ task = "copy" /\ task' = "copy" /\ done < NumFields
      /\ UNCHANGED <<committed, versions, power>>
  BY DEF CopyField, BanksInv, CopyInv, TypeOK, history, fixed
<1>4. ASSUME NEW j \in 1 .. done'
      PROVE  flashContent'[Layout[j]] = IF j <= cut THEN older[Layout[j]] ELSE committed'[Layout[j]]
  <2>1. done \in 0 .. 5 /\ flashContent \in Config
    BY <1>3 DEF TypeOK, NumFields
  <2>2. CASE j = done + 1
    <3>1. flashContent'[Layout[j]] = committed[Layout[j]]
      BY <1>3, <2>1, <2>2, LayoutType DEF Config, NumFields
    <3>2. ~(j <= cut)
      BY <1>2, <2>1, <2>2
    <3> QED BY <1>3, <3>1, <3>2
  <2>3. CASE j # done + 1
    <3>1. j \in 1 .. done
      BY <1>3, <2>1, <2>3
    <3>2. Layout[j] # Layout[done + 1]
      BY <2>1, <3>1 DEF Layout
    <3>3. flashContent'[Layout[j]] = flashContent[Layout[j]]
      BY <1>3, <2>1, <3>2, <3>1, LayoutType DEF Config, NumFields
    <3> QED BY <1>2, <1>3, <3>1, <3>3 DEF CopiedFrom
  <2> QED BY <2>2, <2>3
<1>5. CopiedFrom(older, cut)'
  BY <1>2, <1>3, <1>4 DEF CopiedFrom, KeyCreated, CopyField, fixed
<1> QED BY <1>3, <1>5 DEF CopyInv

LEMMA CopyInvStep == TypeOK /\ BanksInv /\ CopyInv /\ [Next]_vars => CopyInv'
<1> SUFFICES ASSUME TypeOK, BanksInv, CopyInv, [Next]_vars
             PROVE  CopyInv'
  OBVIOUS
<1> USE DEF CopyInv
<1>1. CASE bleConfigInit
  BY <1>1 DEF bleConfigInit, writer
<1>2. CASE bleServerInit
  BY <1>2 DEF bleServerInit, bleFlushConfig, writer, TypeOK
<1>3. CASE UNCHANGED <<power, writer, committed, versions, erasedBool>>
  BY <1>3 DEF CopiedFrom, writer, KeyCreated
<1>4. CASE ReplyKnownKey
  BY <1>3, <1>4 DEF ReplyKnownKey, fixed
<1>5. CASE bleConfigTask
  <2>1. done' = 0 /\ task' = "copy" /\ UNCHANGED <<power, committed, versions>> /\ power = "on"
    BY <1>5 DEF bleConfigTask, history, fixed
  <2>2. PICK o \in 1 .. Len(versions'), cut \in Nat : versions'[o] = committed' /\ cut = 0
    BY <2>1 DEF TypeOK
  <2>3. CopiedFrom(versions[o], cut)'
    BY <2>1, <2>2 DEF CopiedFrom
  <2> QED BY <2>1, <2>2, <2>3
<1>6. CASE Compare
  <2>1. UNCHANGED <<power, committed, versions, erasedBool>> /\ task = "copy" /\ done = NumFields
    BY <1>6 DEF Compare, history, fixed
  <2>2. task' = "idle" \/ (task' = "erase" /\ done' = done /\ flashContent' = flashContent)
    BY <1>6 DEF Compare
  <2> QED BY <2>1, <2>2 DEF CopiedFrom, KeyCreated
<1>7. CASE ErasePage
  BY <1>7 DEF ErasePage, history, fixed
<1>8. CASE ProgramField
  BY <1>8 DEF ProgramField, history, fixed
<1>9. CASE PowerLoss
  BY <1>9 DEF PowerLoss
<1>10. CASE UNCHANGED vars
  BY <1>3, <1>10 DEF vars, history, fixed
<1> QED BY <1>1, <1>2, <1>4, <1>5, <1>6, <1>7, <1>8, <1>9, <1>10, CopyInvNewKey, CopyInvField
        DEF Next, RadioTask, ConfigTask

LEMMA PrefixWithin ==
  ASSUME NEW n \in Nat, NEW k \in Nat
  PROVE  \E c \in 0 .. n : \A i \in 1 .. n : i <= c <=> i <= k
<1>1. CASE k <= n
  <2>1. k \in 0 .. n
    BY <1>1
  <2> QED BY <2>1
<1>2. CASE ~(k <= n)
  <2>1. n \in 0 .. n
    OBVIOUS
  <2>2. \A i \in 1 .. n : i <= n <=> i <= k
    BY <1>2
  <2> QED BY <2>1, <2>2
<1> QED BY <1>1, <1>2

(* However handlers interrupt the copy of the bank, what goes to flash is    *)
(* of two versions at most, and the later one comes second.                  *)
THEOREM TornOnce == Spec => []TornAtMostOnce
<1>1. TypeOK /\ CopyInv => TornAtMostOnce
  <2> SUFFICES ASSUME TypeOK, CopyInv, task \in {"copy", "erase"}
               PROVE  \E older, newer \in DOMAIN versions : \E cut \in 0 .. done :
                        /\ older <= newer
                        /\ \A i \in 1 .. done : flashContent[Layout[i]] =
                             versions[IF i <= cut THEN older ELSE newer][Layout[i]]
    BY DEF TornAtMostOnce
  <2>1. PICK older \in 1 .. Len(versions), cut0 \in Nat : CopiedFrom(versions[older], cut0)
    BY DEF CopyInv
  <2> DEFINE newer == Len(versions)
  <2>2. /\ newer \in DOMAIN versions /\ older \in DOMAIN versions /\ older <= newer
        /\ versions[newer] = committed /\ done \in Nat
    <3>1. power # "off" /\ versions \in Seq(Config) /\ Len(versions) > 0 /\ done \in Nat
      BY DEF CopyInv, TypeOK, NumFields
    <3> QED BY <2>1, <3>1 DEF CopyInv
  <2>3. PICK cut \in 0 .. done : \A i \in 1 .. done : i <= cut <=> i <= cut0
    BY <2>2, PrefixWithin
  <2>4. \A i \in 1 .. done : flashContent[Layout[i]] =
          versions[IF i <= cut THEN older ELSE newer][Layout[i]]
    BY <2>1, <2>2, <2>3 DEF CopiedFrom
  <2> HIDE DEF newer
  <2> QED BY <2>2, <2>4
<1> QED
  BY <1>1, BanksInvInit, BanksInvStep, CopyInvInit, CopyInvStep, TypeCorrect, PTL DEF Spec

-----------------------------------------------------------------------------
(* A configuration with every mark followed by the data it stands for.       *)
SoundFor(c, n, cut) ==
  \A m \in Mark \ cut : c[m] # Erased => \E k \in 1 .. n : \A f \in DataOf(m) : c[f] = k
Sound(c) == SoundFor(c, generated, cutOff)

(* The page and what is on its way to it: erased, or sound.  While it is     *)
(* programmed it is a prefix of what is on its way.                          *)
RecordInv ==
  /\ Sound(committed)
  /\ task # "program" => Sound(flash)
  /\ task = "program" =>
       /\ Sound(flashContent)
       /\ \A i \in 1 .. NumFields : flash[Layout[i]] = IF i <= done THEN flashContent[Layout[i]]
                                                                    ELSE Erased

LEMMA SoundBlank == \A n, cut : SoundFor(Blank, n, cut)
BY LayoutMarks DEF SoundFor, Blank

(* What is sound stays so when keys are made or marks cut off.               *)
LEMMA SoundStays ==
  ASSUME NEW c, NEW n \in Nat, NEW m \in Nat, n <= m, NEW x, NEW y, x \subseteq y,
         SoundFor(c, n, x)
  PROVE  SoundFor(c, m, y)
BY DEF SoundFor

LEMMA SoundEdits ==
  ASSUME NEW c \in Config, NEW n \in Nat, NEW x, SoundFor(c, n, x)
  PROVE  SoundFor(Configured(c, n + 1), n + 1, x) /\ SoundFor(WithKey(c, n + 1), n + 1, x)
<1>1. n + 1 \in 1 .. n + 1 /\ SoundFor(c, n + 1, x)
  BY SoundStays
<1>2. ASSUME NEW d \in Config, NEW m \in Mark, NEW o \in Mark, m # o,
             \A f \in DataOf(m) : d[f] = n + 1,
             d[o] = c[o], \A f \in DataOf(o) : d[f] = c[f]
      PROVE  SoundFor(d, n + 1, x)
  <2>1. Mark = {m, o}
    BY <1>2 DEF Mark
  <2>2. o \notin x /\ d[o] # Erased => \E k \in 1 .. n + 1 : \A f \in DataOf(o) : d[f] = k
    BY <1>1, <1>2 DEF SoundFor
  <2> QED BY <1>1, <1>2, <2>1, <2>2 DEF SoundFor
<1>3. Configured(c, n + 1) \in Config /\ WithKey(c, n + 1) \in Config
  BY EditTypes
<1>4. SoundFor(Configured(c, n + 1), n + 1, x)
  <2> DEFINE d == Configured(c, n + 1)
  <2>1. /\ \A f \in DataOf("configured") : d[f] = n + 1
        /\ d["key_created"] = c["key_created"] /\ \A f \in DataOf("key_created") : d[f] = c[f]
    BY DEF Configured, Config, Field, DataOf
  <2>2. d \in Config
    BY <1>3
  <2> HIDE DEF d
  <2>3. SoundFor(d, n + 1, x)
    BY <1>2, <2>1, <2>2 DEF Mark
  <2> QED BY <2>3 DEF d
<1>5. SoundFor(WithKey(c, n + 1), n + 1, x)
  <2> DEFINE d == WithKey(c, n + 1)
  <2>1. /\ \A f \in DataOf("key_created") : d[f] = n + 1
        /\ d["configured"] = c["configured"] /\ \A f \in DataOf("configured") : d[f] = c[f]
    BY DEF WithKey, Config, Field, DataOf
  <2>2. d \in Config
    BY <1>3
  <2> HIDE DEF d
  <2>3. SoundFor(d, n + 1, x)
    BY <1>2, <2>1, <2>2 DEF Mark
  <2> QED BY <2>3 DEF d
<1> QED BY <1>4, <1>5

(* A complete copy is sound, torn or not: each mark comes before its data.   *)
LEMMA SoundCopy ==
  ASSUME NEW older, NEW cut \in Nat, CopiedFrom(older, cut), done = NumFields, Sound(committed)
  PROVE  Sound(flashContent)
<1> DEFINE at(i) == IF i <= cut THEN older[Layout[i]] ELSE committed[Layout[i]]
<1>1. \A i \in 1 .. 6 : flashContent[Layout[i]] = at(i)
  BY DEF CopiedFrom, NumFields
<1>2. /\ flashContent["configured"] = at(1) /\ flashContent["password"] = at(2)
      /\ flashContent["aes_key"] = at(3) /\ flashContent["key_created"] = at(4)
      /\ flashContent["encrypted_private_key"] = at(5) /\ flashContent["public_key"] = at(6)
  BY <1>1 DEF Layout
<1>3. older = committed \/ Before(older, committed)
  BY DEF CopiedFrom
<1>4. /\ flashContent["configured"] = committed["configured"]
      /\ \A f \in DataOf("configured") : flashContent[f] = committed[f]
  BY <1>2, <1>3 DEF Before, Layout, DataOf
<1>5. \/ flashContent["key_created"] = Erased
      \/ /\ flashContent["key_created"] = committed["key_created"]
         /\ \A f \in DataOf("key_created") : flashContent[f] = committed[f]
  <2>1. CASE older = committed
    BY <1>2, <2>1 DEF Layout, DataOf
  <2>2. CASE Before(older, committed) /\ 4 <= cut
    BY <1>2, <2>2 DEF Before, Layout
  <2>3. CASE ~(4 <= cut)
    <3>1. ~(5 <= cut) /\ ~(6 <= cut)
      BY <2>3
    <3> QED BY <1>2, <2>3, <3>1 DEF Layout, DataOf
  <2> QED BY <1>3, <2>1, <2>2, <2>3
<1> QED BY <1>4, <1>5 DEF Sound, SoundFor, Mark

LEMMA RecordInvInit == Init => RecordInv
BY SoundBlank DEF Init, RecordInv, Sound

LEMMA RecordInvRadio ==
  ASSUME TypeOK, BanksInv, RecordInv, RadioTask
  PROVE  RecordInv'
<1>1. UNCHANGED <<task, done, flashContent, flash, cutOff>>
  BY DEF RadioTask, bleServerInit, ReplyKnownKey, bleWalletCreateNewKey, writer, fixed
<1>2. /\ committed \in Config /\ Sound(committed) /\ generated \in Nat
      /\ generated' = generated \/ generated' = generated + 1
  BY DEF TypeOK, RecordInv, RadioTask, bleServerInit, ReplyKnownKey, bleWalletCreateNewKey
<1>3. /\ SoundFor(committed, generated', cutOff')
      /\ (Sound(flash) => Sound(flash)') /\ (Sound(flashContent) => Sound(flashContent)')
  BY <1>1, <1>2, SoundStays DEF Sound
<1>4. ASSUME SoundFor(committed', generated', cutOff') PROVE RecordInv'
  BY <1>1, <1>3, <1>4 DEF RecordInv, Sound
<1>5. CASE committed' = committed
  BY <1>2, <1>3, <1>4, <1>5
<1>6. CASE bleServerInit
  <2>0. bank[modifiable_bank] = committed
    BY <1>6 DEF bleServerInit, BanksInv, TypeOK
  <2>1. CASE bank[modifiable_bank]["configured"] = Set
    BY <1>5, <1>6, <2>1 DEF bleServerInit
  <2>2. CASE bank[modifiable_bank]["configured"] # Set
    <3>1. /\ bleFlushConfig([bank EXCEPT ![modifiable_bank] = Configured(committed, generated')])
          /\ generated' = generated + 1
      BY <1>6, <2>0, <2>2 DEF bleServerInit
    <3>2. committed' = Configured(committed, generated')
      BY <1>2, <3>1, EditTypes, FlushCommits
    <3> QED BY <1>1, <1>2, <1>4, <3>1, <3>2, SoundEdits DEF Sound
  <2> QED BY <2>1, <2>2
<1>7. CASE ReplyKnownKey
  BY <1>5, <1>7 DEF ReplyKnownKey
<1>8. CASE bleWalletCreateNewKey
  <2>0. bank[modifiable_bank] = committed
    BY <1>8 DEF bleWalletCreateNewKey, BanksInv, TypeOK
  <2>1. /\ bleFlushConfig([bank EXCEPT ![modifiable_bank] = WithKey(committed, generated')])
        /\ generated' = generated + 1
    BY <1>8, <2>0 DEF bleWalletCreateNewKey
  <2>2. committed' = WithKey(committed, generated')
    BY <1>2, <2>1, EditTypes, FlushCommits
  <2> QED BY <1>1, <1>2, <1>4, <2>1, <2>2, SoundEdits DEF Sound
<1> QED BY <1>6, <1>7, <1>8 DEF RadioTask

LEMMA RecordInvProgram ==
  ASSUME TypeOK, RecordInv, ProgramField
  PROVE  RecordInv'
<1>1. /\ flash' = [flash EXCEPT ![Layout[done + 1]] = flashContent[Layout[done + 1]]]
      /\ UNCHANGED <<committed, generated, cutOff>> /\ task = "program"
  BY DEF ProgramField, history, fixed
<1>2. done \in 0 .. 5 /\ flash \in Config /\ flashContent \in Config
  BY <1>1 DEF TypeOK, NumFields
<1>3. Sound(committed)' /\ SoundFor(flashContent, generated', cutOff')
  BY <1>1 DEF RecordInv, Sound
<1>4. \A i \in 1 .. 6 : flash'[Layout[i]] = IF i <= done + 1 THEN flashContent[Layout[i]]
                                                             ELSE Erased
  <2> SUFFICES ASSUME NEW i \in 1 .. 6
               PROVE  flash'[Layout[i]] = IF i <= done + 1 THEN flashContent[Layout[i]] ELSE Erased
    OBVIOUS
  <2>1. CASE i = done + 1
    BY <1>1, <1>2, <2>1, LayoutType DEF Config
  <2>2. CASE i # done + 1
    <3>1. Layout[i] # Layout[done + 1]
      BY <1>2, <2>2 DEF Layout
    <3>2. flash'[Layout[i]] = flash[Layout[i]]
      BY <1>1, <1>2, <3>1, LayoutType DEF Config
    <3>3. i <= done <=> i <= done + 1
      BY <1>2, <2>2
    <3> QED BY <1>1, <3>2, <3>3, LayoutType DEF RecordInv
  <2> QED BY <2>1, <2>2
<1>5. CASE done + 1 = NumFields
  <2>1. \A f \in Field : flash'[f] = flashContent[f]
    BY <1>4, <1>5 DEF Layout, Field, NumFields
  <2>2. Sound(flash)'
    BY <1>3, <2>1, LayoutMarks DEF Sound, SoundFor
  <2>3. task' = "idle"
    BY <1>5 DEF ProgramField
  <2> QED BY <1>3, <2>2, <2>3 DEF RecordInv
<1>6. CASE done + 1 # NumFields
  <2>1. done' = done + 1 /\ task' = "program" /\ flashContent' = flashContent
    BY <1>1, <1>6 DEF ProgramField
  <2> QED BY <1>1, <1>2, <1>3, <1>4, <2>1, LayoutType DEF RecordInv, Sound
<1> QED BY <1>5, <1>6

(* Wherever power goes inside the programming, a mark that is in the page    *)
(* has its data there, or is recorded as cut off from it.                    *)
LEMMA RecordInvPowerLoss ==
  ASSUME TypeOK, RecordInv, PowerLoss
  PROVE  RecordInv'
<1>1. /\ committed' = Blank /\ task' = "idle" /\ generated' = generated
      /\ flash' \in LeftInFlash /\ cutOff' = cutOff \cup CutOffHere
  BY DEF PowerLoss
<1>2. Sound(committed)'
  BY <1>1, SoundBlank DEF Sound
<1>3. CASE task # "program"
  <2>1. flash' = flash /\ Sound(flash)
    BY <1>1, <1>3 DEF LeftInFlash, RecordInv
  <2> QED BY <1>1, <1>2, <2>1, SoundStays DEF RecordInv, TypeOK, Sound
<1>4. CASE task = "program"
  <2>1. done \in 0 .. 5 /\ flash \in Config
    BY <1>4 DEF TypeOK, NumFields
  <2>2. \A i \in 1 .. 6 : flash[Layout[i]] = IF i <= done THEN flashContent[Layout[i]] ELSE Erased
    BY <1>4, LayoutType DEF RecordInv
  <2>3. \/ flash' = flash
        \/ Layout[done + 1] \notin Mark /\ flash' = [flash EXCEPT ![Layout[done + 1]] = Half]
    BY <1>1, <1>4 DEF LeftInFlash
  <2>4. \A i \in 1 .. done : flash'[Layout[i]] = flashContent[Layout[i]]
    <3> SUFFICES ASSUME NEW i \in 1 .. done PROVE flash'[Layout[i]] = flashContent[Layout[i]]
      OBVIOUS
    <3>1. Layout[i] # Layout[done + 1] /\ Layout[i] \in Field /\ i \in 1 .. 6 /\ i <= done
      BY <2>1, LayoutType DEF Layout
    <3> QED BY <2>1, <2>2, <2>3, <3>1 DEF Config
  <2>5. ASSUME NEW m \in Mark \ cutOff', flash'[m] # Erased
        PROVE  \E k \in 1 .. generated' : \A f \in DataOf(m) : flash'[f] = k
    <3>1. flash'[m] = flash[m]
      BY <2>1, <2>3, LayoutMarks DEF Config
    <3>2. m \in Programmed
      BY <2>1, <2>2, <2>5, <3>1 DEF Programmed, Mark, Layout
    <3>3. \A f \in Programmed : flash'[f] = flashContent[f]
      BY <2>4 DEF Programmed
    <3>4. flashContent[m] # Erased
      BY <2>5, <3>2, <3>3
    <3>5. DataOf(m) \subseteq Programmed
      BY <1>1, <1>4, <2>5, <3>2, <3>4 DEF CutOffHere
    <3>6. PICK k \in 1 .. generated : \A f \in DataOf(m) : flashContent[f] = k
      BY <1>1, <1>4, <2>5, <3>4 DEF RecordInv, Sound, SoundFor
    <3> QED BY <1>1, <3>3, <3>5, <3>6
  <2>6. Sound(flash)'
    BY <2>5 DEF Sound, SoundFor
  <2> QED BY <1>1, <1>2, <2>6 DEF RecordInv
<1> QED BY <1>3, <1>4

LEMMA RecordInvStep == TypeOK /\ BanksInv /\ CopyInv /\ RecordInv /\ [Next]_vars => RecordInv'
<1> SUFFICES ASSUME TypeOK, BanksInv, CopyInv, RecordInv, [Next]_vars
             PROVE  RecordInv'
  OBVIOUS
<1>1. CASE bleConfigInit
  BY <1>1 DEF bleConfigInit, RecordInv, CopyInv, writer, fixed, Sound
<1>2. CASE bleConfigTask \/ CopyField \/ Compare
  BY <1>2 DEF bleConfigTask, CopyField, Compare, RecordInv, Sound, history, fixed
<1>3. CASE ErasePage
  <2>1. PICK older \in 1 .. Len(versions), cut \in Nat : CopiedFrom(versions[older], cut)
    BY <1>3 DEF ErasePage, CopyInv
  <2>2. Sound(flashContent)
    BY <1>3, <2>1, SoundCopy DEF ErasePage, CopyInv, RecordInv
  <2>3. /\ UNCHANGED <<generated, cutOff, committed, flashContent>> /\ task' = "program"
        /\ flash' = Blank /\ done' = 0
    BY <1>3 DEF ErasePage, history, fixed
  <2>4. \A i \in 1 .. NumFields : flash'[Layout[i]] = Erased /\ ~(i <= done')
    BY <2>3, LayoutType DEF Blank
  <2> QED BY <2>2, <2>3, <2>4 DEF RecordInv, Sound
<1>4. CASE UNCHANGED vars
  BY <1>4 DEF vars, RecordInv, Sound, writer, history, fixed
<1> QED BY <1>1, <1>2, <1>3, <1>4, RecordInvRadio, RecordInvProgram, RecordInvPowerLoss
        DEF Next, ConfigTask

(* Whatever page a reboot can find, every mark has its data, made together,  *)
(* unless power went between the programming of the two; a cut at any other  *)
(* point, and a torn copy, leave it so (EEPROM.cpp:93-120).                  *)
THEOREM RecordsComplete == Spec => []LoadedRecordComplete
<1>1. RecordInv => LoadedRecordComplete
  BY DEF RecordInv, Sound, SoundFor, LoadedRecordComplete, Complete
<1> QED
  BY <1>1, BanksInvInit, BanksInvStep, CopyInvInit, CopyInvStep, RecordInvInit, RecordInvStep,
     TypeCorrect, PTL DEF Spec

(* A reply never carries bytes that are no key, unless the build takes an    *)
(* erased bool as true or power went between the mark of a key and the key   *)
(* (ble_app_protocol.cpp:293).                                               *)
THEOREM RepliesAreKeys == Spec => []ReplyIsAKey
<1>1. Init => ReplyIsAKey
  BY DEF Init, ReplyIsAKey, RepliesAreMade
<1>2. TypeOK /\ BanksInv /\ RecordInv /\ ReplyIsAKey /\ [Next]_vars => ReplyIsAKey'
  <2> SUFFICES ASSUME TypeOK, BanksInv, RecordInv, ReplyIsAKey, [Next]_vars,
                      ~erasedBool', "key_created" \notin cutOff'
               PROVE  replied' \subseteq 1 .. generated'
    BY DEF ReplyIsAKey, RepliesAreMade
  <2>0. ~erasedBool /\ "key_created" \notin cutOff
    BY DEF Next, bleConfigInit, RadioTask, bleServerInit, ReplyKnownKey, bleWalletCreateNewKey,
           ConfigTask, bleConfigTask, CopyField, Compare, ErasePage, ProgramField, PowerLoss,
           vars, fixed
  <2>1. replied \subseteq 1 .. generated /\ generated \in Nat
    BY <2>0 DEF ReplyIsAKey, RepliesAreMade, TypeOK
  <2>2. CASE ReplyKnownKey
    <3>1. bank[modifiable_bank] = committed /\ committed["key_created"] # Erased
      BY <2>0, <2>2 DEF ReplyKnownKey, BanksInv, TypeOK, KeyCreated
    <3>2. committed["public_key"] \in 1 .. generated
      BY <2>0, <3>1 DEF RecordInv, Sound, SoundFor, Mark, DataOf
    <3> QED BY <2>1, <2>2, <3>1, <3>2 DEF ReplyKnownKey
  <2>3. CASE bleWalletCreateNewKey
    <3>0. bank[modifiable_bank] = committed /\ committed \in Config
      BY <2>3 DEF bleWalletCreateNewKey, BanksInv, TypeOK
    <3> DEFINE c == WithKey(committed, generated + 1)
    <3>1. c \in Config /\ c["public_key"] = generated + 1
      <4>1. \A n : WithKey(committed, n)["public_key"] = n
        BY <3>0 DEF WithKey, Config, Field
      <4> QED BY <2>1, <3>0, <4>1, EditTypes
    <3>2. bleFlushConfig([bank EXCEPT ![modifiable_bank] = c])
      BY <2>3, <3>0 DEF bleWalletCreateNewKey
    <3> HIDE DEF c
    <3>3. bank'[modifiable_bank] = c
      BY <3>1, <3>2, FlushCommits, FlushType DEF TypeOK
    <3>4. replied' = replied \cup {generated + 1} /\ generated' = generated + 1
      BY <2>3, <3>1, <3>3 DEF bleWalletCreateNewKey
    <3> QED BY <2>1, <3>4
  <2>4. CASE bleServerInit
    <3>1. replied' = replied /\ (generated' = generated \/ generated' = generated + 1)
      BY <2>4 DEF bleServerInit
    <3> QED BY <2>1, <3>1
  <2>5. CASE bleConfigInit \/ PowerLoss
    BY <2>1, <2>5 DEF bleConfigInit, PowerLoss
  <2>6. CASE ConfigTask
    BY <2>1, <2>6 DEF ConfigTask, bleConfigTask, CopyField, Compare, ErasePage, ProgramField, history
  <2>7. CASE UNCHANGED vars
    BY <2>1, <2>7 DEF vars, history
  <2> QED BY <2>2, <2>3, <2>4, <2>5, <2>6, <2>7 DEF Next, RadioTask
<1> QED
  BY <1>1, <1>2, BanksInvInit, BanksInvStep, CopyInvInit, CopyInvStep, RecordInvInit,
     RecordInvStep, TypeCorrect, PTL DEF Spec
=============================================================================
