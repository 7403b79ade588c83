---------------------------- MODULE DriversProofs ----------------------------
(***************************************************************************)
(* Proofs about the three drivers of the Arduino core, each alone: the     *)
(* interrupts of the pads, Serial and SoftwareSerial, for buffers, tables  *)
(* and frames of any size.                                                 *)
(***************************************************************************)
EXTENDS MCDrivers, FiniteSetTheorems, SequenceTheorems, WellFoundedInduction, TLAPS

(* A set of numbers that is not empty has a smallest.                      *)
LEMMA Smallest ==
  ASSUME NEW T \in SUBSET Nat, T # {}
  PROVE  \E x \in T : \A y \in T : x <= y
<1>1. PICK x \in T : \A y \in T : ~ (<<y, x>> \in OpToRel(<, Nat))
  BY NatLessThanWellFounded, WFMin
<1>2. ASSUME NEW y \in T PROVE x <= y
  <2>1. <<y, x>> \in Nat \X Nat /\ <<y, x>>[1] = y /\ <<y, x>>[2] = x
    OBVIOUS
  <2>2. ~ (y < x)
    BY <1>1, <2>1, Zenon DEF OpToRel
  <2> QED BY <2>2
<1> QED BY <1>2

-----------------------------------------------------------------------------
(* The interrupts of the pads.                                             *)

Table == gpio_isr_entries
Attaching == {"pad", "callback", "arg", "mode", "direction", "clear", "enable", "count"}
Detaching == {"disable", "unflag", "undirect", "shift"}

(* Where the sketch writes: an attach at or behind the end of the table    *)
(* that is not full, a detach inside.                                      *)
PlaceOfCall ==
  /\ call.at \in Attaching => gpio_num_isr < MaxPads /\ call.i <= gpio_num_isr
  /\ call.at \in Detaching => call.i < gpio_num_isr

(* What the interrupt calls is of a pad that was enabled when it was       *)
(* taken, and still is: the sketch does not run.                           *)
CallsTheEnabled ==
  /\ isr.at # "off" => isr.mask \subseteq gpio.enabled
  /\ isr.at \in {"call", "clear"} => isr.i < gpio_num_isr
  /\ isr.at = "call" => Table[isr.i].pad \in isr.mask /\ Table[isr.i].callback # 0

PadOnce ==
  \A i, j \in 0 .. MaxPads :
    i < gpio_num_isr /\ j < gpio_num_isr /\ Table[i].pad = Table[j].pad => i = j

(* The pad that is attached is in the table at that place at most.  Where  *)
(* it is not, its interrupt is off until its entry is written.             *)
EntryWritten ==
  /\ \A j \in 0 .. MaxPads :
       j < gpio_num_isr /\ Table[j].pad = call.entry.pad => j = call.i
  /\ call.i = gpio_num_isr /\ call.at # "count" => call.entry.pad \notin gpio.enabled
  /\ call.at \notin {"pad", "callback"} => attached[call.entry.pad] = call.entry.callback

(* The callback of an entry whose interrupt is on is the latest.           *)
EnabledIsLatest ==
  \A i \in 0 .. MaxPads :
    i < gpio_num_isr /\ Table[i].pad \in gpio.enabled =>
      Table[i].callback = attached[Table[i].pad]

(* A pad whose interrupt is on has an entry, or one that is counted next.  *)
EnabledHasEntry ==
  \A p \in gpio.enabled :
    \/ \E i \in 0 .. MaxPads : i < gpio_num_isr /\ Table[i].pad = p
    \/ call.at = "count" /\ call.entry.pad = p

TableInv ==
  /\ PadOnce /\ EnabledIsLatest /\ EnabledHasEntry
  /\ call.at \in Attaching => EntryWritten

(* What an entry holds was given for its pad, but for one half written;    *)
(* so it stays when entries are moved down.                                *)
Owned(e) == e.callback # 0 => owner[e.callback] = e.pad /\ e.arg = e.callback

HalfWritten(i) ==
  call.i = i /\ (call.at = "arg" \/ (call.at = "shift" /\ i < gpio_num_isr - 1))

CallOwned ==
  /\ call.entry.callback \in 1..attaches
  /\ owner[call.entry.callback] = call.entry.pad /\ call.entry.arg = call.entry.callback
  /\ call.i < gpio_num_isr \/ call.at # "pad" => Table[call.i].pad = call.entry.pad
  /\ call.at \notin {"pad", "callback"} => Table[call.i].callback = call.entry.callback
  /\ call.at \notin {"pad", "callback", "arg"} => Table[call.i].arg = call.entry.arg

OwnInv ==
  /\ \A i \in 0 .. MaxPads :
       i < gpio_num_isr => /\ Table[i].callback \in 0..attaches
                           /\ HalfWritten(i) \/ Owned(Table[i])
  /\ call.at \in Attaching => CallOwned


PadsType == [level : [Pad -> 0..1], dir : [Pad -> SUBSET (0..1)],
             flags : SUBSET Pad, enabled : SUBSET Pad, pins : PinMaps]
CallType == [at : {"none", "pad", "callback", "arg", "mode", "direction", "clear", "enable",
                   "count", "disable", "unflag", "undirect", "shift"},
             i : 0..MaxPads, entry : G!Entry]

GpioFrame == G!TypeOK /\ PlaceOfCall /\ CallsTheEnabled

LEMMA GpioFacts ==
  /\ Pad \subseteq Nat /\ 0 \in Pad
  /\ MaxPads \in Nat \ {0} /\ MaxAttach \in Nat \ {0} /\ MaxEdges \in Nat \ {0}
  /\ Modes \subseteq {"CHANGE", "LOW", "HIGH"}
BY DriversAssumption DEF G!GpioConstants

(* What the search for the pad finds.                                      *)
LEMMA FindIs ==
  ASSUME gpio_num_isr \in 0..MaxPads, NEW pad
  PROVE  /\ G!Find(pad) \in 0..gpio_num_isr
         /\ G!Find(pad) = gpio_num_isr \/ Table[G!Find(pad)].pad = pad
         /\ \A j \in 0..MaxPads : j < G!Find(pad) => Table[j].pad # pad
<1> DEFINE T == {k \in 0..gpio_num_isr : k = gpio_num_isr \/ Table[k].pad = pad}
           Found(k) == /\ k = gpio_num_isr \/ Table[k].pad = pad
                       /\ \A j \in 0..MaxPads : j < k => Table[j].pad # pad
<1>1. gpio_num_isr \in Nat /\ gpio_num_isr <= MaxPads /\ MaxPads \in Nat
  BY GpioFacts
<1>2. T \in SUBSET Nat /\ gpio_num_isr \in T
  BY <1>1
<1>3. PICK k \in T : \A j \in T : k <= j
  <2> HIDE DEF T
  <2> QED BY <1>2, Smallest
<1>4. ASSUME NEW j \in 0..MaxPads, j < k PROVE Table[j].pad # pad
  <2>1. j \in 0..gpio_num_isr
    BY <1>1, <1>4
  <2>2. j \notin T
    BY <1>1, <1>3, <1>4
  <2> QED BY <2>1, <2>2
<1>5. k \in 0..gpio_num_isr /\ Found(k)
  BY <1>3, <1>4
<1>6. \E i \in 0..gpio_num_isr : Found(i)
  BY <1>5
<1>7. G!Find(pad) = CHOOSE i \in 0..gpio_num_isr : Found(i)
  BY DEF G!Find, Table
<1> HIDE DEF Found
<1>8. G!Find(pad) \in 0..gpio_num_isr /\ Found(G!Find(pad))
  BY <1>6, <1>7
<1> QED BY <1>8 DEF Found

LEMMA GpioInitInv == G!Init => GpioFrame /\ TableInv /\ OwnInv
<1> SUFFICES ASSUME G!Init PROVE GpioFrame /\ TableInv /\ OwnInv
  OBVIOUS
<1> USE GpioFacts
<1>1. 0 \in 0..MaxPads /\ 0 \in 0..MaxAttach /\ 0 \in 0..MaxEdges
  OBVIOUS
<1>2. G!NoEntry \in G!Entry
  BY <1>1 DEF G!NoEntry, G!Entry
<1>3. G!TypeOK
  <2>1. gpio_isr_entries \in [0..MaxPads -> G!Entry]
    BY <1>2 DEF G!Init
  <2>2. gpio \in PadsType
    BY DEF G!Init, PadsType
  <2>3. call \in CallType
    BY <1>1, <1>2 DEF G!Init, CallType
  <2>4. isr \in [at : {"off", "scan", "call", "clear"}, i : 0..MaxPads, mask : SUBSET Pad]
    BY <1>1 DEF G!Init
  <2> QED BY <1>1, <2>1, <2>2, <2>3, <2>4 DEF G!Init, G!TypeOK, PadsType, CallType
<1>4. PlaceOfCall /\ CallsTheEnabled
  BY DEF G!Init, PlaceOfCall, CallsTheEnabled, Attaching, Detaching
<1>5. TableInv
  BY DEF G!Init, TableInv, PadOnce, EnabledIsLatest, EnabledHasEntry, Attaching
<1>6. OwnInv
  BY DEF G!Init, OwnInv, Attaching
<1> QED BY <1>3, <1>4, <1>5, <1>6 DEF GpioFrame

-----------------------------------------------------------------------------
(* The sketch runs while the interrupt does not.                           *)
LEMMA SketchFrame ==
  ASSUME GpioFrame, ~G!Preempted, isr' = isr,
         gpio_isr_entries' \in [0..MaxPads -> G!Entry],
         gpio_num_isr' \in 0..MaxPads,
         gpio' \in PadsType,
         call' \in CallType,
         attached' \in [Pad -> 0..MaxAttach], doubled' \in BOOLEAN, owner' \in [1..MaxAttach -> Pad],
         attaches' \in 0..MaxAttach, edges' = edges,
         PlaceOfCall'
  PROVE  GpioFrame'
<1>1. isr.at = "off"
  BY DEF G!Preempted
<1>2. G!TypeOK'
  BY DEF GpioFrame, G!TypeOK, PadsType, CallType
<1>3. CallsTheEnabled'
  BY <1>1 DEF CallsTheEnabled
<1> QED BY <1>2, <1>3 DEF GpioFrame

LEMMA CallAttachFrame ==
  ASSUME GpioFrame, NEW pad \in Pad, NEW mode \in Modes, G!CallAttach(pad, mode)
  PROVE  GpioFrame'
<1>1. gpio_num_isr \in 0..MaxPads /\ attaches \in Nat /\ attaches < MaxAttach
      /\ attaches' = attaches + 1 /\ gpio_num_isr < MaxPads
  BY GpioFacts DEF GpioFrame, G!TypeOK, G!CallAttach
<1>2. attaches' \in 0..MaxAttach
  BY <1>1, GpioFacts
<1>3. G!Find(pad) \in 0..gpio_num_isr /\ G!Find(pad) \in 0..MaxPads
  BY <1>1, FindIs, GpioFacts
<1>4. [pad |-> pad, callback |-> attaches', arg |-> attaches', mode |-> mode] \in G!Entry
  BY <1>2, GpioFacts DEF G!Entry
<1>5. call' = [at |-> "pad", i |-> G!Find(pad),
               entry |-> [pad |-> pad, callback |-> attaches', arg |-> attaches', mode |-> mode]]
  BY DEF G!CallAttach
<1>6. call' \in CallType
  BY <1>3, <1>4, <1>5 DEF CallType
<1>7. /\ UNCHANGED <<gpio_isr_entries, gpio_num_isr, gpio, isr, attached, doubled, edges>>
      /\ owner' = [owner EXCEPT ![attaches'] = pad]
      /\ ~G!Preempted
  BY DEF G!CallAttach, G!At
<1>8. PlaceOfCall'
  BY <1>1, <1>3, <1>5, <1>7 DEF PlaceOfCall, Attaching, Detaching
<1>9. /\ gpio_isr_entries \in [0..MaxPads -> G!Entry]
      /\ gpio \in PadsType
      /\ attached \in [Pad -> 0..MaxAttach] /\ doubled \in BOOLEAN
      /\ owner \in [1..MaxAttach -> Pad]
  BY DEF GpioFrame, G!TypeOK, PadsType
<1>10. owner' \in [1..MaxAttach -> Pad]
  BY <1>7, <1>9
<1> QED BY <1>1, <1>2, <1>6, <1>7, <1>8, <1>9, <1>10, SketchFrame

(* A step of the sketch that goes on with its call at another place.       *)
LEMMA GoesOnFrame ==
  ASSUME GpioFrame, ~G!Preempted, NEW step,
         step \in {"none", "pad", "callback", "arg", "mode", "direction", "clear", "enable",
                   "count", "disable", "unflag", "undirect", "shift"},
         call' = [call EXCEPT !.at = step],
         UNCHANGED <<gpio_num_isr, isr, attaches, edges>>,
         step \in Attaching => call.at \in Attaching,
         step \in Detaching => call.at \in Detaching,
         gpio_isr_entries' \in [0..MaxPads -> G!Entry], gpio' \in PadsType,
         attached' \in [Pad -> 0..MaxAttach], doubled' \in BOOLEAN, owner' \in [1..MaxAttach -> Pad]
  PROVE  GpioFrame'
<1>1. call \in CallType
  BY DEF GpioFrame, G!TypeOK, CallType
<1>2. call' \in CallType
  BY <1>1 DEF CallType
<1>3. gpio_num_isr \in 0..MaxPads /\ attaches \in 0..MaxAttach
  BY DEF GpioFrame, G!TypeOK
<1>4. call'.at = step /\ call'.i = call.i
  BY <1>1 DEF CallType
<1>5. PlaceOfCall'
  BY <1>4 DEF GpioFrame, PlaceOfCall
<1> QED BY <1>2, <1>3, <1>5, SketchFrame

LEMMA WriteFieldFrame ==
  ASSUME GpioFrame, NEW field \in DOMAIN G!After, G!WriteField(field)
  PROVE  GpioFrame'
<1>1. /\ field \in {"pad", "callback", "arg", "mode"}
      /\ G!After[field] \in {"callback", "arg", "mode", "direction"}
  BY DEF G!After
<1>2. call \in CallType /\ gpio_isr_entries \in [0..MaxPads -> G!Entry]
      /\ gpio \in PadsType /\ attached \in [Pad -> 0..MaxAttach] /\ doubled \in BOOLEAN
      /\ owner \in [1..MaxAttach -> Pad]
  BY DEF GpioFrame, G!TypeOK, CallType, PadsType
<1>3. gpio_isr_entries' \in [0..MaxPads -> G!Entry]
  <2>1. gpio_isr_entries' = [gpio_isr_entries EXCEPT ![call.i][field] = call.entry[field]]
    BY DEF G!WriteField
  <2>2. call.i \in 0..MaxPads /\ call.entry \in G!Entry
    BY <1>2 DEF CallType
  <2>3. [gpio_isr_entries[call.i] EXCEPT ![field] = call.entry[field]] \in G!Entry
    BY <1>1, <1>2, <2>2 DEF G!Entry
  <2> QED BY <1>2, <2>1, <2>2, <2>3
<1>4. attached' \in [Pad -> 0..MaxAttach]
  <2>1. call.entry.pad \in Pad /\ call.entry.callback \in 0..MaxAttach
    BY <1>2 DEF CallType, G!Entry
  <2> QED BY <1>2, <2>1 DEF G!WriteField
<1>5. /\ ~G!Preempted /\ call.at = field /\ call' = [call EXCEPT !.at = G!After[field]]
      /\ UNCHANGED <<gpio_num_isr, gpio, isr, owner, doubled, attaches, edges>>
  BY DEF G!WriteField, G!At
<1>6. /\ G!After[field] \in {"none", "pad", "callback", "arg", "mode", "direction", "clear",
                             "enable", "count", "disable", "unflag", "undirect", "shift"}
      /\ call.at \in Attaching /\ G!After[field] \notin Detaching
  BY <1>1, <1>5 DEF Attaching, Detaching
<1> QED BY <1>2, <1>3, <1>4, <1>5, <1>6, GoesOnFrame

(* The steps of the two calls that change the pad's direction, flag and    *)
(* interrupt.                                                              *)
LEMMA PadStepFrame ==
  ASSUME GpioFrame,
         G!SetDirection \/ G!ClearFlag \/ G!EnableInterrupt \/ G!DisableInterrupt \/ G!Unflag
           \/ G!NoDirection
  PROVE  GpioFrame'
<1>1. /\ call \in CallType /\ gpio \in PadsType /\ attached \in [Pad -> 0..MaxAttach]
      /\ gpio_isr_entries \in [0..MaxPads -> G!Entry] /\ doubled \in BOOLEAN
      /\ owner \in [1..MaxAttach -> Pad]
  BY DEF GpioFrame, G!TypeOK, CallType, PadsType
<1>2. call.entry.pad \in Pad
  BY <1>1 DEF CallType, G!Entry
<1>3. CASE G!SetDirection
  <2>1. G!Direction(call.entry.mode) \in SUBSET (0..1)
    BY DEF G!Direction
  <2>2. gpio' \in PadsType
    BY <1>1, <1>2, <1>3, <2>1 DEF G!SetDirection, PadsType
  <2> QED BY <1>1, <1>3, <2>2, GoesOnFrame DEF G!SetDirection, G!At, Attaching, Detaching
<1>4. CASE G!ClearFlag
  <2>1. gpio' \in PadsType
    BY <1>1, <1>4 DEF G!ClearFlag, PadsType
  <2> QED BY <1>1, <1>4, <2>1, GoesOnFrame DEF G!ClearFlag, G!At, Attaching, Detaching
<1>5. CASE G!EnableInterrupt
  <2>1. gpio' \in PadsType
    BY <1>1, <1>2, <1>5 DEF G!EnableInterrupt, PadsType
  <2> QED BY <1>1, <1>5, <2>1, GoesOnFrame DEF G!EnableInterrupt, G!At, Attaching, Detaching
<1>6. CASE G!DisableInterrupt
  <2>1. gpio' \in PadsType
    BY <1>1, <1>6 DEF G!DisableInterrupt, PadsType
  <2>2. attached' \in [Pad -> 0..MaxAttach]
    <3>1. 0 \in 0..MaxAttach /\ attached' = [attached EXCEPT ![call.entry.pad] = 0]
      BY <1>6, GpioFacts DEF G!DisableInterrupt
    <3> QED BY <1>1, <3>1
  <2> QED BY <1>1, <1>6, <2>1, <2>2, GoesOnFrame DEF G!DisableInterrupt, G!At, Attaching, Detaching
<1>7. CASE G!Unflag
  <2>1. gpio' \in PadsType
    BY <1>1, <1>7 DEF G!Unflag, PadsType
  <2> QED BY <1>1, <1>7, <2>1, GoesOnFrame DEF G!Unflag, G!At, Attaching, Detaching
<1>8. CASE G!NoDirection
  <2>1. gpio' \in PadsType
    BY <1>1, <1>2, <1>8 DEF G!NoDirection, PadsType
  <2> QED BY <1>1, <1>8, <2>1, GoesOnFrame DEF G!NoDirection, G!At, Attaching, Detaching
<1> QED BY <1>3, <1>4, <1>5, <1>6, <1>7, <1>8

LEMMA CountEntryFrame ==
  ASSUME GpioFrame, G!CountEntry
  PROVE  GpioFrame'
<1>1. /\ call \in CallType /\ gpio \in PadsType /\ attached \in [Pad -> 0..MaxAttach]
      /\ gpio_isr_entries \in [0..MaxPads -> G!Entry] /\ doubled \in BOOLEAN
      /\ owner \in [1..MaxAttach -> Pad]
      /\ gpio_num_isr \in 0..MaxPads /\ attaches \in 0..MaxAttach
  BY DEF GpioFrame, G!TypeOK, CallType, PadsType
<1>2. call' = [call EXCEPT !.at = "none"] /\ call' \in CallType /\ call'.at = "none"
  BY <1>1 DEF G!CountEntry, CallType
<1>3. gpio_num_isr' \in 0..MaxPads
  <2>1. gpio_num_isr < MaxPads
    BY DEF GpioFrame, PlaceOfCall, G!CountEntry, G!At, Attaching
  <2> QED BY <1>1, <2>1, GpioFacts DEF G!CountEntry
<1>4. PlaceOfCall'
  BY <1>2 DEF PlaceOfCall, Attaching, Detaching
<1> QED BY <1>1, <1>2, <1>3, <1>4, SketchFrame DEF G!CountEntry, G!At

LEMMA CallDetachFrame ==
  ASSUME GpioFrame, NEW pad \in Pad, G!CallDetach(pad)
  PROVE  GpioFrame'
<1>1. /\ call \in CallType /\ gpio \in PadsType /\ attached \in [Pad -> 0..MaxAttach]
      /\ gpio_isr_entries \in [0..MaxPads -> G!Entry] /\ doubled \in BOOLEAN
      /\ owner \in [1..MaxAttach -> Pad]
      /\ gpio_num_isr \in 0..MaxPads /\ attaches \in 0..MaxAttach
  BY DEF GpioFrame, G!TypeOK, CallType, PadsType
<1>2. /\ G!Find(pad) \in 0..MaxPads /\ G!Find(pad) < gpio_num_isr
  BY <1>1, FindIs, GpioFacts DEF G!CallDetach
<1>3. call' = [at |-> "disable", i |-> G!Find(pad), entry |-> gpio_isr_entries[G!Find(pad)]]
  BY DEF G!CallDetach
<1>4. call' \in CallType /\ call'.at = "disable" /\ call'.i < gpio_num_isr
  BY <1>1, <1>2, <1>3 DEF CallType
<1>5. /\ UNCHANGED <<gpio_isr_entries, gpio_num_isr, gpio, isr, attached, owner, doubled, attaches, edges>>
      /\ ~G!Preempted
  BY DEF G!CallDetach, G!At
<1>6. PlaceOfCall'
  BY <1>4, <1>5 DEF PlaceOfCall, Attaching, Detaching
<1> QED BY <1>1, <1>4, <1>5, <1>6, SketchFrame

LEMMA ShiftEntryFrame ==
  ASSUME GpioFrame, G!ShiftEntry
  PROVE  GpioFrame'
<1>1. /\ call \in CallType /\ gpio \in PadsType /\ attached \in [Pad -> 0..MaxAttach]
      /\ gpio_isr_entries \in [0..MaxPads -> G!Entry] /\ doubled \in BOOLEAN
      /\ owner \in [1..MaxAttach -> Pad]
      /\ gpio_num_isr \in 0..MaxPads /\ attaches \in 0..MaxAttach
  BY DEF GpioFrame, G!TypeOK, CallType, PadsType
<1>2. /\ call.i \in 0..MaxPads /\ call.i < gpio_num_isr - 1 /\ call.at = "shift"
      /\ call' = [call EXCEPT !.i = @ + 1]
  BY <1>1 DEF G!ShiftEntry, G!At, CallType
<1>3. call.i + 1 \in 0..MaxPads /\ call.i + 1 < gpio_num_isr
  BY <1>1, <1>2, GpioFacts
<1>4. call' \in CallType /\ call'.at = "shift" /\ call'.i = call.i + 1
  BY <1>1, <1>2, <1>3 DEF CallType
<1>5. gpio_isr_entries' \in [0..MaxPads -> G!Entry]
  BY <1>1, <1>2, <1>3 DEF G!ShiftEntry
<1>6. PlaceOfCall'
  BY <1>3, <1>4 DEF PlaceOfCall, Attaching, Detaching, G!ShiftEntry
<1> QED BY <1>1, <1>4, <1>5, <1>6, SketchFrame DEF G!ShiftEntry, G!At

LEMMA CopyPartFrame ==
  ASSUME GpioFrame, NEW fields \in G!Words, G!CopyPart(fields)
  PROVE  GpioFrame'
<1>1. /\ call \in CallType /\ gpio \in PadsType /\ attached \in [Pad -> 0..MaxAttach]
      /\ gpio_isr_entries \in [0..MaxPads -> G!Entry]
      /\ owner \in [1..MaxAttach -> Pad]
      /\ gpio_num_isr \in 0..MaxPads /\ attaches \in 0..MaxAttach
  BY DEF GpioFrame, G!TypeOK, CallType, PadsType
<1>2. /\ call.i \in 0..MaxPads /\ call.i < gpio_num_isr - 1
      /\ UNCHANGED <<gpio_num_isr, gpio, call, isr, attached, owner, attaches, edges>>
      /\ doubled' = TRUE /\ ~G!Preempted
  BY <1>1 DEF G!CopyPart, G!At, CallType
<1>3. call.i + 1 \in 0..MaxPads
  BY <1>1, <1>2, GpioFacts
<1> DEFINE e == gpio_isr_entries[call.i]
           f == gpio_isr_entries[call.i + 1]
           copied == [field \in {"pad", "callback", "arg", "mode"} |->
                        IF field \in fields THEN f[field] ELSE e[field]]
<1>4. e \in G!Entry /\ f \in G!Entry
  BY <1>1, <1>2, <1>3
<1>5. copied \in G!Entry
  BY <1>4 DEF G!Entry
<1>6. gpio_isr_entries' = [gpio_isr_entries EXCEPT ![call.i] = copied]
  BY DEF G!CopyPart, G!NoEntry
<1>7. gpio_isr_entries' \in [0..MaxPads -> G!Entry]
  BY <1>1, <1>2, <1>5, <1>6
<1>8. PlaceOfCall'
  BY <1>2 DEF GpioFrame, PlaceOfCall
<1> QED BY <1>1, <1>2, <1>7, <1>8, SketchFrame

LEMMA ClearLastFrame ==
  ASSUME GpioFrame, G!ClearLast
  PROVE  GpioFrame'
<1>1. /\ call \in CallType /\ gpio \in PadsType /\ attached \in [Pad -> 0..MaxAttach]
      /\ gpio_isr_entries \in [0..MaxPads -> G!Entry] /\ doubled \in BOOLEAN
      /\ owner \in [1..MaxAttach -> Pad]
      /\ gpio_num_isr \in 0..MaxPads
  BY DEF GpioFrame, G!TypeOK, CallType, PadsType
<1>2. G!NoEntry \in G!Entry
  BY GpioFacts DEF G!NoEntry, G!Entry
<1>3. gpio_isr_entries' \in [0..MaxPads -> G!Entry]
  BY <1>1, <1>2 DEF G!ClearLast
<1> QED BY <1>1, <1>3, GoesOnFrame DEF G!ClearLast, G!At, Attaching, Detaching

LEMMA SketchStepFrame ==
  ASSUME GpioFrame, G!attachInterruptArg \/ G!detachInterrupt
  PROVE  GpioFrame'
BY CallAttachFrame, WriteFieldFrame, PadStepFrame, CountEntryFrame, CallDetachFrame,
   CopyPartFrame, ShiftEntryFrame, ClearLastFrame
   DEF G!attachInterruptArg, G!detachInterrupt

(* The interrupt, and the pads.                                            *)
LEMMA InterruptFrame ==
  ASSUME GpioFrame, G!am_gpio_isr \/ (\E pad \in Pad : G!Edge(pad))
  PROVE  /\ GpioFrame'
         /\ UNCHANGED <<gpio_isr_entries, gpio_num_isr, call, attached, owner, doubled, attaches>>
         /\ gpio'.enabled = gpio.enabled
<1>1. /\ call \in CallType /\ gpio \in PadsType /\ attached \in [Pad -> 0..MaxAttach]
      /\ gpio_isr_entries \in [0..MaxPads -> G!Entry] /\ doubled \in BOOLEAN
      /\ owner \in [1..MaxAttach -> Pad]
      /\ gpio_num_isr \in 0..MaxPads /\ attaches \in 0..MaxAttach /\ edges \in 0..MaxEdges
      /\ isr \in [at : {"off", "scan", "call", "clear"}, i : 0..MaxPads, mask : SUBSET Pad]
  BY DEF GpioFrame, G!TypeOK, CallType, PadsType
<1>2. ASSUME UNCHANGED <<gpio_isr_entries, gpio_num_isr, call, attached, owner, doubled, attaches>>,
             gpio' \in PadsType, gpio'.enabled = gpio.enabled, edges' \in 0..MaxEdges,
             isr' \in [at : {"off", "scan", "call", "clear"}, i : 0..MaxPads, mask : SUBSET Pad],
             CallsTheEnabled'
      PROVE  GpioFrame'
  <2>1. G!TypeOK'
    BY <1>1, <1>2 DEF G!TypeOK, CallType, PadsType
  <2>2. PlaceOfCall'
    BY <1>2 DEF GpioFrame, PlaceOfCall
  <2> QED BY <1>2, <2>1, <2>2 DEF GpioFrame
<1>3. CASE G!Enter
  <2>1. isr' = [at |-> "scan", i |-> 0, mask |-> G!Pending] /\ gpio' = gpio
    BY <1>3 DEF G!Enter
  <2>2. G!Pending \in SUBSET Pad /\ G!Pending \subseteq gpio.enabled
    BY <1>1 DEF G!Pending, PadsType
  <2>3. CallsTheEnabled'
    BY <2>1, <2>2 DEF CallsTheEnabled
  <2> QED BY <1>1, <1>2, <1>3, <2>1, <2>2, <2>3, GpioFacts DEF G!Enter
<1>4. CASE G!Scan
  <2> DEFINE e == gpio_isr_entries[isr.i]
  <2>1. /\ isr.at = "scan" /\ isr.i < gpio_num_isr /\ gpio' = gpio
        /\ UNCHANGED <<gpio_isr_entries, gpio_num_isr>>
        /\ isr' = IF e.callback = 0 THEN [isr EXCEPT !.i = @ + 1]
                  ELSE [isr EXCEPT !.at = IF e.pad \in isr.mask THEN "call" ELSE "clear"]
    BY <1>4 DEF G!Scan, G!InTable
  <2>2. isr.i + 1 \in 0..MaxPads
    BY <1>1, <2>1, GpioFacts
  <2>3. isr' \in [at : {"off", "scan", "call", "clear"}, i : 0..MaxPads, mask : SUBSET Pad]
    BY <1>1, <2>1, <2>2
  <2>4. CallsTheEnabled'
    BY <1>1, <2>1 DEF GpioFrame, CallsTheEnabled, Table
  <2> QED BY <1>1, <1>2, <1>4, <2>1, <2>3, <2>4 DEF G!Scan
<1>5. CASE G!CallbackReturns
  <2>1. CallsTheEnabled'
    BY <1>1, <1>5 DEF GpioFrame, CallsTheEnabled, G!CallbackReturns
  <2> QED BY <1>1, <1>2, <1>5, <2>1 DEF G!CallbackReturns
<1>6. CASE G!ClearServed
  <2> DEFINE e == gpio_isr_entries[isr.i]
  <2>1. /\ isr.at = "clear"
        /\ gpio' = [gpio EXCEPT !.flags = IF G!Over(e) THEN @ \ {e.pad} ELSE @]
        /\ isr' = [isr EXCEPT !.at = "scan", !.i = @ + 1]
    BY <1>6 DEF G!ClearServed
  <2>2. gpio' \in PadsType /\ gpio'.enabled = gpio.enabled
    BY <1>1, <2>1 DEF PadsType
  <2>3. isr.i < gpio_num_isr
    BY <2>1 DEF GpioFrame, CallsTheEnabled
  <2>4. isr.i + 1 \in 0..MaxPads
    BY <1>1, <2>3, GpioFacts
  <2>5. isr' \in [at : {"off", "scan", "call", "clear"}, i : 0..MaxPads, mask : SUBSET Pad]
    BY <1>1, <2>1, <2>4
  <2>6. CallsTheEnabled'
    BY <1>1, <2>1, <2>2 DEF GpioFrame, CallsTheEnabled
  <2> QED BY <1>1, <1>2, <1>6, <2>2, <2>5, <2>6 DEF G!ClearServed
<1>7. CASE G!Leave
  <2>1. CallsTheEnabled'
    BY <1>7 DEF G!Leave, CallsTheEnabled
  <2> QED BY <1>1, <1>2, <1>7, <2>1, GpioFacts DEF G!Leave
<1>8. CASE \E pad \in Pad : G!Edge(pad)
  <2>1. PICK pad \in Pad : G!Edge(pad)
    BY <1>8
  <2> DEFINE level == 1 - gpio.level[pad]
  <2>2. level \in 0..1
    BY <1>1 DEF PadsType
  <2>3. gpio' = [gpio EXCEPT !.level[pad] = level,
                             !.flags = IF level \in gpio.dir[pad] THEN @ \cup {pad} ELSE @]
        /\ edges' = edges + 1 /\ edges < MaxEdges
        /\ UNCHANGED <<gpio_isr_entries, gpio_num_isr, call, isr, attached, owner, doubled, attaches>>
    BY <2>1 DEF G!Edge
  <2> HIDE DEF level
  <2>4. gpio' \in PadsType /\ gpio'.enabled = gpio.enabled
    BY <1>1, <2>2, <2>3 DEF PadsType
  <2>5. edges' \in 0..MaxEdges
    BY <1>1, <2>3, GpioFacts
  <2>6. CallsTheEnabled'
    BY <2>3, <2>4 DEF GpioFrame, CallsTheEnabled, Table
  <2> QED BY <1>1, <1>2, <2>3, <2>4, <2>5, <2>6
<1> QED BY <1>3, <1>4, <1>5, <1>6, <1>7, <1>8 DEF G!am_gpio_isr

-----------------------------------------------------------------------------
(* What a step leaves alone if it touches neither table nor interrupts.    *)
LEMMA SameTable ==
  ASSUME TableInv, gpio'.enabled = gpio.enabled,
         UNCHANGED <<gpio_isr_entries, gpio_num_isr, attached>>, call.at # "count"
  PROVE  PadOnce' /\ EnabledIsLatest' /\ EnabledHasEntry'
BY DEF TableInv, PadOnce, EnabledIsLatest, EnabledHasEntry, Table

LEMMA CallAttachTable ==
  ASSUME GpioFrame, TableInv,
         NEW pad \in Pad, NEW mode \in Modes, G!CallAttach(pad, mode)
  PROVE  TableInv'
<1>1. /\ gpio_num_isr \in 0..MaxPads /\ attaches \in Nat /\ attaches' = attaches + 1
      /\ UNCHANGED <<gpio_isr_entries, gpio_num_isr, gpio, isr, attached, doubled, edges>>
      /\ call.at = "none"
  BY GpioFacts DEF GpioFrame, G!TypeOK, G!CallAttach, G!At
<1>2. call' = [at |-> "pad", i |-> G!Find(pad),
               entry |-> [pad |-> pad, callback |-> attaches', arg |-> attaches', mode |-> mode]]
  BY DEF G!CallAttach
<1>3. call'.at = "pad" /\ call'.i = G!Find(pad) /\ call'.entry.pad = pad
  BY <1>1, <1>2
<1>4. /\ G!Find(pad) \in 0..gpio_num_isr
      /\ G!Find(pad) = gpio_num_isr \/ Table[G!Find(pad)].pad = pad
      /\ \A j \in 0..MaxPads : j < G!Find(pad) => Table[j].pad # pad
  BY <1>1, FindIs
<1>5. ASSUME NEW j \in 0..MaxPads, j < gpio_num_isr, Table[j].pad = pad
      PROVE  j = G!Find(pad)
  <2>1. G!Find(pad) \in 0..MaxPads /\ G!Find(pad) <= j
    BY <1>1, <1>4, <1>5, GpioFacts
  <2>2. G!Find(pad) < gpio_num_isr /\ Table[G!Find(pad)].pad = pad
    BY <1>1, <1>4, <1>5, <2>1, GpioFacts
  <2> QED BY <1>5, <2>1, <2>2 DEF TableInv, PadOnce
<1>6. G!Find(pad) = gpio_num_isr => pad \notin gpio.enabled
  BY <1>1, <1>4 DEF TableInv, EnabledHasEntry
<1>7. EntryWritten'
  BY <1>1, <1>3, <1>5, <1>6 DEF EntryWritten, Table
<1> QED BY <1>1, <1>7, SameTable DEF TableInv

(* The pad of an entry does not change while its call writes it.           *)
LEMMA WriteFieldTable ==
  ASSUME GpioFrame, TableInv, OwnInv, NEW field \in DOMAIN G!After, G!WriteField(field)
  PROVE  TableInv'
<1>1. /\ call \in CallType /\ gpio_isr_entries \in [0..MaxPads -> G!Entry]
      /\ attached \in [Pad -> 0..MaxAttach] /\ gpio_num_isr \in 0..MaxPads
  BY DEF GpioFrame, G!TypeOK, CallType
<1>2. /\ field \in {"pad", "callback", "arg", "mode"} /\ call.at = field
      /\ call' = [call EXCEPT !.at = G!After[field]]
      /\ gpio_isr_entries' = [gpio_isr_entries EXCEPT ![call.i][field] = call.entry[field]]
      /\ attached' = IF field = "callback"
                     THEN [attached EXCEPT ![call.entry.pad] = call.entry.callback]
                     ELSE attached
      /\ UNCHANGED <<gpio_num_isr, gpio>>
  BY DEF G!WriteField, G!At, G!After
<1>3. /\ call.i \in 0..MaxPads /\ call.i <= gpio_num_isr /\ call.entry \in G!Entry
      /\ call.at \in Attaching /\ EntryWritten /\ CallOwned
      /\ call.entry.pad \in Pad
  BY <1>1, <1>2 DEF GpioFrame, PlaceOfCall, TableInv, OwnInv, Attaching, CallType, G!Entry
<1>4. /\ call'.i = call.i /\ call'.entry = call.entry /\ call'.at = G!After[field]
      /\ call'.at # "pad" /\ call'.at # "count" /\ call.at # "count"
  BY <1>1, <1>2 DEF CallType, G!After
<1> DEFINE e == gpio_isr_entries[call.i]
<1>5. e \in G!Entry
  BY <1>1, <1>3
<1>6. /\ \A j \in 0..MaxPads : j # call.i => Table'[j] = Table[j]
      /\ Table'[call.i] = [e EXCEPT ![field] = call.entry[field]]
  BY <1>1, <1>2, <1>3 DEF Table
<1>7. call.i < gpio_num_isr => e.pad = call.entry.pad
  BY <1>3 DEF CallOwned, Table
<1> HIDE DEF e
<1>8. \A j \in 0..MaxPads : j < gpio_num_isr => Table'[j].pad = Table[j].pad
  <2>1. call.i < gpio_num_isr => Table'[call.i].pad = Table[call.i].pad
    BY <1>2, <1>5, <1>6, <1>7 DEF G!Entry, Table, e
  <2> QED BY <1>6, <2>1
<1>9. PadOnce' /\ EnabledHasEntry'
  BY <1>2, <1>4, <1>8 DEF TableInv, PadOnce, EnabledHasEntry
<1>10. \A p \in Pad : p # call.entry.pad => attached'[p] = attached[p]
  BY <1>1, <1>2, <1>3
<1>11. gpio.enabled \subseteq Pad
  BY DEF GpioFrame, G!TypeOK
<1>12. /\ field = "callback" => /\ Table'[call.i].callback = call.entry.callback
                                /\ attached'[call.entry.pad] = call.entry.callback
       /\ field # "callback" => /\ Table'[call.i].callback = Table[call.i].callback
                                /\ attached' = attached
  BY <1>1, <1>2, <1>3, <1>5, <1>6 DEF G!Entry, e, Table
<1>13. EnabledIsLatest'
  <2> SUFFICES ASSUME NEW i \in 0..MaxPads, i < gpio_num_isr, Table'[i].pad \in gpio.enabled
               PROVE  Table'[i].callback = attached'[Table'[i].pad]
    BY <1>2 DEF EnabledIsLatest
  <2>1. Table'[i].pad = Table[i].pad /\ Table[i].callback = attached[Table[i].pad]
    BY <1>8 DEF TableInv, EnabledIsLatest
  <2>2. CASE i = call.i
    <3>1. Table[i].pad = call.entry.pad
      BY <1>7, <2>2 DEF Table, e
    <3> QED BY <1>12, <2>1, <2>2, <3>1
  <2>3. CASE i # call.i
    <3>1. Table[i].pad # call.entry.pad /\ Table[i].pad \in Pad
      BY <1>3, <1>11, <2>1, <2>3 DEF EntryWritten
    <3> QED BY <1>6, <1>10, <2>1, <2>3, <3>1
  <2> QED BY <2>2, <2>3
<1>14. EntryWritten'
  <2>1. field = "pad" <=> call'.at = "callback"
    BY <1>2, <1>4 DEF G!After
  <2>2. \A j \in 0..MaxPads : j < gpio_num_isr /\ Table'[j].pad = call.entry.pad => j = call.i
    BY <1>3, <1>8 DEF EntryWritten
  <2>3. call.i = gpio_num_isr => call.entry.pad \notin gpio.enabled
    BY <1>3, <1>4 DEF EntryWritten
  <2>4. call'.at \notin {"pad", "callback"} => attached'[call.entry.pad] = call.entry.callback
    BY <1>2, <1>3, <1>12, <2>1 DEF EntryWritten
  <2> QED BY <1>2, <1>4, <2>2, <2>3, <2>4 DEF EntryWritten
<1> QED BY <1>9, <1>13, <1>14 DEF TableInv

LEMMA PadStepTable ==
  ASSUME GpioFrame, TableInv, OwnInv,
         G!SetDirection \/ G!ClearFlag \/ G!EnableInterrupt \/ G!DisableInterrupt \/ G!Unflag
           \/ G!NoDirection
  PROVE  TableInv'
<1>1. /\ call \in CallType /\ gpio \in PadsType /\ attached \in [Pad -> 0..MaxAttach]
      /\ gpio_isr_entries \in [0..MaxPads -> G!Entry] /\ gpio_num_isr \in 0..MaxPads
  BY DEF GpioFrame, G!TypeOK, CallType, PadsType
<1>2. call.entry.pad \in Pad /\ call.i \in 0..MaxPads
  BY <1>1 DEF CallType, G!Entry
<1>3. ASSUME G!SetDirection \/ G!ClearFlag PROVE TableInv'
  <2>1. /\ gpio'.enabled = gpio.enabled /\ UNCHANGED <<gpio_isr_entries, gpio_num_isr, attached>>
        /\ call.at \in {"direction", "clear"} /\ call'.at \in {"clear", "enable"}
        /\ call'.i = call.i /\ call'.entry = call.entry
    BY <1>1, <1>3 DEF G!SetDirection, G!ClearFlag, G!At, PadsType, CallType
  <2>2. EntryWritten
    BY <2>1 DEF TableInv, Attaching
  <2>3. EntryWritten'
    BY <2>1, <2>2 DEF EntryWritten, Table
  <2> QED BY <2>1, <2>3, SameTable DEF TableInv
<1>4. CASE G!EnableInterrupt
  <2>1. /\ gpio'.enabled = gpio.enabled \cup {call.entry.pad}
        /\ UNCHANGED <<gpio_isr_entries, gpio_num_isr, attached>>
        /\ call.at = "enable" /\ call'.at = "count" /\ call'.i = call.i
        /\ call'.entry = call.entry
    BY <1>1, <1>4 DEF G!EnableInterrupt, G!At, PadsType, CallType
  <2>2. EntryWritten /\ CallOwned
    BY <2>1 DEF TableInv, OwnInv, Attaching
  <2>3. EntryWritten'
    BY <2>1, <2>2 DEF EntryWritten, Table
  <2>4. Table[call.i].callback = attached[call.entry.pad]
    BY <2>1, <2>2 DEF EntryWritten, CallOwned
  <2>5. PadOnce' /\ EnabledHasEntry'
    BY <2>1 DEF TableInv, PadOnce, EnabledHasEntry, Table
  <2>6. EnabledIsLatest'
    <3> SUFFICES ASSUME NEW i \in 0..MaxPads, i < gpio_num_isr,
                        Table[i].pad \in gpio.enabled \cup {call.entry.pad}
                 PROVE  Table[i].callback = attached[Table[i].pad]
      BY <2>1 DEF EnabledIsLatest, Table
    <3>1. CASE Table[i].pad \in gpio.enabled
      BY <3>1 DEF TableInv, EnabledIsLatest
    <3>2. CASE Table[i].pad = call.entry.pad
      <4>1. i = call.i
        BY <2>2, <3>2 DEF EntryWritten
      <4> QED BY <2>4, <3>2, <4>1
    <3> QED BY <3>1, <3>2
  <2> QED BY <2>3, <2>5, <2>6 DEF TableInv
<1>5. CASE G!DisableInterrupt
  <2>1. /\ gpio'.enabled = gpio.enabled \ {call.entry.pad}
        /\ UNCHANGED <<gpio_isr_entries, gpio_num_isr>>
        /\ attached' = [attached EXCEPT ![call.entry.pad] = 0]
        /\ call.at = "disable" /\ call'.at = "unflag"
    BY <1>1, <1>5 DEF G!DisableInterrupt, G!At, PadsType, CallType
  <2>2. \A p \in gpio'.enabled : p \in gpio.enabled /\ attached'[p] = attached[p]
    BY <1>1, <1>2, <2>1 DEF PadsType
  <2>3. PadOnce' /\ EnabledHasEntry'
    BY <2>1, <2>2 DEF TableInv, PadOnce, EnabledHasEntry, Table
  <2>4. EnabledIsLatest'
    BY <2>1, <2>2 DEF TableInv, EnabledIsLatest, Table
  <2> QED BY <2>1, <2>3, <2>4 DEF TableInv, Attaching
<1>6. ASSUME G!Unflag \/ G!NoDirection PROVE TableInv'
  <2>1. /\ gpio'.enabled = gpio.enabled /\ UNCHANGED <<gpio_isr_entries, gpio_num_isr, attached>>
        /\ call.at # "count" /\ call'.at \in {"undirect", "shift"}
    BY <1>1, <1>6 DEF G!Unflag, G!NoDirection, G!At, PadsType, CallType
  <2> QED BY <2>1, SameTable DEF TableInv, Attaching
<1> QED BY <1>3, <1>4, <1>5, <1>6

(* A new entry is counted only now: its pad is in no other.                *)
LEMMA CountEntryTable ==
  ASSUME GpioFrame, TableInv, OwnInv, G!CountEntry
  PROVE  TableInv'
<1>1. /\ call \in CallType /\ gpio_num_isr \in 0..MaxPads
      /\ call.at = "count" /\ call.i \in 0..MaxPads /\ call.i <= gpio_num_isr
      /\ gpio_num_isr' = IF call.i = gpio_num_isr THEN gpio_num_isr + 1 ELSE gpio_num_isr
      /\ UNCHANGED <<gpio_isr_entries, gpio, attached>>
  BY DEF GpioFrame, G!TypeOK, PlaceOfCall, Attaching, CallType, G!CountEntry, G!At
<1>2. call' = [call EXCEPT !.at = "none"] /\ call'.at = "none"
  BY <1>1 DEF G!CountEntry, CallType
<1>3. EntryWritten /\ CallOwned
  BY <1>1 DEF TableInv, OwnInv, Attaching
<1>4. /\ \A i \in 0..MaxPads : i < gpio_num_isr' => i < gpio_num_isr \/ i = call.i
      /\ \A i \in 0..MaxPads : i < gpio_num_isr => i < gpio_num_isr'
      /\ call.i < gpio_num_isr'
  BY <1>1, GpioFacts
<1>5. /\ Table[call.i].pad = call.entry.pad
      /\ Table[call.i].callback = attached[call.entry.pad]
      /\ \A j \in 0..MaxPads : j < gpio_num_isr /\ Table[j].pad = call.entry.pad => j = call.i
  BY <1>1, <1>3 DEF EntryWritten, CallOwned
<1>6. PadOnce'
  <2> SUFFICES ASSUME NEW i \in 0..MaxPads, NEW j \in 0..MaxPads,
                      i < gpio_num_isr', j < gpio_num_isr', Table[i].pad = Table[j].pad
               PROVE  i = j
    BY <1>1 DEF PadOnce, Table
  <2>1. CASE i < gpio_num_isr /\ j < gpio_num_isr
    BY <2>1 DEF TableInv, PadOnce
  <2>2. CASE ~(i < gpio_num_isr)
    BY <1>4, <1>5, <2>2
  <2>3. CASE ~(j < gpio_num_isr)
    BY <1>4, <1>5, <2>3
  <2> QED BY <2>1, <2>2, <2>3
<1>7. EnabledIsLatest'
  BY <1>1, <1>4, <1>5 DEF TableInv, EnabledIsLatest, Table
<1>8. EnabledHasEntry'
  BY <1>1, <1>4, <1>5 DEF TableInv, EnabledHasEntry, Table
<1> QED BY <1>2, <1>6, <1>7, <1>8 DEF TableInv, Attaching

LEMMA ClearLastTable ==
  ASSUME GpioFrame, TableInv, G!ClearLast
  PROVE  TableInv'
<1>1. /\ call \in CallType /\ gpio_num_isr \in 0..MaxPads
      /\ gpio_isr_entries \in [0..MaxPads -> G!Entry]
      /\ gpio_isr_entries' = [gpio_isr_entries EXCEPT ![gpio_num_isr] = G!NoEntry]
      /\ call.at = "shift" /\ call' = [call EXCEPT !.at = "none"]
      /\ UNCHANGED <<gpio_num_isr, gpio, attached>>
  BY DEF GpioFrame, G!TypeOK, CallType, G!ClearLast, G!At
<1>2. \A i \in 0..MaxPads : i < gpio_num_isr => Table'[i] = Table[i]
  BY <1>1, GpioFacts DEF Table
<1>3. PadOnce' /\ EnabledIsLatest' /\ EnabledHasEntry'
  BY <1>1, <1>2 DEF TableInv, PadOnce, EnabledIsLatest, EnabledHasEntry
<1>4. call'.at = "none"
  BY <1>1 DEF CallType
<1> QED BY <1>3, <1>4 DEF TableInv, Attaching

LEMMA CallDetachTable ==
  ASSUME GpioFrame, TableInv, NEW pad \in Pad, G!CallDetach(pad)
  PROVE  TableInv'
<1>1. /\ UNCHANGED <<gpio_isr_entries, gpio_num_isr, gpio, attached>> /\ call'.at = "disable"
      /\ call.at = "none"
  BY DEF G!CallDetach, G!At
<1> QED BY <1>1, SameTable DEF TableInv, Attaching

-----------------------------------------------------------------------------
(* Whose a callback is, and its argument, go with it.                      *)

LEMMA CallAttachOwn ==
  ASSUME GpioFrame, OwnInv, NEW pad \in Pad, NEW mode \in Modes, G!CallAttach(pad, mode)
  PROVE  OwnInv'
<1>1. /\ gpio_num_isr \in 0..MaxPads /\ attaches \in Nat /\ attaches' = attaches + 1
      /\ attaches < MaxAttach /\ owner \in [1..MaxAttach -> Pad]
      /\ owner' = [owner EXCEPT ![attaches'] = pad] /\ call.at = "none"
      /\ UNCHANGED <<gpio_isr_entries, gpio_num_isr>>
  BY GpioFacts DEF GpioFrame, G!TypeOK, G!CallAttach, G!At
<1>2. call' = [at |-> "pad", i |-> G!Find(pad),
               entry |-> [pad |-> pad, callback |-> attaches', arg |-> attaches', mode |-> mode]]
  BY DEF G!CallAttach
<1>3. /\ call'.at = "pad" /\ call'.i = G!Find(pad) /\ call'.entry.pad = pad
      /\ call'.entry.callback = attaches' /\ call'.entry.arg = attaches'
  BY <1>1, <1>2
<1>4. /\ attaches' \in 1..attaches' /\ attaches' \in 1..MaxAttach /\ owner'[attaches'] = pad
      /\ \A k \in 0..attaches : k \in 0..attaches' /\ (k # 0 => owner'[k] = owner[k])
  BY <1>1, GpioFacts
<1>5. G!Find(pad) < gpio_num_isr => Table[G!Find(pad)].pad = pad
  BY <1>1, FindIs
<1>6. CallOwned'
  BY <1>1, <1>3, <1>4, <1>5 DEF CallOwned, Table
<1>7. ASSUME NEW i \in 0..MaxPads, i < gpio_num_isr
      PROVE  Table[i].callback \in 0..attaches' /\ Owned(Table[i])'
  <2>1. Table[i].callback \in 0..attaches /\ Owned(Table[i])
    BY <1>1, <1>7 DEF OwnInv, HalfWritten
  <2> QED BY <1>1, <1>4, <2>1 DEF Owned, Table
<1> QED BY <1>1, <1>6, <1>7 DEF OwnInv, Table

LEMMA WriteFieldOwn ==
  ASSUME GpioFrame, OwnInv, NEW field \in DOMAIN G!After, G!WriteField(field)
  PROVE  OwnInv'
<1>1. /\ call \in CallType /\ gpio_isr_entries \in [0..MaxPads -> G!Entry]
      /\ gpio_num_isr \in 0..MaxPads /\ attaches \in 0..MaxAttach
  BY DEF GpioFrame, G!TypeOK, CallType
<1>2. /\ field \in {"pad", "callback", "arg", "mode"} /\ call.at = field
      /\ call' = [call EXCEPT !.at = G!After[field]]
      /\ gpio_isr_entries' = [gpio_isr_entries EXCEPT ![call.i][field] = call.entry[field]]
      /\ UNCHANGED <<gpio_num_isr, owner, attaches>>
  BY DEF G!WriteField, G!At, G!After
<1>3. /\ call.i \in 0..MaxPads /\ call.entry \in G!Entry
      /\ call.at \in Attaching /\ CallOwned
  BY <1>1, <1>2 DEF OwnInv, Attaching, CallType
<1>4. /\ call'.i = call.i /\ call'.entry = call.entry
      /\ field = "pad" => call'.at = "callback"
      /\ field = "callback" => call'.at = "arg"
      /\ field = "arg" => call'.at = "mode"
      /\ field = "mode" => call'.at = "direction"
  BY <1>1, <1>2 DEF CallType, G!After
<1> DEFINE e == gpio_isr_entries[call.i]
<1>5. e \in G!Entry
  BY <1>1, <1>3
<1>6. /\ \A j \in 0..MaxPads : j # call.i => Table'[j] = Table[j]
      /\ Table'[call.i] = [e EXCEPT ![field] = call.entry[field]]
  BY <1>1, <1>2, <1>3 DEF Table
<1>7. e.pad = call.entry.pad \/ (field = "pad" /\ ~(call.i < gpio_num_isr))
  BY <1>2, <1>3 DEF CallOwned, Table
<1>8. /\ field = "callback" => call.entry.callback = Table'[call.i].callback
      /\ field # "callback" => Table'[call.i].callback = e.callback
      /\ field = "arg" => Table'[call.i].arg = call.entry.arg
      /\ field # "arg" => Table'[call.i].arg = e.arg
      /\ Table'[call.i].pad = call.entry.pad
  <2> HIDE DEF e
  <2> QED BY <1>2, <1>3, <1>5, <1>6, <1>7 DEF G!Entry
<1>9. CallOwned'
  BY <1>2, <1>3, <1>4, <1>8 DEF CallOwned, Table
<1>10. ASSUME NEW i \in 0..MaxPads, i < gpio_num_isr
       PROVE  Table'[i].callback \in 0..attaches /\ (HalfWritten(i)' \/ Owned(Table[i])')
  <2>1. Table[i].callback \in 0..attaches /\ (HalfWritten(i) \/ Owned(Table[i]))
    BY <1>10 DEF OwnInv
  <2>2. CASE i # call.i
    <3>1. Owned(Table[i])
      BY <2>1, <2>2 DEF HalfWritten
    <3>2. Table'[i] = Table[i]
      BY <1>6, <2>2
    <3> QED BY <1>2, <2>1, <3>1, <3>2 DEF Owned
  <2>3. CASE i = call.i /\ field = "callback"
    <3>1. HalfWritten(i)'
      BY <1>4, <2>3 DEF HalfWritten
    <3>2. call.entry.callback \in 0..attaches
      BY <1>1, <1>3 DEF CallOwned
    <3> QED BY <1>8, <2>3, <3>1, <3>2
  <2>4. CASE i = call.i /\ field = "arg"
    <3>1. Table'[i].callback = call.entry.callback /\ Table'[i].arg = call.entry.callback
          /\ Table'[i].pad = call.entry.pad
      BY <1>2, <1>3, <1>8, <2>4 DEF CallOwned, Table
    <3>2. call.entry.callback \in 0..attaches /\ owner[call.entry.callback] = call.entry.pad
      BY <1>1, <1>3 DEF CallOwned
    <3> QED BY <1>2, <3>1, <3>2 DEF Owned
  <2>5. CASE i = call.i /\ field \in {"pad", "mode"}
    <3>1. Owned(Table[i])
      BY <1>2, <2>1, <2>5 DEF HalfWritten
    <3>2. Table'[i].callback = Table[i].callback /\ Table'[i].arg = Table[i].arg
          /\ Table'[i].pad = Table[i].pad
      BY <1>7, <1>8, <1>10, <2>5 DEF Table
    <3> QED BY <1>2, <2>1, <3>1, <3>2 DEF Owned
  <2> QED BY <1>2, <2>2, <2>3, <2>4, <2>5
<1> QED BY <1>2, <1>9, <1>10 DEF OwnInv

(* The steps that leave the table alone.                                   *)
LEMMA SameOwn ==
  ASSUME OwnInv, UNCHANGED <<gpio_isr_entries, gpio_num_isr, owner, attaches>>,
         call'.i = call.i, call'.entry = call.entry,
         call.at \notin {"pad", "callback", "arg", "shift"},
         call'.at \in Attaching =>
           call.at \in Attaching /\ call'.at \notin {"pad", "callback", "arg"}
  PROVE  OwnInv'
<1>1. \A i \in 0..MaxPads : ~HalfWritten(i)
  BY DEF HalfWritten
<1>2. \A i \in 0..MaxPads : Owned(Table[i]) => Owned(Table[i])'
  BY DEF Owned, Table
<1>3. call'.at \in Attaching => CallOwned'
  BY DEF OwnInv, CallOwned, Table
<1> QED BY <1>1, <1>2, <1>3 DEF OwnInv, Table

LEMMA PadStepOwn ==
  ASSUME GpioFrame, OwnInv,
         G!SetDirection \/ G!ClearFlag \/ G!EnableInterrupt \/ G!DisableInterrupt \/ G!Unflag
           \/ G!NoDirection
  PROVE  OwnInv'
<1>1. call \in CallType
  BY DEF GpioFrame, G!TypeOK, CallType
<1>2. /\ UNCHANGED <<gpio_isr_entries, gpio_num_isr, owner, attaches>>
      /\ call'.i = call.i /\ call'.entry = call.entry
      /\ \/ call.at \in {"direction", "clear", "enable"} /\ call'.at \in {"clear", "enable", "count"}
         \/ /\ call.at \in {"disable", "unflag", "undirect"}
            /\ call'.at \in {"unflag", "undirect", "shift"}
  BY <1>1 DEF G!SetDirection, G!ClearFlag, G!EnableInterrupt, G!DisableInterrupt, G!Unflag,
     G!NoDirection, G!At, CallType
<1> QED BY <1>2, SameOwn DEF Attaching

LEMMA CountEntryOwn ==
  ASSUME GpioFrame, OwnInv, G!CountEntry
  PROVE  OwnInv'
<1>1. /\ call \in CallType /\ gpio_num_isr \in 0..MaxPads /\ attaches \in 0..MaxAttach
      /\ call.at = "count" /\ call.i \in 0..MaxPads
      /\ gpio_num_isr' = IF call.i = gpio_num_isr THEN gpio_num_isr + 1 ELSE gpio_num_isr
      /\ UNCHANGED <<gpio_isr_entries, owner, attaches>>
  BY DEF GpioFrame, G!TypeOK, CallType, G!CountEntry, G!At
<1>2. call'.at = "none"
  BY <1>1 DEF G!CountEntry, CallType
<1>3. \A i \in 0..MaxPads : i < gpio_num_isr' => i < gpio_num_isr \/ i = call.i
  BY <1>1, GpioFacts
<1>4. Table[call.i].callback \in 0..attaches /\ Owned(Table[call.i])
  BY <1>1 DEF OwnInv, CallOwned, Owned, Attaching
<1>5. ASSUME NEW i \in 0..MaxPads, i < gpio_num_isr'
      PROVE  Table[i].callback \in 0..attaches /\ Owned(Table[i])
  <2>1. CASE i = call.i
    BY <1>4, <2>1
  <2>2. CASE i < gpio_num_isr
    BY <1>1, <2>2 DEF OwnInv, HalfWritten
  <2> QED BY <1>3, <1>5, <2>1, <2>2
<1> QED BY <1>1, <1>2, <1>5 DEF OwnInv, Owned, Table, Attaching

LEMMA CallDetachOwn ==
  ASSUME GpioFrame, OwnInv, NEW pad \in Pad, G!CallDetach(pad)
  PROVE  OwnInv'
<1>1. /\ UNCHANGED <<gpio_isr_entries, gpio_num_isr, owner, attaches>> /\ call'.at = "disable"
      /\ call.at = "none"
  BY DEF G!CallDetach, G!At
<1>2. \A i \in 0..MaxPads : ~HalfWritten(i)
  BY <1>1 DEF HalfWritten
<1> QED BY <1>1, <1>2 DEF OwnInv, Owned, Table, Attaching

(* An entry in the middle is the next one, half of it or whole.            *)
LEMMA ShiftOwn ==
  ASSUME GpioFrame, OwnInv, G!ShiftEntry \/ (\E fields \in G!Words : G!CopyPart(fields))
  PROVE  OwnInv'
<1>1. /\ call \in CallType /\ gpio_num_isr \in 0..MaxPads
      /\ gpio_isr_entries \in [0..MaxPads -> G!Entry]
      /\ call.at = "shift" /\ call.i \in 0..MaxPads /\ call.i < gpio_num_isr - 1
      /\ UNCHANGED <<gpio_num_isr, owner, attaches>>
  BY DEF GpioFrame, G!TypeOK, CallType, G!ShiftEntry, G!CopyPart, G!At
<1>2. call.i + 1 \in 0..MaxPads /\ call.i + 1 < gpio_num_isr /\ call.i + 1 # call.i
  BY <1>1, GpioFacts
<1>3. /\ \A i \in 0..MaxPads : i < gpio_num_isr => Table[i].callback \in 0..attaches
      /\ \A i \in 0..MaxPads : i < gpio_num_isr /\ i # call.i => Owned(Table[i])
  BY DEF OwnInv, HalfWritten
<1>4. CASE G!ShiftEntry
  <2>1. /\ gpio_isr_entries' = [gpio_isr_entries EXCEPT ![call.i] = gpio_isr_entries[call.i + 1]]
        /\ call'.at = "shift"
    BY <1>1, <1>4 DEF G!ShiftEntry, CallType
  <2>2. \A i \in 0..MaxPads : Table'[i] = IF i = call.i THEN Table[call.i + 1] ELSE Table[i]
    BY <1>1, <2>1 DEF Table
  <2>3. ASSUME NEW i \in 0..MaxPads, i < gpio_num_isr
        PROVE  Table'[i].callback \in 0..attaches /\ Owned(Table'[i])
    BY <1>2, <1>3, <2>2, <2>3
  <2> QED BY <1>1, <2>1, <2>3 DEF OwnInv, Owned, Attaching
<1>5. ASSUME NEW fields \in G!Words, G!CopyPart(fields) PROVE OwnInv'
  <2>1. call' = call
    BY <1>5 DEF G!CopyPart
  <2> DEFINE copied == [field \in {"pad", "callback", "arg", "mode"} |->
                          IF field \in fields THEN gpio_isr_entries[call.i + 1][field]
                          ELSE gpio_isr_entries[call.i][field]]
  <2>2. gpio_isr_entries' = [gpio_isr_entries EXCEPT ![call.i] = copied]
    BY <1>5 DEF G!CopyPart, G!NoEntry
  <2>3. copied.callback = Table[call.i + 1].callback
    BY DEF G!Words, Table
  <2> HIDE DEF copied
  <2>4. \A i \in 0..MaxPads : Table'[i] = IF i = call.i THEN copied ELSE Table[i]
    BY <1>1, <2>2 DEF Table
  <2>5. HalfWritten(call.i)'
    BY <1>1, <2>1 DEF HalfWritten
  <2>6. ASSUME NEW i \in 0..MaxPads, i < gpio_num_isr
        PROVE  Table'[i].callback \in 0..attaches /\ (HalfWritten(i)' \/ Owned(Table[i])')
    <3>1. CASE i = call.i
      BY <1>2, <1>3, <2>1, <2>3, <2>4, <2>5, <3>1
    <3>2. CASE i # call.i
      <4>1. Table'[i] = Table[i] /\ Owned(Table[i]) /\ Table[i].callback \in 0..attaches
        BY <1>3, <2>4, <2>6, <3>2
      <4> QED BY <1>1, <4>1 DEF Owned
    <3> QED BY <3>1, <3>2
  <2> QED BY <1>1, <2>1, <2>6 DEF OwnInv, Attaching
<1> QED BY <1>4, <1>5

LEMMA ClearLastOwn ==
  ASSUME GpioFrame, OwnInv, G!ClearLast
  PROVE  OwnInv'
<1>1. /\ call \in CallType /\ gpio_num_isr \in 0..MaxPads
      /\ gpio_isr_entries \in [0..MaxPads -> G!Entry]
      /\ gpio_isr_entries' = [gpio_isr_entries EXCEPT ![gpio_num_isr] = G!NoEntry]
      /\ call.at = "shift" /\ ~(call.i < gpio_num_isr - 1)
      /\ call'.at = "none"
      /\ UNCHANGED <<gpio_num_isr, owner, attaches>>
  BY DEF GpioFrame, G!TypeOK, CallType, G!ClearLast, G!At
<1>2. \A i \in 0..MaxPads : i < gpio_num_isr => Table'[i] = Table[i]
  BY <1>1, GpioFacts DEF Table
<1>3. \A i \in 0..MaxPads : ~HalfWritten(i)
  BY <1>1 DEF HalfWritten
<1> QED BY <1>1, <1>2, <1>3 DEF OwnInv, Owned, Attaching

LEMMA SketchStepOwn ==
  ASSUME GpioFrame, OwnInv, G!attachInterruptArg \/ G!detachInterrupt
  PROVE  OwnInv'
BY CallAttachOwn, WriteFieldOwn, PadStepOwn, CountEntryOwn, CallDetachOwn, ShiftOwn, ClearLastOwn
   DEF G!attachInterruptArg, G!detachInterrupt

(* An entry moved down stays marked.                                       *)
LEMMA DoubledKept ==
  ASSUME doubled \in BOOLEAN, G!attachInterruptArg \/ G!detachInterrupt, ~doubled'
  PROVE  ~doubled /\ ~G!ShiftEntry /\ ~(\E fields \in G!Words : G!CopyPart(fields))
<1>1. ~G!ShiftEntry /\ ~(\E fields \in G!Words : G!CopyPart(fields))
  BY DEF G!ShiftEntry, G!CopyPart
<1>2. ASSUME \E pad \in Pad, mode \in Modes : G!CallAttach(pad, mode) PROVE ~doubled
  BY <1>2 DEF G!CallAttach
<1>3. ASSUME \E field \in DOMAIN G!After : G!WriteField(field) PROVE ~doubled
  BY <1>3 DEF G!WriteField
<1>4. ASSUME \E pad \in Pad : G!CallDetach(pad) PROVE ~doubled
  BY <1>4 DEF G!CallDetach
<1>5. ASSUME G!SetDirection \/ G!ClearFlag \/ G!EnableInterrupt \/ G!CountEntry PROVE ~doubled
  BY <1>5 DEF G!SetDirection, G!ClearFlag, G!EnableInterrupt, G!CountEntry
<1>6. ASSUME G!DisableInterrupt \/ G!Unflag \/ G!NoDirection \/ G!ClearLast PROVE ~doubled
  BY <1>6 DEF G!DisableInterrupt, G!Unflag, G!NoDirection, G!ClearLast
<1>7. ~doubled
  BY <1>1, <1>2, <1>3, <1>4, <1>5, <1>6 DEF G!attachInterruptArg, G!detachInterrupt
<1> QED BY <1>1, <1>7

GpioInvariant == GpioFrame /\ OwnInv /\ (~doubled => TableInv)

LEMMA GpioNextInv ==
  ASSUME GpioInvariant, [G!Next]_(G!vars)
  PROVE  GpioInvariant'
<1> USE DEF GpioInvariant
<1>1. doubled \in BOOLEAN
  BY DEF GpioFrame, G!TypeOK
<1>2. CASE UNCHANGED G!vars
  <2>1. GpioFrame'
    BY <1>2 DEF G!vars, GpioFrame, G!TypeOK, PlaceOfCall, CallsTheEnabled, G!Entry, Table
  <2>2. TableInv => TableInv'
    BY <1>2 DEF G!vars, TableInv, PadOnce, EnabledIsLatest, EnabledHasEntry, EntryWritten, Table
  <2>3. OwnInv'
    BY <1>2 DEF G!vars, OwnInv, CallOwned, HalfWritten, Owned, Table
  <2>4. doubled' = doubled
    BY <1>2 DEF G!vars
  <2> QED BY <2>1, <2>2, <2>3, <2>4
<1>3. CASE G!attachInterruptArg \/ G!detachInterrupt
  <2>1. GpioFrame' /\ OwnInv'
    BY <1>3, SketchStepFrame, SketchStepOwn
  <2>2. ASSUME ~doubled'
        PROVE  ~doubled /\ ~G!ShiftEntry /\ ~(\E fields \in G!Words : G!CopyPart(fields))
    BY <1>1, <1>3, <2>2, DoubledKept
  <2>3. ASSUME ~doubled' PROVE TableInv'
    BY <1>3, <2>2, <2>3, CallAttachTable, WriteFieldTable, PadStepTable, CountEntryTable,
       CallDetachTable, ClearLastTable DEF G!attachInterruptArg, G!detachInterrupt
  <2> QED BY <2>1, <2>3
<1>4. CASE G!am_gpio_isr \/ (\E pad \in Pad : G!Edge(pad))
  <2>1. /\ GpioFrame' /\ gpio'.enabled = gpio.enabled
        /\ UNCHANGED <<gpio_isr_entries, gpio_num_isr, call, attached, owner, doubled, attaches>>
    BY <1>4, InterruptFrame
  <2>2. TableInv => TableInv'
    BY <2>1 DEF TableInv, PadOnce, EnabledIsLatest, EnabledHasEntry, EntryWritten, Table
  <2>3. OwnInv'
    BY <2>1 DEF OwnInv, CallOwned, HalfWritten, Owned, Table
  <2> QED BY <2>1, <2>2, <2>3
<1> QED BY <1>2, <1>3, <1>4 DEF G!Next

(* A callback that runs was attached to the pad it runs for and has its    *)
(* own argument, for any pads, boards and table, through calls cut         *)
(* anywhere, pads attached again and entries moved down, unless the        *)
(* interrupt finds the entry half written; and until an entry is moved     *)
(* down a pad has one entry and its callback is the last one attached: the *)
(* interrupt is taken for enabled pads only, and what an entry of one      *)
(* holds is not touched but by the call that writes it                     *)
(* (ap3_gpio.cpp:174, 213-224, 292).                                       *)
THEOREM CallsTheLatest == G!Spec => []GpioLatestCallback
<1>1. G!Init => GpioInvariant
  BY GpioInitInv DEF GpioInvariant
<1>2. GpioInvariant /\ [G!Next]_(G!vars) => GpioInvariant'
  BY GpioNextInv
<1>3. GpioInvariant => GpioLatestCallback
  <2> SUFFICES ASSUME GpioInvariant PROVE G!OnePerPad /\ G!OwnCallback /\ G!LatestCallback
    BY DEF GpioLatestCallback
  <2>1. G!OnePerPad
    BY DEF GpioInvariant, TableInv, PadOnce, G!OnePerPad, G!InTable, Table
  <2>2. isr.at = "call" => /\ isr.i \in 0..MaxPads /\ isr.i < gpio_num_isr
                           /\ Table[isr.i].pad \in gpio.enabled /\ Table[isr.i].callback # 0
    BY DEF GpioInvariant, GpioFrame, G!TypeOK, CallsTheEnabled
  <2>3. G!OwnCallback
    BY <2>2 DEF GpioInvariant, OwnInv, HalfWritten, Owned, G!OwnCallback, G!Torn, Table
  <2>4. G!LatestCallback
    BY <2>2 DEF GpioInvariant, TableInv, EnabledIsLatest, G!LatestCallback, Table
  <2> QED BY <2>1, <2>3, <2>4
<1> QED BY <1>1, <1>2, <1>3, PTL DEF G!Spec
-----------------------------------------------------------------------------
(* Serial.                                                                 *)

(* The first n bytes of the stream, with those behind the string that ends *)
(* at the limit.                                                           *)
Stream(n, limit) == [i \in 1 .. n |-> IF i <= limit THEN i ELSE U!Beyond]
TxType == [queue : Seq(Nat), hold : Seq(Nat), shift : Seq(Nat), out : Seq(Nat), irq : BOOLEAN,
           dropped : BOOLEAN]
WType == [at : {"idle", "wait", "space", "add", "update", "blink", "flush", "busy", "off"},
          size : Nat, total : Nat, transferred : Nat, given : Nat]

(* What was given, from the wire to the queue.                             *)
Way(t) == t.out \o (t.shift \o (t.hold \o t.queue))
Given(c) == c.given + c.total + (IF c.at \in {"update", "blink"} THEN c.transferred ELSE 0)

(* A round begins where something of the string is left, what it found     *)
(* room for still has room when it is added, and the registers are empty   *)
(* behind the flush.                                                       *)
SentInv ==
  /\ tx \in TxType /\ w \in WType
  /\ w.at \in {"idle", "flush", "busy", "off"} => w.size = 0 /\ w.total = 0
  /\ w.at \in {"wait", "space", "add", "update"} => w.total < w.size
  /\ w.at = "add" => w.transferred <= LinSize - Len(tx.queue)
  /\ Len(tx.queue) <= LinSize
  /\ w.at \in {"busy", "off"} => tx.queue = <<>>
  /\ w.at = "off" => tx.hold = <<>> /\ tx.shift = <<>>
  /\ Way(tx) = Stream(Given(w), w.given + w.size)

LEMMA UartFacts ==
  /\ LinSize \in Nat \ {0} /\ MaxOut \in Nat \ {0} /\ MaxIn \in Nat \ {0}
  /\ Sizes \subseteq Nat \ {0} /\ RingSize \in Nat \ {0, 1}
BY DriversAssumption DEF U!UartConstants

LEMMA StreamIs ==
  ASSUME NEW n \in Nat, NEW limit \in Nat
  PROVE  Stream(n, limit) \in Seq(Nat) /\ Len(Stream(n, limit)) = n
BY DEF Stream, U!Beyond

(* The limit does not matter before it.                                    *)
LEMMA StreamBefore ==
  ASSUME NEW n \in Nat, NEW limit \in Nat, NEW m \in Nat, n <= limit, n <= m
  PROVE  Stream(n, limit) = Stream(n, m)
BY DEF Stream

(* What a round adds is what comes next.                                   *)
LEMMA StreamNext ==
  ASSUME NEW n \in Nat, NEW limit \in Nat, NEW t \in Nat, NEW added \in Seq(Nat), Len(added) = t,
         \A i \in 1..t : added[i] = IF n + i <= limit THEN n + i ELSE U!Beyond
  PROVE  Stream(n, limit) \o added = Stream(n + t, limit)
<1>1. /\ Stream(n, limit) \in Seq(Nat) /\ Len(Stream(n, limit)) = n
      /\ Stream(n + t, limit) \in Seq(Nat) /\ Len(Stream(n + t, limit)) = n + t
  BY StreamIs
<1>2. /\ Stream(n, limit) \o added \in Seq(Nat) /\ Len(Stream(n, limit) \o added) = n + t
      /\ \A i \in 1..n + t : (Stream(n, limit) \o added)[i] =
           IF i <= n THEN Stream(n, limit)[i] ELSE added[i - n]
  <2> DEFINE first == Stream(n, limit)
  <2>1. first \in Seq(Nat) /\ Len(first) = n
    BY <1>1
  <2> HIDE DEF first
  <2>2. /\ first \o added \in Seq(Nat) /\ Len(first \o added) = n + t
        /\ \A i \in 1..n + t : (first \o added)[i] = IF i <= n THEN first[i] ELSE added[i - n]
    BY <2>1, ConcatProperties
  <2> QED BY <2>2 DEF first
<1>3. ASSUME NEW i \in 1..n + t
      PROVE  (Stream(n, limit) \o added)[i] = Stream(n + t, limit)[i]
  <2>1. Stream(n + t, limit)[i] = IF i <= limit THEN i ELSE U!Beyond
    BY DEF Stream
  <2>2. CASE i <= n
    <3>1. Stream(n, limit)[i] = IF i <= limit THEN i ELSE U!Beyond
      BY <2>2 DEF Stream
    <3> QED BY <1>2, <2>1, <2>2, <3>1
  <2>3. CASE ~(i <= n)
    <3>1. i - n \in 1..t /\ n + (i - n) = i
      BY <2>3
    <3>2. added[i - n] = IF i <= limit THEN i ELSE U!Beyond
      BY <3>1
    <3> QED BY <1>2, <2>1, <2>3, <3>2
  <2> QED BY <2>2, <2>3
<1> QED BY <1>1, <1>2, <1>3, SeqEqual, ZenonT(30)

LEMMA Joined ==
  ASSUME NEW Any
  PROVE  /\ \A s, t \in Seq(Any) : s \o t \in Seq(Any) /\ Len(s \o t) = Len(s) + Len(t)
         /\ \A s \in Seq(Any) : s \o <<>> = s /\ <<>> \o s = s
         /\ \A s, t, u \in Seq(Any) : (s \o t) \o u = s \o (t \o u)
BY ConcatProperties, ConcatEmptySeq, ConcatAssociative

LEMMA JoinedNat ==
  /\ \A s, t \in Seq(Nat) : s \o t \in Seq(Nat) /\ Len(s \o t) = Len(s) + Len(t)
  /\ \A s \in Seq(Nat) : s \o <<>> = s /\ <<>> \o s = s
BY Joined

LEMMA JoinedAny == \A s, t, u \in Seq(Nat) : (s \o t) \o u = s \o (t \o u)
BY Joined

LEMMA HeadThenTail ==
  ASSUME NEW s \in Seq(Nat), s # <<>>
  PROVE  /\ <<Head(s)>> \in Seq(Nat) /\ Tail(s) \in Seq(Nat) /\ Len(Tail(s)) = Len(s) - 1
         /\ <<Head(s)>> \o Tail(s) = s
<1>1. Len(s) \in Nat \ {0} /\ Head(s) = s[1] /\ Head(s) \in Nat /\ Tail(s) \in Seq(Nat)
      /\ Len(Tail(s)) = Len(s) - 1 /\ \A i \in 1..Len(s) - 1 : Tail(s)[i] = s[i + 1]
  BY EmptySeq, HeadTailProperties
<1>2. /\ <<Head(s)>> \in Seq(Nat) /\ <<Head(s)>> \o Tail(s) \in Seq(Nat)
      /\ Len(<<Head(s)>> \o Tail(s)) = Len(s)
  BY <1>1
<1>3. ASSUME NEW i \in 1..Len(s) PROVE (<<Head(s)>> \o Tail(s))[i] = s[i]
  BY <1>1, <1>3
<1>4. <<Head(s)>> \o Tail(s) = s
  BY <1>2, <1>3, SeqEqual, ZenonT(30)
<1> QED BY <1>1, <1>2, <1>4

(* The queue update of the interrupt and of the writer loses nothing.      *)
LEMMA UpdateKeeps ==
  ASSUME NEW t \in TxType
  PROVE  /\ U!tx_queue_update(t) \in TxType
         /\ Way(U!tx_queue_update(t)) = Way(t)
         /\ Len(U!tx_queue_update(t).queue) <= Len(t.queue)
         /\ t.queue = <<>> => U!tx_queue_update(t) = t
<1> DEFINE u == U!tx_queue_update(t)
<1>1. CASE t.hold = <<>> /\ t.queue # <<>>
  <2>1. u = [t EXCEPT !.hold = <<Head(t.queue)>>, !.queue = Tail(t.queue), !.irq = FALSE,
                     !.dropped = FALSE]
    BY <1>1 DEF U!tx_queue_update, TxType
  <2>2. t.queue \in Seq(Nat)
    BY DEF TxType
  <2>3. /\ <<Head(t.queue)>> \in Seq(Nat) /\ Tail(t.queue) \in Seq(Nat)
        /\ Len(Tail(t.queue)) = Len(t.queue) - 1
        /\ <<Head(t.queue)>> \o Tail(t.queue) = t.queue
    BY <1>1, <2>2, HeadThenTail
  <2>4. /\ u \in TxType /\ u.out = t.out /\ u.shift = t.shift
        /\ u.hold = <<Head(t.queue)>> /\ u.queue = Tail(t.queue)
    <3> HIDE DEF u
    <3> QED BY <2>1, <2>3 DEF TxType
  <2>5. t.hold \o t.queue = t.queue
    BY <1>1, <2>2, JoinedNat
  <2>6. Way(u) = Way(t)
    BY <2>3, <2>4, <2>5 DEF Way
  <2> QED BY <1>1, <2>2, <2>3, <2>4, <2>6, LenProperties
<1>2. CASE ~(t.hold = <<>> /\ t.queue # <<>>)
  <2>1. u = t
    BY <1>2 DEF U!tx_queue_update
  <2>2. Len(t.queue) \in Nat
    BY DEF TxType
  <2> QED BY <2>1, <2>2
<1> QED BY <1>1, <1>2

LEMMA SentInit == U!Init => SentInv
<1> SUFFICES ASSUME U!Init PROVE SentInv
  OBVIOUS
<1>1. tx \in TxType /\ w \in WType
  BY DEF U!Init, TxType, WType
<1>2. Way(tx) = <<>>
  BY DEF U!Init, Way
<1>3. Stream(0, 0) = <<>>
  <2>1. Stream(0, 0) \in Seq(Nat) /\ Len(Stream(0, 0)) = 0
    BY StreamIs
  <2> QED BY <2>1, EmptySeq
<1>4. Given(w) = 0 /\ w.given + w.size = 0
  BY DEF U!Init, Given
<1> QED BY <1>1, <1>2, <1>3, <1>4, UartFacts DEF U!Init, SentInv

(* Steps that neither take from the way nor add to it.                     *)
LEMMA WayKept ==
  ASSUME SentInv, tx' \in TxType, Way(tx') = Way(tx), Len(tx'.queue) <= Len(tx.queue),
         tx.queue = <<>> => tx'.queue = <<>>,
         w' = w, w.at = "off" => tx'.hold = <<>> /\ tx'.shift = <<>>
  PROVE  SentInv'
<1>1. Len(tx.queue) \in Nat /\ Len(tx'.queue) \in Nat
  BY SMTT(60) DEF SentInv, TxType
<1>2. Len(tx'.queue) <= LinSize /\ (w.at = "add" => w.transferred <= LinSize - Len(tx'.queue))
  BY <1>1, UartFacts DEF SentInv, WType
<1> QED BY <1>2 DEF SentInv

LEMMA InterruptSends ==
  ASSUME SentInv, U!uart_isr
  PROVE  SentInv'
<1> DEFINE cleared == [tx EXCEPT !.irq = FALSE]
           Cleared(t) == /\ t \in TxType /\ Way(t) = Way(tx)
                         /\ t.queue = tx.queue /\ t.hold = tx.hold /\ t.shift = tx.shift
<1>1. Cleared(cleared)
  BY DEF SentInv, TxType, Way
<1>2. w' = w /\ (Cleared(tx') \/ tx' = U!tx_queue_update(cleared))
  <2>1. ASSUME NEW d \in BOOLEAN PROVE Cleared([cleared EXCEPT !.dropped = d])
    BY DEF SentInv, TxType, Way
  <2>2. w' = w /\ \/ tx' = cleared \/ tx' = U!tx_queue_update(cleared)
                  \/ \E d \in BOOLEAN : tx' = [cleared EXCEPT !.dropped = d]
    <3>1. tx.dropped \in BOOLEAN /\ cleared.dropped = tx.dropped
      BY DEF SentInv, TxType
    <3> QED BY <3>1 DEF U!uart_isr, U!Service
  <2> HIDE DEF cleared, Cleared
  <2> QED BY <1>1, <2>1, <2>2
<1>3. CASE Cleared(tx')
  <2>1. Len(tx.queue) \in Nat
    BY DEF SentInv, TxType
  <2>2. w.at = "off" => tx'.hold = <<>> /\ tx'.shift = <<>>
    BY <1>3 DEF SentInv
  <2>3. Len(tx'.queue) <= Len(tx.queue)
    BY <1>3, <2>1
  <2> QED BY <1>2, <1>3, <2>2, <2>3, WayKept
<1>4. CASE tx' = U!tx_queue_update(cleared)
  <2> HIDE DEF cleared
  <2>1. /\ tx' \in TxType /\ Way(tx') = Way(tx) /\ Len(tx'.queue) <= Len(tx.queue)
        /\ tx.queue = <<>> => tx' = cleared
    BY <1>1, <1>4, UpdateKeeps
  <2>2. w.at = "off" => tx'.hold = <<>> /\ tx'.shift = <<>>
    BY <1>1, <2>1 DEF SentInv
  <2>3. tx.queue = <<>> => tx'.queue = <<>>
    BY <1>1, <2>1
  <2> QED BY <1>2, <2>1, <2>2, <2>3, WayKept
<1> QED BY <1>2, <1>3, <1>4

LEMMA TransmitterSends ==
  ASSUME SentInv, U!Load \/ U!ShiftOut
  PROVE  SentInv'
<1>1. /\ tx \in TxType /\ tx.out \in Seq(Nat) /\ tx.shift \in Seq(Nat)
      /\ tx.hold \in Seq(Nat) /\ tx.queue \in Seq(Nat) /\ Len(tx.queue) \in Nat
      /\ <<>> \in Seq(Nat)
  BY EmptySeq DEF SentInv, TxType
<1>2. CASE U!Load
  <2>1. /\ tx' \in TxType /\ tx'.out = tx.out /\ tx'.shift = tx.hold /\ tx'.hold = <<>>
        /\ tx'.queue = tx.queue /\ w' = w /\ tx.shift = <<>> /\ tx.hold # <<>>
    BY <1>1, <1>2 DEF U!Load, TxType
  <2>2. /\ <<>> \o tx.queue = tx.queue
        /\ <<>> \o (tx.hold \o tx.queue) = tx.hold \o tx.queue
    BY <1>1, JoinedNat
  <2>3. Way(tx') = Way(tx)
    BY <2>1, <2>2 DEF Way
  <2>4. w.at # "off"
    BY <2>1 DEF SentInv
  <2> QED BY <1>1, <2>1, <2>3, <2>4, WayKept
<1>3. CASE U!ShiftOut
  <2>1. tx.out \o tx.shift \in Seq(Nat)
    BY <1>1, JoinedNat
  <2>2. /\ tx' \in TxType /\ tx'.out = tx.out \o tx.shift /\ tx'.shift = <<>>
        /\ tx'.hold = tx.hold /\ tx'.queue = tx.queue /\ w' = w /\ tx.shift # <<>>
    BY <1>1, <1>3, <2>1 DEF U!ShiftOut, TxType
  <2>3. tx.hold \o tx.queue \in Seq(Nat)
    BY <1>1, JoinedNat
  <2>4. /\ <<>> \o (tx.hold \o tx.queue) = tx.hold \o tx.queue
        /\ (tx.out \o tx.shift) \o (tx.hold \o tx.queue) = tx.out \o (tx.shift \o (tx.hold \o tx.queue))
    <3>1. <<>> \o (tx.hold \o tx.queue) = tx.hold \o tx.queue
      BY <2>3, JoinedNat, Zenon
    <3>2. tx.out \in Seq(Nat) /\ tx.shift \in Seq(Nat)
      BY <1>1
    <3>3. (tx.out \o tx.shift) \o (tx.hold \o tx.queue) = tx.out \o (tx.shift \o (tx.hold \o tx.queue))
      BY <2>3, <3>2, JoinedAny, Zenon
    <3> QED BY <3>1, <3>3
  <2>5. Way(tx') = Way(tx)
    BY <2>2, <2>4 DEF Way
  <2>6. w.at # "off"
    BY <2>2 DEF SentInv
  <2> QED BY <1>1, <2>2, <2>5, <2>6, WayKept
<1> QED BY <1>2, <1>3

(* The bytes that are added are the next of the stream.                    *)
LEMMA AddSends ==
  ASSUME SentInv, U!am_hal_queue_item_add
  PROVE  SentInv'
<1>1. /\ tx \in TxType /\ w \in WType /\ tx.queue \in Seq(Nat) /\ Len(tx.queue) \in Nat
      /\ tx.out \in Seq(Nat) /\ tx.shift \in Seq(Nat) /\ tx.hold \in Seq(Nat)
      /\ w.at = "add" /\ w.size \in Nat /\ w.transferred \in Nat /\ w.given \in Nat
      /\ w.total \in Nat /\ w.total < w.size
      /\ w.transferred <= LinSize - Len(tx.queue) /\ LinSize \in Nat
  BY UartFacts DEF SentInv, TxType, WType, U!am_hal_queue_item_add
<1>2. w' = [w EXCEPT !.at = "update"]
  BY DEF U!am_hal_queue_item_add
<1>3. /\ w' \in WType /\ w'.at = "update" /\ w'.size = w.size /\ w'.transferred = w.transferred
      /\ w'.given = w.given /\ w'.total = w.total
  BY <1>1, <1>2 DEF WType
<1>4. U!SpaceLeft >= w.transferred
  BY <1>1 DEF U!SpaceLeft
<1> DEFINE added == [i \in 1..w.transferred |-> U!ByteAt(w.total + i - 1)]
           limit == w.given + w.size
           n == w.given + w.total
<1>5. tx' = [tx EXCEPT !.queue = tx.queue \o added]
  BY <1>1, <1>4 DEF U!am_hal_queue_item_add, TxType
<1>6. /\ added \in Seq(Nat) /\ Len(added) = w.transferred
      /\ \A i \in 1..w.transferred : added[i] = IF n + i <= limit THEN n + i ELSE U!Beyond
  <2>1. ASSUME NEW i \in 1..w.transferred
        PROVE  /\ U!ByteAt(w.total + i - 1) = IF n + i <= limit THEN n + i ELSE U!Beyond
               /\ U!ByteAt(w.total + i - 1) \in Nat
    <3>1. i \in Nat /\ i >= 1
      BY <1>1
    <3>2. (w.total + i - 1 < w.size <=> n + i <= limit) /\ w.given + (w.total + i - 1) + 1 = n + i
      BY <1>1, <3>1
    <3> QED BY <1>1, <3>1, <3>2 DEF U!ByteAt, U!Beyond
  <2>2. added \in [1..w.transferred -> Nat]
    BY <2>1
  <2>3. added \in Seq(Nat) /\ Len(added) = w.transferred
    <3> HIDE DEF added
    <3>1. DOMAIN added = 1..w.transferred /\ w.transferred \in Nat
      BY <1>1, <2>2
    <3>2. added \in Seq(Nat)
      BY <2>2, <3>1, SeqDef
    <3> QED BY <3>1, <3>2, LenProperties
  <2> QED BY <2>1, <2>3
<1> HIDE DEF added
<1>7. tx.queue \o added \in Seq(Nat) /\ Len(tx.queue \o added) = Len(tx.queue) + w.transferred
  <2>1. tx.queue \in Seq(Nat) /\ added \in Seq(Nat) /\ Len(added) = w.transferred
    BY <1>1, <1>6
  <2> QED BY <2>1, JoinedNat, SMTT(60)
<1>8. /\ tx' \in TxType /\ tx'.out = tx.out /\ tx'.shift = tx.shift /\ tx'.hold = tx.hold
      /\ tx'.queue = tx.queue \o added /\ Len(tx'.queue) <= LinSize
  <2>1. tx' = [tx EXCEPT !.queue = tx.queue \o added] /\ tx.queue \o added \in Seq(Nat)
    BY <1>5, <1>7
  <2>2. /\ tx' \in TxType /\ tx'.out = tx.out /\ tx'.shift = tx.shift /\ tx'.hold = tx.hold
        /\ tx'.queue = tx.queue \o added
    BY <1>1, <2>1 DEF TxType
  <2>3. Len(tx'.queue) = Len(tx.queue) + w.transferred
    BY <1>7, <2>2
  <2> QED BY <1>1, <2>2, <2>3
<1>9. Way(tx') = Way(tx) \o added
  <2>1. /\ tx.hold \o (tx.queue \o added) = (tx.hold \o tx.queue) \o added
        /\ tx.hold \o tx.queue \in Seq(Nat)
    BY <1>1, <1>6, JoinedNat, JoinedAny, ZenonT(60)
  <2>2. /\ tx.shift \o ((tx.hold \o tx.queue) \o added) = (tx.shift \o (tx.hold \o tx.queue)) \o added
        /\ tx.shift \o (tx.hold \o tx.queue) \in Seq(Nat)
    <3>1. tx.shift \o (tx.hold \o tx.queue) \in Seq(Nat)
      BY <1>1, <2>1, JoinedNat
    <3>2. tx.shift \o ((tx.hold \o tx.queue) \o added) = (tx.shift \o (tx.hold \o tx.queue)) \o added
      BY <1>1, <1>6, <2>1, JoinedAny, Zenon
    <3> QED BY <3>1, <3>2
  <2>3. tx.out \o ((tx.shift \o (tx.hold \o tx.queue)) \o added)
          = (tx.out \o (tx.shift \o (tx.hold \o tx.queue))) \o added
    BY <1>1, <1>6, <2>2, JoinedAny, ZenonT(60)
  <2> QED BY <1>8, <2>1, <2>2, <2>3 DEF Way
<1>10. Way(tx) = Stream(n, limit)
  <2>1. Given(w) = n
    BY <1>1 DEF Given
  <2> QED BY <2>1 DEF SentInv
<1>11. Way(tx') = Stream(n + w.transferred, limit)
  <2>1. n \in Nat /\ limit \in Nat
    BY <1>1
  <2> HIDE DEF n, limit
  <2>2. Stream(n, limit) \o added = Stream(n + w.transferred, limit)
    BY <1>1, <1>6, <2>1, StreamNext
  <2> QED BY <1>9, <1>10, <2>2
<1>12. Given(w') = n + w.transferred /\ w'.given + w'.size = limit
  BY <1>1, <1>3 DEF Given
<1>13. Way(tx') = Stream(Given(w'), w'.given + w'.size)
  BY <1>11, <1>12
<1> QED BY <1>1, <1>3, <1>8, <1>13 DEF SentInv

LEMMA WriterSends ==
  ASSUME SentInv,
         (\E size \in Sizes : U!CallWrite(size)) \/ U!WaitForIdle \/ U!ReadSpace \/ U!Transferred
  PROVE  SentInv'
<1>1. /\ tx \in TxType /\ w \in WType /\ tx.queue \in Seq(Nat) /\ Len(tx.queue) \in Nat
      /\ w.given \in Nat /\ w.total \in Nat /\ w.size \in Nat /\ w.transferred \in Nat
      /\ LinSize \in Nat \ {0} /\ Len(tx.queue) <= LinSize
      /\ Sizes \subseteq Nat \ {0}
  BY UartFacts DEF SentInv, TxType, WType
<1>2. ASSUME NEW size \in Sizes, U!CallWrite(size) PROVE SentInv'
  <2>1. /\ size \in Nat \ {0} /\ tx' = tx /\ w.at = "idle"
        /\ w' = [w EXCEPT !.at = "wait", !.size = size, !.total = 0]
    BY <1>1, <1>2 DEF U!CallWrite
  <2>2. /\ w' \in WType /\ w'.at = "wait" /\ w'.size = size /\ w'.total = 0 /\ w'.given = w.given
    BY <1>1, <2>1 DEF WType
  <2>3. Given(w') = w.given /\ Given(w) = w.given /\ w.given + w.size = w.given
    BY <1>1, <2>1, <2>2 DEF Given, SentInv
  <2>4. Stream(w.given, w.given) = Stream(w.given, w.given + size)
    <3>1. w.given + size \in Nat /\ w.given <= w.given + size
      BY <1>1, <2>1
    <3> QED BY <1>1, <3>1, StreamBefore
  <2>5. Way(tx') = Stream(Given(w'), w'.given + w'.size)
    BY <2>1, <2>2, <2>3, <2>4 DEF SentInv
  <2> QED BY <1>1, <2>1, <2>2, <2>5 DEF SentInv
<1>3. CASE U!WaitForIdle
  <2>1. /\ tx' = tx /\ w.at = "wait" /\ w' \in WType /\ w'.at = "space"
        /\ w'.size = w.size /\ w'.total = w.total /\ w'.given = w.given
    BY <1>1, <1>3 DEF U!WaitForIdle, WType
  <2>2. Given(w') = Given(w)
    BY <2>1 DEF Given
  <2> QED BY <1>1, <2>1, <2>2 DEF SentInv
<1>4. CASE U!ReadSpace
  <2>1. w.at = "space" /\ tx' = tx
    BY <1>4 DEF U!ReadSpace
  <2>2. /\ U!Smaller(U!NumBytes, U!SpaceLeft) \in Nat
        /\ U!Smaller(U!NumBytes, U!SpaceLeft) <= LinSize - Len(tx.queue)
    BY <1>1 DEF U!Smaller, U!NumBytes, U!SpaceLeft
  <2>3. /\ w' \in WType /\ w'.at = "add" /\ w'.size = w.size /\ w'.total = w.total
        /\ w'.given = w.given
        /\ w'.transferred = U!Smaller(U!NumBytes, U!SpaceLeft)
    <3>1. w' = [w EXCEPT !.at = "add", !.transferred = U!Smaller(U!NumBytes, U!SpaceLeft)]
      BY <1>4 DEF U!ReadSpace
    <3> QED BY <1>1, <2>2, <3>1 DEF WType
  <2>4. Given(w') = Given(w)
    BY <2>1, <2>3 DEF Given
  <2> QED BY <1>1, <2>1, <2>2, <2>3, <2>4 DEF SentInv
<1>5. CASE U!Transferred
  <2>1. w.at = "update" /\ tx' = U!tx_queue_update(tx)
    BY <1>5 DEF U!Transferred
  <2>2. /\ tx' \in TxType /\ Way(tx') = Way(tx) /\ Len(tx'.queue) <= Len(tx.queue)
    BY <1>1, <2>1, UpdateKeeps
  <2> DEFINE total == w.total + w.transferred
  <2>3. /\ w' \in WType /\ w'.at \in {"wait", "idle", "blink"}
        /\ w'.at = "wait" => w'.total < w'.size
        /\ w'.at = "idle" => w'.size = 0 /\ w'.total = 0
        /\ Given(w') = Given(w) /\ w'.given + w'.size = w.given + w.size
    <3>1. CASE total < w.size
      <4>1. w' = [w EXCEPT !.at = "wait", !.total = total]
        BY <1>5, <3>1 DEF U!Transferred
      <4>2. /\ w' \in WType /\ w'.at = "wait" /\ w'.total = w.total + w.transferred
            /\ w'.given = w.given /\ w'.size = w.size
        <5>1. total \in Nat /\ w \in WType
          BY <1>1
        <5> HIDE DEF total
        <5>2. /\ w' \in WType /\ w'.at = "wait" /\ w'.total = total
              /\ w'.given = w.given /\ w'.size = w.size
          BY <4>1, <5>1 DEF WType
        <5> QED BY <5>2 DEF total
      <4>3. Given(w') = w.given + (w.total + w.transferred) /\ Given(w) = w.given + w.total + w.transferred
        BY <1>1, <2>1, <4>2 DEF Given
      <4> QED BY <1>1, <3>1, <4>2, <4>3
    <3>2. CASE total = w.size
      <4>1. w' = [w EXCEPT !.at = "idle", !.total = 0, !.size = 0, !.given = w.given + w.size]
        BY <1>1, <1>5, <3>2 DEF U!Transferred, WType
      <4>2. w.given + w.size \in Nat
        BY <1>1
      <4>3. /\ w' \in WType /\ w'.total = 0 /\ w'.size = 0 /\ w'.at = "idle"
            /\ w'.given = w.given + w.size
        BY <1>1, <4>1, <4>2 DEF WType
      <4>4. Given(w') = w.given + w.size /\ Given(w) = w.given + w.size
        BY <1>1, <2>1, <3>2, <4>3 DEF Given
      <4>5. w'.given + w'.size = w.given + w.size
        BY <1>1, <4>3
      <4> QED BY <4>3, <4>4, <4>5
    <3>3. CASE ~(total < w.size) /\ total # w.size
      <4>1. w' = [w EXCEPT !.at = "blink"]
        BY <1>5, <3>3 DEF U!Transferred
      <4> QED BY <1>1, <2>1, <4>1 DEF WType, Given
    <3> QED BY <3>1, <3>2, <3>3
  <2>4. Len(tx'.queue) <= LinSize
    <3>1. Len(tx'.queue) \in Nat
      BY <2>2 DEF TxType
    <3> QED BY <1>1, <2>2, <3>1
  <2>5. Way(tx') = Stream(Given(w'), w'.given + w'.size)
    BY <2>2, <2>3 DEF SentInv
  <2> QED BY <2>2, <2>3, <2>4, <2>5 DEF SentInv
<1> QED BY <1>2, <1>3, <1>4, <1>5

LEMMA FlushSends ==
  ASSUME SentInv, U!CallEnd \/ U!flush \/ U!begin
  PROVE  SentInv'
<1>1. /\ tx \in TxType /\ w \in WType /\ Len(tx.queue) \in Nat /\ LinSize \in Nat
      /\ Len(tx.queue) <= LinSize /\ w.given \in Nat
  BY UartFacts DEF SentInv, TxType, WType
<1> DEFINE Goes(at) == /\ w' \in WType /\ w'.at = at /\ w'.given = w.given
                       /\ w'.total = 0 /\ w'.size = 0
                       /\ Given(w') = Given(w) /\ w'.given + w'.size = w.given + w.size
<1>2. ASSUME NEW at \in {"flush", "busy", "off", "idle"}, w' = [w EXCEPT !.at = at],
             w.at \in {"idle", "flush", "busy", "off"}
      PROVE  Goes(at)
  <2>1. /\ w' \in WType /\ w'.at = at /\ w'.given = w.given /\ w'.total = w.total
        /\ w'.size = w.size
    BY <1>1, <1>2 DEF WType
  <2>2. w.total = 0 /\ w.size = 0
    BY <1>2 DEF SentInv
  <2> QED BY <1>2, <2>1, <2>2 DEF Given
<1>3. CASE U!CallEnd
  <2>1. tx' = tx /\ Goes("flush")
    BY <1>2, <1>3 DEF U!CallEnd
  <2> QED BY <1>1, <2>1 DEF SentInv
<1>4. CASE U!QueueFlushed
  <2>1. tx' = tx /\ tx.queue = <<>> /\ Goes("busy")
    BY <1>2, <1>4 DEF U!QueueFlushed
  <2> QED BY <1>1, <2>1 DEF SentInv
<1>5. CASE U!WireFlushed
  <2>1. tx.hold = <<>> /\ tx.shift = <<>> /\ tx.queue = <<>> /\ Goes("off")
    BY <1>2, <1>5 DEF U!WireFlushed, U!BUSY, SentInv
  <2>2. /\ tx' \in TxType /\ tx'.out = tx.out /\ tx'.shift = tx.shift /\ tx'.hold = tx.hold
        /\ tx'.queue = tx.queue
    BY <1>1, <1>5 DEF U!WireFlushed, TxType
  <2>3. Way(tx') = Way(tx)
    BY <2>2 DEF Way
  <2> QED BY <1>1, <2>1, <2>2, <2>3 DEF SentInv
<1>6. CASE U!begin
  <2>1. tx.queue = <<>> /\ Goes("idle")
    BY <1>2, <1>6 DEF U!begin, SentInv
  <2>2. tx' = tx
    BY <1>1, <1>6, <2>1 DEF U!begin, TxType
  <2> QED BY <1>1, <2>1, <2>2 DEF SentInv
<1> QED BY <1>3, <1>4, <1>5, <1>6 DEF U!flush

LEMMA SentNext ==
  ASSUME SentInv, [U!Next]_(U!vars)
  PROVE  SentInv'
<1>1. CASE tx' = tx /\ w' = w
  BY <1>1 DEF SentInv
<1>2. UNCHANGED U!vars \/ U!read \/ (\E bad \in BOOLEAN : U!Arrive(bad)) => tx' = tx /\ w' = w
  BY DEF U!vars, U!read, U!read_char, U!LoadChar, U!AdvanceTail, U!NothingToRead, U!Arrive, U!txVars
<1>3. U!write \/ U!CallEnd \/ U!flush \/ U!begin \/ U!uart_isr \/ U!Load \/ U!ShiftOut => SentInv'
  BY AddSends, WriterSends, FlushSends, InterruptSends, TransmitterSends DEF U!write
<1> QED BY <1>1, <1>2, <1>3 DEF U!Next

(* Every byte given to Serial is on its way exactly once and in order, for *)
(* buffers and strings of any length, however the interrupt refills, drops *)
(* a refill or finds a damaged byte; only behind the string, where a last  *)
(* round that asks for too much stops for good, come other bytes; and all  *)
(* bytes are on the wire when end() switches off (ap3_uart.cpp:123-160,    *)
(* am_hal_uart.c:832-842, 1069-1083, 1155-1196).                           *)
THEOREM SentOnceInOrder == U!Spec => []UartSentInOrder
<1>1. SentInv /\ [U!Next]_(U!vars) => SentInv'
  BY SentNext
<1>2. SentInv => UartSentInOrder
  <2> SUFFICES ASSUME SentInv PROVE U!SentInOrder /\ U!NothingCutOff
    BY DEF UartSentInOrder
  <2>1. /\ tx.out \in Seq(Nat) /\ tx.shift \in Seq(Nat) /\ tx.hold \in Seq(Nat)
        /\ tx.queue \in Seq(Nat) /\ w.given \in Nat /\ w.transferred \in Nat /\ w.total \in Nat
        /\ w.size \in Nat
    BY DEF SentInv, TxType, WType
  <2>2. ((tx.out \o tx.shift) \o tx.hold) \o tx.queue = Way(tx)
    <3>1. tx.out \o tx.shift \in Seq(Nat) /\ tx.hold \o tx.queue \in Seq(Nat)
      BY <2>1, JoinedNat
    <3>2. ((tx.out \o tx.shift) \o tx.hold) \o tx.queue = (tx.out \o tx.shift) \o (tx.hold \o tx.queue)
      BY <2>1, <3>1, JoinedAny, ZenonT(60)
    <3>3. (tx.out \o tx.shift) \o (tx.hold \o tx.queue) = tx.out \o (tx.shift \o (tx.hold \o tx.queue))
      BY <2>1, <3>1, JoinedAny, ZenonT(60)
    <3> QED BY <3>2, <3>3 DEF Way
  <2>3. U!SentInOrder
    BY <2>2 DEF SentInv, Given, Stream, U!SentInOrder
  <2>4. ASSUME w.at = "off" PROVE Len(tx.out) = w.given
    <3>1. /\ tx.hold = <<>> /\ tx.shift = <<>> /\ tx.queue = <<>>
          /\ Given(w) = w.given /\ w.given + w.size = w.given
      BY <2>1, <2>4 DEF SentInv, Given
    <3>2. Way(tx) = tx.out
      BY <2>1, <3>1 DEF Way
    <3>3. Way(tx) = Stream(w.given, w.given)
      BY <3>1 DEF SentInv
    <3> QED BY <2>1, <3>2, <3>3, StreamIs
  <2> QED BY <2>3, <2>4 DEF U!NothingCutOff
<1> QED BY SentInit, <1>1, <1>2, PTL DEF U!Spec
-----------------------------------------------------------------------------
(* The receiver of Serial.                                                 *)

(* One time around a ring of n places.                                     *)
LEMMA Around ==
  ASSUME NEW n \in Nat \ {0}, NEW x \in Nat, x < 2 * n
  PROVE  x % n = IF x < n THEN x ELSE x - n
<1>1. /\ x % n \in 0 .. n - 1 /\ x \div n \in Nat
      /\ x = (n * (x \div n)) + (x % n)
  BY SMT
<1> DEFINE q == x \div n
           m == x % n
<1>2. q \in Nat /\ m \in 0 .. n - 1 /\ x = n * q + m
  BY <1>1
<1> HIDE DEF q, m
<1>3. q = 0 \/ q = 1
  <2>1. ASSUME q >= 2 PROVE FALSE
    <3>1. n * q >= n * 2
      BY <1>2, <2>1, SMT
    <3> QED BY <1>2, <3>1
  <2> QED BY <1>2, <2>1
<1>4. m = IF x < n THEN x ELSE x - n
  BY <1>2, <1>3
<1> QED BY <1>4 DEF m

Apart(head, tail, n) == IF tail <= head THEN head - tail ELSE head + n - tail
Place(tail, i, n) == IF tail + i - 1 < n THEN tail + i - 1 ELSE tail + i - 1 - n
After(i, n) == IF i + 1 < n THEN i + 1 ELSE 0

(* The arithmetic of the code, without its modulus.                        *)
LEMMA RingArithmetic ==
  ASSUME NEW n \in Nat \ {0, 1}
  PROVE  /\ \A i \in 0 .. n - 1 : (i + 1) % n = After(i, n)
         /\ \A h, t \in 0 .. n - 1 : (h + n - t) % n = Apart(h, t, n)
         /\ \A t \in 0 .. n - 1, i \in 1 .. n : (t + i - 1) % n = Place(t, i, n)
<1>1. ASSUME NEW i \in 0 .. n - 1 PROVE (i + 1) % n = After(i, n)
  <2> DEFINE x == i + 1
  <2>1. x \in Nat /\ x < 2 * n /\ n \in Nat \ {0}
    OBVIOUS
  <2> HIDE DEF x
  <2>2. x % n = IF x < n THEN x ELSE x - n
    BY <2>1, Around
  <2> QED BY <2>2 DEF After, x
<1>2. ASSUME NEW h \in 0 .. n - 1, NEW t \in 0 .. n - 1
      PROVE  (h + n - t) % n = Apart(h, t, n)
  <2> DEFINE x == h + n - t
  <2>1. x \in Nat /\ x < 2 * n /\ n \in Nat \ {0}
    OBVIOUS
  <2> HIDE DEF x
  <2>2. x % n = IF x < n THEN x ELSE x - n
    BY <2>1, Around
  <2> QED BY <2>2 DEF Apart, x
<1>3. ASSUME NEW t \in 0 .. n - 1, NEW i \in 1 .. n
      PROVE  (t + i - 1) % n = Place(t, i, n)
  <2> DEFINE x == t + i - 1
  <2>1. x \in Nat /\ x < 2 * n /\ n \in Nat \ {0}
    OBVIOUS
  <2> HIDE DEF x
  <2>2. x % n = IF x < n THEN x ELSE x - n
    BY <2>1, Around
  <2> QED BY <2>2 DEF Place, x
<1> QED BY <1>1, <1>2, <1>3

(* How many bytes are in the ring.                                        *)
InRing == Apart(ring.head, ring.tail, RingSize)

(* How the places of the ring move when its head or its tail does.         *)
LEMMA RingMoves ==
  ASSUME ring.head \in 0 .. RingSize - 1, ring.tail \in 0 .. RingSize - 1
  PROVE  /\ InRing \in 0 .. RingSize - 1
         /\ ring.head # ring.tail <=> InRing > 0
         /\ After(ring.head, RingSize) \in 0 .. RingSize - 1
         /\ After(ring.tail, RingSize) \in 0 .. RingSize - 1
         /\ Place(ring.tail, 1, RingSize) = ring.tail
         /\ \A i \in 1 .. InRing : /\ Place(ring.tail, i, RingSize) \in 0 .. RingSize - 1
                                  /\ Place(ring.tail, i, RingSize) # ring.head
         /\ Place(ring.tail, InRing + 1, RingSize) = ring.head
         /\ After(ring.head, RingSize) # ring.tail =>
              Apart(After(ring.head, RingSize), ring.tail, RingSize) = InRing + 1
         /\ ring.head # ring.tail =>
              Apart(ring.head, After(ring.tail, RingSize), RingSize) = InRing - 1
         /\ \A i \in 1 .. RingSize - 1 :
              Place(After(ring.tail, RingSize), i, RingSize) = Place(ring.tail, i + 1, RingSize)
<1> DEFINE n == RingSize
           h == ring.head
           t == ring.tail
<1>1. n \in Nat \ {0, 1} /\ h \in 0 .. n - 1 /\ t \in 0 .. n - 1
  BY UartFacts
<1> HIDE DEF n, h, t
<1>2. /\ Apart(h, t, n) \in 0 .. n - 1
      /\ h # t <=> Apart(h, t, n) > 0
      /\ After(h, n) \in 0 .. n - 1
      /\ Place(t, 1, n) = t
      /\ \A i \in 1 .. Apart(h, t, n) : Place(t, i, n) \in 0 .. n - 1 /\ Place(t, i, n) # h
      /\ Place(t, Apart(h, t, n) + 1, n) = h
      /\ After(h, n) # t => Apart(After(h, n), t, n) = Apart(h, t, n) + 1
      /\ h # t => Apart(h, After(t, n), n) = Apart(h, t, n) - 1
      /\ \A i \in 1 .. n : Place(After(t, n), i, n) = IF i < n THEN Place(t, i + 1, n) ELSE t
  BY <1>1 DEF Apart, Place, After
<1>3. \A i \in 1 .. n - 1 : Place(After(t, n), i, n) = Place(t, i + 1, n)
  BY <1>1, <1>2
<1>4. After(t, n) \in 0 .. n - 1
  BY <1>1 DEF After
<1> QED BY <1>2, <1>3, <1>4 DEF InRing, n, h, t

RingType == [buf : [U!Slot -> Nat], head : U!Slot, tail : U!Slot]
RxType == [data : Seq(Nat), bad : BOOLEAN, irq : BOOLEAN, n : Nat]

(* A reader in a call has a byte to read, and when it has loaded it the    *)
(* byte is still that of the tail.                                         *)
ReadInv ==
  /\ rx \in RxType /\ ring \in RingType
  /\ r \in [at : {"idle", "load", "advance"}, value : Nat]
  /\ stored \in Seq(Nat) /\ got \in Seq(Nat)
  /\ Len(stored) = Len(got) + InRing
  /\ \A i \in 1 .. Len(got) : stored[i] = got[i]
  /\ \A i \in 1 .. InRing : stored[Len(got) + i] = ring.buf[Place(ring.tail, i, RingSize)]
  /\ r.at # "idle" => ring.head # ring.tail
  /\ r.at = "advance" => r.value = ring.buf[ring.tail]

LEMMA ReadInit == U!Init => ReadInv
<1> SUFFICES ASSUME U!Init PROVE ReadInv
  OBVIOUS
<1>1. 0 \in U!Slot
  BY UartFacts DEF U!Slot
<1>2. InRing = 0
  BY UartFacts DEF U!Init, InRing, Apart
<1> QED BY <1>1, <1>2 DEF U!Init, ReadInv, RxType, RingType

LEMMA StoreKeeps ==
  ASSUME ReadInv, NEW c \in Nat, U!store_char(c), r' = r, got' = got, rx' \in RxType
  PROVE  ReadInv'
<1>1. /\ ring \in RingType /\ ring.head \in 0..RingSize - 1 /\ ring.tail \in 0..RingSize - 1
      /\ ring.buf \in [0..RingSize - 1 -> Nat]
      /\ stored \in Seq(Nat) /\ Len(stored) \in Nat /\ Len(got) \in Nat /\ RingSize \in Nat \ {0, 1}
  BY UartFacts DEF ReadInv, RingType, U!Slot
<1>2. U!next_index(ring.head) = After(ring.head, RingSize)
  BY <1>1, RingArithmetic DEF U!next_index
<1>3. CASE After(ring.head, RingSize) = ring.tail
  <2>1. ring' = ring /\ stored' = stored
    BY <1>2, <1>3 DEF U!store_char
  <2> QED BY <2>1 DEF ReadInv, InRing
<1>4. CASE After(ring.head, RingSize) # ring.tail
  <2>1. /\ ring' = [ring EXCEPT !.buf[ring.head] = c, !.head = After(ring.head, RingSize)]
        /\ stored' = Append(stored, c)
    BY <1>1, <1>2, <1>4 DEF U!store_char, RingType
  <2>2. /\ InRing \in 0..RingSize - 1
        /\ After(ring.head, RingSize) \in 0..RingSize - 1
        /\ Apart(After(ring.head, RingSize), ring.tail, RingSize)
             = InRing + 1
        /\ \A i \in 1 .. InRing :
             /\ Place(ring.tail, i, RingSize) \in 0..RingSize - 1
             /\ Place(ring.tail, i, RingSize) # ring.head
        /\ Place(ring.tail, InRing + 1, RingSize) = ring.head
        /\ ring.head # ring.tail => ring.tail # ring.head
    BY <1>1, <1>4, RingMoves
  <2>3. /\ ring' \in RingType /\ ring'.tail = ring.tail
        /\ ring'.head = After(ring.head, RingSize)
        /\ ring'.buf = [ring.buf EXCEPT ![ring.head] = c]
    BY <1>1, <2>1, <2>2 DEF RingType, U!Slot
  <2>4. InRing \in Nat /\ InRing' = InRing + 1
    BY <2>2, <2>3 DEF InRing
  <2>5. /\ ring'.buf[ring.head] = c
        /\ \A j \in 0..RingSize - 1 : j # ring.head => ring'.buf[j] = ring.buf[j]
    BY <1>1, <2>3
  <2>6. /\ stored' \in Seq(Nat) /\ Len(stored') = Len(stored) + 1 /\ stored'[Len(stored) + 1] = c
        /\ \A i \in 1..Len(stored) : stored'[i] = stored[i]
    BY <1>1, <2>1, AppendProperties
  <2>7. Len(stored) = Len(got) + InRing
    BY DEF ReadInv
  <2>8. Len(stored') = Len(got') + InRing'
    BY <1>1, <2>4, <2>6, <2>7
  <2>9. ASSUME NEW i \in 1..Len(got') PROVE stored'[i] = got'[i]
    <3>1. i \in 1..Len(got) /\ i \in 1..Len(stored)
      BY <1>1, <2>4, <2>7, <2>9
    <3> QED BY <2>6, <3>1 DEF ReadInv
  <2>10. ASSUME NEW i \in 1..InRing'
         PROVE  stored'[Len(got') + i] = ring'.buf[Place(ring'.tail, i, RingSize)]
    <3>1. CASE i = InRing + 1
      <4>1. Len(got') + i = Len(stored) + 1
        BY <1>1, <2>4, <2>7, <3>1
      <4>2. Place(ring'.tail, i, RingSize) = ring.head
        BY <2>2, <2>3, <3>1 DEF InRing
      <4> QED BY <2>5, <2>6, <4>1, <4>2
    <3>2. CASE i # InRing + 1
      <4>1. i \in 1..InRing /\ Len(got) + i \in 1..Len(stored)
        BY <1>1, <2>4, <2>7, <2>10, <3>2, SMTT(30)
      <4>2. /\ Place(ring.tail, i, RingSize) \in 0..RingSize - 1
            /\ Place(ring.tail, i, RingSize) # ring.head
        BY <2>2, <4>1 DEF InRing
      <4>3. stored[Len(got) + i] = ring.buf[Place(ring.tail, i, RingSize)]
        BY <4>1 DEF ReadInv
      <4>4. stored'[Len(got) + i] = stored[Len(got) + i]
        BY <2>6, <4>1
      <4>5. ring'.buf[Place(ring.tail, i, RingSize)] = ring.buf[Place(ring.tail, i, RingSize)]
        BY <2>5, <4>2
      <4> QED BY <2>3, <4>3, <4>4, <4>5
    <3> QED BY <3>1, <3>2
  <2>11. ring'.head # ring'.tail
    BY <1>4, <2>3
  <2>12. r'.at = "advance" => r'.value = ring'.buf[ring'.tail]
    BY <1>1, <2>3, <2>5 DEF ReadInv
  <2> QED BY <2>3, <2>6, <2>8, <2>9, <2>10, <2>11, <2>12 DEF ReadInv
<1> QED BY <1>3, <1>4

LEMMA ReaderKeeps ==
  ASSUME ReadInv, U!read
  PROVE  ReadInv'
<1>1. /\ ring \in RingType /\ ring.head \in 0..RingSize - 1 /\ ring.tail \in 0..RingSize - 1
      /\ ring.buf \in [0..RingSize - 1 -> Nat]
      /\ r \in [at : {"idle", "load", "advance"}, value : Nat]
      /\ got \in Seq(Nat) /\ Len(stored) \in Nat /\ Len(got) \in Nat /\ RingSize \in Nat \ {0, 1}
  BY UartFacts DEF ReadInv, RingType, U!Slot
<1>2. CASE U!read_char \/ U!LoadChar \/ U!NothingToRead
  <2>1. UNCHANGED <<rx, ring, stored, got>>
    BY <1>2 DEF U!read_char, U!LoadChar, U!NothingToRead, U!vars
  <2>2. /\ r' \in [at : {"idle", "load", "advance"}, value : Nat]
        /\ r'.at # "idle" => ring.head # ring.tail
        /\ r'.at = "advance" => r'.value = ring.buf[ring.tail]
    BY <1>1, <1>2 DEF U!read_char, U!LoadChar, U!NothingToRead, U!vars, ReadInv
  <2> QED BY <2>1, <2>2 DEF ReadInv, InRing
<1>3. CASE U!AdvanceTail
  <2>1. /\ r.at = "advance" /\ r' = [at |-> "idle", value |-> 0]
        /\ ring' = [ring EXCEPT !.tail = U!next_index(ring.tail)]
        /\ got' = Append(got, r.value) /\ rx' = rx /\ stored' = stored
    BY <1>1, <1>3 DEF U!AdvanceTail, RingType
  <2>2. U!next_index(ring.tail) = After(ring.tail, RingSize)
    BY <1>1, RingArithmetic DEF U!next_index
  <2>3. ring.head # ring.tail /\ r.value = ring.buf[ring.tail] /\ r.value \in Nat
    BY <1>1, <2>1 DEF ReadInv
  <2>4. /\ InRing \in 0..RingSize - 1
        /\ InRing > 0
        /\ Apart(ring.head, After(ring.tail, RingSize), RingSize)
             = InRing - 1
        /\ Place(ring.tail, 1, RingSize) = ring.tail
        /\ \A i \in 1 .. RingSize - 1 :
             Place(After(ring.tail, RingSize), i, RingSize) = Place(ring.tail, i + 1, RingSize)
    BY <1>1, <2>3, RingMoves
  <2>5. After(ring.tail, RingSize) \in 0..RingSize - 1
    BY <1>1 DEF After
  <2>6. /\ ring' \in RingType /\ ring'.head = ring.head /\ ring'.buf = ring.buf
        /\ ring'.tail = After(ring.tail, RingSize)
    BY <1>1, <2>1, <2>2, <2>5 DEF RingType, U!Slot
  <2>7. InRing \in 1..RingSize - 1 /\ InRing' = InRing - 1
    BY <1>1, <2>4, <2>6 DEF InRing
  <2>8. /\ got' \in Seq(Nat) /\ Len(got') = Len(got) + 1 /\ got'[Len(got) + 1] = r.value
        /\ \A i \in 1..Len(got) : got'[i] = got[i]
    BY <1>1, <2>1, <2>3, AppendProperties
  <2>9. stored[Len(got) + 1] = r.value
    BY <2>3, <2>4, <2>7 DEF ReadInv
  <2>10. Len(stored') = Len(got') + InRing'
    <3>1. Len(stored) = Len(got) + InRing
      BY DEF ReadInv
    <3> QED BY <1>1, <2>1, <2>7, <2>8, <3>1
  <2>11. ASSUME NEW i \in 1..Len(got') PROVE stored'[i] = got'[i]
    <3>1. i \in 1..Len(got) \/ i = Len(got) + 1
      BY <1>1, <2>8
    <3> QED BY <2>1, <2>8, <2>9, <3>1 DEF ReadInv
  <2>12. ASSUME NEW i \in 1..InRing'
         PROVE  stored'[Len(got') + i] = ring'.buf[Place(ring'.tail, i, RingSize)]
    <3>1. i + 1 \in 1..InRing /\ i \in 1..RingSize - 1
          /\ Len(got') + i = Len(got) + (i + 1)
      BY <1>1, <2>7, <2>8
    <3>2. stored[Len(got) + (i + 1)] = ring.buf[Place(ring.tail, i + 1, RingSize)]
      BY <3>1 DEF ReadInv
    <3>3. Place(ring'.tail, i, RingSize) = Place(ring.tail, i + 1, RingSize)
      BY <2>4, <2>6, <3>1
    <3> QED BY <2>1, <2>6, <3>1, <3>2, <3>3
  <2>13. r' \in [at : {"idle", "load", "advance"}, value : Nat] /\ r'.at = "idle"
    BY <2>1
  <2> QED BY <2>1, <2>6, <2>8, <2>10, <2>11, <2>12, <2>13 DEF ReadInv
<1> QED BY <1>2, <1>3 DEF U!read

LEMMA ReceiverKeeps ==
  ASSUME ReadInv, U!uart_isr
  PROVE  ReadInv'
<1>1. /\ r' = r /\ got' = got /\ rx \in RxType
  BY DEF U!uart_isr, ReadInv
<1>2. /\ rx' = rx \/ rx' = [rx EXCEPT !.data = <<>>, !.bad = FALSE, !.irq = FALSE]
      /\ UNCHANGED <<ring, stored>> \/ (rx.data # <<>> /\ U!store_char(Head(rx.data)))
  BY DEF U!uart_isr
<1>3. rx' \in RxType
  BY <1>1, <1>2, EmptySeq DEF RxType
<1>4. CASE UNCHANGED <<ring, stored>>
  BY <1>1, <1>3, <1>4 DEF ReadInv, InRing
<1>5. CASE rx.data # <<>> /\ U!store_char(Head(rx.data))
  <2>1. Head(rx.data) \in Nat
    BY <1>1, <1>5, HeadTailProperties DEF RxType
  <2> QED BY <1>1, <1>3, <1>5, <2>1, StoreKeeps
<1> QED BY <1>2, <1>4, <1>5

LEMMA ReadNext ==
  ASSUME ReadInv, [U!Next]_(U!vars)
  PROVE  ReadInv'
<1>1. ASSUME UNCHANGED <<ring, r, stored, got>>, rx' \in RxType PROVE ReadInv'
  BY <1>1 DEF ReadInv, InRing
<1>2. rx \in RxType
  BY DEF ReadInv
<1>3. CASE UNCHANGED U!vars \/ U!write \/ U!CallEnd \/ U!QueueFlushed \/ U!begin \/ U!Load \/ U!ShiftOut
  <2>1. UNCHANGED <<rx, ring, r, stored, got>>
    BY <1>3 DEF U!vars, U!rxVars, U!write, U!CallWrite, U!WaitForIdle, U!ReadSpace,
       U!am_hal_queue_item_add, U!Transferred, U!CallEnd, U!QueueFlushed, U!begin, U!Load, U!ShiftOut
  <2> QED BY <1>1, <1>2, <2>1
<1>4. CASE U!WireFlushed
  <2>1. /\ UNCHANGED <<ring, r, stored, got>>
        /\ rx' = [rx EXCEPT !.data = <<>>, !.bad = FALSE, !.irq = FALSE]
    BY <1>4 DEF U!WireFlushed
  <2>2. rx' \in RxType
    BY <1>2, <2>1, EmptySeq DEF RxType
  <2> QED BY <1>1, <2>1, <2>2
<1>5. ASSUME NEW bad \in BOOLEAN, U!Arrive(bad) PROVE ReadInv'
  <2>1. /\ UNCHANGED <<ring, r, stored, got>>
        /\ rx' = [data |-> IF rx.data = <<>> THEN <<rx.n + 1>> ELSE rx.data,
                  bad |-> bad, irq |-> TRUE, n |-> rx.n + 1]
    BY <1>5 DEF U!Arrive
  <2>2. rx.n + 1 \in Nat /\ <<rx.n + 1>> \in Seq(Nat) /\ rx.data \in Seq(Nat)
    BY <1>2 DEF RxType
  <2>3. rx' \in RxType
    BY <2>1, <2>2 DEF RxType
  <2> QED BY <1>1, <2>1, <2>3
<1> QED BY <1>3, <1>4, <1>5, ReaderKeeps, ReceiverKeeps DEF U!Next, U!flush

(* The ring of Serial holds what was stored and not read, for rings of any *)
(* length and however the reads and the interrupt take turns               *)
(* (RingBuffer.h:67-99).                                                   *)
THEOREM ReadOnceInOrder == U!Spec => []UartReadInOrder
<1>1. ReadInv /\ [U!Next]_(U!vars) => ReadInv'
  BY ReadNext
<1>2. ReadInv => UartReadInOrder
  <2> SUFFICES ASSUME ReadInv PROVE U!ReadInOrder
    BY DEF UartReadInOrder
  <2>1. /\ ring.head \in 0..RingSize - 1 /\ ring.tail \in 0..RingSize - 1
        /\ ring.buf \in [0..RingSize - 1 -> Nat]
        /\ stored \in Seq(Nat) /\ got \in Seq(Nat)
        /\ Len(stored) \in Nat /\ Len(got) \in Nat /\ RingSize \in Nat \ {0, 1}
    BY UartFacts DEF ReadInv, RingType, U!Slot
  <2> DEFINE len == (ring.head + RingSize - ring.tail) % RingSize
             holds == [i \in 1..len |-> ring.buf[(ring.tail + i - 1) % RingSize]]
  <2>2. len = InRing /\ InRing \in 0..RingSize - 1
    <3>1. \A h, t \in 0..RingSize - 1 : (h + RingSize - t) % RingSize = Apart(h, t, RingSize)
      BY <2>1, RingArithmetic
    <3>2. len = InRing
      BY <2>1, <3>1, Zenon DEF InRing
    <3> QED BY <2>1, <3>2, RingMoves
  <2>3. ASSUME NEW i \in 1..InRing
        PROVE  /\ (ring.tail + i - 1) % RingSize = Place(ring.tail, i, RingSize)
               /\ ring.buf[Place(ring.tail, i, RingSize)] \in Nat
    <3>1. i \in 1..RingSize
      BY <2>1, <2>2
    <3>2. Place(ring.tail, i, RingSize) \in 0..RingSize - 1
      BY <2>1, RingMoves
    <3> QED BY <2>1, <3>1, <3>2, RingArithmetic
  <2>4. holds = [i \in 1..InRing |-> ring.buf[Place(ring.tail, i, RingSize)]]
    BY <2>2, <2>3
  <2> HIDE DEF len, holds
  <2>5. holds \in Seq(Nat) /\ Len(holds) = InRing
    BY <2>1, <2>2, <2>3, <2>4
  <2>6. /\ got \o holds \in Seq(Nat) /\ Len(got \o holds) = Len(stored)
        /\ \A i \in 1..Len(got \o holds) :
             (got \o holds)[i] = IF i <= Len(got) THEN got[i] ELSE holds[i - Len(got)]
    BY <2>1, <2>5, ConcatProperties DEF ReadInv
  <2>7. ASSUME NEW i \in 1..Len(got \o holds) PROVE (got \o holds)[i] = stored[i]
    <3>1. CASE i <= Len(got)
      BY <2>1, <2>6, <2>7, <3>1, SMTT(30) DEF ReadInv
    <3>2. CASE ~(i <= Len(got))
      <4>1. i - Len(got) \in 1..InRing /\ Len(got) + (i - Len(got)) = i
        BY <2>1, <2>2, <2>6, <2>7, <3>2 DEF ReadInv
      <4>2. holds[i - Len(got)] = stored[Len(got) + (i - Len(got))]
        BY <2>4, <4>1 DEF ReadInv
      <4> QED BY <2>6, <3>2, <4>1, <4>2
    <3> QED BY <3>1, <3>2
  <2>8. got \o holds = stored
    BY <2>1, <2>6, <2>7, SeqEqual, ZenonT(30)
  <2> QED BY <2>8 DEF U!ReadInOrder, holds, len
<1> QED BY ReadInit, <1>1, <1>2, PTL DEF U!Spec
-----------------------------------------------------------------------------
(* SoftwareSerial.                                                         *)

FrameLength == Bits + (IF Parity THEN 3 ELSE 2)
InTx == Apart(sTx.head, sTx.tail, Size)
InRx == Apart(sRx.head, sRx.tail, Size)
PortType == [txInUse : BOOLEAN, rxInUse : BOOLEAN, timed : BOOLEAN, bitCounter : Nat,
             outgoing : Nat, shifts : Nat]
TimerType == [set : {"none", "tx", "rx"}, flag : BOOLEAN, nvic : BOOLEAN]
BufferType == [buf : [0 .. Size - 1 -> Nat], head : 0 .. Size - 1, tail : 0 .. Size - 1]
CallOfWrite == [at : {"idle", "check", "detach", "rxoff", "put", "claim", "take", "begin"},
                n : Nat]
PortTypes ==
  /\ port \in PortType /\ timer \in TimerType /\ pci \in BOOLEAN
  /\ sTx \in BufferType /\ sRx \in BufferType /\ sW \in CallOfWrite /\ reading \in BOOLEAN
  /\ peer \in [edges : 0..1, n : 0..MaxHeard]
  /\ queued \in Seq(Nat) /\ heard \in Seq(Nat) /\ sGot \in Seq(Nat)
  /\ broken \in SUBSET {"duplex", "frame"}

(* Either the timer is set, or it has come and its interrupt is pending.   *)
Armed(what) == timer.nvic /\ (IF timer.flag THEN timer.set = "none" ELSE timer.set = what)

(* The transmitter, as long as no frame was disturbed, whatever comes in.  *)

(* It is not in use: what is in the ring is the byte of a call that is     *)
(* about to claim it, if the interrupt has not sent that byte as well.     *)
Waiting ==
  /\ ~port.txInUse /\ timer.set # "tx"
  /\ sW.at \in {"idle", "check", "detach", "rxoff", "put", "claim"}
  /\ sW.at \in {"idle", "check", "detach"} => pci
  /\ IF sW.at = "claim" THEN InTx <= 1 ELSE InTx = 0

(* The call that has claimed the transmitter has the ring for itself.      *)
Claimed ==
  /\ port.txInUse /\ ~port.rxInUse /\ timer.set # "tx" /\ ~(timer.flag /\ timer.nvic)
  /\ sW.at \in {"take", "begin"}
  /\ IF sW.at = "take" THEN InTx <= 1 ELSE InTx = 0

Sending ==
  /\ port.txInUse /\ ~port.rxInUse /\ Armed("tx")
  /\ sW.at \in {"idle", "check", "put", "claim"}
  /\ port.bitCounter < FrameLength

LineInv == PortTypes /\ (Waiting \/ Claimed \/ Sending)

(* The receiver, as long as both sides did not send at once, whatever      *)
(* write() puts on the wire.                                               *)
NotHearing == ~port.rxInUse /\ ~port.timed /\ peer.edges = 0 /\ seen = <<>>
AtRest == NotHearing /\ timer = [set |-> "none", flag |-> FALSE, nvic |-> FALSE]

Silent ==
  /\ ~port.txInUse /\ AtRest
  /\ sW.at \in {"idle", "check", "detach", "rxoff", "put", "claim"}
  /\ sW.at \in {"idle", "check", "detach"} => pci

Hearing ==
  /\ ~port.txInUse /\ port.rxInUse /\ port.timed
  /\ sW.at = "idle" /\ pci /\ peer.n \in 1..MaxHeard /\ Armed("rx")
  /\ IF peer.edges = 1 THEN ~timer.flag /\ seen = <<<<peer.n, 1>>>>
                       ELSE seen = <<<<peer.n, 1>>, <<peer.n, 2>>>>

Deaf == port.txInUse /\ AtRest /\ sW.at \in {"take", "begin"}

EarInv == PortTypes /\ (Silent \/ Hearing \/ Deaf \/ (Sending /\ NotHearing))

(* The frames of the bytes of a sequence.                                  *)
FramesOf(s) == S!FlattenSeq([i \in 1..Len(s) |-> S!Frame(s[i])])
Taken == Len(queued) - InTx
Begun(n) == FramesOf(SubSeq(queued, 1, n))

(* The ring holds the last bytes queued; on the wire are the frames of the *)
(* others, the last of them as far as its bits have come.                  *)
OutInv ==
  /\ InTx <= Len(queued)
  /\ \A i \in 1..InTx : sTx.buf[Place(sTx.tail, i + 1, Size)] = queued[Taken + i]
  /\ ~port.txInUse \/ sW.at = "take" => out = Begun(Taken)
  /\ sW.at = "begin" => /\ Taken > 0 /\ port.outgoing = queued[Taken]
                        /\ port.shifts = 0 /\ out = Begun(Taken - 1)
  /\ port.txInUse /\ sW.at \notin {"take", "begin"} =>
       /\ Taken > 0 /\ port.outgoing = queued[Taken]
       /\ port.shifts = IF port.bitCounter < Bits THEN port.bitCounter ELSE Bits
       /\ out = Begun(Taken - 1) \o SubSeq(S!Frame(queued[Taken]), 1, port.bitCounter + 1)

Upto(n) == [i \in 1..n |-> i]

Heard == IF port.rxInUse THEN peer.n - 1 ELSE peer.n
HeardInv == heard = Upto(Heard)

(* What waits in the ring, and the byte whose tail has moved already,      *)
(* are in order and behind what was read.                                  *)
FirstLeft == IF reading THEN 0 ELSE 1
InOrder == \A i, j \in 1..Len(sGot) : i < j => sGot[i] < sGot[j]
Left(i) == sRx.buf[Place(sRx.tail, i + 1, Size)]
GotInv ==
  /\ \A i \in FirstLeft..InRx : Left(i) \in 1..Heard
  /\ \A i, j \in FirstLeft..InRx : i < j => Left(i) < Left(j)
  /\ \A k \in 1..Len(sGot), i \in FirstLeft..InRx : sGot[k] < Left(i)
  /\ \A k \in 1..Len(sGot) : sGot[k] <= Heard
  /\ InOrder

LEMMA SerialFacts ==
  /\ Bits \in Nat \ {0} /\ MaxOut \in Nat \ {0} /\ MaxHeard \in Nat \ {0}
  /\ Size \in Nat \ {0, 1} /\ Parity \in BOOLEAN
BY DriversAssumption DEF S!SerialConstants

Part == Nat \X (Nat \cup {"parity", "stop"})

(* A frame has its bits where they are counted.                            *)
LEMMA FrameIs ==
  ASSUME NEW b \in Nat
  PROVE  /\ S!Frame(b) \in Seq(Part) /\ Len(S!Frame(b)) = FrameLength
         /\ S!Frame(b)[1] = <<b, 0>>
         /\ \A k \in 1..Bits : S!Frame(b)[k + 1] = <<b, k>>
         /\ Parity => S!Frame(b)[Bits + 2] = <<b, "parity">>
         /\ S!Frame(b)[FrameLength] = <<b, "stop">>
<1> DEFINE start == <<<<b, 0>>>>
           bits == [k \in 1..Bits |-> <<b, k>>]
           parity == IF Parity THEN <<<<b, "parity">>>> ELSE <<>>
           stop == <<<<b, "stop">>>>
           p == IF Parity THEN 1 ELSE 0
<1>1. Bits \in Nat \ {0} /\ p \in 0..1 /\ FrameLength = Bits + 2 + p
  BY SerialFacts DEF FrameLength
<1>2. start \in Seq(Part) /\ Len(start) = 1 /\ start[1] = <<b, 0>>
  BY DEF Part
<1>3. stop \in Seq(Part) /\ Len(stop) = 1 /\ stop[1] = <<b, "stop">>
  BY DEF Part
<1>4. parity \in Seq(Part) /\ Len(parity) = p /\ (Parity => parity[1] = <<b, "parity">>)
  BY EmptySeq DEF Part
<1>5. bits \in Seq(Part) /\ Len(bits) = Bits /\ \A k \in 1..Bits : bits[k] = <<b, k>>
  <2>1. \A k \in 1..Bits : <<b, k>> \in Part
    BY DEF Part
  <2> QED BY <1>1, <2>1
<1>6. S!Frame(b) = ((start \o bits) \o parity) \o stop
  BY DEF S!Frame
<1> HIDE DEF start, bits, parity, stop, p
<1>7. /\ start \o bits \in Seq(Part) /\ Len(start \o bits) = Bits + 1
      /\ (start \o bits)[1] = <<b, 0>>
      /\ \A k \in 1..Bits : (start \o bits)[k + 1] = <<b, k>>
  <2>1. /\ start \o bits \in Seq(Part) /\ Len(start \o bits) = 1 + Bits
        /\ \A i \in 1..1 + Bits : (start \o bits)[i] = IF i <= 1 THEN start[i] ELSE bits[i - 1]
    BY <1>1, <1>2, <1>5, ConcatProperties, SMTT(60)
  <2> QED BY <1>1, <1>2, <1>5, <2>1
<1> DEFINE two == start \o bits
           three == two \o parity
<1> HIDE DEF two
<1>8. /\ three \in Seq(Part) /\ Len(three) = Bits + 1 + p
      /\ three[1] = <<b, 0>>
      /\ \A k \in 1..Bits : three[k + 1] = <<b, k>>
      /\ Parity => three[Bits + 2] = <<b, "parity">>
  <2>1. /\ three \in Seq(Part) /\ Len(three) = Bits + 1 + p
        /\ \A i \in 1..Bits + 1 + p :
             three[i] = IF i <= Bits + 1 THEN two[i] ELSE parity[i - (Bits + 1)]
    <3>1. two \in Seq(Part) /\ Len(two) = Bits + 1
      BY <1>7 DEF two
    <3>2. /\ three \in Seq(Part) /\ Len(three) = Len(two) + Len(parity)
          /\ \A i \in 1..Len(two) + Len(parity) :
               three[i] = IF i <= Len(two) THEN two[i] ELSE parity[i - Len(two)]
      BY <1>4, <3>1, ConcatProperties
    <3> QED BY <1>4, <3>1, <3>2
  <2> HIDE DEF three
  <2>2. Parity => p = 1
    BY DEF p
  <2>3. Parity => Bits + 2 \in 1..Bits + 1 + p /\ ~(Bits + 2 <= Bits + 1) /\ Bits + 2 - (Bits + 1) = 1
    BY <1>1, <2>2
  <2>4. Parity => three[Bits + 2] = <<b, "parity">>
    <3>1. ASSUME NEW i, i = Bits + 2, Parity PROVE three[i] = <<b, "parity">>
      <4>1. i \in 1..Bits + 1 + p /\ ~(i <= Bits + 1) /\ i - (Bits + 1) = 1
        BY <1>1, <2>3, <3>1
      <4> QED BY <1>4, <2>1, <3>1, <4>1
    <3> QED BY <3>1
  <2>5. three[1] = <<b, 0>>
    <3>1. 1 \in 1..Bits + 1 + p /\ 1 <= Bits + 1
      BY <1>1
    <3> QED BY <1>7, <2>1, <3>1 DEF two
  <2>6. ASSUME NEW k \in 1..Bits PROVE three[k + 1] = <<b, k>>
    <3>1. k + 1 \in 1..Bits + 1 + p /\ k + 1 <= Bits + 1
      BY <1>1
    <3> QED BY <1>7, <2>1, <3>1 DEF two
  <2> QED BY <2>1, <2>4, <2>5, <2>6
<1> HIDE DEF three
<1>9. /\ three \o stop \in Seq(Part) /\ Len(three \o stop) = Bits + 1 + p + 1
      /\ \A i \in 1..Bits + 1 + p + 1 :
           (three \o stop)[i] = IF i <= Bits + 1 + p THEN three[i] ELSE stop[i - (Bits + 1 + p)]
  <2>1. /\ three \o stop \in Seq(Part) /\ Len(three \o stop) = Len(three) + Len(stop)
        /\ \A i \in 1..Len(three) + Len(stop) :
             (three \o stop)[i] = IF i <= Len(three) THEN three[i] ELSE stop[i - Len(three)]
    BY <1>3, <1>8, ConcatProperties
  <2> QED BY <1>3, <1>8, <2>1
<1>10. S!Frame(b) = three \o stop
  BY <1>6 DEF three, two
<1> DEFINE whole == three \o stop
<1>11. whole \in Seq(Part) /\ Len(whole) = FrameLength /\ whole[1] = <<b, 0>>
  BY <1>1, <1>8, <1>9
<1>12. \A k \in 1..Bits : whole[k + 1] = <<b, k>>
  BY <1>1, <1>8, <1>9
<1>13. Parity => whole[Bits + 2] = <<b, "parity">>
  <2>1. Parity => p = 1
    BY DEF p
  <2>2. Parity => Bits + 2 \in 1..Bits + 1 + p + 1 /\ Bits + 2 <= Bits + 1 + p
    BY <1>1, <2>1
  <2> QED BY <1>8, <1>9, <2>2
<1>14. whole[FrameLength] = <<b, "stop">>
  <2>1. /\ FrameLength \in 1..Bits + 1 + p + 1 /\ ~(FrameLength <= Bits + 1 + p)
        /\ FrameLength - (Bits + 1 + p) = 1
    BY <1>1
  <2> QED BY <1>3, <1>9, <2>1
<1> HIDE DEF whole
<1> QED BY <1>10, <1>11, <1>12, <1>13, <1>14 DEF whole

-----------------------------------------------------------------------------
(* What the community module's FlattenSeq makes of frames.                 *)

Flattens(f, fs, n) == f = [i \in 1..n |-> IF i = 1 THEN fs[i] ELSE f[i - 1] \o fs[i]]

LEMMA FlattensAt ==
  ASSUME NEW f, NEW fs, NEW n, Flattens(f, fs, n), NEW i \in 1..n
  PROVE  f[i] = IF i = 1 THEN fs[i] ELSE f[i - 1] \o fs[i]
BY DEF Flattens

LEMMA FlattensExist ==
  ASSUME NEW n \in Nat, NEW fs
  PROVE  \E f : Flattens(f, fs, n)
<1> DEFINE T == {m \in Nat : ~ \E f : Flattens(f, fs, m)}
<1>1. SUFFICES ASSUME T # {} PROVE FALSE
  OBVIOUS
<1>2. PICK m \in T : \A k \in T : m <= k
  <2>1. T \in SUBSET Nat
    OBVIOUS
  <2> HIDE DEF T
  <2> QED BY <1>1, <2>1, Smallest
<1>3. m \in Nat /\ ~ \E f : Flattens(f, fs, m)
  OBVIOUS
<1>4. CASE m = 0
  <2> DEFINE f == [i \in 1..0 |-> fs[i]]
  <2>1. f = [i \in 1..0 |-> IF i = 1 THEN fs[i] ELSE f[i - 1] \o fs[i]]
    OBVIOUS
  <2> QED BY <1>3, <1>4, <2>1 DEF Flattens
<1>5. CASE m # 0
  <2>1. m - 1 \in Nat /\ m - 1 \notin T
    BY <1>2, <1>3, <1>5
  <2>2. PICK g : Flattens(g, fs, m - 1)
    BY <2>1
  <2> DEFINE f == [i \in 1..m |-> IF i = m THEN (IF m = 1 THEN fs[1] ELSE g[m - 1] \o fs[m]) ELSE g[i]]
             h == [i \in 1..m |-> IF i = 1 THEN fs[i] ELSE f[i - 1] \o fs[i]]
  <2>3. ASSUME NEW i \in 1..m PROVE f[i] = h[i]
    <3>1. CASE i = 1
      <4>1. m # 1 => 1 \in 1..m - 1
        BY <1>3, <1>5
      <4>2. m # 1 => g[1] = fs[1]
        BY <2>2, <4>1 DEF Flattens
      <4> QED BY <1>3, <1>5, <3>1, <4>2
    <3>2. CASE i # 1 /\ i = m
      <4>1. m - 1 \in 1..m /\ m - 1 # m /\ m # 1
        BY <1>3, <3>2
      <4> QED BY <3>2, <4>1
    <3>3. CASE i # 1 /\ i # m
      <4>1. i \in 1..m - 1 /\ i - 1 \in 1..m /\ i - 1 # m
        BY <1>3, <3>3
      <4>2. g[i] = g[i - 1] \o fs[i]
        BY <2>2, <3>3, <4>1 DEF Flattens
      <4> QED BY <3>3, <4>1, <4>2
    <3> QED BY <3>1, <3>2, <3>3
  <2>4. f = h
    BY <2>3
  <2>5. Flattens(f, fs, m)
    BY <2>4 DEF Flattens
  <2> QED BY <1>3, <2>5
<1> QED BY <1>4, <1>5

LEMMA FlattensAgree ==
  ASSUME NEW n \in Nat, NEW m \in Nat, NEW fs, NEW gs, NEW f, NEW g,
         Flattens(f, fs, n), Flattens(g, gs, m), n <= m,
         \A i \in 1..n : fs[i] = gs[i]
  PROVE  \A i \in 1..n : f[i] = g[i]
<1> DEFINE T == {i \in 1..n : f[i] # g[i]}
<1>1. SUFFICES ASSUME T # {} PROVE FALSE
  OBVIOUS
<1>2. PICK i \in T : \A k \in T : i <= k
  <2>1. T \in SUBSET Nat
    OBVIOUS
  <2> HIDE DEF T
  <2> QED BY <1>1, <2>1, Smallest
<1>3. i \in 1..n /\ i \in 1..m /\ f[i] # g[i]
  OBVIOUS
<1>4. /\ f[i] = IF i = 1 THEN fs[i] ELSE f[i - 1] \o fs[i]
      /\ g[i] = IF i = 1 THEN gs[i] ELSE g[i - 1] \o gs[i]
  BY <1>3 DEF Flattens
<1>5. i = 1
  <2>1. ASSUME i # 1 PROVE f[i - 1] = g[i - 1]
    BY <1>2, <1>3, <2>1
  <2> QED BY <1>3, <1>4, <2>1
<1> QED BY <1>3, <1>4, <1>5

LEMMA FlattenIs ==
  ASSUME NEW seqs, Len(seqs) \in Nat \ {0}
  PROVE  \E f : Flattens(f, seqs, Len(seqs)) /\ S!FlattenSeq(seqs) = f[Len(seqs)]
<1> DEFINE f == CHOOSE g : Flattens(g, seqs, Len(seqs))
<1>1. Flattens(f, seqs, Len(seqs))
  BY FlattensExist
<1>2. S!FlattenSeq(seqs) = f[Len(seqs)]
  BY DEF S!FlattenSeq, Flattens
<1> QED BY <1>1, <1>2

LEMMA FramesOfNone == FramesOf(<<>>) = <<>>
<1> DEFINE fs == [i \in 1..Len(<<>>) |-> S!Frame(<<>>[i])]
<1>1. Len(<<>>) = 0
  OBVIOUS
<1>2. fs = [i \in 1..0 |-> 0]
  BY <1>1
<1>3. [i \in 1..0 |-> 0] \in Seq(Nat) /\ Len([i \in 1..0 |-> 0]) = 0
  OBVIOUS
<1>4. fs = <<>> /\ Len(fs) = 0
  BY <1>2, <1>3, EmptySeq
<1> HIDE DEF fs
<1>5. S!FlattenSeq(fs) = <<>>
  BY <1>4 DEF S!FlattenSeq
<1> QED BY <1>5 DEF FramesOf, fs

LEMMA FramesOfNext ==
  ASSUME NEW s \in Seq(Nat), NEW b \in Nat
  PROVE  FramesOf(Append(s, b)) = FramesOf(s) \o S!Frame(b)
<1> DEFINE n == Len(s)
           fs == [i \in 1..Len(s) |-> S!Frame(s[i])]
           gs == [i \in 1..Len(Append(s, b)) |-> S!Frame(Append(s, b)[i])]
<1>1. PICK m \in Nat : m = n + 1
  OBVIOUS
<1>2. n \in Nat /\ Len(fs) = n /\ Len(gs) = m /\ m # 0 /\ m - 1 = n
  BY <1>1, AppendProperties
<1>3. gs[m] = S!Frame(b) /\ \A i \in 1..n : fs[i] = gs[i]
  BY <1>1, <1>2, AppendProperties
<1>4. FramesOf(s) = S!FlattenSeq(fs) /\ FramesOf(Append(s, b)) = S!FlattenSeq(gs)
  BY DEF FramesOf
<1>5. n = 0 => s = <<>>
  BY EmptySeq
<1> HIDE DEF n, fs, gs
<1>6. PICK g : Flattens(g, gs, m) /\ S!FlattenSeq(gs) = g[m]
  BY <1>2, FlattenIs
<1>7. g[m] = IF m = 1 THEN gs[m] ELSE g[m - 1] \o gs[m]
  BY <1>1, <1>2, <1>6, FlattensAt
<1>8. CASE n = 0
  <2>1. FramesOf(s) = <<>>
    BY <1>5, <1>8, FramesOfNone
  <2>2. <<>> \o S!Frame(b) = S!Frame(b)
    BY FrameIs, ConcatEmptySeq
  <2>3. m = 1
    BY <1>1, <1>8
  <2> QED BY <1>3, <1>4, <1>6, <1>7, <2>1, <2>2, <2>3
<1>9. CASE n # 0
  <2>1. PICK f : Flattens(f, fs, n) /\ S!FlattenSeq(fs) = f[n]
    BY <1>2, <1>9, FlattenIs
  <2>2. n <= m /\ n \in 1..n /\ m # 1
    BY <1>1, <1>2, <1>9
  <2>3. f[n] = g[n]
    BY <1>2, <1>3, <1>6, <2>1, <2>2, FlattensAgree
  <2> QED BY <1>2, <1>3, <1>4, <1>6, <1>7, <2>1, <2>2, <2>3
<1> QED BY <1>2, <1>8, <1>9

LEMMA FramesOfFirst ==
  ASSUME NEW q \in Seq(Nat), NEW n \in Nat, NEW m \in Nat, m = n + 1, m <= Len(q)
  PROVE  FramesOf(SubSeq(q, 1, m)) = FramesOf(SubSeq(q, 1, n)) \o S!Frame(q[m])
<1>1. m \in 1..Len(q) /\ q[m] \in Nat /\ Len(q) \in Nat /\ m - 1 = n /\ 1 \in 1..Len(q)
  OBVIOUS
<1>2. SubSeq(q, 1, n) \in Seq(Nat)
  <2>1. \A i \in 1..n : q[i] \in Nat
    BY <1>1
  <2> QED BY <2>1, SubSeqProperties
<1>3. SubSeq(q, 1, m) = SubSeq(q, 1, m - 1) \o <<q[m]>>
  BY <1>1, SubSeqRecursiveSecond
<1>4. SubSeq(q, 1, m) = Append(SubSeq(q, 1, n), q[m])
  BY <1>1, <1>2, <1>3, AppendIsConcat
<1> QED BY <1>1, <1>2, <1>4, FramesOfNext

LEMMA FramesOfIsSeq ==
  ASSUME NEW q \in Seq(Nat), NEW n \in Nat, n <= Len(q)
  PROVE  FramesOf(SubSeq(q, 1, n)) \in Seq(Part)
<1> DEFINE T == {m \in Nat : m <= Len(q) /\ FramesOf(SubSeq(q, 1, m)) \notin Seq(Part)}
<1>1. SUFFICES ASSUME T # {} PROVE FALSE
  OBVIOUS
<1>2. PICK m \in T : \A k \in T : m <= k
  <2>1. T \in SUBSET Nat
    OBVIOUS
  <2> HIDE DEF T
  <2> QED BY <1>1, <2>1, Smallest
<1>3. m \in Nat /\ m <= Len(q) /\ FramesOf(SubSeq(q, 1, m)) \notin Seq(Part)
  OBVIOUS
<1>4. CASE m = 0
  <2>1. SubSeq(q, 1, 0) = <<>>
    BY SubSeqEmpty
  <2> QED BY <1>3, <1>4, <2>1, FramesOfNone, EmptySeq
<1>5. CASE m # 0
  <2>1. PICK k \in Nat : m = k + 1
    BY <1>3, <1>5
  <2>2. k \notin T /\ k <= Len(q) /\ q[m] \in Nat
    BY <1>2, <1>3, <2>1
  <2>3. FramesOf(SubSeq(q, 1, k)) \in Seq(Part)
    BY <2>2
  <2>4. FramesOf(SubSeq(q, 1, m)) = FramesOf(SubSeq(q, 1, k)) \o S!Frame(q[m])
    BY <1>3, <2>1, FramesOfFirst
  <2>5. S!Frame(q[m]) \in Seq(Part)
    BY <2>2, FrameIs
  <2> QED BY <1>3, <2>3, <2>4, <2>5, ConcatProperties
<1> QED BY <1>4, <1>5

(* The frames of the first bytes come first.                               *)
LEMMA FramesOfPrefix ==
  ASSUME NEW q \in Seq(Nat), NEW n \in Nat, n <= Len(q)
  PROVE  \E rest \in Seq(Part) : FramesOf(q) = FramesOf(SubSeq(q, 1, n)) \o rest
<1> DEFINE first == FramesOf(SubSeq(q, 1, n))
           Goes(m) == \E rest \in Seq(Part) : FramesOf(SubSeq(q, 1, m)) = first \o rest
           T == {m \in Nat : n <= m /\ m <= Len(q) /\ ~Goes(m)}
<1>1. first \in Seq(Part) /\ Len(q) \in Nat
  BY FramesOfIsSeq
<1>2. Goes(n)
  <2>1. <<>> \in Seq(Part) /\ first \o <<>> = first
    BY <1>1, EmptySeq, ConcatEmptySeq
  <2> QED BY <2>1
<1>3. ASSUME NEW k \in Nat, NEW m \in Nat, m = k + 1, m <= Len(q), Goes(k) PROVE Goes(m)
  <2>1. PICK rest \in Seq(Part) : FramesOf(SubSeq(q, 1, k)) = first \o rest
    BY <1>3
  <2>2. FramesOf(SubSeq(q, 1, m)) = FramesOf(SubSeq(q, 1, k)) \o S!Frame(q[m])
    BY <1>3, FramesOfFirst
  <2> HIDE DEF first
  <2>3. q[m] \in Nat
    BY <1>3
  <2>4. S!Frame(q[m]) \in Seq(Part)
    BY <2>3, FrameIs
  <2>5. /\ (first \o rest) \o S!Frame(q[m]) = first \o (rest \o S!Frame(q[m]))
        /\ rest \o S!Frame(q[m]) \in Seq(Part)
    BY <1>1, <2>4, ConcatAssociative, ConcatProperties
  <2> QED BY <2>1, <2>2, <2>5
<1> HIDE DEF Goes
<1>4. T = {}
  <2>1. SUFFICES ASSUME T # {} PROVE FALSE
    OBVIOUS
  <2>2. PICK m \in T : \A k \in T : m <= k
    <3>1. T \in SUBSET Nat
      OBVIOUS
    <3> HIDE DEF T
    <3> QED BY <2>1, <3>1, Smallest
  <2>3. m \in Nat /\ n <= m /\ m <= Len(q) /\ ~Goes(m)
    OBVIOUS
  <2>4. m # n
    BY <1>2, <2>3
  <2>5. PICK k \in Nat : m = k + 1
    BY <2>3, <2>4
  <2>6. n <= k /\ k <= Len(q) /\ ~(m <= k)
    BY <1>1, <2>3, <2>4, <2>5
  <2>7. k \notin T
    BY <2>2, <2>6
  <2>8. Goes(k)
    BY <2>6, <2>7
  <2> QED BY <1>3, <2>3, <2>5, <2>8
<1>5. Goes(Len(q))
  BY <1>1, <1>4
<1>6. SubSeq(q, 1, Len(q)) = q
  BY SubSeqFull
<1> QED BY <1>5, <1>6 DEF Goes

(* So far the wire is right, if it ends inside the next frame.             *)
LEMMA WireIsPrefix ==
  ASSUME NEW q \in Seq(Nat), NEW n \in Nat, NEW m \in Nat, m = n + 1, m <= Len(q), NEW k \in 0..FrameLength,
         NEW o, o = FramesOf(SubSeq(q, 1, n)) \o SubSeq(S!Frame(q[m]), 1, k)
  PROVE  S!IsPrefix(o, FramesOf(q))
<1> DEFINE first == FramesOf(SubSeq(q, 1, n))
           f == S!Frame(q[m])
<1>1. first \in Seq(Part) /\ Len(q) \in Nat /\ q[m] \in Nat 
  BY FramesOfIsSeq
<1>2. f \in Seq(Part) /\ Len(f) = FrameLength /\ FrameLength \in Nat
  <2>1. FrameLength \in Nat
    BY SerialFacts DEF FrameLength
  <2>2. f \in Seq(Part) /\ Len(f) = FrameLength
    BY <1>1, FrameIs
  <2> QED BY <2>1, <2>2
<1>3. PICK rest \in Seq(Part) : FramesOf(q) = (first \o f) \o rest
  <2>1. PICK rest \in Seq(Part) : FramesOf(q) = FramesOf(SubSeq(q, 1, m)) \o rest
    BY FramesOfPrefix
  <2>2. FramesOf(SubSeq(q, 1, m)) = first \o f
    BY FramesOfFirst
  <2> QED BY <2>1, <2>2
<1> HIDE DEF first, f
<1> DEFINE p == SubSeq(f, 1, k)
<1>4. p \in Seq(Part) /\ Len(p) = k /\ \A i \in 1..k : p[i] = f[i]
  <2>1. \A i \in 1..k : f[i] \in Part
    BY <1>2
  <2>2. /\ p \in Seq(Part) /\ Len(p) = (IF 1 <= k THEN k - 1 + 1 ELSE 0)
        /\ \A i \in 1..k - 1 + 1 : p[i] = f[1 + i - 1]
    BY <1>2, <2>1, SubSeqProperties
  <2> HIDE DEF p
  <2> QED BY <1>2, <2>2
<1>5. o = first \o p
  BY DEF first, f
<1> HIDE DEF p
<1>6. /\ o \in Seq(Part) /\ Len(o) = Len(first) + k /\ Len(first) \in Nat
      /\ \A i \in 1..Len(first) + k : o[i] = IF i <= Len(first) THEN first[i] ELSE p[i - Len(first)]
  <2>1. /\ o \in Seq(Part) /\ Len(o) = Len(first) + Len(p)
        /\ \A i \in 1..Len(first) + Len(p) : o[i] = IF i <= Len(first) THEN first[i] ELSE p[i - Len(first)]
    <3>1. /\ first \o p \in Seq(Part) /\ Len(first \o p) = Len(first) + Len(p)
          /\ \A i \in 1..Len(first) + Len(p) :
               (first \o p)[i] = IF i <= Len(first) THEN first[i] ELSE p[i - Len(first)]
      BY <1>1, <1>4, ConcatProperties
    <3> QED BY <1>5, <3>1, Zenon
  <2> QED BY <1>1, <1>4, <2>1, LenProperties
<1>7. /\ first \o f \in Seq(Part) /\ Len(first \o f) = Len(first) + FrameLength
      /\ \A i \in 1..Len(first) + FrameLength :
           (first \o f)[i] = IF i <= Len(first) THEN first[i] ELSE f[i - Len(first)]
  BY <1>1, <1>2, ConcatProperties
<1> DEFINE g == first \o f
<1> HIDE DEF g
<1>8. /\ g \o rest \in Seq(Part) /\ Len(g \o rest) = Len(g) + Len(rest) /\ Len(rest) \in Nat
      /\ \A i \in 1..Len(g) + Len(rest) : (g \o rest)[i] = IF i <= Len(g) THEN g[i] ELSE rest[i - Len(g)]
  BY <1>7, ConcatProperties DEF g
<1> DEFINE all == g \o rest
<1>9. Len(o) <= Len(all) /\ Len(o) \in Nat /\ Len(all) \in Nat
  BY <1>2, <1>6, <1>7, <1>8 DEF g
<1>10. ASSUME NEW i \in 1..Len(o) PROVE all[i] = o[i]
  <2>1. i \in 1..Len(first) + k /\ i \in 1..Len(first) + FrameLength /\ i \in 1..Len(g) + Len(rest)
        /\ i <= Len(g)
    BY <1>2, <1>6, <1>7, <1>8, SMTT(30) DEF g
  <2>2. all[i] = g[i]
    BY <1>8, <2>1
  <2>3. g[i] = IF i <= Len(first) THEN first[i] ELSE f[i - Len(first)]
    BY <1>7, <2>1 DEF g
  <2>4. ~(i <= Len(first)) => i - Len(first) \in 1..k
    BY <1>6, <2>1
  <2> QED BY <1>4, <1>6, <2>1, <2>2, <2>3, <2>4
<1> HIDE DEF all
<1>11. all \in Seq(Part)
  BY <1>8 DEF all
<1>12. SubSeq(o, 1, Len(o)) = SubSeq(all, 1, Len(o))
  <2>1. SubSeq(o, 1, Len(o)) = o
    BY <1>6, SubSeqFull
  <2>2. \A i \in 1..Len(o) : all[i] \in Part
    <3>1. \A i \in 1..Len(o) : o[i] \in Part
      BY <1>6, ElementOfSeq
    <3> QED BY <1>10, <3>1
  <2>3. /\ SubSeq(all, 1, Len(o)) \in Seq(Part)
        /\ Len(SubSeq(all, 1, Len(o))) = Len(o)
        /\ \A i \in 1..Len(o) : SubSeq(all, 1, Len(o))[i] = all[i]
    <3>1. ASSUME NEW j \in Nat, j = Len(o)
          PROVE  /\ SubSeq(all, 1, j) \in Seq(Part) /\ Len(SubSeq(all, 1, j)) = j
                 /\ \A i \in 1..j : SubSeq(all, 1, j)[i] = all[i]
      <4>1. /\ SubSeq(all, 1, j) \in Seq(Part)
            /\ Len(SubSeq(all, 1, j)) = IF 1 <= j THEN j - 1 + 1 ELSE 0
            /\ \A i \in 1..j - 1 + 1 : SubSeq(all, 1, j)[i] = all[1 + i - 1]
        BY <2>2, <3>1, SubSeqProperties
      <4> QED BY <4>1
    <3> QED BY <1>9, <3>1
  <2>4. SubSeq(all, 1, Len(o)) = o
    BY <1>6, <1>10, <2>3, SeqEqual, ZenonT(60)
  <2> QED BY <2>1, <2>4
<1>13. FramesOf(q) = all
  BY <1>3 DEF all, g
<1> QED BY <1>9, <1>12, <1>13 DEF S!IsPrefix

-----------------------------------------------------------------------------
(* How the places of the ring of the transmitter move when a byte is put   *)
(* and when one is taken.                                                  *)
LEMMA TxMoves ==
  ASSUME sTx \in BufferType
  PROVE  /\ InTx \in 0 .. Size - 1
         /\ sTx.head = sTx.tail <=> InTx = 0
         /\ S!next(sTx.head) \in 0 .. Size - 1 /\ S!next(sTx.tail) \in 0 .. Size - 1
         /\ S!next(sTx.head) = sTx.tail <=> InTx = Size - 1
         /\ S!next(sTx.head) # sTx.tail => Apart(S!next(sTx.head), sTx.tail, Size) = InTx + 1
         /\ Place(sTx.tail, InTx + 1 + 1, Size) = S!next(sTx.head)
         /\ \A i \in 1 .. InTx :
              /\ Place(sTx.tail, i + 1, Size) \in 0 .. Size - 1
              /\ InTx = Size - 1 \/ ~(Place(sTx.tail, i + 1, Size) = S!next(sTx.head))
         /\ InTx > 0 => Apart(sTx.head, S!next(sTx.tail), Size) = InTx - 1
         /\ Place(sTx.tail, 1 + 1, Size) = S!next(sTx.tail)
         /\ \A i \in 1 .. InTx - 1 :
              Place(S!next(sTx.tail), i + 1, Size) = Place(sTx.tail, i + 1 + 1, Size)
<1> DEFINE n == Size
           h == sTx.head
           t == sTx.tail
<1>1. n \in Nat \ {0, 1} /\ h \in 0 .. n - 1 /\ t \in 0 .. n - 1
  BY SerialFacts DEF BufferType
<1>2. S!next(sTx.head) = After(h, n) /\ S!next(sTx.tail) = After(t, n)
  BY <1>1, RingArithmetic DEF S!next
<1> HIDE DEF n, h, t
<1>3. /\ Apart(h, t, n) \in 0 .. n - 1
      /\ h = t <=> Apart(h, t, n) = 0
      /\ After(h, n) \in 0 .. n - 1 /\ After(t, n) \in 0 .. n - 1
      /\ After(h, n) = t <=> Apart(h, t, n) = n - 1
      /\ After(h, n) # t => Apart(After(h, n), t, n) = Apart(h, t, n) + 1
      /\ Place(t, Apart(h, t, n) + 1 + 1, n) = After(h, n) 
      /\ Apart(h, t, n) > 0 => Apart(h, After(t, n), n) = Apart(h, t, n) - 1
      /\ Place(t, 1 + 1, n) = After(t, n)
  BY <1>1 DEF Apart, Place, After
<1>4. \A i \in 1 .. Apart(h, t, n) :
        /\ Place(t, i + 1, n) \in 0 .. n - 1
        /\ Apart(h, t, n) = n - 1 \/ ~(Place(t, i + 1, n) = After(h, n))
  BY <1>1 DEF Apart, Place, After
<1>5. \A i \in 1 .. Apart(h, t, n) - 1 : Place(After(t, n), i + 1, n) = Place(t, i + 1 + 1, n)
  BY <1>1 DEF Apart, Place, After
<1> QED BY <1>2, <1>3, <1>4, <1>5 DEF InTx, n, h, t

LEMMA LineFacts ==
  ASSUME PortTypes
  PROVE  /\ port \in PortType /\ timer \in TimerType /\ pci \in BOOLEAN
         /\ sTx \in BufferType /\ sRx \in BufferType /\ sW \in CallOfWrite /\ reading \in BOOLEAN
         /\ peer \in [edges : 0..1, n : 0..MaxHeard]
         /\ queued \in Seq(Nat) /\ heard \in Seq(Nat) /\ sGot \in Seq(Nat)
         /\ sTx' = sTx => InTx' = InTx
         /\ FrameLength \in Nat /\ FrameLength >= 3 /\ 0 < FrameLength
<1>1. FrameLength \in Nat /\ FrameLength >= 3
  BY SerialFacts DEF FrameLength
<1> QED BY <1>1 DEF PortTypes, InTx

LEMMA TypesInit == S!Init => PortTypes
<1> SUFFICES ASSUME S!Init PROVE PortTypes
  OBVIOUS
<1>1. 0 \in 0..Size - 1 /\ 0 \in 0..MaxHeard
  BY SerialFacts
<1>2. S!EmptyRing \in BufferType
  BY <1>1 DEF S!EmptyRing, S!Slot, S!Garbage, BufferType
<1>3. port \in PortType /\ timer \in TimerType /\ sW \in CallOfWrite
  BY DEF S!Init, PortType, TimerType, CallOfWrite
<1>4. sTx \in BufferType /\ sRx \in BufferType
  BY <1>2 DEF S!Init
<1>5. peer \in [edges : 0..1, n : 0..MaxHeard]
  BY <1>1 DEF S!Init
<1>6. queued \in Seq(Nat) /\ heard \in Seq(Nat) /\ sGot \in Seq(Nat)
  BY EmptySeq DEF S!Init
<1> QED BY <1>3, <1>4, <1>5, <1>6 DEF S!Init, PortTypes

(* What a step of write() does to the types of what it writes.             *)
LEMMA WriteTypes ==
  ASSUME PortTypes, S!write
  PROVE  PortTypes'
<1> USE LineFacts
<1>1. CASE S!CallWrite
  <2>1. sW' \in CallOfWrite
    BY <1>1 DEF S!CallWrite, CallOfWrite
  <2> QED BY <1>1, <2>1 DEF S!CallWrite, S!Broken, PortTypes
<1>2. CASE S!CheckInUse
  <2>1. sW' \in CallOfWrite
    BY <1>2 DEF S!CheckInUse, CallOfWrite
  <2> QED BY <1>2, <2>1 DEF S!CheckInUse, PortTypes
<1>3. CASE S!Detach
  <2>1. sW' \in CallOfWrite
    BY <1>3 DEF S!Detach, CallOfWrite
  <2> QED BY <1>3, <2>1 DEF S!Detach, PortTypes
<1>4. CASE S!TurnOffRX
  <2>1. sW' \in CallOfWrite /\ port' \in PortType
    BY <1>4 DEF S!TurnOffRX, CallOfWrite, PortType
  <2> QED BY <1>4, <2>1 DEF S!TurnOffRX, PortTypes
<1>5. CASE S!Put
  <2>1. sW' \in CallOfWrite /\ sW.n \in Nat
    BY <1>5 DEF S!Put, CallOfWrite
  <2>2. S!next(sTx.head) \in 0..Size - 1
    BY TxMoves
  <2>3. \/ sTx' = sTx /\ queued' = queued
        \/ /\ sTx' = [sTx EXCEPT !.buf[S!next(sTx.head)] = sW.n, !.head = S!next(sTx.head)]
           /\ queued' = Append(queued, sW.n)
    BY <1>5 DEF S!Put
  <2>4. ASSUME sTx' = [sTx EXCEPT !.buf[S!next(sTx.head)] = sW.n, !.head = S!next(sTx.head)]
        PROVE  sTx' \in BufferType
    <3>1. sTx \in BufferType
      OBVIOUS
    <3> QED BY <2>1, <2>2, <2>4, <3>1 DEF BufferType
  <2>5. Append(queued, sW.n) \in Seq(Nat)
    BY <2>1, AppendProperties
  <2>6. sTx' \in BufferType /\ queued' \in Seq(Nat)
    BY <2>3, <2>4, <2>5
  <2> QED BY <1>5, <2>1, <2>6 DEF S!Put, PortTypes
<1>6. CASE S!Claim
  <2>1. sW' \in CallOfWrite
    BY <1>6 DEF S!Claim, CallOfWrite
  <2>2. port' \in PortType
    BY <1>6 DEF S!Claim, PortType
  <2>3. broken' \in SUBSET {"duplex", "frame"}
    BY <1>6 DEF S!Claim, S!Broken, PortTypes
  <2> QED BY <1>6, <2>1, <2>2, <2>3 DEF S!Claim, PortTypes
<1>7. CASE S!Take
  <2>1. S!next(sTx.tail) \in 0..Size - 1
    BY TxMoves
  <2>2. sW' \in CallOfWrite /\ sTx' \in BufferType /\ sTx.buf[S!next(sTx.tail)] \in Nat
    BY <1>7, <2>1 DEF S!Take, CallOfWrite, BufferType
  <2>3. port' \in PortType
    BY <1>7, <2>2 DEF S!Take, S!Taken, PortType
  <2>4. broken' \in SUBSET {"duplex", "frame"}
    BY <1>7 DEF S!Take, S!Broken, PortTypes
  <2> QED BY <1>7, <2>2, <2>3, <2>4 DEF S!Take, PortTypes
<1>8. CASE S!Begin
  <2>1. sW' \in CallOfWrite /\ port' \in PortType /\ timer' \in TimerType
    BY <1>8 DEF S!Begin, S!beginTX, S!SetForTX, CallOfWrite, PortType, TimerType
  <2> QED BY <1>8, <2>1 DEF S!Begin, PortTypes
<1> QED BY <1>1, <1>2, <1>3, <1>4, <1>5, <1>6, <1>7, <1>8 DEF S!write

LEMMA ReadTypes ==
  ASSUME PortTypes, S!read
  PROVE  PortTypes'
<1> USE LineFacts
<1>1. /\ UNCHANGED <<port, timer, pci, sTx, sW, peer, queued, heard, broken>>
      /\ \/ /\ sRx' = [sRx EXCEPT !.tail = S!next(sRx.tail)]
            /\ reading' = TRUE /\ sGot' = sGot
         \/ /\ sGot' = Append(sGot, sRx.buf[sRx.tail])
            /\ reading' = FALSE /\ sRx' = sRx
  BY DEF S!read, BufferType
<1>2. S!next(sRx.tail) \in 0..Size - 1
  <2>1. sRx.tail \in 0..Size - 1 /\ Size \in Nat \ {0, 1}
    BY SerialFacts DEF BufferType
  <2>2. S!next(sRx.tail) = After(sRx.tail, Size)
    BY <2>1, RingArithmetic DEF S!next
  <2>3. After(sRx.tail, Size) \in 0..Size - 1
    BY <2>1 DEF After
  <2> QED BY <2>2, <2>3
<1>3. CASE /\ sRx' = [sRx EXCEPT !.tail = S!next(sRx.tail)]
           /\ reading' = TRUE /\ sGot' = sGot
  <2>1. sRx' \in BufferType
    BY <1>2, <1>3 DEF BufferType
  <2> QED BY <1>1, <1>3, <2>1 DEF PortTypes
<1>4. CASE /\ sGot' = Append(sGot, sRx.buf[sRx.tail])
           /\ reading' = FALSE /\ sRx' = sRx
  <2>1. sRx.buf[sRx.tail] \in Nat
    BY DEF BufferType
  <2>2. Append(sGot, sRx.buf[sRx.tail]) \in Seq(Nat)
    BY <2>1, AppendProperties
  <2> QED BY <1>1, <1>4, <2>2 DEF PortTypes
<1> QED BY <1>1, <1>3, <1>4

LEMMA EdgeTypes ==
  ASSUME PortTypes, S!Compare \/ S!PeerBegins \/ S!PeerEnds
  PROVE  PortTypes'
<1> USE LineFacts
<1>1. CASE S!Compare
  <2>1. timer' \in TimerType
    BY <1>1 DEF S!Compare, TimerType
  <2>2. broken' \in SUBSET {"duplex", "frame"}
    BY <1>1 DEF S!Compare, S!Broken, PortTypes
  <2> QED BY <1>1, <2>1, <2>2 DEF S!Compare, S!sketchVars, PortTypes
<1>2. ASSUME NEW edge, S!Edge(edge)
      PROVE  port' \in PortType /\ timer' \in TimerType
  <2>1. port.bitCounter + 1 \in Nat
    BY DEF PortType
  <2>2. \/ port' = port
        \/ port' = [port EXCEPT !.bitCounter = 0, !.timed = TRUE, !.rxInUse = TRUE]
        \/ port' = [port EXCEPT !.bitCounter = port.bitCounter + 1]
    BY <1>2 DEF S!Edge, S!rxBit, PortType
  <2>3. port' \in PortType
    <3>1. CASE port' = [port EXCEPT !.bitCounter = 0, !.timed = TRUE, !.rxInUse = TRUE]
      BY <3>1 DEF PortType
    <3>2. CASE port' = [port EXCEPT !.bitCounter = port.bitCounter + 1]
      BY <2>1, <3>2 DEF PortType
    <3> QED BY <2>2, <3>1, <3>2
  <2>4. timer' \in TimerType
    BY <1>2 DEF S!Edge, S!rxBit, TimerType
  <2> QED BY <2>3, <2>4
<1>3. CASE S!PeerBegins
  <2>1. /\ S!Edge(<<peer.n + 1, 1>>) /\ peer.n < MaxHeard
        /\ peer' = [edges |-> 1, n |-> peer.n + 1]
        /\ UNCHANGED <<pci, sTx, sRx, sW, reading, queued, heard, sGot>>
    BY <1>3 DEF S!PeerBegins, S!Edge, S!sketchVars
  <2>2. peer' \in [edges : 0..1, n : 0..MaxHeard]
    <3>1. peer.n \in 0..MaxHeard
      OBVIOUS
    <3> QED BY <2>1, <3>1, SerialFacts
  <2>3. broken' \in SUBSET {"duplex", "frame"}
    BY <1>3 DEF S!PeerBegins, PortTypes
  <2>4. port' \in PortType /\ timer' \in TimerType
    BY <1>2, <2>1
  <2> QED BY <2>1, <2>2, <2>3, <2>4 DEF PortTypes
<1>4. CASE S!PeerEnds
  <2>1. /\ S!Edge(<<peer.n, 2>>) /\ peer' = [peer EXCEPT !.edges = 0]
        /\ UNCHANGED <<pci, sTx, sRx, sW, reading, queued, heard, sGot>>
    BY <1>4 DEF S!PeerEnds, S!Edge, S!sketchVars
  <2>2. peer' \in [edges : 0..1, n : 0..MaxHeard]
    <3>1. 0 \in 0..1 /\ peer \in [edges : 0..1, n : 0..MaxHeard]
      OBVIOUS
    <3> QED BY <2>1, <3>1
  <2>3. broken' \in SUBSET {"duplex", "frame"}
    BY <1>4 DEF S!PeerEnds, S!Broken, PortTypes
  <2>4. port' \in PortType /\ timer' \in TimerType
    BY <1>2, <2>1
  <2> QED BY <2>1, <2>2, <2>3, <2>4 DEF PortTypes
<1> QED BY <1>1, <1>3, <1>4

(* The end of a byte that is received.                                     *)
LEMMA HearsTypes ==
  ASSUME PortTypes, S!am_stimer_cmpr7_isr, port.rxInUse
  PROVE  PortTypes'
<1> USE LineFacts
<1>1. /\ UNCHANGED <<reading, peer, queued, sGot, pci, sTx, sW, broken>>
      /\ sRx' = IF S!next(sRx.head) # sRx.tail
                THEN [sRx EXCEPT !.buf[S!next(sRx.head)] = S!incomingByte,
                                 !.head = S!next(sRx.head)]
                ELSE sRx
      /\ heard' = Append(heard, S!incomingByte)
      /\ port' = [port EXCEPT !.bitCounter = Bits, !.timed = FALSE, !.rxInUse = FALSE]
      /\ timer' = [timer EXCEPT !.flag = FALSE, !.nvic = FALSE]
  BY DEF S!am_stimer_cmpr7_isr, S!rxEndOfByte, S!sketchVars
<1>2. S!incomingByte \in Nat
  <2>1. CASE \E b \in 1..MaxHeard : seen = <<<<b, 1>>, <<b, 2>>>>
    <3>1. PICK b \in 1..MaxHeard : seen = <<<<b, 1>>, <<b, 2>>>>
      BY <2>1
    <3>2. Head(seen)[1] = b
      BY <3>1
    <3> QED BY <2>1, <3>2 DEF S!incomingByte
  <2>2. CASE ~ \E b \in 1..MaxHeard : seen = <<<<b, 1>>, <<b, 2>>>>
    BY <2>2 DEF S!incomingByte, S!Garbage
  <2> QED BY <2>1, <2>2
<1>3. S!next(sRx.head) \in 0..Size - 1
  <2>1. sRx.head \in 0..Size - 1 /\ S!next(sRx.head) = After(sRx.head, Size)
    BY SerialFacts, RingArithmetic DEF BufferType, S!next
  <2> QED BY <2>1, SerialFacts DEF After
<1>4. sRx' \in BufferType
  BY <1>1, <1>2, <1>3 DEF BufferType
<1>5. heard' \in Seq(Nat)
  BY <1>1, <1>2, AppendProperties
<1>6. port' \in PortType /\ timer' \in TimerType
  BY <1>1, SerialFacts DEF PortType, TimerType
<1> QED BY <1>1, <1>4, <1>5, <1>6 DEF PortTypes

LEMMA SendsTypes ==
  ASSUME PortTypes, S!am_stimer_cmpr7_isr, ~port.rxInUse
  PROVE  PortTypes'
<1> USE LineFacts
<1>1. /\ UNCHANGED <<reading, peer, queued, sGot, sRx, sW, heard, broken>>
      /\ \/ S!txHandler
         \/ timer' = [timer EXCEPT !.flag = FALSE] /\ UNCHANGED <<port, pci, sTx>>
  BY DEF S!am_stimer_cmpr7_isr, S!sketchVars
<1>2. ASSUME NEW bit, NEW shifted \in Nat, S!SendBit(bit, shifted) PROVE PortTypes'
  <2>1. port.bitCounter + 1 \in Nat
    BY DEF PortType
  <2>2. port' \in PortType /\ timer' \in TimerType
    BY <1>2, <2>1 DEF S!SendBit, PortType, TimerType
  <2> QED BY <1>1, <1>2, <2>2 DEF S!SendBit, PortTypes
<1>3. ASSUME S!NextByte PROVE PortTypes'
  <2>1. CASE sTx.tail = sTx.head
    <3>1. port' \in PortType /\ timer' \in TimerType /\ pci' = TRUE /\ sTx' = sTx
      BY <1>3, <2>1 DEF S!NextByte, S!listen, PortType, TimerType
    <3> QED BY <1>1, <3>1 DEF PortTypes
  <2>2. CASE sTx.tail # sTx.head
    <3>1. S!next(sTx.tail) \in 0..Size - 1
      BY TxMoves
    <3>2. sTx' \in BufferType /\ sTx.buf[S!next(sTx.tail)] \in Nat
      BY <1>3, <2>2, <3>1 DEF S!NextByte, BufferType
    <3>3. /\ port' = [[port EXCEPT !.outgoing = sTx.buf[S!next(sTx.tail)], !.shifts = 0]
                        EXCEPT !.bitCounter = 0]
          /\ timer' = [set |-> "tx", flag |-> FALSE, nvic |-> TRUE] /\ pci' = pci
      BY <1>3, <2>2 DEF S!NextByte, S!beginTX, S!Taken, S!SetForTX
    <3>4. port' \in PortType /\ timer' \in TimerType
      BY <3>2, <3>3 DEF PortType, TimerType
    <3> QED BY <1>1, <3>2, <3>3, <3>4 DEF PortTypes
  <2> QED BY <2>1, <2>2
<1>4. CASE timer' = [timer EXCEPT !.flag = FALSE] /\ UNCHANGED <<port, pci, sTx>>
  <2>1. timer' \in TimerType
    BY <1>4 DEF TimerType
  <2> QED BY <1>1, <1>4, <2>1 DEF PortTypes
<1>5. CASE S!txHandler
  <2>1. \/ \E bit : \E shifted \in Nat : S!SendBit(bit, shifted)
        \/ S!NextByte
        \/ timer' = [timer EXCEPT !.flag = FALSE] /\ UNCHANGED <<port, pci, sTx>>
    <3>1. port.shifts \in Nat /\ port.shifts + 1 \in Nat
      BY DEF PortType
    <3> QED BY <1>5, <3>1 DEF S!txHandler
  <2> QED BY <1>2, <1>3, <1>4, <2>1
<1> QED BY <1>1, <1>4, <1>5

LEMMA TypesNext ==
  ASSUME PortTypes, [S!Next]_(S!vars)
  PROVE  PortTypes'
<1>1. CASE UNCHANGED S!vars
  BY <1>1 DEF S!vars, PortTypes
<1> QED BY <1>1, WriteTypes, ReadTypes, EdgeTypes, HearsTypes, SendsTypes DEF S!Next

(* What was disturbed stays so.                                            *)
LEMMA BrokenStays ==
  ASSUME [S!Next]_(S!vars)
  PROVE  broken \subseteq broken'
<1>1. CASE UNCHANGED S!vars
  BY <1>1 DEF S!vars
<1> QED BY <1>1 DEF S!Next, S!write, S!CallWrite, S!CheckInUse, S!Detach, S!TurnOffRX, S!Put,
       S!Claim, S!Take, S!Begin, S!read, S!am_stimer_cmpr7_isr, S!Compare, S!PeerBegins,
       S!PeerEnds, S!Broken

-----------------------------------------------------------------------------
(* The transmitter.                                                        *)

LEMMA LineInit == S!Init => LineInv
<1> SUFFICES ASSUME S!Init PROVE LineInv
  OBVIOUS
<1>1. 0 \in 0..Size - 1
  BY SerialFacts
<1>2. InTx = 0
  BY <1>1 DEF S!Init, InTx, Apart, S!EmptyRing
<1> QED BY <1>2, TypesInit DEF S!Init, LineInv, Waiting

(* The steps of write() before it claims the transmitter.                  *)
LEMMA CallLine ==
  ASSUME LineInv, PortTypes', S!CallWrite \/ S!CheckInUse \/ S!Detach \/ S!TurnOffRX
  PROVE  LineInv'
<1> USE LineFacts DEF LineInv
<1>1. CASE S!CallWrite
  <2>1. /\ UNCHANGED <<port, timer, pci, sTx>> /\ sW.at = "idle"
        /\ sW' = [at |-> "check", n |-> sW.n + 1]
    BY <1>1 DEF S!CallWrite
  <2>2. Waiting => Waiting'
    BY <2>1 DEF Waiting
  <2>3. Sending => Sending'
    BY <2>1 DEF Sending, Armed
  <2> QED BY <2>1, <2>2, <2>3 DEF Claimed
<1>2. CASE S!CheckInUse
  <2>1. /\ UNCHANGED <<port, timer, pci, sTx>> /\ sW.at = "check"
        /\ sW' = [sW EXCEPT !.at = IF port.txInUse THEN "put" ELSE "detach"]
    BY <1>2 DEF S!CheckInUse, S!At
  <2>2. sW'.at = IF port.txInUse THEN "put" ELSE "detach"
    BY <2>1 DEF CallOfWrite
  <2>3. Waiting => Waiting'
    BY <2>1, <2>2 DEF Waiting
  <2>4. Sending => Sending'
    BY <2>1, <2>2 DEF Sending, Armed
  <2> QED BY <2>1, <2>3, <2>4 DEF Claimed
<1>3. CASE S!Detach
  <2>1. UNCHANGED <<port, timer, sTx>> /\ sW.at = "detach" /\ sW' = [sW EXCEPT !.at = "rxoff"]
    BY <1>3 DEF S!Detach, S!At
  <2>2. sW'.at = "rxoff"
    BY <2>1 DEF CallOfWrite
  <2>3. Waiting
    BY <2>1 DEF Claimed, Sending
  <2> QED BY <2>1, <2>2, <2>3 DEF Waiting
<1>4. CASE S!TurnOffRX
  <2>1. /\ UNCHANGED <<timer, sTx>> /\ sW.at = "rxoff" /\ sW' = [sW EXCEPT !.at = "put"]
        /\ port' = [port EXCEPT !.rxInUse = FALSE]
    BY <1>4 DEF S!TurnOffRX, S!At
  <2>2. sW'.at = "put" /\ port'.txInUse = port.txInUse
    BY <2>1 DEF CallOfWrite, PortType
  <2>3. Waiting
    BY <2>1 DEF Claimed, Sending
  <2> QED BY <2>1, <2>2, <2>3 DEF Waiting
<1> QED BY <1>1, <1>2, <1>3, <1>4

LEMMA PutLine ==
  ASSUME LineInv, PortTypes', S!Put
  PROVE  LineInv'
<1> USE LineFacts DEF LineInv
<1>1. UNCHANGED <<port, timer, pci>> /\ sW.at = "put" /\ sW' = [sW EXCEPT !.at = "claim"]
  BY DEF S!Put, S!At
<1>2. sW'.at = "claim"
  BY <1>1 DEF CallOfWrite
<1>3. CASE Waiting
  <2>1. InTx = 0 /\ S!next(sTx.head) # sTx.tail
    BY <1>1, <1>3, TxMoves, SerialFacts DEF Waiting
  <2>2. sTx' = [sTx EXCEPT !.buf[S!next(sTx.head)] = sW.n, !.head = S!next(sTx.head)]
    BY <2>1 DEF S!Put
  <2>3. sTx'.head = S!next(sTx.head) /\ sTx'.tail = sTx.tail
    BY <2>2 DEF BufferType
  <2>4. InTx' = 1
    BY <2>1, <2>3, TxMoves DEF InTx
  <2> QED BY <1>1, <1>2, <1>3, <2>4 DEF Waiting
<1>4. CASE Sending
  BY <1>1, <1>2, <1>4 DEF Sending, Armed
<1> QED BY <1>1, <1>3, <1>4 DEF Claimed

(* The steps of write() that start a frame.                                *)
LEMMA StartLine ==
  ASSUME LineInv, PortTypes', "frame" \notin broken', S!Claim \/ S!Take \/ S!Begin
  PROVE  LineInv'
<1> USE LineFacts DEF LineInv
<1>1. CASE S!Claim
  <2>1. UNCHANGED <<timer, pci, sTx>> /\ sW.at = "claim" /\ ~(timer.flag /\ timer.nvic)
    BY <1>1 DEF S!Claim, S!At, S!Preempted
  <2>2. CASE port.txInUse
    <3>1. port' = port /\ sW' = [sW EXCEPT !.at = "idle"]
      BY <1>1, <2>2 DEF S!Claim
    <3>2. sW'.at = "idle"
      BY <3>1 DEF CallOfWrite
    <3>3. Sending
      BY <2>1, <2>2 DEF Waiting, Claimed
    <3> QED BY <2>1, <3>1, <3>2, <3>3 DEF Sending, Armed
  <2>3. CASE ~port.txInUse
    <3>1. /\ port' = [port EXCEPT !.txInUse = TRUE] /\ sW' = [sW EXCEPT !.at = "take"]
          /\ ~port.rxInUse
      BY <1>1, <2>3 DEF S!Claim, S!Broken
    <3>2. sW'.at = "take" /\ port'.txInUse /\ ~port'.rxInUse
      BY <3>1 DEF CallOfWrite, PortType
    <3>3. Waiting
      BY <2>1, <2>3 DEF Claimed, Sending
    <3> QED BY <2>1, <3>2, <3>3 DEF Waiting, Claimed
  <2> QED BY <2>2, <2>3
<1>2. CASE S!Take
  <2>1. /\ UNCHANGED <<timer, pci>> /\ sTx.tail # sTx.head
        /\ sW.at = "take" /\ sW' = [sW EXCEPT !.at = "begin"]
        /\ port' = [port EXCEPT !.outgoing = sTx.buf[S!next(sTx.tail)], !.shifts = 0]
        /\ sTx' = [sTx EXCEPT !.tail = S!next(sTx.tail)]
    BY <1>2 DEF S!Take, S!Taken, S!At, S!Broken, BufferType
  <2>2. Claimed /\ InTx = 1
    <3>1. Claimed /\ InTx <= 1
      BY <2>1 DEF Waiting, Sending, Claimed
    <3>2. InTx # 0 /\ InTx \in 0..Size - 1
      BY <2>1, TxMoves
    <3> QED BY <3>1, <3>2, SerialFacts
  <2>3. InTx' = 0
    <3>1. Apart(sTx.head, S!next(sTx.tail), Size) = 0
      BY <2>2, TxMoves
    <3>2. sTx'.head = sTx.head /\ sTx'.tail = S!next(sTx.tail)
      BY <2>1 DEF BufferType
    <3> QED BY <3>1, <3>2 DEF InTx
  <2>4. sW'.at = "begin" /\ port'.txInUse = port.txInUse /\ port'.rxInUse = port.rxInUse
    BY <2>1 DEF CallOfWrite, PortType
  <2> QED BY <2>1, <2>2, <2>3, <2>4 DEF Claimed
<1>3. CASE S!Begin
  <2>1. /\ UNCHANGED <<pci, sTx>> /\ sW.at = "begin" /\ sW' = [sW EXCEPT !.at = "idle"]
        /\ port' = [port EXCEPT !.bitCounter = 0]
        /\ timer' = [set |-> "tx", flag |-> FALSE, nvic |-> TRUE]
    BY <1>3 DEF S!Begin, S!beginTX, S!SetForTX, S!At
  <2>2. Claimed
    BY <2>1 DEF Waiting, Sending
  <2>3. /\ sW'.at = "idle" /\ port'.bitCounter = 0
        /\ port'.txInUse = port.txInUse /\ port'.rxInUse = port.rxInUse
    BY <2>1 DEF CallOfWrite, PortType
  <2> QED BY <2>1, <2>2, <2>3 DEF Claimed, Sending, Armed
<1> QED BY <1>1, <1>2, <1>3

(* The timer, and the edges of the peer.                                   *)
LEMMA EdgeLine ==
  ASSUME LineInv, PortTypes', "frame" \notin broken', S!Compare \/ S!PeerBegins \/ S!PeerEnds
  PROVE  LineInv' /\ UNCHANGED <<sTx, queued, out, sW>> /\ (port.txInUse => port' = port)
         /\ port'.txInUse = port.txInUse
<1> USE LineFacts DEF LineInv
<1>1. CASE S!Compare
  <2>1. /\ UNCHANGED <<port, pci, sTx, sW, queued, out>>
        /\ timer.set # "none" /\ ~(timer.set = "rx" /\ port.txInUse)
        /\ timer' = [timer EXCEPT !.set = "none", !.flag = TRUE]
    BY <1>1 DEF S!Compare, S!sketchVars, S!Broken
  <2>2. timer'.set = "none" /\ timer'.flag /\ timer'.nvic = timer.nvic
    BY <2>1 DEF TimerType
  <2>3. CASE Waiting
    BY <2>1, <2>2, <2>3 DEF Waiting
  <2>4. CASE Sending
    BY <2>1, <2>2, <2>4 DEF Sending, Armed
  <2>5. ~Claimed
    BY <2>1 DEF Claimed, TimerType
  <2> QED BY <2>1, <2>3, <2>4, <2>5
<1>2. ASSUME NEW edge, S!Edge(edge), ~(pci /\ port.txInUse)
      PROVE  LineInv' /\ UNCHANGED <<sTx, queued, out, sW>> /\ (port.txInUse => port' = port)
             /\ port'.txInUse = port.txInUse
  <2>1. UNCHANGED <<pci, sTx, sW, queued, out>>
    BY <1>2 DEF S!Edge, S!sketchVars
  <2>2. CASE ~pci
    <3>1. port' = port /\ timer' = timer
      BY <1>2, <2>2 DEF S!Edge
    <3> QED BY <2>1, <3>1 DEF Waiting, Claimed, Sending, Armed
  <2>3. CASE pci
    <3>1. \/ port' = [port EXCEPT !.bitCounter = 0, !.timed = TRUE, !.rxInUse = TRUE]
          \/ port' = [port EXCEPT !.bitCounter = port.bitCounter + 1]
      BY <1>2, <2>3 DEF S!Edge, S!rxBit, PortType
    <3>2. port'.txInUse = port.txInUse
      <4>1. CASE port' = [port EXCEPT !.bitCounter = 0, !.timed = TRUE, !.rxInUse = TRUE]
        BY <4>1 DEF PortType
      <4>2. CASE port' = [port EXCEPT !.bitCounter = port.bitCounter + 1]
        BY <4>2 DEF PortType
      <4> QED BY <3>1, <4>1, <4>2
    <3>3. timer'.set \in {timer.set, "rx"}
      BY <1>2, <2>3 DEF S!Edge, S!rxBit, TimerType
    <3>4. Waiting
      BY <1>2, <2>3 DEF Claimed, Sending
    <3> QED BY <1>2, <2>1, <2>3, <3>2, <3>3, <3>4 DEF Waiting
  <2> QED BY <2>2, <2>3
<1>3. S!PeerBegins => S!Edge(<<peer.n + 1, 1>>) /\ ~(pci /\ port.txInUse)
  BY DEF S!PeerBegins
<1>4. S!PeerEnds => S!Edge(<<peer.n, 2>>) /\ ~(pci /\ port.txInUse)
  BY DEF S!PeerEnds, S!Broken
<1> QED BY <1>1, <1>2, <1>3, <1>4

(* The parts of a frame are sent one after another.                        *)
SendsPart(part, shifted) ==
  /\ port' = [port EXCEPT !.bitCounter = port.bitCounter + 1, !.shifts = shifted]
  /\ out' = Append(out, <<port.outgoing, part>>)
  /\ timer' = [timer EXCEPT !.set = "tx", !.flag = FALSE]
  /\ UNCHANGED <<sTx, pci>>

SendsNext ==
  /\ port.bitCounter + 1 = FrameLength
  /\ S!NextByte

LEMMA InterruptHandles ==
  ASSUME PortTypes, Sending, S!am_stimer_cmpr7_isr
  PROVE  /\ UNCHANGED <<reading, peer, queued, sGot, sRx, sW, heard, seen>>
         /\ \/ port.bitCounter < Bits /\ SendsPart(port.shifts + 1, port.shifts + 1)
            \/ port.bitCounter = Bits /\ SendsPart(IF Parity THEN "parity" ELSE "stop", port.shifts)
            \/ port.bitCounter = Bits + 1 /\ Parity /\ SendsPart("stop", port.shifts)
            \/ SendsNext
<1> USE LineFacts
<1>1. /\ UNCHANGED <<reading, peer, queued, sGot, sRx, sW, heard, seen>>
      /\ S!txHandler
  BY DEF S!am_stimer_cmpr7_isr, S!sketchVars, Sending
<1> DEFINE c == port.bitCounter
<1>2. c \in Nat /\ Bits \in Nat /\ c < FrameLength
      /\ FrameLength = Bits + (IF Parity THEN 3 ELSE 2) /\ Parity \in BOOLEAN
  BY SerialFacts DEF Sending, PortType, FrameLength
<1>3. CASE c < Bits
  <2>1. S!SendBit(S!Bit(port.shifts + 1), port.shifts + 1)
    BY <1>1, <1>2, <1>3 DEF S!txHandler
  <2> QED BY <1>1, <1>3, <2>1 DEF S!SendBit, S!Bit, SendsPart, PortType
<1>4. CASE c = Bits
  <2>1. S!SendBit(S!Bit(IF Parity THEN "parity" ELSE "stop"), port.shifts)
    BY <1>1, <1>2, <1>4 DEF S!txHandler
  <2> QED BY <1>1, <1>4, <2>1 DEF S!SendBit, S!Bit, SendsPart, PortType
<1>5. CASE c = Bits + 1 /\ Parity
  <2>1. S!SendBit(S!Bit("stop"), port.shifts)
    <3>1. /\ ~(c < Bits) /\ ~(c = Bits) /\ ~(c = Bits + 2)
          /\ c = Bits + 1 /\ Parity /\ ~(c = Bits + 1 /\ ~Parity)
      BY <1>2, <1>5
    <3> QED BY <1>1, <3>1, Zenon DEF S!txHandler
  <2> QED BY <1>1, <1>5, <2>1 DEF S!SendBit, S!Bit, SendsPart, PortType
<1>6. CASE c + 1 = FrameLength
  <2>1. S!NextByte
    BY <1>1, <1>2, <1>6 DEF S!txHandler
  <2> QED BY <1>1, <1>6, <2>1 DEF SendsNext
<1>7. c < Bits \/ c = Bits \/ (c = Bits + 1 /\ Parity) \/ c + 1 = FrameLength
  <2> HIDE DEF c
  <2>1. CASE Parity
    <3>1. FrameLength = Bits + 3
      BY <1>2, <2>1
    <3> QED BY <1>2, <2>1, <3>1
  <2>2. CASE ~Parity
    <3>1. FrameLength = Bits + 2
      BY <1>2, <2>2
    <3> QED BY <1>2, <3>1
  <2> QED BY <2>1, <2>2
<1> QED BY <1>3, <1>4, <1>5, <1>6, <1>7

LEMMA InterruptLine ==
  ASSUME LineInv, PortTypes', S!am_stimer_cmpr7_isr
  PROVE  LineInv'
<1> USE LineFacts DEF LineInv
<1>1. timer.flag /\ timer.nvic /\ ~Claimed /\ sW' = sW
  BY DEF S!am_stimer_cmpr7_isr, S!Preempted, S!sketchVars, Claimed
<1>2. CASE Waiting
  <2>1. /\ UNCHANGED <<sTx, pci>>
        /\ \/ port' = port
           \/ port' = [port EXCEPT !.bitCounter = Bits, !.timed = FALSE, !.rxInUse = FALSE]
        /\ \/ timer' = [timer EXCEPT !.flag = FALSE]
           \/ timer' = [timer EXCEPT !.flag = FALSE, !.nvic = FALSE]
    BY <1>2 DEF S!am_stimer_cmpr7_isr, S!rxEndOfByte, Waiting
  <2>2. port'.txInUse = port.txInUse
    BY <2>1 DEF PortType
  <2>3. timer'.set = timer.set
    BY <2>1 DEF TimerType
  <2> QED BY <1>1, <1>2, <2>1, <2>2, <2>3 DEF Waiting
<1>3. CASE Sending
  <2>1. timer.set = "none"
    BY <1>1, <1>3 DEF Sending, Armed
  <2>2. ASSUME NEW part, NEW shifted \in Nat, SendsPart(part, shifted),
               port.bitCounter + 1 < FrameLength
        PROVE  LineInv'
    <3>1. /\ port' = [port EXCEPT !.bitCounter = port.bitCounter + 1, !.shifts = shifted]
          /\ timer' = [timer EXCEPT !.set = "tx", !.flag = FALSE]
      BY <2>2 DEF SendsPart
    <3>2. port.bitCounter + 1 \in Nat
      BY DEF PortType
    <3>3. /\ port'.bitCounter = port.bitCounter + 1
          /\ port'.txInUse = port.txInUse /\ port'.rxInUse = port.rxInUse
          /\ timer'.set = "tx" /\ ~timer'.flag /\ timer'.nvic
      BY <1>1, <3>1, <3>2 DEF PortType, TimerType
    <3> QED BY <1>1, <1>3, <2>2, <3>3 DEF Sending, Armed
  <2>3. port.shifts \in Nat /\ port.shifts + 1 \in Nat
    BY DEF PortType
  <2>4. CASE port.bitCounter < Bits /\ SendsPart(port.shifts + 1, port.shifts + 1)
    <3>1. port.bitCounter + 1 < FrameLength
      BY <2>4, SerialFacts DEF FrameLength, PortType
    <3> QED BY <2>2, <2>3, <2>4, <3>1
  <2>5. CASE port.bitCounter = Bits /\ SendsPart(IF Parity THEN "parity" ELSE "stop", port.shifts)
    <3>1. port.bitCounter + 1 < FrameLength
      BY <2>5, SerialFacts DEF FrameLength, PortType
    <3> QED BY <2>2, <2>3, <2>5, <3>1
  <2>6. CASE port.bitCounter = Bits + 1 /\ Parity /\ SendsPart("stop", port.shifts)
    <3>1. port.bitCounter + 1 < FrameLength
      BY <2>6, SerialFacts DEF FrameLength, PortType
    <3> QED BY <2>2, <2>3, <2>6, <3>1
  <2>7. CASE SendsNext
    <3>1. CASE sTx.tail = sTx.head
      <4>1. /\ timer' = [timer EXCEPT !.flag = FALSE, !.nvic = FALSE]
            /\ port' = [port EXCEPT !.txInUse = FALSE, !.timed = FALSE]
            /\ pci' = TRUE /\ sTx' = sTx
        BY <2>7, <3>1 DEF SendsNext, S!NextByte, S!listen
      <4>2. timer'.set = "none" /\ ~port'.txInUse
        BY <2>1, <4>1 DEF TimerType, PortType
      <4>3. InTx' = 0
        BY <3>1, <4>1, TxMoves DEF InTx
      <4> QED BY <1>1, <1>3, <4>1, <4>2, <4>3 DEF Sending, Waiting
    <3>2. CASE sTx.tail # sTx.head
      <4>1. /\ port' = [[port EXCEPT !.outgoing = sTx.buf[S!next(sTx.tail)], !.shifts = 0]
                          EXCEPT !.bitCounter = 0]
            /\ timer' = [set |-> "tx", flag |-> FALSE, nvic |-> TRUE]
        BY <2>7, <3>2 DEF SendsNext, S!NextByte, S!beginTX, S!Taken, S!SetForTX
      <4>2. /\ port'.bitCounter = 0 /\ port'.txInUse = port.txInUse
            /\ port'.rxInUse = port.rxInUse
        BY <4>1 DEF PortType
      <4> QED BY <1>1, <1>3, <4>1, <4>2 DEF Sending, Armed
    <3> QED BY <3>1, <3>2
  <2> QED BY <1>3, <2>4, <2>5, <2>6, <2>7, InterruptHandles
<1> QED BY <1>1, <1>2, <1>3

LEMMA LineNext ==
  ASSUME LineInv, "frame" \notin broken', [S!Next]_(S!vars)
  PROVE  LineInv'
<1>1. PortTypes'
  BY TypesNext DEF LineInv
<1>2. CASE UNCHANGED S!vars
  BY <1>2 DEF S!vars, LineInv, PortTypes, Waiting, Claimed, Sending, Armed, InTx
<1>3. CASE S!read
  <2>1. UNCHANGED <<port, timer, pci, sTx, sW>>
    BY <1>3 DEF S!read
  <2> QED BY <1>1, <2>1 DEF LineInv, Waiting, Claimed, Sending, Armed, InTx
<1> QED BY <1>1, <1>2, <1>3, CallLine, PutLine, StartLine, EdgeLine, InterruptLine
       DEF S!Next, S!write

-----------------------------------------------------------------------------
(* What is on the wire, and what waits for it.                             *)

LEMMA OutFacts ==
  ASSUME LineInv, OutInv
  PROVE  /\ queued \in Seq(Nat) /\ Len(queued) \in Nat /\ InTx \in Nat /\ InTx <= Len(queued)
         /\ Taken \in Nat /\ Taken <= Len(queued) /\ Taken = Len(queued) - InTx
         /\ \A n \in 1..Len(queued) : queued[n] \in Nat
<1>1. PortTypes /\ InTx <= Len(queued)
  BY DEF LineInv, OutInv
<1>2. queued \in Seq(Nat) /\ InTx \in Nat
  BY <1>1, LineFacts, TxMoves
<1> QED BY <1>1, <1>2, LenProperties, ElementOfSeq DEF Taken

(* Steps that neither send nor take.                                       *)
LEMMA OutKept ==
  ASSUME LineInv, OutInv, UNCHANGED <<sTx, queued, out>>,
         port'.txInUse \/ sW'.at \in {"take", "begin"} =>
           /\ port.txInUse /\ port'.bitCounter = port.bitCounter /\ port'.shifts = port.shifts
           /\ port'.outgoing = port.outgoing,
         port'.txInUse = port.txInUse,
         sW.at \notin {"take", "begin"}, sW'.at \notin {"take", "begin"}
  PROVE  OutInv'
<1>1. InTx' = InTx /\ Taken' = Taken
  BY DEF InTx, Taken
<1>2. Begun(Taken)' = Begun(Taken) /\ Begun(Taken - 1)' = Begun(Taken - 1)
  BY <1>1 DEF Begun
<1> QED BY <1>1, <1>2 DEF OutInv

LEMMA FirstOfAppended ==
  ASSUME NEW q \in Seq(Nat), NEW b \in Nat, NEW n \in Nat, n <= Len(q)
  PROVE  SubSeq(Append(q, b), 1, n) = SubSeq(q, 1, n)
<1>1. CASE n = 0
  BY <1>1, SubSeqEmpty
<1>2. CASE n # 0
  <2>1. n \in 1..Len(q) /\ 1 \in 1..Len(q)
    BY <1>2
  <2>2. <<b>> \in Seq(Nat) /\ Append(q, b) = q \o <<b>>
    BY AppendIsConcat
  <2> QED BY <2>1, <2>2, SubSeqOfConcat1
<1> QED BY <1>1, <1>2

LEMMA AppendedKeeps ==
  ASSUME NEW q \in Seq(Nat), NEW b \in Nat
  PROVE  /\ Append(q, b) \in Seq(Nat) /\ Len(Append(q, b)) = Len(q) + 1
         /\ \A j \in 1..Len(q) : Append(q, b)[j] = q[j]
         /\ \A j \in Nat : j = Len(q) + 1 => Append(q, b)[j] = b
BY AppendProperties

(* One byte more waits.                                                    *)
LEMMA PutMoves ==
  ASSUME LineInv, OutInv, S!Put, S!next(sTx.head) # sTx.tail
  PROVE  /\ queued' = Append(queued, sW.n) /\ sW.n \in Nat
         /\ InTx' = InTx + 1 /\ Taken' = Taken
         /\ \A i \in 1..InTx' : sTx'.buf[Place(sTx'.tail, i + 1, Size)] = queued'[Taken' + i]
<1>1. /\ sTx' = [sTx EXCEPT !.buf[S!next(sTx.head)] = sW.n, !.head = S!next(sTx.head)]
      /\ queued' = Append(queued, sW.n)
  BY DEF S!Put
<1>2. PortTypes
  BY DEF LineInv
<1>3. sTx \in BufferType /\ sW.n \in Nat
  BY <1>2, LineFacts DEF CallOfWrite
<1>4. S!next(sTx.head) \in 0..Size - 1
  BY <1>3, TxMoves
<1>5. /\ sTx'.head = S!next(sTx.head) /\ sTx'.tail = sTx.tail
      /\ \A k \in 0..Size - 1 : sTx'.buf[k] = IF k = S!next(sTx.head) THEN sW.n ELSE sTx.buf[k]
  BY <1>1, <1>3, <1>4 DEF BufferType
<1>6. /\ InTx' = InTx + 1 /\ InTx # Size - 1
      /\ Place(sTx.tail, InTx + 1 + 1, Size) = S!next(sTx.head)
      /\ \A i \in 1 .. InTx : /\ Place(sTx.tail, i + 1, Size) \in 0 .. Size - 1
                              /\ Place(sTx.tail, i + 1, Size) # S!next(sTx.head)
  <2>1. /\ Apart(S!next(sTx.head), sTx.tail, Size) = InTx + 1 /\ InTx # Size - 1
        /\ Place(sTx.tail, InTx + 1 + 1, Size) = S!next(sTx.head)
        /\ \A i \in 1 .. InTx : /\ Place(sTx.tail, i + 1, Size) \in 0 .. Size - 1
                                /\ Place(sTx.tail, i + 1, Size) # S!next(sTx.head)
    BY <1>3, TxMoves
  <2>2. InTx' = Apart(S!next(sTx.head), sTx.tail, Size)
    BY <1>5 DEF InTx
  <2> QED BY <2>1, <2>2
<1>7. /\ queued' \in Seq(Nat) /\ Len(queued') = Len(queued) + 1
      /\ \A j \in 1..Len(queued) : queued'[j] = queued[j]
      /\ \A j \in Nat : j = Len(queued) + 1 => queued'[j] = sW.n
  BY <1>1, <1>3, OutFacts, AppendedKeeps
<1>8. Taken' = Taken
  <2>1. Taken' = Len(queued') - InTx'
    BY DEF Taken
  <2> QED BY <1>6, <1>7, <2>1, OutFacts
<1>9. ASSUME NEW i \in 1..InTx + 1
      PROVE  sTx'.buf[Place(sTx.tail, i + 1, Size)] = queued'[Taken + i]
  <2>1. PICK j \in Nat : j = Taken + i
    BY OutFacts
  <2>2. CASE i = InTx + 1
    <3>1. j = Len(queued) + 1
      BY <2>1, <2>2, OutFacts
    <3> QED BY <1>4, <1>5, <1>6, <1>7, <2>1, <2>2, <3>1
  <2>3. CASE i # InTx + 1
    <3>1. i \in 1..InTx /\ j \in 1..Len(queued)
      BY <2>1, <2>3, OutFacts, SMTT(60)
    <3>2. sTx.buf[Place(sTx.tail, i + 1, Size)] = queued[j]
      BY <2>1, <3>1 DEF OutInv
    <3> QED BY <1>5, <1>6, <1>7, <2>1, <3>1, <3>2
  <2> QED BY <2>2, <2>3
<1> QED BY <1>1, <1>3, <1>5, <1>6, <1>8, <1>9

LEMMA PutOut ==
  ASSUME LineInv, OutInv, S!Put
  PROVE  OutInv'
<1>1. PortTypes
  BY DEF LineInv
<1>2. /\ port' = port /\ out' = out /\ sW.at = "put" /\ sW' = [sW EXCEPT !.at = "claim"]
  BY DEF S!Put, S!At
<1>3. sW'.at = "claim"
  BY <1>1, <1>2, LineFacts DEF CallOfWrite
<1>4. CASE S!next(sTx.head) = sTx.tail
  <2>1. sTx' = sTx /\ queued' = queued
    BY <1>4 DEF S!Put
  <2> QED BY <1>2, <1>3, <2>1, OutKept
<1>5. CASE S!next(sTx.head) # sTx.tail
  <2>1. /\ queued' = Append(queued, sW.n) /\ sW.n \in Nat
        /\ InTx' = InTx + 1 /\ Taken' = Taken
        /\ \A i \in 1..InTx' : sTx'.buf[Place(sTx'.tail, i + 1, Size)] = queued'[Taken' + i]
    BY <1>5, PutMoves
  <2>2. Len(queued') = Len(queued) + 1 /\ \A j \in 1..Len(queued) : queued'[j] = queued[j]
    BY <2>1, OutFacts, AppendedKeeps
  <2>3. InTx' <= Len(queued')
    BY <2>1, <2>2, OutFacts
  <2>4. Begun(Taken)' = Begun(Taken)
    <3>1. SubSeq(queued', 1, Taken) = SubSeq(queued, 1, Taken)
      BY <2>1, OutFacts, FirstOfAppended
    <3> QED BY <2>1, <3>1 DEF Begun
  <2>5. Taken > 0 => Begun(Taken - 1)' = Begun(Taken - 1) /\ queued'[Taken'] = queued[Taken]
    <3>1. SUFFICES ASSUME Taken > 0
                   PROVE  Begun(Taken - 1)' = Begun(Taken - 1) /\ queued'[Taken'] = queued[Taken]
      OBVIOUS
    <3>2. PICK n \in Nat : n = Taken - 1
      BY <3>1, OutFacts
    <3>3. n <= Len(queued) /\ Taken \in 1..Len(queued)
      BY <3>1, <3>2, OutFacts
    <3>4. SubSeq(queued', 1, n) = SubSeq(queued, 1, n)
      BY <2>1, <3>3, OutFacts, FirstOfAppended
    <3> QED BY <2>1, <2>2, <3>2, <3>3, <3>4 DEF Begun
  <2> QED BY <1>2, <1>3, <2>1, <2>3, <2>4, <2>5 DEF OutInv
<1> QED BY <1>4, <1>5

(* The byte that is taken is the first that waits.                         *)
LEMMA TakeMoves ==
  ASSUME LineInv, OutInv, InTx > 0, queued' = queued,
         sTx' = [sTx EXCEPT !.tail = S!next(sTx.tail)]
  PROVE  /\ InTx' = InTx - 1 /\ Taken' = Taken + 1 /\ Taken' \in 1..Len(queued)
         /\ sTx.buf[S!next(sTx.tail)] = queued[Taken']
         /\ \A i \in 1..InTx' : sTx'.buf[Place(sTx'.tail, i + 1, Size)] = queued'[Taken' + i]
<1>1. sTx \in BufferType
  BY LineFacts DEF LineInv
<1>2. sTx'.head = sTx.head /\ sTx'.tail = S!next(sTx.tail) /\ sTx'.buf = sTx.buf
  BY <1>1 DEF BufferType
<1>3. InTx' = InTx - 1
  <2>1. Apart(sTx.head, S!next(sTx.tail), Size) = InTx - 1
    BY <1>1, TxMoves
  <2> QED BY <1>2, <2>1 DEF InTx
<1>4. Taken' = Taken + 1 /\ Taken' \in 1..Len(queued)
  <2>1. Taken' = Len(queued) - InTx'
    BY DEF Taken
  <2> QED BY <1>3, <2>1, OutFacts
<1>5. sTx.buf[S!next(sTx.tail)] = queued[Taken']
  <2>1. sTx.buf[Place(sTx.tail, 1 + 1, Size)] = queued[Taken + 1]
    <3>1. 1 \in 1..InTx
      BY OutFacts
    <3>2. \A i \in 1..InTx : sTx.buf[Place(sTx.tail, i + 1, Size)] = queued[Taken + i]
      BY DEF OutInv
    <3> QED BY <3>1, <3>2
  <2>2. Place(sTx.tail, 1 + 1, Size) = S!next(sTx.tail)
    BY <1>1, TxMoves
  <2> QED BY <1>4, <2>1, <2>2
<1>6. ASSUME NEW i \in 1..InTx - 1
      PROVE  sTx.buf[Place(S!next(sTx.tail), i + 1, Size)] = queued[Taken' + i]
  <2>1. PICK j \in Nat : j = i + 1
    OBVIOUS
  <2>2. j \in 1..InTx /\ Taken + j = Taken' + i
    <3>1. Taken \in Nat /\ InTx \in Nat /\ i \in 1..InTx - 1 /\ Taken' = Taken + 1
      BY <1>4, OutFacts
    <3> QED BY <2>1, <3>1
  <2>3. sTx.buf[Place(sTx.tail, j + 1, Size)] = queued[Taken + j]
    BY <2>2 DEF OutInv
  <2>4. Place(S!next(sTx.tail), i + 1, Size) = Place(sTx.tail, i + 1 + 1, Size)
    BY <1>1, TxMoves
  <2> QED BY <2>1, <2>2, <2>3, <2>4
<1> QED BY <1>2, <1>3, <1>4, <1>5, <1>6

LEMMA FirstPart ==
  ASSUME NEW b \in Nat, NEW first \in Seq(Part)
  PROVE  Append(first, <<b, 0>>) = first \o SubSeq(S!Frame(b), 1, 1)
<1>1. S!Frame(b) \in Seq(Part) /\ S!Frame(b)[1] = <<b, 0>> /\ 1 \in 1..Len(S!Frame(b))
  <2>1. 1 \in 1..FrameLength
    BY SerialFacts DEF FrameLength
  <2> QED BY <2>1, FrameIs
<1> DEFINE f == S!Frame(b)
<1> HIDE DEF f
<1>2. SubSeq(f, 1, 1) = SubSeq(f, 1, 1 - 1) \o <<f[1]>>
  BY <1>1, SubSeqRecursiveSecond DEF f
<1>3. SubSeq(f, 1, 1 - 1) = <<>>
  BY SubSeqEmpty
<1>4. <<f[1]>> \in Seq(Part) /\ <<b, 0>> \in Part
  BY <1>1, ElementOfSeq DEF f
<1>5. SubSeq(f, 1, 1) = <<f[1]>>
  BY <1>2, <1>3, <1>4, ConcatEmptySeq
<1>6. Append(first, <<b, 0>>) = first \o <<<<b, 0>>>>
  BY <1>4, AppendIsConcat
<1> QED BY <1>1, <1>5, <1>6 DEF f

LEMMA NextPart ==
  ASSUME NEW b \in Nat, NEW first \in Seq(Part), NEW k \in Nat, NEW m \in Nat, m = k + 1,
         m <= FrameLength
  PROVE  Append(first \o SubSeq(S!Frame(b), 1, k), S!Frame(b)[m])
           = first \o SubSeq(S!Frame(b), 1, m)
<1> DEFINE f == S!Frame(b)
           part == f[m]
           o == first \o SubSeq(f, 1, k)
<1>1. f \in Seq(Part) /\ m \in 1..Len(f) /\ 1 \in 1..Len(f) /\ m - 1 = k /\ part \in Part
  <2>1. f \in Seq(Part) /\ Len(f) = FrameLength /\ FrameLength \in Nat
    BY FrameIs, SerialFacts DEF FrameLength
  <2>2. m \in 1..Len(f) /\ 1 \in 1..Len(f)
    BY <2>1
  <2> HIDE DEF f
  <2>3. f[m] \in Part
    BY <2>1, <2>2, ElementOfSeq
  <2> QED BY <2>1, <2>2, <2>3 DEF f
<1>2. part = f[m] /\ o = first \o SubSeq(f, 1, k)
  OBVIOUS
<1> HIDE DEF f, part, o
<1>3. SubSeq(f, 1, m) = SubSeq(f, 1, k) \o <<part>>
  <2>1. m \in 1..Len(f) /\ m \in 1 .. Len(f)
    BY <1>1
  <2>2. SubSeq(f, 1, m) = SubSeq(f, 1, m - 1) \o <<f[m]>>
    BY <1>1, SubSeqRecursiveSecond
  <2> QED BY <1>1, <1>2, <2>2
<1>4. SubSeq(f, 1, k) \in Seq(Part)
  <2>1. \A i \in 1..k : f[i] \in Part
    BY <1>1, ElementOfSeq
  <2> QED BY <2>1, SubSeqProperties
<1> DEFINE p == SubSeq(f, 1, k)
<1> HIDE DEF p
<1>5. p \in Seq(Part) /\ <<part>> \in Seq(Part) /\ o = first \o p
  BY <1>1, <1>2, <1>4 DEF p
<1>6. (first \o p) \o <<part>> = first \o (p \o <<part>>)
  BY <1>5, ConcatAssociative
<1>7. o \in Seq(Part)
  BY <1>5, ConcatProperties
<1>8. Append(o, part) = o \o <<part>>
  BY <1>1, <1>7, AppendIsConcat
<1> QED BY <1>3, <1>5, <1>6, <1>8 DEF p, f, part, o

LEMMA BegunIsSeq ==
  ASSUME LineInv, OutInv, NEW n \in Nat, n <= Len(queued)
  PROVE  Begun(n) \in Seq(Part)
BY OutFacts, FramesOfIsSeq DEF Begun

(* The steps of write() that start a frame.                                *)
LEMMA StartOut ==
  ASSUME LineInv, OutInv, "frame" \notin broken', S!Claim \/ S!Take \/ S!Begin
  PROVE  OutInv'
<1>1. PortTypes
  BY DEF LineInv
<1>2. CASE S!Claim
  <2>1. UNCHANGED <<sTx, queued, out>> /\ sW.at = "claim"
    BY <1>2 DEF S!Claim, S!At
  <2>2. CASE port.txInUse
    <3>1. port' = port /\ sW' = [sW EXCEPT !.at = "idle"]
      BY <1>2, <2>2 DEF S!Claim
    <3>2. sW'.at = "idle"
      BY <1>1, <3>1, LineFacts DEF CallOfWrite
    <3> QED BY <2>1, <3>1, <3>2, OutKept
  <2>3. CASE ~port.txInUse
    <3>1. sW' = [sW EXCEPT !.at = "take"]
      BY <1>2, <2>3 DEF S!Claim
    <3>2. sW'.at = "take"
      BY <1>1, <3>1, LineFacts DEF CallOfWrite
    <3>3. InTx' = InTx /\ Taken' = Taken
      BY <2>1 DEF InTx, Taken
    <3>4. Begun(Taken)' = Begun(Taken)
      BY <2>1, <3>3 DEF Begun
    <3> QED BY <2>1, <2>3, <3>2, <3>3, <3>4 DEF OutInv
  <2> QED BY <2>2, <2>3
<1>3. CASE S!Take
  <2>1. /\ queued' = queued /\ out' = out
        /\ sW.at = "take" /\ sW' = [sW EXCEPT !.at = "begin"]
        /\ port' = [port EXCEPT !.outgoing = sTx.buf[S!next(sTx.tail)], !.shifts = 0]
        /\ sTx' = [sTx EXCEPT !.tail = S!next(sTx.tail)]
    BY <1>1, <1>3, LineFacts DEF S!Take, S!Taken, S!At, BufferType
  <2>2. InTx = 1 /\ port.txInUse
    <3>1. Claimed /\ InTx <= 1 /\ sTx.tail # sTx.head
      BY <1>3, <2>1 DEF LineInv, Waiting, Sending, Claimed, S!Take, S!Broken
    <3>2. InTx # 0 /\ InTx \in 0..Size - 1
      BY <1>1, <3>1, LineFacts, TxMoves
    <3> QED BY <3>1, <3>2, SerialFacts DEF Claimed
  <2>3. /\ InTx' = InTx - 1 /\ Taken' = Taken + 1 /\ Taken' \in 1..Len(queued)
        /\ sTx.buf[S!next(sTx.tail)] = queued[Taken']
        /\ \A i \in 1..InTx' : sTx'.buf[Place(sTx'.tail, i + 1, Size)] = queued'[Taken' + i]
    BY <2>1, <2>2, TakeMoves
  <2>4. /\ port'.outgoing = queued'[Taken'] /\ port'.shifts = 0 /\ port'.txInUse
    BY <1>1, <2>1, <2>2, <2>3, LineFacts DEF PortType
  <2>5. sW'.at = "begin"
    BY <1>1, <2>1, LineFacts DEF CallOfWrite
  <2>6. out = Begun(Taken)
    BY <2>1 DEF OutInv
  <2>7. Begun(Taken - 1)' = Begun(Taken)
    <3>1. Taken' - 1 = Taken
      BY <2>3, OutFacts
    <3> QED BY <2>1, <3>1 DEF Begun
  <2>8. InTx' <= Len(queued') /\ Taken' > 0
    BY <2>1, <2>2, <2>3, OutFacts
  <2> QED BY <2>1, <2>3, <2>4, <2>5, <2>6, <2>7, <2>8 DEF OutInv
<1>4. CASE S!Begin
  <2>1. /\ UNCHANGED <<sTx, queued>>
        /\ sW.at = "begin" /\ sW' = [sW EXCEPT !.at = "idle"]
        /\ port' = [port EXCEPT !.bitCounter = 0]
        /\ out' = Append(out, <<port.outgoing, 0>>)
    BY <1>4 DEF S!Begin, S!beginTX, S!Bit, S!At
  <2>2. InTx' = InTx /\ Taken' = Taken
    BY <2>1 DEF InTx, Taken
  <2>3. port.txInUse /\ InTx = 0
    BY <2>1 DEF LineInv, Waiting, Sending, Claimed
  <2>4. sW'.at = "idle" /\ port'.txInUse /\ port'.bitCounter = 0
        /\ port'.shifts = port.shifts /\ port'.outgoing = port.outgoing
    BY <1>1, <2>1, <2>3, LineFacts DEF CallOfWrite, PortType
  <2>5. Taken > 0 /\ port.outgoing = queued[Taken] /\ port.shifts = 0 /\ out = Begun(Taken - 1)
    BY <2>1 DEF OutInv
  <2>6. Append(Begun(Taken - 1), <<queued[Taken], 0>>)
          = Begun(Taken - 1) \o SubSeq(S!Frame(queued[Taken]), 1, 1)
    <3>1. PICK n \in Nat : n = Taken - 1
      BY <2>5, OutFacts
    <3>2. n <= Len(queued) /\ queued[Taken] \in Nat
      BY <2>5, <3>1, OutFacts
    <3>3. Begun(n) \in Seq(Part)
      BY <3>2, BegunIsSeq
    <3>4. Append(Begun(n), <<queued[Taken], 0>>) = Begun(n) \o SubSeq(S!Frame(queued[Taken]), 1, 1)
      BY <3>2, <3>3, FirstPart
    <3> QED BY <3>1, <3>4
  <2>7. Begun(Taken - 1)' = Begun(Taken - 1)
    BY <2>1, <2>2 DEF Begun
  <2>8. 0 + 1 = 1 /\ 0 < Bits
    BY SerialFacts
  <2> QED BY <2>1, <2>2, <2>3, <2>4, <2>5, <2>6, <2>7, <2>8 DEF OutInv
<1> QED BY <1>2, <1>3, <1>4

LEMMA SendingOut ==
  ASSUME LineInv, OutInv, Sending
  PROVE  /\ PortTypes /\ port.txInUse /\ sW.at \notin {"take", "begin"}
         /\ port.bitCounter \in Nat /\ port.bitCounter < FrameLength /\ FrameLength \in Nat
         /\ Taken > 0 /\ port.outgoing = queued[Taken] /\ queued[Taken] \in Nat
         /\ port.shifts = (IF port.bitCounter < Bits THEN port.bitCounter ELSE Bits)
         /\ out = Begun(Taken - 1) \o SubSeq(S!Frame(queued[Taken]), 1, port.bitCounter + 1)
         /\ \E n \in Nat : n = Taken - 1 /\ n <= Len(queued) /\ Begun(n) \in Seq(Part)
<1>1. PortTypes /\ port.txInUse /\ sW.at \notin {"take", "begin"} /\ port.bitCounter < FrameLength
  BY DEF LineInv, Sending
<1>2. port.bitCounter \in Nat /\ FrameLength \in Nat
  BY <1>1, LineFacts DEF PortType
<1>3. /\ Taken > 0 /\ port.outgoing = queued[Taken]
      /\ port.shifts = (IF port.bitCounter < Bits THEN port.bitCounter ELSE Bits)
      /\ out = Begun(Taken - 1) \o SubSeq(S!Frame(queued[Taken]), 1, port.bitCounter + 1)
  BY <1>1 DEF OutInv
<1>4. PICK n \in Nat : n = Taken - 1
  BY <1>3, OutFacts
<1>5. n <= Len(queued) /\ queued[Taken] \in Nat
  BY <1>3, <1>4, OutFacts
<1>6. Begun(n) \in Seq(Part)
  BY <1>5, BegunIsSeq
<1> QED BY <1>1, <1>2, <1>3, <1>4, <1>5, <1>6

(* One part of a frame more.                                               *)
LEMMA PartOut ==
  ASSUME LineInv, OutInv, Sending, queued' = queued, sW' = sW,
         NEW part, NEW shifted, SendsPart(part, shifted),
         NEW k \in Nat, k = port.bitCounter + 1, k < FrameLength,
         shifted = (IF k < Bits THEN k ELSE Bits),
         NEW m \in Nat, m = k + 1,
         <<queued[Taken], part>> = S!Frame(queued[Taken])[m]
  PROVE  OutInv'
<1>1. /\ port' = [port EXCEPT !.bitCounter = port.bitCounter + 1, !.shifts = shifted]
      /\ out' = Append(out, <<port.outgoing, part>>)
      /\ sTx' = sTx
  BY DEF SendsPart
<1>2. /\ port'.bitCounter = k /\ port'.shifts = shifted /\ port'.txInUse = port.txInUse
      /\ port'.outgoing = port.outgoing
  BY <1>1, SendingOut, LineFacts DEF PortType
<1>3. InTx' = InTx /\ Taken' = Taken
  BY <1>1 DEF InTx, Taken
<1>4. Begun(Taken - 1)' = Begun(Taken - 1)
  BY <1>3 DEF Begun
<1>5. out' = Begun(Taken - 1) \o SubSeq(S!Frame(queued[Taken]), 1, m)
  <2>1. PICK n \in Nat : n = Taken - 1 /\ Begun(n) \in Seq(Part)
    BY SendingOut
  <2>2. m <= FrameLength /\ queued[Taken] \in Nat /\ port.outgoing = queued[Taken]
    BY SendingOut
  <2>3. out = Begun(n) \o SubSeq(S!Frame(queued[Taken]), 1, k)
    BY <2>1, SendingOut
  <2>4. Append(out, <<queued[Taken], part>>) = Begun(n) \o SubSeq(S!Frame(queued[Taken]), 1, m)
    <3> DEFINE b == queued[Taken]
               first == Begun(n)
               e == <<queued[Taken], part>>
    <3>1. /\ b \in Nat /\ first \in Seq(Part) /\ e = S!Frame(b)[m] /\ m <= FrameLength
          /\ out = first \o SubSeq(S!Frame(b), 1, k)
      BY <2>1, <2>2, <2>3
    <3> HIDE DEF b, first, e
    <3>2. Append(out, e) = first \o SubSeq(S!Frame(b), 1, m)
      <4>1. Append(first \o SubSeq(S!Frame(b), 1, k), S!Frame(b)[m])
              = first \o SubSeq(S!Frame(b), 1, m)
        BY <3>1, NextPart, ZenonT(60)
      <4> QED BY <3>1, <4>1
    <3> QED BY <3>2 DEF b, first, e
  <2> QED BY <1>1, <2>1, <2>2, <2>4
<1>6. port'.shifts = IF port'.bitCounter < Bits THEN port'.bitCounter ELSE Bits
  BY <1>2
<1>7. port.txInUse /\ sW.at \notin {"take", "begin"} /\ Taken > 0 /\ port.outgoing = queued[Taken]
  BY SendingOut
<1>8. m = port'.bitCounter + 1
  BY <1>2
<1> QED BY <1>1, <1>2, <1>3, <1>4, <1>5, <1>6, <1>7, <1>8 DEF OutInv

(* A frame has ended.                                                      *)
LEMMA FrameOut ==
  ASSUME LineInv, OutInv, Sending, queued' = queued, sW' = sW, SendsNext
  PROVE  OutInv'
<1>1. PortTypes /\ port.txInUse /\ sW.at \notin {"take", "begin"}
  BY SendingOut
<1>2. PICK n \in Nat : n = Taken - 1 /\ n <= Len(queued) /\ Begun(n) \in Seq(Part)
  BY SendingOut
<1>3. out = Begun(Taken)
  <2>1. out = Begun(n) \o SubSeq(S!Frame(queued[Taken]), 1, FrameLength)
    BY <1>2, SendingOut DEF SendsNext
  <2>2. queued[Taken] \in Nat
    BY SendingOut
  <2>3. S!Frame(queued[Taken]) \in Seq(Part) /\ Len(S!Frame(queued[Taken])) = FrameLength
    BY <2>2, FrameIs
  <2>4. SubSeq(S!Frame(queued[Taken]), 1, FrameLength) = S!Frame(queued[Taken])
    <3> DEFINE f == S!Frame(queued[Taken])
    <3>1. f \in Seq(Part) /\ Len(f) = FrameLength
      BY <2>3
    <3> HIDE DEF f
    <3>2. SubSeq(f, 1, Len(f)) = f
      BY <3>1, SubSeqFull
    <3> QED BY <3>1, <3>2 DEF f
  <2>5. Taken = n + 1 /\ Taken <= Len(queued) /\ Taken \in Nat
    BY <1>2, OutFacts
  <2> DEFINE m == Taken
  <2>6. m \in Nat /\ m = n + 1 /\ m <= Len(queued)
    BY <2>5
  <2> HIDE DEF m
  <2>7. FramesOf(SubSeq(queued, 1, m)) = FramesOf(SubSeq(queued, 1, n)) \o S!Frame(queued[m])
    BY <2>6, OutFacts, FramesOfFirst
  <2> QED BY <2>1, <2>4, <2>7 DEF m, Begun
<1>4. CASE sTx.tail = sTx.head
  <2>1. /\ port' = [port EXCEPT !.txInUse = FALSE, !.timed = FALSE]
        /\ sTx' = sTx /\ out' = out
    BY <1>4 DEF SendsNext, S!NextByte, S!listen
  <2>2. ~port'.txInUse
    BY <1>1, <2>1, LineFacts DEF PortType
  <2>3. InTx' = InTx /\ Taken' = Taken
    BY <2>1 DEF InTx, Taken
  <2>4. Begun(Taken)' = Begun(Taken)
    BY <2>3 DEF Begun
  <2> QED BY <1>1, <1>3, <2>1, <2>2, <2>3, <2>4 DEF OutInv
<1>5. CASE sTx.tail # sTx.head
  <2>1. /\ port' = [[port EXCEPT !.outgoing = sTx.buf[S!next(sTx.tail)], !.shifts = 0]
                      EXCEPT !.bitCounter = 0]
        /\ sTx' = [sTx EXCEPT !.tail = S!next(sTx.tail)]
        /\ out' = Append(out, <<sTx.buf[S!next(sTx.tail)], 0>>)
    BY <1>1, <1>5, LineFacts DEF SendsNext, S!NextByte, S!beginTX, S!Taken, BufferType
  <2>2. InTx > 0
    <3>1. InTx # 0 /\ InTx \in Nat
      BY <1>1, <1>5, LineFacts, TxMoves
    <3> QED BY <3>1
  <2>3. /\ InTx' = InTx - 1 /\ Taken' = Taken + 1 /\ Taken' \in 1..Len(queued)
        /\ sTx.buf[S!next(sTx.tail)] = queued[Taken']
        /\ \A i \in 1..InTx' : sTx'.buf[Place(sTx'.tail, i + 1, Size)] = queued'[Taken' + i]
    BY <2>1, <2>2, TakeMoves
  <2>4. /\ port'.outgoing = queued'[Taken'] /\ port'.shifts = 0 /\ port'.txInUse
        /\ port'.bitCounter = 0
    BY <1>1, <2>1, <2>3, LineFacts DEF PortType
  <2>5. Begun(Taken - 1)' = Begun(Taken)
    <3>1. Taken' - 1 = Taken
      BY <2>3, OutFacts
    <3> QED BY <3>1 DEF Begun
  <2>6. out' = Begun(Taken) \o SubSeq(S!Frame(queued'[Taken']), 1, 1)
    <3>1. Begun(Taken) \in Seq(Part) /\ queued[Taken'] \in Nat
      BY <2>3, OutFacts, BegunIsSeq
    <3>2. Append(Begun(Taken), <<queued[Taken'], 0>>)
            = Begun(Taken) \o SubSeq(S!Frame(queued[Taken']), 1, 1)
      BY <3>1, FirstPart
    <3> QED BY <1>3, <2>1, <2>3, <3>2
  <2>7. InTx' <= Len(queued') /\ Taken' > 0
    BY <2>2, <2>3, OutFacts
  <2>8. 0 + 1 = 1 /\ 0 < Bits
    BY SerialFacts
  <2> QED BY <1>1, <2>3, <2>4, <2>5, <2>6, <2>7, <2>8 DEF OutInv
<1> QED BY <1>4, <1>5

LEMMA InterruptOut ==
  ASSUME LineInv, OutInv, S!am_stimer_cmpr7_isr
  PROVE  OutInv'
<1>1. CASE Waiting
  <2>1. /\ UNCHANGED <<sTx, queued, out, sW>> /\ PortTypes /\ ~port.txInUse
        /\ sW.at \notin {"take", "begin"}
        /\ \/ port' = port
           \/ port' = [port EXCEPT !.bitCounter = Bits, !.timed = FALSE, !.rxInUse = FALSE]
    BY <1>1 DEF LineInv, Waiting, S!am_stimer_cmpr7_isr, S!rxEndOfByte, S!sketchVars
  <2>2. port'.txInUse = port.txInUse
    BY <2>1, LineFacts DEF PortType
  <2> QED BY <2>1, <2>2, OutKept
<1>2. CASE Sending
  <2>1. PortTypes /\ queued' = queued /\ sW' = sW
    BY <1>2, InterruptHandles DEF LineInv
  <2> DEFINE c == port.bitCounter
             b == queued[Taken]
  <2>2. /\ c \in Nat /\ c < FrameLength /\ b \in Nat /\ Bits \in Nat \ {0}
        /\ FrameLength = Bits + (IF Parity THEN 3 ELSE 2) /\ Parity \in BOOLEAN
        /\ port.shifts = IF c < Bits THEN c ELSE Bits
    BY <1>2, SendingOut, SerialFacts DEF FrameLength
  <2>3. PICK k \in Nat, m \in Nat : k = c + 1 /\ m = k + 1
    BY <2>2
  <2> HIDE DEF c, b
  <2>4. /\ \A i \in 1..Bits : S!Frame(b)[i + 1] = <<b, i>>
        /\ Parity => S!Frame(b)[Bits + 2] = <<b, "parity">>
        /\ S!Frame(b)[FrameLength] = <<b, "stop">>
    BY <2>2, FrameIs
  <2>5. CASE c < Bits /\ SendsPart(port.shifts + 1, port.shifts + 1)
    <3>1. k \in 1..Bits /\ k < FrameLength /\ port.shifts + 1 = k
      BY <2>2, <2>3, <2>5
    <3>2. S!Frame(b)[m] = <<b, k>>
      BY <2>3, <2>4, <3>1
    <3>3. SendsPart(k, k) /\ k = IF k < Bits THEN k ELSE Bits
      <4>1. SendsPart(k, k)
        BY <2>5, <3>1 DEF SendsPart
      <4>2. k = IF k < Bits THEN k ELSE Bits
        BY <2>2, <3>1
      <4> QED BY <4>1, <4>2
    <3>4. k = port.bitCounter + 1
      BY <2>3 DEF c
    <3>5. <<queued[Taken], k>> = S!Frame(queued[Taken])[m]
      BY <3>2 DEF b
    <3> QED BY <2>1, <2>3, <3>1, <3>3, <3>4, <3>5, <1>2, PartOut
  <2>6. CASE c = Bits /\ SendsPart(IF Parity THEN "parity" ELSE "stop", port.shifts)
    <3> DEFINE part == IF Parity THEN "parity" ELSE "stop"
    <3>1. k < FrameLength /\ port.shifts = (IF k < Bits THEN k ELSE Bits)
      BY <2>2, <2>3, <2>6
    <3>2. S!Frame(b)[m] = <<b, part>>
      <4>1. m = Bits + 2 /\ (~Parity => m = FrameLength)
        BY <2>2, <2>3, <2>6
      <4> QED BY <2>4, <4>1
    <3>3. SendsPart(part, port.shifts) /\ k = port.bitCounter + 1
      BY <2>3, <2>6 DEF c
    <3>4. <<queued[Taken], part>> = S!Frame(queued[Taken])[m]
      BY <3>2 DEF b
    <3> HIDE DEF part
    <3> QED BY <2>1, <2>3, <3>1, <3>3, <3>4, <1>2, PartOut
  <2>7. CASE c = Bits + 1 /\ Parity /\ SendsPart("stop", port.shifts)
    <3>1. k < FrameLength /\ port.shifts = (IF k < Bits THEN k ELSE Bits) /\ m = FrameLength
      BY <2>2, <2>3, <2>7
    <3>2. <<queued[Taken], "stop">> = S!Frame(queued[Taken])[m] /\ k = port.bitCounter + 1
      BY <2>3, <2>4, <3>1 DEF b, c
    <3> QED BY <2>1, <2>3, <2>7, <3>1, <3>2, <1>2, PartOut
  <2>8. CASE SendsNext
    BY <1>2, <2>1, <2>8, FrameOut
  <2> QED BY <1>2, <2>1, <2>5, <2>6, <2>7, <2>8, InterruptHandles DEF c
<1>3. ~Claimed
  BY DEF S!am_stimer_cmpr7_isr, S!Preempted, Claimed
<1> QED BY <1>1, <1>2, <1>3 DEF LineInv

LEMMA OutNext ==
  ASSUME LineInv, OutInv, "frame" \notin broken', [S!Next]_(S!vars)
  PROVE  OutInv'
<1>1. PortTypes
  BY DEF LineInv
<1>2. CASE UNCHANGED S!vars
  BY <1>2 DEF S!vars, OutInv, InTx, Taken, Begun
<1>3. CASE S!CallWrite \/ S!CheckInUse \/ S!Detach \/ S!TurnOffRX
  <2>1. /\ UNCHANGED <<sTx, queued, out>> /\ sW.at \in {"idle", "check", "detach", "rxoff"}
        /\ port' = port \/ port' = [port EXCEPT !.rxInUse = FALSE]
    BY <1>3 DEF S!CallWrite, S!CheckInUse, S!Detach, S!TurnOffRX, S!At
  <2>2. sW'.at \in {"check", "put", "detach", "rxoff"}
    BY <1>1, <1>3, LineFacts
       DEF S!CallWrite, S!CheckInUse, S!Detach, S!TurnOffRX, S!At, CallOfWrite
  <2>3. /\ port'.txInUse = port.txInUse /\ port'.bitCounter = port.bitCounter
        /\ port'.shifts = port.shifts /\ port'.outgoing = port.outgoing
    BY <1>1, <2>1, LineFacts DEF PortType
  <2>4. port'.txInUse => port.txInUse
    BY <2>3
  <2> QED BY <2>1, <2>2, <2>3, <2>4, OutKept
<1>4. CASE S!read
  <2>1. UNCHANGED <<sTx, queued, out, port, sW>> /\ sW.at = "idle"
    BY <1>4 DEF S!read
  <2> QED BY <2>1, OutKept
<1>5. CASE S!Compare \/ S!PeerBegins \/ S!PeerEnds
  <2>1. /\ UNCHANGED <<sTx, queued, out, sW>> /\ (port.txInUse => port' = port)
        /\ port'.txInUse = port.txInUse
    BY <1>5, EdgeLine, TypesNext DEF LineInv, S!Next
  <2>2. InTx' = InTx /\ Taken' = Taken
    BY <2>1 DEF InTx, Taken
  <2>3. Begun(Taken)' = Begun(Taken) /\ Begun(Taken - 1)' = Begun(Taken - 1)
    BY <2>1, <2>2 DEF Begun
  <2>4. sW.at = "begin" => port.txInUse
    BY DEF LineInv, Waiting, Claimed, Sending
  <2> QED BY <2>1, <2>2, <2>3, <2>4 DEF OutInv
<1> QED BY <1>2, <1>3, <1>4, <1>5, PutOut, StartOut, InterruptOut DEF S!Next, S!write

LEMMA OutInit ==
  ASSUME S!Init
  PROVE  OutInv
<1>1. /\ sTx = S!EmptyRing /\ queued = <<>> /\ out = <<>> /\ ~port.txInUse /\ sW.at = "idle"
  BY DEF S!Init
<1>2. InTx = 0
  BY <1>1, SerialFacts DEF InTx, Apart, S!EmptyRing
<1>3. Len(queued) = 0 /\ Taken = 0
  BY <1>1, <1>2 DEF Taken
<1>4. Begun(0) = <<>>
  <2>1. SubSeq(queued, 1, 0) = <<>>
    BY SubSeqEmpty
  <2> QED BY <2>1, FramesOfNone DEF Begun
<1> QED BY <1>1, <1>2, <1>3, <1>4 DEF OutInv

LEMMA BegunIsPrefix ==
  ASSUME NEW q \in Seq(Nat), NEW n \in Nat, n <= Len(q)
  PROVE  S!IsPrefix(FramesOf(SubSeq(q, 1, n)), FramesOf(q))
<1> DEFINE first == FramesOf(SubSeq(q, 1, n))
<1>1. first \in Seq(Part) /\ Len(q) \in Nat
  BY FramesOfIsSeq
<1>2. CASE n = Len(q)
  <2>1. first = FramesOf(q)
    BY <1>2, SubSeqFull
  <2>2. Len(first) \in Nat /\ Len(first) <= Len(first)
    <3> HIDE DEF first
    <3> QED BY <1>1
  <2> HIDE DEF first
  <2>3. S!IsPrefix(first, first)
    BY <2>2 DEF S!IsPrefix
  <2> QED BY <2>1, <2>3 DEF first
<1>3. CASE n # Len(q)
  <2>1. PICK m \in Nat : m = n + 1
    OBVIOUS
  <2>2. m <= Len(q) /\ 0 \in 0..FrameLength
    BY <1>1, <1>3, <2>1, SerialFacts DEF FrameLength
  <2>3. first = first \o SubSeq(S!Frame(q[m]), 1, 0)
    <3>1. SubSeq(S!Frame(q[m]), 1, 0) = <<>>
      BY SubSeqEmpty
    <3> HIDE DEF first
    <3> QED BY <1>1, <3>1, ConcatEmptySeq
  <2> QED BY <2>1, <2>2, <2>3, WireIsPrefix
<1> QED BY <1>2, <1>3

LEMMA OutIsPrefix ==
  ASSUME LineInv, OutInv
  PROVE  S!IsPrefix(out, FramesOf(queued))
<1>1. queued \in Seq(Nat) /\ Taken \in Nat /\ Taken <= Len(queued)
  BY OutFacts
<1>2. CASE ~port.txInUse \/ sW.at = "take"
  <2>1. out = Begun(Taken)
    BY <1>2 DEF OutInv
  <2> QED BY <1>1, <2>1, BegunIsPrefix DEF Begun
<1>3. CASE sW.at = "begin"
  <2>1. Taken > 0 /\ out = Begun(Taken - 1)
    BY <1>3 DEF OutInv
  <2>2. PICK n \in Nat : n = Taken - 1
    BY <1>1, <2>1
  <2>3. n <= Len(queued) /\ out = Begun(n)
    BY <1>1, <2>1, <2>2
  <2> QED BY <1>1, <2>3, BegunIsPrefix DEF Begun
<1>4. CASE port.txInUse /\ sW.at \notin {"take", "begin"}
  <2>1. Sending
    BY <1>4 DEF LineInv, Waiting, Claimed
  <2>2. PICK n \in Nat : n = Taken - 1
    BY <2>1, SendingOut
  <2>3. out = Begun(n) \o SubSeq(S!Frame(queued[Taken]), 1, port.bitCounter + 1)
    BY <2>1, <2>2, SendingOut
  <2>4. PICK k \in Nat : k = port.bitCounter + 1
    BY <2>1, SendingOut
  <2>5. k \in 0..FrameLength /\ Taken = n + 1
    BY <1>1, <2>1, <2>2, <2>4, SendingOut
  <2> DEFINE m == Taken
  <2>6. /\ m \in Nat /\ m = n + 1 /\ m <= Len(queued)
        /\ out = FramesOf(SubSeq(queued, 1, n)) \o SubSeq(S!Frame(queued[m]), 1, k)
    BY <1>1, <2>3, <2>4, <2>5 DEF Begun
  <2> HIDE DEF m
  <2> QED BY <1>1, <2>5, <2>6, WireIsPrefix
<1> QED BY <1>2, <1>3, <1>4

LEMMA FramesAre == S!Frames = FramesOf(queued)
BY DEF S!Frames, FramesOf

(* The frames of the bytes that were written are on the wire whole and in  *)
(* order, whatever the interrupt and the peer do between any two steps of  *)
(* write(), until one of four steps disturbs a frame                       *)
(* (SoftwareSerial.cpp:219-251, 605-700).                                  *)
THEOREM FramesInOrder == S!Spec => []SerialSentInOrder
<1> DEFINE Inv == PortTypes /\ ("frame" \in broken \/ (LineInv /\ OutInv))
<1>1. S!Init => Inv
  BY LineInit, OutInit, TypesInit
<1>2. Inv /\ [S!Next]_(S!vars) => Inv'
  BY TypesNext, BrokenStays, LineNext, OutNext
<1>3. Inv => SerialSentInOrder
  BY OutIsPrefix, FramesAre DEF SerialSentInOrder, S!SentInOrder
<1> HIDE DEF Inv
<1> QED BY <1>1, <1>2, <1>3, PTL DEF S!Spec

(* When the port is quiet every byte has gone, so that flush() may come    *)
(* back, and the port listens (SoftwareSerial.cpp:195-200, 664), with the  *)
(* same exception.                                                         *)
THEOREM QuietWhenSent == S!Spec => []SerialQuietMeansSent
<1> DEFINE Inv == PortTypes /\ ("frame" \in broken \/ (LineInv /\ OutInv))
<1>1. S!Init => Inv
  BY LineInit, OutInit, TypesInit
<1>2. Inv /\ [S!Next]_(S!vars) => Inv'
  BY TypesNext, BrokenStays, LineNext, OutNext
<1>3. Inv => SerialQuietMeansSent
  <2>1. SUFFICES ASSUME LineInv, OutInv, sW.at = "idle", ~port.txInUse
                 PROVE  out = FramesOf(queued) /\ pci
    BY FramesAre DEF SerialQuietMeansSent, S!QuietMeansSent
  <2>2. pci /\ InTx = 0
    BY <2>1 DEF LineInv, Waiting, Claimed, Sending
  <2>3. queued \in Seq(Nat) /\ Taken = Len(queued)
    BY <2>1, <2>2, OutFacts
  <2>4. out = Begun(Taken)
    BY <2>1 DEF OutInv
  <2>5. SubSeq(queued, 1, Len(queued)) = queued
    BY <2>3, SubSeqFull
  <2> QED BY <2>2, <2>3, <2>4, <2>5 DEF Begun
<1> HIDE DEF Inv
<1> QED BY <1>1, <1>2, <1>3, PTL DEF S!Spec

-----------------------------------------------------------------------------
(* The receiver.                                                           *)

LEMMA EarInit == S!Init => EarInv
BY TypesInit DEF S!Init, EarInv, Silent, AtRest, NotHearing

LEMMA CallEar ==
  ASSUME EarInv, PortTypes', "duplex" \notin broken', S!write
  PROVE  EarInv'
<1> USE LineFacts DEF EarInv
<1>1. CASE S!CallWrite
  <2>1. /\ UNCHANGED <<port, timer, pci, peer, seen>> /\ sW.at = "idle" /\ ~port.rxInUse
        /\ sW' = [at |-> "check", n |-> sW.n + 1]
    BY <1>1 DEF S!CallWrite, S!Receiving, S!Broken
  <2>2. Silent => Silent'
    BY <2>1 DEF Silent, AtRest, NotHearing
  <2>3. Sending /\ NotHearing => (Sending /\ NotHearing)'
    BY <2>1 DEF Sending, Armed, NotHearing
  <2> QED BY <2>1, <2>2, <2>3 DEF Hearing, Deaf
<1>2. CASE S!CheckInUse
  <2>1. /\ UNCHANGED <<port, timer, pci, peer, seen>> /\ sW.at = "check"
        /\ sW' = [sW EXCEPT !.at = IF port.txInUse THEN "put" ELSE "detach"]
    BY <1>2 DEF S!CheckInUse, S!At
  <2>2. sW'.at = IF port.txInUse THEN "put" ELSE "detach"
    BY <2>1 DEF CallOfWrite
  <2>3. Silent => Silent'
    BY <2>1, <2>2 DEF Silent, AtRest, NotHearing
  <2>4. Sending /\ NotHearing => (Sending /\ NotHearing)'
    BY <2>1, <2>2 DEF Sending, Armed, NotHearing
  <2> QED BY <2>1, <2>3, <2>4 DEF Hearing, Deaf
<1>3. CASE S!Detach
  <2>1. /\ UNCHANGED <<port, timer, peer, seen>>
        /\ sW.at = "detach" /\ sW' = [sW EXCEPT !.at = "rxoff"]
    BY <1>3 DEF S!Detach, S!At
  <2>2. sW'.at = "rxoff"
    BY <2>1 DEF CallOfWrite
  <2>3. Silent
    BY <2>1 DEF Hearing, Deaf, Sending
  <2> QED BY <2>1, <2>2, <2>3 DEF Silent, AtRest, NotHearing
<1>4. CASE S!TurnOffRX
  <2>1. /\ UNCHANGED <<timer, peer, seen>> /\ sW.at = "rxoff" /\ sW' = [sW EXCEPT !.at = "put"]
        /\ port' = [port EXCEPT !.rxInUse = FALSE]
    BY <1>4 DEF S!TurnOffRX, S!At
  <2>2. /\ sW'.at = "put" /\ port'.txInUse = port.txInUse /\ ~port'.rxInUse
        /\ port'.timed = port.timed
    BY <2>1 DEF CallOfWrite, PortType
  <2>3. Silent
    BY <2>1 DEF Hearing, Deaf, Sending
  <2> QED BY <2>1, <2>2, <2>3 DEF Silent, AtRest, NotHearing
<1>5. CASE S!Put
  <2>1. /\ UNCHANGED <<port, timer, pci, peer, seen>>
        /\ sW.at = "put" /\ sW' = [sW EXCEPT !.at = "claim"]
    BY <1>5 DEF S!Put, S!At
  <2>2. sW'.at = "claim"
    BY <2>1 DEF CallOfWrite
  <2>3. Silent => Silent'
    BY <2>1, <2>2 DEF Silent, AtRest, NotHearing
  <2>4. Sending /\ NotHearing => (Sending /\ NotHearing)'
    BY <2>1, <2>2 DEF Sending, Armed, NotHearing
  <2> QED BY <2>1, <2>3, <2>4 DEF Hearing, Deaf
<1>6. CASE S!Claim
  <2>1. UNCHANGED <<timer, pci, peer, seen>> /\ sW.at = "claim"
    BY <1>6 DEF S!Claim, S!At
  <2>2. CASE port.txInUse
    <3>1. port' = port /\ sW' = [sW EXCEPT !.at = "idle"]
      BY <1>6, <2>2 DEF S!Claim
    <3>2. sW'.at = "idle"
      BY <3>1 DEF CallOfWrite
    <3>3. Sending /\ NotHearing
      BY <2>1, <2>2 DEF Silent, Hearing, Deaf
    <3> QED BY <2>1, <3>1, <3>2, <3>3 DEF Sending, Armed, NotHearing
  <2>3. CASE ~port.txInUse
    <3>1. port' = [port EXCEPT !.txInUse = TRUE] /\ sW' = [sW EXCEPT !.at = "take"]
      BY <1>6, <2>3 DEF S!Claim
    <3>2. /\ sW'.at = "take" /\ port'.txInUse
          /\ port'.rxInUse = port.rxInUse /\ port'.timed = port.timed
      BY <3>1 DEF CallOfWrite, PortType
    <3>3. Silent
      BY <2>1, <2>3 DEF Hearing, Deaf, Sending
    <3> QED BY <2>1, <3>2, <3>3 DEF Silent, Deaf, AtRest, NotHearing
  <2> QED BY <2>2, <2>3
<1>7. CASE S!Take
  <2>1. /\ UNCHANGED <<timer, pci, peer, seen>>
        /\ sW.at = "take" /\ sW' = [sW EXCEPT !.at = "begin"]
        /\ port' = [port EXCEPT !.outgoing = sTx.buf[S!next(sTx.tail)], !.shifts = 0]
    BY <1>7 DEF S!Take, S!Taken, S!At
  <2>2. Deaf
    BY <2>1 DEF Silent, Hearing, Sending
  <2>3. /\ sW'.at = "begin" /\ port'.txInUse = port.txInUse
        /\ port'.rxInUse = port.rxInUse /\ port'.timed = port.timed
    BY <2>1 DEF CallOfWrite, PortType
  <2> QED BY <2>1, <2>2, <2>3 DEF Deaf, AtRest, NotHearing
<1>8. CASE S!Begin
  <2>1. /\ UNCHANGED <<pci, peer, seen>> /\ sW.at = "begin" /\ sW' = [sW EXCEPT !.at = "idle"]
        /\ port' = [port EXCEPT !.bitCounter = 0]
        /\ timer' = [set |-> "tx", flag |-> FALSE, nvic |-> TRUE]
    BY <1>8 DEF S!Begin, S!beginTX, S!SetForTX, S!At
  <2>2. Deaf
    BY <2>1 DEF Silent, Hearing, Sending
  <2>3. /\ sW'.at = "idle" /\ port'.bitCounter = 0 /\ port'.txInUse = port.txInUse
        /\ port'.rxInUse = port.rxInUse /\ port'.timed = port.timed
    BY <2>1 DEF CallOfWrite, PortType
  <2> QED BY <2>1, <2>2, <2>3 DEF Deaf, Sending, Armed, AtRest, NotHearing
<1> QED BY <1>1, <1>2, <1>3, <1>4, <1>5, <1>6, <1>7, <1>8 DEF S!write

LEMMA CompareEar ==
  ASSUME EarInv, PortTypes', S!Compare
  PROVE  EarInv'
<1> USE LineFacts DEF EarInv
<1>1. /\ UNCHANGED <<port, pci, sW, peer, seen>> /\ timer.set # "none"
      /\ (timer.set = "rx" /\ S!ByteComesIn => peer.edges = 0)
      /\ timer' = [timer EXCEPT !.set = "none", !.flag = TRUE]
  BY DEF S!Compare, S!sketchVars
<1>2. timer'.set = "none" /\ timer'.flag /\ timer'.nvic = timer.nvic
  BY <1>1 DEF TimerType
<1>3. CASE Hearing
  <2>1. ~timer.flag /\ timer.set = "rx"
    BY <1>1, <1>3 DEF Hearing, Armed
  <2>2. peer.edges # 1
    <3>1. ASSUME peer.edges = 1 PROVE FALSE
      <4>1. seen = <<<<peer.n, 1>>>>
        BY <1>3, <3>1 DEF Hearing
      <4>2. seen # <<>> /\ Head(seen)[2] = 1
        BY <4>1
      <4> QED BY <1>1, <2>1, <3>1, <4>2 DEF S!ByteComesIn
    <3> QED BY <3>1
  <2> QED BY <1>1, <1>2, <1>3, <2>1, <2>2 DEF Hearing, Armed
<1>4. CASE Sending /\ NotHearing
  BY <1>1, <1>2, <1>4 DEF Sending, Armed, NotHearing
<1> QED BY <1>1, <1>3, <1>4 DEF Silent, Deaf, AtRest

LEMMA TwoEdges == \A a, b : Append(<<a>>, b) = <<a, b>>
<1> TAKE a, b
<1> DEFINE T == {a, b}
<1>1. <<a>> \in Seq(T) /\ b \in T /\ <<a, b>> \in Seq(T)
  OBVIOUS
<1>2. Len(<<a>>) = 1 /\ <<a>>[1] = a /\ Len(<<a, b>>) = 2 /\ <<a, b>>[1] = a /\ <<a, b>>[2] = b
  OBVIOUS
<1> HIDE DEF T
<1>3. /\ Append(<<a>>, b) \in Seq(T) /\ Len(Append(<<a>>, b)) = 2
      /\ Append(<<a>>, b)[1] = a /\ Append(<<a>>, b)[2] = b
  BY <1>1, <1>2, AppendProperties
<1>4. /\ Len(Append(<<a>>, b)) = Len(<<a, b>>)
      /\ \A i \in 1 .. Len(Append(<<a>>, b)) : Append(<<a>>, b)[i] = <<a, b>>[i]
  <2>1. \A i \in 1 .. 2 : i = 1 \/ i = 2
    OBVIOUS
  <2> QED BY <1>2, <1>3, <2>1
<1> QED BY <1>1, <1>3, <1>4, SeqEqual

LEMMA PeerEar ==
  ASSUME EarInv, PortTypes', "duplex" \notin broken', S!PeerBegins \/ S!PeerEnds
  PROVE  EarInv'
<1> USE LineFacts DEF EarInv
<1>1. CASE S!PeerBegins
  <2>1. /\ UNCHANGED <<pci, sTx, sRx, sW, reading, queued, heard, sGot>>
        /\ peer.edges = 0 /\ peer.n < MaxHeard /\ ~port.txInUse /\ sW.at = "idle"
        /\ peer' = [edges |-> 1, n |-> peer.n + 1] /\ ~S!ByteComesIn
    BY <1>1 DEF S!PeerBegins, S!Edge, S!sketchVars
  <2>2. Silent /\ pci /\ ~port.timed
    <3>1. ~Hearing
      <4>1. ASSUME Hearing PROVE FALSE
        <5>1. seen = <<<<peer.n, 1>>, <<peer.n, 2>>>> /\ port.rxInUse
          BY <2>1, <4>1 DEF Hearing
        <5>2. seen # <<>> /\ Head(seen)[2] = 1
          BY <5>1
        <5> QED BY <2>1, <5>1, <5>2 DEF S!ByteComesIn
      <4> QED BY <4>1
    <3> QED BY <2>1, <3>1 DEF Silent, Deaf, Sending, AtRest, NotHearing
  <2>3. /\ port' = [port EXCEPT !.bitCounter = 0, !.timed = TRUE, !.rxInUse = TRUE]
        /\ timer' = [timer EXCEPT !.set = "rx", !.nvic = TRUE]
        /\ seen' = <<<<peer.n + 1, 1>>>>
    BY <1>1, <2>2 DEF S!PeerBegins, S!Edge, S!rxBit
  <2>4. /\ port' \in PortType /\ port'.timed /\ port'.rxInUse /\ port'.txInUse = port.txInUse
        /\ timer' \in TimerType /\ timer'.set = "rx" /\ timer'.nvic /\ timer'.flag = timer.flag
    BY <2>3 DEF PortType, TimerType
  <2>5. peer.n \in 0..MaxHeard
    OBVIOUS
  <2>6. /\ peer' \in [edges : 0..1, n : 0..MaxHeard] /\ peer'.edges = 1 /\ peer'.n = peer.n + 1
        /\ peer'.n \in 1..MaxHeard
    BY <2>1, <2>5, SerialFacts
  <2>8. ~timer.flag
    BY <2>1, <2>2 DEF Silent, AtRest
  <2>9. Hearing'
    BY <2>1, <2>2, <2>3, <2>4, <2>6, <2>8 DEF Hearing, Armed
  <2> QED BY <2>9
<1>2. CASE S!PeerEnds
  <2>1. /\ UNCHANGED <<pci, sTx, sRx, sW, reading, queued, heard, sGot>>
        /\ peer.edges = 1 /\ peer' = [peer EXCEPT !.edges = 0]
    BY <1>2 DEF S!PeerEnds, S!Edge, S!sketchVars
  <2>2. Hearing
    BY <2>1 DEF Silent, Deaf, Sending, AtRest, NotHearing
  <2>3. /\ port' = [port EXCEPT !.bitCounter = port.bitCounter + 1]
        /\ timer' = timer /\ seen' = Append(seen, <<peer.n, 2>>)
    BY <1>2, <2>2 DEF S!PeerEnds, S!Edge, S!rxBit, Hearing, PortType
  <2>4. seen' = <<<<peer.n, 1>>, <<peer.n, 2>>>>
    <3>1. seen = <<<<peer.n, 1>>>>
      BY <2>1, <2>2 DEF Hearing
    <3> QED BY <2>3, <3>1, TwoEdges
  <2>5. /\ port' \in PortType /\ port'.timed = port.timed /\ port'.rxInUse = port.rxInUse
        /\ port'.txInUse = port.txInUse
    <3>1. port.bitCounter + 1 \in Nat
      BY DEF PortType
    <3> QED BY <2>3, <3>1 DEF PortType
  <2>6. peer' \in [edges : 0..1, n : 0..MaxHeard] /\ peer'.edges = 0 /\ peer'.n = peer.n
    <3>1. peer \in [edges : 0..1, n : 0..MaxHeard] /\ 0 \in 0..1
      OBVIOUS
    <3> HIDE DEF EarInv
    <3> QED BY <2>1, <3>1
  <2>8. Hearing'
    <3>1. Armed("rx")'
      BY <2>1, <2>2, <2>3 DEF Hearing, Armed
    <3>2. /\ peer'.n \in 1..MaxHeard /\ peer'.edges # 1 /\ sW'.at = "idle" /\ pci'
          /\ seen' = <<<<peer'.n, 1>>, <<peer'.n, 2>>>>
      BY <2>1, <2>2, <2>4, <2>6 DEF Hearing
    <3>3. ~port'.txInUse /\ port'.rxInUse /\ port'.timed
      BY <2>2, <2>5 DEF Hearing
    <3> HIDE DEF EarInv
    <3> QED BY <3>1, <3>2, <3>3 DEF Hearing
  <2> QED BY <2>8
<1> QED BY <1>1, <1>2

(* The byte that has been heard is the byte of the peer.                   *)
LEMMA HeardByte ==
  ASSUME EarInv, Hearing, timer.flag
  PROVE  S!incomingByte = peer.n /\ peer.n \in 1..MaxHeard /\ peer.edges = 0
<1>1. /\ peer.n \in 1..MaxHeard /\ seen = <<<<peer.n, 1>>, <<peer.n, 2>>>> /\ peer.edges # 1
  BY DEF Hearing
<1>2. peer.edges = 0
  BY <1>1, LineFacts DEF EarInv
<1>3. Head(seen)[1] = peer.n
  BY <1>1
<1> QED BY <1>1, <1>2, <1>3 DEF S!incomingByte

(* What the interrupt of the timer does, in either of its uses.            *)
LEMMA InterruptHears ==
  ASSUME EarInv, PortTypes', port.rxInUse, S!am_stimer_cmpr7_isr
  PROVE  EarInv' /\ Hearing /\ Silent' /\ heard' = Append(heard, peer.n) /\ peer' = peer
<1> USE LineFacts DEF EarInv
<1>1. /\ UNCHANGED <<reading, peer, queued, sGot, pci, sTx, sW, out>>
      /\ timer.flag /\ timer.nvic
      /\ heard' = Append(heard, S!incomingByte)
      /\ port' = [port EXCEPT !.bitCounter = Bits, !.timed = FALSE, !.rxInUse = FALSE]
      /\ timer' = [timer EXCEPT !.flag = FALSE, !.nvic = FALSE]
      /\ seen' = <<>>
  BY DEF S!am_stimer_cmpr7_isr, S!rxEndOfByte, S!Preempted, S!sketchVars
<1>2. Hearing
  BY DEF Silent, Deaf, Sending, AtRest, NotHearing
<1>3. S!incomingByte = peer.n /\ peer.n \in Nat /\ peer.edges = 0
  BY <1>1, <1>2, HeardByte
<1>7. /\ ~port'.timed /\ ~port'.rxInUse /\ port'.txInUse = port.txInUse
  BY <1>1, SerialFacts DEF PortType
<1>8. timer' = [set |-> "none", flag |-> FALSE, nvic |-> FALSE]
  <2>1. timer.set = "none"
    BY <1>1, <1>2 DEF Hearing, Armed
  <2> QED BY <1>1, <2>1 DEF TimerType
<1>10. Silent'
  BY <1>1, <1>2, <1>3, <1>7, <1>8 DEF Hearing, Silent, AtRest, NotHearing
<1> QED BY <1>1, <1>2, <1>3, <1>10

LEMMA InterruptEar ==
  ASSUME EarInv, PortTypes', S!am_stimer_cmpr7_isr
  PROVE  EarInv'
<1> USE LineFacts DEF EarInv
<1>1. CASE port.rxInUse
  BY <1>1, InterruptHears
<1>2. CASE ~port.rxInUse
  <2>1. Sending /\ NotHearing /\ timer.set = "none" /\ timer.flag /\ timer.nvic
    BY <1>2 DEF S!am_stimer_cmpr7_isr, S!Preempted, Silent, Deaf, Hearing, AtRest, Sending, Armed
  <2>2. UNCHANGED <<sW, peer, seen>>
    BY <2>1, InterruptHandles
  <2>3. ASSUME NEW part, NEW shifted \in Nat, SendsPart(part, shifted),
               port.bitCounter + 1 < FrameLength
        PROVE  EarInv'
    <3>1. /\ port' = [port EXCEPT !.bitCounter = port.bitCounter + 1, !.shifts = shifted]
          /\ timer' = [timer EXCEPT !.set = "tx", !.flag = FALSE]
      BY <2>3 DEF SendsPart
    <3>2. port.bitCounter + 1 \in Nat
      BY DEF PortType
    <3>3. /\ port'.bitCounter = port.bitCounter + 1 /\ port'.timed = port.timed
          /\ port'.txInUse = port.txInUse /\ port'.rxInUse = port.rxInUse
          /\ timer'.set = "tx" /\ ~timer'.flag /\ timer'.nvic
      BY <2>1, <3>1, <3>2 DEF PortType, TimerType
    <3> QED BY <2>1, <2>2, <2>3, <3>3 DEF Sending, Armed, NotHearing
  <2>4. port.shifts \in Nat /\ port.shifts + 1 \in Nat
    BY DEF PortType
  <2>5. CASE port.bitCounter < Bits /\ SendsPart(port.shifts + 1, port.shifts + 1)
    <3>1. port.bitCounter + 1 < FrameLength
      BY <2>5, SerialFacts DEF FrameLength, PortType
    <3> QED BY <2>3, <2>4, <2>5, <3>1
  <2>6. CASE port.bitCounter = Bits /\ SendsPart(IF Parity THEN "parity" ELSE "stop", port.shifts)
    <3>1. port.bitCounter + 1 < FrameLength
      BY <2>6, SerialFacts DEF FrameLength, PortType
    <3> QED BY <2>3, <2>4, <2>6, <3>1
  <2>7. CASE port.bitCounter = Bits + 1 /\ Parity /\ SendsPart("stop", port.shifts)
    <3>1. port.bitCounter + 1 < FrameLength
      BY <2>7, SerialFacts DEF FrameLength, PortType
    <3> QED BY <2>3, <2>4, <2>7, <3>1
  <2>8. CASE SendsNext
    <3>1. CASE sTx.tail = sTx.head
      <4>1. /\ timer' = [timer EXCEPT !.flag = FALSE, !.nvic = FALSE]
            /\ port' = [port EXCEPT !.txInUse = FALSE, !.timed = FALSE] /\ pci' = TRUE
        BY <2>8, <3>1 DEF SendsNext, S!NextByte, S!listen
      <4>2. /\ timer' = [set |-> "none", flag |-> FALSE, nvic |-> FALSE]
            /\ ~port'.txInUse /\ ~port'.timed /\ port'.rxInUse = port.rxInUse
        BY <2>1, <4>1 DEF TimerType, PortType
      <4> QED BY <2>1, <2>2, <4>1, <4>2 DEF Sending, Silent, AtRest, NotHearing
    <3>2. CASE sTx.tail # sTx.head
      <4>1. /\ port' = [[port EXCEPT !.outgoing = sTx.buf[S!next(sTx.tail)], !.shifts = 0]
                          EXCEPT !.bitCounter = 0]
            /\ timer' = [set |-> "tx", flag |-> FALSE, nvic |-> TRUE]
        BY <2>8, <3>2 DEF SendsNext, S!NextByte, S!beginTX, S!Taken, S!SetForTX
      <4>2. /\ port'.bitCounter = 0 /\ port'.txInUse = port.txInUse
            /\ port'.rxInUse = port.rxInUse /\ port'.timed = port.timed
        BY <4>1 DEF PortType
      <4> QED BY <2>1, <2>2, <4>1, <4>2 DEF Sending, Armed, NotHearing
    <3> QED BY <3>1, <3>2
  <2> QED BY <2>1, <2>5, <2>6, <2>7, <2>8, InterruptHandles
<1> QED BY <1>1, <1>2

LEMMA EarNext ==
  ASSUME EarInv, "duplex" \notin broken', [S!Next]_(S!vars)
  PROVE  EarInv'
<1>1. PortTypes'
  BY TypesNext DEF EarInv
<1>2. CASE UNCHANGED S!vars
  BY <1>2 DEF S!vars, EarInv, PortTypes, Silent, Hearing, Deaf, Sending, Armed, AtRest, NotHearing
<1>3. CASE S!read
  <2>1. UNCHANGED <<port, timer, pci, sW, peer, seen>>
    BY <1>3 DEF S!read
  <2> QED BY <1>1, <2>1 DEF EarInv, Silent, Hearing, Deaf, Sending, Armed, AtRest, NotHearing
<1> QED BY <1>1, <1>2, <1>3, CallEar, CompareEar, PeerEar, InterruptEar DEF S!Next

-----------------------------------------------------------------------------
(* What was heard, and what of it is read.                                 *)

LEMMA UptoNext ==
  ASSUME NEW n \in Nat
  PROVE  Upto(n) \in Seq(Nat) /\ Len(Upto(n)) = n /\ Upto(n) \o <<n + 1>> = Upto(n + 1)
<1>1. Upto(n) \in Seq(Nat) /\ Len(Upto(n)) = n /\ Upto(n + 1) \in Seq(Nat) /\ Len(Upto(n + 1)) = n + 1
  BY DEF Upto
<1>2. /\ Upto(n) \o <<n + 1>> \in Seq(Nat) /\ Len(Upto(n) \o <<n + 1>>) = n + 1
      /\ \A i \in 1..n + 1 : (Upto(n) \o <<n + 1>>)[i] = i
  BY <1>1 DEF Upto
<1>3. \A i \in 1..n + 1 : Upto(n + 1)[i] = i
  BY DEF Upto
<1> QED BY <1>1, <1>2, <1>3, SeqEqual, ZenonT(30)

LEMMA HeardFacts ==
  ASSUME EarInv
  PROVE  /\ Heard \in Nat /\ peer.n \in Nat
         /\ port.rxInUse => peer.n = Heard + 1
         /\ ~port.rxInUse => peer.n = Heard
<1>1. peer.n \in Nat /\ (port.rxInUse => peer.n \in 1..MaxHeard)
  <2>1. peer.n \in 0..MaxHeard
    BY LineFacts DEF EarInv
  <2>2. port.rxInUse => peer.n \in 1..MaxHeard
    BY DEF EarInv, Silent, Hearing, Deaf, Sending, AtRest, NotHearing
  <2> QED BY <2>1, <2>2, SerialFacts
<1> QED BY <1>1, SerialFacts DEF Heard

(* What was heard changes at the end of a byte only.                       *)
LEMMA HeardMoves ==
  ASSUME EarInv, "duplex" \notin broken', [S!Next]_(S!vars)
  PROVE  \/ /\ port.rxInUse /\ S!am_stimer_cmpr7_isr
            /\ heard' = Append(heard, peer.n) /\ Heard' = peer.n /\ peer.n = Heard + 1
         \/ heard' = heard /\ Heard' = Heard /\ (S!read \/ UNCHANGED <<sRx, reading, sGot>>)
<1>1. PortTypes
  BY DEF EarInv
<1>2. CASE \/ UNCHANGED S!vars
           \/ S!CallWrite \/ S!CheckInUse \/ S!Detach \/ S!Put \/ S!Claim \/ S!Take \/ S!Begin
           \/ S!read \/ S!Compare
  <2>1. /\ heard' = heard /\ peer' = peer
        /\ S!read \/ UNCHANGED <<sRx, reading, sGot>>
    BY <1>2 DEF S!vars, S!CallWrite, S!CheckInUse, S!Detach, S!Put, S!Claim, S!Take, S!Begin,
       S!read, S!Compare, S!sketchVars
  <2>2. port'.rxInUse = port.rxInUse
    BY <1>1, <1>2, LineFacts DEF S!vars, S!CallWrite, S!CheckInUse, S!Detach, S!Put, S!Claim,
       S!Take, S!Taken, S!Begin, S!beginTX, S!read, S!Compare, S!sketchVars, PortType
  <2> QED BY <2>1, <2>2 DEF Heard
<1>3. CASE S!TurnOffRX
  <2>1. /\ UNCHANGED <<heard, peer, sRx, reading, sGot>> /\ sW.at = "rxoff"
        /\ port' = [port EXCEPT !.rxInUse = FALSE]
    BY <1>3 DEF S!TurnOffRX, S!At
  <2>2. ~port.rxInUse
    BY <2>1 DEF EarInv, Silent, Hearing, Deaf, Sending, AtRest, NotHearing
  <2>3. ~port'.rxInUse
    BY <1>1, <2>1, LineFacts DEF PortType
  <2> QED BY <2>1, <2>2, <2>3 DEF Heard
<1>4. CASE S!PeerBegins
  <2>1. /\ UNCHANGED <<heard, sRx, reading, sGot>> /\ ~port.txInUse
        /\ sW.at = "idle" /\ peer.edges = 0 /\ ~S!ByteComesIn
        /\ peer' = [edges |-> 1, n |-> peer.n + 1]
    BY <1>4 DEF S!PeerBegins, S!Edge, S!sketchVars
  <2>2. pci /\ ~port.timed /\ ~port.rxInUse
    <3>1. ASSUME Hearing PROVE FALSE
      <4>1. seen = <<<<peer.n, 1>>, <<peer.n, 2>>>> /\ port.rxInUse
        BY <2>1, <3>1 DEF Hearing
      <4>2. seen # <<>> /\ Head(seen)[2] = 1
        BY <4>1
      <4> QED BY <2>1, <4>1, <4>2 DEF S!ByteComesIn
    <3> QED BY <2>1, <3>1 DEF EarInv, Silent, Hearing, Deaf, Sending, AtRest, NotHearing
  <2>3. port' = [port EXCEPT !.bitCounter = 0, !.timed = TRUE, !.rxInUse = TRUE]
    BY <1>4, <2>2 DEF S!PeerBegins, S!Edge, S!rxBit
  <2>4. port'.rxInUse /\ peer'.n = peer.n + 1
    BY <1>1, <2>1, <2>3, LineFacts DEF PortType
  <2>5. peer.n \in Nat
    BY HeardFacts
  <2> QED BY <2>1, <2>2, <2>4, <2>5 DEF Heard
<1>5. CASE S!PeerEnds
  <2>1. /\ UNCHANGED <<heard, sRx, reading, sGot>>
        /\ peer.edges = 1 /\ peer' = [peer EXCEPT !.edges = 0]
    BY <1>5 DEF S!PeerEnds, S!Edge, S!sketchVars
  <2>2. pci /\ port.timed /\ port.rxInUse
    BY <2>1 DEF EarInv, Silent, Hearing, Deaf, Sending, AtRest, NotHearing
  <2>3. port' = [port EXCEPT !.bitCounter = port.bitCounter + 1]
    BY <1>1, <1>5, <2>2, LineFacts DEF S!PeerEnds, S!Edge, S!rxBit, PortType
  <2>4. port'.rxInUse = port.rxInUse /\ peer'.n = peer.n
    BY <1>1, <2>1, <2>3, LineFacts DEF PortType
  <2> QED BY <2>1, <2>4 DEF Heard
<1>6. CASE S!am_stimer_cmpr7_isr
  <2>1. CASE port.rxInUse
    <3>1. heard' = Append(heard, peer.n) /\ peer' = peer /\ ~port'.rxInUse
      BY <1>6, <2>1, TypesNext, InterruptHears DEF S!Next, EarInv, Silent, AtRest, NotHearing
    <3> QED BY <1>6, <2>1, <3>1, HeardFacts DEF Heard
  <2>2. CASE ~port.rxInUse
    <3>1. /\ UNCHANGED <<heard, sRx, reading, sGot, peer>> /\ Sending
      <4>1. Sending
        BY <1>6, <2>2 DEF S!am_stimer_cmpr7_isr, S!Preempted, EarInv, Silent, Deaf, Hearing,
           AtRest, Sending
      <4> QED BY <1>1, <1>6, <4>1, InterruptHandles
    <3>2. \/ \E b, x \in Nat : port' = [port EXCEPT !.bitCounter = b, !.shifts = x]
          \/ port' = [port EXCEPT !.txInUse = FALSE, !.timed = FALSE]
          \/ port' = [[port EXCEPT !.outgoing = sTx.buf[S!next(sTx.tail)], !.shifts = 0]
                        EXCEPT !.bitCounter = 0]
      <4>1. port.bitCounter + 1 \in Nat /\ port.shifts \in Nat /\ port.shifts + 1 \in Nat
        BY <1>1, LineFacts DEF PortType
      <4> QED BY <1>1, <1>6, <3>1, <4>1, InterruptHandles, LineFacts
             DEF SendsPart, SendsNext, S!NextByte, S!listen, S!beginTX, S!Taken, BufferType
    <3>3. port'.rxInUse = port.rxInUse
      BY <1>1, <3>2, LineFacts DEF PortType
    <3> QED BY <3>1, <3>3 DEF Heard
  <2> QED BY <2>1, <2>2
<1> QED BY <1>2, <1>3, <1>4, <1>5, <1>6 DEF S!Next, S!write

LEMMA HeardInit ==
  ASSUME S!Init
  PROVE  HeardInv /\ GotInv
<1>1. /\ heard = <<>> /\ ~port.rxInUse /\ peer.n = 0 /\ sRx = S!EmptyRing /\ sGot = <<>>
      /\ ~reading
  BY DEF S!Init
<1>2. Heard = 0 /\ InRx = 0 /\ FirstLeft = 1
  BY <1>1, SerialFacts DEF Heard, InRx, Apart, S!EmptyRing, FirstLeft
<1>3. heard = Upto(0)
  <2>1. Upto(0) \in Seq(Nat) /\ Len(Upto(0)) = 0
    BY UptoNext
  <2> QED BY <1>1, <2>1, EmptySeq
<1>4. Len(sGot) = 0
  BY <1>1
<1> QED BY <1>2, <1>3, <1>4 DEF HeardInv, GotInv, InOrder

LEMMA HeardNext ==
  ASSUME EarInv, HeardInv, "duplex" \notin broken', [S!Next]_(S!vars)
  PROVE  HeardInv'
<1>1. CASE heard' = heard /\ Heard' = Heard
  BY <1>1 DEF HeardInv
<1>2. CASE heard' = Append(heard, peer.n) /\ Heard' = peer.n /\ peer.n = Heard + 1
  <2> DEFINE k == Heard
  <2>1. k \in Nat
    BY HeardFacts
  <2>2. heard = Upto(k) /\ heard' = Append(heard, k + 1) /\ Heard' = k + 1
    BY <1>2 DEF HeardInv
  <2> HIDE DEF k
  <2>3. Upto(k) \in Seq(Nat) /\ Upto(k) \o <<k + 1>> = Upto(k + 1)
    BY <2>1, UptoNext
  <2>4. Append(heard, k + 1) = heard \o <<k + 1>>
    BY <2>1, <2>2, <2>3, AppendIsConcat
  <2> QED BY <2>2, <2>3, <2>4 DEF HeardInv
<1> QED BY <1>1, <1>2, HeardMoves

(* The ring of the receiver.                                               *)
LEMMA RxMoves ==
  ASSUME sRx \in BufferType
  PROVE  /\ InRx \in 0 .. Size - 1
         /\ sRx.head = sRx.tail <=> InRx = 0
         /\ S!next(sRx.head) \in 0 .. Size - 1 /\ S!next(sRx.tail) \in 0 .. Size - 1
         /\ S!next(sRx.head) # sRx.tail => Apart(S!next(sRx.head), sRx.tail, Size) = InRx + 1
         /\ Place(sRx.tail, InRx + 1 + 1, Size) = S!next(sRx.head)
         /\ Place(sRx.tail, 0 + 1, Size) = sRx.tail
         /\ \A i \in 0 .. InRx : Place(sRx.tail, i + 1, Size) \in 0 .. Size - 1
         /\ S!next(sRx.head) # sRx.tail =>
              \A i \in 0 .. InRx : Place(sRx.tail, i + 1, Size) # S!next(sRx.head)
         /\ InRx > 0 => Apart(sRx.head, S!next(sRx.tail), Size) = InRx - 1
         /\ \A i \in 0 .. InRx - 1 :
              Place(S!next(sRx.tail), i + 1, Size) = Place(sRx.tail, i + 1 + 1, Size)
<1> DEFINE n == Size
           h == sRx.head
           t == sRx.tail
<1>1. n \in Nat \ {0, 1} /\ h \in 0 .. n - 1 /\ t \in 0 .. n - 1
  BY SerialFacts DEF BufferType
<1>2. S!next(sRx.head) = After(h, n) /\ S!next(sRx.tail) = After(t, n)
  BY <1>1, RingArithmetic DEF S!next
<1> HIDE DEF n, h, t
<1>3. /\ Apart(h, t, n) \in 0 .. n - 1
      /\ h = t <=> Apart(h, t, n) = 0
      /\ After(h, n) \in 0 .. n - 1 /\ After(t, n) \in 0 .. n - 1
      /\ After(h, n) # t => Apart(After(h, n), t, n) = Apart(h, t, n) + 1
      /\ Place(t, Apart(h, t, n) + 1 + 1, n) = After(h, n)
      /\ Place(t, 0 + 1, n) = t
      /\ Apart(h, t, n) > 0 => Apart(h, After(t, n), n) = Apart(h, t, n) - 1
  BY <1>1 DEF Apart, Place, After
<1>4. /\ \A i \in 0 .. Apart(h, t, n) : Place(t, i + 1, n) \in 0 .. n - 1
      /\ After(h, n) # t => \A i \in 0 .. Apart(h, t, n) : Place(t, i + 1, n) # After(h, n)
  BY <1>1 DEF Apart, Place, After
<1>5. \A i \in 0 .. Apart(h, t, n) - 1 : Place(After(t, n), i + 1, n) = Place(t, i + 1 + 1, n)
  BY <1>1 DEF Apart, Place, After
<1> QED BY <1>2, <1>3, <1>4, <1>5 DEF InRx, n, h, t

LEMMA LeftFacts ==
  ASSUME EarInv
  PROVE  /\ sRx \in BufferType /\ reading \in BOOLEAN /\ sGot \in Seq(Nat) /\ Len(sGot) \in Nat
         /\ InRx \in Nat /\ FirstLeft \in 0..1 /\ Heard \in Nat
         /\ \A i \in 0..InRx : Left(i) \in Nat
         /\ \A k \in 1..Len(sGot) : sGot[k] \in Nat
<1>1. sRx \in BufferType /\ reading \in BOOLEAN /\ sGot \in Seq(Nat)
  BY LineFacts DEF EarInv
<1>2. \A i \in 0..InRx : Left(i) \in Nat
  <2>1. \A i \in 0..InRx : Place(sRx.tail, i + 1, Size) \in 0..Size - 1
    BY <1>1, RxMoves
  <2> QED BY <1>1, <2>1 DEF Left, BufferType
<1>3. InRx \in Nat
  BY <1>1, RxMoves
<1> QED BY <1>1, <1>2, <1>3, HeardFacts, LenProperties, ElementOfSeq DEF FirstLeft

(* The end of a byte puts it behind what waits, if there is room.          *)
LEMMA HeardPuts ==
  ASSUME EarInv, port.rxInUse, S!am_stimer_cmpr7_isr
  PROVE  /\ reading' = reading /\ sGot' = sGot
         /\ \/ sRx' = sRx
            \/ /\ InRx' = InRx + 1
               /\ \A i \in 0..InRx : Left(i)' = Left(i)
               /\ \A j \in Nat : j = InRx + 1 => Left(j)' = peer.n
<1>1. /\ reading' = reading /\ sGot' = sGot /\ timer.flag
      /\ sRx' = IF S!next(sRx.head) # sRx.tail
                THEN [sRx EXCEPT !.buf[S!next(sRx.head)] = S!incomingByte,
                                 !.head = S!next(sRx.head)]
                ELSE sRx
  BY DEF S!am_stimer_cmpr7_isr, S!rxEndOfByte, S!Preempted, S!sketchVars
<1>2. S!incomingByte = peer.n
  BY <1>1, TypesNext, InterruptHears, HeardByte DEF S!Next, EarInv
<1>3. CASE S!next(sRx.head) # sRx.tail
  <2>1. sRx \in BufferType /\ S!next(sRx.head) \in 0..Size - 1
    BY LeftFacts, RxMoves
  <2>2. sRx' = [sRx EXCEPT !.buf[S!next(sRx.head)] = peer.n, !.head = S!next(sRx.head)]
    BY <1>1, <1>2, <1>3
  <2>3. /\ sRx'.head = S!next(sRx.head) /\ sRx'.tail = sRx.tail
        /\ \A k \in 0..Size - 1 : sRx'.buf[k] = IF k = S!next(sRx.head) THEN peer.n ELSE sRx.buf[k]
    BY <2>1, <2>2 DEF BufferType
  <2>4. InRx' = InRx + 1
    BY <1>3, <2>1, <2>3, RxMoves DEF InRx
  <2>5. ASSUME NEW i \in 0..InRx PROVE Left(i)' = Left(i)
    <3>1. /\ Place(sRx.tail, i + 1, Size) \in 0..Size - 1
          /\ Place(sRx.tail, i + 1, Size) # S!next(sRx.head)
      BY <1>3, <2>1, RxMoves
    <3> QED BY <2>3, <3>1 DEF Left
  <2>6. ASSUME NEW j \in Nat, j = InRx + 1 PROVE Left(j)' = peer.n
    <3>1. Place(sRx.tail, j + 1, Size) = S!next(sRx.head)
      BY <2>1, <2>6, RxMoves
    <3> QED BY <2>1, <2>3, <3>1 DEF Left
  <2> QED BY <1>1, <2>4, <2>5, <2>6
<1>4. CASE S!next(sRx.head) = sRx.tail
  BY <1>1, <1>4
<1> QED BY <1>3, <1>4

LEMMA GotKept ==
  ASSUME EarInv, GotInv, UNCHANGED <<sRx, reading, sGot>>, Heard' \in Nat, Heard <= Heard'
  PROVE  GotInv'
<1>1. InRx' = InRx /\ FirstLeft' = FirstLeft /\ InOrder'
  BY DEF InRx, FirstLeft, GotInv, InOrder
<1>2. \A i \in FirstLeft..InRx : Left(i)' = Left(i)
  BY DEF Left
<1>3. \A i \in FirstLeft..InRx : Left(i) \in 1..Heard'
  BY LeftFacts DEF GotInv
<1>4. \A k \in 1..Len(sGot) : sGot[k] <= Heard'
  BY LeftFacts DEF GotInv
<1> QED BY <1>1, <1>2, <1>3, <1>4 DEF GotInv

LEMMA GotHears ==
  ASSUME EarInv, GotInv, port.rxInUse, S!am_stimer_cmpr7_isr,
         Heard' = peer.n, peer.n = Heard + 1
  PROVE  GotInv'
<1>1. Heard' \in Nat /\ Heard \in Nat /\ Heard < Heard' /\ Heard' = Heard + 1
  BY HeardFacts
<1>2. CASE UNCHANGED <<sRx, reading, sGot>>
  BY <1>1, <1>2, GotKept
<1>3. CASE /\ reading' = reading /\ sGot' = sGot
           /\ InRx' = InRx + 1
           /\ \A i \in 0..InRx : Left(i)' = Left(i)
           /\ \A j \in Nat : j = InRx + 1 => Left(j)' = peer.n
  <2>1. FirstLeft' = FirstLeft /\ InOrder'
    BY <1>3 DEF FirstLeft, GotInv, InOrder
  <2>2. ASSUME NEW i \in FirstLeft..InRx + 1
        PROVE  \/ i \in FirstLeft..InRx /\ Left(i)' = Left(i)
               \/ i = InRx + 1 /\ Left(i)' = Heard'
    BY <1>3, LeftFacts
  <2>3. ASSUME NEW i \in FirstLeft..InRx + 1 PROVE Left(i)' \in 1..Heard'
    <3>1. CASE i \in FirstLeft..InRx /\ Left(i)' = Left(i)
      BY <1>1, <3>1, LeftFacts DEF GotInv
    <3>2. CASE Left(i)' = Heard'
      BY <1>1, <3>2
    <3> QED BY <2>2, <3>1, <3>2
  <2>4. ASSUME NEW i \in FirstLeft..InRx + 1, NEW j \in FirstLeft..InRx + 1, i < j
        PROVE  Left(i)' < Left(j)'
    <3>1. i \in FirstLeft..InRx /\ Left(i)' = Left(i) /\ Left(i) \in 1..Heard
      BY <2>2, <2>4, LeftFacts DEF GotInv
    <3>2. CASE j \in FirstLeft..InRx /\ Left(j)' = Left(j)
      BY <2>4, <3>1, <3>2 DEF GotInv
    <3>3. CASE Left(j)' = Heard'
      BY <1>1, <3>1, <3>3
    <3> QED BY <2>2, <3>2, <3>3
  <2>5. ASSUME NEW k \in 1..Len(sGot), NEW i \in FirstLeft..InRx + 1 PROVE sGot[k] < Left(i)'
    <3>1. CASE i \in FirstLeft..InRx /\ Left(i)' = Left(i)
      BY <3>1 DEF GotInv
    <3>2. CASE Left(i)' = Heard'
      BY <1>1, <3>2, LeftFacts DEF GotInv
    <3> QED BY <2>2, <3>1, <3>2
  <2>6. \A k \in 1..Len(sGot) : sGot[k] <= Heard'
    BY <1>1, LeftFacts DEF GotInv
  <2> QED BY <1>3, <2>1, <2>3, <2>4, <2>5, <2>6 DEF GotInv
<1> QED BY <1>2, <1>3, HeardPuts

(* read() moves the tail, then takes the byte it has left.                 *)
LEMMA GotReads ==
  ASSUME EarInv, GotInv, S!read, Heard' = Heard
  PROVE  GotInv'
<1>1. CASE ~reading
  <2>1. /\ sRx.head # sRx.tail /\ sRx' = [sRx EXCEPT !.tail = S!next(sRx.tail)]
        /\ reading' = TRUE /\ sGot' = sGot /\ sRx \in BufferType
    BY <1>1, LeftFacts DEF S!read, BufferType
  <2>2. sRx'.head = sRx.head /\ sRx'.tail = S!next(sRx.tail) /\ sRx'.buf = sRx.buf
    BY <2>1 DEF BufferType
  <2>3. InRx \in Nat /\ InRx > 0
    <3>1. InRx # 0 /\ InRx \in 0..Size - 1
      BY <2>1, RxMoves
    <3> QED BY <3>1, SerialFacts
  <2>4. InRx' = InRx - 1
    <3>1. Apart(sRx.head, S!next(sRx.tail), Size) = InRx - 1
      BY <2>1, <2>3, RxMoves
    <3> QED BY <2>2, <3>1 DEF InRx
  <2>5. FirstLeft = 1 /\ FirstLeft' = 0 /\ InOrder'
    BY <1>1, <2>1 DEF FirstLeft, GotInv, InOrder
  <2>6. ASSUME NEW i \in 0..InRx - 1, NEW k \in Nat, k = i + 1
        PROVE  k \in 1..InRx /\ Left(i)' = Left(k)
    <3>1. Place(S!next(sRx.tail), i + 1, Size) = Place(sRx.tail, i + 1 + 1, Size)
      BY <2>1, RxMoves
    <3>2. Left(i)' = sRx.buf[Place(sRx.tail, k + 1, Size)]
      BY <2>2, <2>6, <3>1 DEF Left
    <3> QED BY <2>3, <2>6, <3>2 DEF Left
  <2>7. \A i \in 0..InRx - 1 : i + 1 \in Nat /\ \A j \in 0..InRx - 1 : i < j => i + 1 < j + 1
    BY <2>3
  <2>8. ASSUME NEW i \in 0..InRx - 1 PROVE Left(i)' \in 1..Heard
    <3>1. PICK k \in Nat : k = i + 1
      BY <2>7
    <3> QED BY <2>5, <2>6, <3>1 DEF GotInv
  <2>9. ASSUME NEW i \in 0..InRx - 1, NEW j \in 0..InRx - 1, i < j
        PROVE  Left(i)' < Left(j)'
    <3>1. PICK k \in Nat, m \in Nat : k = i + 1 /\ m = j + 1
      BY <2>7
    <3>2. k \in 1..InRx /\ m \in 1..InRx /\ k < m /\ Left(i)' = Left(k) /\ Left(j)' = Left(m)
      BY <2>6, <2>7, <2>9, <3>1
    <3> QED BY <2>5, <3>2 DEF GotInv
  <2>10. ASSUME NEW g \in 1..Len(sGot), NEW i \in 0..InRx - 1 PROVE sGot[g] < Left(i)'
    <3>1. PICK k \in Nat : k = i + 1
      BY <2>7
    <3> QED BY <2>5, <2>6, <3>1 DEF GotInv
  <2> QED BY <2>1, <2>4, <2>5, <2>8, <2>9, <2>10 DEF GotInv
<1>2. CASE reading
  <2>1. /\ sGot' = Append(sGot, sRx.buf[sRx.tail]) /\ reading' = FALSE /\ sRx' = sRx
    BY <1>2 DEF S!read
  <2>2. FirstLeft = 0 /\ FirstLeft' = 1 /\ InRx' = InRx /\ InRx \in Nat
    BY <1>2, <2>1, LeftFacts DEF FirstLeft, InRx
  <2>3. Left(0) = sRx.buf[sRx.tail] /\ 0 \in FirstLeft..InRx
    <3>1. Place(sRx.tail, 0 + 1, Size) = sRx.tail
      BY LeftFacts, RxMoves
    <3> QED BY <2>2, <3>1 DEF Left
  <2>4. \A i \in 1..InRx : Left(i)' = Left(i) /\ i \in FirstLeft..InRx
    BY <2>1, <2>2 DEF Left
  <2> DEFINE b == Left(0)
             n == Len(sGot)
  <2>5. b \in Nat /\ sGot \in Seq(Nat) /\ n \in Nat /\ sGot' = Append(sGot, b) /\ b \in 1..Heard
    BY <2>1, <2>2, <2>3, LeftFacts DEF GotInv
  <2>6. \A k \in 1..n : sGot[k] < b /\ sGot[k] <= Heard
    BY <2>3 DEF GotInv
  <2>7. \A i \in 1..InRx : b < Left(i)
    BY <2>2, <2>3, <2>4 DEF GotInv
  <2> HIDE DEF b
  <2>8. Len(sGot') = n + 1 /\ \A k \in 1..n + 1 : sGot'[k] = IF k <= n THEN sGot[k] ELSE b
    BY <2>5, AppendProperties
  <2>9. \A k \in 1..n : sGot[k] \in Nat
    BY LeftFacts
  <2> HIDE DEF n
  <2>10. \A k \in 1..n + 1 : sGot'[k] <= Heard
    BY <2>5, <2>6, <2>8
  <2>11. ASSUME NEW k \in 1..n + 1, NEW i \in 1..InRx PROVE sGot'[k] < Left(i)'
    <3>1. Left(i)' = Left(i) /\ b < Left(i) /\ Left(i) \in Nat
      BY <2>2, <2>4, <2>7, LeftFacts
    <3>2. CASE k <= n
      <4>1. k \in 1..n /\ sGot[k] < b
        BY <2>5, <2>6, <3>2
      <4> QED BY <2>5, <2>8, <2>9, <3>1, <3>2, <4>1
    <3>3. CASE ~(k <= n)
      BY <2>8, <3>1, <3>3
    <3> QED BY <3>2, <3>3
  <2>12. ASSUME NEW i \in 1..n + 1, NEW j \in 1..n + 1, i < j PROVE sGot'[i] < sGot'[j]
    <3>1. i \in 1..n /\ sGot'[i] = sGot[i] /\ sGot[i] < b
      BY <2>5, <2>6, <2>8, <2>12
    <3>2. CASE j <= n
      <4>1. j \in 1..n /\ sGot'[j] = sGot[j]
        BY <2>5, <2>8, <3>2
      <4>2. sGot[i] < sGot[j]
        BY <2>12, <3>1, <4>1 DEF GotInv, InOrder, n
      <4> QED BY <3>1, <4>1, <4>2
    <3>3. CASE ~(j <= n)
      BY <2>8, <3>1, <3>3
    <3> QED BY <3>2, <3>3
  <2>13. InOrder'
    BY <2>8, <2>12 DEF InOrder
  <2>14. \A i \in 1..InRx : Left(i)' \in 1..Heard
    BY <2>4 DEF GotInv
  <2>15. \A i, j \in 1..InRx : i < j => Left(i)' < Left(j)'
    BY <2>4 DEF GotInv
  <2> QED BY <2>2, <2>8, <2>10, <2>11, <2>13, <2>14, <2>15 DEF GotInv
<1> QED BY <1>1, <1>2, LeftFacts

LEMMA GotNext ==
  ASSUME EarInv, GotInv, "duplex" \notin broken', [S!Next]_(S!vars)
  PROVE  GotInv'
<1>1. CASE /\ port.rxInUse /\ S!am_stimer_cmpr7_isr
           /\ Heard' = peer.n /\ peer.n = Heard + 1
  BY <1>1, GotHears
<1>2. CASE Heard' = Heard /\ S!read
  BY <1>2, GotReads
<1>3. CASE Heard' = Heard /\ UNCHANGED <<sRx, reading, sGot>>
  <2>1. Heard' \in Nat /\ Heard <= Heard'
    BY <1>3, HeardFacts
  <2> QED BY <1>3, <2>1, GotKept
<1> QED BY <1>1, <1>2, <1>3, HeardMoves

(* Every byte of the peer is made out of its own edges, and what is read   *)
(* is in order, until both sides send at once, wherever the interrupts     *)
(* come between the steps of a call (SoftwareSerial.cpp:17-20, 174-182,    *)
(* 462-601).                                                               *)
THEOREM HeardWhole == S!Spec => []SerialHeardIntact
<1> DEFINE Inv == PortTypes /\ ("duplex" \in broken \/ (EarInv /\ HeardInv /\ GotInv))
<1>1. S!Init => Inv
  BY TypesInit, EarInit, HeardInit
<1>2. Inv /\ [S!Next]_(S!vars) => Inv'
  BY TypesNext, BrokenStays, EarNext, HeardNext, GotNext
<1>3. Inv => SerialHeardIntact
  <2>1. SUFFICES ASSUME EarInv, HeardInv, GotInv
                 PROVE  /\ heard = [i \in 1 .. (IF S!Receiving THEN peer.n - 1 ELSE peer.n) |-> i]
                        /\ InOrder
    BY DEF SerialHeardIntact, S!HeardIntact, S!ReadInOrder, InOrder
  <2>2. S!Receiving <=> port.rxInUse
    BY <2>1 DEF EarInv, Silent, Hearing, Deaf, Sending, AtRest, NotHearing, Armed, S!Receiving
  <2>3. heard = [i \in 1 .. (IF S!Receiving THEN peer.n - 1 ELSE peer.n) |-> i]
    BY <2>1, <2>2 DEF HeardInv, Heard, Upto
  <2> QED BY <2>1, <2>3 DEF GotInv
<1> HIDE DEF Inv
<1> QED BY <1>1, <1>2, <1>3, PTL DEF S!Spec

-----------------------------------------------------------------------------
(* A step of the whole is a step of one driver or of none.                 *)
LEMMA EachAlone ==
  ASSUME [Next]_vars
  PROVE  [U!Next]_(U!vars) /\ [G!Next]_(G!vars) /\ [S!Next]_(S!vars)
BY DEF Next, Uart, Gpio, Serial, vars, uartVars, gpioVars, serialVars, U!vars, G!vars, S!vars

(* All of it holds of the drivers side by side, which is what TLC runs:    *)
(* they share nothing, and fairness adds nothing to safety.                *)
THEOREM DriversKeep ==
  FairSpec => /\ [](UartSentInOrder /\ UartReadInOrder)
              /\ []GpioLatestCallback
              /\ [](SerialSentInOrder /\ SerialQuietMeansSent /\ SerialHeardIntact)
<1>1. Init => U!Init /\ G!Init /\ S!Init
  BY DEF Init
<1>2. [Next]_vars => [U!Next]_(U!vars) /\ [G!Next]_(G!vars) /\ [S!Next]_(S!vars)
  BY EachAlone
<1>3. FairSpec => U!Spec /\ G!Spec /\ S!Spec
  BY <1>1, <1>2, PTL DEF FairSpec, U!Spec, G!Spec, S!Spec
<1>4. U!Spec => []UartSentInOrder
  BY SentOnceInOrder
<1>5. U!Spec => []UartReadInOrder
  BY ReadOnceInOrder
<1>6. G!Spec => []GpioLatestCallback
  BY CallsTheLatest
<1>7. S!Spec => []SerialSentInOrder /\ []SerialQuietMeansSent /\ []SerialHeardIntact
  BY FramesInOrder, QuietWhenSent, HeardWhole
<1> QED BY <1>3, <1>4, <1>5, <1>6, <1>7, PTL
=============================================================================
