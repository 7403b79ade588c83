--------------------------- MODULE GpioInterrupts ---------------------------
(***************************************************************************)
(* attachInterrupt and detachInterrupt of the Arduino core, with the       *)
(* interrupt that calls what they registered                               *)
(* (cores/arduino/ard_sup/gpio/ap3_gpio.cpp).  The table is shared without *)
(* a lock: the interrupt may come between any two steps of the sketch,     *)
(* which then waits until no interrupt is pending.                         *)
(*                                                                         *)
(* A callback and its argument are the number of the call that brought     *)
(* them; 0 is NULL.                                                        *)
(***************************************************************************)
EXTENDS Naturals

CONSTANTS Pad,       \* pads, numbers as in the code
          PinMaps,   \* ap3_variant_pinmap of the boards
          MaxPads,   \* AP3_GPIO_MAX_PADS
          Modes,     \* those the sketch uses, of "CHANGE", "LOW", "HIGH"
          MaxAttach, \* bound: calls of attachInterrupt
          MaxEdges   \* bound: edges on the pads

GpioConstants ==
  /\ Pad \subseteq Nat /\ 0 \in Pad
  /\ PinMaps \subseteq [Pad -> Pad]
  /\ {MaxPads, MaxAttach, MaxEdges} \subseteq Nat \ {0}
  /\ Modes \subseteq {"CHANGE", "LOW", "HIGH"}

VARIABLES gpio_isr_entries, \* the table, and what lies behind it
          gpio_num_isr,
          gpio,     \* per pad: level, the edges that count, flag, enabled; the board
          call,     \* the call the sketch is in
          isr,      \* am_gpio_isr
          attached, \* history: whose callback a pad has, 0 for none
          owner,    \* history: the pad a callback was attached to
          doubled,  \* history: was an entry moved down over another?
          attaches, edges

vars == <<gpio_isr_entries, gpio_num_isr, gpio, call, isr, attached, owner, doubled, attaches, edges>>

Entry == [pad : Pad, callback : 0..MaxAttach, arg : 0..MaxAttach, mode : {"CHANGE", "LOW", "HIGH"}]
NoEntry == [pad |-> 0, callback |-> 0, arg |-> 0, mode |-> "LOW"]

TypeOK ==
  /\ gpio_isr_entries \in [0..MaxPads -> Entry]
  /\ gpio_num_isr \in 0..MaxPads
  /\ gpio \in [level : [Pad -> 0..1], dir : [Pad -> SUBSET (0..1)],
               flags : SUBSET Pad, enabled : SUBSET Pad, pins : PinMaps]
  /\ call \in [at : {"none", "pad", "callback", "arg", "mode", "direction", "clear", "enable",
                     "count", "disable", "unflag", "undirect", "shift"},
               i : 0..MaxPads, entry : Entry]
  /\ isr \in [at : {"off", "scan", "call", "clear"}, i : 0..MaxPads, mask : SUBSET Pad]
  /\ attached \in [Pad -> 0..MaxAttach] /\ owner \in [1..MaxAttach -> Pad]
  /\ doubled \in BOOLEAN
  /\ attaches \in 0..MaxAttach /\ edges \in 0..MaxEdges

Init ==
  /\ gpio_isr_entries = [i \in 0..MaxPads |-> NoEntry]
  /\ gpio_num_isr = 0
  /\ \E pins \in PinMaps :
       gpio = [level |-> [p \in Pad |-> 1], dir |-> [p \in Pad |-> {}],
               flags |-> {}, enabled |-> {}, pins |-> pins]
  /\ call = [at |-> "none", i |-> 0, entry |-> NoEntry]
  /\ isr = [at |-> "off", i |-> 0, mask |-> {}]
  /\ attached = [p \in Pad |-> 0] /\ owner = [k \in 1..MaxAttach |-> 0]
  /\ doubled = FALSE
  /\ attaches = 0 /\ edges = 0

-----------------------------------------------------------------------------
Pending == gpio.enabled \cap gpio.flags
Preempted == isr.at # "off" \/ Pending # {}
At(step) == call.at = step /\ ~Preempted
InTable(i) == i < gpio_num_isr

(* The first entry of the pad, or one past the last.                       *)
Find(pad) ==
  CHOOSE i \in 0..gpio_num_isr :
    /\ i = gpio_num_isr \/ gpio_isr_entries[i].pad = pad
    /\ \A j \in 0..MaxPads : j < i => gpio_isr_entries[j].pad # pad

(* The levels that, when reached, are an edge of the mode.                 *)
Direction(mode) == CASE mode = "LOW" -> {0} [] mode = "HIGH" -> {1} [] OTHER -> {0, 1}

(* A table that is full refuses without a word.  The entry of a pad that   *)
(* is attached is found and written again, with its interrupt on.          *)
CallAttach(pad, mode) ==
  /\ At("none") /\ attaches < MaxAttach /\ gpio_num_isr < MaxPads
  /\ attaches' = attaches + 1
  /\ call' = [at |-> "pad", i |-> Find(pad),
              entry |-> [pad |-> pad, callback |-> attaches', arg |-> attaches', mode |-> mode]]
  /\ owner' = [owner EXCEPT ![attaches'] = pad]
  /\ UNCHANGED <<gpio_isr_entries, gpio_num_isr, gpio, isr, attached, doubled, edges>>

After == [pad |-> "callback", callback |-> "arg", arg |-> "mode", mode |-> "direction"]

WriteField(field) ==
  /\ At(field)
  /\ gpio_isr_entries' = [gpio_isr_entries EXCEPT ![call.i][field] = call.entry[field]]
  /\ call' = [call EXCEPT !.at = After[field]]
  /\ attached' = IF field = "callback"
                 THEN [attached EXCEPT ![call.entry.pad] = call.entry.callback]
                 ELSE attached
  /\ UNCHANGED <<gpio_num_isr, gpio, isr, owner, doubled, attaches, edges>>

SetDirection ==
  /\ At("direction")
  /\ gpio' = [gpio EXCEPT !.dir[call.entry.pad] = Direction(call.entry.mode)]
  /\ call' = [call EXCEPT !.at = "clear"]
  /\ UNCHANGED <<gpio_isr_entries, gpio_num_isr, isr, attached, owner, doubled, attaches, edges>>

ClearFlag ==
  /\ At("clear")
  /\ gpio' = [gpio EXCEPT !.flags = @ \ {call.entry.pad}]
  /\ call' = [call EXCEPT !.at = "enable"]
  /\ UNCHANGED <<gpio_isr_entries, gpio_num_isr, isr, attached, owner, doubled, attaches, edges>>

EnableInterrupt ==
  /\ At("enable")
  /\ gpio' = [gpio EXCEPT !.enabled = @ \cup {call.entry.pad}]
  /\ call' = [call EXCEPT !.at = "count"]
  /\ UNCHANGED <<gpio_isr_entries, gpio_num_isr, isr, attached, owner, doubled, attaches, edges>>

CountEntry ==
  /\ At("count")
  /\ gpio_num_isr' = IF call.i = gpio_num_isr THEN gpio_num_isr + 1 ELSE gpio_num_isr
  /\ call' = [call EXCEPT !.at = "none"]
  /\ UNCHANGED <<gpio_isr_entries, gpio, isr, attached, owner, doubled, attaches, edges>>

attachInterruptArg ==
  \/ \E pad \in Pad, mode \in Modes : CallAttach(pad, mode)
  \/ \E field \in DOMAIN After : WriteField(field)
  \/ SetDirection \/ ClearFlag \/ EnableInterrupt \/ CountEntry

-----------------------------------------------------------------------------
CallDetach(pad) ==
  /\ At("none") /\ Find(pad) # gpio_num_isr
  /\ call' = [at |-> "disable", i |-> Find(pad), entry |-> gpio_isr_entries[Find(pad)]]
  /\ UNCHANGED <<gpio_isr_entries, gpio_num_isr, gpio, isr, attached, owner, doubled, attaches, edges>>

(* bug: it is left to the direction.                                       *)
DisableInterrupt_Not ==
  /\ At("disable")
  /\ attached' = [attached EXCEPT ![call.entry.pad] = 0]
  /\ call' = [call EXCEPT !.at = "unflag"]
  /\ UNCHANGED <<gpio_isr_entries, gpio_num_isr, gpio, isr, owner, doubled, attaches, edges>>

DisableInterrupt ==
  /\ At("disable")
  /\ gpio' = [gpio EXCEPT !.enabled = @ \ {call.entry.pad}]
  /\ attached' = [attached EXCEPT ![call.entry.pad] = 0]
  /\ call' = [call EXCEPT !.at = "unflag"]
  /\ UNCHANGED <<gpio_isr_entries, gpio_num_isr, isr, owner, doubled, attaches, edges>>

Unflag ==
  /\ At("unflag")
  /\ gpio' = [gpio EXCEPT !.flags = @ \ {call.entry.pad}]
  /\ call' = [call EXCEPT !.at = "undirect"]
  /\ UNCHANGED <<gpio_isr_entries, gpio_num_isr, isr, attached, owner, doubled, attaches, edges>>

NoDirection ==
  /\ At("undirect")
  /\ gpio' = [gpio EXCEPT !.dir[call.entry.pad] = {}]
  /\ call' = [call EXCEPT !.at = "shift"]
  /\ UNCHANGED <<gpio_isr_entries, gpio_num_isr, isr, attached, owner, doubled, attaches, edges>>

(* The words of an entry are copied in their order, callback, argument,    *)
(* mode with pad, and the interrupt may come behind any of them.           *)
Words == {{"callback"}, {"callback", "arg"}}

CopyPart(fields) ==
  /\ At("shift") /\ call.i < gpio_num_isr - 1
  /\ gpio_isr_entries' =
       [gpio_isr_entries EXCEPT ![call.i] =
          [field \in DOMAIN NoEntry |-> IF field \in fields
                                       THEN gpio_isr_entries[call.i + 1][field] ELSE @[field]]]
  /\ doubled' = TRUE
  /\ UNCHANGED <<gpio_num_isr, gpio, call, isr, attached, owner, attaches, edges>>

ShiftEntry ==
  /\ At("shift") /\ call.i < gpio_num_isr - 1
  /\ gpio_isr_entries' = [gpio_isr_entries EXCEPT ![call.i] = gpio_isr_entries[call.i + 1]]
  /\ call' = [call EXCEPT !.i = @ + 1]
  /\ doubled' = TRUE
  /\ UNCHANGED <<gpio_num_isr, gpio, isr, attached, owner, attaches, edges>>

(* The entry cleared is the one behind the last, and the count stays.      *)
ClearLast ==
  /\ At("shift") /\ ~(call.i < gpio_num_isr - 1)
  /\ gpio_isr_entries' = [gpio_isr_entries EXCEPT ![gpio_num_isr] = NoEntry]
  /\ call' = [call EXCEPT !.at = "none"]
  /\ UNCHANGED <<gpio_num_isr, gpio, isr, attached, owner, doubled, attaches, edges>>

detachInterrupt ==
  \/ \E pad \in Pad : CallDetach(pad)
  \/ DisableInterrupt \/ Unflag \/ NoDirection
  \/ \E fields \in Words : CopyPart(fields)
  \/ ShiftEntry \/ ClearLast

-----------------------------------------------------------------------------
Edge(pad) ==
  /\ edges < MaxEdges
  /\ LET level == 1 - gpio.level[pad] IN
       gpio' = [gpio EXCEPT !.level[pad] = level,
                            !.flags = IF level \in gpio.dir[pad] THEN @ \cup {pad} ELSE @]
  /\ edges' = edges + 1
  /\ UNCHANGED <<gpio_isr_entries, gpio_num_isr, call, isr, attached, owner, doubled, attaches>>

Enter ==
  /\ isr.at = "off" /\ Pending # {}
  /\ isr' = [at |-> "scan", i |-> 0, mask |-> Pending]
  /\ UNCHANGED <<gpio_isr_entries, gpio_num_isr, gpio, call, attached, owner, doubled, attaches, edges>>

(* bug: the last entry is not looked at.                                   *)
Scan_Short ==
  /\ isr.at = "scan" /\ InTable(isr.i + 1)
  /\ isr' = LET e == gpio_isr_entries[isr.i] IN
            IF e.callback = 0 THEN [isr EXCEPT !.i = @ + 1]
            ELSE [isr EXCEPT !.at = IF e.pad \in isr.mask THEN "call" ELSE "clear"]
  /\ UNCHANGED <<gpio_isr_entries, gpio_num_isr, gpio, call, attached, owner, doubled, attaches, edges>>

Scan ==
  /\ isr.at = "scan" /\ InTable(isr.i)
  /\ isr' = LET e == gpio_isr_entries[isr.i] IN
            IF e.callback = 0 THEN [isr EXCEPT !.i = @ + 1]
            ELSE [isr EXCEPT !.at = IF e.pad \in isr.mask THEN "call" ELSE "clear"]
  /\ UNCHANGED <<gpio_isr_entries, gpio_num_isr, gpio, call, attached, owner, doubled, attaches, edges>>

CallbackReturns ==
  /\ isr.at = "call"
  /\ isr' = [isr EXCEPT !.at = "clear"]
  /\ UNCHANGED <<gpio_isr_entries, gpio_num_isr, gpio, call, attached, owner, doubled, attaches, edges>>

(* digitalRead takes a pin and is given a pad.                             *)
Over(e) ==
  LET val == gpio.level[gpio.pins[e.pad]]
  IN CASE e.mode = "LOW" -> val = 1 [] e.mode = "HIGH" -> val = 0 [] OTHER -> TRUE

(* Whether or not the pad was in the mask.                                 *)
ClearServed ==
  /\ isr.at = "clear"
  /\ LET e == gpio_isr_entries[isr.i] IN
       gpio' = [gpio EXCEPT !.flags = IF Over(e) THEN @ \ {e.pad} ELSE @]
  /\ isr' = [isr EXCEPT !.at = "scan", !.i = @ + 1]
  /\ UNCHANGED <<gpio_isr_entries, gpio_num_isr, call, attached, owner, doubled, attaches, edges>>

Leave ==
  /\ isr.at = "scan" /\ ~InTable(isr.i)
  /\ isr' = [at |-> "off", i |-> 0, mask |-> {}]
  /\ UNCHANGED <<gpio_isr_entries, gpio_num_isr, gpio, call, attached, owner, doubled, attaches, edges>>

am_gpio_isr == Enter \/ Scan \/ CallbackReturns \/ ClearServed \/ Leave

Next == attachInterruptArg \/ detachInterrupt \/ am_gpio_isr \/ \E pad \in Pad : Edge(pad)

Spec == Init /\ [][Next]_vars

(* An interrupt that is pending is taken and ends; a sketch in a call goes *)
(* on when none is.                                                        *)
Fairness == /\ WF_vars(am_gpio_isr)
            /\ WF_vars(call.at # "none" /\ (attachInterruptArg \/ detachInterrupt))
FairSpec == Spec /\ Fairness

-----------------------------------------------------------------------------
(* Between calls a pad has one entry, so that the table cannot fill up     *)
(* (ap3_gpio.cpp:213-219, 297).  Not so once an entry was moved down.      *)
OnePerPad ==
  call.at = "none" /\ ~doubled =>
    \A i, j \in 0 .. MaxPads :
      InTable(i) /\ InTable(j) /\ gpio_isr_entries[i].pad = gpio_isr_entries[j].pad => i = j

(* The entry the interrupt is at is the one the sketch is inside of: its   *)
(* new callback has the old argument yet, or it is copied in part.         *)
Torn == call.i = isr.i /\ call.at \in {"arg", "shift"}

(* A callback that runs was attached to the pad it runs for, and has the   *)
(* argument that came with it, whatever was attached again, detached and   *)
(* moved down; but for an entry the interrupt finds half written (lines    *)
(* 222, 294).                                                              *)
OwnCallback ==
  isr.at = "call" /\ ~Torn =>
    LET e == gpio_isr_entries[isr.i]
    IN owner[e.callback] = e.pad /\ e.arg = e.callback

(* It is the one last attached to its pad, however the calls are cut       *)
(* (ap3_gpio.cpp:174, 221-224).  Not once an entry was moved down: the     *)
(* last is then there twice, and a new callback replaces one.              *)
LatestCallback ==
  isr.at = "call" /\ ~doubled =>
    LET e == gpio_isr_entries[isr.i] IN e.callback = attached[e.pad]

(* Example7_AttachInterrupts.ino:36: attaching to the same pin overwrites  *)
(* the existing ISR, so that no other runs any more.                       *)
Overwritten ==
  isr.at = "call" =>
    LET e == gpio_isr_entries[isr.i] IN e.callback = attached[e.pad]

(* The same line: it is another ISR as a whole, with its argument.         *)
OverwrittenWhole ==
  isr.at = "call" =>
    LET e == gpio_isr_entries[isr.i] IN e.arg = e.callback

Counted(pad) == Find(pad) # gpio_num_isr

(* An interrupt of a pad in the table that is pending when the handler     *)
(* begins reaches its callback (ap3_gpio.cpp:166-175).  An edge that comes *)
(* after the mask was read may be cleared with the one before.             *)
EdgeServed ==
  \A pad \in Pad :
    (isr.at = "off" /\ pad \in Pending /\ Counted(pad))
      ~> (isr.at = "call" /\ gpio_isr_entries[isr.i].pad = pad)

(* The interrupt of a pad in mode LOW does not go on when the pin that is  *)
(* read for it, the one with the number of the pad, is high                *)
(* (ap3_gpio.cpp:181-189).                                                 *)
StormEnds ==
  \A pad \in Pad :
    []<>(pad \notin Pending \/ gpio.level[gpio.pins[pad]] = 0 \/ ~Counted(pad))

(* Example7_AttachInterrupts.ino:9-10: the flag is cleared when the value  *)
(* of the pad no longer matches the mode.                                  *)
PadEndsStorm ==
  \A pad \in Pad : []<>(pad \notin Pending \/ gpio.level[pad] = 0 \/ ~Counted(pad))

(* attachInterrupt comes back, whenever the first edge comes: the          *)
(* interrupt clears the flag that called it (ap3_gpio.cpp:177, 244-249).   *)
AttachReturns == call.at = "enable" ~> call.at = "none"
=============================================================================
