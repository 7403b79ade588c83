------------------------------ MODULE SleepTimer ------------------------------
(***************************************************************************)
(* The sleep timer of the payload: the loop of ConfigTask                  *)
(* (payload/config_task.c), which counts seconds in bleDeepSleepC, and     *)
(* bleKickDeepSleep, by which every message RadioTask can parse restarts   *)
(* the count (payload/ble_deepsleep.cpp, payload/ble_app_protocol.cpp).    *)
(*                                                                         *)
(* RadioTask has the higher priority and no lock is taken: a kick may come *)
(* between the load, the store and the test that jiffies++ >= ... compiles *)
(* to.  The delay between two rounds of ConfigTask is the unit of time.    *)
(***************************************************************************)
EXTENDS Integers

CONSTANTS
  SECONDS_TO_SLEEP,
  EPOCH_CONFIG,
  JiffyValues,       (* values of the uint32_t counters (2^32)              *)
  QuietBound         (* bound: seconds of silence told apart                *)

(* What SleepsInTime allows: see there.                                      *)
LongestSilence ==
  LET counted == SECONDS_TO_SLEEP + 1
  IN  counted + counted \div (EPOCH_CONFIG - 1) + 2

ASSUME SleepAssumption ==
  /\ SECONDS_TO_SLEEP \in Nat \ {0}
  /\ EPOCH_CONFIG \in Nat \ {0, 1}
  /\ JiffyValues \in Nat
  /\ JiffyValues > LongestSilence          (* 2^32 and 153 *)
  /\ QuietBound \in Nat
  /\ QuietBound >= SECONDS_TO_SLEEP

VARIABLES
  power,
  config_jiffies,    (* jiffies of config_task.c                            *)
  jiffies,           (* jiffies of ble_deepsleep.cpp                        *)
  at,                (* where ConfigTask stands                             *)
  loaded,            (* the value of jiffies it has loaded                  *)
  quiet,             (* history: seconds since the last kick                *)
  kickedInside,      (* history: did it come between the load and the sleep? *)
  slept              (* history: was bleDeepSleep entered since that kick?  *)

vars == <<power, config_jiffies, jiffies, at, loaded, quiet, kickedInside, slept>>

Init ==
  /\ power = "on"
  /\ config_jiffies = 0
  /\ jiffies = 0
  /\ at = "loop"
  /\ loaded = 0
  /\ quiet = 0
  /\ kickedInside = FALSE
  /\ slept = FALSE

-----------------------------------------------------------------------------
(* ConfigTask.  EPOCH_DEEPSLEEP is 1, so every round that does not write the *)
(* configuration counts for the timer.                                       *)

IsConfigEpochInverted == config_jiffies % EPOCH_CONFIG # 0  (* bug: branches swapped *)
IsConfigEpoch == config_jiffies % EPOCH_CONFIG = 0

RunConfigTask ==
  /\ at = "loop"
  /\ IsConfigEpoch
  /\ at' = "delay"
  /\ UNCHANGED <<power, config_jiffies, jiffies, loaded, quiet, kickedInside, slept>>

LoadJiffies ==
  /\ at = "loop"
  /\ ~IsConfigEpoch
  /\ loaded' = jiffies
  /\ at' = "store"
  /\ UNCHANGED <<power, config_jiffies, jiffies, quiet, kickedInside, slept>>

NextJiffies == (loaded + 1) % JiffyValues

StoreJiffies ==
  /\ at = "store"
  /\ jiffies' = NextJiffies
  /\ at' = "test"
  /\ UNCHANGED <<power, config_jiffies, loaded, quiet, kickedInside, slept>>

SleepDueEarly == loaded + 1 >= SECONDS_TO_SLEEP   (* bug: ++jiffies *)
SleepDue == loaded >= SECONDS_TO_SLEEP

TestJiffies ==
  /\ at = "test"
  /\ at' = IF SleepDue THEN "sleep" ELSE "delay"
  /\ loaded' = 0
  /\ UNCHANGED <<power, config_jiffies, jiffies, quiet, kickedInside, slept>>

(* bleDeepSleep cuts the supply; where it stays, the sleep ends at the next  *)
(* interrupt and the task goes on.                                           *)
Sleep ==
  /\ at = "sleep"
  /\ slept' = TRUE
  /\ \/ power' = "off" /\ UNCHANGED at
     \/ at' = "delay" /\ UNCHANGED power
  /\ UNCHANGED <<config_jiffies, jiffies, loaded, quiet, kickedInside>>

Delay ==
  /\ at = "delay"
  /\ config_jiffies' = (config_jiffies + 1) % JiffyValues
  /\ quiet' = IF quiet < QuietBound THEN quiet + 1 ELSE quiet
  /\ at' = "loop"
  /\ UNCHANGED <<power, jiffies, loaded, kickedInside, slept>>

ConfigTask ==
  RunConfigTask \/ LoadJiffies \/ StoreJiffies \/ TestJiffies \/ Sleep \/ Delay

(* From the load of jiffies to the cut of the supply, a kick comes too late. *)
Inside == {"store", "test", "sleep"}

(* RadioTask: a message that parses; E_REQ_POWER then sleeps at once.        *)
Kick ==
  /\ jiffies' = 0
  /\ quiet' = 0
  /\ kickedInside' = (at \in Inside)
  /\ slept' = FALSE
  /\ UNCHANGED <<power, config_jiffies, at, loaded>>

PowerRequest ==
  /\ jiffies' = 0
  /\ quiet' = 0
  /\ kickedInside' = (at \in Inside)
  /\ slept' = TRUE
  /\ power' \in {"on", "off"}
  /\ UNCHANGED <<config_jiffies, at, loaded>>

Next == power = "on" /\ (ConfigTask \/ Kick \/ PowerRequest)
Spec == Init /\ [][Next]_vars

-----------------------------------------------------------------------------
TypeOK ==
  /\ power \in {"on", "off"}
  /\ config_jiffies \in 0 .. JiffyValues - 1
  /\ jiffies \in 0 .. JiffyValues - 1
  /\ at \in {"loop", "store", "test", "sleep", "delay"}
  /\ loaded \in 0 .. JiffyValues - 1
  /\ quiet \in 0 .. QuietBound
  /\ kickedInside \in BOOLEAN
  /\ slept \in BOOLEAN

(* The timer never cuts the supply before SECONDS_TO_SLEEP seconds of        *)
(* silence, unless the last kick came after that round had loaded jiffies:   *)
(* then it is overwritten, or not looked at any more.                        *)
SleepsOnlyWhenQuiet ==
  [][Sleep => quiet >= SECONDS_TO_SLEEP \/ kickedInside]_vars

(* "Make sure device does not shut down" (ble_app_protocol.cpp:278): the     *)
(* same, wherever the kick came.                                             *)
KickIsKept == [][Sleep => quiet >= SECONDS_TO_SLEEP]_vars

(* Silence always ends in sleep: one round in EPOCH_CONFIG is not counted,   *)
(* the others are, so it comes within the time those rounds take; a kick     *)
(* inside the increment, or a supply that stays, makes no difference to it.  *)
SleepsInTime == quiet <= LongestSilence \/ slept
=============================================================================
