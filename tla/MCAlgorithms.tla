---------------------------- MODULE MCAlgorithms ----------------------------
(***************************************************************************)
(* The computations checked against what they are meant to yield: the      *)
(* export schedules' calendar, or a scan for units, in each behaviour.     *)
(***************************************************************************)
EXTENDS Calendar, Discovery, TLC
CONSTANTS usb0, usb1, idA, idB, idC, gone, w1, w2, w3

VARIABLE algorithm

algorithmVars == <<calendarVars, scanVars, algorithm>>

(* The one that is not looked at: no export is due, no block was scanned. *)
CalendarRests ==
  /\ zone \in Zones /\ zone.at = 0 /\ zone.before = 0
  /\ plan = [kind |-> "nightly", day |-> 0, time |-> 0]
  /\ clock = CHOOSE t \in Starts : TRUE
  /\ phase = "compute" /\ asked = 0 /\ due = 0 /\ odd = FALSE

ScanRests ==
  /\ scan = [kind |-> "none"] /\ items = << >> /\ answers = {}
  /\ next = 1 /\ results = << >> /\ scanned = "error"
  /\ holds = [t \in Threads |-> NoItem] /\ ends = Threads

AlgorithmInit ==
  \/ algorithm = "calendar" /\ CalendarInit /\ ScanRests
  \/ algorithm = "scan" /\ CalendarRests /\ ScanInit

AlgorithmNext ==
  \/ algorithm = "calendar" /\ CalendarNext /\ UNCHANGED <<scanVars, algorithm>>
  \/ algorithm = "scan" /\ ScanNext /\ UNCHANGED <<calendarVars, algorithm>>

AlgorithmSpec == AlgorithmInit /\ [][AlgorithmNext]_algorithmVars

-----------------------------------------------------------------------------
Hours(y, m, d, n) == (24 * DayNumber(y, m, d))..(24 * (DayNumber(y, m, d) + n) - 1)

MCYears == 2023..2025

(* UTC, a zone behind it, and three that change their offset: forward at   *)
(* 2 a.m. of 31 March 2024, forward at midnight of 1 March 2024, and back  *)
(* at midnight of 1 January 2024.                                          *)
MCZones ==
  { [before |-> 0, after |-> 0, at |-> 0],
    [before |-> -7, after |-> -7, at |-> 0],
    [before |-> 1, after |-> 2, at |-> 24 * DayNumber(2024, 2, 31) + 1],
    [before |-> -3, after |-> -2, at |-> 24 * DayNumber(2024, 2, 1) + 3],
    [before |-> 2, after |-> 1, at |-> 24 * DayNumber(2023, 11, 31) + 22] }

MCSchedules ==
  [kind : {"nightly"}, day : {0}, time : {0, 2, 23, 24}]
  \cup [kind : {"weekly"}, day : {-1, 0, 3, 7}, time : {2, 23}]
  \cup [kind : {"monthly"}, day : {-1, 0, 1, 28, 31}, time : {0, 2, 23}]

MCStarts ==
  Hours(2023, 11, 30, 3) \cup Hours(2024, 0, 31, 1)
  \cup Hours(2024, 1, 28, 3) \cup Hours(2024, 2, 30, 3)

MCHorizon == 24 * DayNumber(2024, 3, 7)

(* A port with one stable name, one with two, and a name whose port is     *)
(* gone.                                                                   *)
MCLinks ==
  { idA :> usb0,
    idA :> usb1 @@ idB :> usb1,
    idA :> usb0 @@ idB :> usb1 @@ idC :> gone }

Workers == Permutations({w1, w2, w3})
=============================================================================
