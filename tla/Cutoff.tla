-------------------------------- MODULE Cutoff --------------------------------
(***************************************************************************)
(* The monitor over any stream of readings, with the readings a level has  *)
(* to answer for.                                                          *)
(*                                                                         *)
(* Source: core/power/cutoff.cpp and the loop of services/power.cpp that   *)
(* feeds it: an unbelievable reading off the cable never arrives.          *)
(***************************************************************************)
EXTENDS PowerLevel

VARIABLES
  monitor,  \* CutoffMonitor: [level, below, cleared]
  recent,   \* the last readings that counted, newest last
  cable     \* the newest reading came off the cable

cutoffVars == <<monitor, recent, cable>>

Window == 1 .. LevelSamples
\* What recent holds where no reading counted: on the cable, or before the first.
NoReading == -1

Remembered(mv) ==
  [k \in Window |-> IF k = LevelSamples THEN mv ELSE recent[k + 1]]
Unread == [k \in Window |-> NoReading]

CutoffInit ==
  /\ monitor = Booted
  /\ recent = Unread
  /\ cable = FALSE

Sample(mv) ==
  /\ monitor' = Applied(monitor, mv)
  /\ recent' = Remembered(mv)
  /\ cable' = FALSE

Cable ==
  /\ \/ monitor' = OnTheCable(monitor)
     \/ monitor' = OnTheCableUnread(monitor)
  /\ recent' = Unread
  /\ cable' = TRUE

Restart ==
  /\ monitor' = Booted
  /\ recent' = Unread
  /\ cable' = FALSE

CutoffNext ==
  \/ \E mv \in Readings : Sample(mv)
  \/ Cable
  \/ Restart

CutoffSpec == CutoffInit /\ [][CutoffNext]_cutoffVars

-----------------------------------------------------------------------------
CutoffTypeOK ==
  /\ monitor \in Monitors
  /\ recent \in [Window -> Readings \cup {NoReading}]
  /\ cable \in BOOLEAN

AllUnder(run, i) == \A k \in Window : run[k] # NoReading /\ Under(run[k], i)
AllClear(run, i) == \A k \in Window : run[k] # NoReading /\ Clears(run[k], i)

(* Readings that stayed under a step for a whole run have the level at     *)
(* least that deep: no sequence of sags, cables and recoveries leaves a    *)
(* unit on a level its last readings have refuted, whichever order the     *)
(* runs of the three steps filled in.                                      *)
RunActs ==
  \A i \in Steps : AllUnder(recent, i) => Depth(monitor.level) >= i

(* A level moves for a whole run and for nothing less: down to a step only *)
(* on readings all under it, and up past a step only on readings that all  *)
(* cleared it by the margin, on the cable, or at a boot.                   *)
MovesOnARun ==
  [][ /\ Depth(monitor'.level) > Depth(monitor.level)
           => AllUnder(recent', Depth(monitor'.level))
      /\ Depth(monitor'.level) < Depth(monitor.level)
           => \/ recent' = Unread
              \/ \A i \in Depth(monitor'.level) + 1 .. Depth(monitor.level) :
                    AllClear(recent', i) ]_monitor
=============================================================================
