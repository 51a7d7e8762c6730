------------------------------ MODULE PowerLevel ------------------------------
(***************************************************************************)
(* What one cell reading makes of the power level: the ladder              *)
(* Low > Critical > Flat, each step entered and left on LevelSamples       *)
(* consecutive readings, a cable that overrides them all, and a Flat that  *)
(* latches until the next boot.                                            *)
(*                                                                         *)
(* Source: core/power/cutoff.{h,cpp}.                                      *)
(***************************************************************************)
EXTENDS Integers

CONSTANTS
  Readings,      \* the believable cell readings, in millivolts
  LevelSamples,  \* kLevelSamples
  LowMv, CriticalMv, FlatMv,
  Margin         \* kRecoveryMarginMv

ASSUME ReadingsAssumption == Readings \subseteq Nat
ASSUME LadderAssumption ==
  /\ {LowMv, CriticalMv, FlatMv, Margin} \subseteq Nat
  /\ LevelSamples \in Nat \ {0}
  /\ FlatMv < CriticalMv /\ CriticalMv + Margin < LowMv

Steps == 1 .. 3
Ladder == <<LowMv, CriticalMv, FlatMv>>
LevelAt == <<"low", "critical", "flat">>
Levels == {"unknown", "normal", "low", "critical", "flat"}

Depth(level) ==
  CASE level = "low" -> 1 [] level = "critical" -> 2 [] level = "flat" -> 3
    [] OTHER -> 0

\* The level a given depth of the ladder is, and the top of it.
LevelFor(depth) == IF depth = 0 THEN "normal" ELSE LevelAt[depth]

NoRuns == [i \in Steps |-> 0]
Booted == [level |-> "unknown", below |-> NoRuns, cleared |-> NoRuns]

Forgotten(m) == [m EXCEPT !.below = NoRuns, !.cleared = NoRuns]

Lengthened(run) == IF run < LevelSamples THEN run + 1 ELSE run

Under(mv, i) == mv < Ladder[i]
Clears(mv, i) == mv >= Ladder[i] + Margin

\* Mutant of Counted: a reading above a step does not end the run under it.
CountedBroken(m, mv) ==
  [m EXCEPT
     !.below = [i \in Steps |-> IF Under(mv, i) THEN Lengthened(m.below[i]) ELSE m.below[i]],
     !.cleared = [i \in Steps |-> IF Clears(mv, i) THEN Lengthened(m.cleared[i]) ELSE 0]]
Counted(m, mv) ==
  [m EXCEPT
     !.below = [i \in Steps |-> IF Under(mv, i) THEN Lengthened(m.below[i]) ELSE 0],
     !.cleared = [i \in Steps |-> IF Clears(mv, i) THEN Lengthened(m.cleared[i]) ELSE 0]]

\* Mutant of Fallen: only the next step down is looked at.
FallenOneStep(m, i) ==
  /\ i = Depth(m.level) + 1
  /\ m.below[i] >= LevelSamples

\* The deepest step a whole run went under, when that is further down.
Fallen(m, i) ==
  /\ i > Depth(m.level)
  /\ m.below[i] >= LevelSamples
  /\ \A j \in i + 1 .. 3 : m.below[j] < LevelSamples

\* How far up the whole runs that cleared their steps lead.
Risen(m, depth) ==
  /\ depth \in 0 .. Depth(m.level)
  /\ \A j \in depth + 1 .. Depth(m.level) : m.cleared[j] >= LevelSamples
  /\ depth > 0 => m.cleared[depth] < LevelSamples

Settled(m, mv) ==
  IF \E i \in Steps : Fallen(m, i) THEN LevelAt[CHOOSE i \in Steps : Fallen(m, i)]
  ELSE IF m.level = "unknown" THEN IF mv >= LowMv THEN "normal" ELSE "unknown"
  ELSE LevelFor(CHOOSE depth \in 0 .. 3 : Risen(m, depth))

\* apply() of a reading off the cable; of one on it; and of one on it that is
\* under the sanity floor, which returns before the cable is looked at.
Applied(m, mv) ==
  IF m.level = "flat" THEN m
  ELSE LET c == Counted(m, mv) IN [c EXCEPT !.level = Settled(c, mv)]

OnTheCable(m) ==
  IF m.level = "flat" THEN m ELSE [Forgotten(m) EXCEPT !.level = "normal"]

OnTheCableUnread(m) == IF m.level = "flat" THEN m ELSE Forgotten(m)

Monitors ==
  [level : Levels, below : [Steps -> 0 .. LevelSamples],
   cleared : [Steps -> 0 .. LevelSamples]]
=============================================================================
