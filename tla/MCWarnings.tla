------------------------------ MODULE MCWarnings ------------------------------
(***************************************************************************)
(* The two small machines that decide when the unit speaks up, in one run: *)
(* the level of the cell and the traffic around.  They share nothing, and  *)
(* a behaviour is a behaviour of one of them.                              *)
(***************************************************************************)
EXTENDS Cutoff, Traffic, TLC

VARIABLE which   \* the machine that moves: "cell" or "sky"

Symmetry == Permutations(Aircraft)

WarningsInit == which \in {"cell", "sky"} /\ CutoffInit /\ SkyInit

CellMoves == which = "cell" /\ CutoffNext /\ UNCHANGED <<which, skyVars>>
SkyMoves == which = "sky" /\ SkyNext /\ UNCHANGED <<which, cutoffVars>>

WarningsSpec ==
  WarningsInit /\ [][CellMoves \/ SkyMoves]_<<which, cutoffVars, skyVars>>
=============================================================================
