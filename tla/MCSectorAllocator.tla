-------------------------- MODULE MCSectorAllocator --------------------------
(***************************************************************************)
(* Instances of SectorAllocator, and of its promise, for TLC.              *)
(***************************************************************************)
EXTENDS SectorRings, TLC

\* A session's name is only ever compared with another's.
Names == Permutations(Sessions)
=============================================================================
