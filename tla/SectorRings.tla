----------------------------- MODULE SectorRings -----------------------------
(***************************************************************************)
(* The sector pool as the promise of LogRings: a ring is its sectors in    *)
(* label order, in RAM and on the part.                                    *)
(***************************************************************************)
EXTENDS SectorAllocator

\* The sectors the labels give a ring, the one labelled first at the head.
Queue(labels, r) ==
  LET owned == {s \in Sectors : labels[s].owner = r}
      before(s) == {t \in owned : labels[t].sequence < labels[s].sequence}
      place(i) == CHOOSE s \in owned : Cardinality(before(s)) = i - 1
  IN [i \in 1 .. Cardinality(owned) |->
        LET s == place(i) IN [session |-> labels[s].session, start |-> labels[s].start]]

Promise == INSTANCE LogRings WITH
  Floor <- FloorSectors,
  ring <- [r \in Rings |-> Queue(label, r)],
  part <- [r \in Rings |-> Queue(header, r)]

\* The allocator keeps the promise of LogRings: oldest first, never the last
\* sector, the capture never below the floor, one start per session held,
\* every sector recycled under the session being written counted.
KeepsPromise == Promise!Spec
=============================================================================
