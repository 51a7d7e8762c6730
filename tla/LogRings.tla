------------------------------ MODULE LogRings ------------------------------
(***************************************************************************)
(* What the sector pool promises, without sectors: two rings, each a queue *)
(* of the sectors its sessions were written in, oldest first.  A ring      *)
(* grows at its tail; to make room a sector is taken from one ring's head, *)
(* never its last one, and by the capture from the flights only while they *)
(* are above their floor.  A session's opening is named once, and what a   *)
(* ring loses of the session it is writing is counted.  The part follows,  *)
(* one sector at a time, and is what a reset goes back to.                 *)
(*                                                                         *)
(* Source: the promises of firmware/core/store/README.md as                *)
(* firmware/core/store/sector_allocator.cpp keeps them; SectorAllocator    *)
(* implements this specification.                                          *)
(***************************************************************************)
EXTENDS Integers, Sequences

CONSTANTS Sessions, Floor

VARIABLES
  ring,   \* per ring, the sectors it holds: [session, start], oldest first
  part,   \* per ring, the sectors the headers on the part give it
  lost    \* per ring, the sectors recycled under the session being written

vars == <<ring, part, lost>>

Rings == {"flights", "diagnostics"}

Init ==
  /\ ring = [r \in Rings |-> <<>>]
  /\ part = ring
  /\ lost = [r \in Rings |-> 0]

Holds(r, session) == \E i \in DOMAIN ring[r] : ring[r][i].session = session
Entry(r, session) == [session |-> session, start |-> ~Holds(r, session)]

MayTake(r, victim) ==
  /\ Len(ring[victim]) > 1
  /\ r = "diagnostics" /\ victim = "flights" => Len(ring[victim]) > Floor
  /\ r = "flights" /\ victim = "flights" => Len(ring["diagnostics"]) <= 1

\* The head is a loss when it belongs to the session at the tail.
Counted(victim) ==
  IF Head(ring[victim]).session = ring[victim][Len(ring[victim])].session
  THEN [lost EXCEPT ![victim] = @ + 1]
  ELSE lost

\* A queue without its nth sector.
Without(queue, n) == SubSeq(queue, 1, n - 1) \o SubSeq(queue, n + 1, Len(queue))

\* One sector of the part erased: a header of one of the rings is gone, or none.
Erased ==
  {part} \cup UNION {{[part EXCEPT ![r] = Without(@, i)] : i \in DOMAIN part[r]} : r \in Rings}

\* A sector erased, then labelled; the part may refuse either.
Relabelled(r, session) ==
  \/ part' \in Erased
  \/ part' \in {[p EXCEPT ![r] = Append(@, Entry(r, session))] : p \in Erased}

Extend(r, session) ==
  /\ UNCHANGED lost
  /\ ring' = [ring EXCEPT ![r] = Append(@, Entry(r, session))]
  /\ Relabelled(r, session)

Recycle(r, victim, session) ==
  /\ MayTake(r, victim)
  /\ lost' = Counted(victim)
  /\ LET kept == [ring EXCEPT ![victim] = Tail(@)]
     IN ring' = [kept EXCEPT ![r] = Append(@, Entry(r, session))]
  /\ Relabelled(r, session)

SetAside(r, victim) ==
  /\ MayTake(r, victim)
  /\ lost' = Counted(victim)
  /\ ring' = [ring EXCEPT ![victim] = Tail(@)]
  /\ UNCHANGED part

\* A sector set aside is erased.
Clear == part' \in Erased /\ UNCHANGED <<ring, lost>>

\* What is left of a queue, in its order.
Within(left, queue) ==
  \E place \in [DOMAIN left -> DOMAIN queue] :
    /\ \A i, j \in DOMAIN left : i < j => place[i] < place[j]
    /\ \A i \in DOMAIN left : left[i] = queue[place[i]]

\* The part is rid of what the ring held and of what was nobody's.
GiveBack(r) ==
  /\ ring' = [ring EXCEPT ![r] = <<>>]
  /\ \A q \in Rings : Within(part'[q], part[q])
  /\ UNCHANGED lost

\* A reset: the rings are what the part reads as, but for a sector a cut tore
\* or the part will not read again.  The count of losses starts again.
Reset ==
  /\ part' \in Erased
  /\ ring' = part'
  /\ lost' = [r \in Rings |-> 0]

Next ==
  \/ \E r \in Rings, session \in Sessions : Extend(r, session)
  \/ \E r, victim \in Rings, session \in Sessions : Recycle(r, victim, session)
  \/ \E r, victim \in Rings : SetAside(r, victim)
  \/ Clear
  \/ \E r \in Rings : GiveBack(r)
  \/ Reset

Spec == Init /\ [][Next]_vars
=============================================================================
