--------------------------- MODULE SectorAllocator ---------------------------
(***************************************************************************)
(* The sector pool: one flash partition shared by two log rings, the       *)
(* pilot's flights and the engineering capture's diagnostics.  The         *)
(* allocator keeps one label per sector in RAM and decides which sector a  *)
(* ring is handed next; it never touches flash.  The flash is here only as *)
(* what the next boot scan will read: the header of every sector.          *)
(*                                                                         *)
(* Source: firmware/core/store/sector_allocator.{h,cpp}; the scan is       *)
(* services/record_pool.cpp.                                               *)
(***************************************************************************)
EXTENDS Integers, FiniteSets

CONSTANTS
  SectorCount,   \* sector_count_: the sectors of the partition
  FloorSectors,  \* floor_sectors_: the flights sectors a capture may not take
  Sessions,      \* the session ids the two services name their runs with
  MaxSequence    \* bound on sequence_; 2^32 - 1 in the code

ASSUME SectorCountAssumption == SectorCount \in 1 .. 512
ASSUME FloorAssumption == FloorSectors \in Nat
ASSUME MaxSequenceAssumption == MaxSequence \in Nat

VARIABLES
  label,     \* owner_of_, sequence_of_, session_id_of_, session_start_
  spare,     \* spares_: the sector each ring has set aside
  lost,      \* lost_sectors_: sectors recycled under the session being written
  sequence,  \* sequence_: the last number a claim was given
  newest,    \* newest_: the sector that claim took
  claimed,   \* claimed_: some sector of the partition carries a label
  header     \* the part: what the head of each sector decodes to

allocatorVars == <<label, spare, lost, sequence, newest, claimed>>
vars == <<label, spare, lost, sequence, newest, claimed, header>>

Rings == {"flights", "diagnostics"}
Owners == Rings \cup {"free", "quarantined"}
Sectors == 0 .. SectorCount - 1

Label == [owner : Owners, sequence : Nat, session : Sessions \cup {0}, start : BOOLEAN]
Spare == [sector : Sectors, reserved : BOOLEAN, erased : BOOLEAN]

Unlabelled(owner) ==
  [owner |-> owner, sequence |-> 0, session |-> 0, start |-> FALSE]
Free == Unlabelled("free")
Quarantined == Unlabelled("quarantined")
NoSpare == [sector |-> 0, reserved |-> FALSE, erased |-> FALSE]

-----------------------------------------------------------------------------
(* What the labels say.                                                    *)

OwnedBy(r) == {s \in Sectors : label[s].owner = r}
InSession(r, session) == {s \in OwnedBy(r) : label[s].session = session}
OwnsSession(r, session) == InSession(r, session) # {}
Above(S, number) == {s \in S : label[s].sequence > number}

\* The scans run forward and keep the last of equals.
Highest(S) == CHOOSE s \in S : \A t \in S :
  \/ label[t].sequence < label[s].sequence
  \/ label[t].sequence = label[s].sequence /\ t <= s
Lowest(S) == CHOOSE s \in S : \A t \in S :
  \/ label[t].sequence > label[s].sequence
  \/ label[t].sequence = label[s].sequence /\ t <= s

Frontier(r) == Highest(OwnedBy(r))
Oldest(r) == Lowest(Above(OwnedBy(r), 0))

-----------------------------------------------------------------------------
(* The policy: which sector a ring is handed.                              *)

Reserved == {spare[r].sector : r \in {q \in Rings : spare[q].reserved}}
Available == OwnedBy("free") \ Reserved

\* Steps from the sector after the newest, round the partition.
Forward(s) == (s - (IF claimed THEN newest + 1 ELSE 0)) % SectorCount

NextFree(s) ==
  /\ s \in Available
  /\ \A t \in Available : Forward(s) <= Forward(t)

\* Mutant of Evictable: the sector being written into may go too.
EvictableToTheLast(r) == Above(OwnedBy(r), 0) # {}
Evictable(r) ==
  /\ Above(OwnedBy(r), 0) # {}
  /\ Oldest(r) # Frontier(r)

AboveFloor == Cardinality(OwnedBy("flights")) > FloorSectors

\* The ring whose oldest sector pays when nothing is free.
Victim(r) ==
  IF r = "flights"
  THEN IF Evictable("diagnostics") THEN "diagnostics" ELSE "flights"
  ELSE IF AboveFloor /\ Evictable("flights") THEN "flights" ELSE "diagnostics"

Chosen(r, s) ==
  \/ NextFree(s)
  \/ /\ Available = {}
     /\ Evictable(Victim(r))
     /\ s = Oldest(Victim(r))

-----------------------------------------------------------------------------
(* The operations.                                                         *)

\* Mutant of UnderFrontier: any recycled sector is counted as a loss.
UnderAnySession(s) == label[s].owner \in Rings
\* A sector of the session its owner's frontier belongs to is a loss.
UnderFrontier(s) ==
  /\ label[s].owner \in Rings
  /\ label[s].session = label[Frontier(label[s].owner)].session

NoteTaken(s) ==
  lost' = IF UnderFrontier(s) THEN [lost EXCEPT ![label[s].owner] = @ + 1] ELSE lost

\* Mutant of Take: every sector says its session opened there.
TakeAlwaysStarting(r, session, s) ==
  /\ sequence < MaxSequence
  /\ sequence' = sequence + 1
  /\ label' = [label EXCEPT ![s] =
       [owner |-> r, sequence |-> sequence + 1, session |-> session, start |-> TRUE]]
  /\ newest' = s
  /\ claimed' = TRUE

Take(r, session, s) ==
  /\ sequence < MaxSequence
  /\ sequence' = sequence + 1
  /\ label' = [label EXCEPT ![s] =
       [owner |-> r, sequence |-> sequence + 1, session |-> session,
        start |-> ~OwnsSession(r, session)]]
  /\ newest' = s
  /\ claimed' = TRUE

\* claim(): the ring's own spare first, else the policy's choice.
Claim(r, session, s) ==
  /\ IF spare[r].reserved THEN s = spare[r].sector ELSE Chosen(r, s)
  /\ NoteTaken(s)
  /\ Take(r, session, s)
  /\ spare' = [spare EXCEPT ![r] = NoSpare]

\* Mutant of Reserve: a sector taken for a spare is not counted as a loss.
ReserveUncounted(r, s) ==
  /\ Chosen(r, s)
  /\ spare' = [spare EXCEPT ![r] = [sector |-> s, reserved |-> TRUE, erased |-> FALSE]]
  /\ label' = [label EXCEPT ![s] = Free]
  /\ UNCHANGED lost

\* Mutant of Reserve: a sector that was free is taken to be erased.
ReserveFreeAsErased(r, s) ==
  /\ Chosen(r, s)
  /\ NoteTaken(s)
  /\ spare' = [spare EXCEPT ![r] =
       [sector |-> s, reserved |-> TRUE, erased |-> label[s].owner = "free"]]
  /\ label' = [label EXCEPT ![s] = Free]

Reserve(r, s) ==
  /\ Chosen(r, s)
  /\ NoteTaken(s)
  /\ spare' = [spare EXCEPT ![r] = [sector |-> s, reserved |-> TRUE, erased |-> FALSE]]
  /\ label' = [label EXCEPT ![s] = Free]

\* prepare(): names the sector to erase, the same one until the erase is noted.
Prepare(r, s) ==
  /\ ~spare[r].erased
  /\ \/ spare[r].reserved /\ s = spare[r].sector /\ UNCHANGED <<label, spare, lost>>
     \/ ~spare[r].reserved /\ Reserve(r, s)
  /\ UNCHANGED <<sequence, newest, claimed>>

NoteErased(r) ==
  /\ spare' = IF spare[r].reserved THEN [spare EXCEPT ![r].erased = TRUE] ELSE spare
  /\ UNCHANGED <<label, lost, sequence, newest, claimed>>

Release(r) ==
  /\ label' = [s \in Sectors |-> IF label[s].owner = r THEN Free ELSE label[s]]
  /\ spare' = [spare EXCEPT ![r] = NoSpare]
  /\ UNCHANGED <<lost, sequence, newest, claimed>>

-----------------------------------------------------------------------------
(* The boot scan: note_sector() or quarantine() for every sector in turn.  *)
(* `found` is what each header read as; Free is a header that does not     *)
(* decode, which the scan passes over.                                     *)

Noted(found) == {s \in Sectors : found[s].owner \in Rings}

\* Mutant of NewestOf: the last sector noted, whatever its number.
LastNoted(found) ==
  IF Noted(found) = {} THEN 0
  ELSE CHOOSE s \in Noted(found) : \A t \in Noted(found) : t <= s

\* The counter resumes from the highest number noted, first of equals.
NewestOf(found) ==
  IF Noted(found) = {} THEN 0
  ELSE CHOOSE s \in Noted(found) : \A t \in Noted(found) :
         \/ found[t].sequence < found[s].sequence
         \/ found[t].sequence = found[s].sequence /\ s <= t
SequenceOf(found) == IF Noted(found) = {} THEN 0 ELSE found[NewestOf(found)].sequence

Boot(found) ==
  /\ label' = found
  /\ spare' = [r \in Rings |-> NoSpare]
  /\ lost' = [r \in Rings |-> 0]
  /\ sequence' = SequenceOf(found)
  /\ newest' = NewestOf(found)
  /\ claimed' = (Noted(found) # {})

-----------------------------------------------------------------------------
(* The part between the operations: the services erase and write headers.  *)

\* A claimed sector is erased, then labelled; the part may refuse either.
Labelled(r, session, s) ==
  /\ Claim(r, session, s)
  /\ \E reads \in {header[s], Free, label'[s]} : header' = [header EXCEPT ![s] = reads]

Prepared(r, s) == Prepare(r, s) /\ UNCHANGED header

SpareErased(r) ==
  /\ NoteErased(r)
  /\ header' = IF spare[r].reserved THEN [header EXCEPT ![spare[r].sector] = Free] ELSE header

\* Giving a ring back erases its sectors and every sector that is nobody's.
GivenBack(r) ==
  /\ Release(r)
  /\ header' = [s \in Sectors |-> IF label[s].owner \in {r, "free"} THEN Free ELSE header[s]]

\* A reset: every header reads as it is, but one a cut tore or the part will
\* not read again.  Several are several resets in a row.
Misread == {[header EXCEPT ![s] = reads] : s \in Sectors, reads \in {Free, Quarantined}}
Rescan == \E found \in {header} \cup Misread : header' = found /\ Boot(found)

-----------------------------------------------------------------------------
(* The walks: neither goes back to flash, neither scans the pool once a    *)
(* sector.                                                                 *)

NoSector == -1

\* session_run(): the next back-to-back sectors of one session.
SessionRun(r, above) ==
  LET rest == Above(OwnedBy(r), above)
      session == label[Lowest(rest)].session
      others == {label[s].sequence : s \in {t \in rest : label[t].session # session}}
      run == {s \in rest : /\ label[s].session = session
                           /\ \A until \in others : label[s].sequence < until}
  IN [session |-> session,
      sectors |-> Cardinality(run),
      last |-> label[Highest(run)].sequence]

\* session_sector(): the nth sector of a session, bisected on the label.
MatchingUpTo(S, number) == Cardinality({s \in S : label[s].sequence <= number})

\* Mutant of Bisect: the wrong side of the label that completes the count.
BisectShort(S, index) ==
  LET after == Cardinality(S) - 1 - index
      search[bounds \in Nat \X Nat] ==
        LET low == bounds[1]
            high == bounds[2]
            middle == low + (high - low) \div 2
        IN IF low >= high THEN low
           ELSE IF MatchingUpTo(S, middle) >= index THEN search[<<low, middle>>]
           ELSE search[<<middle + 1, high>>]
  IN search[<<label[Lowest(S)].sequence + index, label[Highest(S)].sequence - after>>]

Bisect(S, index) ==
  LET after == Cardinality(S) - 1 - index
      search[bounds \in Nat \X Nat] ==
        LET low == bounds[1]
            high == bounds[2]
            middle == low + (high - low) \div 2
        IN IF low >= high THEN low
           ELSE IF MatchingUpTo(S, middle) > index THEN search[<<low, middle>>]
           ELSE search[<<middle + 1, high>>]
  IN search[<<label[Lowest(S)].sequence + index, label[Highest(S)].sequence - after>>]

SessionSector(r, session, index) ==
  LET S == InSession(r, session)
      found == {s \in S : label[s].sequence = Bisect(S, index)}
  IN IF index >= Cardinality(S) \/ found = {} THEN NoSector
     ELSE CHOOSE s \in found : \A t \in found : s <= t

-----------------------------------------------------------------------------

Init ==
  /\ label = [s \in Sectors |-> Free]
  /\ spare = [r \in Rings |-> NoSpare]
  /\ lost = [r \in Rings |-> 0]
  /\ sequence = 0
  /\ newest = 0
  /\ claimed = FALSE
  /\ header = label

Next ==
  \/ \E r \in Rings, session \in Sessions, s \in Sectors : Labelled(r, session, s)
  \/ \E r \in Rings, s \in Sectors : Prepared(r, s)
  \/ \E r \in Rings : SpareErased(r)
  \/ \E r \in Rings : GivenBack(r)
  \/ Rescan

Spec == Init /\ [][Next]_vars

-----------------------------------------------------------------------------
(* Properties.                                                             *)

TypeOK ==
  /\ label \in [Sectors -> Label]
  /\ spare \in [Rings -> Spare]
  /\ lost \in [Rings -> Nat]
  /\ sequence \in Nat
  /\ newest \in Sectors
  /\ claimed \in BOOLEAN
  /\ header \in [Sectors -> Label]

\* No two sectors in use carry the same number, and none is above the counter,
\* neither in RAM nor in the headers the next boot will read: the one counter
\* orders everything the scan reads.
Ordered(labels) ==
  \A s \in Sectors : labels[s].owner \in Rings =>
    /\ labels[s].sequence \in 1 .. sequence
    /\ \A t \in Sectors \ {s} :
         labels[t].owner \in Rings => labels[t].sequence # labels[s].sequence

NumbersOrdered == Ordered(label) /\ Ordered(header)

\* A spare is nobody's: it carries no label and no other ring holds it.
SpareIsNobodys ==
  \A r \in Rings : spare[r].reserved =>
    /\ label[spare[r].sector] = Free
    /\ \A q \in Rings \ {r} : spare[q].reserved => spare[q].sector # spare[r].sector

\* Bisecting finds the sector counting would: exactly index sectors of the
\* session lie below it (session_sector, the gaps between labels included).
SectorByIndex ==
  \A r \in Rings, session \in Sessions :
    \A index \in 0 .. Cardinality(InSession(r, session)) - 1 :
      LET s == SessionSector(r, session, index)
      IN /\ s \in InSession(r, session)
         /\ Cardinality({t \in InSession(r, session) :
                           label[t].sequence < label[s].sequence}) = index

\* No claim and no spare takes the sector a ring is writing into, its own or
\* the other's: a frontier keeps its label until the ring is given back or the
\* device resets.
FrontierKept ==
  [][\A r \in Rings :
       OwnedBy(r) # {} /\ label'[Frontier(r)] # label[Frontier(r)]
       => Release(r) \/ Rescan]_vars

\* A sector leaves its ring in the order it was written: nothing a ring loses
\* is newer than anything it keeps.
OldestFirst ==
  [][\A s, t \in Sectors :
       /\ label[s].owner = label[t].owner /\ label[s].owner \in Rings
       /\ label'[s] # label[s] /\ label'[t] = label[t]
       => label[s].sequence < label[t].sequence \/ Rescan]_vars

\* The capture never brings the flights below the protected floor: a sector the
\* flights lose to a diagnostics claim or spare is one they held above it.
FloorKept ==
  [][\A s \in Sectors :
       /\ label[s].owner = "flights"
       /\ \/ label'[s].owner = "diagnostics"
          \/ /\ ~spare["diagnostics"].reserved
             /\ spare'["diagnostics"] = [sector |-> s, reserved |-> TRUE, erased |-> FALSE]
       => Cardinality(OwnedBy("flights")') >= FloorSectors \/ Rescan]_vars

\* A quarantined sector is never handed out and never given back.
QuarantineKept ==
  [][OwnedBy("quarantined")' # OwnedBy("quarantined") => Rescan]_vars
=============================================================================
