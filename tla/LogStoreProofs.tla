---------------------------- MODULE LogStoreProofs ----------------------------
(***************************************************************************)
(* What the log's storage keeps, for every pool, floor, partition and set  *)
(* of sessions, through power cuts and operations the part refuses: first  *)
(* the sector pool (SectorAllocator, and that it implements LogRings),     *)
(* then, over its invariant, the two record stores (RecordStore), and last *)
(* what their lists and reads return.                                      *)
(***************************************************************************)
EXTENDS RecordStore, SectorRings, FiniteSetTheorems, WellFoundedInduction, SequenceTheorems, TLAPS

-----------------------------------------------------------------------------
(* The scans find what they look for.                                      *)

\* A strict order on a finite set has a maximal element.
LEMMA FiniteMaximal ==
  ASSUME NEW S, IsFiniteSet(S), S # {}, NEW R,
         \A s \in S : <<s, s>> \notin R,
         \A s, t, u \in S : <<s, t>> \in R /\ <<t, u>> \in R => <<s, u>> \in R
  PROVE  \E s \in S : \A t \in S : <<t, s>> \notin R
<1> DEFINE Over(s) == {t \in S : <<t, s>> \in R}
           Family == {Over(s) : s \in S}
<1>1. Family \subseteq FiniteSubsetsOf(S) /\ Family # {}
  <2>1. FiniteSubsetsOf(S) = SUBSET S
    BY FS_FiniteSubsetsOfFinite
  <2>2. Family \subseteq SUBSET S
    OBVIOUS
  <2>3. Family # {}
    <3>1. PICK s : s \in S
      OBVIOUS
    <3>2. Over(s) \in Family
      BY <3>1
    <3>3. QED
      BY <3>2
  <2>4. QED
    BY <2>1, <2>2, <2>3
<1> HIDE DEF Family
<1>2. PICK U \in Family : \A V \in Family : ~ (<<V, U>> \in StrictSubsetOrdering(S))
  BY <1>1, FS_StrictSubsetOrderingWellFounded, WFMin
<1>3. PICK s \in S : U = Over(s)
  BY DEF Family
<1>4. ASSUME NEW t \in S, <<t, s>> \in R
      PROVE  FALSE
  <2>1. Over(t) \in Family
    BY DEF Family
  <2>2. Over(t) \subseteq Over(s) /\ t \in Over(s) /\ t \notin Over(t)
    BY <1>4
  <2>3. <<Over(t), U>> \in StrictSubsetOrdering(S)
    BY <2>2, <1>3 DEF StrictSubsetOrdering
  <2>4. QED
    BY <1>2, <2>1, <2>3
<1>5. QED
  BY <1>4

LEMMA SectorsFinite ==
  /\ IsFiniteSet(Sectors)
  /\ \A S \in SUBSET Sectors : IsFiniteSet(S)
<1>1. IsFiniteSet(Sectors)
  BY SectorCountAssumption, FS_Interval DEF Sectors
<1>2. QED
  BY <1>1, FS_Subset

LEMMA HighestExists ==
  ASSUME TypeOK, NEW S \in SUBSET Sectors, S # {}
  PROVE  /\ Highest(S) \in S
         /\ \A t \in S : label[t].sequence <= label[Highest(S)].sequence
<1> DEFINE R == {p \in Sectors \X Sectors :
                   \/ label[p[1]].sequence > label[p[2]].sequence
                   \/ label[p[1]].sequence = label[p[2]].sequence /\ p[1] > p[2]}
<1>1. \A s \in Sectors : label[s].sequence \in Nat /\ s \in Nat
  BY SectorCountAssumption DEF TypeOK, Label, Sectors
<1>2. \A s \in S : <<s, s>> \notin R
  BY <1>1
<1>3. \A s, t, u \in S : <<s, t>> \in R /\ <<t, u>> \in R => <<s, u>> \in R
  BY <1>1
<1>0. \A s, t \in Sectors :
        <<t, s>> \in R <=> ( \/ label[t].sequence > label[s].sequence
                             \/ label[t].sequence = label[s].sequence /\ t > s )
  OBVIOUS
<1>4. IsFiniteSet(S)
  BY SectorsFinite
<1> HIDE DEF R
<1>5. \E s \in S : \A t \in S : <<t, s>> \notin R
  BY <1>2, <1>3, <1>4, FiniteMaximal
<1>6. PICK s \in S : \A t \in S : <<t, s>> \notin R
  BY <1>5
<1>7. ASSUME NEW t \in S
      PROVE  label[t].sequence < label[s].sequence \/
              (label[t].sequence = label[s].sequence /\ t <= s)
  <2>1. s \in Sectors /\ t \in Sectors
    OBVIOUS
  <2>2. ~ ( \/ label[t].sequence > label[s].sequence
            \/ label[t].sequence = label[s].sequence /\ t > s )
    BY <1>0, <1>6, <2>1
  <2>3. QED
    BY <1>1, <2>1, <2>2
<1>8. /\ Highest(S) \in S
      /\ \A t \in S : label[t].sequence < label[Highest(S)].sequence \/
              (label[t].sequence = label[Highest(S)].sequence /\ t <= Highest(S))
  BY <1>7 DEF Highest
<1>9. QED
  BY <1>1, <1>8

LEMMA LowestExists ==
  ASSUME TypeOK, NEW S \in SUBSET Sectors, S # {}
  PROVE  /\ Lowest(S) \in S
         /\ \A t \in S : label[Lowest(S)].sequence <= label[t].sequence
<1> DEFINE R == {p \in Sectors \X Sectors :
                   \/ label[p[1]].sequence < label[p[2]].sequence
                   \/ label[p[1]].sequence = label[p[2]].sequence /\ p[1] > p[2]}
<1>1. \A s \in Sectors : label[s].sequence \in Nat /\ s \in Nat
  BY SectorCountAssumption DEF TypeOK, Label, Sectors
<1>2. \A s \in S : <<s, s>> \notin R
  BY <1>1
<1>3. \A s, t, u \in S : <<s, t>> \in R /\ <<t, u>> \in R => <<s, u>> \in R
  BY <1>1
<1>0. \A s, t \in Sectors :
        <<t, s>> \in R <=> ( \/ label[t].sequence < label[s].sequence
                             \/ label[t].sequence = label[s].sequence /\ t > s )
  OBVIOUS
<1>4. IsFiniteSet(S)
  BY SectorsFinite
<1> HIDE DEF R
<1>5. \E s \in S : \A t \in S : <<t, s>> \notin R
  BY <1>2, <1>3, <1>4, FiniteMaximal
<1>6. PICK s \in S : \A t \in S : <<t, s>> \notin R
  BY <1>5
<1>7. ASSUME NEW t \in S
      PROVE  label[t].sequence > label[s].sequence \/
              (label[t].sequence = label[s].sequence /\ t <= s)
  <2>1. s \in Sectors /\ t \in Sectors
    OBVIOUS
  <2>2. ~ ( \/ label[t].sequence < label[s].sequence
            \/ label[t].sequence = label[s].sequence /\ t > s )
    BY <1>0, <1>6, <2>1
  <2>3. QED
    BY <1>1, <2>1, <2>2
<1>8. /\ Lowest(S) \in S
      /\ \A t \in S : label[t].sequence > label[Lowest(S)].sequence \/
              (label[t].sequence = label[Lowest(S)].sequence /\ t <= Lowest(S))
  BY <1>7 DEF Lowest
<1>9. QED
  BY <1>1, <1>8

\* The boot scan leaves the counter at the highest number it noted.
LEMMA NewestExists ==
  ASSUME NEW found \in [Sectors -> Label]
  PROVE  /\ NewestOf(found) \in Sectors
         /\ Noted(found) # {} => NewestOf(found) \in Noted(found)
         /\ SequenceOf(found) \in Nat
         /\ \A t \in Noted(found) : found[t].sequence <= SequenceOf(found)
<1> DEFINE R == {p \in Sectors \X Sectors :
                   \/ found[p[1]].sequence > found[p[2]].sequence
                   \/ found[p[1]].sequence = found[p[2]].sequence /\ p[1] < p[2]}
           S == Noted(found)
<1>1. \A s \in Sectors : found[s].sequence \in Nat /\ s \in Nat
  BY SectorCountAssumption DEF Label, Sectors
<1>2. CASE S = {}
  BY <1>2, SectorCountAssumption DEF NewestOf, SequenceOf, Sectors
<1>3. CASE S # {}
  <2>1. S \subseteq Sectors /\ IsFiniteSet(S)
    BY SectorsFinite DEF Noted
  <2>2. \A s \in S : <<s, s>> \notin R
    BY <1>1, <2>1
  <2>3. \A s, t, u \in S : <<s, t>> \in R /\ <<t, u>> \in R => <<s, u>> \in R
    BY <1>1, <2>1
  <2>10. \A s, t \in Sectors :
           <<t, s>> \in R <=> ( \/ found[t].sequence > found[s].sequence
                                \/ found[t].sequence = found[s].sequence /\ t < s )
    OBVIOUS
  <2> HIDE DEF R, S
  <2>4. \E s \in S : \A t \in S : <<t, s>> \notin R
    BY <1>3, <2>1, <2>2, <2>3, FiniteMaximal
  <2>5. PICK s \in S : \A t \in S : <<t, s>> \notin R
    BY <2>4
  <2>6. ASSUME NEW t \in S
        PROVE  found[t].sequence < found[s].sequence \/
                (found[t].sequence = found[s].sequence /\ s <= t)
    <3>1. s \in Sectors /\ t \in Sectors
      BY <2>1
    <3>2. ~ ( \/ found[t].sequence > found[s].sequence
              \/ found[t].sequence = found[s].sequence /\ t < s )
      BY <2>5, <2>10, <3>1
    <3>3. QED
      BY <1>1, <3>1, <3>2
  <2>7. /\ NewestOf(found) \in S
        /\ \A t \in S : found[t].sequence < found[NewestOf(found)].sequence \/
              (found[t].sequence = found[NewestOf(found)].sequence /\ NewestOf(found) <= t)
    BY <1>3, <2>6 DEF NewestOf, S
  <2>8. SequenceOf(found) = found[NewestOf(found)].sequence
    BY <1>3 DEF SequenceOf, S
  <2>9. QED
    BY <1>1, <2>1, <2>7, <2>8 DEF S
<1>4. QED
  BY <1>2, <1>3

-----------------------------------------------------------------------------
(* What a ring can be handed.                                              *)

\* The sector a claim or a spare may name: the ring's spare, or the policy's.
Handed(r, s) == IF spare[r].reserved THEN s = spare[r].sector ELSE Chosen(r, s)

\* It was free and no other ring's spare, or it was the oldest of the ring
\* that pays, and not the sector that ring is writing into.
LEMMA HandedFrom ==
  ASSUME TypeOK, NumbersOrdered, SpareIsNobodys,
         NEW r \in Rings, NEW s \in Sectors, Handed(r, s)
  PROVE  \/ /\ label[s].owner = "free"
            /\ \A q \in Rings \ {r} : spare[q].reserved => spare[q].sector # s
         \/ /\ ~spare[r].reserved
            /\ Victim(r) \in Rings
            /\ label[s].owner = Victim(r)
            /\ Evictable(Victim(r))
            /\ s # Frontier(Victim(r))
            /\ \A t \in OwnedBy(Victim(r)) \ {s} : label[s].sequence < label[t].sequence
<1> DEFINE v == Victim(r)
<1>1. CASE spare[r].reserved
  BY <1>1 DEF Handed, SpareIsNobodys, Free, Unlabelled
<1>2. CASE ~spare[r].reserved /\ NextFree(s)
  <2>1. s \in OwnedBy("free") /\ s \notin Reserved
    BY <1>2 DEF NextFree, Available
  <2>2. \A q \in Rings : spare[q].reserved => spare[q].sector # s
    BY <2>1 DEF Reserved
  <2>3. QED
    BY <2>1, <2>2 DEF OwnedBy
<1>3. CASE ~spare[r].reserved /\ Evictable(v) /\ s = Oldest(v)
  <2> DEFINE S == Above(OwnedBy(v), 0)
  <2>1. v \in Rings
    BY DEF Victim, Rings
  <2>2. S \in SUBSET Sectors /\ S # {} /\ s = Lowest(S)
    BY <1>3 DEF Evictable, Oldest, Above, OwnedBy
  <2>3. s \in S /\ \A t \in S : label[s].sequence <= label[t].sequence
    BY <2>2, LowestExists
  <2>4. label[s].owner = v /\ s # Frontier(v)
    BY <1>3, <2>3 DEF Above, OwnedBy, Evictable
  <2>5. ASSUME NEW t \in OwnedBy(v) \ {s}
        PROVE  label[s].sequence < label[t].sequence
    <3>1. t \in Sectors /\ label[t].owner = v
      BY DEF OwnedBy
    <3>2. /\ label[t].sequence \in 1 .. sequence
          /\ label[s].sequence \in 1 .. sequence
          /\ label[t].sequence # label[s].sequence
      BY <2>1, <2>4, <3>1 DEF NumbersOrdered, Ordered
    <3>3. t \in S
      BY <3>2 DEF Above, TypeOK
    <3>4. QED
      BY <2>3, <3>2, <3>3 DEF TypeOK
  <2>6. QED
    BY <1>3, <2>1, <2>4, <2>5
<1>4. QED
  BY <1>1, <1>2, <1>3 DEF Handed, Chosen

-----------------------------------------------------------------------------
(* The inductive invariant: the labels and the headers they come from are  *)
(* ordered by the one counter, and a spare is out of the pool.             *)

IInv == TypeOK /\ NumbersOrdered /\ SpareIsNobodys

LEMMA Constants == Free \in Label /\ Quarantined \in Label /\ NoSpare \in Spare
BY SectorCountAssumption
DEF Free, Quarantined, Unlabelled, Label, Owners, NoSpare, Spare, Sectors

\* A label that reads as nobody's does not disturb the order.
LEMMA OrderedWithout ==
  ASSUME NEW labels \in [Sectors -> Label], NEW after \in [Sectors -> Label],
         sequence \in Nat, Ordered(labels),
         \A s \in Sectors : after[s].owner \in Rings => after[s] = labels[s]
  PROVE  Ordered(after)
BY DEF Ordered

LEMMA InitIInv == Init => IInv
<1> SUFFICES ASSUME Init PROVE IInv
  OBVIOUS
<1>1. /\ label = [s \in Sectors |-> Free] /\ header = label
      /\ spare = [r \in Rings |-> NoSpare] /\ lost = [r \in Rings |-> 0]
      /\ sequence = 0 /\ newest = 0 /\ claimed = FALSE
  BY DEF Init
<1>2. TypeOK
  <2>1. newest \in Sectors
    BY <1>1, SectorCountAssumption DEF Sectors
  <2>2. label \in [Sectors -> Label] /\ spare \in [Rings -> Spare]
    BY <1>1, Constants
  <2>3. lost \in [Rings -> Nat]
    BY <1>1
  <2>4. QED
    BY <1>1, <2>1, <2>2, <2>3 DEF TypeOK
<1>3. NumbersOrdered
  BY <1>1 DEF NumbersOrdered, Ordered, Free, Unlabelled, Rings
<1>4. SpareIsNobodys
  BY <1>1 DEF SpareIsNobodys, NoSpare
<1>5. QED
  BY <1>2, <1>3, <1>4 DEF IInv

LEMMA NoteTakenType ==
  ASSUME TypeOK, NEW s \in Sectors, NoteTaken(s)
  PROVE  lost' \in [Rings -> Nat]
<1>1. CASE UnderFrontier(s)
  <2>1. label[s].owner \in Rings
    BY <1>1 DEF UnderFrontier
  <2>2. lost[label[s].owner] + 1 \in Nat
    BY <2>1 DEF TypeOK
  <2>3. QED
    BY <1>1, <2>1, <2>2 DEF TypeOK, NoteTaken
<1>2. CASE ~UnderFrontier(s)
  BY <1>2 DEF TypeOK, NoteTaken
<1>3. QED
  BY <1>1, <1>2

LEMMA ClaimIInv ==
  ASSUME IInv, NEW r \in Rings, NEW session \in Sessions, NEW s \in Sectors,
         Labelled(r, session, s)
  PROVE  IInv'
<1> USE DEF IInv
<1>0. Claim(r, session, s)
  BY DEF Labelled
<1>1. Handed(r, s) /\ Take(r, session, s) /\ spare' = [spare EXCEPT ![r] = NoSpare]
  BY <1>0 DEF Claim, Handed
<1>2. /\ label' = [label EXCEPT ![s] =
           [owner |-> r, sequence |-> sequence + 1, session |-> session,
            start |-> ~OwnsSession(r, session)]]
      /\ sequence' = sequence + 1 /\ newest' = s /\ claimed' = TRUE
  BY <1>1 DEF Take
<1>3. TypeOK'
  <2>1. OwnsSession(r, session) \in BOOLEAN /\ session \in Sessions \cup {0}
    BY DEF OwnsSession
  <2>2. lost' \in [Rings -> Nat]
    BY <1>0, NoteTakenType DEF Claim
  <2>3. [owner |-> r, sequence |-> sequence + 1, session |-> session,
         start |-> ~OwnsSession(r, session)] \in Label
    BY <2>1 DEF TypeOK, Label, Owners
  <2>4. label' \in [Sectors -> Label]
    BY <1>2, <2>3 DEF TypeOK
  <2>5. spare' \in [Rings -> Spare]
    BY <1>1, Constants DEF TypeOK
  <2>6. header' \in [Sectors -> Label]
    BY <2>4, Constants DEF Labelled, TypeOK
  <2>7. QED
    BY <1>2, <2>2, <2>4, <2>5, <2>6 DEF TypeOK
<1>4. NumbersOrdered'
  <2>1. /\ label'[s].owner = r /\ label'[s].sequence = sequence + 1
        /\ \A t \in Sectors \ {s} : label'[t] = label[t]
    BY <1>2 DEF TypeOK
  <2>2. Ordered(label)'
    <3>1. \A t \in Sectors \ {s} :
            label[t].owner \in Rings => label[t].sequence \in 1 .. sequence
      BY DEF NumbersOrdered, Ordered
    <3>2. QED
      BY <1>2, <2>1, <3>1 DEF TypeOK, NumbersOrdered, Ordered
  <2>3. Ordered(header)'
    <3>1. /\ \A t \in Sectors \ {s} : header'[t] = header[t]
          /\ header'[s] \in {header[s], Free, label'[s]}
      BY DEF Labelled, TypeOK
    <3>2. \A t \in Sectors : header[t].owner \in Rings => header[t].sequence \in 1 .. sequence
      BY DEF NumbersOrdered, Ordered
    <3>3. Free.owner \notin Rings
      BY DEF Free, Unlabelled, Rings
    <3>4. QED
      BY <1>2, <2>1, <3>1, <3>2, <3>3 DEF TypeOK, NumbersOrdered, Ordered
  <2>4. QED
    BY <2>2, <2>3 DEF NumbersOrdered
<1>5. SpareIsNobodys'
  <2> SUFFICES ASSUME NEW q \in Rings, spare'[q].reserved
               PROVE  /\ label'[spare'[q].sector] = Free
                      /\ \A p \in Rings \ {q} :
                           spare'[p].reserved => spare'[p].sector # spare'[q].sector
    BY DEF SpareIsNobodys
  <2>1. q # r /\ spare'[q] = spare[q]
    BY <1>1 DEF TypeOK, NoSpare
  <2>2. spare[q].sector \in Sectors /\ label[spare[q].sector] = Free
    BY <2>1 DEF TypeOK, Spare, SpareIsNobodys
  <2>3. spare[q].sector # s
    BY <1>1, <2>1, <2>2, HandedFrom DEF Free, Unlabelled, Rings
  <2>4. \A p \in Rings \ {q} : p = r
    BY <2>1 DEF Rings
  <2>5. QED
    BY <1>1, <1>2, <2>1, <2>2, <2>3, <2>4 DEF TypeOK, NoSpare
<1>6. QED
  BY <1>3, <1>4, <1>5

LEMMA PrepareIInv ==
  ASSUME IInv, NEW r \in Rings, NEW s \in Sectors, Prepared(r, s)
  PROVE  IInv'
<1> USE DEF IInv, Prepared
<1>1. CASE spare[r].reserved
  BY <1>1 DEF Prepare, TypeOK, NumbersOrdered, Ordered, SpareIsNobodys
<1>2. CASE ~spare[r].reserved
  <2>1. /\ Handed(r, s)
        /\ spare' = [spare EXCEPT ![r] = [sector |-> s, reserved |-> TRUE, erased |-> FALSE]]
        /\ label' = [label EXCEPT ![s] = Free]
        /\ UNCHANGED <<sequence, newest, claimed, header>>
    BY <1>2 DEF Prepare, Reserve, Handed
  <2>2. TypeOK'
    <3>1. lost' \in [Rings -> Nat]
      BY <1>2, NoteTakenType DEF Prepare, Reserve
    <3>2. /\ [sector |-> s, reserved |-> TRUE, erased |-> FALSE] \in Spare
          /\ Free \in Label
      BY DEF Spare, Free, Unlabelled, Label, Owners
    <3>3. QED
      BY <2>1, <3>1, <3>2 DEF TypeOK
  <2>3. NumbersOrdered'
    <3>1. \A t \in Sectors : label'[t].owner \in Rings => label'[t] = label[t]
      BY <2>1 DEF TypeOK, Free, Unlabelled, Rings
    <3>2. Ordered(label')
      BY <2>2, <3>1, OrderedWithout DEF TypeOK, NumbersOrdered
    <3>3. QED
      BY <2>1, <3>2 DEF NumbersOrdered, Ordered
  <2>4. SpareIsNobodys'
    <3> SUFFICES ASSUME NEW q \in Rings, spare'[q].reserved
                 PROVE  /\ label'[spare'[q].sector] = Free
                        /\ \A p \in Rings \ {q} :
                             spare'[p].reserved => spare'[p].sector # spare'[q].sector
      BY DEF SpareIsNobodys
    <3>1. spare'[r].sector = s /\ \A p \in Rings \ {r} : spare'[p] = spare[p]
      BY <2>1 DEF TypeOK
    <3>2. ASSUME NEW p \in Rings \ {r}, spare[p].reserved
          PROVE  /\ spare[p].sector \in Sectors
                 /\ label[spare[p].sector] = Free
                 /\ spare[p].sector # s
      <4>1. spare[p].sector \in Sectors /\ label[spare[p].sector] = Free
        BY <3>2 DEF TypeOK, Spare, SpareIsNobodys
      <4>2. QED
        BY <2>1, <3>2, <4>1, HandedFrom DEF Free, Unlabelled, Rings
    <3>3. label'[spare'[q].sector] = Free
      BY <2>1, <3>1, <3>2 DEF TypeOK
    <3>4. \A p \in Rings \ {q} : spare'[p].reserved => spare'[p].sector # spare'[q].sector
      BY <3>1, <3>2 DEF Rings
    <3>5. QED
      BY <3>3, <3>4
  <2>5. QED
    BY <2>2, <2>3, <2>4
<1>3. QED
  BY <1>1, <1>2

LEMMA SpareErasedIInv ==
  ASSUME IInv, NEW r \in Rings, SpareErased(r)
  PROVE  IInv'
<1> USE DEF IInv, SpareErased, NoteErased
<1>1. \A q \in Rings : /\ spare'[q].reserved = spare[q].reserved
                       /\ spare'[q].sector = spare[q].sector
  BY DEF TypeOK, Spare
<1>2. TypeOK'
  <2>1. spare' \in [Rings -> Spare]
    BY DEF TypeOK, Spare
  <2>2. header' \in [Sectors -> Label]
    BY Constants DEF TypeOK
  <2>3. QED
    BY <2>1, <2>2 DEF TypeOK
<1>3. NumbersOrdered'
  <2>1. \A t \in Sectors : header'[t].owner \in Rings => header'[t] = header[t]
    BY DEF TypeOK, Free, Unlabelled, Rings
  <2>2. Ordered(header')
    <3>1. header \in [Sectors -> Label] /\ header' \in [Sectors -> Label]
      BY <1>2 DEF TypeOK
    <3>2. sequence \in Nat /\ Ordered(header)
      BY DEF TypeOK, NumbersOrdered
    <3> HIDE DEF IInv, SpareErased, NoteErased
    <3>3. QED
      BY <2>1, <3>1, <3>2, OrderedWithout
  <2>3. QED
    BY <2>2 DEF NumbersOrdered, Ordered
<1>4. SpareIsNobodys'
  BY <1>1 DEF SpareIsNobodys
<1>5. QED
  BY <1>2, <1>3, <1>4

LEMMA GivenBackIInv ==
  ASSUME IInv, NEW r \in Rings, GivenBack(r)
  PROVE  IInv'
<1> USE DEF IInv, GivenBack, Release
<1>1. TypeOK'
  <2>1. label' \in [Sectors -> Label] /\ header' \in [Sectors -> Label]
    BY Constants DEF TypeOK
  <2>2. spare' \in [Rings -> Spare]
    BY Constants DEF TypeOK
  <2>3. QED
    BY <2>1, <2>2 DEF TypeOK
<1>2. NumbersOrdered'
  <2>1. /\ \A t \in Sectors : label'[t].owner \in Rings => label'[t] = label[t]
        /\ \A t \in Sectors : header'[t].owner \in Rings => header'[t] = header[t]
    BY DEF Free, Unlabelled, Rings
  <2>2. Ordered(label') /\ Ordered(header')
    BY <1>1, <2>1, OrderedWithout DEF TypeOK, NumbersOrdered
  <2>3. QED
    BY <2>2 DEF NumbersOrdered, Ordered
<1>3. SpareIsNobodys'
  <2>1. \A q \in Rings : spare'[q].reserved => q # r /\ spare'[q] = spare[q]
    BY DEF TypeOK, NoSpare
  <2>2. \A q \in Rings : spare[q].reserved =>
          spare[q].sector \in Sectors /\ label[spare[q].sector] = Free
    BY DEF TypeOK, Spare, SpareIsNobodys
  <2>3. \A s \in Sectors : label[s] = Free => label'[s] = Free
    BY DEF TypeOK
  <2>4. QED
    BY <2>1, <2>2, <2>3 DEF SpareIsNobodys
<1>4. QED
  BY <1>1, <1>2, <1>3

LEMMA RescanIInv ==
  ASSUME IInv, Rescan
  PROVE  IInv'
<1> USE DEF IInv
<1>0. PICK found \in {header} \cup Misread : header' = found /\ Boot(found)
  BY DEF Rescan
<1>1. /\ Boot(header')
      /\ \/ header' = header
         \/ \E s \in Sectors : \E reads \in {Free, Quarantined} :
              header' = [header EXCEPT ![s] = reads]
  BY <1>0 DEF Misread
<1>2. header' \in [Sectors -> Label]
  BY <1>1, Constants DEF TypeOK
<1>3. \A t \in Sectors : header'[t].owner \in Rings => header'[t] = header[t]
  BY <1>1 DEF TypeOK, Free, Quarantined, Unlabelled, Rings
<1>4. /\ label' = header' /\ sequence' = SequenceOf(header') /\ newest' = NewestOf(header')
      /\ spare' = [r \in Rings |-> NoSpare] /\ lost' = [r \in Rings |-> 0]
      /\ claimed' = (Noted(header') # {})
  BY <1>1 DEF Boot
<1>5. /\ NewestOf(header') \in Sectors /\ SequenceOf(header') \in Nat
      /\ \A t \in Noted(header') : header'[t].sequence <= SequenceOf(header')
  BY <1>2, NewestExists
<1>6. TypeOK'
  BY <1>2, <1>4, <1>5, Constants DEF TypeOK
<1>7. Ordered(header')
  BY <1>2, <1>3, OrderedWithout DEF TypeOK, NumbersOrdered
<1>8. Ordered(header)'
  <2> SUFFICES ASSUME NEW t \in Sectors, header'[t].owner \in Rings
               PROVE  /\ header'[t].sequence \in 1 .. sequence'
                      /\ \A u \in Sectors \ {t} :
                           header'[u].owner \in Rings => header'[u].sequence # header'[t].sequence
    BY DEF Ordered
  <2>1. header'[t].sequence \in 1 .. sequence
    BY <1>7 DEF Ordered
  <2>2. header'[t].sequence <= sequence'
    BY <1>4, <1>5 DEF Noted
  <2>3. QED
    BY <1>4, <1>5, <1>7, <2>1, <2>2 DEF Ordered, TypeOK
<1>9. NumbersOrdered'
  BY <1>4, <1>8 DEF NumbersOrdered, Ordered
<1>10. SpareIsNobodys'
  BY <1>4 DEF SpareIsNobodys, NoSpare
<1>11. QED
  BY <1>6, <1>9, <1>10

\* The invariant survives every operation and every reset.
LEMMA StepIInv == IInv /\ [Next]_vars => IInv'
<1> SUFFICES ASSUME IInv, [Next]_vars PROVE IInv'
  OBVIOUS
<1>1. ASSUME NEW r \in Rings, NEW session \in Sessions, NEW s \in Sectors, Labelled(r, session, s)
      PROVE  IInv'
  BY <1>1, ClaimIInv
<1>2. ASSUME NEW r \in Rings, NEW s \in Sectors, Prepared(r, s)
      PROVE  IInv'
  BY <1>2, PrepareIInv
<1>3. ASSUME NEW r \in Rings, SpareErased(r)
      PROVE  IInv'
  BY <1>3, SpareErasedIInv
<1>4. ASSUME NEW r \in Rings, GivenBack(r)
      PROVE  IInv'
  BY <1>4, GivenBackIInv
<1>5. CASE Rescan
  BY <1>5, RescanIInv
<1>6. CASE UNCHANGED vars
  BY <1>6 DEF vars, IInv, TypeOK, NumbersOrdered, Ordered, SpareIsNobodys
<1>7. QED
  BY <1>1, <1>2, <1>3, <1>4, <1>5, <1>6 DEF Next

LEMMA AlwaysIInv == Spec => []IInv
<1>1. QED
  BY InitIInv, StepIInv, PTL DEF Spec

\* Every sector carries a label of the code's shape, whatever the claims,
\* erases and resets (owner_of_, sequence_of_, session_id_of_, spares_).
THEOREM TypeCorrect == Spec => []TypeOK
<1>1. IInv => TypeOK
  BY DEF IInv
<1>2. QED
  BY <1>1, AlwaysIInv, PTL

\* One counter orders the partition: no two sectors in use carry one number,
\* and none is above the counter (take(), note_sector()).
THEOREM NumbersAlwaysOrdered == Spec => []NumbersOrdered
<1>1. IInv => NumbersOrdered
  BY DEF IInv
<1>2. QED
  BY <1>1, AlwaysIInv, PTL

\* A prepared spare carries no label and is never handed to the other ring
\* (prepare(), reserved(), next_free()).
THEOREM SpareAlwaysNobodys == Spec => []SpareIsNobodys
<1>1. IInv => SpareIsNobodys
  BY DEF IInv
<1>2. QED
  BY <1>1, AlwaysIInv, PTL

-----------------------------------------------------------------------------
(* What a step may never do.  Only a claim, a spare and the giving back of *)
(* a ring change a label; a claim and a spare change the one they hand.    *)

LEMMA HandedOnly ==
  ASSUME IInv, NEW r \in Rings, NEW s \in Sectors,
         \/ \E session \in Sessions : Claim(r, session, s)
         \/ Prepare(r, s)
  PROVE  /\ Handed(r, s)
         /\ \A t \in Sectors \ {s} : label'[t] = label[t]
         /\ label'[s].owner \in {r, "free"}
<1> USE DEF IInv
<1>1. CASE Prepare(r, s)
  <2>1. CASE spare[r].reserved
    BY <1>1, <2>1 DEF Prepare, Handed, SpareIsNobodys, Free, Unlabelled
  <2>2. CASE ~spare[r].reserved
    BY <1>1, <2>2 DEF Prepare, Reserve, Handed, TypeOK, Free, Unlabelled
  <2>3. QED
    BY <2>1, <2>2
<1>2. ASSUME NEW session \in Sessions, Claim(r, session, s)
      PROVE  /\ Handed(r, s)
             /\ \A t \in Sectors \ {s} : label'[t] = label[t]
             /\ label'[s].owner \in {r, "free"}
  BY <1>2 DEF Claim, Take, Handed, TypeOK
<1>3. QED
  BY <1>1, <1>2

\* Every step: a sector is handed, or a ring given back, or the device reset,
\* or no label changes.
LEMMA StepKinds ==
  ASSUME [Next]_vars
  PROVE  \/ \E r \in Rings, s \in Sectors :
              (\E session \in Sessions : Claim(r, session, s)) \/ Prepare(r, s)
         \/ \E r \in Rings : Release(r)
         \/ Rescan
         \/ UNCHANGED label
BY DEF Next, vars, Labelled, Prepared, SpareErased, GivenBack, NoteErased

\* A ring's frontier exists as soon as the ring owns a sector.
LEMMA FrontierExists ==
  ASSUME IInv, NEW r \in Rings, OwnedBy(r) # {}
  PROVE  Frontier(r) \in Sectors /\ label[Frontier(r)].owner = r
<1>1. OwnedBy(r) \in SUBSET Sectors
  BY DEF OwnedBy
<1>2. Frontier(r) \in OwnedBy(r)
  BY <1>1, HighestExists DEF IInv, Frontier
<1>3. QED
  BY <1>2 DEF OwnedBy

LEMMA StepFrontierKept ==
  ASSUME IInv, [Next]_vars, NEW r \in Rings,
         OwnedBy(r) # {}, label'[Frontier(r)] # label[Frontier(r)]
  PROVE  Release(r) \/ Rescan
<1>1. Frontier(r) \in Sectors /\ label[Frontier(r)].owner = r
  BY FrontierExists
<1>2. ASSUME NEW q \in Rings, NEW s \in Sectors,
             (\E session \in Sessions : Claim(q, session, s)) \/ Prepare(q, s)
      PROVE  FALSE
  <2>1. Handed(q, s) /\ \A t \in Sectors \ {s} : label'[t] = label[t]
    BY <1>2, HandedOnly
  <2>2. s = Frontier(r)
    BY <1>1, <2>1
  <2>3. label[s].owner = "free" \/ s # Frontier(label[s].owner)
    BY <2>1, HandedFrom DEF IInv
  <2>4. QED
    BY <1>1, <2>2, <2>3 DEF Rings
<1>3. ASSUME NEW q \in Rings, Release(q)
      PROVE  Release(r)
  <2>1. q = r
    BY <1>1, <1>3 DEF Release, IInv, TypeOK
  <2>2. QED
    BY <1>3, <2>1
<1>4. QED
  BY <1>2, <1>3, StepKinds

\* The sector a ring is writing into is never handed out: FrontierKept
\* (evictable(), lowest_above(), next_free()).
THEOREM FrontierAlwaysKept == Spec => FrontierKept
<1>1. IInv /\ [Next]_vars =>
        [\A r \in Rings :
           OwnedBy(r) # {} /\ label'[Frontier(r)] # label[Frontier(r)]
           => Release(r) \/ Rescan]_vars
  BY StepFrontierKept
<1>2. QED
  BY <1>1, AlwaysIInv, PTL DEF Spec, FrontierKept

LEMMA StepOldestFirst ==
  ASSUME IInv, [Next]_vars, NEW s \in Sectors, NEW t \in Sectors,
         label[s].owner = label[t].owner, label[s].owner \in Rings,
         label'[s] # label[s], label'[t] = label[t]
  PROVE  label[s].sequence < label[t].sequence \/ Rescan
<1>1. ASSUME NEW r \in Rings, NEW h \in Sectors,
             (\E session \in Sessions : Claim(r, session, h)) \/ Prepare(r, h)
      PROVE  label[s].sequence < label[t].sequence
  <2>1. Handed(r, h) /\ \A u \in Sectors \ {h} : label'[u] = label[u]
    BY <1>1, HandedOnly
  <2>2. h = s /\ t # s
    BY <2>1
  <2>3. \A u \in OwnedBy(label[s].owner) \ {s} : label[s].sequence < label[u].sequence
    <3>1. label[s].owner # "free"
      BY DEF Rings
    <3>2. QED
      BY <2>1, <2>2, <3>1, HandedFrom DEF IInv
  <2>4. t \in OwnedBy(label[s].owner)
    BY DEF OwnedBy
  <2>5. QED
    BY <2>2, <2>3, <2>4
<1>2. ASSUME NEW r \in Rings, Release(r)
      PROVE  FALSE
  <2>1. label[s].owner = r
    BY <1>2 DEF Release
  <2>2. label'[t] = Free /\ label[t].owner = r
    BY <1>2, <2>1 DEF Release
  <2>3. QED
    BY <2>2 DEF Free, Unlabelled, Rings
<1>3. QED
  BY <1>1, <1>2, StepKinds

\* A ring gives up its sectors in the order it wrote them: OldestFirst
\* (choose(), lowest_above()).
THEOREM AlwaysOldestFirst == Spec => OldestFirst
<1>1. IInv /\ [Next]_vars =>
        [\A s, t \in Sectors :
           /\ label[s].owner = label[t].owner /\ label[s].owner \in Rings
           /\ label'[s] # label[s] /\ label'[t] = label[t]
           => label[s].sequence < label[t].sequence \/ Rescan]_vars
  BY StepOldestFirst
<1>2. QED
  BY <1>1, AlwaysIInv, PTL DEF Spec, OldestFirst

\* Handing the capture a flights sector takes one, from above the floor.
LEMMA FloorHeld ==
  ASSUME IInv, NEW s \in Sectors, Handed("diagnostics", s),
         label[s].owner = "flights",
         \A t \in Sectors \ {s} : label'[t] = label[t],
         label'[s].owner # "flights"
  PROVE  Cardinality(OwnedBy("flights")') >= FloorSectors
<1>1. /\ ~spare["diagnostics"].reserved
      /\ Victim("diagnostics") = "flights"
  BY HandedFrom DEF IInv, Rings
<1>2. AboveFloor
  BY <1>1 DEF Victim
<1>3. OwnedBy("flights")' = OwnedBy("flights") \ {s} /\ s \in OwnedBy("flights")
  BY DEF OwnedBy
<1>4. IsFiniteSet(OwnedBy("flights"))
  BY SectorsFinite DEF OwnedBy
<1>5. /\ Cardinality(OwnedBy("flights")) \in Nat
      /\ Cardinality(OwnedBy("flights")') = Cardinality(OwnedBy("flights")) - 1
  BY <1>3, <1>4, FS_CardinalityType, FS_RemoveElement
<1>6. QED
  BY <1>2, <1>5, FloorAssumption DEF AboveFloor

LEMMA StepFloorKept ==
  ASSUME IInv, [Next]_vars, NEW s \in Sectors,
         label[s].owner = "flights",
         \/ label'[s].owner = "diagnostics"
         \/ /\ ~spare["diagnostics"].reserved
            /\ spare'["diagnostics"] = [sector |-> s, reserved |-> TRUE, erased |-> FALSE]
  PROVE  Cardinality(OwnedBy("flights")') >= FloorSectors \/ Rescan
<1> USE DEF Rings
<1>1. ASSUME NEW r \in Rings, NEW h \in Sectors, NEW session \in Sessions,
             Claim(r, session, h)
      PROVE  Cardinality(OwnedBy("flights")') >= FloorSectors
  <2>1. /\ Handed(r, h) /\ \A t \in Sectors \ {h} : label'[t] = label[t]
        /\ label'[h].owner \in {r, "free"}
    BY <1>1, HandedOnly
  <2>2. label'[s].owner = "diagnostics"
    BY <1>1 DEF Claim, NoSpare, IInv, TypeOK
  <2>3. h = s /\ r = "diagnostics"
    BY <2>1, <2>2
  <2>4. QED
    BY <2>1, <2>2, <2>3, FloorHeld
<1>2. ASSUME NEW r \in Rings, NEW h \in Sectors, Prepare(r, h)
      PROVE  Cardinality(OwnedBy("flights")') >= FloorSectors
  <2>1. /\ Handed(r, h) /\ \A t \in Sectors \ {h} : label'[t] = label[t]
        /\ label'[h].owner \in {r, "free"}
    BY <1>2, HandedOnly
  <2>2. CASE label'[s].owner = "diagnostics"
    <3>1. h = s /\ r = "diagnostics"
      BY <2>1, <2>2
    <3>2. QED
      BY <2>1, <2>2, <3>1, FloorHeld
  <2>3. CASE /\ ~spare["diagnostics"].reserved
             /\ spare'["diagnostics"] = [sector |-> s, reserved |-> TRUE, erased |-> FALSE]
    <3>1. ~spare[r].reserved /\ Reserve(r, h)
      BY <1>2, <2>3 DEF Prepare
    <3>2. h = s /\ r = "diagnostics" /\ label'[s].owner = "free"
      BY <2>3, <3>1 DEF Reserve, IInv, TypeOK, Free, Unlabelled
    <3>3. QED
      BY <2>1, <3>2, FloorHeld
  <2>4. QED
    BY <2>2, <2>3
<1>3. ASSUME NEW r \in Rings, NoteErased(r)
      PROVE  FALSE
  BY <1>3 DEF NoteErased, IInv, TypeOK
<1>4. ASSUME NEW r \in Rings, Release(r)
      PROVE  FALSE
  BY <1>4 DEF Release, IInv, TypeOK, NoSpare, Free, Unlabelled
<1>5. CASE UNCHANGED vars
  BY <1>5 DEF vars
<1>6. QED
  BY <1>1, <1>2, <1>3, <1>4, <1>5 DEF Next, Labelled, Prepared, SpareErased, GivenBack

\* Six hours of flights survive any capture: FloorKept (choose()).
THEOREM FloorAlwaysKept == Spec => FloorKept
<1>1. IInv /\ [Next]_vars =>
        [\A s \in Sectors :
           /\ label[s].owner = "flights"
           /\ \/ label'[s].owner = "diagnostics"
              \/ /\ ~spare["diagnostics"].reserved
                 /\ spare'["diagnostics"] = [sector |-> s, reserved |-> TRUE, erased |-> FALSE]
           => Cardinality(OwnedBy("flights")') >= FloorSectors \/ Rescan]_vars
  BY StepFloorKept
<1>2. QED
  BY <1>1, AlwaysIInv, PTL DEF Spec, FloorKept

LEMMA StepQuarantineKept ==
  ASSUME IInv, [Next]_vars, OwnedBy("quarantined")' # OwnedBy("quarantined")
  PROVE  Rescan
<1>1. ASSUME NEW r \in Rings, NEW s \in Sectors,
             (\E session \in Sessions : Claim(r, session, s)) \/ Prepare(r, s)
      PROVE  FALSE
  <2>1. /\ Handed(r, s) /\ \A t \in Sectors \ {s} : label'[t] = label[t]
        /\ label'[s].owner \in {r, "free"}
    BY <1>1, HandedOnly
  <2>2. label[s].owner \in Rings \cup {"free"}
    BY <2>1, HandedFrom DEF IInv
  <2>3. label[s].owner # "quarantined" /\ label'[s].owner # "quarantined"
    BY <2>1, <2>2 DEF Rings
  <2>4. QED
    BY <2>1, <2>3 DEF OwnedBy
<1>2. ASSUME NEW r \in Rings, Release(r)
      PROVE  FALSE
  <2>1. \A s \in Sectors : label'[s].owner = "quarantined" <=> label[s].owner = "quarantined"
    BY <1>2 DEF Release, Free, Unlabelled, Rings
  <2>2. QED
    BY <2>1 DEF OwnedBy
<1>3. CASE UNCHANGED label
  BY <1>3 DEF OwnedBy
<1>4. QED
  BY <1>1, <1>2, <1>3, StepKinds

\* Evidence a build cannot read is never erased by it: QuarantineKept
\* (quarantine(), next_free(), release()).
THEOREM QuarantineAlwaysKept == Spec => QuarantineKept
<1>1. IInv /\ [Next]_vars =>
        [OwnedBy("quarantined")' # OwnedBy("quarantined") => Rescan]_vars
  BY StepQuarantineKept
<1>2. QED
  BY <1>1, AlwaysIInv, PTL DEF Spec, QuarantineKept

-----------------------------------------------------------------------------
(* The walk by index.  Bisecting a count that only grows with the number   *)
(* it is asked for stops at the first number that reaches past the index.  *)

LEMMA LeastOf ==
  ASSUME NEW S \in SUBSET Nat, IsFiniteSet(S), S # {}
  PROVE  \E n \in S : \A m \in S : n <= m
<1> DEFINE R == {p \in Nat \X Nat : p[1] < p[2]}
<1>1. \A n, m \in S : <<m, n>> \in R <=> m < n
  OBVIOUS
<1>2. \A n \in S : <<n, n>> \notin R
  BY <1>1
<1>3. \A n, m, k \in S : <<n, m>> \in R /\ <<m, k>> \in R => <<n, k>> \in R
  BY <1>1
<1> HIDE DEF R
<1>4. PICK n \in S : \A m \in S : <<m, n>> \notin R
  BY <1>2, <1>3, FiniteMaximal
<1>5. \A m \in S : n <= m
  <2>1. \A m \in S : m \in Nat /\ ~ (m < n)
    BY <1>1, <1>4
  <2>2. n \in Nat
    OBVIOUS
  <2>3. QED
    BY <2>1, <2>2
<1>6. QED
  BY <1>5

LEMMA MatchingGrows ==
  ASSUME TypeOK, NEW S \in SUBSET Sectors, NEW below \in Int, NEW above \in Int, below <= above
  PROVE  /\ MatchingUpTo(S, below) \in Nat /\ MatchingUpTo(S, above) \in Nat
         /\ MatchingUpTo(S, below) <= MatchingUpTo(S, above)
<1> DEFINE UpTo(number) == {s \in S : label[s].sequence <= number}
<1>1. \A s \in S : label[s].sequence \in Nat
  BY DEF TypeOK, Label
<1>2. UpTo(below) \in SUBSET UpTo(above)
  BY <1>1
<1>3. IsFiniteSet(UpTo(above)) /\ IsFiniteSet(UpTo(below))
  BY SectorsFinite
<1>4. /\ Cardinality(UpTo(above)) \in Nat /\ Cardinality(UpTo(below)) \in Nat
      /\ Cardinality(UpTo(below)) <= Cardinality(UpTo(above))
  BY <1>2, <1>3, FS_CardinalityType, FS_Subset
<1>5. QED
  BY <1>4 DEF MatchingUpTo

\* A search of an interval for the first number that is Past, halving it at
\* each round: one round, and the search it defines over the numbers D.
Halved(D, Past, search) ==
  [bounds \in D \X D |->
     LET low == bounds[1]
         high == bounds[2]
         middle == low + (high - low) \div 2
     IN IF low >= high THEN low
        ELSE IF middle \in Past THEN search[<<low, middle>>]
        ELSE search[<<middle + 1, high>>]]
SearchOf(D, Past) == CHOOSE search : search = Halved(D, Past, search)

\* D has no holes, and what comes after a number that is Past is Past too.
Searchable(D, Past) ==
  /\ D \in SUBSET Nat
  /\ \A a, b \in D : a .. b \in SUBSET D
  /\ Past \in SUBSET D
  /\ \A a \in Past, b \in D : a <= b => b \in Past

\* From low to high, the first number that is Past, or high.
IsFirst(Past, low, high, number) ==
  /\ number \in low .. high
  /\ \A n \in low .. high - 1 : n \in Past <=> number <= n

LEMMA FirstExists ==
  ASSUME NEW D, NEW Past, Searchable(D, Past), NEW low \in D, NEW high \in D, low <= high
  PROVE  \E number : IsFirst(Past, low, high, number)
<1> DEFINE Here == {n \in low .. high - 1 : n \in Past}
<1>0. low \in Nat /\ high \in Nat /\ low .. high \in SUBSET D
  BY DEF Searchable
<1>1. CASE Here = {}
  <2>1. \A n \in low .. high - 1 : ~ (high <= n)
    BY <1>0
  <2>2. IsFirst(Past, low, high, high)
    BY <1>0, <1>1, <2>1 DEF IsFirst
  <2>3. QED
    BY <2>2
<1>2. CASE Here # {}
  <2>1. IsFiniteSet(low .. high - 1)
    BY <1>0, FS_Interval
  <2>2. Here \in SUBSET Nat /\ IsFiniteSet(Here)
    BY <1>0, <2>1, FS_Subset
  <2> HIDE DEF Here
  <2>3. PICK number \in Here : \A n \in Here : number <= n
    BY <1>2, <2>2, LeastOf
  <2>4. number \in low .. high - 1 /\ number \in Past
    BY DEF Here
  <2>5. ASSUME NEW n \in low .. high - 1
        PROVE  n \in Past <=> number <= n
    <3>1. n \in D
      BY <1>0
    <3>2. n \in Past => number <= n
      BY <2>3 DEF Here
    <3>3. QED
      BY <2>4, <3>1, <3>2 DEF Searchable
  <2>6. IsFirst(Past, low, high, number)
    BY <1>0, <2>4, <2>5 DEF IsFirst
  <2>7. QED
    BY <2>6
<1>3. QED
  BY <1>1, <1>2

\* There is one such number.
LEMMA FirstUnique ==
  ASSUME NEW Past, NEW low \in Nat, NEW high \in Nat,
         NEW n, NEW m, IsFirst(Past, low, high, n), IsFirst(Past, low, high, m)
  PROVE  n = m
<1>1. n \in low .. high /\ m \in low .. high
  BY DEF IsFirst
<1>2. \A k \in low .. high - 1 : n <= k <=> m <= k
  BY DEF IsFirst
<1>3. n < m => n \in low .. high - 1
  BY <1>1
<1>4. m < n => m \in low .. high - 1
  BY <1>1
<1>5. QED
  BY <1>1, <1>2, <1>3, <1>4

\* Half of an interval with its first number in it has the same first number.
LEMMA FirstOfHalf ==
  ASSUME NEW D, NEW Past, Searchable(D, Past), NEW low \in D, NEW high \in D, low < high,
         NEW middle, middle = low + (high - low) \div 2, NEW number
  PROVE  /\ middle \in low .. high - 1 /\ middle \in D /\ middle + 1 \in D
         /\ middle \in Past /\ IsFirst(Past, low, middle, number)
            => IsFirst(Past, low, high, number)
         /\ middle \notin Past /\ IsFirst(Past, middle + 1, high, number)
            => IsFirst(Past, low, high, number)
<1>0. low \in Nat /\ high \in Nat /\ low .. high \in SUBSET D
  BY DEF Searchable
<1>1. middle \in low .. high - 1
  BY <1>0
<1>2. ASSUME middle \in Past, IsFirst(Past, low, middle, number)
      PROVE  IsFirst(Past, low, high, number)
  <2>1. number \in low .. middle
    BY <1>2 DEF IsFirst
  <2>2. ASSUME NEW n \in low .. high - 1
        PROVE  n \in Past <=> number <= n
    <3>1. CASE n < middle
      BY <1>0, <1>1, <1>2, <3>1 DEF IsFirst
    <3>2. CASE n >= middle
      BY <1>0, <1>1, <1>2, <2>1, <3>2 DEF Searchable
    <3>3. QED
      BY <1>0, <1>1, <3>1, <3>2
  <2>3. QED
    BY <1>0, <1>1, <2>1, <2>2 DEF IsFirst
<1>3. ASSUME middle \notin Past, IsFirst(Past, middle + 1, high, number)
      PROVE  IsFirst(Past, low, high, number)
  <2>1. number \in middle + 1 .. high
    BY <1>3 DEF IsFirst
  <2>2. ASSUME NEW n \in low .. high - 1
        PROVE  n \in Past <=> number <= n
    <3>1. CASE n > middle
      BY <1>0, <1>1, <1>3, <3>1 DEF IsFirst
    <3>2. CASE n <= middle
      <4>1. middle \in D
        BY <1>0, <1>1
      <4>2. n \notin Past
        BY <1>3, <3>2, <4>1 DEF Searchable
      <4>3. QED
        BY <1>0, <1>1, <2>1, <3>2, <4>2
    <3>3. QED
      BY <1>0, <1>1, <3>1, <3>2
  <2>3. QED
    BY <1>0, <1>1, <2>1, <2>2 DEF IsFirst
<1>4. QED
  BY <1>0, <1>1, <1>2, <1>3

LEMMA SearchDefined ==
  ASSUME NEW D, NEW Past, Searchable(D, Past)
  PROVE  SearchOf(D, Past) = Halved(D, Past, SearchOf(D, Past))
<1> DEFINE First(low, high) == CHOOSE number : IsFirst(Past, low, high, number)
           g == [bounds \in D \X D |->
                   IF bounds[1] >= bounds[2] THEN bounds[1] ELSE First(bounds[1], bounds[2])]
<1>0. D \in SUBSET Nat
  BY DEF Searchable
<1>1. ASSUME NEW low \in D, NEW high \in D, low <= high
      PROVE  IsFirst(Past, low, high, g[<<low, high>>])
  <2>1. CASE low = high
    <3>1. g[<<low, high>>] = low /\ low \in Nat
      BY <1>0, <2>1
    <3> HIDE DEF g
    <3>2. QED
      BY <2>1, <3>1 DEF IsFirst
  <2>2. CASE low < high
    <3>1. IsFirst(Past, low, high, First(low, high))
      BY <1>1, FirstExists
    <3>2. g[<<low, high>>] = First(low, high)
      BY <1>0, <2>2
    <3>3. QED
      BY <3>1, <3>2
  <2>3. QED
    BY <1>0, <1>1, <2>1, <2>2
<1>2. ASSUME NEW bounds \in D \X D
      PROVE  g[bounds] = Halved(D, Past, g)[bounds]
  <2> DEFINE low == bounds[1]
             high == bounds[2]
             middle == low + (high - low) \div 2
  <2>1. low \in D /\ high \in D /\ bounds = <<low, high>> /\ low \in Nat /\ high \in Nat
    <3>1. bounds[1] \in D /\ bounds[2] \in D /\ bounds = <<bounds[1], bounds[2]>>
      OBVIOUS
    <3>2. QED
      BY <1>0, <3>1
  <2>2. CASE low >= high
    BY <2>1, <2>2 DEF Halved
  <2>3. CASE low < high
    <3> HIDE DEF g, low, high
    <3>1. middle \in low .. high - 1 /\ middle \in D /\ middle + 1 \in D
      BY <2>1, <2>3, FirstOfHalf
    <3>8. ASSUME NEW number
          PROVE  /\ middle \in Past /\ IsFirst(Past, low, middle, number)
                    => IsFirst(Past, low, high, number)
                 /\ middle \notin Past /\ IsFirst(Past, middle + 1, high, number)
                    => IsFirst(Past, low, high, number)
      BY <2>1, <2>3, FirstOfHalf
    <3>2. Halved(D, Past, g)[bounds] =
            IF middle \in Past THEN g[<<low, middle>>] ELSE g[<<middle + 1, high>>]
      BY <2>1, <2>3 DEF Halved, low, high
    <3>3. /\ IsFirst(Past, low, middle, g[<<low, middle>>])
          /\ IsFirst(Past, middle + 1, high, g[<<middle + 1, high>>])
      BY <1>1, <2>1, <3>1
    <3>4. IsFirst(Past, low, high, Halved(D, Past, g)[bounds])
      <4>1. CASE middle \in Past
        <5>1. IsFirst(Past, low, middle, Halved(D, Past, g)[bounds])
          BY <3>2, <3>3, <4>1
        <5>2. QED
          BY <3>8, <4>1, <5>1
      <4>2. CASE middle \notin Past
        <5>1. IsFirst(Past, middle + 1, high, Halved(D, Past, g)[bounds])
          BY <3>2, <3>3, <4>2
        <5>2. QED
          BY <3>8, <4>2, <5>1
      <4>3. QED
        BY <4>1, <4>2
    <3>5. IsFirst(Past, low, high, g[<<low, high>>])
      BY <1>1, <2>1, <2>3
    <3>6. g[<<low, high>>] = Halved(D, Past, g)[bounds]
      BY <2>1, <3>4, <3>5, FirstUnique
    <3>7. QED
      BY <2>1, <3>6
  <2>4. QED
    BY <2>1, <2>2, <2>3
<1>3. g = Halved(D, Past, g)
  <2>1. Halved(D, Past, g) = [bounds \in D \X D |-> Halved(D, Past, g)[bounds]]
    BY DEF Halved
  <2>2. g = [bounds \in D \X D |-> g[bounds]]
    OBVIOUS
  <2> HIDE DEF g
  <2>3. QED
    BY <1>2, <2>1, <2>2
<1>4. QED
  BY <1>3 DEF SearchOf

LEMMA SearchFinds ==
  ASSUME NEW D, NEW Past, Searchable(D, Past), NEW low \in D, NEW high \in D, low <= high
  PROVE  IsFirst(Past, low, high, SearchOf(D, Past)[<<low, high>>])
<1> DEFINE f == SearchOf(D, Past)
           Right(a, b) == IsFirst(Past, a, b, f[<<a, b>>])
           Wrong == {n \in 0 .. high - low :
                       \E a, b \in D : a + n = b /\ ~Right(a, b)}
<1>0. D \in SUBSET Nat /\ low \in Nat /\ high \in Nat
  BY DEF Searchable
<1>1. f = Halved(D, Past, f)
  BY SearchDefined
<1> HIDE DEF f
<1>2. ASSUME NEW a \in D, NEW b \in D
      PROVE  /\ a >= b => f[<<a, b>>] = a
             /\ a < b =>
                  f[<<a, b>>] =
                    IF a + (b - a) \div 2 \in Past
                    THEN f[<<a, a + (b - a) \div 2>>]
                    ELSE f[<<a + (b - a) \div 2 + 1, b>>]
  <2>1. f[<<a, b>>] = LET middle == a + (b - a) \div 2
                      IN IF a >= b THEN a
                         ELSE IF middle \in Past THEN f[<<a, middle>>]
                         ELSE f[<<middle + 1, b>>]
    BY <1>1 DEF Halved
  <2>2. a \in Nat /\ b \in Nat
    BY <1>0
  <2>3. QED
    BY <2>1, <2>2
<1>3. Wrong \in SUBSET Nat /\ IsFiniteSet(Wrong)
  <2>1. IsFiniteSet(0 .. high - low) /\ 0 .. high - low \in SUBSET Nat
    BY <1>0, FS_Interval
  <2>2. Wrong \in SUBSET (0 .. high - low)
    OBVIOUS
  <2> HIDE DEF Wrong
  <2>3. QED
    BY <2>1, <2>2, FS_Subset
<1>4. ASSUME Wrong # {} PROVE FALSE
  <2> HIDE DEF Wrong
  <2>1. PICK n \in Wrong : \A m \in Wrong : n <= m
    BY <1>3, <1>4, LeastOf
  <2>2. PICK a, b \in D : a + n = b /\ ~Right(a, b)
    BY <2>1 DEF Wrong
  <2>3. n \in 0 .. high - low /\ a \in Nat /\ b \in Nat
    BY <1>0 DEF Wrong
  <2>4. ASSUME NEW c \in D, NEW d \in D, c <= d, d - c < n
        PROVE  Right(c, d)
    <3>1. d - c \in 0 .. high - low /\ c + (d - c) = d /\ d - c \in Nat
      BY <1>0, <2>3, <2>4
    <3>2. d - c \notin Wrong
      BY <2>1, <2>3, <2>4, <3>1
    <3>3. QED
      BY <3>1, <3>2 DEF Wrong
  <2>5. CASE a = b
    <3>0. a >= b
      BY <2>3, <2>5
    <3>1. f[<<a, b>>] = a
      BY <1>2, <3>0
    <3>2. QED
      BY <2>2, <2>3, <2>5, <3>1 DEF IsFirst
  <2>6. CASE a < b
    <3> DEFINE middle == a + (b - a) \div 2
    <3>1. middle \in a .. b - 1 /\ middle \in D /\ middle + 1 \in D
      BY <2>6, FirstOfHalf
    <3>2. f[<<a, b>>] =
            IF middle \in Past THEN f[<<a, middle>>] ELSE f[<<middle + 1, b>>]
      BY <1>2, <2>6
    <3> HIDE DEF middle
    <3>3. Right(a, middle)
      BY <2>2, <2>3, <2>4, <3>1
    <3>4. Right(middle + 1, b)
      BY <2>2, <2>3, <2>4, <3>1
    <3> USE DEF middle
    <3>5. Right(a, b)
      BY <2>6, <3>2, <3>3, <3>4, FirstOfHalf
    <3>6. QED
      BY <2>2, <3>5
  <2>7. QED
    BY <2>2, <2>3, <2>5, <2>6
<1>5. Right(low, high)
  <2>1. high - low \in 0 .. high - low /\ low + (high - low) = high
    BY <1>0
  <2>2. high - low \notin Wrong
    BY <1>4
  <2>3. QED
    BY <2>1, <2>2
<1>6. QED
  BY <1>5 DEF f

\* What Bisect searches: the numbers that reach past an index.
PastIndex(S, index) == {n \in Nat : MatchingUpTo(S, n) > index}

LEMMA IndexSearchable ==
  ASSUME TypeOK, NEW S \in SUBSET Sectors, NEW index \in Nat
  PROVE  Searchable(Nat, PastIndex(S, index))
<1>1. \A a \in PastIndex(S, index), b \in Nat : a <= b => b \in PastIndex(S, index)
  <2> SUFFICES ASSUME NEW a \in Nat, NEW b \in Nat, MatchingUpTo(S, a) > index, a <= b
               PROVE  MatchingUpTo(S, b) > index
    BY DEF PastIndex
  <2>1. /\ MatchingUpTo(S, a) \in Nat /\ MatchingUpTo(S, b) \in Nat
        /\ MatchingUpTo(S, a) <= MatchingUpTo(S, b)
    BY MatchingGrows
  <2>2. QED
    BY <2>1
<1>2. \A a, b \in Nat : a .. b \in SUBSET Nat
  OBVIOUS
<1>3. QED
  BY <1>1, <1>2 DEF Searchable, PastIndex

\* As many sectors as there are numbers for them.
LEMMA CountedWithin ==
  ASSUME TypeOK, NumbersOrdered, NEW r \in Rings, NEW T \in SUBSET OwnedBy(r),
         NEW a \in Int, NEW b \in Int, a <= b + 1,
         \A s \in T : label[s].sequence \in a .. b
  PROVE  Cardinality(T) <= b + 1 - a
<1> DEFINE f == [s \in T |-> label[s].sequence]
<1>1. \A s, t \in T : s # t => f[s] # f[t]
  <2>1. \A s \in T : s \in Sectors /\ label[s].owner \in Rings
    BY DEF OwnedBy
  <2>2. QED
    BY <2>1 DEF NumbersOrdered, Ordered
<1>2. f \in Injection(T, a .. b)
  BY <1>1 DEF Injection, IsInjective
<1>3. IsFiniteSet(a .. b) /\ Cardinality(a .. b) = b + 1 - a
  BY FS_Interval
<1> HIDE DEF f
<1>4. Cardinality(T) <= Cardinality(a .. b)
  BY <1>2, <1>3, FS_Injection
<1>5. QED
  BY <1>3, <1>4

\* Where the search begins, no number reaches past the index below it, and the
\* last one does.
LEMMA BisectBrackets ==
  ASSUME TypeOK, NumbersOrdered, NEW r \in Rings, NEW S \in SUBSET OwnedBy(r),
         NEW index \in 0 .. Cardinality(S) - 1,
         NEW low, low = label[Lowest(S)].sequence + index,
         NEW high, high = label[Highest(S)].sequence - (Cardinality(S) - 1 - index)
  PROVE  /\ low \in Nat /\ high \in Nat /\ 0 < low /\ low <= high
         /\ MatchingUpTo(S, low - 1) <= index
         /\ MatchingUpTo(S, high) > index
<1> DEFINE first == label[Lowest(S)].sequence
           last == label[Highest(S)].sequence
           size == Cardinality(S)
<1>1. S \in SUBSET Sectors /\ IsFiniteSet(S) /\ size \in Nat /\ index \in Nat
  <2>1. S \in SUBSET Sectors
    BY DEF OwnedBy
  <2>2. QED
    BY <2>1, SectorsFinite, FS_CardinalityType
<1>2. ASSUME S = {} PROVE FALSE
  BY <1>2, FS_EmptySet
<1>3. /\ Lowest(S) \in S /\ \A s \in S : first <= label[s].sequence
      /\ Highest(S) \in S /\ \A s \in S : label[s].sequence <= last
  BY <1>1, <1>2, LowestExists, HighestExists
<1>4. \A s \in S : label[s].sequence \in Nat /\ label[s].sequence > 0
  <2>1. \A s \in S : label[s].sequence \in 1 .. sequence
    BY DEF NumbersOrdered, Ordered, OwnedBy
  <2>2. QED
    BY <2>1
<1> HIDE DEF first, last, size
<1>5. first \in Nat /\ last \in Nat /\ first > 0 /\ first <= last
  BY <1>3, <1>4 DEF first, last
<1>6. size <= last
  <2>1. \A s \in S : label[s].sequence \in 1 .. last
    BY <1>3, <1>4, <1>5
  <2>2. size <= last + 1 - 1
    BY <1>5, <2>1, CountedWithin DEF size
  <2>3. QED
    BY <1>1, <1>5, <2>2
<1>7. low = first + index /\ high = last - (size - 1 - index) /\ index \in 0 .. size - 1
  BY DEF first, last, size
<1>8. low \in Nat /\ high \in Nat /\ 0 < low
  BY <1>1, <1>5, <1>6, <1>7
<1>9. MatchingUpTo(S, low - 1) <= index
  <2> DEFINE T == {s \in S : label[s].sequence <= low - 1}
  <2>1. \A s \in T : label[s].sequence \in first .. low - 1
    BY <1>3, <1>4, <1>5, <1>8
  <2>2. T \in SUBSET OwnedBy(r)
    OBVIOUS
  <2>3. first \in Int /\ low - 1 \in Int /\ first <= (low - 1) + 1
    BY <1>1, <1>5, <1>7, <1>8
  <2> HIDE DEF T
  <2>4. Cardinality(T) <= (low - 1) + 1 - first
    BY <2>1, <2>2, <2>3, CountedWithin
  <2>5. (low - 1) + 1 - first = index
    BY <1>1, <1>5, <1>7
  <2>6. QED
    BY <2>4, <2>5 DEF MatchingUpTo, T
<1>10. MatchingUpTo(S, high) > index
  <2> DEFINE T == {s \in S : label[s].sequence <= high}
             U == S \ T
  <2>1. \A s \in U : label[s].sequence \in high + 1 .. last
    BY <1>3, <1>4, <1>5, <1>8
  <2>2. U \in SUBSET OwnedBy(r)
    OBVIOUS
  <2>3. high + 1 \in Int /\ last \in Int /\ high + 1 <= last + 1
    BY <1>1, <1>5, <1>7, <1>8
  <2>4. IsFiniteSet(T) /\ IsFiniteSet(U) /\ T \cap U = {} /\ T \cup U = S
    BY <1>1, FS_Subset
  <2> HIDE DEF T, U
  <2>5. Cardinality(U) <= last + 1 - (high + 1)
    BY <2>1, <2>2, <2>3, CountedWithin
  <2>6. /\ Cardinality(T) \in Nat /\ Cardinality(U) \in Nat
        /\ size = Cardinality(T) + Cardinality(U)
    <3>1. Cardinality(T \cup U) = Cardinality(T) + Cardinality(U) - Cardinality(T \cap U)
      BY <2>4, FS_Union
    <3>2. Cardinality(T \cap U) = 0
      BY <2>4, FS_EmptySet
    <3>3. Cardinality(T) \in Nat /\ Cardinality(U) \in Nat
      BY <2>4, FS_CardinalityType
    <3>4. Cardinality(T \cup U) = Cardinality(T) + Cardinality(U)
      BY <3>1, <3>2, <3>3
    <3>5. Cardinality(T \cup U) = size
      BY <2>4 DEF size
    <3>6. QED
      BY <3>3, <3>4, <3>5
  <2>7. Cardinality(T) > index
    BY <1>1, <1>5, <1>7, <1>8, <2>5, <2>6
  <2>8. QED
    BY <2>7 DEF MatchingUpTo, T
<1>11. low <= high
  <2>1. ASSUME ~ (low <= high) PROVE FALSE
    <3>1. high <= low - 1
      BY <1>8, <2>1
    <3>2. MatchingUpTo(S, high) <= MatchingUpTo(S, low - 1)
          /\ MatchingUpTo(S, high) \in Nat /\ MatchingUpTo(S, low - 1) \in Nat
      BY <1>1, <1>8, <3>1, MatchingGrows
    <3>3. QED
      BY <1>1, <1>9, <1>10, <3>2
  <2>2. QED
    BY <2>1
<1>12. QED
  BY <1>8, <1>9, <1>10, <1>11

\* The number found is that of the sector with as many below it as the index.
LEMMA BisectFinds ==
  ASSUME TypeOK, NumbersOrdered, NEW r \in Rings, NEW S \in SUBSET OwnedBy(r),
         NEW index \in 0 .. Cardinality(S) - 1
  PROVE  \E s \in S : /\ label[s].sequence = Bisect(S, index)
                      /\ Cardinality({t \in S : label[t].sequence < label[s].sequence}) = index
<1> DEFINE low == label[Lowest(S)].sequence + index
           high == label[Highest(S)].sequence - (Cardinality(S) - 1 - index)
           number == Bisect(S, index)
           Below == {s \in S : label[s].sequence <= number - 1}
           UpTo == {s \in S : label[s].sequence <= number}
<1>1. S \in SUBSET Sectors /\ IsFiniteSet(S) /\ index \in Nat
  <2>1. S \in SUBSET Sectors
    BY DEF OwnedBy
  <2>2. QED
    BY <2>1, SectorsFinite
<1>2. /\ low \in Nat /\ high \in Nat /\ 0 < low /\ low <= high
      /\ MatchingUpTo(S, low - 1) <= index
      /\ MatchingUpTo(S, high) > index
  BY BisectBrackets
<1> DEFINE Past == PastIndex(S, index)
<1>3. number = SearchOf(Nat, Past)[<<low, high>>]
  <2> DEFINE Round(search) ==
        [bounds \in Nat \X Nat |->
           LET middle == bounds[1] + (bounds[2] - bounds[1]) \div 2
           IN IF bounds[1] >= bounds[2] THEN bounds[1]
              ELSE IF MatchingUpTo(S, middle) > index THEN search[<<bounds[1], middle>>]
              ELSE search[<<middle + 1, bounds[2]>>]]
  <2>1. ASSUME NEW search
        PROVE  Round(search) = Halved(Nat, Past, search)
    <3>1. ASSUME NEW bounds \in Nat \X Nat, bounds[1] < bounds[2]
          PROVE  bounds[1] + (bounds[2] - bounds[1]) \div 2 \in Nat
      <4>1. bounds[1] \in Nat /\ bounds[2] \in Nat
        OBVIOUS
      <4>2. QED
        BY <3>1, <4>1
    <3>2. ASSUME NEW bounds \in Nat \X Nat
          PROVE  Round(search)[bounds] = Halved(Nat, Past, search)[bounds]
      BY <3>1 DEF Halved, PastIndex
    <3>3. QED
      BY <3>2 DEF Halved
  <2>2. number = (CHOOSE search : search = Round(search))[<<low, high>>]
    BY DEF Bisect
  <2> HIDE DEF Round
  <2>3. QED
    BY <2>1, <2>2 DEF SearchOf
<1> HIDE DEF low, high, number, Past
<1>4. IsFirst(Past, low, high, number)
  BY <1>1, <1>2, <1>3, SearchFinds, IndexSearchable DEF Past
<1>40. \A n \in Nat : n \in Past <=> MatchingUpTo(S, n) > index
  BY DEF Past, PastIndex
<1>5. number \in Nat /\ low <= number /\ number <= high
  BY <1>2, <1>4 DEF IsFirst
<1>6. MatchingUpTo(S, number) > index
  <2>1. CASE number = high
    BY <1>2, <2>1
  <2>2. CASE number < high
    BY <1>2, <1>4, <1>40, <1>5, <2>2 DEF IsFirst
  <2>3. QED
    BY <1>2, <1>5, <2>1, <2>2
<1>7. MatchingUpTo(S, number - 1) <= index
  <2>1. CASE number = low
    BY <1>2, <2>1
  <2>2. CASE low < number
    <3>1. number - 1 \in low .. high - 1 /\ ~ (number <= number - 1)
      BY <1>2, <1>5, <2>2
    <3>2. ~ (MatchingUpTo(S, number - 1) > index)
      BY <1>2, <1>4, <1>40, <3>1 DEF IsFirst
    <3>3. MatchingUpTo(S, number - 1) \in Nat
      BY <1>1, <1>5, MatchingGrows
    <3>4. QED
      BY <1>1, <3>2, <3>3
  <2>3. QED
    BY <1>2, <1>5, <2>1, <2>2
<1>8. \A s \in S : label[s].sequence \in Nat
  BY <1>1 DEF TypeOK, Label
<1>9. /\ IsFiniteSet(Below) /\ IsFiniteSet(UpTo)
      /\ Cardinality(Below) \in Nat /\ Cardinality(UpTo) \in Nat
      /\ Cardinality(Below) <= index /\ Cardinality(UpTo) > index
  <2>1. IsFiniteSet(Below) /\ IsFiniteSet(UpTo)
    BY <1>1, FS_Subset
  <2>2. Cardinality(Below) = MatchingUpTo(S, number - 1) /\ Cardinality(UpTo) = MatchingUpTo(S, number)
    BY DEF MatchingUpTo
  <2>3. QED
    BY <1>6, <1>7, <2>1, <2>2, FS_CardinalityType
<1>10. PICK s \in S : label[s].sequence = number
  <2>1. ASSUME \A s \in S : label[s].sequence # number PROVE FALSE
    <3>1. Below = UpTo
      BY <1>5, <1>8, <2>1
    <3> HIDE DEF Below, UpTo
    <3>2. QED
      BY <1>1, <1>9, <3>1
  <2>2. QED
    BY <2>1
<1>11. UpTo = Below \cup {s} /\ s \notin Below
  <2>1. \A t \in S : label[t].sequence = number => t = s
    BY <1>1, <1>10 DEF NumbersOrdered, Ordered, OwnedBy
  <2>2. QED
    BY <1>5, <1>8, <1>10, <2>1
<1>12. Cardinality(UpTo) = Cardinality(Below) + 1
  <2> HIDE DEF Below, UpTo
  <2>1. QED
    BY <1>9, <1>11, FS_AddElement
<1>13. Cardinality(Below) = index
  <2> HIDE DEF Below, UpTo
  <2>1. QED
    BY <1>1, <1>9, <1>12
<1>14. Below = {t \in S : label[t].sequence < label[s].sequence}
  BY <1>5, <1>8, <1>10
<1>15. QED
  BY <1>10, <1>13, <1>14 DEF number

LEMMA IndexFinds == IInv => SectorByIndex
<1> SUFFICES ASSUME IInv, NEW r \in Rings, NEW session \in Sessions,
                    NEW index \in 0 .. Cardinality(InSession(r, session)) - 1
             PROVE  LET s == SessionSector(r, session, index)
                    IN /\ s \in InSession(r, session)
                       /\ Cardinality({t \in InSession(r, session) :
                                         label[t].sequence < label[s].sequence}) = index
  BY DEF SectorByIndex
<1> DEFINE S == InSession(r, session)
           found == {s \in S : label[s].sequence = Bisect(S, index)}
<1>1. S \in SUBSET OwnedBy(r) /\ S \in SUBSET Sectors
  BY DEF InSession, OwnedBy
<1>2. PICK s \in S :
        /\ label[s].sequence = Bisect(S, index)
        /\ Cardinality({t \in S : label[t].sequence < label[s].sequence}) = index
  BY <1>1, BisectFinds DEF IInv
<1>3. found = {s}
  <2>1. \A t \in S : t # s => label[t].sequence # label[s].sequence
    BY <1>1 DEF IInv, NumbersOrdered, Ordered, OwnedBy
  <2>2. QED
    BY <1>2, <2>1
<1>4. s \in Nat /\ Cardinality(S) \in Nat
  BY <1>1, SectorsFinite, FS_CardinalityType, SectorCountAssumption DEF Sectors
<1>5. SessionSector(r, session, index) = CHOOSE t \in found : \A u \in found : t <= u
  <2>1. ~ (index >= Cardinality(S)) /\ found # {}
    BY <1>3, <1>4
  <2>2. QED
    BY <2>1 DEF SessionSector
<1>6. SessionSector(r, session, index) = s
  BY <1>3, <1>4, <1>5
<1>7. QED
  BY <1>2, <1>6

\* Whatever gaps the other ring and the recycling have left between a session's
\* numbers, session_sector() hands a reader the sector that counting would, for
\* every partition and every index (sector_allocator.cpp).
THEOREM SectorAlwaysByIndex == Spec => []SectorByIndex
BY IndexFinds, AlwaysIInv, PTL

-----------------------------------------------------------------------------
(* The promise of LogRings.  A ring's queue is determined by any listing   *)
(* of its sectors in the order of their numbers.                           *)

Entry(labelled) == [session |-> labelled.session, start |-> labelled.start]
Entries == {Entry(labelled) : labelled \in Label}

\* The sectors the labels give a ring, one number each.
Held(labels, r) == {s \in Sectors : labels[s].owner = r}
Told(labels) ==
  /\ labels \in [Sectors -> Label]
  /\ \A s, t \in Sectors :
       /\ labels[s].owner \in Rings /\ labels[t].owner = labels[s].owner /\ s # t
       => labels[s].sequence # labels[t].sequence

Lists(labels, r, f, n) ==
  /\ n \in Nat /\ f \in [1 .. n -> Sectors]
  /\ \A i \in 1 .. n : labels[f[i]].owner = r
  /\ \A i, j \in 1 .. n : i < j => labels[f[i]].sequence < labels[f[j]].sequence
  /\ \A s \in Sectors : labels[s].owner = r => \E i \in 1 .. n : f[i] = s

LEMMA ListExists ==
  ASSUME NEW labels, Told(labels), NEW r \in Rings
  PROVE  \E n, f : Lists(labels, r, f, n)
<1> DEFINE owned == Held(labels, r)
           n == Cardinality(owned)
           before(s) == {t \in owned : labels[t].sequence < labels[s].sequence}
           rank == [s \in owned |-> Cardinality(before(s)) + 1]
<1>1. owned \in SUBSET Sectors /\ IsFiniteSet(owned) /\ n \in Nat
  BY SectorsFinite, FS_CardinalityType DEF Held
<1>2. /\ \A s \in owned : labels[s].sequence \in Nat
      /\ \A s, t \in owned : s # t => labels[s].sequence # labels[t].sequence
  BY DEF Told, Label, Held
<1>3. ASSUME NEW s \in owned
      PROVE  /\ IsFiniteSet(before(s)) /\ Cardinality(before(s)) \in Nat
             /\ rank[s] \in 1 .. n
  <2>1. before(s) \in SUBSET (owned \ {s})
    BY <1>2
  <2>2. IsFiniteSet(owned \ {s}) /\ Cardinality(owned \ {s}) = n - 1
    BY <1>1, <1>3, FS_RemoveElement
  <2>3. /\ IsFiniteSet(before(s)) /\ Cardinality(before(s)) <= n - 1
        /\ Cardinality(before(s)) \in Nat
    BY <2>1, <2>2, FS_Subset, FS_CardinalityType
  <2>4. rank[s] = Cardinality(before(s)) + 1
    OBVIOUS
  <2> HIDE DEF rank, n, before, owned
  <2>5. QED
    BY <1>1, <2>3, <2>4
<1>4. ASSUME NEW s \in owned, NEW t \in owned, labels[s].sequence < labels[t].sequence
      PROVE  rank[s] < rank[t]
  <2>1. before(s) \cup {s} \in SUBSET before(t) /\ s \notin before(s)
    BY <1>2, <1>4
  <2>2. rank[s] = Cardinality(before(s)) + 1 /\ rank[t] = Cardinality(before(t)) + 1
    OBVIOUS
  <2>3. /\ IsFiniteSet(before(s)) /\ Cardinality(before(s)) \in Nat
        /\ IsFiniteSet(before(t)) /\ Cardinality(before(t)) \in Nat
    BY <1>3
  <2> HIDE DEF rank, before, owned
  <2>4. Cardinality(before(s) \cup {s}) = Cardinality(before(s)) + 1
    BY <2>1, <2>3, FS_AddElement
  <2>5. Cardinality(before(s) \cup {s}) <= Cardinality(before(t))
    BY <2>1, <2>3, FS_Subset
  <2>6. QED
    BY <2>2, <2>3, <2>4, <2>5
<1>5. rank \in [owned -> 1 .. n]
  BY <1>3
<1> HIDE DEF rank, n, before, owned
<1>6. \A s, t \in owned : s # t => rank[s] # rank[t]
  <2> SUFFICES ASSUME NEW s \in owned, NEW t \in owned, s # t
               PROVE  rank[s] # rank[t]
    OBVIOUS
  <2>1. rank[s] \in 1 .. n /\ rank[t] \in 1 .. n
    BY <1>5
  <2>2. labels[s].sequence < labels[t].sequence \/ labels[t].sequence < labels[s].sequence
    BY <1>2
  <2>3. rank[s] < rank[t] \/ rank[t] < rank[s]
    BY <1>4, <2>2
  <2>4. QED
    BY <1>1, <2>1, <2>3
<1>7. rank \in Surjection(owned, 1 .. n)
  <2>1. rank \in Injection(owned, 1 .. n)
    BY <1>5, <1>6 DEF Injection, IsInjective
  <2>2. IsFiniteSet(1 .. n) /\ Cardinality(1 .. n) = n
    BY <1>1, FS_Interval
  <2>3. Cardinality(owned) = Cardinality(1 .. n)
    BY <2>2 DEF n
  <2>4. QED
    BY <2>1, <2>2, <2>3, FS_Injection
<1> DEFINE f == [i \in 1 .. n |-> CHOOSE s \in owned : rank[s] = i]
<1>8. \A i \in 1 .. n : f[i] \in owned /\ rank[f[i]] = i
  BY <1>7 DEF Surjection
<1> HIDE DEF f
<1>9. ASSUME NEW i \in 1 .. n, NEW j \in 1 .. n, i < j
      PROVE  labels[f[i]].sequence < labels[f[j]].sequence
  <2>1. f[i] \in owned /\ f[j] \in owned /\ rank[f[i]] = i /\ rank[f[j]] = j
    BY <1>8
  <2>2. CASE labels[f[j]].sequence < labels[f[i]].sequence
    <3>1. rank[f[j]] < rank[f[i]]
      BY <1>4, <2>1, <2>2
    <3>2. QED
      BY <1>1, <1>9, <2>1, <3>1
  <2>3. CASE labels[f[j]].sequence = labels[f[i]].sequence
    <3>1. f[i] = f[j]
      BY <1>2, <2>1, <2>3
    <3>2. QED
      BY <1>1, <1>9, <2>1, <3>1
  <2>4. QED
    BY <1>2, <2>1, <2>2, <2>3
<1>10. f \in [1 .. n -> Sectors]
  BY <1>1, <1>8 DEF f
<1>11. ASSUME NEW s \in Sectors, labels[s].owner = r
       PROVE  \E i \in 1 .. n : f[i] = s
  <2>1. s \in owned
    BY <1>11 DEF owned, Held
  <2>2. rank[s] \in 1 .. n
    BY <1>5, <2>1
  <2>3. f[rank[s]] \in owned /\ rank[f[rank[s]]] = rank[s]
    BY <1>8, <2>2
  <2>4. f[rank[s]] = s
    BY <1>6, <2>1, <2>3
  <2>5. QED
    BY <2>2, <2>4
<1>12. \A i \in 1 .. n : labels[f[i]].owner = r
  BY <1>8 DEF owned, Held
<1>13. Lists(labels, r, f, n)
  BY <1>1, <1>9, <1>10, <1>11, <1>12 DEF Lists
<1>14. QED
  BY <1>13

LEMMA QueueOf ==
  ASSUME NEW labels, Told(labels), NEW r \in Rings, NEW n, NEW f, Lists(labels, r, f, n)
  PROVE  /\ Queue(labels, r) = [i \in 1 .. n |-> Entry(labels[f[i]])]
         /\ Queue(labels, r) \in Seq(Entries) /\ Len(Queue(labels, r)) = n
         /\ Cardinality(Held(labels, r)) = n
<1> DEFINE owned == Held(labels, r)
           before(s) == {t \in owned : labels[t].sequence < labels[s].sequence}
           place(i) == CHOOSE s \in owned : Cardinality(before(s)) = i - 1
<1>1. n \in Nat /\ \A i \in 1 .. n : f[i] \in owned /\ f[i] \in Sectors
  BY DEF Lists, Held
<1>2. \A s \in owned : \E i \in 1 .. n : f[i] = s
  BY DEF Lists, Held
<1>3. /\ \A s \in Sectors : labels[s].sequence \in Nat
      /\ \A i, j \in 1 .. n : i < j => labels[f[i]].sequence < labels[f[j]].sequence
  BY DEF Lists, Told, Label
<1>4. \A i, j \in 1 .. n : i < j <=> labels[f[i]].sequence < labels[f[j]].sequence
  <2> SUFFICES ASSUME NEW i \in 1 .. n, NEW j \in 1 .. n
               PROVE  i < j <=> labels[f[i]].sequence < labels[f[j]].sequence
    OBVIOUS
  <2>1. labels[f[i]].sequence \in Nat /\ labels[f[j]].sequence \in Nat
    BY <1>1, <1>3
  <2>2. i < j \/ j < i \/ i = j
    BY <1>1
  <2>3. QED
    BY <1>1, <1>3, <2>1, <2>2
<1> HIDE DEF owned
<1>5. ASSUME NEW i \in 1 .. n
      PROVE  Cardinality(before(f[i])) = i - 1
  <2> DEFINE g == [j \in 1 .. i - 1 |-> f[j]]
  <2>1. before(f[i]) = {f[j] : j \in 1 .. i - 1}
    <3>1. ASSUME NEW s \in before(f[i]) PROVE s \in {f[j] : j \in 1 .. i - 1}
      <4>1. PICK j \in 1 .. n : f[j] = s
        BY <1>2
      <4>2. j < i
        BY <1>4, <4>1
      <4>3. j \in 1 .. i - 1
        BY <1>1, <4>2
      <4>4. QED
        BY <4>1, <4>3
    <3>2. ASSUME NEW j \in 1 .. i - 1 PROVE f[j] \in before(f[i])
      <4>1. j \in 1 .. n /\ j < i
        BY <1>1
      <4>2. QED
        BY <1>1, <1>4, <4>1
    <3>3. QED
      BY <3>1, <3>2
  <2>2. \A j, k \in 1 .. i - 1 : j # k => f[j] # f[k]
    <3> SUFFICES ASSUME NEW j \in 1 .. i - 1, NEW k \in 1 .. i - 1, j # k
                 PROVE  f[j] # f[k]
      OBVIOUS
    <3>1. j \in 1 .. n /\ k \in 1 .. n /\ (j < k \/ k < j)
      BY <1>1
    <3>2. labels[f[j]].sequence \in Nat /\ labels[f[k]].sequence \in Nat
      BY <1>1, <1>3, <3>1
    <3>3. labels[f[j]].sequence < labels[f[k]].sequence \/ labels[f[k]].sequence < labels[f[j]].sequence
      BY <1>3, <3>1
    <3>4. QED
      BY <3>2, <3>3
  <2> HIDE DEF before
  <2>3. g \in Bijection(1 .. i - 1, before(f[i]))
    BY <2>1, <2>2 DEF Bijection, Injection, Surjection, IsInjective
  <2>4. i - 1 \in Nat /\ ExistsBijection(1 .. i - 1, before(f[i]))
    BY <1>1, <2>3 DEF ExistsBijection
  <2>5. QED
    BY <2>4, FS_CountingElements
<1>6. Cardinality(owned) = n
  <2>1. \A j, k \in 1 .. n : j # k => f[j] # f[k]
    <3> SUFFICES ASSUME NEW j \in 1 .. n, NEW k \in 1 .. n, j # k
                 PROVE  f[j] # f[k]
      OBVIOUS
    <3>1. j < k \/ k < j
      BY <1>1
    <3>2. labels[f[j]].sequence \in Nat /\ labels[f[k]].sequence \in Nat
      BY <1>1, <1>3
    <3>3. labels[f[j]].sequence < labels[f[k]].sequence \/ labels[f[k]].sequence < labels[f[j]].sequence
      BY <1>3, <3>1
    <3>4. QED
      BY <3>2, <3>3
  <2>2. f \in [1 .. n -> owned]
    BY <1>1 DEF Lists
  <2>3. f \in Bijection(1 .. n, owned)
    BY <1>2, <2>1, <2>2 DEF Bijection, Injection, Surjection, IsInjective
  <2>4. QED
    BY <1>1, <2>3, FS_CountingElements DEF ExistsBijection
<1>7. ASSUME NEW i \in 1 .. n
      PROVE  place(i) = f[i]
  <2> HIDE DEF before
  <2>1. f[i] \in owned /\ Cardinality(before(f[i])) = i - 1
    BY <1>1, <1>5
  <2>2. ASSUME NEW s \in owned, Cardinality(before(s)) = i - 1
        PROVE  s = f[i]
    <3>1. PICK j \in 1 .. n : f[j] = s
      BY <1>2
    <3>2. j - 1 = i - 1
      BY <1>5, <2>2, <3>1
    <3>3. j = i
      BY <1>1, <3>2
    <3>4. QED
      BY <3>1, <3>3
  <2>3. QED
    BY <2>1, <2>2
<1>8. Queue(labels, r) =
        [i \in 1 .. Cardinality(owned) |->
           LET s == place(i) IN [session |-> labels[s].session, start |-> labels[s].start]]
  BY DEF Queue, owned, Held
<1>9. Queue(labels, r) = [i \in 1 .. n |-> Entry(labels[f[i]])]
  <2> HIDE DEF place
  <2>1. QED
    BY <1>6, <1>7, <1>8 DEF Entry
<1>10. \A i \in 1 .. n : Entry(labels[f[i]]) \in Entries
  BY <1>1 DEF Entries, Told
<1>11. Queue(labels, r) \in Seq(Entries) /\ Len(Queue(labels, r)) = n
  BY <1>1, <1>9, <1>10
<1>12. QED
  BY <1>6, <1>9, <1>11 DEF owned

LEMMA EntriesType == \A labelled \in Label : Entry(labelled) \in Entries
BY DEF Entries

LEMMA WithoutProperties ==
  ASSUME NEW S, NEW queue \in Seq(S), NEW n \in 1 .. Len(queue)
  PROVE  /\ Promise!Without(queue, n) \in Seq(S)
         /\ Len(Promise!Without(queue, n)) = Len(queue) - 1
         /\ \A i \in 1 .. Len(queue) - 1 :
              Promise!Without(queue, n)[i] = IF i < n THEN queue[i] ELSE queue[i + 1]
<1> DEFINE left == SubSeq(queue, 1, n - 1)
           right == SubSeq(queue, n + 1, Len(queue))
<1>1. Len(queue) \in Nat /\ n \in Nat /\ 1 <= n /\ n <= Len(queue)
  BY LenProperties
<1>2. \A i \in 1 .. Len(queue) : queue[i] \in S
  BY ElementOfSeq
<1>3. /\ left \in Seq(S) /\ Len(left) = n - 1
      /\ \A i \in 1 .. n - 1 : left[i] = queue[i]
  <2>1. \A i \in 1 .. n - 1 : queue[i] \in S
    BY <1>1, <1>2
  <2>2. /\ left \in Seq(S)
        /\ Len(left) = IF 1 <= n - 1 THEN n - 1 - 1 + 1 ELSE 0
        /\ \A i \in 1 .. n - 1 - 1 + 1 : left[i] = queue[1 + i - 1]
    BY <1>1, <2>1, SubSeqProperties
  <2> HIDE DEF left
  <2>3. QED
    BY <1>1, <2>2
<1>4. /\ right \in Seq(S) /\ Len(right) = Len(queue) - n
      /\ \A i \in 1 .. Len(queue) - n : right[i] = queue[n + i]
  <2>1. \A i \in n + 1 .. Len(queue) : queue[i] \in S
    BY <1>1, <1>2
  <2>2. /\ right \in Seq(S)
        /\ Len(right) = IF n + 1 <= Len(queue) THEN Len(queue) - (n + 1) + 1 ELSE 0
        /\ \A i \in 1 .. Len(queue) - (n + 1) + 1 : right[i] = queue[n + 1 + i - 1]
    BY <1>1, <2>1, SubSeqProperties
  <2> HIDE DEF right
  <2>3. QED
    BY <1>1, <2>2
<1> HIDE DEF left, right
<1>5. /\ left \o right \in Seq(S)
      /\ Len(left \o right) = Len(left) + Len(right)
      /\ \A i \in 1 .. Len(left) + Len(right) :
           (left \o right)[i] = IF i <= Len(left) THEN left[i] ELSE right[i - Len(left)]
  BY <1>3, <1>4, ConcatProperties
<1>6. Promise!Without(queue, n) = left \o right
  BY DEF Promise!Without, left, right
<1>7. ASSUME NEW i \in 1 .. Len(queue) - 1
      PROVE  (left \o right)[i] = IF i < n THEN queue[i] ELSE queue[i + 1]
  <2>1. i \in 1 .. Len(left) + Len(right)
    BY <1>1, <1>3, <1>4
  <2>2. CASE i < n
    BY <1>1, <1>3, <1>5, <2>1, <2>2
  <2>3. CASE ~ (i < n)
    <3>1. ~ (i <= Len(left)) /\ i - Len(left) \in 1 .. Len(queue) - n
      BY <1>1, <1>3, <2>3
    <3>2. (left \o right)[i] = right[i - Len(left)]
      BY <1>5, <2>1, <3>1
    <3>3. n + (i - Len(left)) = i + 1
      BY <1>1, <1>3
    <3>4. right[i - Len(left)] = queue[n + (i - Len(left))]
      BY <1>4, <3>1
    <3>5. (left \o right)[i] = queue[i + 1]
      BY <3>2, <3>3, <3>4
    <3>6. QED
      BY <2>3, <3>5
  <2>4. QED
    BY <2>2, <2>3
<1>8. Len(left) + Len(right) = Len(queue) - 1
  BY <1>1, <1>3, <1>4
<1>9. QED
  BY <1>5, <1>6, <1>7, <1>8

\* Labels a ring has no part in leave its queue alone.
LEMMA QueueSame ==
  ASSUME NEW labels, Told(labels), NEW after, Told(after), NEW r \in Rings,
         \A s \in Sectors : labels[s].owner = r \/ after[s].owner = r => after[s] = labels[s]
  PROVE  Queue(after, r) = Queue(labels, r)
<1>1. PICK n, f : Lists(labels, r, f, n)
  BY ListExists
<1>2. n \in Nat /\ \A i \in 1 .. n : f[i] \in Sectors /\ after[f[i]] = labels[f[i]]
  BY <1>1 DEF Lists
<1>3. Lists(after, r, f, n)
  BY <1>1, <1>2 DEF Lists
<1>4. /\ Queue(labels, r) = [i \in 1 .. n |-> Entry(labels[f[i]])]
      /\ Queue(after, r) = [i \in 1 .. n |-> Entry(after[f[i]])]
  BY <1>1, <1>3, QueueOf
<1>5. QED
  BY <1>2, <1>4

\* A sector that leaves a ring leaves its place in the queue.
LEMMA QueueWithout ==
  ASSUME NEW labels, Told(labels), NEW after, Told(after), NEW r \in Rings,
         NEW n, NEW f, Lists(labels, r, f, n), NEW k \in 1 .. n,
         after[f[k]].owner # r,
         \A s \in Sectors \ {f[k]} :
           labels[s].owner = r \/ after[s].owner = r => after[s] = labels[s]
  PROVE  Queue(after, r) = Promise!Without(Queue(labels, r), k)
<1> DEFINE g == [i \in 1 .. n - 1 |-> IF i < k THEN f[i] ELSE f[i + 1]]
<1>1. n \in Nat /\ n - 1 \in Nat /\ \A i \in 1 .. n : f[i] \in Sectors
  BY DEF Lists
<1>2. \A i \in 1 .. n : i # k => f[i] # f[k]
  <2> SUFFICES ASSUME NEW i \in 1 .. n, i # k PROVE f[i] # f[k]
    OBVIOUS
  <2>1. i < k \/ k < i
    BY <1>1
  <2>2. labels[f[i]].sequence \in Nat /\ labels[f[k]].sequence \in Nat
    BY <1>1 DEF Told, Label
  <2>3. labels[f[i]].sequence < labels[f[k]].sequence \/ labels[f[k]].sequence < labels[f[i]].sequence
    BY <2>1 DEF Lists
  <2>4. QED
    BY <2>2, <2>3
<1>3. \A i \in 1 .. n : i # k => after[f[i]] = labels[f[i]] /\ labels[f[i]].owner = r
  BY <1>1, <1>2 DEF Lists
<1>4. \A i \in 1 .. n - 1 : LET at == IF i < k THEN i ELSE i + 1
                            IN at \in 1 .. n /\ at # k /\ g[i] = f[at]
  BY <1>1
<1> HIDE DEF g
<1>5. g \in [1 .. n - 1 -> Sectors] /\ \A i \in 1 .. n - 1 : after[g[i]].owner = r
  <2>1. \A i \in 1 .. n - 1 : g[i] \in Sectors /\ after[g[i]].owner = r
    BY <1>1, <1>3, <1>4
  <2>2. QED
    BY <2>1 DEF g
<1>6. ASSUME NEW i \in 1 .. n - 1, NEW j \in 1 .. n - 1, i < j
      PROVE  after[g[i]].sequence < after[g[j]].sequence
  <2>1. PICK a \in 1 .. n : a = (IF i < k THEN i ELSE i + 1) /\ a # k /\ g[i] = f[a]
    BY <1>4
  <2>2. PICK b \in 1 .. n : b = (IF j < k THEN j ELSE j + 1) /\ b # k /\ g[j] = f[b]
    BY <1>4
  <2>3. a < b
    BY <1>1, <1>6, <2>1, <2>2
  <2>4. labels[f[a]].sequence < labels[f[b]].sequence
    BY <2>3 DEF Lists
  <2>5. QED
    BY <1>3, <2>1, <2>2, <2>4
<1>7. ASSUME NEW s \in Sectors, after[s].owner = r
      PROVE  \E i \in 1 .. n - 1 : g[i] = s
  <2>1. s # f[k]
    BY <1>7
  <2>2. labels[s].owner = r
    BY <1>7, <2>1
  <2>3. PICK a \in 1 .. n : f[a] = s
    BY <2>2 DEF Lists
  <2>4. a # k
    BY <2>1, <2>3
  <2>5. CASE a < k
    <3>1. a \in 1 .. n - 1
      BY <1>1, <2>5
    <3>2. g[a] = f[a]
      BY <1>1, <2>5, <3>1 DEF g
    <3>3. QED
      BY <2>3, <3>1, <3>2
  <2>6. CASE a > k
    <3>1. a - 1 \in 1 .. n - 1 /\ ~ (a - 1 < k) /\ (a - 1) + 1 = a
      BY <1>1, <2>6
    <3>2. g[a - 1] = f[a]
      BY <3>1 DEF g
    <3>3. QED
      BY <2>3, <3>1, <3>2
  <2>7. QED
    BY <1>1, <2>4, <2>5, <2>6
<1>8. Lists(after, r, g, n - 1)
  BY <1>1, <1>5, <1>6, <1>7 DEF Lists
<1>9. /\ Queue(labels, r) = [i \in 1 .. n |-> Entry(labels[f[i]])]
      /\ Queue(labels, r) \in Seq(Entries) /\ Len(Queue(labels, r)) = n
      /\ Queue(after, r) = [i \in 1 .. n - 1 |-> Entry(after[g[i]])]
      /\ Queue(after, r) \in Seq(Entries) /\ Len(Queue(after, r)) = n - 1
  BY <1>8, QueueOf
<1>10. /\ Promise!Without(Queue(labels, r), k) \in Seq(Entries)
       /\ Len(Promise!Without(Queue(labels, r), k)) = n - 1
       /\ \A i \in 1 .. n - 1 :
            Promise!Without(Queue(labels, r), k)[i] =
              IF i < k THEN Queue(labels, r)[i] ELSE Queue(labels, r)[i + 1]
  BY <1>9, WithoutProperties
<1>11. ASSUME NEW i \in 1 .. n - 1
       PROVE  Queue(after, r)[i] = Promise!Without(Queue(labels, r), k)[i]
  <2>1. PICK a \in 1 .. n : a = (IF i < k THEN i ELSE i + 1) /\ a # k /\ g[i] = f[a]
    BY <1>4
  <2>2. Queue(after, r)[i] = Entry(labels[f[a]])
    BY <1>3, <1>9, <2>1
  <2>3. Queue(labels, r)[a] = Entry(labels[f[a]])
    BY <1>9
  <2>4. Promise!Without(Queue(labels, r), k)[i] = Queue(labels, r)[a]
    BY <1>10, <2>1
  <2>5. QED
    BY <2>2, <2>3, <2>4
<1>12. QED
  BY <1>9, <1>10, <1>11, SeqEqual

\* A sector that joins a ring above all its numbers joins at the tail.
LEMMA QueueAppended ==
  ASSUME NEW labels, Told(labels), NEW after, Told(after), NEW r \in Rings, NEW s \in Sectors,
         labels[s].owner # r, after[s].owner = r,
         \A t \in Sectors : labels[t].owner = r => labels[t].sequence < after[s].sequence,
         \A t \in Sectors \ {s} :
           labels[t].owner = r \/ after[t].owner = r => after[t] = labels[t]
  PROVE  Queue(after, r) = Append(Queue(labels, r), Entry(after[s]))
<1>1. PICK n, f : Lists(labels, r, f, n)
  BY ListExists
<1> DEFINE g == [i \in 1 .. n + 1 |-> IF i <= n THEN f[i] ELSE s]
<1>2. n \in Nat /\ n + 1 \in Nat /\ \A i \in 1 .. n : f[i] \in Sectors /\ labels[f[i]].owner = r
  BY <1>1 DEF Lists
<1>3. \A i \in 1 .. n : i \in 1 .. n + 1 /\ g[i] = f[i] /\ f[i] # s /\ after[f[i]] = labels[f[i]]
  BY <1>2
<1>4. n + 1 \in 1 .. n + 1 /\ g[n + 1] = s
  BY <1>2
<1>5. \A i \in 1 .. n + 1 : i \in 1 .. n \/ i = n + 1
  BY <1>2
<1>6. g \in [1 .. n + 1 -> Sectors]
  BY <1>2
<1> HIDE DEF g
<1>7. \A i \in 1 .. n + 1 : after[g[i]].owner = r
  BY <1>2, <1>3, <1>4, <1>5
<1>8. ASSUME NEW i \in 1 .. n + 1, NEW j \in 1 .. n + 1, i < j
      PROVE  after[g[i]].sequence < after[g[j]].sequence
  <2>1. i \in 1 .. n
    BY <1>2, <1>8
  <2>2. CASE j \in 1 .. n
    <3>1. labels[f[i]].sequence < labels[f[j]].sequence
      BY <1>1, <1>8, <2>1, <2>2 DEF Lists
    <3>2. QED
      BY <1>3, <2>1, <2>2, <3>1
  <2>3. CASE j = n + 1
    BY <1>2, <1>3, <1>4, <2>1, <2>3
  <2>4. QED
    BY <1>5, <2>2, <2>3
<1>9. ASSUME NEW t \in Sectors, after[t].owner = r
      PROVE  \E i \in 1 .. n + 1 : g[i] = t
  <2>1. CASE t = s
    BY <1>4, <2>1
  <2>2. CASE t # s
    <3>1. labels[t].owner = r
      BY <1>9, <2>2
    <3>2. PICK i \in 1 .. n : f[i] = t
      BY <1>1, <3>1 DEF Lists
    <3>3. QED
      BY <1>3, <3>2
  <2>3. QED
    BY <2>1, <2>2
<1>10. Lists(after, r, g, n + 1)
  BY <1>2, <1>6, <1>7, <1>8, <1>9 DEF Lists
<1>11. /\ Queue(labels, r) = [i \in 1 .. n |-> Entry(labels[f[i]])]
       /\ Queue(labels, r) \in Seq(Entries) /\ Len(Queue(labels, r)) = n
       /\ Queue(after, r) = [i \in 1 .. n + 1 |-> Entry(after[g[i]])]
       /\ Queue(after, r) \in Seq(Entries) /\ Len(Queue(after, r)) = n + 1
  BY <1>1, <1>10, QueueOf
<1>12. Entry(after[s]) \in Entries
  BY EntriesType DEF Told
<1> DEFINE queue == Queue(labels, r)
           appended == Append(queue, Entry(after[s]))
<1>13. /\ appended \in Seq(Entries) /\ Len(appended) = n + 1
       /\ \A i \in 1 .. n : appended[i] = queue[i]
       /\ appended[n + 1] = Entry(after[s])
  <2>1. queue \in Seq(Entries) /\ Len(queue) = n
    BY <1>11
  <2> HIDE DEF queue
  <2>2. /\ appended \in Seq(Entries) /\ Len(appended) = Len(queue) + 1
        /\ \A i \in 1 .. Len(queue) : appended[i] = queue[i]
        /\ appended[Len(queue) + 1] = Entry(after[s])
    BY <1>12, <2>1, AppendProperties
  <2>3. QED
    BY <2>1, <2>2
<1> HIDE DEF appended
<1>14. ASSUME NEW i \in 1 .. n + 1
       PROVE  Queue(after, r)[i] = appended[i]
  <2>1. CASE i \in 1 .. n
    BY <1>3, <1>11, <1>13, <2>1
  <2>2. CASE i = n + 1
    BY <1>4, <1>11, <1>13, <2>2
  <2>3. QED
    BY <1>5, <2>1, <2>2
<1>15. Queue(after, r) = appended
  BY <1>11, <1>13, <1>14, SeqEqual
<1>16. QED
  BY <1>15 DEF appended

\* What a ring is left with keeps its order.
LEMMA QueueWithin ==
  ASSUME NEW labels, Told(labels), NEW after, Told(after), NEW r \in Rings,
         \A s \in Sectors : after[s].owner = r => after[s] = labels[s]
  PROVE  Promise!Within(Queue(after, r), Queue(labels, r))
<1>1. PICK n, f : Lists(labels, r, f, n)
  BY ListExists
<1>2. PICK m, g : Lists(after, r, g, m)
  BY ListExists
<1>3. /\ Queue(labels, r) = [i \in 1 .. n |-> Entry(labels[f[i]])]
      /\ Queue(after, r) = [i \in 1 .. m |-> Entry(after[g[i]])]
  BY <1>1, <1>2, QueueOf
<1>4. n \in Nat /\ m \in Nat
  BY <1>1, <1>2 DEF Lists
<1>5. \A i \in 1 .. m : g[i] \in Sectors /\ after[g[i]] = labels[g[i]] /\ labels[g[i]].owner = r
  BY <1>2 DEF Lists
<1>6. \A i \in 1 .. m : \E j \in 1 .. n : f[j] = g[i]
  BY <1>1, <1>5 DEF Lists
<1> DEFINE place == [i \in 1 .. m |-> CHOOSE j \in 1 .. n : f[j] = g[i]]
<1>7. \A i \in 1 .. m : place[i] \in 1 .. n /\ f[place[i]] = g[i]
  BY <1>6
<1> HIDE DEF place
<1>8. ASSUME NEW i \in 1 .. m, NEW j \in 1 .. m, i < j
      PROVE  place[i] < place[j]
  <2>1. labels[f[place[i]]].sequence < labels[f[place[j]]].sequence
    BY <1>2, <1>5, <1>7, <1>8 DEF Lists
  <2>2. /\ place[i] \in 1 .. n /\ place[j] \in 1 .. n
        /\ labels[f[place[i]]].sequence \in Nat /\ labels[f[place[j]]].sequence \in Nat
    BY <1>5, <1>7 DEF Told, Label
  <2>3. ~ (place[j] < place[i]) /\ place[i] # place[j]
    <3>1. ASSUME place[j] < place[i] PROVE FALSE
      <4>1. labels[f[place[j]]].sequence < labels[f[place[i]]].sequence
        BY <1>1, <2>2, <3>1 DEF Lists
      <4>2. QED
        BY <2>1, <2>2, <4>1
    <3>2. QED
      BY <2>1, <2>2, <3>1
  <2>4. QED
    BY <1>4, <2>2, <2>3
<1>9. \A i \in 1 .. m : Queue(after, r)[i] = Queue(labels, r)[place[i]]
  BY <1>3, <1>5, <1>7
<1>10. DOMAIN Queue(after, r) = 1 .. m /\ DOMAIN Queue(labels, r) = 1 .. n
  BY <1>3
<1>11. place \in [1 .. m -> 1 .. n]
  BY <1>7 DEF place
<1>12. QED
  BY <1>8, <1>9, <1>10, <1>11 DEF Promise!Within

-----------------------------------------------------------------------------
(* The rings, one sector at a time.                                        *)

OfRings(labels) == [r \in Rings |-> Queue(labels, r)]

\* A queue, or the queues but one sector of one ring.
ErasedIn(queues, r) == {[queues EXCEPT ![r] = Promise!Without(@, i)] : i \in DOMAIN queues[r]}
ErasedFrom(queues) == {queues} \cup UNION {ErasedIn(queues, r) : r \in Rings}

LEMMA LabelsTold ==
  ASSUME IInv
  PROVE  Told(label) /\ Told(header)
BY DEF IInv, TypeOK, NumbersOrdered, Ordered, Told

LEMMA EraseOne ==
  ASSUME NEW labels, Told(labels), NEW after, Told(after), NEW s \in Sectors,
         after[s].owner \notin Rings,
         \A t \in Sectors \ {s} : after[t] = labels[t]
  PROVE  OfRings(after) \in ErasedFrom(OfRings(labels))
<1>1. CASE labels[s].owner \notin Rings
  <2>1. \A r \in Rings : Queue(after, r) = Queue(labels, r)
    BY <1>1, QueueSame
  <2>2. QED
    BY <2>1 DEF OfRings, ErasedFrom
<1>2. CASE labels[s].owner \in Rings
  <2> DEFINE v == labels[s].owner
  <2>1. PICK n, f : Lists(labels, v, f, n)
    BY <1>2, ListExists
  <2>2. PICK k \in 1 .. n : f[k] = s
    BY <2>1 DEF Lists
  <2>3. Queue(after, v) = Promise!Without(Queue(labels, v), k)
    BY <1>2, <2>1, <2>2, QueueWithout
  <2>4. \A r \in Rings \ {v} : Queue(after, r) = Queue(labels, r)
    BY QueueSame
  <2>5. k \in DOMAIN Queue(labels, v)
    BY <1>2, <2>1, <2>2, QueueOf
  <2>6. OfRings(after) = [OfRings(labels) EXCEPT ![v] = Promise!Without(@, k)]
    BY <1>2, <2>3, <2>4 DEF OfRings
  <2>7. k \in DOMAIN OfRings(labels)[v]
    BY <1>2, <2>5 DEF OfRings
  <2> DEFINE queues == OfRings(labels)
  <2>8. [queues EXCEPT ![v] = Promise!Without(@, k)] \in ErasedFrom(queues)
    <3> HIDE DEF queues, v
    <3>1. v \in Rings /\ k \in DOMAIN queues[v]
      BY <1>2, <2>7 DEF queues, v
    <3>2. [queues EXCEPT ![v] = Promise!Without(@, k)] \in ErasedIn(queues, v)
      BY <3>1 DEF ErasedIn
    <3>3. QED
      BY <3>1, <3>2 DEF ErasedFrom
  <2>9. QED
    BY <2>6, <2>8
<1>3. QED
  BY <1>1, <1>2

LEMMA AppendOne ==
  ASSUME NEW labels, Told(labels), NEW after, Told(after), NEW r \in Rings, NEW s \in Sectors,
         labels[s].owner \notin Rings, after[s].owner = r,
         \A t \in Sectors : labels[t].owner = r => labels[t].sequence < after[s].sequence,
         \A t \in Sectors \ {s} : after[t] = labels[t]
  PROVE  OfRings(after) = [OfRings(labels) EXCEPT ![r] = Append(@, Entry(after[s]))]
<1>1. Queue(after, r) = Append(Queue(labels, r), Entry(after[s]))
  BY QueueAppended
<1>2. \A q \in Rings \ {r} : Queue(after, q) = Queue(labels, q)
  BY QueueSame
<1>3. QED
  BY <1>1, <1>2 DEF OfRings

\* The first of a listing is the ring's oldest sector, the last its frontier.
LEMMA HeadAndLast ==
  ASSUME IInv, NEW v \in Rings, NEW n, NEW f, Lists(label, v, f, n), n > 0
  PROVE  /\ \A t \in OwnedBy(v) \ {f[1]} : label[f[1]].sequence < label[t].sequence
         /\ f[1] \in OwnedBy(v) /\ f[n] \in OwnedBy(v)
         /\ Frontier(v) = f[n]
         /\ Oldest(v) = f[1]
<1>1. /\ n \in Nat /\ 1 \in 1 .. n /\ n \in 1 .. n
      /\ \A i \in 1 .. n : f[i] \in Sectors /\ label[f[i]].owner = v /\ f[i] \in OwnedBy(v)
  BY DEF Lists, OwnedBy
<1>2. \A t \in OwnedBy(v) : \E i \in 1 .. n : f[i] = t
  BY DEF Lists, OwnedBy
<1>3. \A t \in Sectors : label[t].sequence \in Nat
  BY DEF IInv, TypeOK, Label
<1>4. ASSUME NEW t \in OwnedBy(v) \ {f[1]}
      PROVE  label[f[1]].sequence < label[t].sequence
  <2>1. PICK i \in 1 .. n : f[i] = t
    BY <1>2
  <2>2. 1 < i
    BY <1>1, <2>1
  <2>3. QED
    BY <1>1, <2>1, <2>2 DEF Lists
<1>5. ASSUME NEW t \in OwnedBy(v) \ {f[n]}
      PROVE  label[t].sequence < label[f[n]].sequence
  <2>1. PICK i \in 1 .. n : f[i] = t
    BY <1>2
  <2>2. i < n
    BY <1>1, <2>1
  <2>3. QED
    BY <1>1, <2>1, <2>2 DEF Lists
<1>6. OwnedBy(v) \in SUBSET Sectors /\ OwnedBy(v) # {}
  BY <1>1 DEF OwnedBy
<1>7. Frontier(v) = f[n]
  <2>1. /\ Frontier(v) \in OwnedBy(v)
        /\ \A t \in OwnedBy(v) : label[t].sequence <= label[Frontier(v)].sequence
    BY <1>6, HighestExists DEF IInv, Frontier
  <2>2. ASSUME Frontier(v) # f[n] PROVE FALSE
    <3>1. label[Frontier(v)].sequence < label[f[n]].sequence
      BY <1>5, <2>1, <2>2
    <3>2. label[f[n]].sequence <= label[Frontier(v)].sequence
      BY <1>1, <2>1
    <3>3. QED
      BY <1>1, <1>3, <1>6, <2>1, <3>1, <3>2
  <2>3. QED
    BY <2>2
<1>8. Oldest(v) = f[1]
  <2>1. \A t \in OwnedBy(v) : label[t].sequence > 0
    <3>1. \A t \in OwnedBy(v) : label[t].sequence \in 1 .. sequence
      BY DEF IInv, NumbersOrdered, Ordered, OwnedBy
    <3>2. QED
      BY <3>1
  <2>2. Above(OwnedBy(v), 0) = OwnedBy(v)
    BY <2>1 DEF Above
  <2>3. /\ Oldest(v) \in OwnedBy(v)
        /\ \A t \in OwnedBy(v) : label[Oldest(v)].sequence <= label[t].sequence
    BY <1>6, <2>2, LowestExists DEF IInv, Oldest
  <2>4. ASSUME Oldest(v) # f[1] PROVE FALSE
    <3>1. label[f[1]].sequence < label[Oldest(v)].sequence
      BY <1>4, <2>3, <2>4
    <3>2. label[Oldest(v)].sequence <= label[f[1]].sequence
      BY <1>1, <2>3
    <3>3. QED
      BY <1>1, <1>3, <1>6, <2>3, <3>1, <3>2
  <2>5. QED
    BY <2>4
<1>9. QED
  BY <1>1, <1>4, <1>7, <1>8

\* Evictable is having a sector beyond the one being written.
LEMMA EvictableIs ==
  ASSUME IInv, NEW v \in Rings
  PROVE  /\ Len(Queue(label, v)) \in Nat
         /\ Len(Queue(label, v)) = Cardinality(OwnedBy(v))
         /\ Evictable(v) <=> Len(Queue(label, v)) > 1
<1>0. Told(label)
  BY LabelsTold
<1>1. PICK n, f : Lists(label, v, f, n)
  BY <1>0, ListExists
<1>2. n \in Nat /\ Len(Queue(label, v)) = n /\ Cardinality(OwnedBy(v)) = n
  <2>1. Held(label, v) = OwnedBy(v)
    BY DEF Held, OwnedBy
  <2>2. n \in Nat
    BY <1>1 DEF Lists
  <2>3. QED
    BY <1>0, <1>1, <2>1, <2>2, QueueOf
<1>3. CASE n = 0
  <2>1. OwnedBy(v) = {}
    BY <1>1, <1>3 DEF Lists, OwnedBy
  <2>2. Above(OwnedBy(v), 0) = {}
    BY <2>1 DEF Above
  <2>3. QED
    BY <1>2, <1>3, <2>2 DEF Evictable
<1>4. CASE n > 0
  <2>1. Oldest(v) = f[1] /\ Frontier(v) = f[n] /\ f[1] \in OwnedBy(v)
    BY <1>1, <1>4, HeadAndLast
  <2>2. f[1] \in Above(OwnedBy(v), 0)
    <3>1. label[f[1]].sequence \in 1 .. sequence
      BY <2>1 DEF IInv, NumbersOrdered, Ordered, OwnedBy
    <3>2. QED
      BY <2>1, <3>1 DEF Above
  <2>3. Evictable(v) <=> f[1] # f[n]
    BY <2>1, <2>2 DEF Evictable
  <2>4. f[1] # f[n] <=> n > 1
    <3>1. ASSUME n > 1 PROVE f[1] # f[n]
      <4>1. 1 \in 1 .. n /\ n \in 1 .. n
        BY <1>2, <3>1
      <4>2. label[f[1]].sequence < label[f[n]].sequence
        BY <1>1, <3>1, <4>1 DEF Lists
      <4>3. label[f[1]].sequence \in Nat
        BY <2>1 DEF IInv, TypeOK, Label, OwnedBy
      <4>4. QED
        BY <4>2, <4>3
    <3>2. ASSUME ~ (n > 1) PROVE n = 1
      BY <1>2, <1>4, <3>2
    <3>3. QED
      BY <3>1, <3>2
  <2>5. QED
    BY <1>2, <2>3, <2>4
<1>5. QED
  BY <1>2, <1>3, <1>4

\* What a sector given up to a claim or a spare is: free, or the head of a ring
\* the promise lets it be taken from, counted as the promise counts it.
Counts(v) ==
  IF Head(Queue(label, v)).session = Queue(label, v)[Len(Queue(label, v))].session
  THEN [lost EXCEPT ![v] = @ + 1]
  ELSE lost

LEMMA HandedIsFreeOrHead ==
  ASSUME IInv, NEW r \in Rings, NEW s \in Sectors, Handed(r, s), NoteTaken(s)
  PROVE  \/ label[s].owner = "free" /\ lost' = lost
         \/ /\ ~spare[r].reserved
            /\ Victim(r) \in Rings /\ label[s].owner = Victim(r)
            /\ Promise!MayTake(r, Victim(r))
            /\ lost' = Counts(Victim(r))
            /\ \E n, f : Lists(label, Victim(r), f, n) /\ n > 1 /\ f[1] = s
<1> DEFINE v == Victim(r)
<1>1. CASE label[s].owner = "free"
  BY <1>1 DEF NoteTaken, UnderFrontier, Rings
<1>2. CASE label[s].owner # "free"
  <2>1. /\ ~spare[r].reserved /\ v \in Rings /\ label[s].owner = v /\ Evictable(v)
        /\ \A t \in OwnedBy(v) \ {s} : label[s].sequence < label[t].sequence
    BY <1>2, HandedFrom DEF IInv
  <2> HIDE DEF v
  <2>2. PICK n, f : Lists(label, v, f, n)
    BY <2>1, LabelsTold, ListExists
  <2>3. /\ Queue(label, v) = [i \in 1 .. n |-> Entry(label[f[i]])]
        /\ Len(Queue(label, v)) = n /\ n \in Nat
    <3>1. n \in Nat
      BY <2>2 DEF Lists
    <3>2. QED
      BY <2>1, <2>2, <3>1, LabelsTold, QueueOf
  <2>4. n > 1
    BY <2>1, <2>3, EvictableIs
  <2>5. f[1] = s
    <3>1. /\ f[1] \in OwnedBy(v) /\ s \in OwnedBy(v)
          /\ \A t \in OwnedBy(v) \ {f[1]} : label[f[1]].sequence < label[t].sequence
      BY <2>1, <2>2, <2>3, <2>4, HeadAndLast DEF OwnedBy
    <3>2. label[s].sequence \in Nat /\ label[f[1]].sequence \in Nat
      BY <3>1 DEF IInv, TypeOK, Label, OwnedBy
    <3>3. QED
      BY <2>1, <3>1, <3>2
  <2>6. Frontier(v) = f[n]
    BY <2>1, <2>2, <2>3, <2>4, HeadAndLast
  <2>7. /\ Head(Queue(label, v)) = Entry(label[s])
        /\ Queue(label, v)[Len(Queue(label, v))] = Entry(label[Frontier(v)])
    <3>1. 1 \in 1 .. n /\ n \in 1 .. n
      BY <2>3, <2>4
    <3>2. Head(Queue(label, v)) = Queue(label, v)[1]
      OBVIOUS
    <3>3. QED
      BY <2>3, <2>5, <2>6, <3>1, <3>2
  <2>8. lost' = Counts(v)
    <3>1. UnderFrontier(s) <=> label[s].session = label[Frontier(v)].session
      BY <2>1 DEF UnderFrontier
    <3>2. Entry(label[s]).session = label[s].session
          /\ Entry(label[Frontier(v)]).session = label[Frontier(v)].session
      BY DEF Entry
    <3>3. QED
      BY <2>1, <2>7, <3>1, <3>2 DEF NoteTaken, Counts
  <2>9. Promise!MayTake(r, v)
    <3>1. OfRings(label)[v] = Queue(label, v) /\ Len(Queue(label, v)) > 1
      BY <2>1, <2>3, <2>4 DEF OfRings
    <3>2. ASSUME r = "diagnostics", v = "flights"
          PROVE  Len(Queue(label, "flights")) > FloorSectors
      <4>1. AboveFloor
        BY <3>2 DEF Victim, v
      <4>2. QED
        BY <3>2, <4>1, <2>1, EvictableIs DEF AboveFloor
    <3>3. ASSUME r = "flights", v = "flights"
          PROVE  Len(Queue(label, "diagnostics")) <= 1
      <4>1. ~Evictable("diagnostics") /\ "diagnostics" \in Rings
        BY <3>3 DEF Victim, v, Rings
      <4>2. QED
        BY <4>1, EvictableIs
    <3>4. QED
      BY <2>1, <3>1, <3>2, <3>3 DEF Promise!MayTake, OfRings, Rings
  <2>10. QED
    BY <2>1, <2>2, <2>4, <2>5, <2>8, <2>9 DEF v
<1>3. QED
  BY <1>1, <1>2

\* The oldest sector of a ring leaves at its head.
LEMMA TailOne ==
  ASSUME NEW labels, Told(labels), NEW after, Told(after), NEW v \in Rings,
         NEW n, NEW f, Lists(labels, v, f, n), n > 0,
         after[f[1]].owner \notin Rings,
         \A t \in Sectors \ {f[1]} : after[t] = labels[t]
  PROVE  OfRings(after) = [OfRings(labels) EXCEPT ![v] = Tail(@)]
<1>1. n \in Nat /\ 1 \in 1 .. n /\ f[1] \in Sectors /\ labels[f[1]].owner = v
  BY DEF Lists
<1>2. Queue(after, v) = Promise!Without(Queue(labels, v), 1)
  BY <1>1, QueueWithout
<1>3. Queue(labels, v) \in Seq(Entries) /\ Len(Queue(labels, v)) = n
  BY QueueOf
<1>4. Promise!Without(Queue(labels, v), 1) = Tail(Queue(labels, v))
  <2> DEFINE queue == Queue(labels, v)
  <2> HIDE DEF queue
  <2>1. queue \in Seq(Entries) /\ Len(queue) = n /\ queue # << >>
    BY <1>1, <1>3 DEF queue
  <2>2. Tail(queue) = SubSeq(queue, 2, Len(queue)) /\ Tail(queue) \in Seq(Entries)
    BY <2>1, TailIsSubSeq, HeadTailProperties
  <2>3. SubSeq(queue, 1, 1 - 1) = << >>
    BY SubSeqEmpty
  <2>4. << >> \o Tail(queue) = Tail(queue)
    BY <2>2, ConcatEmptySeq
  <2>5. Promise!Without(queue, 1) = Tail(queue)
    BY <2>2, <2>3, <2>4 DEF Promise!Without
  <2>6. QED
    BY <2>5 DEF queue
<1>5. \A r \in Rings \ {v} : Queue(after, r) = Queue(labels, r)
  BY <1>1, QueueSame
<1>6. QED
  BY <1>2, <1>4, <1>5 DEF OfRings

\* A ring holds a session when one of its sectors carries it, and names the
\* opening of the one it does not.
LEMMA HoldsIs ==
  ASSUME IInv, NEW r \in Rings, NEW session
  PROVE  Promise!Holds(r, session) <=> OwnsSession(r, session)
<1>0. Told(label)
  BY LabelsTold
<1>1. PICK n, f : Lists(label, r, f, n)
  BY <1>0, ListExists
<1>2. Queue(label, r) = [i \in 1 .. n |-> Entry(label[f[i]])]
  BY <1>0, <1>1, QueueOf
<1>3. Promise!Holds(r, session) <=> \E i \in 1 .. n : label[f[i]].session = session
  BY <1>2 DEF Promise!Holds, Entry
<1>4. OwnsSession(r, session) <=> \E i \in 1 .. n : label[f[i]].session = session
  <2>1. \A i \in 1 .. n : f[i] \in Sectors /\ label[f[i]].owner = r
    BY <1>1 DEF Lists
  <2>2. \A s \in Sectors : label[s].owner = r => \E i \in 1 .. n : f[i] = s
    BY <1>1 DEF Lists
  <2>3. QED
    BY <2>1, <2>2 DEF OwnsSession, InSession, OwnedBy
<1>5. QED
  BY <1>3, <1>4

LEMMA EntryIs ==
  ASSUME IInv, NEW r \in Rings, NEW session, NEW labelled,
         labelled.session = session, labelled.start = ~OwnsSession(r, session)
  PROVE  Entry(labelled) = Promise!Entry(r, session)
BY HoldsIs DEF Entry, Promise!Entry

LEMMA ErasedIs == Promise!Erased = ErasedFrom(OfRings(header))
BY DEF Promise!Erased, ErasedFrom, ErasedIn, OfRings, Rings, Promise!Rings

\* What a claim makes of a label it takes for a ring.
Given(r, session) ==
  [owner |-> r, sequence |-> sequence + 1, session |-> session, start |-> ~OwnsSession(r, session)]

\* The claimed sector on the part: erased, then labelled, or refused.
LEMMA PartRelabelled ==
  ASSUME IInv, IInv', NEW r \in Rings, NEW session \in Sessions, NEW s \in Sectors,
         Labelled(r, session, s)
  PROVE  Promise!Relabelled(r, session)
<1> DEFINE mid == [header EXCEPT ![s] = Free]
<1>1. /\ label' = [label EXCEPT ![s] = Given(r, session)]
      /\ \E reads \in {header[s], Free, label'[s]} : header' = [header EXCEPT ![s] = reads]
  BY DEF Labelled, Claim, Take, Given
<1>2. Told(header) /\ Told(header')
  BY LabelsTold DEF IInv, TypeOK, NumbersOrdered, Ordered, Told
<1>3. header \in [Sectors -> Label] /\ label \in [Sectors -> Label]
  BY DEF IInv, TypeOK
<1>4. Told(mid) /\ mid[s].owner \notin Rings /\ \A t \in Sectors \ {s} : mid[t] = header[t]
  BY <1>2, <1>3, Constants DEF Told, Free, Unlabelled, Rings
<1> HIDE DEF mid
<1>5. OfRings(mid) \in ErasedFrom(OfRings(header))
  BY <1>2, <1>4, EraseOne
<1>6. CASE header' = header
  <2>1. OfRings(header') \in Promise!Erased
    BY <1>6, ErasedIs DEF ErasedFrom
  <2>2. QED
    BY <2>1 DEF Promise!Relabelled, OfRings
<1>7. CASE header' = mid
  <2>1. OfRings(header') \in Promise!Erased
    BY <1>5, <1>7, ErasedIs
  <2>2. QED
    BY <2>1 DEF Promise!Relabelled, OfRings
<1>8. CASE header' = [header EXCEPT ![s] = label'[s]]
  <2>1. header'[s] = Given(r, session) /\ \A t \in Sectors \ {s} : header'[t] = mid[t]
    BY <1>1, <1>3, <1>4, <1>8
  <2>2. /\ Given(r, session).owner = r /\ Given(r, session).sequence = sequence + 1
        /\ Given(r, session).session = session
        /\ Given(r, session).start = ~OwnsSession(r, session)
    BY DEF Given
  <2>3. \A t \in Sectors : mid[t].owner = r => mid[t].sequence < sequence + 1
    <3>1. \A t \in Sectors : header[t].owner \in Rings => header[t].sequence \in 1 .. sequence
      BY DEF IInv, NumbersOrdered, Ordered
    <3>2. sequence \in Nat
      BY DEF IInv, TypeOK
    <3>3. QED
      BY <1>4, <3>1, <3>2
  <2>4. OfRings(header') = [OfRings(mid) EXCEPT ![r] = Append(@, Entry(header'[s]))]
    BY <1>2, <1>4, <2>1, <2>2, <2>3, AppendOne
  <2>5. Entry(header'[s]) = Promise!Entry(r, session)
    BY <2>1, <2>2, EntryIs
  <2>6. OfRings(header') \in {[p EXCEPT ![r] = Append(@, Promise!Entry(r, session))] : p \in Promise!Erased}
    BY <1>5, <2>4, <2>5, ErasedIs
  <2>7. QED
    BY <2>6 DEF Promise!Relabelled, OfRings
<1>9. header' = header \/ header' = mid \/ header' = [header EXCEPT ![s] = label'[s]]
  <2>1. PICK reads \in {header[s], Free, label'[s]} : header' = [header EXCEPT ![s] = reads]
    BY <1>1
  <2>2. reads = header[s] => header' = header
    BY <1>3, <2>1
  <2>3. reads = Free => header' = mid
    BY <2>1 DEF mid
  <2>4. QED
    BY <2>1, <2>2, <2>3
<1>10. QED
  BY <1>6, <1>7, <1>8, <1>9

-----------------------------------------------------------------------------
(* Every step is a step of the promise, or none.                           *)

LEMMA ClaimPromised ==
  ASSUME IInv, IInv', NEW r \in Rings, NEW session \in Sessions, NEW s \in Sectors,
         Labelled(r, session, s)
  PROVE  Promise!Next
<1>1. /\ Handed(r, s) /\ NoteTaken(s)
      /\ label' = [label EXCEPT ![s] = Given(r, session)]
  BY DEF Labelled, Claim, Take, Given, Handed
<1>2. Promise!Relabelled(r, session)
  BY PartRelabelled
<1> DEFINE kept == [label EXCEPT ![s] = Free]
<1>3. label \in [Sectors -> Label]
  BY DEF IInv, TypeOK
<1>4. Told(label) /\ Told(label') /\ Told(kept)
  BY LabelsTold, <1>3, Constants DEF IInv, TypeOK, NumbersOrdered, Ordered, Told, Free, Unlabelled, Rings
<1>5. /\ kept[s].owner \notin Rings /\ \A t \in Sectors \ {s} : kept[t] = label[t]
      /\ label'[s] = Given(r, session) /\ \A t \in Sectors \ {s} : label'[t] = kept[t]
  BY <1>1, <1>3 DEF Free, Unlabelled, Rings
<1> HIDE DEF kept
<1>6. /\ label'[s].owner = r /\ label'[s].sequence = sequence + 1
      /\ Entry(label'[s]) = Promise!Entry(r, session)
  <2>1. /\ Given(r, session).owner = r /\ Given(r, session).sequence = sequence + 1
        /\ Given(r, session).session = session
        /\ Given(r, session).start = ~OwnsSession(r, session)
    BY DEF Given
  <2>2. QED
    BY <1>5, <2>1, EntryIs
<1>7. \A t \in Sectors : kept[t].owner = r => kept[t].sequence < label'[s].sequence
  <2>1. \A t \in Sectors : label[t].owner \in Rings => label[t].sequence \in 1 .. sequence
    BY DEF IInv, NumbersOrdered, Ordered
  <2>2. sequence \in Nat
    BY DEF IInv, TypeOK
  <2>3. QED
    BY <1>5, <1>6, <2>1, <2>2
<1>8. OfRings(label') = [OfRings(kept) EXCEPT ![r] = Append(@, Promise!Entry(r, session))]
  BY <1>4, <1>5, <1>6, <1>7, AppendOne
<1>9. CASE label[s].owner = "free" /\ lost' = lost
  <2>1. \A q \in Rings : Queue(kept, q) = Queue(label, q)
    BY <1>4, <1>5, <1>9, QueueSame DEF Rings
  <2>2. OfRings(kept) = OfRings(label)
    BY <2>1 DEF OfRings
  <2>3. Promise!Extend(r, session)
    BY <1>2, <1>8, <1>9, <2>2 DEF Promise!Extend, OfRings
  <2>4. QED
    BY <2>3 DEF Promise!Next, Promise!Rings, Rings
<1>10. ASSUME NEW v \in Rings, v = Victim(r), label[s].owner = v, Promise!MayTake(r, v),
              lost' = Counts(v),
              NEW n, NEW f, Lists(label, v, f, n), n > 1, f[1] = s
       PROVE  Promise!Next
  <2>1. n \in Nat /\ n > 0
    BY <1>10 DEF Lists
  <2>2. OfRings(kept) = [OfRings(label) EXCEPT ![v] = Tail(@)]
    BY <1>4, <1>5, <1>10, <2>1, TailOne
  <2>3. lost' = Promise!Counted(v)
    BY <1>10 DEF Counts, Promise!Counted
  <2>4. Promise!Recycle(r, v, session)
    BY <1>2, <1>8, <1>10, <2>2, <2>3 DEF Promise!Recycle, OfRings
  <2>5. QED
    BY <2>4 DEF Promise!Next, Promise!Rings, Rings
<1>11. QED
  BY <1>1, <1>9, <1>10, HandedIsFreeOrHead

LEMMA PreparePromised ==
  ASSUME IInv, IInv', NEW r \in Rings, NEW s \in Sectors, Prepared(r, s)
  PROVE  Promise!Next \/ UNCHANGED Promise!vars
<1>1. CASE spare[r].reserved
  BY <1>1 DEF Prepared, Prepare, Promise!vars
<1>2. CASE ~spare[r].reserved
  <2>1. /\ Handed(r, s) /\ NoteTaken(s) /\ label' = [label EXCEPT ![s] = Free]
        /\ header' = header
    BY <1>2 DEF Prepared, Prepare, Reserve, Handed
  <2>2. label \in [Sectors -> Label]
    BY DEF IInv, TypeOK
  <2>3. Told(label) /\ Told(label')
    BY LabelsTold DEF IInv, TypeOK, NumbersOrdered, Ordered, Told
  <2>4. label'[s].owner \notin Rings /\ \A t \in Sectors \ {s} : label'[t] = label[t]
    BY <2>1, <2>2 DEF Free, Unlabelled, Rings
  <2>5. CASE label[s].owner = "free" /\ lost' = lost
    <3>1. \A q \in Rings : Queue(label', q) = Queue(label, q)
      BY <2>3, <2>4, <2>5, QueueSame DEF Rings
    <3>2. QED
      BY <2>1, <2>5, <3>1 DEF Promise!vars
  <2>6. ASSUME NEW v \in Rings, v = Victim(r), label[s].owner = v, Promise!MayTake(r, v),
               lost' = Counts(v),
               NEW n, NEW f, Lists(label, v, f, n), n > 1, f[1] = s
        PROVE  Promise!Next
    <3>1. n \in Nat /\ n > 0
      BY <2>6 DEF Lists
    <3>2. OfRings(label') = [OfRings(label) EXCEPT ![v] = Tail(@)]
      BY <2>3, <2>4, <2>6, <3>1, TailOne
    <3>3. lost' = Promise!Counted(v)
      BY <2>6 DEF Counts, Promise!Counted
    <3>4. Promise!SetAside(r, v)
      BY <2>1, <2>6, <3>2, <3>3 DEF Promise!SetAside, OfRings
    <3>5. QED
      BY <3>4 DEF Promise!Next, Promise!Rings, Rings
  <2>7. QED
    BY <2>1, <2>5, <2>6, HandedIsFreeOrHead
<1>3. QED
  BY <1>1, <1>2

LEMMA SpareErasedPromised ==
  ASSUME IInv, IInv', NEW r \in Rings, SpareErased(r)
  PROVE  Promise!Next
<1>1. /\ label' = label /\ lost' = lost
      /\ header' = IF spare[r].reserved THEN [header EXCEPT ![spare[r].sector] = Free] ELSE header
  BY DEF SpareErased, NoteErased
<1>2. header \in [Sectors -> Label] /\ spare[r].sector \in Sectors
  BY DEF IInv, TypeOK, Spare
<1>3. Told(header) /\ Told(header')
  BY LabelsTold DEF IInv, TypeOK, NumbersOrdered, Ordered, Told
<1>4. OfRings(header') \in Promise!Erased
  <2>1. CASE header' = header
    BY <2>1, ErasedIs DEF ErasedFrom
  <2>2. CASE header' = [header EXCEPT ![spare[r].sector] = Free]
    <3>1. /\ header'[spare[r].sector].owner \notin Rings
          /\ \A t \in Sectors \ {spare[r].sector} : header'[t] = header[t]
      BY <1>2, <2>2 DEF Free, Unlabelled, Rings
    <3>2. QED
      BY <1>2, <1>3, <3>1, EraseOne, ErasedIs
  <2>3. QED
    BY <1>1, <2>1, <2>2
<1>5. Promise!Clear
  BY <1>1, <1>4 DEF Promise!Clear, OfRings
<1>6. QED
  BY <1>5 DEF Promise!Next

LEMMA GivenBackPromised ==
  ASSUME IInv, IInv', NEW r \in Rings, GivenBack(r)
  PROVE  Promise!Next
<1>1. /\ label' = [s \in Sectors |-> IF label[s].owner = r THEN Free ELSE label[s]]
      /\ header' = [s \in Sectors |-> IF label[s].owner \in {r, "free"} THEN Free ELSE header[s]]
      /\ lost' = lost
  BY DEF GivenBack, Release
<1>2. Told(label) /\ Told(label') /\ Told(header) /\ Told(header')
  BY LabelsTold DEF IInv, TypeOK, NumbersOrdered, Ordered, Told
<1>3. Free.owner \notin Rings
  BY DEF Free, Unlabelled, Rings
<1>4. \A s \in Sectors : label'[s].owner # r
  BY <1>1, <1>3
<1>5. Queue(label', r) = << >>
  <2>1. Lists(label', r, << >>, 0)
    BY <1>4 DEF Lists
  <2>2. Queue(label', r) \in Seq(Entries) /\ Len(Queue(label', r)) = 0
    BY <1>2, <2>1, QueueOf
  <2>3. QED
    BY <2>2, EmptySeq
<1>6. \A q \in Rings \ {r} : Queue(label', q) = Queue(label, q)
  <2> SUFFICES ASSUME NEW q \in Rings \ {r} PROVE Queue(label', q) = Queue(label, q)
    OBVIOUS
  <2>1. \A s \in Sectors : label[s].owner = q \/ label'[s].owner = q => label'[s] = label[s]
    BY <1>1, <1>3
  <2>2. QED
    BY <1>2, <2>1, QueueSame
<1>7. \A q \in Rings : Promise!Within(Queue(header', q), Queue(header, q))
  <2> SUFFICES ASSUME NEW q \in Rings PROVE Promise!Within(Queue(header', q), Queue(header, q))
    OBVIOUS
  <2>1. \A s \in Sectors : header'[s].owner = q => header'[s] = header[s]
    BY <1>1, <1>3
  <2>2. QED
    BY <1>2, <2>1, QueueWithin
<1>8. OfRings(label') = [OfRings(label) EXCEPT ![r] = << >>]
  BY <1>5, <1>6 DEF OfRings
<1>9. \A q \in Rings : Promise!Within(OfRings(header')[q], OfRings(header)[q])
  BY <1>7 DEF OfRings
<1>10. Promise!GiveBack(r)
  BY <1>1, <1>8, <1>9 DEF Promise!GiveBack, Promise!Rings, Rings, OfRings
<1>11. QED
  BY <1>10 DEF Promise!Next, Promise!Rings, Rings

LEMMA RescanPromised ==
  ASSUME IInv, IInv', Rescan
  PROVE  Promise!Next
<1>1. /\ label' = header' /\ lost' = [r \in Rings |-> 0]
      /\ \/ header' = header
         \/ \E s \in Sectors, reads \in {Free, Quarantined} :
              header' = [header EXCEPT ![s] = reads]
  BY DEF Rescan, Misread, Boot
<1>2. header \in [Sectors -> Label]
  BY DEF IInv, TypeOK
<1>3. Told(header) /\ Told(header')
  BY LabelsTold DEF IInv, TypeOK, NumbersOrdered, Ordered, Told
<1>4. OfRings(header') \in Promise!Erased
  <2>1. CASE header' = header
    BY <2>1, ErasedIs DEF ErasedFrom
  <2>2. ASSUME NEW s \in Sectors, NEW reads \in {Free, Quarantined},
               header' = [header EXCEPT ![s] = reads]
        PROVE  OfRings(header') \in Promise!Erased
    <3>1. /\ header'[s].owner \notin Rings
          /\ \A t \in Sectors \ {s} : header'[t] = header[t]
      BY <1>2, <2>2 DEF Free, Quarantined, Unlabelled, Rings
    <3>2. QED
      BY <1>3, <3>1, EraseOne, ErasedIs
  <2>3. QED
    BY <1>1, <2>1, <2>2
<1>5. Promise!Reset
  BY <1>1, <1>4 DEF Promise!Reset, Promise!Rings, Rings, OfRings
<1>6. QED
  BY <1>5 DEF Promise!Next

LEMMA InitPromised ==
  ASSUME Init
  PROVE  Promise!Init
<1>1. label = [s \in Sectors |-> Free] /\ header = label /\ lost = [r \in Rings |-> 0]
  BY DEF Init
<1>2. Told(label)
  BY InitIInv, LabelsTold
<1>3. ASSUME NEW r \in Rings PROVE Queue(label, r) = << >>
  <2>1. Lists(label, r, << >>, 0)
    BY <1>1, <1>3 DEF Lists, Free, Unlabelled, Rings
  <2>2. Queue(label, r) \in Seq(Entries) /\ Len(Queue(label, r)) = 0
    BY <1>2, <2>1, QueueOf
  <2>3. QED
    BY <2>2, EmptySeq
<1>4. [r \in Rings |-> Queue(label, r)] = [r \in Rings |-> << >>]
  BY <1>3
<1>5. QED
  BY <1>1, <1>4 DEF Promise!Init, Promise!Rings, Rings

LEMMA StepPromised ==
  ASSUME IInv, IInv', [Next]_vars
  PROVE  [Promise!Next]_(Promise!vars)
<1>1. ASSUME NEW r \in Rings, NEW session \in Sessions, NEW s \in Sectors, Labelled(r, session, s)
      PROVE  Promise!Next
  BY <1>1, ClaimPromised
<1>2. ASSUME NEW r \in Rings, NEW s \in Sectors, Prepared(r, s)
      PROVE  Promise!Next \/ UNCHANGED Promise!vars
  BY <1>2, PreparePromised
<1>3. ASSUME NEW r \in Rings, SpareErased(r)
      PROVE  Promise!Next
  BY <1>3, SpareErasedPromised
<1>4. ASSUME NEW r \in Rings, GivenBack(r)
      PROVE  Promise!Next
  BY <1>4, GivenBackPromised
<1>5. CASE Rescan
  BY <1>5, RescanPromised
<1>6. CASE UNCHANGED vars
  BY <1>6 DEF vars, Promise!vars
<1>7. QED
  BY <1>1, <1>2, <1>3, <1>4, <1>5, <1>6 DEF Next

\* The allocator keeps the promise of LogRings whatever the claims, spares,
\* erases, give-backs and resets: a ring loses its oldest sector first and
\* never its last, the capture takes nothing below the floor, one opening is
\* named per session held, every loss is counted, and what the part reads as
\* is what a reset goes back to (claim(), prepare(), release(), note_sector()).
THEOREM KeepsItsPromise == Spec => KeepsPromise
<1>1. Init => Promise!Init
  BY InitPromised
<1>2. IInv /\ IInv' /\ [Next]_vars => [Promise!Next]_(Promise!vars)
  BY StepPromised
<1>3. QED
  BY <1>1, <1>2, AlwaysIInv, PTL DEF Spec, KeepsPromise, Promise!Spec

-----------------------------------------------------------------------------
(* The stores over the pool: their inductive invariant.                    *)

\* The header of a sector never carries the number of another one's label.
HeadersApart ==
  \A s, t \in Sectors :
    s # t /\ label[s].owner \in Rings /\ header[t].owner \in Rings
    => label[s].sequence # header[t].sequence

\* Every labelled sector belongs to a session a service has named.
SessionsNamed(labels) ==
  \A s \in Sectors : labels[s].owner \in Rings =>
    labels[s].session \in Sessions /\ labels[s].session <= named[labels[s].owner]

\* What a ring claimed after a sector of the session it writes is of that
\* session too.
SessionIsLast ==
  \A r \in Rings, s, t \in Sectors :
    /\ label[s].owner = r /\ label[t].owner = r
    /\ label[s].session = store[r].session
    /\ label[s].sequence < label[t].sequence
    => label[t].session = store[r].session

\* The sector at the end of a ring.
AtEnd(labels, r, s) ==
  /\ s \in Sectors
  /\ labels[s].owner = r
  /\ \A t \in Sectors \ {s} : labels[t].owner = r => labels[t].sequence < labels[s].sequence

\* A store that has claimed a sector writes at the end of its ring.
CursorAtEnd ==
  \A r \in Rings : store[r].claimed =>
    /\ AtEnd(label, r, store[r].sector)
    /\ label[store[r].sector].session = store[r].owned
    /\ store[r].owned = store[r].session
    /\ ~store[r].erasing => header[store[r].sector] = label[store[r].sector]

\* Nothing is written yet from the cursor on.
BlankAhead ==
  "slots" \notin Refused =>
    \A r \in Rings, i \in Places :
      store[r].claimed /\ i >= store[r].slot => slots[store[r].sector][i] = Erased

\* What holds while an operation of the part is under way.
WorkHeld ==
  LET r == work.ring
      s == work.sector
  IN /\ work.step \in {"erase", "label"} =>
          /\ AtEnd(label, r, s) /\ label[s].session = store[r].session
          /\ ~store[r].claimed /\ ~store[r].erasing /\ work.count = 1
     /\ work.step = "label" => slots[s] = Blank
     /\ work.step = "write" =>
          /\ store[r].claimed /\ ~store[r].erasing /\ s = store[r].sector
          /\ work.count >= 1 /\ store[r].slot + work.count <= Slots
     /\ work.step = "spare" => spare[r].reserved /\ spare[r].sector = s
     /\ work.step = "clear" => store[r].erasing /\ Erasable(r, s)

LossesKept == \A r \in Rings : lost[r] - store[r].seen >= gone[r]

StoreInv ==
  /\ StoreTypeOK
  /\ IInv
  /\ HeadersApart
  /\ SessionsNamed(label) /\ SessionsNamed(header)
  /\ \A r \in Rings : store[r].session <= named[r]
  /\ \A r \in Rings : spare[r].erased => spare[r].reserved
  /\ SessionIsLast
  /\ CursorAtEnd
  /\ BlankAhead
  /\ WorkHeld
  /\ SpareBlank
  /\ "slots" \notin Refused => NoByteTwice
  /\ LossesKept

-----------------------------------------------------------------------------
(* Ends of rings, and what a claim or a spare may take.                    *)

LEMMA EndIsFrontier ==
  ASSUME IInv, NEW r \in Rings, NEW s, AtEnd(label, r, s)
  PROVE  Frontier(r) = s
<1>1. OwnedBy(r) \in SUBSET Sectors /\ s \in OwnedBy(r)
  BY DEF OwnedBy, AtEnd
<1>2. /\ Frontier(r) \in OwnedBy(r)
      /\ \A t \in OwnedBy(r) : label[t].sequence <= label[Frontier(r)].sequence
  BY <1>1, HighestExists DEF IInv, Frontier
<1>3. \A t \in Sectors : label[t].sequence \in Nat
  BY DEF IInv, TypeOK, Label
<1>4. ASSUME Frontier(r) # s PROVE FALSE
  BY <1>1, <1>2, <1>3, <1>4 DEF AtEnd, OwnedBy
<1>5. QED
  BY <1>4

LEMMA HandedNotEnd ==
  ASSUME IInv, NEW r \in Rings, NEW q \in Rings, NEW h \in Sectors, Handed(r, h),
         NEW s, AtEnd(label, q, s)
  PROVE  h # s
<1>1. SUFFICES ASSUME h = s PROVE FALSE
  OBVIOUS
<1>2. label[h].owner = q /\ Frontier(q) = h
  BY <1>1, EndIsFrontier DEF AtEnd
<1>3. label[h].owner = "free" \/ (label[h].owner = Victim(r) /\ h # Frontier(Victim(r)))
  BY HandedFrom DEF IInv
<1>4. QED
  BY <1>2, <1>3 DEF Rings

\* A ring's end stays the end while the ring gains nothing.
LEMMA EndKept ==
  ASSUME NEW labels, NEW after, NEW r, NEW s, AtEnd(labels, r, s), after[s] = labels[s],
         \A t \in Sectors : after[t].owner = r => after[t] = labels[t]
  PROVE  AtEnd(after, r, s)
BY DEF AtEnd

\* A sector lost under the session being written is counted among the lost.
LEMMA TakenCounted ==
  ASSUME StoreInv, NEW h \in Sectors, NoteTaken(h), NoteGone(h)
  PROVE  gone' \in [Rings -> Nat] /\ \A q \in Rings : lost'[q] - store[q].seen >= gone'[q]
<1>1. lost \in [Rings -> Nat] /\ gone \in [Rings -> Nat] /\ store \in [Rings -> Fields]
  BY DEF StoreInv, StoreTypeOK, TypeOK
<1>2. \A q \in Rings : lost[q] \in Nat /\ gone[q] \in Nat /\ store[q].seen \in Nat
  BY <1>1 DEF Fields
<1> DEFINE owner == label[h].owner
<1>3. CASE owner \in Rings /\ label[h].session = store[owner].session
  <2>1. OwnedBy(owner) \in SUBSET Sectors /\ h \in OwnedBy(owner)
    BY <1>3 DEF OwnedBy
  <2>2. /\ Frontier(owner) \in OwnedBy(owner)
        /\ \A t \in OwnedBy(owner) : label[t].sequence <= label[Frontier(owner)].sequence
    BY <2>1, HighestExists DEF StoreInv, IInv, Frontier
  <2>3. ASSUME Frontier(owner) # h
        PROVE  label[Frontier(owner)].session = store[owner].session
    <3>1. Frontier(owner) \in Sectors /\ label[Frontier(owner)].owner = owner
      BY <2>2 DEF OwnedBy
    <3>2. /\ label[h].sequence # label[Frontier(owner)].sequence
          /\ label[h].sequence \in Nat /\ label[Frontier(owner)].sequence \in Nat
      BY <1>3, <2>3, <3>1 DEF StoreInv, IInv, NumbersOrdered, Ordered, TypeOK, Label
    <3>3. label[h].sequence < label[Frontier(owner)].sequence
      BY <2>1, <2>2, <3>2
    <3>4. QED
      BY <1>3, <3>1, <3>3 DEF StoreInv, SessionIsLast
  <2>4. label[Frontier(owner)].session = store[owner].session
    BY <1>3, <2>3
  <2>5. UnderFrontier(h)
    BY <1>3, <2>4 DEF UnderFrontier
  <2>6. lost' = [lost EXCEPT ![owner] = @ + 1] /\ gone' = [gone EXCEPT ![owner] = @ + 1]
    BY <1>3, <2>5 DEF NoteTaken, NoteGone
  <2> HIDE DEF owner
  <2>7. QED
    BY <1>1, <1>2, <1>3, <2>6 DEF StoreInv, LossesKept
<1>4. CASE ~(owner \in Rings /\ label[h].session = store[owner].session)
  <2>1. gone' = gone
    BY <1>4 DEF NoteGone
  <2>2. \/ lost' = lost
        \/ owner \in Rings /\ lost' = [lost EXCEPT ![owner] = @ + 1]
    BY DEF NoteTaken, UnderFrontier
  <2> HIDE DEF owner
  <2>3. QED
    BY <1>1, <1>2, <2>1, <2>2 DEF StoreInv, LossesKept
<1>5. QED
  BY <1>3, <1>4

-----------------------------------------------------------------------------
(* A claim and a spare, on the labels.                                     *)

LEMMA ClaimKeeps ==
  ASSUME StoreInv, NEW r \in Rings, NEW h \in Sectors,
         store[r].session \in Sessions, Claim(r, store[r].session, h),
         UNCHANGED <<header, named>>
  PROVE  /\ IInv'
         /\ HeadersApart'
         /\ SessionsNamed(label)' /\ SessionsNamed(header)'
         /\ \A q \in Rings : spare'[q].erased => spare'[q].reserved /\ spare[q] = spare'[q]
         /\ AtEnd(label', r, h) /\ label'[h].session = store[r].session
         /\ \A t \in Sectors \ {h} : label'[t] = label[t]
         /\ \A q \in Rings \ {r}, s \in Sectors :
              AtEnd(label, q, s) => AtEnd(label', q, s) /\ label'[s] = label[s]
<1> DEFINE session == store[r].session
<1>0. StoreInv /\ IInv /\ TypeOK /\ StoreTypeOK
  BY DEF StoreInv, IInv
<1>1. /\ Handed(r, h) /\ sequence' = sequence + 1
      /\ label' = [label EXCEPT ![h] =
           [owner |-> r, sequence |-> sequence + 1, session |-> session,
            start |-> ~OwnsSession(r, session)]]
      /\ spare' = [spare EXCEPT ![r] = NoSpare]
  BY DEF Claim, Handed, Take
<1>2. /\ label'[h].owner = r /\ label'[h].sequence = sequence + 1 /\ label'[h].session = session
      /\ \A t \in Sectors \ {h} : label'[t] = label[t]
  BY <1>0, <1>1 DEF TypeOK
<1>3. IInv'
  <2>1. header' = [header EXCEPT ![h] = header[h]]
    BY <1>0 DEF TypeOK
  <2>2. Labelled(r, session, h)
    BY <2>1 DEF Labelled
  <2>3. QED
    BY <1>0, <2>2, ClaimIInv
<1>4. /\ \A t \in Sectors : label[t].owner \in Rings => label[t].sequence \in 1 .. sequence
      /\ \A t \in Sectors : header[t].owner \in Rings => header[t].sequence \in 1 .. sequence
      /\ sequence \in Nat
  BY <1>0 DEF IInv, NumbersOrdered, Ordered, TypeOK
<1>5. HeadersApart'
  BY <1>0, <1>2, <1>4 DEF StoreInv, HeadersApart
<1>6. SessionsNamed(label)' /\ SessionsNamed(header)'
  <2>1. \A q \in Rings : named[q] \in Nat /\ store[q].session <= named[q]
    BY <1>0 DEF StoreInv, StoreTypeOK
  <2>2. QED
    BY <1>0, <1>2, <2>1 DEF StoreInv, SessionsNamed
<1>7. \A q \in Rings : spare'[q].erased => spare'[q].reserved /\ spare[q] = spare'[q]
  BY <1>0, <1>1 DEF StoreInv, TypeOK, NoSpare
<1>8. AtEnd(label', r, h)
  BY <1>2, <1>4 DEF AtEnd
<1>9. ASSUME NEW q \in Rings \ {r}, NEW s \in Sectors, AtEnd(label, q, s)
      PROVE  AtEnd(label', q, s) /\ label'[s] = label[s]
  <2>1. s # h
    BY <1>0, <1>1, <1>9, HandedNotEnd
  <2>2. label'[s] = label[s]
    BY <1>2, <2>1
  <2>3. \A t \in Sectors : label'[t].owner = q => label'[t] = label[t]
    BY <1>2
  <2>4. QED
    BY <1>9, <2>2, <2>3, EndKept
<1>10. QED
  BY <1>2, <1>3, <1>5, <1>6, <1>7, <1>8, <1>9

LEMMA PrepareKeeps ==
  ASSUME StoreInv, NEW r \in Rings, NEW h \in Sectors,
         Prepare(r, h), UNCHANGED <<header, named>>
  PROVE  /\ IInv'
         /\ HeadersApart'
         /\ SessionsNamed(label)' /\ SessionsNamed(header)'
         /\ \A q \in Rings : spare'[q].erased => spare'[q].reserved /\ spare[q] = spare'[q]
         /\ spare'[r].reserved /\ spare'[r].sector = h
         /\ \A t \in Sectors : label'[t].owner \in Rings => label'[t] = label[t]
         /\ \A q \in Rings, s \in Sectors :
              AtEnd(label, q, s) => AtEnd(label', q, s) /\ label'[s] = label[s]
<1>0. StoreInv /\ IInv /\ TypeOK /\ StoreTypeOK
  BY DEF StoreInv, IInv
<1>1. /\ Handed(r, h)
      /\ \A t \in Sectors \ {h} : label'[t] = label[t]
  BY <1>0, HandedOnly
<1>2. \/ spare[r].reserved /\ h = spare[r].sector /\ UNCHANGED <<label, spare>>
      \/ /\ spare' = [spare EXCEPT ![r] = [sector |-> h, reserved |-> TRUE, erased |-> FALSE]]
         /\ label' = [label EXCEPT ![h] = Free]
  BY DEF Prepare, Reserve
<1>3. IInv'
  BY <1>0, PrepareIInv DEF Prepared
<1>4. \A t \in Sectors : label'[t].owner \in Rings => label'[t] = label[t]
  BY <1>0, <1>2 DEF TypeOK, Free, Unlabelled, Rings
<1>5. HeadersApart'
  BY <1>0, <1>4 DEF StoreInv, HeadersApart
<1>6. SessionsNamed(label)' /\ SessionsNamed(header)'
  BY <1>0, <1>4 DEF StoreInv, SessionsNamed
<1>7. /\ \A q \in Rings : spare'[q].erased => spare'[q].reserved /\ spare[q] = spare'[q]
      /\ spare'[r].reserved /\ spare'[r].sector = h
  BY <1>0, <1>2 DEF StoreInv, TypeOK
<1>8. ASSUME NEW q \in Rings, NEW s \in Sectors, AtEnd(label, q, s)
      PROVE  AtEnd(label', q, s) /\ label'[s] = label[s]
  <2>1. s # h
    BY <1>0, <1>1, <1>8, HandedNotEnd
  <2>2. label'[s] = label[s]
    BY <1>1, <2>1
  <2>3. \A t \in Sectors : label'[t].owner = q => label'[t] = label[t]
    BY <1>4
  <2>4. QED
    BY <1>8, <2>2, <2>3, EndKept
<1>9. QED
  BY <1>3, <1>4, <1>5, <1>6, <1>7, <1>8

-----------------------------------------------------------------------------
(* Writing records.                                                        *)

LEMMA Consts ==
  /\ Slots \in Nat \ {0} /\ Rings = {"flights", "diagnostics"} /\ Sessions \subseteq Nat \ {0}
  /\ 0 \notin Sessions /\ 0 \in Sectors /\ SectorCount \in Nat \ {0}
  /\ Closed \in Fields /\ Idle \in Works
  /\ Blank \in [Places -> Contents] /\ Scrap \in [Places -> Contents]
<1>1. Slots \in Nat \ {0} /\ Sessions \subseteq Nat \ {0} /\ SectorCount \in Nat \ {0}
  BY SlotsAssumption, NamedAssumption, SectorCountAssumption
<1>2. 0 \in Sectors
  BY SectorCountAssumption DEF Sectors
<1>3. Blank \in [Places -> Contents] /\ Scrap \in [Places -> Contents]
  BY DEF Blank, Scrap, Erased, Torn, Contents
<1>4. QED
  BY <1>1, <1>2, <1>3 DEF Closed, Fields, Idle, Works, Rings

\* A claim forgets the sector and the spare before the new one is there.
LEMMA Unclaimed ==
  ASSUME store \in [Rings -> Fields], NEW r \in Rings,
         store' = [store EXCEPT ![r].claimed = FALSE, ![r].spareReady = FALSE]
  PROVE  /\ \A q \in Rings \ {r} : store'[q] = store[q]
         /\ ~store'[r].claimed
         /\ \A q \in Rings : /\ store'[q].session = store[q].session
                             /\ store'[q].seen = store[q].seen
                             /\ store'[q].erasing = store[q].erasing
         /\ store' \in [Rings -> Fields]
<1> DEFINE f == [store[r] EXCEPT !.claimed = FALSE, !.spareReady = FALSE]
<1>1. store[r] \in Fields
  OBVIOUS
<1>2. /\ f \in Fields /\ ~f.claimed
      /\ f.session = store[r].session /\ f.seen = store[r].seen /\ f.erasing = store[r].erasing
  BY <1>1 DEF Fields
<1>3. store' = [store EXCEPT ![r] = f]
  OBVIOUS
<1> HIDE DEF f
<1>4. QED
  BY <1>2, <1>3

\* Nothing changes but the operation under way.
LEMMA Quiet ==
  ASSUME StoreInv, work' \in Works, WorkHeld',
         UNCHANGED <<label, spare, lost, sequence, newest, claimed, header, slots, store,
                     named, given, written, gone>>
  PROVE  StoreInv'
<1>1. StoreInv /\ IInv /\ TypeOK /\ StoreTypeOK
  BY DEF StoreInv, IInv
<1>2. StoreTypeOK' /\ IInv'
  BY <1>1 DEF StoreTypeOK, IInv, TypeOK, NumbersOrdered, Ordered, SpareIsNobodys
<1>3. /\ HeadersApart' /\ SessionsNamed(label)' /\ SessionsNamed(header)'
      /\ \A q \in Rings : store'[q].session <= named'[q]
      /\ \A q \in Rings : spare'[q].erased => spare'[q].reserved
      /\ SessionIsLast' /\ CursorAtEnd'
  BY <1>1 DEF StoreInv, HeadersApart, SessionsNamed, SessionIsLast, CursorAtEnd, AtEnd
<1>4. BlankAhead' /\ SpareBlank' /\ ("slots" \notin Refused => NoByteTwice') /\ LossesKept'
  BY <1>1 DEF StoreInv, BlankAhead, SpareBlank, NoByteTwice, LossesKept
<1>5. QED
  BY <1>2, <1>3, <1>4 DEF StoreInv

LEMMA QuietIdle ==
  ASSUME StoreInv, work' = Idle,
         UNCHANGED <<label, spare, lost, sequence, newest, claimed, header, slots, store,
                     named, given, written, gone>>
  PROVE  StoreInv'
<1>1. work' \in Works /\ WorkHeld'
  BY Consts DEF WorkHeld, Idle
<1>2. QED
  BY <1>1, Quiet

LEMMA ClaimSectorInv ==
  ASSUME StoreInv, NEW r \in Rings, work = Idle, ~store[r].erasing, store[r].session # 0,
         NEW h \in Sectors, Claim(r, BaseSession(r), h), NoteGone(h),
         store' = [store EXCEPT ![r].claimed = FALSE, ![r].spareReady = FALSE],
         work' = [step |-> IF spare[r].erased THEN "label" ELSE "erase",
                  ring |-> r, sector |-> h, count |-> 1],
         UNCHANGED <<slots, header, named, given, written>>
  PROVE  StoreInv'
<1>0. StoreInv /\ IInv /\ TypeOK /\ StoreTypeOK
  BY DEF StoreInv, IInv
<1>1. store[r].session \in Sessions /\ BaseSession(r) = store[r].session
  BY <1>0 DEF StoreTypeOK, Fields, BaseSession, StoreInv, CursorAtEnd
<1>2. /\ IInv'
      /\ HeadersApart'
      /\ SessionsNamed(label)' /\ SessionsNamed(header)'
      /\ \A q \in Rings : spare'[q].erased => spare'[q].reserved /\ spare[q] = spare'[q]
      /\ AtEnd(label', r, h) /\ label'[h].session = store[r].session
      /\ \A t \in Sectors \ {h} : label'[t] = label[t]
      /\ \A q \in Rings \ {r}, s \in Sectors :
           AtEnd(label, q, s) => AtEnd(label', q, s) /\ label'[s] = label[s]
  BY <1>1, ClaimKeeps
<1>3. gone' \in [Rings -> Nat] /\ \A q \in Rings : lost'[q] - store[q].seen >= gone'[q]
  BY TakenCounted DEF Claim
<1>4. /\ \A q \in Rings \ {r} : store'[q] = store[q]
      /\ ~store'[r].claimed /\ store'[r].erasing = store[r].erasing
      /\ \A q \in Rings : store'[q].session = store[q].session /\ store'[q].seen = store[q].seen
      /\ store' \in [Rings -> Fields]
  BY <1>0, Unclaimed DEF StoreTypeOK
<1>5. StoreTypeOK'
  <2>1. TypeOK'
    BY <1>2 DEF IInv
  <2>2. work' \in Works
    BY Consts DEF Works
  <2>3. QED
    BY <1>0, <1>3, <1>4, <2>1, <2>2 DEF StoreTypeOK
<1>6. \A q \in Rings : store'[q].session <= named'[q]
  BY <1>0, <1>4 DEF StoreInv
<1>7. SessionIsLast'
  <2> SUFFICES ASSUME NEW q \in Rings, NEW s \in Sectors, NEW t \in Sectors,
                      label'[s].owner = q, label'[t].owner = q,
                      label'[s].session = store[q].session,
                      label'[s].sequence < label'[t].sequence
               PROVE  label'[t].session = store[q].session
    BY <1>4 DEF SessionIsLast
  <2>1. CASE t = h
    BY <1>2, <2>1 DEF AtEnd
  <2>2. CASE t # h
    <3>1. s # h
      <4>1. label'[s].sequence \in Nat /\ label'[t].sequence \in Nat
        BY <1>2 DEF IInv, TypeOK, Label
      <4>2. QED
        BY <1>2, <2>2, <4>1 DEF AtEnd
    <3>2. QED
      BY <1>0, <1>2, <2>2, <3>1 DEF StoreInv, SessionIsLast
  <2>3. QED
    BY <2>1, <2>2
<1>8. CursorAtEnd'
  <2> SUFFICES ASSUME NEW q \in Rings, store'[q].claimed
               PROVE  /\ AtEnd(label', q, store'[q].sector)
                      /\ label'[store'[q].sector].session = store'[q].owned
                      /\ store'[q].owned = store'[q].session
                      /\ ~store'[q].erasing => header'[store'[q].sector] = label'[store'[q].sector]
    BY DEF CursorAtEnd
  <2>1. q # r /\ store'[q] = store[q]
    BY <1>4
  <2>2. /\ AtEnd(label, q, store[q].sector) /\ store[q].sector \in Sectors
        /\ label[store[q].sector].session = store[q].owned /\ store[q].owned = store[q].session
        /\ ~store[q].erasing => header[store[q].sector] = label[store[q].sector]
    BY <1>0, <2>1 DEF StoreInv, CursorAtEnd, AtEnd
  <2>3. AtEnd(label', q, store[q].sector) /\ label'[store[q].sector] = label[store[q].sector]
    BY <1>2, <2>1, <2>2
  <2>4. QED
    BY <2>1, <2>2, <2>3
<1>9. BlankAhead'
  BY <1>0, <1>4 DEF StoreInv, BlankAhead
<1>10. SpareBlank'
  BY <1>0, <1>2 DEF StoreInv, SpareBlank
<1>11. WorkHeld'
  <2>1. spare[r].erased => slots[h] = Blank
    BY <1>0 DEF StoreInv, SpareBlank, Claim
  <2>2. QED
    BY <1>2, <1>4, <2>1 DEF WorkHeld
<1>12. ("slots" \notin Refused => NoByteTwice') /\ LossesKept'
  BY <1>0, <1>3, <1>4 DEF StoreInv, NoByteTwice, LossesKept
<1>13. QED
  BY <1>2, <1>5, <1>6, <1>7, <1>8, <1>9, <1>10, <1>11, <1>12 DEF StoreInv

LabelsSame == UNCHANGED <<label, spare, lost, sequence, newest, claimed>>

LEMMA AppendInv ==
  ASSUME StoreInv, NEW r \in Rings, NEW count \in Nat, AppendRun(r, count)
  PROVE  StoreInv'
<1>0. /\ StoreInv /\ IInv /\ TypeOK /\ StoreTypeOK
      /\ work = Idle /\ ~store[r].erasing /\ store[r].session # 0
      /\ count \in 1 .. RunSlots(r)
      /\ UNCHANGED <<slots, header, named, given, written>>
  BY DEF StoreInv, IInv, AppendRun
<1>1. CASE ClaimWanted(r) /\ ClaimSector(r)
  <2>1. store' = [store EXCEPT ![r].claimed = FALSE, ![r].spareReady = FALSE]
    BY <1>1 DEF ClaimSector
  <2>2. CASE \E s \in Sectors :
               /\ Claim(r, BaseSession(r), s)
               /\ NoteGone(s)
               /\ work' = [step |-> IF spare[r].erased THEN "label" ELSE "erase",
                           ring |-> r, sector |-> s, count |-> 1]
    BY <1>0, <2>1, <2>2, ClaimSectorInv
  <2>3. CASE UNCHANGED <<label, spare, lost, sequence, newest, claimed, work, gone>>
    <3>1. /\ \A q \in Rings \ {r} : store'[q] = store[q]
          /\ ~store'[r].claimed
          /\ \A q \in Rings : store'[q].session = store[q].session /\ store'[q].seen = store[q].seen
          /\ store' \in [Rings -> Fields]
      BY <1>0, <2>1, Unclaimed DEF StoreTypeOK
    <3>2. StoreTypeOK' /\ IInv'
      BY <1>0, <2>3, <3>1
      DEF StoreTypeOK, IInv, TypeOK, NumbersOrdered, Ordered, SpareIsNobodys
    <3>3. /\ HeadersApart' /\ SessionsNamed(label)' /\ SessionsNamed(header)'
          /\ \A q \in Rings : store'[q].session <= named'[q]
          /\ \A q \in Rings : spare'[q].erased => spare'[q].reserved
          /\ SessionIsLast'
      BY <1>0, <2>3, <3>1 DEF StoreInv, HeadersApart, SessionsNamed, SessionIsLast
    <3>4. CursorAtEnd'
      BY <1>0, <2>3, <3>1 DEF StoreInv, CursorAtEnd, AtEnd
    <3>5. BlankAhead' /\ SpareBlank' /\ ("slots" \notin Refused => NoByteTwice') /\ LossesKept'
      BY <1>0, <2>3, <3>1 DEF StoreInv, BlankAhead, SpareBlank, NoByteTwice, LossesKept
    <3>6. WorkHeld'
      BY <1>0, <2>3 DEF WorkHeld, Idle
    <3>7. QED
      BY <3>2, <3>3, <3>4, <3>5, <3>6 DEF StoreInv
  <2>4. QED
    BY <1>1, <2>2, <2>3 DEF ClaimSector
<1>2. CASE /\ ~ClaimWanted(r)
           /\ work' = [step |-> "write", ring |-> r, sector |-> store[r].sector, count |-> count]
           /\ UNCHANGED <<label, spare, lost, sequence, newest, claimed, store, gone>>
  <2>1. /\ store[r].claimed /\ store[r].slot < Slots /\ store[r].slot \in 0 .. Slots
        /\ count >= 1 /\ store[r].slot + count <= Slots /\ store[r].sector \in Sectors
    BY <1>0, <1>2, Consts DEF ClaimWanted, Exhausted, RunSlots, StoreTypeOK, Fields
  <2>2. work' \in Works
    BY <1>2, <2>1, Consts DEF Works
  <2>3. WorkHeld'
    BY <1>0, <1>2, <2>1 DEF WorkHeld
  <2>4. QED
    BY <1>0, <1>2, <2>2, <2>3, Quiet
<1>3. QED
  BY <1>1, <1>2 DEF AppendRun

-----------------------------------------------------------------------------
(* The operations of the part.                                             *)

LEMMA ErasedKeeps ==
  ASSUME StoreInv, NEW s \in Sectors, EraseOnPart(s), UNCHANGED <<label, sequence, named>>
  PROVE  /\ header' \in [Sectors -> Label] /\ slots' \in [Sectors -> [Places -> Contents]]
         /\ Ordered(header)' /\ HeadersApart' /\ SessionsNamed(header)'
         /\ header'[s] = Free /\ slots'[s] = Blank
         /\ \A t \in Sectors \ {s} : header'[t] = header[t] /\ slots'[t] = slots[t]
         /\ "slots" \notin Refused => NoByteTwice'
<1>0. StoreInv /\ IInv /\ TypeOK /\ StoreTypeOK
  BY DEF StoreInv, IInv
<1>1. /\ header' \in [Sectors -> Label] /\ slots' \in [Sectors -> [Places -> Contents]]
      /\ header'[s] = Free /\ slots'[s] = Blank
      /\ \A t \in Sectors \ {s} : header'[t] = header[t] /\ slots'[t] = slots[t]
  BY <1>0, Constants, Consts DEF EraseOnPart, TypeOK, StoreTypeOK
<1>2. \A t \in Sectors : header'[t].owner \in Rings => header'[t] = header[t]
  BY <1>1 DEF Free, Unlabelled, Rings
<1>3. Ordered(header)'
  BY <1>0, <1>2 DEF IInv, NumbersOrdered, Ordered
<1>4. HeadersApart' /\ SessionsNamed(header)'
  BY <1>0, <1>2 DEF StoreInv, HeadersApart, SessionsNamed
<1>5. \A i \in Places : Blank[i] # Spoiled
  BY DEF Blank, Erased, Spoiled
<1>6. "slots" \notin Refused => NoByteTwice'
  BY <1>0, <1>1, <1>5 DEF StoreInv, NoByteTwice
<1>7. QED
  BY <1>1, <1>3, <1>4, <1>6

\* What a write puts in the slots from the cursor on, whole or cut short.
LEMMA ProgramKeeps ==
  ASSUME StoreInv, work.step = "write", NEW whole \in Nat, NEW torn \in BOOLEAN,
         whole <= work.count, torn = FALSE \/ whole < work.count,
         slots' = Program(work.ring, whole, torn)
  PROVE  /\ slots' \in [Sectors -> [Places -> Contents]]
         /\ \A t \in Sectors \ {work.sector} : slots'[t] = slots[t]
         /\ torn = FALSE => \A i \in Places :
              i >= store[work.ring].slot + whole => slots'[work.sector][i] = slots[work.sector][i]
         /\ "slots" \notin Refused => NoByteTwice'
<1> DEFINE r == work.ring
           s == work.sector
           from == store[r].slot
           n(i) == i - from + 1
           lands(i) == IF n(i) \in 1 .. whole THEN Record(r, n(i)) ELSE Torn
           cell(i) == IF n(i) \in 1 .. whole \/ (torn /\ n(i) = whole + 1)
                      THEN IF slots[s][i] = Erased THEN lands(i) ELSE Spoiled
                      ELSE slots[s][i]
<1>0. /\ StoreInv /\ StoreTypeOK
      /\ r \in Rings /\ s \in Sectors /\ s = store[r].sector /\ store[r].claimed
      /\ from \in Nat /\ work.count \in Nat
  BY DEF StoreInv, StoreTypeOK, Works, Fields, WorkHeld
<1>1. slots' = [slots EXCEPT ![s] = [i \in Places |-> cell(i)]]
  BY DEF Program
<1>2. \A i \in Places : i \in Nat
  BY DEF Places
<1>3. store[r].owned \in Sessions
  BY <1>0 DEF StoreInv, CursorAtEnd, SessionsNamed, AtEnd
<1>4. ASSUME NEW i \in Places, n(i) \in 1 .. whole
      PROVE  Record(r, n(i)) \in Contents /\ Record(r, n(i)) # Spoiled
  <2>1. written[r][store[r].owned] \in Nat
    BY <1>0, <1>3 DEF StoreTypeOK
  <2>2. written[r][store[r].owned] + n(i) \in Nat
    BY <1>0, <1>2, <1>4, <2>1
  <2> HIDE DEF r, n
  <2>3. QED
    BY <1>3, <2>2, Consts DEF Record, Contents, Spoiled
<1>5. Torn \in Contents /\ Spoiled \in Contents /\ Torn # Spoiled /\ Erased # Spoiled
  BY DEF Torn, Spoiled, Erased, Contents
<1>6. \A i \in Places : slots[s][i] \in Contents
  BY <1>0 DEF StoreTypeOK
<1>7. \A i \in Places : cell(i) \in Contents
  BY <1>4, <1>5, <1>6
<1>8. \A i \in Places :
        "slots" \notin Refused =>
          cell(i) # Spoiled /\ (~torn /\ i >= from + whole => cell(i) = slots[s][i])
  <2> SUFFICES ASSUME NEW i \in Places, "slots" \notin Refused
               PROVE  cell(i) # Spoiled /\ (~torn /\ i >= from + whole => cell(i) = slots[s][i])
    OBVIOUS
  <2>1. slots[s][i] # Spoiled
    BY <1>0 DEF StoreInv, NoByteTwice
  <2>2. i >= from => slots[s][i] = Erased
    BY <1>0 DEF StoreInv, BlankAhead
  <2>3. i \in Nat
    BY <1>2
  <2>4. QED
    BY <1>0, <1>4, <1>5, <2>1, <2>2, <2>3
<1>9. \A i \in Places : ~torn /\ i >= from + whole => cell(i) = slots[s][i]
  BY <1>0, <1>2
<1>10. /\ slots' \in [Sectors -> [Places -> Contents]]
       /\ \A t \in Sectors \ {s} : slots'[t] = slots[t]
       /\ \A i \in Places : slots'[s][i] = cell(i)
  <2> HIDE DEF cell, s
  <2>1. [i \in Places |-> cell(i)] \in [Places -> Contents]
    BY <1>7
  <2>2. QED
    BY <1>0, <1>1, <2>1 DEF StoreTypeOK
<1>11. "slots" \notin Refused => NoByteTwice'
  <2> HIDE DEF cell, s
  <2>1. QED
    BY <1>0, <1>8, <1>10 DEF StoreInv, NoByteTwice
<1>12. torn = FALSE => \A i \in Places : i >= from + whole => slots'[s][i] = slots[s][i]
  <2> HIDE DEF cell, s
  <2>1. QED
    BY <1>9, <1>10
<1>13. QED
  BY <1>10, <1>11, <1>12

\* What no operation of the part touches.
LEMMA LabelsKeep ==
  ASSUME StoreInv, LabelsSame, header' \in [Sectors -> Label], Ordered(header)',
         UNCHANGED <<named, given>>
  PROVE  IInv' /\ SessionsNamed(label)'
<1>1. TypeOK'
  BY DEF StoreInv, IInv, TypeOK, LabelsSame
<1>2. NumbersOrdered' /\ SpareIsNobodys'
  BY DEF StoreInv, IInv, NumbersOrdered, Ordered, SpareIsNobodys, LabelsSame
<1>3. SessionsNamed(label)'
  BY DEF StoreInv, SessionsNamed, LabelsSame
<1>4. QED
  BY <1>1, <1>2, <1>3 DEF IInv

\* A sector that carries no label of a ring is not the one a store writes in.
LEMMA NotACursor ==
  ASSUME StoreInv, NEW q \in Rings, store[q].claimed
  PROVE  /\ store[q].sector \in Sectors
         /\ label[store[q].sector].owner = q
         /\ \A p \in Rings : spare[p].reserved => spare[p].sector # store[q].sector
<1>1. store[q].sector \in Sectors /\ label[store[q].sector].owner = q
  BY DEF StoreInv, CursorAtEnd, AtEnd
<1>2. \A p \in Rings : spare[p].reserved => label[spare[p].sector] = Free
  BY DEF StoreInv, IInv, SpareIsNobodys
<1>3. QED
  BY <1>1, <1>2 DEF Free, Unlabelled, Rings

LEMMA EraseClaimedInv ==
  ASSUME StoreInv, EraseClaimed
  PROVE  StoreInv'
<1> DEFINE s == work.sector
           r == work.ring
<1>0. /\ StoreInv /\ IInv /\ TypeOK /\ StoreTypeOK /\ work.step = "erase"
      /\ UNCHANGED <<label, spare, lost, sequence, newest, claimed, store, named, given, written, gone>>
      /\ r \in Rings /\ s \in Sectors /\ LabelsSame
  BY DEF StoreInv, IInv, EraseClaimed, historyVars, StoreTypeOK, Works, LabelsSame
<1>1. /\ AtEnd(label, r, s) /\ label[s].session = store[r].session
      /\ ~store[r].claimed /\ ~store[r].erasing /\ work.count = 1
  BY <1>0 DEF StoreInv, WorkHeld
<1>2. CASE EraseOnPart(s) /\ work' = [work EXCEPT !.step = "label"]
  <2>1. /\ header' \in [Sectors -> Label] /\ slots' \in [Sectors -> [Places -> Contents]]
        /\ Ordered(header)' /\ HeadersApart' /\ SessionsNamed(header)'
        /\ header'[s] = Free /\ slots'[s] = Blank
        /\ \A t \in Sectors \ {s} : header'[t] = header[t] /\ slots'[t] = slots[t]
        /\ "slots" \notin Refused => NoByteTwice'
    BY <1>0, <1>2, ErasedKeeps
  <2>2. IInv' /\ SessionsNamed(label)'
    BY <1>0, <2>1, LabelsKeep
  <2>3. /\ work' \in Works /\ work'.step = "label" /\ work'.ring = r /\ work'.sector = s
        /\ work'.count = work.count
    BY <1>0, <1>2 DEF StoreTypeOK, Works
  <2>4. StoreTypeOK'
    BY <1>0, <2>1, <2>2, <2>3 DEF StoreTypeOK, IInv
  <2>5. /\ \A q \in Rings : store'[q].session <= named'[q]
        /\ \A q \in Rings : spare'[q].erased => spare'[q].reserved
        /\ SessionIsLast' /\ LossesKept'
    BY <1>0 DEF StoreInv, SessionIsLast, LossesKept
  <2>6. \A q \in Rings : store[q].claimed => store[q].sector # s
    BY <1>0, <1>1, NotACursor DEF AtEnd
  <2>7. CursorAtEnd'
    BY <1>0, <2>1, <2>6, NotACursor DEF StoreInv, CursorAtEnd, AtEnd
  <2>8. BlankAhead'
    BY <1>0, <2>1, <2>6, NotACursor DEF StoreInv, BlankAhead
  <2>9. WorkHeld'
    BY <1>0, <1>1, <2>1, <2>3 DEF WorkHeld, AtEnd
  <2>10. SpareBlank'
    BY <1>0, <2>1 DEF StoreInv, SpareBlank, TypeOK, Spare
  <2>11. QED
    BY <2>1, <2>2, <2>4, <2>5, <2>7, <2>8, <2>9, <2>10 DEF StoreInv
<1>3. CASE work' = Idle /\ UNCHANGED partVars
  BY <1>0, <1>3, QuietIdle DEF partVars
<1>4. QED
  BY <1>2, <1>3 DEF EraseClaimed

LEMMA WriteHeaderInv ==
  ASSUME StoreInv, WriteHeader
  PROVE  StoreInv'
<1> DEFINE s == work.sector
           r == work.ring
           placed == [store EXCEPT ![r].sector = s, ![r].slot = 0]
<1>0. /\ StoreInv /\ IInv /\ TypeOK /\ StoreTypeOK /\ work.step = "label"
      /\ UNCHANGED <<label, spare, lost, sequence, newest, claimed, slots, named, given, written, gone>>
      /\ r \in Rings /\ s \in Sectors /\ LabelsSame
  BY DEF StoreInv, IInv, WriteHeader, historyVars, StoreTypeOK, Works, LabelsSame
<1>1. /\ AtEnd(label, r, s) /\ label[s].session = store[r].session
      /\ ~store[r].claimed /\ ~store[r].erasing /\ work.count = 1 /\ slots[s] = Blank
  BY <1>0 DEF StoreInv, WorkHeld
<1>2. label[s].owner = r /\ label[s].session \in Sessions
  BY <1>0, <1>1 DEF AtEnd, StoreInv, SessionsNamed
<1>3. /\ \A q \in Rings \ {r} : placed[q] = store[q]
      /\ placed[r].sector = s /\ placed[r].slot = 0 /\ ~placed[r].claimed
      /\ placed[r].session = store[r].session /\ placed[r].seen = store[r].seen
      /\ ~placed[r].erasing
      /\ placed \in [Rings -> Fields]
  <2> DEFINE f == [store[r] EXCEPT !.sector = s, !.slot = 0]
  <2>1. store[r] \in Fields /\ store \in [Rings -> Fields]
    BY <1>0 DEF StoreTypeOK
  <2>5. 0 \in 0 .. Slots
    BY Consts
  <2>2. /\ f \in Fields /\ f.claimed = store[r].claimed /\ f.sector = s /\ f.slot = 0
        /\ f.erasing = store[r].erasing
        /\ f.session = store[r].session /\ f.seen = store[r].seen
    BY <1>0, <2>1, <2>5 DEF Fields
  <2>3. placed = [store EXCEPT ![r] = f]
    OBVIOUS
  <2> HIDE DEF f, placed
  <2>4. QED
    BY <1>0, <1>1, <2>1, <2>2, <2>3
<1>4. CASE /\ header' = [header EXCEPT ![s] = label[s]]
           /\ store' = [placed EXCEPT ![r].claimed = TRUE, ![r].owned = label[s].session]
           /\ work' = [work EXCEPT !.step = "write"]
  <2>1. /\ \A q \in Rings \ {r} : store'[q] = store[q]
        /\ store'[r].sector = s /\ store'[r].slot = 0 /\ store'[r].claimed
        /\ store'[r].session = store[r].session /\ store'[r].seen = store[r].seen
        /\ ~store'[r].erasing /\ store'[r].owned = label[s].session
        /\ store' \in [Rings -> Fields]
    <3> DEFINE f == [placed[r] EXCEPT !.claimed = TRUE, !.owned = label[s].session]
    <3> HIDE DEF placed
    <3>1. placed[r] \in Fields
      BY <1>0, <1>3
    <3>2. /\ f \in Fields /\ f.claimed /\ f.owned = label[s].session
          /\ f.sector = placed[r].sector /\ f.slot = placed[r].slot
          /\ f.erasing = placed[r].erasing
          /\ f.session = placed[r].session /\ f.seen = placed[r].seen
      BY <1>2, <3>1 DEF Fields
    <3>3. store' = [placed EXCEPT ![r] = f]
      BY <1>4
    <3> HIDE DEF f
    <3>4. QED
      BY <1>0, <1>3, <3>2, <3>3
  <2>2. /\ header'[s] = label[s] /\ \A t \in Sectors \ {s} : header'[t] = header[t]
        /\ header' \in [Sectors -> Label]
    BY <1>0, <1>4 DEF TypeOK
  <2>3. Ordered(header)' /\ HeadersApart' /\ SessionsNamed(header)'
    <3>1. /\ \A t \in Sectors \ {s} :
               header[t].owner \in Rings => label[s].sequence # header[t].sequence
          /\ label[s].sequence \in 1 .. sequence
          /\ \A t \in Sectors \ {s} :
               label[t].owner \in Rings => label[t].sequence # label[s].sequence
      BY <1>0, <1>2 DEF StoreInv, HeadersApart, IInv, NumbersOrdered, Ordered
    <3>2. Ordered(header)'
      BY <1>0, <2>2, <3>1 DEF IInv, NumbersOrdered, Ordered
    <3>3. HeadersApart'
      BY <1>0, <2>2, <3>1 DEF StoreInv, HeadersApart
    <3>4. SessionsNamed(header)'
      BY <1>0, <2>2 DEF StoreInv, SessionsNamed
    <3>5. QED
      BY <3>2, <3>3, <3>4
  <2>4. IInv' /\ SessionsNamed(label)'
    BY <1>0, <2>2, <2>3, LabelsKeep
  <2>5. /\ work' \in Works /\ work'.step = "write" /\ work'.ring = r /\ work'.sector = s
        /\ work'.count = work.count
    BY <1>0, <1>4 DEF StoreTypeOK, Works
  <2>6. StoreTypeOK'
    BY <1>0, <2>1, <2>4, <2>5 DEF StoreTypeOK, IInv
  <2>7. /\ \A q \in Rings : store'[q].session = store[q].session /\ store'[q].seen = store[q].seen
        /\ \A q \in Rings \ {r} : store'[q].claimed => store[q].sector # s
    BY <1>0, <1>1, <2>1, NotACursor DEF AtEnd
  <2>8. /\ \A q \in Rings : store'[q].session <= named'[q]
        /\ \A q \in Rings : spare'[q].erased => spare'[q].reserved
        /\ SessionIsLast' /\ LossesKept'
        /\ "slots" \notin Refused => NoByteTwice'
    BY <1>0, <2>7 DEF StoreInv, SessionIsLast, LossesKept, NoByteTwice
  <2>9. CursorAtEnd'
    <3> SUFFICES ASSUME NEW q \in Rings, store'[q].claimed
                 PROVE  /\ AtEnd(label, q, store'[q].sector)
                        /\ label[store'[q].sector].session = store'[q].owned
                        /\ store'[q].owned = store'[q].session
                        /\ ~store'[q].erasing => header'[store'[q].sector] = label[store'[q].sector]
      BY <1>0 DEF CursorAtEnd, AtEnd
    <3>1. CASE q = r
      BY <1>1, <2>1, <2>2, <3>1
    <3>2. CASE q # r
      BY <1>0, <2>1, <2>2, <2>7, <3>2, NotACursor DEF StoreInv, CursorAtEnd
    <3>3. QED
      BY <3>1, <3>2
  <2>10. BlankAhead'
    <3>1. \A i \in Places : Blank[i] = Erased
      BY DEF Blank
    <3>2. QED
      BY <1>0, <1>1, <2>1, <3>1 DEF StoreInv, BlankAhead
  <2>11. WorkHeld'
    BY <1>1, <2>1, <2>5, Consts DEF WorkHeld
  <2>12. SpareBlank'
    <3>1. \A q \in Rings : spare[q].erased => spare[q].sector \in Sectors \ {s}
      BY <1>0, <1>2 DEF StoreInv, IInv, TypeOK, Spare, SpareIsNobodys, Free, Unlabelled, Rings
    <3>2. QED
      BY <1>0, <2>2, <3>1 DEF StoreInv, SpareBlank
  <2>13. QED
    BY <2>3, <2>4, <2>6, <2>8, <2>9, <2>10, <2>11, <2>12 DEF StoreInv
<1>5. CASE store' = placed /\ work' = Idle /\ UNCHANGED header
  <2> HIDE DEF placed
  <2>1. /\ \A q \in Rings : store'[q].session = store[q].session /\ store'[q].seen = store[q].seen
        /\ \A q \in Rings : store'[q].claimed => q # r /\ store'[q] = store[q]
        /\ store' \in [Rings -> Fields]
    BY <1>3, <1>5
  <2>2. StoreTypeOK' /\ IInv'
    BY <1>0, <1>5, <2>1, Consts
    DEF StoreTypeOK, IInv, TypeOK, NumbersOrdered, Ordered, SpareIsNobodys
  <2>3. /\ HeadersApart' /\ SessionsNamed(label)' /\ SessionsNamed(header)'
        /\ \A q \in Rings : store'[q].session <= named'[q]
        /\ \A q \in Rings : spare'[q].erased => spare'[q].reserved
        /\ SessionIsLast'
    BY <1>0, <1>5, <2>1 DEF StoreInv, HeadersApart, SessionsNamed, SessionIsLast
  <2>4. CursorAtEnd' /\ BlankAhead'
    BY <1>0, <1>5, <2>1 DEF StoreInv, CursorAtEnd, AtEnd, BlankAhead
  <2>5. SpareBlank' /\ ("slots" \notin Refused => NoByteTwice') /\ LossesKept'
    BY <1>0, <1>5, <2>1 DEF StoreInv, SpareBlank, NoByteTwice, LossesKept
  <2>6. WorkHeld'
    BY <1>5 DEF WorkHeld, Idle
  <2>7. QED
    BY <2>2, <2>3, <2>4, <2>5, <2>6 DEF StoreInv
<1>6. QED
  BY <1>4, <1>5 DEF WriteHeader

LEMMA WriteSlotsInv ==
  ASSUME StoreInv, WriteSlots
  PROVE  StoreInv'
<1> DEFINE s == work.sector
           r == work.ring
           count == work.count
<1>0. /\ StoreInv /\ IInv /\ TypeOK /\ StoreTypeOK /\ work.step = "write" /\ work' = Idle
      /\ UNCHANGED <<label, spare, lost, sequence, newest, claimed, header, named, given, gone>>
      /\ r \in Rings /\ s \in Sectors /\ count \in Nat
  BY DEF StoreInv, IInv, WriteSlots, StoreTypeOK, Works
<1>1. /\ store[r].claimed /\ ~store[r].erasing /\ s = store[r].sector
      /\ count >= 1 /\ store[r].slot + count <= Slots /\ store[r].slot \in Nat
  BY <1>0 DEF StoreInv, WorkHeld, StoreTypeOK, Fields
<1>2. store[r].owned \in Sessions
  BY <1>0, <1>1 DEF StoreInv, CursorAtEnd, SessionsNamed, AtEnd
<1>3. \A q \in Rings \ {r} : store[q].claimed => store[q].sector # s
  BY <1>0, <1>1, NotACursor
<1>4. \A q \in Rings : spare[q].erased => spare[q].sector \in Sectors \ {s}
  BY <1>0, <1>1, NotACursor DEF StoreInv, IInv, TypeOK, Spare
<1>5. WorkHeld' /\ work' \in Works
  BY <1>0, Consts DEF WorkHeld, Idle
<1>6. /\ HeadersApart' /\ SessionsNamed(label)' /\ SessionsNamed(header)'
      /\ \A q \in Rings : spare'[q].erased => spare'[q].reserved
      /\ IInv'
  BY <1>0 DEF StoreInv, HeadersApart, SessionsNamed,
              IInv, TypeOK, NumbersOrdered, Ordered, SpareIsNobodys
<1>7. CASE /\ slots' = Program(r, count, FALSE)
           /\ store' = [store EXCEPT ![r].slot = @ + count]
           /\ written' = [written EXCEPT ![r][store[r].owned] = @ + count]
  <2>1. /\ slots' \in [Sectors -> [Places -> Contents]]
        /\ \A t \in Sectors \ {s} : slots'[t] = slots[t]
        /\ \A i \in Places : i >= store[r].slot + count => slots'[s][i] = slots[s][i]
        /\ "slots" \notin Refused => NoByteTwice'
    <3>1. /\ count \in Nat /\ count <= work.count /\ FALSE \in BOOLEAN
          /\ (FALSE = FALSE \/ count < work.count)
          /\ slots' = Program(work.ring, count, FALSE) /\ work.step = "write"
      BY <1>0, <1>7
    <3>2. QED
      BY <3>1, ProgramKeeps, Zenon
  <2>2. /\ \A q \in Rings \ {r} : store'[q] = store[q]
        /\ store'[r].slot = store[r].slot + count
        /\ \A q \in Rings : /\ store'[q].session = store[q].session /\ store'[q].seen = store[q].seen
                            /\ store'[q].claimed = store[q].claimed
                            /\ store'[q].sector = store[q].sector
                            /\ store'[q].owned = store[q].owned
                            /\ store'[q].erasing = store[q].erasing
        /\ store' \in [Rings -> Fields]
    <3> DEFINE f == [store[r] EXCEPT !.slot = @ + count]
    <3>1. store[r] \in Fields /\ store \in [Rings -> Fields]
      BY <1>0 DEF StoreTypeOK
    <3>5. store[r].slot + count \in 0 .. Slots
      BY <1>0, <1>1, Consts
    <3>2. /\ f \in Fields /\ f.claimed = store[r].claimed /\ f.sector = store[r].sector
          /\ f.slot = store[r].slot + count /\ f.erasing = store[r].erasing
          /\ f.session = store[r].session /\ f.seen = store[r].seen /\ f.owned = store[r].owned
      BY <3>1, <3>5 DEF Fields
    <3>3. store' = [store EXCEPT ![r] = f]
      BY <1>7
    <3> HIDE DEF f
    <3>4. QED
      BY <1>0, <3>1, <3>2, <3>3
  <2>3. written' \in [Rings -> [Sessions -> Nat]]
    <3>1. written[r] \in [Sessions -> Nat] /\ written \in [Rings -> [Sessions -> Nat]]
      BY <1>0 DEF StoreTypeOK
    <3>2. [written[r] EXCEPT ![store[r].owned] = @ + count] \in [Sessions -> Nat]
      BY <1>0, <1>2, <3>1
    <3>3. written' = [written EXCEPT ![r] = [written[r] EXCEPT ![store[r].owned] = @ + count]]
      BY <1>7
    <3>4. QED
      BY <1>0, <3>1, <3>2, <3>3
  <2>4. StoreTypeOK'
    BY <1>0, <1>5, <1>6, <2>1, <2>2, <2>3 DEF StoreTypeOK, IInv
  <2>5. /\ \A q \in Rings : store'[q].session <= named'[q]
        /\ SessionIsLast' /\ LossesKept'
    BY <1>0, <2>2 DEF StoreInv, SessionIsLast, LossesKept
  <2>6. CursorAtEnd'
    BY <1>0, <2>2 DEF StoreInv, CursorAtEnd, AtEnd
  <2>7. BlankAhead'
    <3> SUFFICES ASSUME "slots" \notin Refused, NEW q \in Rings, NEW i \in Places,
                        store'[q].claimed, i >= store'[q].slot
                 PROVE  slots'[store'[q].sector][i] = Erased
      BY DEF BlankAhead
    <3>1. CASE q = r
      <4>1. i \in Nat
        BY DEF Places
      <4>2. QED
        BY <1>0, <1>1, <2>1, <2>2, <3>1, <4>1 DEF StoreInv, BlankAhead
    <3>2. CASE q # r
      BY <1>0, <1>3, <2>1, <2>2, <3>2, NotACursor DEF StoreInv, BlankAhead
    <3>3. QED
      BY <3>1, <3>2
  <2>8. SpareBlank'
    BY <1>0, <1>4, <2>1 DEF StoreInv, SpareBlank
  <2>9. QED
    BY <1>5, <1>6, <2>1, <2>4, <2>5, <2>6, <2>7, <2>8 DEF StoreInv
<1>8. ASSUME "slots" \in Refused, UNCHANGED <<store, written>>,
             NEW whole \in 0 .. count - 1, NEW torn \in BOOLEAN,
             slots' = Program(r, whole, torn)
      PROVE  StoreInv'
  <2>0. /\ whole \in Nat /\ whole <= work.count /\ whole < work.count
        /\ (torn = FALSE \/ whole < work.count) /\ work.step = "write"
        /\ slots' = Program(work.ring, whole, torn)
    BY <1>0, <1>8
  <2>1. /\ slots' \in [Sectors -> [Places -> Contents]]
        /\ \A t \in Sectors \ {s} : slots'[t] = slots[t]
    BY <1>0, <2>0, ProgramKeeps, Zenon
  <2>2. StoreTypeOK'
    BY <1>0, <1>5, <1>6, <1>8, <2>1 DEF StoreTypeOK, IInv
  <2>3. /\ \A q \in Rings : store'[q].session <= named'[q]
        /\ SessionIsLast' /\ LossesKept' /\ CursorAtEnd'
    BY <1>0, <1>8 DEF StoreInv, SessionIsLast, LossesKept, CursorAtEnd, AtEnd
  <2>4. BlankAhead' /\ ("slots" \notin Refused => NoByteTwice')
    BY <1>8 DEF BlankAhead
  <2>5. SpareBlank'
    BY <1>0, <1>4, <2>1 DEF StoreInv, SpareBlank
  <2>6. QED
    BY <1>5, <1>6, <2>2, <2>3, <2>4, <2>5 DEF StoreInv
<1>9. QED
  BY <1>7, <1>8 DEF WriteSlots

LEMMA EraseSpareInv ==
  ASSUME StoreInv, EraseSpare
  PROVE  StoreInv'
<1> DEFINE s == work.sector
           r == work.ring
<1>0. /\ StoreInv /\ IInv /\ TypeOK /\ StoreTypeOK /\ work.step = "spare" /\ work' = Idle
      /\ UNCHANGED <<named, given, written, gone>>
      /\ r \in Rings /\ s \in Sectors
  BY DEF StoreInv, IInv, EraseSpare, historyVars, StoreTypeOK, Works
<1>1. spare[r].reserved /\ spare[r].sector = s /\ label[s] = Free
  BY <1>0 DEF StoreInv, WorkHeld, IInv, SpareIsNobodys
<1>2. WorkHeld' /\ work' \in Works
  BY <1>0, Consts DEF WorkHeld, Idle
<1>3. CASE /\ EraseOnPart(s) /\ NoteErased(r)
           /\ store' = [store EXCEPT ![r].spareReady = TRUE]
  <2>1. /\ spare' = [spare EXCEPT ![r].erased = TRUE]
        /\ UNCHANGED <<label, lost, sequence, newest, claimed>>
        /\ header' = [header EXCEPT ![s] = Free]
    BY <1>1, <1>3 DEF NoteErased, EraseOnPart
  <2>2. IInv'
    BY <1>0, <1>1, <1>3, <2>1, SpareErasedIInv DEF SpareErased
  <2>3. /\ slots' \in [Sectors -> [Places -> Contents]]
        /\ HeadersApart' /\ SessionsNamed(header)'
        /\ header'[s] = Free /\ slots'[s] = Blank
        /\ \A t \in Sectors \ {s} : header'[t] = header[t] /\ slots'[t] = slots[t]
        /\ "slots" \notin Refused => NoByteTwice'
    BY <1>0, <1>3, <2>1, ErasedKeeps
  <2>4. /\ \A q \in Rings : /\ store'[q].session = store[q].session /\ store'[q].seen = store[q].seen
                            /\ store'[q].claimed = store[q].claimed
                            /\ store'[q].sector = store[q].sector
                            /\ store'[q].owned = store[q].owned
                            /\ store'[q].slot = store[q].slot
                            /\ store'[q].erasing = store[q].erasing
        /\ store' \in [Rings -> Fields]
    <3> DEFINE f == [store[r] EXCEPT !.spareReady = TRUE]
    <3>1. store[r] \in Fields /\ store \in [Rings -> Fields]
      BY <1>0 DEF StoreTypeOK
    <3>2. /\ f \in Fields /\ f.claimed = store[r].claimed /\ f.sector = store[r].sector
          /\ f.slot = store[r].slot /\ f.erasing = store[r].erasing
          /\ f.session = store[r].session /\ f.seen = store[r].seen /\ f.owned = store[r].owned
      BY <3>1 DEF Fields
    <3>3. store' = [store EXCEPT ![r] = f]
      BY <1>3
    <3> HIDE DEF f
    <3>4. QED
      BY <1>0, <3>1, <3>2, <3>3
  <2>5. StoreTypeOK'
    BY <1>0, <1>2, <2>2, <2>3, <2>4 DEF StoreTypeOK, IInv
  <2>6. /\ SessionsNamed(label)'
        /\ \A q \in Rings : store'[q].session <= named'[q]
        /\ SessionIsLast' /\ LossesKept'
    BY <1>0, <2>1, <2>4 DEF StoreInv, SessionsNamed, SessionIsLast, LossesKept
  <2>7. \A q \in Rings : spare'[q].reserved = spare[q].reserved /\ spare'[q].sector = spare[q].sector
    BY <1>0, <2>1 DEF TypeOK, Spare
  <2>8. /\ \A q \in Rings : spare'[q].erased => spare'[q].reserved
        /\ SpareBlank'
    <3> SUFFICES ASSUME NEW q \in Rings, spare'[q].erased
                 PROVE  /\ spare'[q].reserved
                        /\ header'[spare'[q].sector] = Free /\ slots'[spare'[q].sector] = Blank
      BY DEF SpareBlank
    <3>1. CASE q = r
      BY <1>1, <2>3, <2>7, <3>1
    <3>2. CASE q # r
      <4>1. spare[q].erased
        BY <1>0, <2>1, <3>2 DEF TypeOK, Spare
      <4>2. /\ spare[q].reserved /\ spare[q].sector \in Sectors
            /\ header[spare[q].sector] = Free /\ slots[spare[q].sector] = Blank
        BY <1>0, <4>1 DEF StoreInv, SpareBlank, TypeOK, Spare
      <4>3. QED
        BY <2>3, <2>7, <4>2
    <3>3. QED
      BY <3>1, <3>2
  <2>9. \A q \in Rings : store[q].claimed => store[q].sector # s
    BY <1>0, <1>1, NotACursor DEF Free, Unlabelled, Rings
  <2>10. CursorAtEnd'
    BY <1>0, <2>1, <2>3, <2>4, <2>9, NotACursor DEF StoreInv, CursorAtEnd, AtEnd
  <2>11. BlankAhead'
    BY <1>0, <2>3, <2>4, <2>9, NotACursor DEF StoreInv, BlankAhead
  <2>12. QED
    BY <1>2, <2>2, <2>3, <2>5, <2>6, <2>8, <2>10, <2>11 DEF StoreInv
<1>4. CASE UNCHANGED <<label, spare, lost, sequence, newest, claimed, partVars, store>>
  BY <1>0, <1>4, QuietIdle DEF partVars
<1>5. QED
  BY <1>3, <1>4 DEF EraseSpare

LEMMA EraseSteppedInv ==
  ASSUME StoreInv, EraseStepped
  PROVE  StoreInv'
<1> DEFINE s == work.sector
           r == work.ring
<1>0. /\ StoreInv /\ IInv /\ TypeOK /\ StoreTypeOK /\ work.step = "clear" /\ work' = Idle
      /\ UNCHANGED <<label, spare, lost, sequence, newest, claimed, named, given, written, gone>>
      /\ r \in Rings /\ s \in Sectors /\ LabelsSame
      /\ EraseOnPart(s) \/ UNCHANGED <<slots, header>>
      /\ store' = [store EXCEPT ![r].next = s + 1]
  BY DEF StoreInv, IInv, EraseStepped, historyVars, StoreTypeOK, Works, LabelsSame, partVars
<1>1. store[r].erasing /\ label[s].owner \in {r, "free"}
  BY <1>0 DEF StoreInv, WorkHeld, Erasable
<1>2. WorkHeld' /\ work' \in Works
  BY <1>0, Consts DEF WorkHeld, Idle
<1>3. /\ header' \in [Sectors -> Label] /\ slots' \in [Sectors -> [Places -> Contents]]
      /\ Ordered(header)' /\ HeadersApart' /\ SessionsNamed(header)'
      /\ (header'[s] = Free /\ slots'[s] = Blank) \/ (header'[s] = header[s] /\ slots'[s] = slots[s])
      /\ \A t \in Sectors \ {s} : header'[t] = header[t] /\ slots'[t] = slots[t]
      /\ "slots" \notin Refused => NoByteTwice'
  <2>1. CASE EraseOnPart(s)
    BY <1>0, <2>1, ErasedKeeps
  <2>2. CASE UNCHANGED <<slots, header>>
    BY <1>0, <2>2
    DEF StoreInv, StoreTypeOK, TypeOK, IInv, NumbersOrdered, Ordered, HeadersApart, SessionsNamed,
        NoByteTwice
  <2>3. QED
    BY <1>0, <2>1, <2>2
<1>4. /\ \A q \in Rings : /\ store'[q].session = store[q].session /\ store'[q].seen = store[q].seen
                          /\ store'[q].claimed = store[q].claimed
                          /\ store'[q].sector = store[q].sector
                          /\ store'[q].owned = store[q].owned
                          /\ store'[q].slot = store[q].slot
                          /\ store'[q].erasing = store[q].erasing
      /\ store' \in [Rings -> Fields]
  <2> DEFINE f == [store[r] EXCEPT !.next = s + 1]
  <2>1. store[r] \in Fields /\ store \in [Rings -> Fields]
    BY <1>0 DEF StoreTypeOK
  <2>5. s + 1 \in 0 .. SectorCount
    BY <1>0, Consts DEF Sectors
  <2>2. /\ f \in Fields /\ f.claimed = store[r].claimed /\ f.sector = store[r].sector
        /\ f.slot = store[r].slot /\ f.erasing = store[r].erasing
        /\ f.session = store[r].session /\ f.seen = store[r].seen /\ f.owned = store[r].owned
    BY <2>1, <2>5 DEF Fields
  <2>3. store' = [store EXCEPT ![r] = f]
    BY <1>0
  <2> HIDE DEF f
  <2>4. QED
    BY <1>0, <2>1, <2>2, <2>3
<1>5. IInv' /\ SessionsNamed(label)'
  BY <1>0, <1>3, LabelsKeep
<1>6. StoreTypeOK'
  BY <1>0, <1>2, <1>3, <1>4, <1>5 DEF StoreTypeOK, IInv
<1>7. /\ \A q \in Rings : store'[q].session <= named'[q]
      /\ \A q \in Rings : spare'[q].erased => spare'[q].reserved
      /\ SessionIsLast' /\ LossesKept'
  BY <1>0, <1>4 DEF StoreInv, SessionIsLast, LossesKept
<1>8. \A q \in Rings : store[q].claimed /\ ~store[q].erasing => store[q].sector # s
  BY <1>0, <1>1, NotACursor DEF Rings
<1>9. CursorAtEnd'
  BY <1>0, <1>3, <1>4, <1>8, NotACursor DEF StoreInv, CursorAtEnd, AtEnd
<1>10. BlankAhead'
  <2>1. \A i \in Places : Blank[i] = Erased
    BY DEF Blank
  <2>2. \A q \in Rings, i \in Places :
          store[q].claimed /\ slots[store[q].sector][i] = Erased
          => slots'[store[q].sector][i] = Erased
    BY <1>0, <1>3, <2>1, NotACursor
  <2>3. QED
    BY <1>0, <1>4, <2>2 DEF StoreInv, BlankAhead
<1>11. SpareBlank'
  BY <1>0, <1>3 DEF StoreInv, SpareBlank, TypeOK, Spare
<1>12. QED
  BY <1>2, <1>3, <1>5, <1>6, <1>7, <1>9, <1>10, <1>11 DEF StoreInv

-----------------------------------------------------------------------------
(* Sessions, losses, spares and the erase of a ring.                       *)

LEMMA BeginSessionInv ==
  ASSUME StoreInv, NEW r \in Rings, NEW session \in Sessions, BeginSession(r, session)
  PROVE  StoreInv'
<1>0. /\ StoreInv /\ IInv /\ TypeOK /\ StoreTypeOK /\ work = Idle
      /\ session > named[r] /\ session \in Nat
      /\ named' = [named EXCEPT ![r] = session] /\ gone' = [gone EXCEPT ![r] = 0]
      /\ UNCHANGED <<label, spare, lost, sequence, newest, claimed, slots, header, work, given, written>>
  BY NamedAssumption DEF StoreInv, IInv, BeginSession, partVars
<1>1. /\ \A q \in Rings \ {r} : store'[q] = store[q]
      /\ store'[r].session = session /\ ~store'[r].claimed /\ store'[r].seen = lost[r]
      /\ store' \in [Rings -> Fields]
  <2> DEFINE f == [store[r] EXCEPT !.session = session, !.claimed = FALSE, !.seen = lost[r]]
  <2>1. store[r] \in Fields /\ store \in [Rings -> Fields] /\ lost[r] \in Nat
    BY <1>0 DEF StoreTypeOK, TypeOK
  <2>2. f \in Fields /\ f.session = session /\ ~f.claimed /\ f.seen = lost[r]
    BY <2>1 DEF Fields
  <2>3. store' = [store EXCEPT ![r] = f]
    BY DEF BeginSession
  <2> HIDE DEF f
  <2>4. QED
    BY <2>1, <2>2, <2>3
<1>2. /\ named' \in [Rings -> Nat] /\ gone' \in [Rings -> Nat]
      /\ named'[r] = session /\ \A q \in Rings \ {r} : named'[q] = named[q]
      /\ \A q \in Rings : named'[q] \in Nat /\ named[q] \in Nat /\ named[q] <= named'[q]
      /\ gone'[r] = 0 /\ \A q \in Rings \ {r} : gone'[q] = gone[q]
  BY <1>0 DEF StoreTypeOK
<1>3. StoreTypeOK' /\ IInv'
  BY <1>0, <1>1, <1>2
  DEF StoreTypeOK, IInv, TypeOK, NumbersOrdered, Ordered, SpareIsNobodys
<1>4. HeadersApart' /\ \A q \in Rings : spare'[q].erased => spare'[q].reserved
  BY <1>0 DEF StoreInv, HeadersApart
<1>5. SessionsNamed(label)' /\ SessionsNamed(header)'
  <2>1. \A s \in Sessions : s \in Nat
    BY NamedAssumption
  <2>2. ASSUME NEW labels, SessionsNamed(labels), NEW s \in Sectors, labels[s].owner \in Rings
        PROVE  labels[s].session \in Sessions /\ labels[s].session <= named'[labels[s].owner]
    <3>1. labels[s].session \in Sessions /\ labels[s].session <= named[labels[s].owner]
      BY <2>2 DEF SessionsNamed
    <3>2. QED
      BY <1>2, <2>1, <2>2, <3>1
  <2>3. SessionsNamed(label) /\ SessionsNamed(header) /\ label' = label /\ header' = header
    BY <1>0 DEF StoreInv
  <2>4. QED
    BY <2>2, <2>3 DEF SessionsNamed
<1>6. \A q \in Rings : store'[q].session <= named'[q]
  BY <1>0, <1>1, <1>2 DEF StoreInv
<1>7. SessionIsLast'
  <2>1. \A s \in Sectors : label[s].owner = r => label[s].session # session
    BY <1>0, <1>2, NamedAssumption DEF StoreInv, SessionsNamed
  <2>2. QED
    BY <1>0, <1>1, <2>1 DEF StoreInv, SessionIsLast
<1>8. CursorAtEnd' /\ BlankAhead'
  BY <1>0, <1>1 DEF StoreInv, CursorAtEnd, AtEnd, BlankAhead
<1>9. WorkHeld' /\ SpareBlank' /\ ("slots" \notin Refused => NoByteTwice')
  BY <1>0 DEF StoreInv, WorkHeld, Idle, SpareBlank, NoByteTwice
<1>10. LossesKept'
  BY <1>0, <1>1, <1>2 DEF StoreInv, LossesKept, TypeOK
<1>11. QED
  BY <1>3, <1>4, <1>5, <1>6, <1>7, <1>8, <1>9, <1>10 DEF StoreInv

LEMMA TakeLostRecordsInv ==
  ASSUME StoreInv, NEW r \in Rings, TakeLostRecords(r)
  PROVE  StoreInv'
<1>0. /\ StoreInv /\ IInv /\ TypeOK /\ StoreTypeOK /\ work = Idle
      /\ gone' = [gone EXCEPT ![r] = 0]
      /\ UNCHANGED <<label, spare, lost, sequence, newest, claimed, slots, header, work, named, given,
                     written>>
  BY DEF StoreInv, IInv, TakeLostRecords, partVars
<1>1. /\ \A q \in Rings \ {r} : store'[q] = store[q]
      /\ store'[r].seen = lost[r]
      /\ \A q \in Rings : /\ store'[q].session = store[q].session
                          /\ store'[q].claimed = store[q].claimed
                          /\ store'[q].sector = store[q].sector
                          /\ store'[q].owned = store[q].owned
                          /\ store'[q].slot = store[q].slot
                          /\ store'[q].erasing = store[q].erasing
      /\ store' \in [Rings -> Fields]
  <2> DEFINE f == [store[r] EXCEPT !.seen = lost[r]]
  <2>1. store[r] \in Fields /\ store \in [Rings -> Fields] /\ lost[r] \in Nat
    BY <1>0 DEF StoreTypeOK, TypeOK
  <2>2. /\ f \in Fields /\ f.claimed = store[r].claimed /\ f.sector = store[r].sector
        /\ f.slot = store[r].slot /\ f.erasing = store[r].erasing
        /\ f.session = store[r].session /\ f.seen = lost[r] /\ f.owned = store[r].owned
    BY <2>1 DEF Fields
  <2>3. store' = [store EXCEPT ![r] = f]
    BY DEF TakeLostRecords
  <2> HIDE DEF f
  <2>4. QED
    BY <2>1, <2>2, <2>3
<1>2. /\ gone' \in [Rings -> Nat]
      /\ gone'[r] = 0 /\ \A q \in Rings \ {r} : gone'[q] = gone[q]
  BY <1>0 DEF StoreTypeOK
<1>3. StoreTypeOK' /\ IInv'
  BY <1>0, <1>1, <1>2
  DEF StoreTypeOK, IInv, TypeOK, NumbersOrdered, Ordered, SpareIsNobodys
<1>4. /\ HeadersApart' /\ \A q \in Rings : spare'[q].erased => spare'[q].reserved
      /\ SessionsNamed(label)' /\ SessionsNamed(header)'
      /\ \A q \in Rings : store'[q].session <= named'[q]
  BY <1>0, <1>1 DEF StoreInv, HeadersApart, SessionsNamed
<1>5. SessionIsLast' /\ CursorAtEnd' /\ BlankAhead'
  BY <1>0, <1>1 DEF StoreInv, SessionIsLast, CursorAtEnd, AtEnd, BlankAhead
<1>6. WorkHeld' /\ SpareBlank' /\ ("slots" \notin Refused => NoByteTwice')
  BY <1>0 DEF StoreInv, WorkHeld, Idle, SpareBlank, NoByteTwice
<1>7. LossesKept'
  BY <1>0, <1>1, <1>2 DEF StoreInv, LossesKept, TypeOK
<1>8. QED
  BY <1>3, <1>4, <1>5, <1>6, <1>7 DEF StoreInv

LEMMA SpareNamedInv ==
  ASSUME StoreInv, NEW r \in Rings, NEW h \in Sectors, Prepare(r, h), NoteGone(h),
         \/ work' = [step |-> "spare", ring |-> r, sector |-> h, count |-> 0]
         \/ work' = Idle,
         UNCHANGED <<slots, header, store, named, given, written>>
  PROVE  StoreInv'
<1>0. StoreInv /\ IInv /\ TypeOK /\ StoreTypeOK
  BY DEF StoreInv, IInv
<1>1. /\ IInv'
      /\ HeadersApart'
      /\ SessionsNamed(label)' /\ SessionsNamed(header)'
      /\ \A q \in Rings : spare'[q].erased => spare'[q].reserved /\ spare[q] = spare'[q]
      /\ spare'[r].reserved /\ spare'[r].sector = h
      /\ \A t \in Sectors : label'[t].owner \in Rings => label'[t] = label[t]
      /\ \A q \in Rings, s \in Sectors :
           AtEnd(label, q, s) => AtEnd(label', q, s) /\ label'[s] = label[s]
  BY PrepareKeeps
<1>2. gone' \in [Rings -> Nat] /\ \A q \in Rings : lost'[q] - store[q].seen >= gone'[q]
  <2>1. CASE ~spare[r].reserved
    <3>1. NoteTaken(h)
      BY <2>1 DEF Prepare, Reserve
    <3>2. QED
      BY <3>1, TakenCounted
  <2>2. CASE spare[r].reserved
    <3>1. lost' = lost /\ h = spare[r].sector
      BY <2>2 DEF Prepare
    <3>2. label[h].owner \notin Rings
      BY <1>0, <2>2, <3>1 DEF IInv, SpareIsNobodys, Free, Unlabelled, Rings
    <3>3. gone' = gone
      BY <3>2 DEF NoteGone
    <3>4. QED
      BY <1>0, <3>1, <3>3 DEF StoreInv, LossesKept, StoreTypeOK
  <2>3. QED
    BY <2>1, <2>2
<1>3. work' \in Works /\ WorkHeld'
  BY <1>1, Consts DEF WorkHeld, Works, Idle
<1>4. StoreTypeOK'
  BY <1>0, <1>1, <1>2, <1>3 DEF StoreTypeOK, IInv
<1>5. /\ \A q \in Rings : store'[q].session <= named'[q]
      /\ SessionIsLast'
  BY <1>0, <1>1 DEF StoreInv, SessionIsLast
<1>6. CursorAtEnd'
  <2> SUFFICES ASSUME NEW q \in Rings, store[q].claimed
               PROVE  /\ AtEnd(label', q, store[q].sector)
                      /\ label'[store[q].sector].session = store[q].owned
                      /\ store[q].owned = store[q].session
                      /\ ~store[q].erasing => header[store[q].sector] = label'[store[q].sector]
    BY DEF CursorAtEnd, AtEnd
  <2>1. /\ AtEnd(label, q, store[q].sector) /\ store[q].sector \in Sectors
        /\ label[store[q].sector].session = store[q].owned /\ store[q].owned = store[q].session
        /\ ~store[q].erasing => header[store[q].sector] = label[store[q].sector]
    BY <1>0 DEF StoreInv, CursorAtEnd, AtEnd
  <2>2. AtEnd(label', q, store[q].sector) /\ label'[store[q].sector] = label[store[q].sector]
    BY <1>1, <2>1
  <2>3. QED
    BY <2>1, <2>2
<1>7. BlankAhead' /\ SpareBlank' /\ ("slots" \notin Refused => NoByteTwice') /\ LossesKept'
  BY <1>0, <1>1, <1>2 DEF StoreInv, BlankAhead, SpareBlank, NoByteTwice, LossesKept
<1>8. QED
  BY <1>1, <1>3, <1>4, <1>5, <1>6, <1>7 DEF StoreInv

LEMMA BeginEraseInv ==
  ASSUME StoreInv, NEW r \in Rings, BeginErase(r)
  PROVE  StoreInv'
<1>0. /\ StoreInv /\ IInv /\ TypeOK /\ StoreTypeOK /\ work = Idle
      /\ given' = [given EXCEPT ![r] = named[r]]
      /\ UNCHANGED <<label, spare, lost, sequence, newest, claimed, slots, header, work, named,
                     written, gone>>
  BY DEF StoreInv, IInv, BeginErase, partVars
<1>1. /\ \A q \in Rings : /\ store'[q].session = store[q].session /\ store'[q].seen = store[q].seen
                          /\ store'[q].claimed = store[q].claimed
                          /\ store'[q].sector = store[q].sector
                          /\ store'[q].owned = store[q].owned
                          /\ store'[q].slot = store[q].slot
                          /\ store[q].erasing => store'[q].erasing
      /\ store' \in [Rings -> Fields]
  <2> DEFINE f == [store[r] EXCEPT !.erasing = TRUE, !.next = 0]
  <2>1. store[r] \in Fields /\ store \in [Rings -> Fields] /\ 0 \in 0 .. SectorCount
    BY <1>0, Consts DEF StoreTypeOK
  <2>2. /\ f \in Fields /\ f.claimed = store[r].claimed /\ f.sector = store[r].sector
        /\ f.slot = store[r].slot /\ f.erasing
        /\ f.session = store[r].session /\ f.seen = store[r].seen /\ f.owned = store[r].owned
    BY <2>1 DEF Fields
  <2>3. store' = [store EXCEPT ![r] = f]
    BY DEF BeginErase
  <2> HIDE DEF f
  <2>4. QED
    BY <2>1, <2>2, <2>3
<1>2. given' \in [Rings -> Nat]
  BY <1>0 DEF StoreTypeOK
<1>3. StoreTypeOK' /\ IInv'
  BY <1>0, <1>1, <1>2
  DEF StoreTypeOK, IInv, TypeOK, NumbersOrdered, Ordered, SpareIsNobodys
<1>4. /\ HeadersApart' /\ \A q \in Rings : spare'[q].erased => spare'[q].reserved
      /\ SessionsNamed(label)' /\ SessionsNamed(header)'
      /\ \A q \in Rings : store'[q].session <= named'[q]
  BY <1>0, <1>1 DEF StoreInv, HeadersApart, SessionsNamed
<1>5. SessionIsLast' /\ CursorAtEnd' /\ BlankAhead' /\ LossesKept'
  BY <1>0, <1>1 DEF StoreInv, SessionIsLast, CursorAtEnd, AtEnd, BlankAhead, LossesKept
<1>6. WorkHeld' /\ SpareBlank' /\ ("slots" \notin Refused => NoByteTwice')
  BY <1>0 DEF StoreInv, WorkHeld, Idle, SpareBlank, NoByteTwice
<1>7. QED
  BY <1>3, <1>4, <1>5, <1>6 DEF StoreInv

LEMMA StepEraseInv ==
  ASSUME StoreInv, NEW r \in Rings, StepErase(r)
  PROVE  StoreInv'
<1>1. PICK s \in ToErase(r) :
        work' = [step |-> "clear", ring |-> r, sector |-> s, count |-> 0]
  BY DEF StepErase
<1>2. /\ s \in Sectors /\ Erasable(r, s) /\ store[r].erasing
      /\ UNCHANGED <<label, spare, lost, sequence, newest, claimed, header, slots, store,
                     named, given, written, gone>>
  BY DEF ToErase, StepErase, partVars, historyVars
<1>3. work' \in Works /\ WorkHeld'
  BY <1>1, <1>2, Consts DEF Works, WorkHeld, Erasable
<1>4. QED
  BY <1>2, <1>3, Quiet

LEMMA FinishEraseInv ==
  ASSUME StoreInv, NEW r \in Rings, FinishErase(r)
  PROVE  StoreInv'
<1>0. /\ StoreInv /\ IInv /\ TypeOK /\ StoreTypeOK /\ work = Idle /\ Release(r)
      /\ gone' = [gone EXCEPT ![r] = 0]
      /\ UNCHANGED <<lost, sequence, newest, claimed, slots, header, work, named, given, written>>
      /\ label' = [s \in Sectors |-> IF label[s].owner = r THEN Free ELSE label[s]]
      /\ spare' = [spare EXCEPT ![r] = NoSpare]
  BY DEF StoreInv, IInv, FinishErase, partVars, Release
<1>1. /\ \A q \in Rings \ {r} : store'[q] = store[q]
      /\ store'[r].session = 0 /\ ~store'[r].claimed /\ store'[r].seen = store[r].seen
      /\ store' \in [Rings -> Fields]
  <2> DEFINE f == [Closed EXCEPT !.owned = store[r].owned, !.seen = store[r].seen,
                                 !.next = SectorCount]
  <2>1. store[r] \in Fields /\ store \in [Rings -> Fields] /\ SectorCount \in 0 .. SectorCount
    BY <1>0, Consts DEF StoreTypeOK
  <2>2. f \in Fields /\ f.session = 0 /\ ~f.claimed /\ f.seen = store[r].seen
    BY <2>1, Consts DEF Fields, Closed
  <2>3. store' = [store EXCEPT ![r] = f]
    BY DEF FinishErase
  <2> HIDE DEF f
  <2>4. QED
    BY <2>1, <2>2, <2>3
<1>2. /\ gone' \in [Rings -> Nat]
      /\ gone'[r] = 0 /\ \A q \in Rings \ {r} : gone'[q] = gone[q]
  BY <1>0 DEF StoreTypeOK
<1>3. /\ \A s \in Sectors : label'[s].owner \in Rings =>
           label'[s] = label[s] /\ label[s].owner # r
      /\ \A s \in Sectors : label[s].owner # r => label'[s] = label[s]
      /\ \A q \in Rings : spare'[q].reserved => q # r /\ spare'[q] = spare[q]
      /\ \A q \in Rings : spare'[q].erased => q # r /\ spare'[q] = spare[q]
  BY <1>0 DEF TypeOK, Free, Unlabelled, Rings, NoSpare
<1>4. IInv'
  <2>1. TypeOK'
    BY <1>0, Constants DEF TypeOK
  <2>2. NumbersOrdered'
    BY <1>0, <1>3 DEF IInv, NumbersOrdered, Ordered
  <2>3. SpareIsNobodys'
    <3>1. \A q \in Rings : spare[q].reserved =>
            spare[q].sector \in Sectors /\ label[spare[q].sector] = Free
      BY <1>0 DEF IInv, TypeOK, Spare, SpareIsNobodys
    <3>2. \A s \in Sectors : label[s] = Free => label'[s] = Free
      BY <1>0 DEF TypeOK
    <3>3. QED
      BY <1>0, <1>3, <3>1, <3>2 DEF IInv, SpareIsNobodys
  <2>4. QED
    BY <2>1, <2>2, <2>3 DEF IInv
<1>5. StoreTypeOK'
  BY <1>0, <1>1, <1>2, <1>4 DEF StoreTypeOK, IInv
<1>6. HeadersApart' /\ SessionsNamed(label)' /\ SessionsNamed(header)'
  BY <1>0, <1>3 DEF StoreInv, HeadersApart, SessionsNamed
<1>7. /\ \A q \in Rings : store'[q].session <= named'[q]
      /\ \A q \in Rings : spare'[q].erased => spare'[q].reserved
  BY <1>0, <1>1, <1>3 DEF StoreInv, StoreTypeOK
<1>8. SessionIsLast'
  BY <1>0, <1>1, <1>3 DEF StoreInv, SessionIsLast
<1>9. CursorAtEnd'
  <2> SUFFICES ASSUME NEW q \in Rings, store'[q].claimed
               PROVE  /\ AtEnd(label', q, store'[q].sector)
                      /\ label'[store'[q].sector].session = store'[q].owned
                      /\ store'[q].owned = store'[q].session
                      /\ ~store'[q].erasing => header'[store'[q].sector] = label'[store'[q].sector]
    BY DEF CursorAtEnd, AtEnd
  <2>1. q # r /\ store'[q] = store[q]
    BY <1>1
  <2>2. /\ AtEnd(label, q, store[q].sector) /\ store[q].sector \in Sectors
        /\ label[store[q].sector].owner = q
        /\ label[store[q].sector].session = store[q].owned /\ store[q].owned = store[q].session
        /\ ~store[q].erasing => header[store[q].sector] = label[store[q].sector]
    BY <1>0, <2>1 DEF StoreInv, CursorAtEnd, AtEnd
  <2>3. label'[store[q].sector] = label[store[q].sector]
    BY <1>3, <2>1, <2>2
  <2>4. AtEnd(label', q, store[q].sector)
    BY <1>3, <2>2, <2>3, EndKept
  <2>5. QED
    BY <1>0, <2>1, <2>2, <2>3, <2>4
<1>10. BlankAhead' /\ SpareBlank' /\ ("slots" \notin Refused => NoByteTwice')
  BY <1>0, <1>1, <1>3 DEF StoreInv, BlankAhead, SpareBlank, NoByteTwice
<1>11. LossesKept'
  <2>1. \A q \in Rings : lost[q] \in Nat /\ store[q].seen \in Nat /\ gone[q] \in Nat
    BY <1>0 DEF StoreTypeOK, TypeOK, Fields
  <2>2. QED
    BY <1>0, <1>1, <1>2, <2>1 DEF StoreInv, LossesKept
<1>12. WorkHeld'
  BY <1>0 DEF WorkHeld, Idle
<1>13. QED
  BY <1>4, <1>5, <1>6, <1>7, <1>8, <1>9, <1>10, <1>11, <1>12 DEF StoreInv

-----------------------------------------------------------------------------
(* A power cut, and the boot behind it.                                    *)

LEMMA RecoveredType ==
  ASSUME NEW labels \in [Sectors -> Label], NEW r \in Rings
  PROVE  /\ Recovered(r, labels) \in Fields
         /\ ~Recovered(r, labels).claimed /\ Recovered(r, labels).session = 0
         /\ Recovered(r, labels).seen = 0
<1> DEFINE owned == {s \in Sectors : labels[s].owner = r}
           last == CHOOSE s \in owned : \A t \in owned : labels[t].sequence <= labels[s].sequence
           R == {p \in Sectors \X Sectors : labels[p[1]].sequence > labels[p[2]].sequence}
<1>1. CASE owned = {}
  BY <1>1, Consts DEF Recovered, Closed
<1>2. CASE owned # {}
  <2>1. \A s \in Sectors : labels[s].sequence \in Nat
    BY DEF Label
  <2>2. \A s, t \in Sectors : <<t, s>> \in R <=> labels[t].sequence > labels[s].sequence
    OBVIOUS
  <2>3. IsFiniteSet(owned) /\ owned \subseteq Sectors
    BY SectorsFinite
  <2> HIDE DEF R, owned
  <2>4. /\ \A s \in owned : <<s, s>> \notin R
        /\ \A s, t, u \in owned : <<s, t>> \in R /\ <<t, u>> \in R => <<s, u>> \in R
    <3>1. \A s \in Sectors : <<s, s>> \notin R
      BY <2>1, <2>2
    <3>2. \A s, t, u \in Sectors : <<s, t>> \in R /\ <<t, u>> \in R => <<s, u>> \in R
      BY <2>1, <2>2
    <3>3. QED
      BY <2>3, <3>1, <3>2
  <2>5. \E s \in owned : \A t \in owned : <<t, s>> \notin R
    BY <1>2, <2>3, <2>4, FiniteMaximal
  <2>6. \E s \in owned : \A t \in owned : labels[t].sequence <= labels[s].sequence
    <3>1. PICK s \in owned : \A t \in owned : <<t, s>> \notin R
      BY <2>5
    <3>2. ASSUME NEW t \in owned PROVE labels[t].sequence <= labels[s].sequence
      <4>1. s \in Sectors /\ t \in Sectors
        BY <2>3
      <4>2. ~(labels[t].sequence > labels[s].sequence)
        BY <2>2, <3>1, <4>1
      <4>3. QED
        BY <2>1, <4>1, <4>2
    <3>3. QED
      BY <3>2
  <2>7. last \in Sectors
    BY <2>3, <2>6
  <2>8. Recovered(r, labels) = [Closed EXCEPT !.sector = last, !.slot = Slots]
    BY <1>2 DEF Recovered, owned
  <2> HIDE DEF last
  <2>9. Slots \in 0 .. Slots
    BY Consts
  <2>10. QED
    BY <2>7, <2>8, <2>9, Consts DEF Closed, Fields
<1>3. QED
  BY <1>1, <1>2

\* What a cut may leave on the part: a header less, the one that was being
\* written, or records that were.
LEMMA CutKeeps ==
  ASSUME StoreInv, CutErase \/ CutHeader \/ CutWrite \/ UNCHANGED partVars
  PROVE  /\ header' \in [Sectors -> Label] /\ slots' \in [Sectors -> [Places -> Contents]]
         /\ \A t \in Sectors : header'[t].owner \in Rings =>
              \/ header'[t] = header[t]
              \/ header'[t] = label[t] /\ \A u \in Sectors \ {t} : header'[u] = header[u]
         /\ "slots" \notin Refused => NoByteTwice'
<1> DEFINE s == work.sector
<1>0. /\ StoreInv /\ IInv /\ TypeOK /\ StoreTypeOK /\ s \in Sectors
      /\ work.ring \in Rings /\ work.count \in Nat
  BY DEF StoreInv, IInv, StoreTypeOK, Works
<1>1. CASE CutErase
  <2>1. PICK left \in {Scrap, Blank} : slots' = [slots EXCEPT ![s] = left]
    BY <1>1 DEF CutErase
  <2>2. \A i \in Places : left[i] # Spoiled
    BY DEF Scrap, Blank, Torn, Erased, Spoiled
  <2>3. header' = [header EXCEPT ![s] = Free] /\ Free.owner \notin Rings
    BY <1>1 DEF CutErase, Free, Unlabelled, Rings
  <2>4. left \in [Places -> Contents]
    BY Consts
  <2>5. /\ slots' \in [Sectors -> [Places -> Contents]]
        /\ slots'[s] = left /\ \A t \in Sectors \ {s} : slots'[t] = slots[t]
    BY <1>0, <2>1, <2>4 DEF StoreTypeOK
  <2>6. "slots" \notin Refused => NoByteTwice'
    BY <1>0, <2>2, <2>5 DEF StoreInv, NoByteTwice
  <2>7. QED
    BY <1>0, <2>3, <2>5, <2>6, Constants DEF TypeOK
<1>2. CASE CutHeader
  <2>1. header' = [header EXCEPT ![s] = label[s]] /\ slots' = slots
    BY <1>2 DEF CutHeader
  <2>2. /\ header' \in [Sectors -> Label] /\ header'[s] = label[s]
        /\ \A t \in Sectors \ {s} : header'[t] = header[t]
    BY <1>0, <2>1 DEF TypeOK
  <2>3. QED
    BY <1>0, <2>1, <2>2 DEF StoreInv, StoreTypeOK, NoByteTwice
<1>3. CASE CutWrite
  <2>1. PICK whole \in 0 .. work.count, torn \in BOOLEAN :
          (whole = work.count => ~torn) /\ slots' = Program(work.ring, whole, torn)
    BY <1>3 DEF CutWrite
  <2>2. /\ whole \in Nat /\ whole <= work.count /\ torn \in BOOLEAN
        /\ (torn = FALSE \/ whole < work.count) /\ work.step = "write"
        /\ slots' = Program(work.ring, whole, torn)
    BY <1>0, <1>3, <2>1 DEF CutWrite
  <2>3. /\ slots' \in [Sectors -> [Places -> Contents]]
        /\ "slots" \notin Refused => NoByteTwice'
    BY <1>0, <2>2, ProgramKeeps, Zenon
  <2>4. QED
    BY <1>0, <1>3, <2>3 DEF CutWrite, TypeOK
<1>4. CASE UNCHANGED partVars
  BY <1>0, <1>4 DEF partVars, StoreInv, StoreTypeOK, TypeOK, NoByteTwice
<1>5. QED
  BY <1>1, <1>2, <1>3, <1>4

LEMMA PowerCutInv ==
  ASSUME StoreInv, PowerCut
  PROVE  StoreInv'
<1>0. /\ StoreInv /\ IInv /\ TypeOK /\ StoreTypeOK /\ work' = Idle
      /\ UNCHANGED <<named, given, written>>
      /\ store' = [r \in Rings |-> Recovered(r, header')]
      /\ gone' = [r \in Rings |-> 0]
  BY DEF StoreInv, IInv, PowerCut
<1>1. /\ header' \in [Sectors -> Label] /\ slots' \in [Sectors -> [Places -> Contents]]
      /\ \A t \in Sectors : header'[t].owner \in Rings =>
           \/ header'[t] = header[t]
           \/ header'[t] = label[t] /\ \A u \in Sectors \ {t} : header'[u] = header[u]
      /\ "slots" \notin Refused => NoByteTwice'
  BY CutKeeps DEF PowerCut
<1>2. /\ label' = header' /\ sequence' = SequenceOf(header') /\ newest' = NewestOf(header')
      /\ spare' = [r \in Rings |-> NoSpare] /\ lost' = [r \in Rings |-> 0]
      /\ claimed' = (Noted(header') # {})
  BY DEF PowerCut, Boot
<1>3. /\ NewestOf(header') \in Sectors /\ SequenceOf(header') \in Nat
      /\ \A t \in Noted(header') : header'[t].sequence <= SequenceOf(header')
  BY <1>1, NewestExists
<1>4. TypeOK'
  BY <1>1, <1>2, <1>3, Constants DEF TypeOK
<1>5. \A s \in Sectors : header'[s].owner \in Rings =>
        /\ header'[s].sequence \in 1 .. sequence
        /\ header'[s].session \in Sessions
        /\ header'[s].session <= named[header'[s].owner]
  <2> SUFFICES ASSUME NEW s \in Sectors, header'[s].owner \in Rings
               PROVE  /\ header'[s].sequence \in 1 .. sequence
                      /\ header'[s].session \in Sessions
                      /\ header'[s].session <= named[header'[s].owner]
    OBVIOUS
  <2>1. header'[s] = header[s] \/ header'[s] = label[s]
    BY <1>1
  <2>2. QED
    BY <1>0, <2>1 DEF StoreInv, IInv, NumbersOrdered, Ordered, SessionsNamed
<1>6. \A s, t \in Sectors :
        s # t /\ header'[s].owner \in Rings /\ header'[t].owner \in Rings
        => header'[s].sequence # header'[t].sequence
  <2> SUFFICES ASSUME NEW s \in Sectors, NEW t \in Sectors, s # t,
                      header'[s].owner \in Rings, header'[t].owner \in Rings
               PROVE  header'[s].sequence # header'[t].sequence
    OBVIOUS
  <2>1. CASE header'[s] = header[s] /\ header'[t] = header[t]
    BY <1>0, <2>1 DEF IInv, NumbersOrdered, Ordered
  <2>2. CASE header'[s] = label[s] /\ header'[t] = header[t]
    BY <1>0, <2>2 DEF StoreInv, HeadersApart
  <2>3. CASE header'[t] = label[t] /\ header'[s] = header[s]
    BY <1>0, <2>3 DEF StoreInv, HeadersApart
  <2>4. QED
    BY <1>1, <2>1, <2>2, <2>3
<1>7. Ordered(header)' /\ Ordered(label)'
  <2>1. \A s \in Sectors : header'[s].owner \in Rings => header'[s].sequence \in 1 .. sequence'
    <3>1. \A s \in Sectors : header'[s].owner \in Rings => header'[s].sequence <= sequence'
      BY <1>2, <1>3 DEF Noted
    <3>2. QED
      BY <1>0, <1>2, <1>3, <1>5, <3>1 DEF TypeOK
  <2>2. QED
    BY <1>2, <1>6, <2>1 DEF Ordered
<1>8. SpareIsNobodys' /\ \A q \in Rings : ~spare'[q].erased
  BY <1>2 DEF SpareIsNobodys, NoSpare
<1>9. IInv'
  BY <1>4, <1>7, <1>8 DEF IInv, NumbersOrdered
<1>10. /\ store' \in [Rings -> Fields]
       /\ \A q \in Rings : ~store'[q].claimed /\ store'[q].session = 0 /\ store'[q].seen = 0
  BY <1>0, <1>1, RecoveredType
<1>11. WorkHeld' /\ work' \in Works
  BY <1>0, Consts DEF WorkHeld, Idle
<1>12. StoreTypeOK'
  BY <1>0, <1>1, <1>4, <1>10, <1>11 DEF StoreTypeOK
<1>13. HeadersApart'
  BY <1>2, <1>6 DEF HeadersApart
<1>14. SessionsNamed(label)' /\ SessionsNamed(header)'
  BY <1>0, <1>2, <1>5 DEF SessionsNamed
<1>15. \A q \in Rings : store'[q].session <= named'[q]
  BY <1>0, <1>10 DEF StoreTypeOK
<1>16. SessionIsLast'
  BY <1>10, <1>14, Consts DEF SessionIsLast, SessionsNamed
<1>17. CursorAtEnd' /\ BlankAhead' /\ SpareBlank'
  BY <1>8, <1>10 DEF CursorAtEnd, BlankAhead, SpareBlank
<1>18. LossesKept'
  BY <1>0, <1>2, <1>10 DEF LossesKept
<1>19. QED
  BY <1>1, <1>8, <1>9, <1>11, <1>12, <1>13, <1>14, <1>15, <1>16, <1>17, <1>18 DEF StoreInv

-----------------------------------------------------------------------------
(* The invariant, and what follows from it.                                *)

LEMMA StoreInitInv == StoreInit => StoreInv
<1> SUFFICES ASSUME StoreInit PROVE StoreInv
  OBVIOUS
<1>1. /\ Init /\ slots = [s \in Sectors |-> Blank] /\ store = [r \in Rings |-> Closed]
      /\ work = Idle /\ named = [r \in Rings |-> 0] /\ given = named
      /\ written = [r \in Rings |-> [session \in Sessions |-> 0]]
      /\ gone = [r \in Rings |-> 0]
  BY DEF StoreInit
<1>2. /\ label = [s \in Sectors |-> Free] /\ header = label
      /\ spare = [r \in Rings |-> NoSpare] /\ lost = [r \in Rings |-> 0]
  BY <1>1 DEF Init
<1>3. IInv
  BY <1>1, InitIInv
<1>4. StoreTypeOK
  BY <1>1, <1>3, Consts DEF StoreTypeOK, IInv
<1>5. /\ \A s \in Sectors : label[s].owner \notin Rings /\ header[s].owner \notin Rings
      /\ \A r \in Rings : ~spare[r].erased
  BY <1>2 DEF Free, Unlabelled, Rings, NoSpare
<1>6. \A r \in Rings : ~store[r].claimed /\ store[r].session = 0 /\ store[r].seen = 0
  BY <1>1 DEF Closed
<1>7. /\ HeadersApart /\ SessionsNamed(label) /\ SessionsNamed(header)
      /\ \A r \in Rings : store[r].session <= named[r]
      /\ \A r \in Rings : spare[r].erased => spare[r].reserved
  BY <1>1, <1>5, <1>6 DEF HeadersApart, SessionsNamed
<1>8. SessionIsLast /\ CursorAtEnd /\ BlankAhead /\ SpareBlank
  BY <1>5, <1>6 DEF SessionIsLast, CursorAtEnd, BlankAhead, SpareBlank
<1>9. WorkHeld
  BY <1>1 DEF WorkHeld, Idle
<1>10. NoByteTwice /\ LossesKept
  BY <1>1, <1>2, <1>6 DEF NoByteTwice, LossesKept, Blank, Erased, Spoiled
<1>11. QED
  BY <1>3, <1>4, <1>7, <1>8, <1>9, <1>10 DEF StoreInv

LEMMA StoreStep == StoreInv /\ [StoreNext]_storeVars => StoreInv'
<1> SUFFICES ASSUME StoreInv, [StoreNext]_storeVars PROVE StoreInv'
  OBVIOUS
<1>0. Stores \subseteq Rings
  BY StoresAssumption
<1>1. ASSUME NEW r \in Stores, NEW count \in 1 .. Slots, AppendRun(r, count)
      PROVE  StoreInv'
  BY <1>0, <1>1, AppendInv
<1>2. ASSUME NEW r \in Stores, NEW session \in Sessions, BeginSession(r, session)
      PROVE  StoreInv'
  BY <1>0, <1>2, BeginSessionInv
<1>3. ASSUME NEW r \in Stores, TakeLostRecords(r)
      PROVE  StoreInv'
  BY <1>0, <1>3, TakeLostRecordsInv
<1>4. ASSUME NEW r \in Stores, PrepareSpare(r)
      PROVE  StoreInv'
  <2>1. PICK s \in Sectors :
          /\ Prepare(r, s) /\ NoteGone(s)
          /\ work' = [step |-> "spare", ring |-> r, sector |-> s, count |-> 0]
    BY <1>4 DEF PrepareSpare
  <2>2. UNCHANGED <<slots, header, store, named, given, written>>
    BY <1>4 DEF PrepareSpare, partVars
  <2>3. QED
    BY <1>0, <2>1, <2>2, SpareNamedInv
<1>5. ASSUME NEW r \in Stores, RoomBeyondThisSector(r)
      PROVE  StoreInv'
  <2>1. PICK s \in Sectors : Prepare(r, s) /\ NoteGone(s)
    BY <1>5 DEF RoomBeyondThisSector
  <2>2. work' = Idle /\ UNCHANGED <<slots, header, store, named, given, written>>
    BY <1>5 DEF RoomBeyondThisSector, partVars
  <2>3. QED
    BY <1>0, <2>1, <2>2, SpareNamedInv
<1>6. ASSUME NEW r \in Stores, BeginErase(r)
      PROVE  StoreInv'
  BY <1>0, <1>6, BeginEraseInv
<1>7. ASSUME NEW r \in Stores, StepErase(r)
      PROVE  StoreInv'
  BY <1>0, <1>7, StepEraseInv
<1>8. ASSUME NEW r \in Stores, FinishErase(r)
      PROVE  StoreInv'
  BY <1>0, <1>8, FinishEraseInv
<1>9. CASE PartWorks
  BY <1>9, EraseClaimedInv, WriteHeaderInv, WriteSlotsInv, EraseSpareInv, EraseSteppedInv
  DEF PartWorks
<1>10. CASE PowerCut
  BY <1>10, PowerCutInv
<1>11. CASE UNCHANGED storeVars
  <2>1. work' \in Works /\ WorkHeld'
    BY <1>11 DEF storeVars, StoreInv, StoreTypeOK, WorkHeld, AtEnd, Erasable
  <2>2. QED
    BY <1>11, <2>1, Quiet DEF storeVars
<1>12. QED
  BY <1>1, <1>2, <1>3, <1>4, <1>5, <1>6, <1>7, <1>8, <1>9, <1>10, <1>11 DEF StoreNext

\* Every write, erase, refusal and power cut keeps the invariant: the labels
\* are numbered and named in order, a claimed cursor is at the end of its ring,
\* and what the part is at work on is what the store believes.
THEOREM StoreInvariant == StoreSpec => []StoreInv
<1>1. QED
  BY StoreInitInv, StoreStep, PTL DEF StoreSpec

\* The stores' fields, the part and the operation under way keep their types
\* (RecordStore's members, FlashRegion).
THEOREM StoreTypeCorrect == StoreSpec => []StoreTypeOK
<1>1. StoreInv => StoreTypeOK
  BY DEF StoreInv
<1>2. QED
  BY <1>1, StoreInvariant, PTL

\* A store writes only into the last sector of its own ring, and the part holds
\* the label the allocator believes: CursorOwned (claim_sector(), append()).
THEOREM CursorAlwaysOwned == StoreSpec => []CursorOwned
<1>1. StoreInv => CursorOwned
  <2> SUFFICES ASSUME StoreInv, NEW r \in Stores, store[r].claimed, ~store[r].erasing
               PROVE  /\ label[store[r].sector].owner = r
                      /\ label[store[r].sector].session = store[r].owned
                      /\ header[store[r].sector] = label[store[r].sector]
                      /\ store[r].sector = Frontier(r)
    BY DEF CursorOwned
  <2>1. r \in Rings
    BY StoresAssumption
  <2>2. /\ AtEnd(label, r, store[r].sector)
        /\ label[store[r].sector].session = store[r].owned
        /\ header[store[r].sector] = label[store[r].sector]
    BY <2>1 DEF StoreInv, CursorAtEnd
  <2>3. store[r].sector = Frontier(r)
    BY <2>1, <2>2, EndIsFrontier DEF StoreInv
  <2>4. QED
    BY <2>2, <2>3 DEF AtEnd
<1>2. QED
  BY <1>1, StoreInvariant, PTL

\* A claim may write at once in a spare said to be erased: SpareBlank
\* (prepare_spare(), note_spare_erased()).
THEOREM SparesAlwaysBlank == StoreSpec => []SpareBlank
<1>1. StoreInv => SpareBlank
  BY DEF StoreInv
<1>2. QED
  BY <1>1, StoreInvariant, PTL

\* While the part refuses no write of records, no slot is programmed twice
\* between two erases, whatever is cut: NoByteTwice (ports/flash_region.h).  A
\* refused write may have landed in part, and the store writes there again.
THEOREM NoByteEverTwice == "slots" \notin Refused => (StoreSpec => []NoByteTwice)
<1>1. ASSUME "slots" \notin Refused PROVE StoreSpec => []NoByteTwice
  <2>1. StoreInv => NoByteTwice
    BY <1>1 DEF StoreInv
  <2>2. QED
    BY <2>1, StoreInvariant, PTL
<1>2. QED
  BY <1>1

\* What a session lost to the pool is counted before it is told of: the gap
\* record never says less than went (note_taken(), take_lost_records()).
THEOREM LossesAlwaysReported == StoreSpec => []LossesReported
<1>1. StoreInv => LossesReported
  BY StoresAssumption DEF StoreInv, LossesKept, LossesReported
<1>2. QED
  BY <1>1, StoreInvariant, PTL

-----------------------------------------------------------------------------
(* What a list and a read answer.  Refusals set aside, and the spare the   *)
(* capture names for its room, the part always holds whole sessions but    *)
(* for what was recycled at their head and what a cut left at their tail;  *)
(* this is said of the part, sector by sector, and the walks are then      *)
(* shown to find it.                                                       *)

\* The sectors the part gives a session, and the order they were labelled in.
OfSession(r, m) == {s \in Sectors : header[s].owner = r /\ header[s].session = m}
Before(s, t) == header[s].sequence < header[t].sequence
Others(r, m, s) == OfSession(r, m) \ {s}
LastBut(r, m, s, t) ==
  t \in Others(r, m, s) /\ \A u \in Others(r, m, s) \ {t} : Before(u, t)
Last(r, m, t) == LastBut(r, m, NoSector, t)
Whole(s, i) == slots[s][i].session # 0

\* What the pilot has not asked to erase.
Kept(labelled) == labelled.owner \in Rings /\ labelled.session > given[labelled.owner]

\* A store writes the last session named, which is not one given up; its
\* cursor is at the head of a sector only until the write it was placed for.
SessionsHeld ==
  \A r \in Rings :
    /\ store[r].session \in {0, named[r]}
    /\ given[r] <= named[r]
    /\ store[r].erasing => given[r] = named[r]
    /\ ~store[r].erasing /\ store[r].session # 0 => store[r].session > given[r]
    /\ \A m \in Sessions : m > named[r] => written[r][m] = 0
    /\ store[r].claimed /\ store[r].slot = 0 => work.step = "write" /\ work.ring = r
    /\ spare[r].reserved => spare[r].erased \/ (work.step = "spare" /\ work.ring = r)

\* Sessions are written one after the other.
InOrder(labels) ==
  \A s, t \in Sectors :
    /\ labels[s].owner \in Rings /\ labels[t].owner = labels[s].owner
    /\ labels[s].sequence < labels[t].sequence
    => labels[s].session <= labels[t].session

\* The part holds what the labels say, but in the sector being changed hands.
Busy(s) == work.step \in {"erase", "label", "spare"} /\ s = work.sector
Matched ==
  \A s \in Sectors : ~Busy(s) =>
    /\ Kept(label[s]) \/ Kept(header[s]) => header[s] = label[s]
    /\ label[s].owner \in Rings => header[s] = label[s] \/ slots[s] = Blank

\* A sector that goes is the first of its ring, and never the last of the
\* session being written.
GoesFirst(s) ==
  Kept(header[s]) =>
    LET q == header[s].owner
    IN /\ \A t \in Sectors \ {s} : header[t].owner = q /\ Kept(header[t]) => Before(s, t)
       /\ header[s].session = store[q].session => Others(q, store[q].session, s) # {}

\* What comes in its place goes last, and says whether its session starts there.
ComesLast(s) ==
  /\ label[s].start <=> Others(label[s].owner, label[s].session, s) = {}
  /\ \A t \in Sectors \ {s} : header[t].owner \in Rings => header[t].sequence < label[s].sequence

PartMatches ==
  /\ sequence <= MaxSequence
  /\ SessionsHeld
  /\ InOrder(label) /\ InOrder(header)
  /\ Matched
  /\ work.step = "label" => header[work.sector] = Free
  /\ work.step \in {"erase", "spare"} => GoesFirst(work.sector)
  /\ work.step \in {"erase", "label"} => ComesLast(work.sector)

\* A sector is filled from its first slot, with its session's records in a row.
WellFilled(s) ==
  /\ \A i \in Places : slots[s][i] \in {Erased, Torn} \/ slots[s][i].session = header[s].session
  /\ \A i, j \in Places : i < j /\ slots[s][j] # Erased => Whole(s, i)
  /\ \A i, j \in Places : i <= j /\ Whole(s, j) =>
       slots[s][j].number = slots[s][i].number + (j - i)
  /\ Whole(s, 0) => /\ slots[s][0].number >= 1
                    /\ slots[s][0].number = 1 <=> header[s].start

\* The sectors of a session are filled one after the other.
NoneBetween(s, t) ==
  \A u \in OfSession(header[s].owner, header[s].session) : ~(Before(s, u) /\ Before(u, t))
Chained(s, t) ==
  /\ Whole(s, Slots - 1)
  /\ ~header[t].start
  /\ NoneBetween(s, t) /\ Whole(t, 0) => slots[t][0].number = slots[s][Slots - 1].number + 1

\* The last record whole of a session is no older than the last one append()
\* answered Ok for.
Recorded(r, m) ==
  \A s \in Sectors : Last(r, m, s) =>
    IF Whole(s, 0)
    THEN \A i \in Places : Whole(s, i) /\ (i + 1 \in Places => ~Whole(s, i + 1)) =>
           slots[s][i].number >= written[r][m]
    ELSE /\ header[s].start /\ Others(r, m, s) = {} => written[r][m] = 0
         /\ \A p \in Sectors : LastBut(r, m, s, p) => slots[p][Slots - 1].number >= written[r][m]

PartFilled ==
  /\ \A s \in Sectors : header[s].owner \in Rings => WellFilled(s)
  /\ \A s, t \in Sectors :
       /\ Kept(header[s]) /\ Before(s, t)
       /\ header[t].owner = header[s].owner /\ header[t].session = header[s].session
       => Chained(s, t)
  /\ \A r \in Rings, m \in Sessions : m > given[r] => Recorded(r, m)

\* The session's sectors, but s, are filled up to its last record written.
EndsBut(r, m, s) ==
  IF Others(r, m, s) = {} THEN written[r][m] = 0
  ELSE \E t \in Sectors : LastBut(r, m, s, t)
                          /\ slots[t][Slots - 1] = [session |-> m, number |-> written[r][m]]

\* A store goes on where its session is on the part.
Continued(r) ==
  LET m == store[r].session
      s == store[r].sector
  IN m # 0 /\ ~store[r].erasing =>
       IF ~store[r].claimed THEN EndsBut(r, m, NoSector)
       ELSE IF store[r].slot = 0
       THEN EndsBut(r, m, s) /\ (header[s].start <=> Others(r, m, s) = {})
       ELSE \A i \in Places : i < store[r].slot =>
              slots[s][i] = [session |-> m, number |-> written[r][m] - store[r].slot + 1 + i]

FilledInv == StoreInv /\ PartMatches /\ PartFilled /\ \A r \in Rings : Continued(r)

LEMMA PlacesFacts ==
  /\ Slots \in Nat /\ Slots >= 1
  /\ Places \subseteq Nat /\ 0 \in Places /\ Slots - 1 \in Places
  /\ \A i \in Nat : i \in Places <=> i < Slots
BY Consts DEF Places

LEMMA RecordFacts ==
  /\ Free.owner \notin Rings /\ Erased.session = 0 /\ Torn.session = 0
  /\ \A i \in Places : Blank[i] = Erased
  /\ NoSector \notin Sectors /\ Erased # Torn
BY Consts DEF Free, Unlabelled, Rings, Erased, Torn, Blank, NoSector, Sectors

LEMMA FilledTypes ==
  ASSUME StoreInv
  PROVE  /\ \A s \in Sectors :
              /\ header[s] \in Label /\ label[s] \in Label
              /\ header[s].sequence \in Nat /\ header[s].session \in Nat
              /\ label[s].sequence \in Nat /\ label[s].session \in Nat
              /\ header[s].start \in BOOLEAN /\ label[s].start \in BOOLEAN
         /\ \A s \in Sectors, i \in Places :
              slots[s][i] \in Contents /\ slots[s][i].session \in Nat /\ slots[s][i].number \in Nat
         /\ \A r \in Rings :
              /\ named[r] \in Nat /\ given[r] \in Nat
              /\ store[r] \in Fields /\ store[r].session \in Nat /\ store[r].sector \in Sectors
              /\ store[r].slot \in Nat /\ store[r].slot <= Slots
              /\ store[r].claimed \in BOOLEAN /\ store[r].erasing \in BOOLEAN
         /\ \A r \in Rings, m \in Sessions : written[r][m] \in Nat
         /\ \A s, t \in Sectors :
              s # t /\ header[s].owner \in Rings /\ header[t].owner \in Rings
              => header[s].sequence # header[t].sequence
         /\ \A s \in Sectors : header[s].owner \in Rings =>
              header[s].session \in Sessions /\ header[s].session <= named[header[s].owner]
         /\ \A s \in Sectors : label[s].owner \in Rings =>
              label[s].session \in Sessions /\ label[s].session <= named[label[s].owner]
<1>0. StoreTypeOK /\ TypeOK /\ IInv
  BY DEF StoreInv, StoreTypeOK
<1>1. Sessions \cup {0} \subseteq Nat
  BY Consts
<1>2. \A s \in Sectors :
        /\ header[s] \in Label /\ label[s] \in Label
        /\ header[s].sequence \in Nat /\ header[s].session \in Nat
        /\ label[s].sequence \in Nat /\ label[s].session \in Nat
        /\ header[s].start \in BOOLEAN /\ label[s].start \in BOOLEAN
  BY <1>0, <1>1 DEF TypeOK, Label
<1>3. \A s \in Sectors, i \in Places :
        slots[s][i] \in Contents /\ slots[s][i].session \in Nat /\ slots[s][i].number \in Nat
  BY <1>0, <1>1 DEF StoreTypeOK, Contents
<1>4. \A r \in Rings :
        /\ named[r] \in Nat /\ given[r] \in Nat
        /\ store[r] \in Fields /\ store[r].session \in Nat /\ store[r].sector \in Sectors
        /\ store[r].slot \in Nat /\ store[r].slot <= Slots
        /\ store[r].claimed \in BOOLEAN /\ store[r].erasing \in BOOLEAN
  <2>1. \A r \in Rings : store[r] \in Fields /\ named[r] \in Nat /\ given[r] \in Nat
    BY <1>0 DEF StoreTypeOK
  <2>2. \A r \in Rings : store[r].session \in Sessions \cup {0} /\ store[r].slot \in 0 .. Slots
    BY <2>1 DEF Fields
  <2>3. \A r \in Rings : /\ store[r].sector \in Sectors
                          /\ store[r].claimed \in BOOLEAN /\ store[r].erasing \in BOOLEAN
    BY <2>1 DEF Fields
  <2>4. QED
    BY <1>1, <2>1, <2>2, <2>3, PlacesFacts
<1>5. \A r \in Rings, m \in Sessions : written[r][m] \in Nat
  BY <1>0 DEF StoreTypeOK
<1>6. \A s, t \in Sectors :
        s # t /\ header[s].owner \in Rings /\ header[t].owner \in Rings
        => header[s].sequence # header[t].sequence
  BY <1>0 DEF IInv, NumbersOrdered, Ordered
<1>7. QED
  BY <1>2, <1>3, <1>4, <1>5, <1>6 DEF StoreInv, SessionsNamed

\* Nothing the part, the erasures and the answers say changes.
LEMMA FilledSame ==
  ASSUME PartFilled, UNCHANGED <<slots, header, given, written>>
  PROVE  PartFilled'
BY DEF PartFilled, WellFilled, Kept, Before, Chained, NoneBetween, Recorded, Last, LastBut, Others,
       OfSession, Whole

\* The first sector of its ring goes.
LEMMA FilledRemoved ==
  ASSUME StoreInv, PartFilled, NEW h \in Sectors,
         Kept(header[h]) =>
           \A t \in Sectors \ {h} :
             header[t].owner = header[h].owner /\ Kept(header[t]) => Before(h, t),
         header'[h] = Free,
         \A t \in Sectors \ {h} : header'[t] = header[t] /\ slots'[t] = slots[t],
         UNCHANGED <<given, written>>
  PROVE  PartFilled'
<1>1. \A s \in Sectors : header'[s].owner \in Rings =>
        s # h /\ header'[s] = header[s] /\ slots'[s] = slots[s]
  BY RecordFacts
<1>2. \A s \in Sectors : header'[s].owner \in Rings => WellFilled(s)'
  BY <1>1 DEF PartFilled, WellFilled, Whole
<1>3. ASSUME NEW r \in Rings, NEW m \in Sessions
      PROVE  OfSession(r, m)' = OfSession(r, m) \ {h}
  BY <1>1 DEF OfSession
<1>4. ASSUME NEW s \in Sectors, NEW t \in Sectors,
             Kept(header[s])', Before(s, t)',
             header'[t].owner = header'[s].owner, header'[t].session = header'[s].session
      PROVE  Chained(s, t)'
  <2>1. /\ s # h /\ t # h /\ header'[s] = header[s] /\ header'[t] = header[t]
        /\ slots'[s] = slots[s] /\ slots'[t] = slots[t]
        /\ header[s].owner \in Rings /\ header[s].session \in Sessions
    BY <1>1, <1>4, FilledTypes DEF Kept
  <2>2. Kept(header[s]) /\ Before(s, t) /\ Kept(header[t])
    BY <1>4, <2>1 DEF Kept, Before
  <2>3. Chained(s, t)
    BY <1>4, <2>1, <2>2 DEF PartFilled
  <2>4. NoneBetween(s, t)' => NoneBetween(s, t)
    <3> SUFFICES ASSUME NoneBetween(s, t)', NEW u \in OfSession(header[s].owner, header[s].session),
                        Before(s, u), Before(u, t)
                 PROVE  FALSE
      BY DEF NoneBetween
    <3>1. u \in Sectors /\ header[u].owner = header[s].owner /\ header[u].session = header[s].session
      BY DEF OfSession
    <3>2. CASE u = h
      <4>1. Kept(header[h])
        BY <2>2, <3>1, <3>2 DEF Kept
      <4>2. Before(h, s)
        BY <2>1, <2>2, <3>1, <3>2, <4>1
      <4>3. QED
        BY <2>1, <3>2, <4>2, FilledTypes DEF Before
    <3>3. CASE u # h
      <4>1. u \in OfSession(header[s].owner, header[s].session)' /\ Before(s, u)' /\ Before(u, t)'
        BY <2>1, <3>1, <3>3 DEF OfSession, Before
      <4>2. QED
        BY <2>1, <4>1 DEF NoneBetween
    <3>4. QED
      BY <3>2, <3>3
  <2>5. QED
    BY <2>1, <2>3, <2>4 DEF Chained, Whole
<1>5. ASSUME NEW r \in Rings, NEW m \in Sessions, m > given'[r]
      PROVE  Recorded(r, m)'
  <2>1. \A u : u \in OfSession(r, m)' <=> u \in OfSession(r, m) /\ u # h
    BY <1>3
  <2>2. \A u, v \in Sectors \ {h} : Before(u, v)' <=> Before(u, v)
    BY DEF Before
  <2>3. \A u \in OfSession(r, m) : header[u].owner = r /\ header[u].session = m /\ Kept(header[u])
    BY <1>5 DEF OfSession, Kept
  <2>4. h \in OfSession(r, m) => \A u \in OfSession(r, m) \ {h} : Before(h, u)
    BY <2>3 DEF OfSession
  <2>5. ASSUME NEW x, NEW t, LastBut(r, m, x, t)'
        PROVE  LastBut(r, m, x, t) /\ t # h /\ t \in Sectors
    <3>1. t \in OfSession(r, m) /\ t # h /\ t # x /\ t \in Sectors
      BY <2>1, <2>5 DEF LastBut, Others, OfSession
    <3>2. ASSUME NEW u \in OfSession(r, m), u # x, u # t
          PROVE  Before(u, t)
      <4>1. CASE u = h
        BY <2>4, <3>1, <4>1
      <4>2. CASE u # h
        BY <2>1, <2>2, <2>5, <3>1, <3>2, <4>2 DEF LastBut, Others, OfSession
      <4>3. QED
        BY <4>1, <4>2
    <3>3. QED
      BY <3>1, <3>2 DEF LastBut, Others
  <2> SUFFICES ASSUME NEW s \in Sectors, Last(r, m, s)'
               PROVE  IF Whole(s, 0)'
                      THEN \A i \in Places : Whole(s, i)' /\ (i + 1 \in Places => ~Whole(s, i + 1)') =>
                             slots'[s][i].number >= written'[r][m]
                      ELSE /\ header'[s].start /\ Others(r, m, s)' = {} => written'[r][m] = 0
                           /\ \A p \in Sectors : LastBut(r, m, s, p)' =>
                                slots'[p][Slots - 1].number >= written'[r][m]
    BY DEF Recorded
  <2>6. Last(r, m, s) /\ s # h
    BY <2>5 DEF Last
  <2>7. /\ header'[s] = header[s] /\ slots'[s] = slots[s]
        /\ s \in OfSession(r, m)
    BY <2>6 DEF Last, LastBut, Others
  <2>8. Recorded(r, m)
    BY <1>5 DEF PartFilled
  <2>9. IF Whole(s, 0)
        THEN \A i \in Places : Whole(s, i) /\ (i + 1 \in Places => ~Whole(s, i + 1)) =>
               slots[s][i].number >= written[r][m]
        ELSE /\ header[s].start /\ Others(r, m, s) = {} => written[r][m] = 0
             /\ \A p \in Sectors : LastBut(r, m, s, p) => slots[p][Slots - 1].number >= written[r][m]
    BY <2>6, <2>8 DEF Recorded
  <2>10. \A i : Whole(s, i)' <=> Whole(s, i)
    BY <2>7 DEF Whole
  <2>11. ASSUME Others(r, m, s)' = {}, header[s].start
         PROVE  Others(r, m, s) = {}
    <3>1. SUFFICES ASSUME h \in OfSession(r, m) PROVE FALSE
      BY <2>1, <2>11 DEF Others
    <3>2. Before(h, s) /\ Kept(header[h]) /\ header[s].owner = header[h].owner
          /\ header[s].session = header[h].session
      BY <2>3, <2>4, <2>6, <2>7, <3>1
    <3>3. Chained(h, s)
      BY <3>2 DEF PartFilled
    <3>4. QED
      BY <2>11, <3>3 DEF Chained
  <2>12. QED
    BY <2>5, <2>7, <2>9, <2>10, <2>11
<1>6. QED
  BY <1>2, <1>4, <1>5 DEF PartFilled

\* A sector erased is labelled, after all the others.
LEMMA FilledRelabelled ==
  ASSUME StoreInv, PartFilled, NEW h \in Sectors, NEW r \in Rings, NEW m \in Sessions,
         header[h] = Free, slots[h] = Blank, label[h].owner = r, label[h].session = m,
         ComesLast(h), EndsBut(r, m, NoSector),
         header'[h] = label[h], \A t \in Sectors \ {h} : header'[t] = header[t],
         UNCHANGED <<slots, given, written>>
  PROVE  /\ PartFilled'
         /\ EndsBut(r, m, h)' /\ (header'[h].start <=> Others(r, m, h)' = {})
         /\ \A q \in Rings \ {r} : \A n, x : OfSession(q, n)' = OfSession(q, n)
<1>1. /\ \A q \in Rings : \A n : h \notin OfSession(q, n)
      /\ \A u : u \in OfSession(r, m)' <=> u \in OfSession(r, m) \/ u = h
      /\ \A q \in Rings : \A n : q # r \/ n # m => OfSession(q, n)' = OfSession(q, n)
      /\ \A u : u \in Others(r, m, h)' <=> u \in OfSession(r, m)
      /\ \A u : u \in Others(r, m, h) <=> u \in OfSession(r, m)
      /\ \A u : u \in Others(r, m, NoSector) <=> u \in OfSession(r, m)
  BY RecordFacts DEF OfSession, Others
<1>2. /\ \A u, v \in Sectors \ {h} : Before(u, v)' <=> Before(u, v)
      /\ \A u \in Sectors \ {h} : header[u].owner \in Rings => Before(u, h)' /\ ~Before(h, u)'
  <2>1. \A u \in Sectors : header[u].sequence \in Nat /\ label[u].sequence \in Nat
    BY FilledTypes
  <2>2. QED
    BY <2>1 DEF Before, ComesLast
<1>3. label[h].start <=> OfSession(r, m) = {}
  BY <1>1 DEF ComesLast
<1>4. \A i \in Places : slots[h][i] = Erased /\ ~Whole(h, i)
  BY RecordFacts DEF Whole
<1>5. ASSUME NEW s \in Sectors, header'[s].owner \in Rings
      PROVE  WellFilled(s)'
  <2>1. CASE s = h
    <3>1. \A i \in Places : slots'[s][i] = Erased /\ ~Whole(s, i)'
      BY <1>4, <2>1 DEF Whole
    <3>2. QED
      BY <3>1, PlacesFacts DEF WellFilled
  <2>2. CASE s # h
    BY <1>5, <2>2 DEF PartFilled, WellFilled, Whole
  <2>3. QED
    BY <2>1, <2>2
<1>6. ASSUME OfSession(r, m) # {}
      PROVE  \E t \in Sectors : /\ Last(r, m, t) /\ LastBut(r, m, h, t)'
                                /\ slots[t][Slots - 1] = [session |-> m, number |-> written[r][m]]
  <2>1. PICK t \in Sectors :
          /\ LastBut(r, m, NoSector, t)
          /\ slots[t][Slots - 1] = [session |-> m, number |-> written[r][m]]
    BY <1>1, <1>6 DEF EndsBut
  <2>2. LastBut(r, m, h, t)'
    BY <1>1, <1>2, <2>1 DEF LastBut, OfSession
  <2>3. QED
    BY <2>1, <2>2 DEF Last
<1>7. ASSUME NEW s \in Sectors, NEW t \in Sectors,
             Kept(header[s])', Before(s, t)',
             header'[t].owner = header'[s].owner, header'[t].session = header'[s].session
      PROVE  Chained(s, t)'
  <2>1. s # h
    <3>1. SUFFICES ASSUME s = h PROVE FALSE
      OBVIOUS
    <3>2. t # h
      BY <1>7, <3>1, FilledTypes DEF Before
    <3>3. header[t].owner \in Rings
      BY <1>7, <3>1, <3>2
    <3>4. QED
      BY <1>2, <1>7, <3>1, <3>2, <3>3
  <2>2. header'[s] = header[s] /\ Kept(header[s])
    BY <1>7, <2>1 DEF Kept
  <2>3. CASE t # h
    <3>1. Before(s, t) /\ header'[t] = header[t]
      BY <1>2, <1>7, <2>1, <2>3
    <3>2. Chained(s, t)
      BY <1>7, <2>2, <3>1 DEF PartFilled
    <3>3. NoneBetween(s, t)' => NoneBetween(s, t)
      BY <1>2, <2>1, <2>2, <2>3, RecordFacts DEF NoneBetween, OfSession, Kept
    <3>4. QED
      BY <2>2, <3>1, <3>2, <3>3 DEF Chained, Whole
  <2>4. CASE t = h
    <3>1. s \in OfSession(r, m)
      BY <1>7, <2>2, <2>4 DEF OfSession
    <3>2. ~header'[t].start /\ ~Whole(t, 0)'
      BY <1>3, <1>4, <2>4, <3>1, PlacesFacts DEF Whole
    <3>3. PICK u \in Sectors : /\ Last(r, m, u)
                               /\ slots[u][Slots - 1] = [session |-> m, number |-> written[r][m]]
      BY <1>6, <3>1
    <3>4. Whole(s, Slots - 1)
      <4>1. CASE s = u
        BY <3>3, <4>1, Consts DEF Whole
      <4>2. CASE s # u
        <5>1. Before(s, u) /\ header[u].owner = r /\ header[u].session = m
          BY <1>1, <3>1, <3>3, <4>2 DEF Last, LastBut, OfSession
        <5>2. header[s].owner = r /\ header[s].session = m
          BY <3>1 DEF OfSession
        <5>3. QED
          BY <2>2, <5>1, <5>2 DEF PartFilled, Chained
      <4>3. QED
        BY <4>1, <4>2
    <3>5. QED
      BY <3>2, <3>4 DEF Chained, Whole
  <2>5. QED
    BY <2>3, <2>4
<1>8. ASSUME NEW q \in Rings, NEW n \in Sessions, n > given'[q]
      PROVE  Recorded(q, n)'
  <2>1. CASE q # r \/ n # m
    <3>1. OfSession(q, n)' = OfSession(q, n) /\ h \notin OfSession(q, n) /\ OfSession(q, n) \subseteq Sectors
      BY <1>1, <2>1 DEF OfSession
    <3>2. \A x, t : LastBut(q, n, x, t)' <=> LastBut(q, n, x, t)
      BY <1>2, <3>1 DEF LastBut, Others
    <3>3. \A t : Last(q, n, t) => t # h
      BY <3>1 DEF Last, LastBut, Others
    <3>4. Recorded(q, n)
      BY <1>8 DEF PartFilled
    <3>5. \A x : Others(q, n, x)' = Others(q, n, x)
      BY <3>1 DEF Others
    <3>6. QED
      BY <3>2, <3>3, <3>4, <3>5 DEF Recorded, Last, Whole
  <2>2. CASE q = r /\ n = m
    <3> SUFFICES ASSUME NEW s \in Sectors, Last(r, m, s)'
                 PROVE  IF Whole(s, 0)'
                        THEN \A i \in Places : Whole(s, i)' /\ (i + 1 \in Places => ~Whole(s, i + 1)') =>
                               slots'[s][i].number >= written'[r][m]
                        ELSE /\ header'[s].start /\ Others(r, m, s)' = {} => written'[r][m] = 0
                             /\ \A p \in Sectors : LastBut(r, m, s, p)' =>
                                  slots'[p][Slots - 1].number >= written'[r][m]
      BY <2>2 DEF Recorded
    <3>1. s = h
      <4>1. SUFFICES ASSUME s # h PROVE FALSE
        OBVIOUS
      <4>2. Before(h, s)' /\ s \in OfSession(r, m)
        BY <1>1, <4>1, RecordFacts DEF Last, LastBut, Others
      <4>3. header[s].owner \in Rings
        BY <4>2 DEF OfSession
      <4>4. QED
        BY <1>2, <4>1, <4>2, <4>3
    <3>2. ~Whole(s, 0)'
      BY <1>4, <3>1, PlacesFacts DEF Whole
    <3>3. Others(r, m, s)' = {} => written'[r][m] = 0
      BY <1>1, <3>1 DEF EndsBut
    <3>4. ASSUME NEW p \in Sectors, LastBut(r, m, s, p)'
          PROVE  slots'[p][Slots - 1].number >= written'[r][m]
      <4>1. p \in OfSession(r, m)
        BY <1>1, <3>1, <3>4 DEF LastBut
      <4>2. PICK t \in Sectors : /\ Last(r, m, t) /\ LastBut(r, m, h, t)'
                                 /\ slots[t][Slots - 1] = [session |-> m, number |-> written[r][m]]
        BY <1>6, <4>1
      <4>3. p = t
        <5>1. SUFFICES ASSUME p # t PROVE FALSE
          OBVIOUS
        <5>2. Before(t, p)' /\ Before(p, t)'
          BY <3>1, <3>4, <4>2, <5>1 DEF LastBut
        <5>3. t \in OfSession(r, m)
          BY <1>1, <4>2 DEF LastBut
        <5>4. Before(t, p) /\ Before(p, t)
          BY <1>1, <1>2, <4>1, <5>2, <5>3
        <5>5. QED
          BY <5>4, FilledTypes DEF Before
      <4>4. QED
        BY <4>2, <4>3, FilledTypes
    <3>5. QED
      BY <3>2, <3>3, <3>4
  <2>3. QED
    BY <2>1, <2>2
<1>9. EndsBut(r, m, h)'
  <2>1. CASE OfSession(r, m) = {}
    BY <1>1, <2>1 DEF EndsBut
  <2>2. CASE OfSession(r, m) # {}
    BY <1>1, <1>6, <2>2 DEF EndsBut
  <2>3. QED
    BY <2>1, <2>2
<1>10. QED
  BY <1>1, <1>3, <1>5, <1>7, <1>8, <1>9 DEF PartFilled

\* The sector a store writes in is the last of its session.
LEMMA CursorLast ==
  ASSUME StoreInv, PartMatches, NEW r \in Rings, store[r].claimed, ~store[r].erasing,
         work.step \in {"idle", "write", "clear"}
  PROVE  /\ store[r].session \in Sessions /\ store[r].session > given[r]
         /\ store[r].sector \in Sectors
         /\ store[r].owned = store[r].session
         /\ header[store[r].sector] = label[store[r].sector]
         /\ header[store[r].sector].owner = r
         /\ header[store[r].sector].session = store[r].session
         /\ Last(r, store[r].session, store[r].sector)
<1> DEFINE L == store[r].sector
           m == store[r].session
<1>1. /\ L \in Sectors /\ label[L].owner = r /\ header[L] = label[L]
      /\ label[L].session = m /\ store[r].owned = m
      /\ \A t \in Sectors \ {L} : label[t].owner = r => label[t].sequence < label[L].sequence
  BY DEF StoreInv, CursorAtEnd, AtEnd
<1>2. m \in Sessions /\ m # 0 /\ m > given[r]
  BY <1>1, Consts, FilledTypes DEF PartMatches, SessionsHeld
<1>3. \A t \in Sectors : Kept(header[t]) => header[t] = label[t]
  BY DEF PartMatches, Matched, Busy
<1> HIDE DEF L, m
<1>4. ASSUME NEW t \in OfSession(r, m), t # L
      PROVE  Before(t, L)
  <2>1. t \in Sectors /\ header[t].owner = r /\ header[t] = label[t]
    BY <1>2, <1>3 DEF OfSession, Kept
  <2>2. QED
    BY <1>1, <1>4, <2>1 DEF Before
<1>5. L \in OfSession(r, m)
  BY <1>1 DEF OfSession
<1>6. Last(r, m, L)
  BY <1>4, <1>5, <1>1, RecordFacts DEF Last, LastBut, Others
<1>7. QED
  BY <1>1, <1>2, <1>6 DEF L, m

\* Records written in the last sector of a session, whole but for one torn.
LEMMA FilledProgrammed ==
  ASSUME StoreInv, PartFilled, NEW r \in Rings, Continued(r),
         NEW m \in Sessions, m = store[r].session, m > given[r],
         store[r].claimed, ~store[r].erasing,
         NEW L \in Sectors, L = store[r].sector, header[L].owner = r, header[L].session = m,
         Last(r, m, L),
         NEW k \in Nat, k = store[r].slot, NEW W \in Nat, W = written[r][m],
         NEW whole \in Nat, k + whole <= Slots,
         \A i \in Places : i < k => slots'[L][i] = slots[L][i],
         \A i \in Places : i >= k /\ i < k + whole =>
           slots'[L][i] = [session |-> m, number |-> W + (i - k + 1)],
         \A i \in Places : i >= k + whole => slots'[L][i] \in {Erased, Torn},
         \A i \in Places : i > k + whole => slots'[L][i] = Erased,
         \A t \in Sectors \ {L} : slots'[t] = slots[t],
         UNCHANGED <<header, given>>,
         \A q \in Rings, n \in Sessions : q # r \/ n # m => written'[q][n] = written[q][n],
         written'[r][m] \in {W, W + whole}
  PROVE  PartFilled'
<1>0. m # 0 /\ m \in Nat /\ Slots \in Nat /\ Slots >= 1 /\ Slots - 1 \in Places /\ 0 \in Places
  BY Consts, PlacesFacts
<1>1. \A i \in Places : i \in Nat /\ i < Slots
  BY PlacesFacts
<1>2. IF k = 0
      THEN EndsBut(r, m, L) /\ (header[L].start <=> Others(r, m, L) = {})
      ELSE \A i \in Places : i < k =>
             slots[L][i] = [session |-> m, number |-> W - k + 1 + i]
  BY <1>0 DEF Continued
<1>3. /\ \A i \in Places : i < k + whole =>
           slots'[L][i] = [session |-> m, number |-> W - k + 1 + i]
      /\ \A i \in Places : i >= k + whole => slots'[L][i] \in {Erased, Torn}
      /\ \A i \in Places : i > k + whole => slots'[L][i] = Erased
  <2>1. ASSUME NEW i \in Places, i < k + whole
        PROVE  slots'[L][i] = [session |-> m, number |-> W - k + 1 + i]
    <3>1. CASE i < k
      BY <1>1, <1>2, <3>1
    <3>2. CASE i >= k
      <4>1. W + (i - k + 1) = W - k + 1 + i
        BY <1>1
      <4>2. QED
        BY <2>1, <3>2, <4>1
    <3>3. QED
      BY <1>1, <3>1, <3>2
  <2>2. QED
    BY <1>1, <2>1
<1>30. \A i \in Places : i < k + whole =>
         slots'[L][i].session = m /\ slots'[L][i].number = W - k + 1 + i
  <2> SUFFICES ASSUME NEW i \in Places, i < k + whole
               PROVE  slots'[L][i].session = m /\ slots'[L][i].number = W - k + 1 + i
    OBVIOUS
  <2>1. slots'[L][i] = [session |-> m, number |-> W - k + 1 + i]
    BY <1>3
  <2>2. QED
    BY <2>1
<1>4. \A i \in Places : Whole(L, i)' <=> i < k + whole
  <2> SUFFICES ASSUME NEW i \in Places
               PROVE  slots'[L][i].session # 0 <=> i < k + whole
    BY DEF Whole
  <2>1. CASE i < k + whole
    BY <1>0, <1>30, <2>1
  <2>2. CASE i >= k + whole
    BY <1>1, <1>3, <2>2, RecordFacts
  <2>3. QED
    BY <1>1, <2>1, <2>2
<1>5. k = 0 => W >= 0 /\ (W = 0 <=> header[L].start)
  <2>1. SUFFICES ASSUME k = 0 PROVE W = 0 <=> header[L].start
    OBVIOUS
  <2>2. CASE Others(r, m, L) = {}
    BY <1>2, <2>1, <2>2 DEF EndsBut
  <2>3. CASE Others(r, m, L) # {}
    <3>1. PICK t \in Sectors : /\ LastBut(r, m, L, t)
                               /\ slots[t][Slots - 1] = [session |-> m, number |-> W]
      BY <1>2, <2>1, <2>3 DEF EndsBut
    <3>2. header[t].owner = r /\ WellFilled(t)
      BY <3>1 DEF LastBut, Others, OfSession, PartFilled
    <3>3. Whole(t, Slots - 1) /\ slots[t][Slots - 1] # Erased
      BY <1>0, <3>1, RecordFacts DEF Whole
    <3>4. Whole(t, 0)
      BY <1>0, <3>2, <3>3 DEF WellFilled
    <3>5. slots[t][0].number >= 1 /\ slots[t][0].number \in Nat
      BY <1>0, <3>2, <3>4, FilledTypes DEF WellFilled
    <3>6. slots[t][Slots - 1].number = slots[t][0].number + (Slots - 1 - 0)
      BY <1>0, <3>2, <3>3 DEF WellFilled
    <3>7. W >= 1
      BY <1>0, <3>1, <3>5, <3>6
    <3>8. QED
      BY <1>2, <2>1, <2>3, <3>7
  <2>4. QED
    BY <2>2, <2>3
<1>6. WellFilled(L)'
  <2>1. \A i \in Places : slots'[L][i] \in {Erased, Torn} \/ slots'[L][i].session = header'[L].session
    BY <1>1, <1>3, <1>30
  <2>2. \A i, j \in Places : i < j /\ slots'[L][j] # Erased => Whole(L, i)'
    BY <1>1, <1>3, <1>4
  <2>3. ASSUME NEW i \in Places, NEW j \in Places, i <= j, Whole(L, j)'
        PROVE  slots'[L][j].number = slots'[L][i].number + (j - i)
    <3>1. i \in Nat /\ j \in Nat /\ j < k + whole /\ i < k + whole
      BY <1>1, <1>4, <2>3
    <3>2. slots'[L][j].number = W - k + 1 + j /\ slots'[L][i].number = W - k + 1 + i
      BY <1>30, <3>1
    <3>3. QED
      BY <3>1, <3>2
  <2>4. ASSUME Whole(L, 0)'
        PROVE  slots'[L][0].number >= 1 /\ (slots'[L][0].number = 1 <=> header'[L].start)
    <3>1. 0 < k + whole /\ slots'[L][0] = [session |-> m, number |-> W - k + 1 + 0]
      BY <1>0, <1>3, <1>4, <2>4
    <3>2. CASE k = 0
      BY <1>5, <3>1, <3>2
    <3>3. CASE k # 0
      <4>1. slots'[L][0] = slots[L][0]
        BY <1>0, <3>3
      <4>2. Whole(L, 0) /\ WellFilled(L)
        BY <1>0, <3>1, <4>1 DEF Whole, PartFilled
      <4>3. QED
        BY <4>1, <4>2 DEF WellFilled
    <3>4. QED
      BY <3>2, <3>3
  <2>5. QED
    BY <2>1, <2>2, <2>3, <2>4 DEF WellFilled
<1>7. ASSUME NEW s \in Sectors, header'[s].owner \in Rings
      PROVE  WellFilled(s)'
  <2>1. CASE s = L
    BY <1>6, <2>1
  <2>2. CASE s # L
    BY <1>7, <2>2 DEF PartFilled, WellFilled, Whole
  <2>3. QED
    BY <2>1, <2>2
<1>8. /\ \A s, t : Before(s, t)' <=> Before(s, t)
      /\ \A q, n : OfSession(q, n)' = OfSession(q, n)
      /\ \A q, n, x : Others(q, n, x)' = Others(q, n, x)
      /\ \A q, n, x, t : LastBut(q, n, x, t)' <=> LastBut(q, n, x, t)
      /\ \A s, t : NoneBetween(s, t)' <=> NoneBetween(s, t)
      /\ \A l : Kept(l)' <=> Kept(l)
  BY DEF Before, OfSession, Others, LastBut, NoneBetween, Kept
<1>9. ASSUME NEW s \in Sectors, NEW t \in Sectors,
             Kept(header[s])', Before(s, t)',
             header'[t].owner = header'[s].owner, header'[t].session = header'[s].session
      PROVE  Chained(s, t)'
  <2>1. /\ Kept(header[s]) /\ Before(s, t)
        /\ header[t].owner = header[s].owner /\ header[t].session = header[s].session
    BY <1>8, <1>9 DEF Kept
  <2>2. Chained(s, t)
    BY <2>1 DEF PartFilled
  <2>3. s # L
    <3>1. SUFFICES ASSUME s = L PROVE FALSE
      OBVIOUS
    <3>2. t # L /\ t \in OfSession(r, m)
      BY <2>1, <3>1, FilledTypes DEF Before, OfSession
    <3>3. Before(t, L)
      BY <3>2, RecordFacts DEF Last, LastBut, Others
    <3>4. QED
      BY <2>1, <3>1, <3>3, FilledTypes DEF Before
  <2>4. CASE t # L
    BY <1>8, <2>2, <2>3, <2>4 DEF Chained, Whole
  <2>5. CASE t = L
    <3>1. SUFFICES ASSUME NoneBetween(s, L), Whole(L, 0)'
                   PROVE  slots'[L][0].number = slots[s][Slots - 1].number + 1
      BY <1>8, <2>2, <2>3, <2>5 DEF Chained, Whole
    <3>2. 0 < k + whole /\ slots'[L][0] = [session |-> m, number |-> W - k + 1 + 0]
      BY <1>0, <1>3, <1>4, <3>1
    <3>3. CASE k # 0
      <4>1. slots'[L][0] = slots[L][0] /\ Whole(L, 0)
        BY <1>0, <3>2, <3>3 DEF Whole
      <4>2. QED
        BY <2>2, <2>5, <3>1, <4>1 DEF Chained
    <3>4. CASE k = 0
      <4>1. s \in Others(r, m, L) /\ s \in OfSession(r, m)
        BY <2>1, <2>3, <2>5 DEF Others, OfSession
      <4>2. PICK u \in Sectors : /\ LastBut(r, m, L, u)
                                 /\ slots[u][Slots - 1] = [session |-> m, number |-> W]
        BY <1>2, <3>4, <4>1 DEF EndsBut
      <4>3. u = s
        <5>1. SUFFICES ASSUME u # s PROVE FALSE
          OBVIOUS
        <5>2. Before(s, u)
          BY <4>1, <4>2, <5>1 DEF LastBut
        <5>3. u \in OfSession(r, m) /\ u # L
          BY <4>2 DEF LastBut, Others
        <5>4. Before(u, L)
          BY <5>3, RecordFacts DEF Last, LastBut, Others
        <5>5. u \in OfSession(header[s].owner, header[s].session)
          BY <2>1, <2>5, <5>3
        <5>6. QED
          BY <3>1, <5>2, <5>4, <5>5 DEF NoneBetween
      <4>4. QED
        BY <3>2, <3>4, <4>2, <4>3
    <3>5. QED
      BY <3>3, <3>4
  <2>6. QED
    BY <2>4, <2>5
<1>10. ASSUME NEW q \in Rings, NEW n \in Sessions, n > given'[q]
       PROVE  Recorded(q, n)'
  <2>1. Recorded(q, n)
    BY <1>10 DEF PartFilled
  <2>2. CASE q # r \/ n # m
    <3>1. L \notin OfSession(q, n)
      BY <2>2 DEF OfSession
    <3>2. \A x, t : LastBut(q, n, x, t) => t # L
      BY <3>1 DEF LastBut, Others
    <3>3. QED
      BY <1>8, <2>1, <2>2, <3>2 DEF Recorded, Last, Whole
  <2>3. CASE q = r /\ n = m
    <3> SUFFICES ASSUME NEW s \in Sectors, Last(r, m, s)
                 PROVE  IF Whole(s, 0)'
                        THEN \A i \in Places : Whole(s, i)' /\ (i + 1 \in Places => ~Whole(s, i + 1)') =>
                               slots'[s][i].number >= written'[r][m]
                        ELSE /\ header'[s].start /\ Others(r, m, s) = {} => written'[r][m] = 0
                             /\ \A p \in Sectors : LastBut(r, m, s, p) =>
                                  slots'[p][Slots - 1].number >= written'[r][m]
      BY <1>8, <2>3 DEF Recorded, Last
    <3>1. s = L
      <4>1. SUFFICES ASSUME s # L PROVE FALSE
        OBVIOUS
      <4>2. Before(s, L) /\ Before(L, s)
        BY <4>1 DEF Last, LastBut
      <4>3. QED
        BY <4>2, FilledTypes DEF Before
    <3>2. ASSUME NEW i \in Places, Whole(L, i)', i + 1 \in Places => ~Whole(L, i + 1)'
          PROVE  slots'[L][i].number >= written'[r][m]
      <4>1. i \in Nat /\ i < k + whole /\ k <= Slots
        BY <1>1, <1>4, <3>2, FilledTypes
      <4>2. slots'[L][i].number = W - k + 1 + i
        BY <1>30, <4>1
      <4>3. CASE i + 1 \in Places
        <5>1. ~(i + 1 < k + whole)
          BY <1>4, <3>2, <4>3
        <5>2. QED
          BY <4>1, <4>2, <5>1
      <4>4. CASE i + 1 \notin Places
        <5>1. i + 1 >= Slots
          BY <4>1, <4>4, PlacesFacts
        <5>2. QED
          BY <1>0, <4>1, <4>2, <5>1
      <4>5. QED
        BY <4>3, <4>4
    <3>3. ASSUME ~Whole(L, 0)'
          PROVE  /\ Others(r, m, L) = {} => written'[r][m] = 0
                 /\ \A p \in Sectors : LastBut(r, m, L, p) =>
                      slots'[p][Slots - 1].number >= written'[r][m]
      <4>1. k = 0 /\ whole = 0 /\ written'[r][m] = W
        BY <1>0, <1>4, <3>3
      <4>2. Others(r, m, L) = {} => written'[r][m] = 0
        BY <1>2, <4>1 DEF EndsBut
      <4>3. ASSUME NEW p \in Sectors, LastBut(r, m, L, p)
            PROVE  slots'[p][Slots - 1].number >= written'[r][m]
        <5>1. p \in Others(r, m, L)
          BY <4>3 DEF LastBut
        <5>2. PICK u \in Sectors : /\ LastBut(r, m, L, u)
                                   /\ slots[u][Slots - 1] = [session |-> m, number |-> W]
          BY <1>2, <4>1, <5>1 DEF EndsBut
        <5>3. p = u
          <6>1. SUFFICES ASSUME p # u PROVE FALSE
            OBVIOUS
          <6>2. Before(p, u) /\ Before(u, p)
            BY <4>3, <5>2, <6>1 DEF LastBut
          <6>3. QED
            BY <6>2, FilledTypes DEF Before
        <5>4. slots'[p] = slots[p]
          BY <5>1 DEF Others
        <5>5. QED
          BY <4>1, <5>2, <5>3, <5>4
      <4>4. QED
        BY <4>2, <4>3
    <3>4. QED
      BY <3>1, <3>2, <3>3
  <2>4. QED
    BY <2>2, <2>3
<1>11. QED
  BY <1>7, <1>9, <1>10 DEF PartFilled

\* The pilot asks for the erase of what is there.
LEMMA FilledFewer ==
  ASSUME StoreInv, PartFilled, UNCHANGED <<slots, header, written>>,
         \A r \in Rings : given'[r] \in Nat /\ given[r] <= given'[r]
  PROVE  PartFilled'
<1>1. \A labelled \in Label : Kept(labelled)' => Kept(labelled)
  <2> SUFFICES ASSUME NEW labelled \in Label, Kept(labelled)'
               PROVE  Kept(labelled)
    OBVIOUS
  <2>1. labelled.session \in Nat
    <3>1. Sessions \cup {0} \subseteq Nat
      BY Consts
    <3>2. QED
      BY <3>1 DEF Label
  <2>2. QED
    BY <2>1, FilledTypes DEF Kept
<1>2. \A s \in Sectors : header[s] \in Label
  BY FilledTypes
<1>3. \A s \in Sectors : header'[s].owner \in Rings => WellFilled(s)'
  BY DEF PartFilled, WellFilled, Whole
<1>4. \A s, t \in Sectors : Chained(s, t) => Chained(s, t)'
  BY DEF Chained, NoneBetween, Before, OfSession, Whole
<1>5. \A r, m : Recorded(r, m) => Recorded(r, m)'
  BY DEF Recorded, Last, LastBut, Others, OfSession, Before, Whole
<1>6. \A r \in Rings, m \in Sessions : m > given'[r] => m > given[r]
  <2>1. \A m \in Sessions : m \in Nat
    BY Consts
  <2>2. QED
    BY <2>1, FilledTypes
<1>7. \A s, t \in Sectors : Before(s, t)' => Before(s, t)
  BY DEF Before
<1>8. \A s, t \in Sectors :
        /\ Kept(header[s])' /\ Before(s, t)'
        /\ header'[t].owner = header'[s].owner /\ header'[t].session = header'[s].session
        => Chained(s, t)'
  BY <1>1, <1>2, <1>4, <1>7 DEF PartFilled, Kept
<1>9. \A r \in Rings, m \in Sessions : m > given'[r] => Recorded(r, m)'
  BY <1>5, <1>6 DEF PartFilled
<1>10. QED
  BY <1>3, <1>8, <1>9 DEF PartFilled

\* What a write leaves in its sector, whole or cut short.
LEMMA ProgramIs ==
  ASSUME StoreInv, Refused = {}, work.step = "write",
         NEW r, r = work.ring, NEW L, L = work.sector, NEW k, k = store[r].slot,
         NEW m, m = store[r].owned,
         NEW whole \in Nat, NEW torn \in BOOLEAN,
         whole <= work.count, torn => whole < work.count,
         slots' = Program(work.ring, whole, torn)
  PROVE  /\ k + whole <= Slots
         /\ \A i \in Places : i < k => slots'[L][i] = slots[L][i]
         /\ \A i \in Places : i >= k /\ i < k + whole =>
              slots'[L][i] = [session |-> m, number |-> written[r][m] + (i - k + 1)]
         /\ \A i \in Places : i >= k + whole =>
              slots'[L][i] = (IF torn /\ i = k + whole THEN Torn ELSE Erased)
         /\ \A t \in Sectors \ {L} : slots'[t] = slots[t]
<1> DEFINE n(i) == i - k + 1
           lands(i) == IF n(i) \in 1 .. whole THEN Record(r, n(i)) ELSE Torn
           cell(i) == IF n(i) \in 1 .. whole \/ (torn /\ n(i) = whole + 1)
                      THEN IF slots[L][i] = Erased THEN lands(i) ELSE Spoiled
                      ELSE slots[L][i]
<1>0. /\ StoreTypeOK /\ r \in Rings /\ L \in Sectors /\ L = store[r].sector /\ store[r].claimed
      /\ k \in Nat /\ work.count \in Nat /\ k + work.count <= Slots
  BY DEF StoreInv, StoreTypeOK, Works, Fields, WorkHeld
<1>1. slots' = [slots EXCEPT ![L] = [i \in Places |-> cell(i)]]
  BY DEF Program
<1>2. \A i \in Places : i \in Nat
  BY PlacesFacts
<1>3. \A i \in Places : i >= k => slots[L][i] = Erased
  BY <1>0 DEF StoreInv, BlankAhead
<1>4. /\ \A t \in Sectors \ {L} : slots'[t] = slots[t]
      /\ \A i \in Places : slots'[L][i] = cell(i)
  <2> HIDE DEF cell
  <2>1. QED
    BY <1>0, <1>1 DEF StoreTypeOK
<1>5. \A i \in Places : i < k => cell(i) = slots[L][i]
  BY <1>0, <1>2
<1>6. \A i \in Places : i >= k /\ i < k + whole =>
        cell(i) = [session |-> m, number |-> written[r][m] + (i - k + 1)]
  BY <1>0, <1>2, <1>3 DEF Record
<1>7. \A i \in Places : i >= k + whole =>
        cell(i) = (IF torn /\ i = k + whole THEN Torn ELSE Erased)
  <2> SUFFICES ASSUME NEW i \in Places, i >= k + whole
               PROVE  cell(i) = (IF torn /\ i = k + whole THEN Torn ELSE Erased)
    OBVIOUS
  <2>1. i \in Nat /\ ~(n(i) \in 1 .. whole) /\ (n(i) = whole + 1 <=> i = k + whole) /\ i >= k
    BY <1>0, <1>2
  <2>2. slots[L][i] = Erased
    BY <1>3, <2>1
  <2> HIDE DEF n
  <2>3. QED
    BY <2>1, <2>2
<1>8. k + whole <= Slots
  BY <1>0, Consts
<1> HIDE DEF cell
<1>9. QED
  BY <1>4, <1>5, <1>6, <1>7, <1>8

-----------------------------------------------------------------------------
(* A store goes on.                                                        *)

LEMMA ContinuedSame ==
  ASSUME NEW r \in Rings, Continued(r),
         store'[r].session = store[r].session, store'[r].sector = store[r].sector,
         store'[r].claimed = store[r].claimed, store'[r].slot = store[r].slot,
         store'[r].erasing = store[r].erasing, UNCHANGED <<slots, header, written>>
  PROVE  Continued(r)'
<1> DEFINE m == store[r].session
           s == store[r].sector
<1>1. \A x : EndsBut(r, m, x) => EndsBut(r, m, x)'
  BY DEF EndsBut, LastBut, Others, OfSession, Before
<1>2. Others(r, m, s)' = Others(r, m, s)
  BY DEF Others, OfSession
<1> HIDE DEF m, s
<1>3. QED
  BY <1>1, <1>2 DEF Continued, m, s

LEMMA SessionKept ==
  ASSUME StoreInv, PartMatches, NEW r \in Rings, store[r].session # 0, ~store[r].erasing
  PROVE  /\ store[r].session \in Sessions /\ store[r].session > given[r]
         /\ store[r].session = named[r]
BY FilledTypes DEF PartMatches, SessionsHeld, Fields

LEMMA ContinuedRemoved ==
  ASSUME StoreInv, PartMatches, NEW r \in Rings, Continued(r),
         NEW h \in Sectors, GoesFirst(h), header'[h] = Free,
         \A t \in Sectors \ {h} : header'[t] = header[t] /\ slots'[t] = slots[t],
         store[r].claimed => store[r].sector # h /\ store[r].slot # 0,
         store'[r].session = store[r].session, store'[r].sector = store[r].sector,
         store'[r].claimed = store[r].claimed, store'[r].slot = store[r].slot,
         store'[r].erasing = store[r].erasing, UNCHANGED written
  PROVE  Continued(r)'
<1>0. SUFFICES ASSUME store[r].session # 0, ~store[r].erasing
               PROVE  Continued(r)'
  BY DEF Continued
<1>1. PICK m \in Sessions : m = store[r].session /\ m > given[r]
  BY <1>0, SessionKept
<1>2. CASE store[r].claimed
  BY <1>0, <1>2, FilledTypes DEF Continued
<1>3. CASE ~store[r].claimed
  <2>1. EndsBut(r, m, NoSector)
    BY <1>0, <1>1, <1>3 DEF Continued
  <2>2. \A u : u \in OfSession(r, m)' <=> u \in OfSession(r, m) /\ u # h
    BY RecordFacts DEF OfSession
  <2>3. \A u : u \in Others(r, m, NoSector) <=> u \in OfSession(r, m)
    BY RecordFacts DEF Others, OfSession
  <2>4. \A u : u \in Others(r, m, NoSector)' <=> u \in OfSession(r, m) /\ u # h
    BY <2>2, RecordFacts DEF Others, OfSession
  <2>5. CASE OfSession(r, m) = {}
    <3>1. EndsBut(r, m, NoSector)'
      BY <2>1, <2>3, <2>4, <2>5 DEF EndsBut
    <3>2. QED
      BY <1>0, <1>1, <1>3, <3>1 DEF Continued
  <2>6. CASE OfSession(r, m) # {}
    <3>1. PICK t \in Sectors : /\ LastBut(r, m, NoSector, t)
                               /\ slots[t][Slots - 1] = [session |-> m, number |-> written[r][m]]
      BY <2>1, <2>3, <2>6 DEF EndsBut
    <3>2. t # h
      <4>1. SUFFICES ASSUME t = h PROVE FALSE
        OBVIOUS
      <4>2. h \in OfSession(r, m) /\ header[h].owner = r /\ header[h].session = m /\ Kept(header[h])
        BY <1>1, <2>3, <3>1, <4>1 DEF LastBut, OfSession, Kept
      <4>3. PICK u \in OfSession(r, m) : u # h
        BY <1>1, <4>2 DEF GoesFirst, Others
      <4>4. Before(u, h)
        BY <2>3, <3>1, <4>1, <4>3 DEF LastBut
      <4>5. Before(h, u)
        BY <1>1, <4>2, <4>3 DEF GoesFirst, OfSession, Kept
      <4>6. QED
        BY <4>3, <4>4, <4>5, FilledTypes DEF Before, OfSession
    <3>3. LastBut(r, m, NoSector, t)'
      <4>1. \A u \in Sectors \ {h} : Before(u, t)' <=> Before(u, t)
        BY <3>2 DEF Before
      <4>2. QED
        BY <2>3, <2>4, <3>1, <3>2, <4>1 DEF LastBut, OfSession
    <3>4. EndsBut(r, m, NoSector)'
      BY <3>1, <3>2, <3>3 DEF EndsBut, LastBut
    <3>5. QED
      BY <1>0, <1>1, <1>3, <3>4 DEF Continued
  <2>7. QED
    BY <1>0, <1>1, <1>3, <2>5, <2>6 DEF Continued
<1>4. QED
  BY <1>2, <1>3

\* What a store goes on from is not the other's.
LEMMA ContinuedApart ==
  ASSUME StoreInv, NEW r \in Rings, Continued(r),
         NEW h \in Sectors, \A n : OfSession(r, n)' = OfSession(r, n) /\ h \notin OfSession(r, n),
         \A t \in Sectors \ {h} : header'[t] = header[t] /\ slots'[t] = slots[t],
         store[r].claimed => store[r].sector # h,
         UNCHANGED store[r], \A n \in Sessions : written'[r][n] = written[r][n]
  PROVE  Continued(r)'
<1> DEFINE m == store[r].session
           s == store[r].sector
<1>0. SUFFICES ASSUME m # 0, ~store[r].erasing
               PROVE  Continued(r)'
  BY DEF Continued
<1>1. m \in Sessions
  BY <1>0, FilledTypes DEF Fields
<1>2. \A x : Others(r, m, x)' = Others(r, m, x) /\ h \notin Others(r, m, x)
             /\ Others(r, m, x) \subseteq Sectors
  BY DEF Others, OfSession
<1>3. \A u, t \in Sectors \ {h} : Before(u, t)' <=> Before(u, t)
  BY DEF Before
<1> HIDE DEF m, s
<1>4. \A x, t : LastBut(r, m, x, t) => LastBut(r, m, x, t)' /\ t # h
  BY <1>2, <1>3 DEF LastBut, m
<1>5. \A x : EndsBut(r, m, x) => EndsBut(r, m, x)'
  BY <1>1, <1>2, <1>4 DEF EndsBut, m
<1>6. store[r].claimed => s \in Sectors \ {h} /\ header'[s] = header[s] /\ slots'[s] = slots[s]
  BY FilledTypes DEF s
<1>7. CASE ~store[r].claimed
  BY <1>0, <1>5, <1>7 DEF Continued, m
<1>8. CASE store[r].claimed
  BY <1>0, <1>1, <1>2, <1>5, <1>6, <1>8 DEF Continued, m, s
<1>9. QED
  BY <1>7, <1>8

-----------------------------------------------------------------------------
(* A claim.                                                                *)

\* Between two operations of the part, the labels and the part agree.
LEMMA MatchedIdle ==
  ASSUME PartMatches, work = Idle
  PROVE  /\ \A s \in Sectors : Kept(label[s]) \/ Kept(header[s]) => header[s] = label[s]
         /\ \A s \in Sectors :
              label[s].owner \in Rings => header[s] = label[s] \/ slots[s] = Blank
         /\ \A q \in Rings : store[q].claimed => store[q].slot # 0
         /\ \A q \in Rings : spare[q].reserved => spare[q].erased
BY DEF PartMatches, Matched, Busy, Idle, SessionsHeld

\* What a ring is handed is the first of the one that had it.
LEMMA HandedGoesFirst ==
  ASSUME StoreInv, PartMatches, work = Idle, NEW r \in Rings, NEW h \in Sectors, Handed(r, h)
  PROVE  GoesFirst(h)
<1> SUFFICES ASSUME Kept(header[h]), NEW q, q = header[h].owner
             PROVE  /\ \A t \in Sectors \ {h} :
                         header[t].owner = q /\ Kept(header[t]) => Before(h, t)
                    /\ header[h].session = store[q].session => Others(q, store[q].session, h) # {}
  BY DEF GoesFirst
<1>0. StoreInv /\ IInv /\ TypeOK /\ NumbersOrdered /\ SpareIsNobodys /\ q \in Rings
  BY DEF StoreInv, IInv, Kept
<1>1. \A s \in Sectors : Kept(label[s]) \/ Kept(header[s]) => header[s] = label[s]
  BY MatchedIdle
<1>2. header[h] = label[h] /\ label[h].owner = q
  BY <1>1
<1>3. q # "free"
  BY <1>0 DEF Rings
<1>4. /\ Victim(r) = q /\ h # Frontier(q)
      /\ \A t \in OwnedBy(q) \ {h} : label[h].sequence < label[t].sequence
  BY <1>0, <1>2, <1>3, HandedFrom
<1>5. ASSUME NEW t \in Sectors \ {h}, header[t].owner = q, Kept(header[t])
      PROVE  Before(h, t)
  BY <1>1, <1>2, <1>4, <1>5 DEF OwnedBy, Before
<1>6. ASSUME header[h].session = store[q].session
      PROVE  Others(q, store[q].session, h) # {}
  <2> DEFINE f == Frontier(q)
  <2>1. OwnedBy(q) # {}
    BY <1>2 DEF OwnedBy
  <2>2. f \in Sectors /\ label[f].owner = q
    BY <1>0, <2>1, FrontierExists
  <2>3. label[h].sequence < label[f].sequence
    BY <1>4, <2>2 DEF OwnedBy
  <2>4. label[f].session = store[q].session
    BY <1>0, <1>2, <1>6, <2>2, <2>3 DEF StoreInv, SessionIsLast
  <2>5. Kept(label[f])
    BY <1>2, <1>6, <2>2, <2>4 DEF Kept
  <2>6. header[f] = label[f]
    BY <1>1, <2>2, <2>5
  <2>7. f \in Others(q, store[q].session, h)
    BY <1>4, <2>2, <2>4, <2>6 DEF Others, OfSession
  <2>8. QED
    BY <2>7
<1>7. QED
  BY <1>5, <1>6

\* A store that claims goes on from the sector it leaves.
LEMMA ContinuedUnclaimed ==
  ASSUME StoreInv, PartMatches, work = Idle, NEW r \in Rings, ClaimWanted(r),
         \A q \in Rings : Continued(q), ~store[r].erasing,
         store' = [store EXCEPT ![r].claimed = FALSE, ![r].spareReady = FALSE],
         UNCHANGED <<slots, header, written>>
  PROVE  \A q \in Rings : Continued(q)'
<1>1. /\ \A q \in Rings \ {r} : store'[q] = store[q]
      /\ ~store'[r].claimed
      /\ \A q \in Rings : store'[q].session = store[q].session
                          /\ store'[q].erasing = store[q].erasing
  BY Unclaimed DEF StoreInv, StoreTypeOK
<1>2. ASSUME NEW q \in Rings \ {r}
      PROVE  Continued(q)'
  BY <1>1, ContinuedSame
<1>. PICK m, L : m = store[r].session /\ L = store[r].sector
  OBVIOUS
<1>3. m # 0 => EndsBut(r, m, NoSector)
  <2>1. CASE ~store[r].claimed
    BY <2>1 DEF Continued
  <2>2. CASE store[r].claimed /\ m # 0
    <3>1. /\ m \in Sessions /\ L \in Sectors /\ Last(r, m, L)
      BY <2>2, CursorLast DEF Idle
    <3>2. store[r].slot = Slots /\ Slots # 0 /\ Slots - 1 \in Places /\ Slots - 1 < Slots
      BY <2>2, FilledTypes, PlacesFacts DEF ClaimWanted, Exhausted
    <3>3. slots[L][Slots - 1] = [session |-> m, number |-> written[r][m] - Slots + 1 + (Slots - 1)]
      BY <2>2, <3>2 DEF Continued
    <3>4. written[r][m] - Slots + 1 + (Slots - 1) = written[r][m]
      BY <3>1, FilledTypes, PlacesFacts
    <3>5. slots[L][Slots - 1] = [session |-> m, number |-> written[r][m]]
      BY <3>3, <3>4
    <3>6. LastBut(r, m, NoSector, L) /\ Others(r, m, NoSector) # {}
      BY <3>1 DEF Last, LastBut
    <3>7. QED
      BY <3>1, <3>5, <3>6 DEF EndsBut
  <2>3. QED
    BY <2>1, <2>2
<1>4. EndsBut(r, m, NoSector) => EndsBut(r, m, NoSector)'
  BY DEF EndsBut, LastBut, Others, OfSession, Before
<1>5. Continued(r)'
  BY <1>1, <1>3, <1>4 DEF Continued
<1>6. QED
  BY <1>2, <1>5

\* A session's sectors are those labelled with it, if it was not given up.
LEMMA SessionOnPart ==
  ASSUME PartMatches, work = Idle, NEW r \in Rings, NEW m, m > given[r]
  PROVE  InSession(r, m) = OfSession(r, m)
<1>1. \A s \in Sectors : Kept(label[s]) \/ Kept(header[s]) => header[s] = label[s]
  BY MatchedIdle
<1>2. QED
  BY <1>1 DEF InSession, OwnedBy, OfSession, Kept

LEMMA ClaimMatches ==
  ASSUME StoreInv, PartMatches, StoreInv', NEW r \in Rings, work = Idle,
         ~store[r].erasing, store[r].session # 0,
         NEW h \in Sectors, Claim(r, BaseSession(r), h),
         store' = [store EXCEPT ![r].claimed = FALSE, ![r].spareReady = FALSE],
         work' = [step |-> IF spare[r].erased THEN "label" ELSE "erase",
                  ring |-> r, sector |-> h, count |-> 1],
         UNCHANGED <<slots, header, named, given, written>>
  PROVE  PartMatches'
<1>. PICK m : m = store[r].session
  OBVIOUS
<1>0. StoreInv /\ IInv /\ TypeOK /\ StoreTypeOK
  BY DEF StoreInv, IInv
<1>1. m \in Sessions /\ m > given[r] /\ m = named[r] /\ BaseSession(r) = m
  <2>1. BaseSession(r) = m
    BY DEF BaseSession, StoreInv, CursorAtEnd
  <2>2. QED
    BY <2>1, SessionKept
<1>2. /\ Handed(r, h) /\ sequence' = sequence + 1 /\ sequence < MaxSequence
      /\ label' = [label EXCEPT ![h] =
           [owner |-> r, sequence |-> sequence + 1, session |-> m,
            start |-> ~OwnsSession(r, m)]]
      /\ spare' = [spare EXCEPT ![r] = NoSpare]
  BY <1>1 DEF Claim, Handed, Take
<1>3. /\ label'[h].owner = r /\ label'[h].sequence = sequence + 1 /\ label'[h].session = m
      /\ label'[h].start = ~OwnsSession(r, m)
      /\ \A t \in Sectors \ {h} : label'[t] = label[t]
  BY <1>0, <1>2 DEF TypeOK
<1>4. /\ \A q \in Rings \ {r} : store'[q] = store[q]
      /\ ~store'[r].claimed
      /\ \A q \in Rings : store'[q].session = store[q].session
                          /\ store'[q].erasing = store[q].erasing
  BY <1>0, Unclaimed DEF StoreTypeOK
<1>5. /\ \A s \in Sectors : Kept(label[s]) \/ Kept(header[s]) => header[s] = label[s]
      /\ \A s \in Sectors :
           label[s].owner \in Rings => header[s] = label[s] \/ slots[s] = Blank
      /\ \A q \in Rings : store[q].claimed => store[q].slot # 0
      /\ \A q \in Rings : spare[q].reserved => spare[q].erased
  BY MatchedIdle
<1>6. GoesFirst(h)
  BY <1>2, HandedGoesFirst
<1>7. /\ \A t \in Sectors : label[t].owner \in Rings => label[t].sequence \in 1 .. sequence
      /\ \A t \in Sectors : header[t].owner \in Rings => header[t].sequence \in 1 .. sequence
      /\ sequence \in Nat
  BY <1>0 DEF IInv, NumbersOrdered, Ordered, TypeOK
<1>8. sequence' <= MaxSequence
  BY <1>2, <1>7, MaxSequenceAssumption
<1>9. SessionsHeld'
  <2> SUFFICES ASSUME NEW q \in Rings
               PROVE  /\ store'[q].session \in {0, named[q]}
                      /\ given[q] <= named[q]
                      /\ store'[q].erasing => given[q] = named[q]
                      /\ ~store'[q].erasing /\ store'[q].session # 0 => store'[q].session > given[q]
                      /\ \A n \in Sessions : n > named[q] => written[q][n] = 0
                      /\ store'[q].claimed /\ store'[q].slot = 0 =>
                           work'.step = "write" /\ work'.ring = q
                      /\ spare'[q].reserved =>
                           spare'[q].erased \/ (work'.step = "spare" /\ work'.ring = q)
    BY DEF SessionsHeld
  <2>1. store'[q].claimed => store'[q].slot # 0
    BY <1>4, <1>5
  <2>2. spare'[q].reserved => spare'[q].erased
    BY <1>0, <1>2, <1>5 DEF TypeOK, NoSpare
  <2>3. QED
    BY <1>4, <2>1, <2>2 DEF PartMatches, SessionsHeld
<1>10. InOrder(label)'
  <2> SUFFICES ASSUME NEW s \in Sectors, NEW t \in Sectors, label'[s].owner \in Rings,
                      label'[t].owner = label'[s].owner, label'[s].sequence < label'[t].sequence
               PROVE  label'[s].session <= label'[t].session
    BY DEF InOrder
  <2>1. s # h \/ t = h
    <3>1. SUFFICES ASSUME s = h, t # h PROVE FALSE
      OBVIOUS
    <3>2. QED
      BY <1>3, <1>7, <3>1
  <2>2. CASE t = h
    <3>1. label'[s].session <= m
      BY <1>1, <1>3, <2>2, FilledTypes
    <3>2. QED
      BY <1>3, <2>2, <3>1
  <2>3. CASE s # h /\ t # h
    BY <1>3, <2>3 DEF PartMatches, InOrder
  <2>4. QED
    BY <2>1, <2>2, <2>3
<1>11. InOrder(header)'
  BY DEF PartMatches, InOrder
<1>12. Matched'
  BY <1>3, <1>5 DEF Matched, Busy, Kept
<1>13. work'.step = "label" => header'[work'.sector] = Free
  BY <1>2 DEF StoreInv, SpareBlank, Claim
<1>14. GoesFirst(work.sector)'
  <2>1. GoesFirst(h)'
    BY <1>4, <1>6 DEF GoesFirst, Kept, Before, Others, OfSession
  <2>2. QED
    BY <2>1 DEF GoesFirst
<1>15. ComesLast(work.sector)'
  <2>1. Others(r, m, h)' = Others(r, m, h)
    BY DEF Others, OfSession
  <2>2. OwnsSession(r, m) <=> OfSession(r, m) # {}
    BY <1>1, SessionOnPart DEF OwnsSession
  <2>3. h \in OfSession(r, m) => Others(r, m, h) # {}
    BY <1>1, <1>6 DEF GoesFirst, Kept, OfSession
  <2>4. OfSession(r, m) # {} <=> Others(r, m, h) # {}
    BY <2>3 DEF Others
  <2>5. label'[h].start <=> Others(r, m, h)' = {}
    BY <1>3, <2>1, <2>2, <2>4
  <2>6. \A t \in Sectors \ {h} : header'[t].owner \in Rings => header'[t].sequence < label'[h].sequence
    BY <1>3, <1>7
  <2>7. QED
    BY <1>3, <2>5, <2>6 DEF ComesLast, Others, OfSession
<1>16. QED
  BY <1>8, <1>9, <1>10, <1>11, <1>12, <1>13, <1>14, <1>15 DEF PartMatches

\* Nothing but the operation under way, or a claim given up.
LEMMA MatchesIdle ==
  ASSUME PartMatches, work = Idle, work'.step \notin {"erase", "label", "spare"},
         UNCHANGED <<label, header, slots, spare, sequence, named, given, written>>,
         \A q \in Rings : /\ store'[q].session = store[q].session
                          /\ store'[q].erasing = store[q].erasing
                          /\ store'[q].claimed =>
                               store[q].claimed /\ store'[q].slot = store[q].slot
  PROVE  PartMatches'
<1>1. /\ \A s \in Sectors : Kept(label[s]) \/ Kept(header[s]) => header[s] = label[s]
      /\ \A s \in Sectors :
           label[s].owner \in Rings => header[s] = label[s] \/ slots[s] = Blank
      /\ \A q \in Rings : store[q].claimed => store[q].slot # 0
      /\ \A q \in Rings : spare[q].reserved => spare[q].erased
  BY MatchedIdle
<1>2. Matched'
  BY <1>1 DEF Matched, Kept
<1>3. SessionsHeld'
  BY <1>1 DEF PartMatches, SessionsHeld
<1>4. InOrder(label)' /\ InOrder(header)'
  BY DEF PartMatches, InOrder
<1>5. QED
  BY <1>2, <1>3, <1>4 DEF PartMatches

LEMMA AppendFilled ==
  ASSUME FilledInv, StoreInv', NEW r \in Rings, NEW count \in Nat, AppendRun(r, count)
  PROVE  FilledInv'
<1>0. /\ StoreInv /\ PartMatches /\ PartFilled /\ \A q \in Rings : Continued(q)
      /\ work = Idle /\ ~store[r].erasing /\ store[r].session # 0
      /\ UNCHANGED <<slots, header, named, given, written>>
  BY DEF FilledInv, AppendRun
<1>1. PartFilled'
  BY <1>0, FilledSame
<1>2. CASE ClaimWanted(r) /\ ClaimSector(r)
  <2>1. store' = [store EXCEPT ![r].claimed = FALSE, ![r].spareReady = FALSE]
    BY <1>2 DEF ClaimSector
  <2>2. \A q \in Rings : Continued(q)'
    BY <1>0, <1>2, <2>1, ContinuedUnclaimed
  <2>3. CASE \E s \in Sectors :
               /\ Claim(r, BaseSession(r), s)
               /\ NoteGone(s)
               /\ work' = [step |-> IF spare[r].erased THEN "label" ELSE "erase",
                           ring |-> r, sector |-> s, count |-> 1]
    <3>1. PartMatches'
      BY <1>0, <2>1, <2>3, ClaimMatches
    <3>2. QED
      BY <1>1, <2>2, <3>1 DEF FilledInv
  <2>4. CASE UNCHANGED <<label, spare, lost, sequence, newest, claimed, work, gone>>
    <3>1. /\ \A q \in Rings \ {r} : store'[q] = store[q]
          /\ ~store'[r].claimed
          /\ \A q \in Rings : store'[q].session = store[q].session
                              /\ store'[q].erasing = store[q].erasing
      BY <1>0, <2>1, Unclaimed DEF StoreInv, StoreTypeOK
    <3>2. PartMatches'
      BY <1>0, <2>4, <3>1, MatchesIdle DEF Idle
    <3>3. QED
      BY <1>1, <2>2, <3>2 DEF FilledInv
  <2>5. QED
    BY <1>2, <2>3, <2>4 DEF ClaimSector
<1>3. CASE /\ ~ClaimWanted(r)
           /\ work' = [step |-> "write", ring |-> r, sector |-> store[r].sector, count |-> count]
           /\ UNCHANGED <<label, spare, lost, sequence, newest, claimed, store, gone>>
  <2>1. PartMatches'
    BY <1>0, <1>3, MatchesIdle
  <2>2. \A q \in Rings : Continued(q)'
    BY <1>0, <1>3, ContinuedSame
  <2>3. QED
    BY <1>1, <2>1, <2>2 DEF FilledInv
<1>4. QED
  BY <1>2, <1>3 DEF AppendRun

LEMMA StepEraseFilled ==
  ASSUME FilledInv, StoreInv', NEW r \in Rings, StepErase(r)
  PROVE  FilledInv'
<1>0. /\ StoreInv /\ PartMatches /\ PartFilled /\ \A q \in Rings : Continued(q)
      /\ work = Idle
      /\ UNCHANGED <<label, spare, sequence, slots, header, store, named, given, written>>
  BY DEF FilledInv, StepErase, historyVars, partVars
<1>1. work'.step = "clear"
  BY DEF StepErase
<1>2. PartMatches' /\ PartFilled' /\ \A q \in Rings : Continued(q)'
  BY <1>0, <1>1, FilledSame, ContinuedSame, MatchesIdle
<1>3. QED
  BY <1>2 DEF FilledInv

LEMMA TakeLostRecordsFilled ==
  ASSUME FilledInv, StoreInv', NEW r \in Rings, TakeLostRecords(r)
  PROVE  FilledInv'
<1>0. /\ StoreInv /\ PartMatches /\ PartFilled /\ \A q \in Rings : Continued(q)
      /\ work = Idle /\ work' = Idle
      /\ store' = [store EXCEPT ![r].seen = lost[r]]
      /\ UNCHANGED <<label, spare, sequence, slots, header, named, given, written>>
  BY DEF FilledInv, TakeLostRecords, partVars
<1>1. \A q \in Rings : /\ store'[q].session = store[q].session
                       /\ store'[q].sector = store[q].sector
                       /\ store'[q].erasing = store[q].erasing
                       /\ store'[q].claimed = store[q].claimed
                       /\ store'[q].slot = store[q].slot
  BY <1>0 DEF StoreInv, StoreTypeOK, Fields
<1>2. PartMatches'
  BY <1>0, <1>1, MatchesIdle DEF Idle
<1>3. PartFilled' /\ \A q \in Rings : Continued(q)'
  BY <1>0, <1>1, FilledSame, ContinuedSame
<1>4. QED
  BY <1>2, <1>3 DEF FilledInv

\* A service names a session nothing was written of.
LEMMA BeginSessionFilled ==
  ASSUME FilledInv, StoreInv', NEW r \in Rings, NEW session \in Sessions, BeginSession(r, session)
  PROVE  FilledInv'
<1>0. /\ StoreInv /\ PartMatches /\ PartFilled /\ \A q \in Rings : Continued(q)
      /\ work = Idle /\ work' = Idle /\ ~store[r].erasing /\ session > named[r]
      /\ store' = [store EXCEPT ![r].session = session, ![r].claimed = FALSE, ![r].seen = lost[r]]
      /\ named' = [named EXCEPT ![r] = session]
      /\ UNCHANGED <<label, spare, sequence, slots, header, given, written>>
  BY DEF FilledInv, BeginSession, partVars
<1>1. /\ \A q \in Rings \ {r} : store'[q] = store[q] /\ named'[q] = named[q]
      /\ store'[r].session = session /\ ~store'[r].claimed
      /\ store'[r].erasing = store[r].erasing /\ named'[r] = session
  <2> DEFINE f == [store[r] EXCEPT !.session = session, !.claimed = FALSE, !.seen = lost[r]]
  <2>1. store' = [store EXCEPT ![r] = f]
    BY <1>0
  <2>2. f.session = session /\ ~f.claimed /\ f.erasing = store[r].erasing
    BY <1>0 DEF StoreInv, StoreTypeOK, Fields
  <2> HIDE DEF f
  <2>3. QED
    BY <1>0, <2>1, <2>2 DEF StoreInv, StoreTypeOK
<1>2. /\ \A s \in Sectors : Kept(label[s]) \/ Kept(header[s]) => header[s] = label[s]
      /\ \A s \in Sectors :
           label[s].owner \in Rings => header[s] = label[s] \/ slots[s] = Blank
      /\ \A q \in Rings : store[q].claimed => store[q].slot # 0
      /\ \A q \in Rings : spare[q].reserved => spare[q].erased
  BY <1>0, MatchedIdle
<1>3. Matched'
  BY <1>0, <1>2 DEF Matched, Kept
<1>4. session \in Nat /\ named[r] \in Nat /\ given[r] \in Nat /\ session # 0
  BY Consts, <1>0, FilledTypes
<1>5. SessionsHeld'
  <2>1. given[r] <= named[r] /\ \A n \in Sessions : n > session => written[r][n] = 0
    BY <1>0, <1>4, Consts DEF PartMatches, SessionsHeld
  <2>2. given[r] < session
    BY <1>0, <1>4, <2>1
  <2>3. \A q \in Rings : store'[q].claimed => store'[q].slot # 0
    BY <1>1, <1>2
  <2> SUFFICES ASSUME NEW q \in Rings
               PROVE  /\ store'[q].session \in {0, named'[q]}
                      /\ given[q] <= named'[q]
                      /\ store'[q].erasing => given[q] = named'[q]
                      /\ ~store'[q].erasing /\ store'[q].session # 0 => store'[q].session > given[q]
                      /\ \A n \in Sessions : n > named'[q] => written[q][n] = 0
                      /\ ~(store'[q].claimed /\ store'[q].slot = 0)
                      /\ spare'[q].reserved => spare'[q].erased
    BY <1>0 DEF SessionsHeld
  <2>4. CASE q = r
    BY <1>0, <1>1, <1>2, <1>4, <2>1, <2>2, <2>3, <2>4
  <2>5. CASE q # r
    <3>1. /\ store'[q] = store[q] /\ named'[q] = named[q] /\ spare'[q] = spare[q]
      BY <1>0, <1>1, <2>5
    <3>2. /\ store[q].session \in {0, named[q]} /\ given[q] <= named[q]
          /\ store[q].erasing => given[q] = named[q]
          /\ ~store[q].erasing /\ store[q].session # 0 => store[q].session > given[q]
          /\ \A n \in Sessions : n > named[q] => written[q][n] = 0
      BY <1>0 DEF PartMatches, SessionsHeld
    <3>3. ~(store[q].claimed /\ store[q].slot = 0) /\ (spare[q].reserved => spare[q].erased)
      BY <1>2
    <3>4. QED
      BY <3>1, <3>2, <3>3
  <2>6. QED
    BY <2>4, <2>5
<1>6. InOrder(label)' /\ InOrder(header)'
  BY <1>0 DEF PartMatches, InOrder
<1>7. PartMatches'
  BY <1>0, <1>3, <1>5, <1>6 DEF PartMatches, Idle
<1>8. PartFilled'
  BY <1>0, FilledSame
<1>9. Continued(r)'
  <2>1. Others(r, session, NoSector)' = {}
    <3>1. \A s \in Sectors : header[s].owner = r => header[s].session <= named[r] /\ header[s].session \in Nat
      BY <1>0, FilledTypes
    <3>2. QED
      BY <1>0, <1>4, <3>1 DEF Others, OfSession
  <2>2. written'[r][session] = 0
    BY <1>0 DEF PartMatches, SessionsHeld
  <2>3. EndsBut(r, session, NoSector)'
    BY <2>1, <2>2 DEF EndsBut
  <2>4. QED
    BY <1>1, <2>3 DEF Continued
<1>10. \A q \in Rings \ {r} : Continued(q)'
  BY <1>0, <1>1, ContinuedSame
<1>11. QED
  BY <1>7, <1>8, <1>9, <1>10 DEF FilledInv

\* The pilot asks for the flights to be erased.
LEMMA BeginEraseFilled ==
  ASSUME FilledInv, StoreInv', NEW r \in Rings, BeginErase(r)
  PROVE  FilledInv'
<1>0. /\ StoreInv /\ PartMatches /\ PartFilled /\ \A q \in Rings : Continued(q)
      /\ work = Idle /\ work' = Idle
      /\ store' = [store EXCEPT ![r].erasing = TRUE, ![r].next = 0]
      /\ given' = [given EXCEPT ![r] = named[r]]
      /\ UNCHANGED <<label, spare, sequence, slots, header, named, written>>
  BY DEF FilledInv, BeginErase, partVars
<1>1. /\ \A q \in Rings \ {r} : store'[q] = store[q] /\ given'[q] = given[q]
      /\ given'[r] = named[r] /\ store'[r].erasing
      /\ store'[r].claimed = store[r].claimed /\ store'[r].slot = store[r].slot
      /\ store'[r].session = store[r].session
  <2> DEFINE f == [store[r] EXCEPT !.erasing = TRUE, !.next = 0]
  <2>1. store' = [store EXCEPT ![r] = f]
    BY <1>0
  <2>2. f.session = store[r].session /\ f.claimed = store[r].claimed /\ f.slot = store[r].slot /\ f.erasing
    BY <1>0 DEF StoreInv, StoreTypeOK, Fields
  <2> HIDE DEF f
  <2>3. QED
    BY <1>0, <2>1, <2>2 DEF StoreInv, StoreTypeOK
<1>2. /\ \A s \in Sectors : Kept(label[s]) \/ Kept(header[s]) => header[s] = label[s]
      /\ \A s \in Sectors :
           label[s].owner \in Rings => header[s] = label[s] \/ slots[s] = Blank
      /\ \A q \in Rings : store[q].claimed => store[q].slot # 0
      /\ \A q \in Rings : spare[q].reserved => spare[q].erased
  BY <1>0, MatchedIdle
<1>3. \A q \in Rings : /\ named[q] \in Nat /\ given[q] \in Nat /\ given'[q] \in Nat
                       /\ given[q] <= given'[q] /\ given'[q] <= named[q]
  BY <1>0, <1>1, FilledTypes DEF PartMatches, SessionsHeld
<1>4. Matched'
  <2>1. \A labelled \in Label : Kept(labelled)' => Kept(labelled)
    <3>1. Sessions \cup {0} \subseteq Nat
      BY Consts
    <3>2. \A labelled \in Label : labelled.session \in Nat
      BY <3>1 DEF Label
    <3>3. QED
      BY <1>3, <3>2 DEF Kept
  <2>2. \A s \in Sectors : header[s] \in Label /\ label[s] \in Label
    BY <1>0, FilledTypes
  <2>3. QED
    BY <1>0, <1>2, <2>1, <2>2 DEF Matched, Kept
<1>5. SessionsHeld'
  <2>1. \A q \in Rings :
          /\ store'[q].session = store[q].session
          /\ store'[q].claimed = store[q].claimed /\ store'[q].slot = store[q].slot
          /\ store'[q].erasing => store[q].erasing \/ q = r
          /\ ~store'[q].erasing => ~store[q].erasing /\ given'[q] = given[q]
          /\ q = r \/ given'[q] = given[q]
    BY <1>1
  <2>2. \A q \in Rings :
          /\ store[q].session \in {0, named[q]} /\ given[q] <= named[q]
          /\ store[q].erasing => given[q] = named[q]
          /\ ~store[q].erasing /\ store[q].session # 0 => store[q].session > given[q]
          /\ \A n \in Sessions : n > named[q] => written[q][n] = 0
    BY <1>0 DEF PartMatches, SessionsHeld
  <2>3. given'[r] = named[r] /\ named' = named /\ written' = written /\ spare' = spare
    BY <1>0, <1>1
  <2>4. \A q \in Rings : store'[q].erasing => given'[q] = named[q]
    BY <2>1, <2>2, <2>3
  <2>5. \A q \in Rings : ~store'[q].erasing /\ store'[q].session # 0 => store'[q].session > given'[q]
    BY <2>1, <2>2
  <2>6. QED
    BY <1>2, <1>3, <2>1, <2>2, <2>3, <2>4, <2>5 DEF SessionsHeld
<1>6. InOrder(label)' /\ InOrder(header)'
  BY <1>0 DEF PartMatches, InOrder
<1>7. PartMatches'
  BY <1>0, <1>4, <1>5, <1>6 DEF PartMatches, Idle
<1>8. PartFilled'
  BY <1>0, <1>3, FilledFewer
<1>9. \A q \in Rings : Continued(q)'
  <2>1. Continued(r)'
    BY <1>1 DEF Continued
  <2>2. \A q \in Rings \ {r} : Continued(q)'
    BY <1>0, <1>1, ContinuedSame
  <2>3. QED
    BY <2>1, <2>2
<1>10. QED
  BY <1>7, <1>8, <1>9 DEF FilledInv

-----------------------------------------------------------------------------
(* The operations of the part.                                             *)

\* Its first sector gone, a ring is still in order.
LEMMA OrderErased ==
  ASSUME PartMatches, NEW h \in Sectors, header'[h] = Free,
         \A t \in Sectors \ {h} : header'[t] = header[t]
  PROVE  InOrder(header)'
BY RecordFacts DEF PartMatches, InOrder

\* A header written, or one that was when the power went.
LEMMA HeaderFilled ==
  ASSUME FilledInv, work.step = "label", NEW r, r = work.ring, NEW s, s = work.sector,
         NEW m, m = store[r].session, header'[s] = label[s], \A t \in Sectors \ {s} : header'[t] = header[t],
         UNCHANGED <<slots, given, written>>
  PROVE  /\ r \in Rings /\ s \in Sectors /\ label[s].owner = r
         /\ label[s].session = m /\ m \in Sessions
         /\ PartFilled' /\ InOrder(header)'
         /\ EndsBut(r, m, s)'
         /\ header'[s].start <=> Others(r, m, s)' = {}
         /\ \A q \in Rings \ {r} : \A n : OfSession(q, n)' = OfSession(q, n) /\ s \notin OfSession(q, n)
<1>0. StoreInv /\ PartMatches /\ PartFilled /\ Continued(r) /\ r \in Rings /\ s \in Sectors
  BY DEF FilledInv, StoreInv, StoreTypeOK, Works
<1>1. /\ label[s].owner = r /\ label[s].session = m /\ ~store[r].claimed /\ ~store[r].erasing
      /\ slots[s] = Blank
  BY <1>0 DEF StoreInv, WorkHeld, AtEnd
<1>2. m \in Sessions /\ m # 0
  BY <1>0, <1>1, Consts DEF StoreInv, SessionsNamed
<1>3. header[s] = Free /\ ComesLast(s)
  BY <1>0 DEF PartMatches
<1>4. EndsBut(r, m, NoSector)
  BY <1>0, <1>1, <1>2 DEF Continued
<1>5. /\ PartFilled'
      /\ EndsBut(r, m, s)' /\ (header'[s].start <=> Others(r, m, s)' = {})
      /\ \A q \in Rings \ {r} : \A n, x : OfSession(q, n)' = OfSession(q, n)
  BY <1>0, <1>1, <1>2, <1>3, <1>4, FilledRelabelled
<1>6. \A q, n : q \in Rings => s \notin OfSession(q, n)
  BY <1>3, RecordFacts DEF OfSession
<1>7. InOrder(header)'
  <2> SUFFICES ASSUME NEW u \in Sectors, NEW t \in Sectors, header'[u].owner \in Rings,
                      header'[t].owner = header'[u].owner, header'[u].sequence < header'[t].sequence
               PROVE  header'[u].session <= header'[t].session
    BY DEF InOrder
  <2>1. CASE u = s /\ t # s
    <3>1. header[t].owner \in Rings /\ header[t].sequence < label[s].sequence
      BY <1>3, <2>1 DEF ComesLast
    <3>2. QED
      BY <1>0, <2>1, <3>1, FilledTypes
  <2>2. CASE u = s /\ t = s
    BY <1>0, <2>2, FilledTypes
  <2>3. CASE u # s /\ t = s
    <3>1. m = named[r]
      BY <1>0, <1>1, <1>2, SessionKept
    <3>2. header[u].session <= named[r]
      BY <1>0, <1>1, <2>3, FilledTypes
    <3>3. QED
      BY <1>1, <2>3, <3>1, <3>2
  <2>4. CASE u # s /\ t # s
    BY <1>0, <2>4 DEF PartMatches, InOrder
  <2>5. QED
    BY <2>1, <2>2, <2>3, <2>4
<1>8. QED
  BY <1>0, <1>1, <1>2, <1>5, <1>6, <1>7

\* What a write leaves of the store's records, in the sector it writes in.
RecordsLand(r, whole) ==
  LET L == store[r].sector
      k == store[r].slot
      m == store[r].session
  IN /\ r \in Rings /\ L \in Sectors /\ L = work.sector /\ m \in Sessions
     /\ store[r].claimed /\ ~store[r].erasing /\ store[r].owned = m
     /\ header[L].owner = r /\ header[L] = label[L] /\ k \in Nat /\ k + whole <= Slots
     /\ \A i \in Places : i < k => slots'[L][i] = slots[L][i]
     /\ \A i \in Places : i >= k /\ i < k + whole =>
          slots'[L][i] = [session |-> m, number |-> written[r][m] + (i - k + 1)]
     /\ \A t \in Sectors \ {L} : slots'[t] = slots[t]

\* Records written, or those that were when the power went.
LEMMA RecordsFilled ==
  ASSUME FilledInv, Refused = {}, work.step = "write",
         NEW whole \in Nat, whole <= work.count,
         \/ slots' = Program(work.ring, whole, FALSE)
         \/ whole < work.count /\ slots' = Program(work.ring, whole, TRUE),
         UNCHANGED <<header, given>>,
         \A q \in Rings, n \in Sessions :
           q # work.ring \/ n # store[work.ring].session => written'[q][n] = written[q][n],
         LET last == written[work.ring][store[work.ring].session]
         IN written'[work.ring][store[work.ring].session] \in {last, last + whole}
  PROVE  PartFilled' /\ RecordsLand(work.ring, whole)
<1>. PICK r, L, k, m : /\ r = work.ring /\ L = work.sector
                       /\ k = store[r].slot /\ m = store[r].session
  OBVIOUS
<1>0. StoreInv /\ PartMatches /\ PartFilled /\ r \in Rings /\ L \in Sectors
  BY DEF FilledInv, StoreInv, StoreTypeOK, Works
<1>1. store[r].claimed /\ ~store[r].erasing /\ L = store[r].sector /\ Continued(r)
  BY <1>0 DEF FilledInv, StoreInv, WorkHeld
<1>2. /\ m \in Sessions /\ m > given[r] /\ store[r].owned = m
      /\ header[L] = label[L] /\ header[L].owner = r /\ header[L].session = m
      /\ Last(r, m, L)
  BY <1>0, <1>1, CursorLast
<1>3. k \in Nat /\ written[r][m] \in Nat
  BY <1>0, <1>2, FilledTypes
<1>4. /\ k + whole <= Slots
      /\ \A i \in Places : i < k => slots'[L][i] = slots[L][i]
      /\ \A i \in Places : i >= k /\ i < k + whole =>
           slots'[L][i] = [session |-> m, number |-> written[r][m] + (i - k + 1)]
      /\ \A i \in Places : i >= k + whole => slots'[L][i] \in {Erased, Torn}
      /\ \A i \in Places : i > k + whole => slots'[L][i] = Erased
      /\ \A t \in Sectors \ {L} : slots'[t] = slots[t]
  <2>1. PICK torn \in BOOLEAN :
          (torn => whole < work.count) /\ slots' = Program(work.ring, whole, torn)
    OBVIOUS
  <2>2. /\ k + whole <= Slots
        /\ \A i \in Places : i < k => slots'[L][i] = slots[L][i]
        /\ \A i \in Places : i >= k /\ i < k + whole =>
             slots'[L][i] = [session |-> m, number |-> written[r][m] + (i - k + 1)]
        /\ \A i \in Places : i >= k + whole =>
             slots'[L][i] = (IF torn /\ i = k + whole THEN Torn ELSE Erased)
        /\ \A t \in Sectors \ {L} : slots'[t] = slots[t]
    BY <1>0, <1>1, <1>2, <2>1, ProgramIs
  <2>3. \A i \in Places : i \in Nat
    BY PlacesFacts
  <2>4. QED
    BY <1>3, <2>2, <2>3
<1>5. /\ \A q \in Rings, n \in Sessions : q # r \/ n # m => written'[q][n] = written[q][n]
      /\ written'[r][m] \in {written[r][m], written[r][m] + whole}
  OBVIOUS
<1>6. PartFilled'
  <2>1. UNCHANGED <<header, given>> /\ m = store[r].session /\ k = store[r].slot
    OBVIOUS
  <2>2. QED
    BY ONLY <1>0, <1>1, <1>2, <1>3, <1>4, <1>5, <2>1, FilledProgrammed
<1>7. RecordsLand(r, whole)
  BY <1>0, <1>1, <1>2, <1>3, <1>4 DEF RecordsLand
<1>8. QED
  BY <1>6, <1>7

LEMMA EraseClaimedFilled ==
  ASSUME FilledInv, Refused = {}, StoreInv', EraseClaimed
  PROVE  FilledInv'
<1>. PICK r, s : r = work.ring /\ s = work.sector
  OBVIOUS
<1>0. /\ StoreInv /\ PartMatches /\ PartFilled /\ \A q \in Rings : Continued(q)
      /\ r \in Rings /\ s \in Sectors /\ work.step = "erase" /\ EraseOnPart(s)
      /\ work' = [work EXCEPT !.step = "label"]
      /\ UNCHANGED <<label, spare, sequence, store, named, given, written>>
  BY DEF FilledInv, StoreInv, StoreTypeOK, Works, EraseClaimed, historyVars
<1>1. work'.step = "label" /\ work'.ring = r /\ work'.sector = s
  BY <1>0 DEF StoreInv, StoreTypeOK, Works
<1>2. /\ header'[s] = Free
      /\ \A t \in Sectors \ {s} : header'[t] = header[t] /\ slots'[t] = slots[t]
  BY <1>0, ErasedKeeps DEF StoreInv
<1>3. /\ GoesFirst(s) /\ ComesLast(s) /\ sequence <= MaxSequence /\ SessionsHeld
      /\ InOrder(label) /\ Matched
  BY <1>0 DEF PartMatches
<1>4. label[s].owner = r /\ ~store[r].claimed
  BY <1>0 DEF StoreInv, WorkHeld, AtEnd
<1>5. \A q \in Rings : store[q].claimed => store[q].sector # s /\ store[q].slot # 0
  BY <1>0, <1>3, <1>4, NotACursor DEF SessionsHeld
<1>6. PartFilled'
  BY <1>0, <1>2, <1>3, FilledRemoved DEF GoesFirst
<1>7. \A q \in Rings : Continued(q)'
  BY <1>0, <1>2, <1>3, <1>5, ContinuedRemoved
<1>8. SessionsHeld'
  BY <1>0, <1>3, <1>5 DEF SessionsHeld
<1>9. Matched' /\ InOrder(label)' /\ InOrder(header)'
  <2>1. \A t \in Sectors : ~Busy(t)' => t # s /\ ~Busy(t)
    BY <1>0, <1>1 DEF Busy
  <2>2. Matched'
    BY <1>0, <1>2, <1>3, <2>1 DEF Matched, Kept
  <2>3. QED
    BY <1>0, <1>2, <1>3, <2>2, OrderErased DEF InOrder
<1>10. ComesLast(s)'
  BY <1>0, <1>2, <1>3 DEF ComesLast, Others, OfSession
<1>11. ComesLast(work.sector)'
  BY <1>1, <1>10 DEF ComesLast
<1>12. PartMatches'
  BY <1>0, <1>1, <1>2, <1>3, <1>8, <1>9, <1>11 DEF PartMatches
<1>13. QED
  BY <1>6, <1>7, <1>12 DEF FilledInv

LEMMA WriteHeaderFilled ==
  ASSUME FilledInv, Refused = {}, StoreInv', WriteHeader
  PROVE  FilledInv'
<1>. PICK r, s, m : r = work.ring /\ s = work.sector /\ m = store[r].session
  OBVIOUS
<1>0. /\ StoreInv /\ PartMatches /\ PartFilled /\ \A q \in Rings : Continued(q)
      /\ r \in Rings /\ s \in Sectors /\ work.step = "label"
      /\ header' = [header EXCEPT ![s] = label[s]]
      /\ store' = [[store EXCEPT ![r].sector = s, ![r].slot = 0]
                     EXCEPT ![r].claimed = TRUE, ![r].owned = label[s].session]
      /\ work' = [work EXCEPT !.step = "write"]
      /\ UNCHANGED <<label, spare, sequence, slots, named, given, written>>
  BY DEF FilledInv, StoreInv, StoreTypeOK, Works, WriteHeader, historyVars
<1>1. work'.step = "write" /\ work'.ring = r
  BY <1>0 DEF StoreInv, StoreTypeOK, Works
<1>2. header'[s] = label[s] /\ \A t \in Sectors \ {s} : header'[t] = header[t]
  BY <1>0 DEF StoreInv, StoreTypeOK, TypeOK
<1>3. /\ \A q \in Rings \ {r} : store'[q] = store[q]
      /\ store'[r].session = store[r].session /\ store'[r].erasing = store[r].erasing
      /\ store'[r].claimed /\ store'[r].slot = 0 /\ store'[r].sector = s
  BY <1>0 DEF StoreInv, StoreTypeOK, Fields
<1>4. /\ label[s].owner = r
      /\ label[s].session = m /\ m \in Sessions
      /\ PartFilled' /\ InOrder(header)'
      /\ EndsBut(r, m, s)'
      /\ header'[s].start <=> Others(r, m, s)' = {}
      /\ \A q \in Rings \ {r} : \A n : OfSession(q, n)' = OfSession(q, n) /\ s \notin OfSession(q, n)
  <2>1. /\ work.step = "label" /\ UNCHANGED <<slots, given, written>> /\ FilledInv
        /\ r = work.ring /\ s = work.sector /\ m = store[r].session
    BY <1>0
  <2>2. QED
    BY <1>2, <2>1, HeaderFilled, Zenon
<1>5. SessionsHeld /\ Matched
  BY <1>0 DEF PartMatches
<1>6. \A q \in Rings : store[q].claimed => store[q].sector # s /\ store[q].slot # 0
  <2>1. ~store[r].claimed
    BY <1>0 DEF StoreInv, WorkHeld
  <2>2. QED
    BY <1>0, <1>4, <1>5, <2>1, NotACursor DEF SessionsHeld
<1>7. \A q \in Rings \ {r} : Continued(q)'
  <2>1. ASSUME NEW q \in Rings, q # r
        PROVE  Continued(q)'
    <3>1. StoreInv /\ Continued(q) /\ s \in Sectors /\ store'[q] = store[q]
      BY <1>0, <1>3, <2>1
    <3>2. \A n : OfSession(q, n)' = OfSession(q, n) /\ s \notin OfSession(q, n)
      BY <1>4, <2>1
    <3>3. /\ \A t \in Sectors \ {s} : header'[t] = header[t] /\ slots'[t] = slots[t]
          /\ \A n \in Sessions : written'[q][n] = written[q][n]
      BY <1>0, <1>2
    <3>4. QED
      BY <1>6, <3>1, <3>2, <3>3, ContinuedApart
  <2>2. QED
    BY <2>1
<1>8. Continued(r)'
  BY <1>3, <1>4 DEF Continued
<1>9. SessionsHeld'
  <2>1. \A q \in Rings : store'[q].claimed /\ store'[q].slot = 0 => work'.step = "write" /\ work'.ring = q
    BY <1>1, <1>3, <1>6
  <2>2. \A q \in Rings : /\ store'[q].session = store[q].session
                         /\ store'[q].erasing = store[q].erasing
    BY <1>3
  <2>3. \A q \in Rings : spare'[q].reserved => spare'[q].erased
    BY <1>0, <1>5 DEF SessionsHeld
  <2>4. named' = named /\ given' = given /\ written' = written
    BY <1>0
  <2>5. QED
    BY <1>5, <2>1, <2>2, <2>3, <2>4 DEF SessionsHeld
<1>10. Matched'
  <2>1. \A t \in Sectors : t # s => ~Busy(t)
    BY DEF Busy
  <2>2. label' = label /\ slots' = slots /\ given' = given
    BY <1>0
  <2>3. QED
    BY <1>2, <1>5, <2>1, <2>2 DEF Matched, Kept
<1>11. PartMatches'
  BY <1>0, <1>1, <1>4, <1>9, <1>10 DEF PartMatches, InOrder
<1>12. QED
  BY <1>4, <1>7, <1>8, <1>11 DEF FilledInv

LEMMA WriteSlotsFilled ==
  ASSUME FilledInv, Refused = {}, StoreInv', WriteSlots
  PROVE  FilledInv'
<1>. PICK r, L, k, m, count : /\ r = work.ring /\ L = work.sector /\ k = store[r].slot
                              /\ m = store[r].session /\ count = work.count
  OBVIOUS
<1>0. /\ StoreInv /\ PartMatches /\ PartFilled /\ \A q \in Rings : Continued(q)
      /\ r \in Rings /\ work.step = "write" /\ count \in Nat /\ count >= 1
      /\ slots' = Program(r, count, FALSE)
      /\ store' = [store EXCEPT ![r].slot = @ + count]
      /\ written' = [written EXCEPT ![r][store[r].owned] = @ + count]
      /\ work' = Idle
      /\ UNCHANGED <<label, spare, sequence, header, named, given>>
  BY DEF FilledInv, StoreInv, StoreTypeOK, Works, WorkHeld, WriteSlots, historyVars
<1>1. store[r].owned = m /\ m \in Sessions
  <2>1. store[r].claimed /\ ~store[r].erasing
    BY <1>0 DEF StoreInv, WorkHeld
  <2>2. QED
    BY <1>0, <2>1, CursorLast
<1>2. /\ \A q \in Rings, n \in Sessions : q # r \/ n # m => written'[q][n] = written[q][n]
      /\ written'[r][m] = written[r][m] + count
  BY <1>0, <1>1 DEF StoreInv, StoreTypeOK
<1>3. /\ PartFilled'
      /\ L \in Sectors /\ L = store[r].sector
      /\ store[r].claimed /\ ~store[r].erasing
      /\ header[L].owner = r /\ header[L] = label[L] /\ k \in Nat /\ k + count <= Slots
      /\ \A i \in Places : i < k => slots'[L][i] = slots[L][i]
      /\ \A i \in Places : i >= k /\ i < k + count =>
           slots'[L][i] = [session |-> m, number |-> written[r][m] + (i - k + 1)]
      /\ \A t \in Sectors \ {L} : slots'[t] = slots[t]
  <2>1. /\ count \in Nat /\ count <= work.count
        /\ slots' = Program(work.ring, count, FALSE)
        /\ UNCHANGED <<header, given>>
    BY <1>0
  <2>2. /\ \A q \in Rings, n \in Sessions :
             q # work.ring \/ n # store[work.ring].session => written'[q][n] = written[q][n]
        /\ LET last == written[work.ring][store[work.ring].session]
           IN written'[work.ring][store[work.ring].session] \in {last, last + count}
    BY <1>2
  <2>3. PartFilled' /\ RecordsLand(work.ring, count)
    BY <1>0, <2>1, <2>2, RecordsFilled
  <2>4. QED
    BY <2>3 DEF RecordsLand
<1>4. /\ \A q \in Rings \ {r} : store'[q] = store[q]
      /\ store'[r].session = m /\ store'[r].sector = L
      /\ store'[r].claimed /\ ~store'[r].erasing /\ store'[r].slot = k + count
  <2> DEFINE f == [store[r] EXCEPT !.slot = k + count]
  <2>1. store' = [store EXCEPT ![r] = f]
    BY <1>0
  <2>2. /\ f.session = m /\ f.sector = L /\ f.claimed = store[r].claimed
        /\ f.erasing = store[r].erasing /\ f.slot = k + count
    <3>1. store[r] \in Fields
      BY <1>0 DEF StoreInv, StoreTypeOK
    <3>2. m = store[r].session /\ L = store[r].sector
      BY <1>3
    <3>3. QED
      BY <3>1, <3>2 DEF Fields
  <2> HIDE DEF f
  <2>3. QED
    BY <1>0, <1>3, <2>1, <2>2 DEF StoreInv, StoreTypeOK
<1>5. \A q \in Rings \ {r} : Continued(q)'
  <2>1. \A q \in Rings \ {r} : \A n : OfSession(q, n)' = OfSession(q, n) /\ L \notin OfSession(q, n)
    BY <1>0, <1>3 DEF OfSession
  <2>2. \A q \in Rings \ {r} : store[q].claimed => store[q].sector # L
    BY <1>0, <1>3, NotACursor
  <2>3. header' = header
    BY <1>0
  <2>4. QED
    BY <1>0, <1>2, <1>3, <1>4, <2>1, <2>2, <2>3, ContinuedApart
<1>6. Continued(r)'
  <2>1. ASSUME NEW i \in Places, i < k + count
        PROVE  slots'[L][i] = [session |-> m, number |-> written'[r][m] - (k + count) + 1 + i]
    <3>1. i \in Nat /\ written[r][m] \in Nat
      BY <1>0, <1>1, PlacesFacts, FilledTypes
    <3>2. CASE i < k
      <4>1. slots[L][i] = [session |-> m, number |-> written[r][m] - k + 1 + i]
        BY <1>0, <1>1, <1>3, <3>1, <3>2, Consts DEF Continued
      <4>2. written[r][m] - k + 1 + i = written'[r][m] - (k + count) + 1 + i
        BY <1>0, <1>2, <1>3, <3>1
      <4>3. QED
        BY <1>3, <3>2, <4>1, <4>2
    <3>3. CASE i >= k
      <4>1. written[r][m] + (i - k + 1) = written'[r][m] - (k + count) + 1 + i
        BY <1>0, <1>2, <1>3, <3>1
      <4>2. QED
        BY <1>3, <2>1, <3>3, <4>1
    <3>4. QED
      BY <1>3, <3>1, <3>2, <3>3
  <2>2. k + count # 0
    BY <1>0, <1>3
  <2>3. QED
    BY <1>4, <2>1, <2>2 DEF Continued
<1>7. SessionsHeld'
  <2>1. \A q \in Rings : ~(store'[q].claimed /\ store'[q].slot = 0)
    BY <1>0, <1>3, <1>4 DEF PartMatches, SessionsHeld
  <2>2. \A q \in Rings : spare'[q].reserved => spare'[q].erased
    BY <1>0 DEF PartMatches, SessionsHeld
  <2>3. \A q \in Rings : /\ store'[q].session = store[q].session
                         /\ (store'[q].erasing <=> store[q].erasing)
    BY <1>3, <1>4
  <2>4. m = named[r] /\ named[r] \in Nat /\ m \in Nat
    BY <1>0, <1>1, <1>3, Consts, SessionKept, FilledTypes
  <2>5. \A q \in Rings, n \in Sessions : n > named[q] => written'[q][n] = written[q][n]
    BY <1>2, <2>4
  <2>6. SessionsHeld /\ named' = named /\ given' = given
    BY <1>0 DEF PartMatches
  <2>7. QED
    BY <2>1, <2>2, <2>3, <2>5, <2>6 DEF SessionsHeld
<1>8. Matched'
  <2>1. Matched /\ label' = label /\ header' = header /\ given' = given
    BY <1>0 DEF PartMatches
  <2>2. \A t \in Sectors : ~Busy(t)
    BY <1>0 DEF Busy
  <2>3. QED
    BY <1>3, <2>1, <2>2 DEF Matched, Kept
<1>9. PartMatches'
  BY <1>0, <1>7, <1>8 DEF PartMatches, InOrder, Idle
<1>10. QED
  BY <1>3, <1>5, <1>6, <1>9 DEF FilledInv

\* What was given up is not kept, in a label or a header.
LEMMA GivenUp ==
  ASSUME StoreInv, PartMatches, NEW r \in Rings, given[r] = named[r], NEW s \in Sectors
  PROVE  /\ label[s].owner = r => ~Kept(label[s])
         /\ header[s].owner = r => ~Kept(header[s])
<1>1. /\ label[s].owner = r => label[s].session <= named[r] /\ label[s].session \in Nat
      /\ header[s].owner = r => header[s].session <= named[r] /\ header[s].session \in Nat
      /\ named[r] \in Nat
  BY FilledTypes
<1>2. QED
  BY <1>1 DEF Kept

\* A spare is named only where there is none: one named is erased at once.
LEMMA PrepareSpareFilled ==
  ASSUME FilledInv, StoreInv', NEW r \in Rings, PrepareSpare(r)
  PROVE  FilledInv'
<1>. PICK h \in Sectors :
       /\ Prepare(r, h)
       /\ work' = [step |-> "spare", ring |-> r, sector |-> h, count |-> 0]
  BY DEF PrepareSpare
<1>0. /\ StoreInv /\ PartMatches /\ PartFilled /\ \A q \in Rings : Continued(q)
      /\ work = Idle
      /\ UNCHANGED <<slots, header, store, named, given, written>>
  BY DEF FilledInv, PrepareSpare, partVars
<1>1. /\ \A s \in Sectors : Kept(label[s]) \/ Kept(header[s]) => header[s] = label[s]
      /\ \A s \in Sectors :
           label[s].owner \in Rings => header[s] = label[s] \/ slots[s] = Blank
      /\ \A q \in Rings : store[q].claimed => store[q].slot # 0
      /\ \A q \in Rings : spare[q].reserved => spare[q].erased
  BY <1>0, MatchedIdle
<1>2. /\ spare' = [spare EXCEPT ![r] = [sector |-> h, reserved |-> TRUE, erased |-> FALSE]]
      /\ label' = [label EXCEPT ![h] = Free]
      /\ sequence' = sequence
  BY <1>1 DEF Prepare, Reserve
<1>3. /\ label'[h] = Free /\ \A t \in Sectors \ {h} : label'[t] = label[t]
      /\ \A q \in Rings \ {r} : spare'[q] = spare[q]
  BY <1>0, <1>2 DEF StoreInv, StoreTypeOK, TypeOK
<1>4. GoesFirst(h)
  <2>1. Handed(r, h)
    BY <1>0, HandedOnly DEF StoreInv
  <2>2. QED
    BY <1>0, <2>1, HandedGoesFirst
<1>5. GoesFirst(work.sector)'
  <2>1. GoesFirst(h)'
    BY <1>0, <1>4 DEF GoesFirst, Kept, Before, Others, OfSession
  <2>2. QED
    BY <2>1 DEF GoesFirst
<1>6. Matched'
  <2>1. \A t \in Sectors : ~Busy(t)' => t # h
    BY DEF Busy
  <2>2. QED
    BY <1>0, <1>1, <1>3, <2>1 DEF Matched, Kept
<1>7. InOrder(label)'
  BY <1>0, <1>3, RecordFacts DEF PartMatches, InOrder
<1>8. SessionsHeld'
  <2>1. \A q \in Rings : spare'[q].reserved => spare'[q].erased \/ (work'.step = "spare" /\ work'.ring = q)
    BY <1>1, <1>3
  <2>2. SessionsHeld
    BY <1>0 DEF PartMatches
  <2>3. QED
    BY <1>0, <1>1, <2>1, <2>2 DEF SessionsHeld
<1>9. PartMatches'
  BY <1>0, <1>2, <1>5, <1>6, <1>7, <1>8 DEF PartMatches, InOrder
<1>10. PartFilled' /\ \A q \in Rings : Continued(q)'
  BY <1>0, FilledSame, ContinuedSame
<1>11. QED
  BY <1>9, <1>10 DEF FilledInv

LEMMA EraseSpareFilled ==
  ASSUME FilledInv, Refused = {}, StoreInv', EraseSpare
  PROVE  FilledInv'
<1>. PICK r, s : r = work.ring /\ s = work.sector
  OBVIOUS
<1>0. /\ StoreInv /\ PartMatches /\ PartFilled /\ \A q \in Rings : Continued(q)
      /\ r \in Rings /\ s \in Sectors /\ work.step = "spare" /\ EraseOnPart(s)
      /\ NoteErased(r) /\ store' = [store EXCEPT ![r].spareReady = TRUE]
      /\ work' = Idle /\ UNCHANGED <<label, sequence, named, given, written>>
  BY DEF FilledInv, StoreInv, StoreTypeOK, Works, EraseSpare, NoteErased, historyVars
<1>1. spare[r].reserved /\ spare[r].sector = s
  BY <1>0 DEF StoreInv, WorkHeld
<1>2. /\ header'[s] = Free /\ slots'[s] = Blank
      /\ \A t \in Sectors \ {s} : header'[t] = header[t] /\ slots'[t] = slots[t]
  BY <1>0, ErasedKeeps DEF StoreInv
<1>3. /\ GoesFirst(s) /\ SessionsHeld /\ InOrder(label) /\ Matched
  BY <1>0 DEF PartMatches
<1>4. \A q \in Rings : store[q].claimed => store[q].sector # s /\ store[q].slot # 0
  BY <1>0, <1>1, <1>3, NotACursor DEF SessionsHeld
<1>5. label[s] = Free
  BY <1>0, <1>1 DEF StoreInv, IInv, SpareIsNobodys
<1>6. \A q \in Rings : /\ store'[q].session = store[q].session
                       /\ store'[q].sector = store[q].sector
                       /\ store'[q].erasing = store[q].erasing
                       /\ store'[q].claimed = store[q].claimed
                       /\ store'[q].slot = store[q].slot
  BY <1>0 DEF StoreInv, StoreTypeOK, Fields
<1>7. PartFilled'
  BY <1>0, <1>2, <1>3, FilledRemoved DEF GoesFirst
<1>8. \A q \in Rings : Continued(q)'
  BY <1>0, <1>2, <1>3, <1>4, <1>6, ContinuedRemoved
<1>9. \A q \in Rings : spare'[q].reserved => spare'[q].erased
  <2>1. spare' = [spare EXCEPT ![r].erased = TRUE]
    BY <1>0, <1>1 DEF NoteErased
  <2>2. ASSUME NEW q \in Rings, spare'[q].reserved
        PROVE  spare'[q].erased
    <3>1. CASE q = r
      BY <1>0, <2>1, <3>1 DEF StoreInv, StoreTypeOK, TypeOK, Spare
    <3>2. CASE q # r
      <4>1. spare'[q] = spare[q]
        BY <1>0, <2>1, <3>2 DEF StoreInv, StoreTypeOK, TypeOK
      <4>2. QED
        BY <1>0, <1>3, <2>2, <3>2, <4>1 DEF SessionsHeld
    <3>3. QED
      BY <3>1, <3>2
  <2>3. QED
    BY <2>2
<1>10. SessionsHeld'
  BY <1>0, <1>3, <1>4, <1>6, <1>9 DEF SessionsHeld
<1>11. Matched'
  <2>1. \A t \in Sectors : t # s => ~Busy(t)
    BY DEF Busy
  <2>2. QED
    BY <1>0, <1>2, <1>3, <1>5, <2>1 DEF Matched, Kept
<1>12. InOrder(label)' /\ InOrder(header)'
  BY <1>0, <1>2, <1>3, OrderErased DEF InOrder
<1>13. PartMatches'
  BY <1>0, <1>10, <1>11, <1>12 DEF PartMatches, Idle
<1>14. QED
  BY <1>7, <1>8, <1>13 DEF FilledInv

\* A pass of the erase takes only what was given up.
LEMMA EraseSteppedFilled ==
  ASSUME FilledInv, Refused = {}, StoreInv', EraseStepped
  PROVE  FilledInv'
<1>. PICK r, s : r = work.ring /\ s = work.sector
  OBVIOUS
<1>0. /\ StoreInv /\ PartMatches /\ PartFilled /\ \A q \in Rings : Continued(q)
      /\ r \in Rings /\ s \in Sectors /\ work.step = "clear" /\ EraseOnPart(s)
      /\ store' = [store EXCEPT ![r].next = s + 1]
      /\ work' = Idle /\ UNCHANGED <<label, spare, sequence, named, given, written>>
  BY DEF FilledInv, StoreInv, StoreTypeOK, Works, EraseStepped, historyVars
<1>1. store[r].erasing /\ label[s].owner \in {r, "free"}
  BY <1>0 DEF StoreInv, WorkHeld, Erasable
<1>2. /\ header'[s] = Free /\ slots'[s] = Blank
      /\ \A t \in Sectors \ {s} : header'[t] = header[t] /\ slots'[t] = slots[t]
  BY <1>0, ErasedKeeps DEF StoreInv
<1>3. SessionsHeld /\ InOrder(label) /\ Matched
  BY <1>0 DEF PartMatches
<1>4. ~Kept(label[s]) /\ ~Kept(header[s])
  <2>1. given[r] = named[r]
    BY <1>0, <1>1, <1>3 DEF SessionsHeld
  <2>2. ~Kept(label[s])
    BY <1>0, <1>1, <2>1, GivenUp DEF Kept, Rings
  <2>3. Kept(header[s]) => header[s] = label[s]
    BY <1>0, <1>3 DEF Matched, Busy
  <2>4. QED
    BY <2>2, <2>3 DEF Kept
<1>5. GoesFirst(s)
  BY <1>4 DEF GoesFirst
<1>6. \A q \in Rings : /\ store'[q].session = store[q].session
                       /\ store'[q].sector = store[q].sector
                       /\ store'[q].erasing = store[q].erasing
                       /\ store'[q].claimed = store[q].claimed
                       /\ store'[q].slot = store[q].slot
  BY <1>0 DEF StoreInv, StoreTypeOK, Fields
<1>7. PartFilled'
  BY <1>0, <1>2, <1>5, FilledRemoved DEF GoesFirst
<1>8. \A q \in Rings : store[q].claimed => store[q].slot # 0
  BY <1>0, <1>3 DEF SessionsHeld
<1>9. Continued(r)'
  <2>1. store'[r].erasing
    BY <1>0, <1>1, <1>6
  <2>2. QED
    BY <2>1 DEF Continued
<1>10. \A q \in Rings \ {r} : Continued(q)'
  <2>1. \A q \in Rings \ {r} : store[q].claimed => store[q].sector # s
    BY <1>0, <1>1, NotACursor DEF Rings
  <2>2. QED
    BY <1>0, <1>2, <1>5, <1>6, <1>8, <2>1, ContinuedRemoved
<1>11. SessionsHeld'
  BY <1>0, <1>3, <1>6, <1>8 DEF SessionsHeld
<1>12. Matched'
  <2>1. \A t \in Sectors : ~Busy(t)
    BY <1>0 DEF Busy
  <2>2. \A t \in Sectors \ {s} :
          /\ Kept(label[t])' \/ Kept(header[t])' => header'[t] = label'[t]
          /\ label'[t].owner \in Rings => header'[t] = label'[t] \/ slots'[t] = Blank
    BY <1>0, <1>2, <1>3, <2>1 DEF Matched, Kept
  <2>3. ~Kept(label[s])' /\ ~Kept(header[s])'
    BY <1>0, <1>2, <1>4, RecordFacts DEF Kept
  <2>4. QED
    BY <1>2, <2>2, <2>3 DEF Matched
<1>13. InOrder(label)' /\ InOrder(header)'
  BY <1>0, <1>2, <1>3, OrderErased DEF InOrder
<1>14. PartMatches'
  BY <1>0, <1>11, <1>12, <1>13 DEF PartMatches, Idle
<1>15. QED
  BY <1>7, <1>9, <1>10, <1>14 DEF FilledInv

LEMMA FinishEraseFilled ==
  ASSUME FilledInv, StoreInv', NEW r \in Rings, FinishErase(r)
  PROVE  FilledInv'
<1>0. /\ StoreInv /\ PartMatches /\ PartFilled /\ \A q \in Rings : Continued(q)
      /\ work = Idle /\ work' = Idle /\ store[r].erasing
      /\ label' = [s \in Sectors |-> IF label[s].owner = r THEN Free ELSE label[s]]
      /\ spare' = [spare EXCEPT ![r] = NoSpare]
      /\ store' = [store EXCEPT ![r] = [Closed EXCEPT !.owned = store[r].owned,
                                                      !.seen = store[r].seen,
                                                      !.next = SectorCount]]
      /\ UNCHANGED <<sequence, slots, header, named, given, written>>
  BY DEF FilledInv, FinishErase, Release, partVars
<1>1. /\ \A q \in Rings \ {r} : store'[q] = store[q] /\ spare'[q] = spare[q]
      /\ store'[r].session = 0 /\ ~store'[r].claimed /\ ~store'[r].erasing
      /\ ~spare'[r].reserved
  BY <1>0 DEF StoreInv, StoreTypeOK, TypeOK, Closed, NoSpare
<1>2. /\ \A s \in Sectors : Kept(label[s]) \/ Kept(header[s]) => header[s] = label[s]
      /\ \A s \in Sectors :
           label[s].owner \in Rings => header[s] = label[s] \/ slots[s] = Blank
      /\ \A q \in Rings : store[q].claimed => store[q].slot # 0
      /\ \A q \in Rings : spare[q].reserved => spare[q].erased
  BY <1>0, MatchedIdle
<1>3. SessionsHeld
  BY <1>0 DEF PartMatches
<1>4. \A s \in Sectors : label[s].owner = r => ~Kept(label[s]) /\ ~Kept(header[s])
  <2>1. given[r] = named[r]
    BY <1>0, <1>3 DEF SessionsHeld
  <2>2. \A s \in Sectors : label[s].owner = r => ~Kept(label[s])
    BY <1>0, <2>1, GivenUp
  <2>3. QED
    BY <1>2, <2>2
<1>5. \A s \in Sectors : label'[s] = Free \/ (label'[s] = label[s] /\ label[s].owner # r)
  BY <1>0
<1>6. Matched'
  <2>1. ASSUME NEW s \in Sectors
        PROVE  /\ Kept(label[s])' \/ Kept(header[s])' => header'[s] = label'[s]
               /\ label'[s].owner \in Rings => header'[s] = label'[s] \/ slots'[s] = Blank
    <3>1. CASE label[s].owner = r
      <4>1. label'[s] = Free
        BY <1>0, <3>1
      <4>2. ~Kept(label[s])' /\ ~Kept(header[s])'
        BY <1>0, <1>4, <3>1, <4>1, RecordFacts DEF Kept
      <4>3. QED
        BY <4>1, <4>2, RecordFacts
    <3>2. CASE label[s].owner # r
      <4>1. label'[s] = label[s]
        BY <1>0, <3>2
      <4>2. QED
        BY <1>0, <1>2, <4>1 DEF Kept
    <3>3. QED
      BY <3>1, <3>2
  <2>2. QED
    BY <2>1 DEF Matched
<1>7. InOrder(label)'
  <2>1. InOrder(label)
    BY <1>0 DEF PartMatches
  <2>2. QED
    BY <1>5, <2>1, RecordFacts DEF InOrder
<1>8. SessionsHeld'
  <2>1. named' = named /\ given' = given /\ written' = written
    BY <1>0
  <2>2. \A q \in Rings : ~(store'[q].claimed /\ store'[q].slot = 0)
    BY <1>1, <1>2
  <2>3. \A q \in Rings : spare'[q].reserved => spare'[q].erased
    BY <1>1, <1>2
  <2>4. \A q \in Rings :
          /\ store'[q].session \in {0, named'[q]}
          /\ store'[q].erasing => given'[q] = named'[q]
          /\ ~store'[q].erasing /\ store'[q].session # 0 => store'[q].session > given'[q]
    BY <1>1, <1>3, <2>1 DEF SessionsHeld
  <2>5. QED
    BY <1>3, <2>1, <2>2, <2>3, <2>4 DEF SessionsHeld
<1>9. PartMatches'
  BY <1>0, <1>6, <1>7, <1>8 DEF PartMatches, InOrder, Idle
<1>10. PartFilled'
  BY <1>0, FilledSame
<1>11. Continued(r)' /\ \A q \in Rings \ {r} : Continued(q)'
  BY <1>0, <1>1, ContinuedSame DEF Continued
<1>12. QED
  BY <1>9, <1>10, <1>11 DEF FilledInv

-----------------------------------------------------------------------------
(* A power cut, the first state, and every step.                           *)

\* The number the next boot resumes from is not above the last one given.
LEMMA SequenceResumed ==
  ASSUME NEW found \in [Sectors -> Label], NEW bound \in Nat,
         \A s \in Sectors : found[s].owner \in Rings => found[s].sequence <= bound
  PROVE  SequenceOf(found) <= bound
<1>1. CASE Noted(found) = {}
  BY <1>1 DEF SequenceOf
<1>2. CASE Noted(found) # {}
  <2>1. NewestOf(found) \in Noted(found)
    BY <1>2, NewestExists
  <2>2. QED
    BY <1>2, <2>1 DEF SequenceOf, Noted
<1>3. QED
  BY <1>1, <1>2

\* What a cut leaves is as well filled as what was there, and in order.
LEMMA CutFilled ==
  ASSUME FilledInv, Refused = {}, PowerCut
  PROVE  PartFilled' /\ InOrder(header)'
<1>. PICK s : s = work.sector
  OBVIOUS
<1>0. /\ StoreInv /\ PartMatches /\ PartFilled /\ s \in Sectors
      /\ CutErase \/ CutHeader \/ CutWrite \/ UNCHANGED partVars
      /\ UNCHANGED <<named, given, written>>
  BY DEF FilledInv, StoreInv, StoreTypeOK, Works, PowerCut
<1>1. CASE CutErase
  <2>1. /\ header'[s] = Free
        /\ \A t \in Sectors \ {s} : header'[t] = header[t] /\ slots'[t] = slots[t]
    BY <1>0, <1>1 DEF CutErase, StoreInv, StoreTypeOK, TypeOK
  <2>2. GoesFirst(s)
    <3>1. CASE work.step \in {"erase", "spare"}
      BY <1>0, <3>1 DEF PartMatches
    <3>2. CASE work.step = "clear"
      <4>1. store[work.ring].erasing /\ label[s].owner \in {work.ring, "free"} /\ work.ring \in Rings
        BY <1>0, <3>2 DEF StoreInv, StoreTypeOK, Works, WorkHeld, Erasable
      <4>2. given[work.ring] = named[work.ring]
        BY <1>0, <4>1 DEF PartMatches, SessionsHeld
      <4>3. ~Kept(label[s])
        BY <1>0, <4>1, <4>2, GivenUp DEF Kept, Rings
      <4>4. Kept(header[s]) => header[s] = label[s]
        BY <1>0, <3>2 DEF PartMatches, Matched, Busy
      <4>5. QED
        BY <4>3, <4>4 DEF GoesFirst, Kept
    <3>3. QED
      BY <1>1, <3>1, <3>2 DEF CutErase
  <2>3. PartFilled'
    BY <1>0, <2>1, <2>2, FilledRemoved DEF GoesFirst
  <2>4. QED
    BY <1>0, <2>1, <2>3, OrderErased
<1>2. CASE CutHeader
  <2>. PICK r, m : r = work.ring /\ m = store[r].session
    OBVIOUS
  <2>1. /\ header'[s] = label[s] /\ \A t \in Sectors \ {s} : header'[t] = header[t]
        /\ work.step = "label"
    BY <1>0, <1>2 DEF CutHeader, StoreInv, StoreTypeOK, TypeOK
  <2>2. UNCHANGED <<slots, given, written>>
    BY <1>0, <1>2 DEF CutHeader
  <2>3. PartFilled' /\ InOrder(header)'
    BY <2>1, <2>2, HeaderFilled
  <2>4. QED
    BY <2>3
<1>3. CASE CutWrite
  <2>1. PICK whole \in 0 .. work.count, torn \in BOOLEAN :
          (whole = work.count => ~torn) /\ slots' = Program(work.ring, whole, torn)
    BY <1>3 DEF CutWrite
  <2>2. /\ whole \in Nat /\ whole <= work.count
        /\ \/ slots' = Program(work.ring, whole, FALSE)
           \/ whole < work.count /\ slots' = Program(work.ring, whole, TRUE)
    <3>1. work.count \in Nat
      BY <1>0 DEF StoreInv, StoreTypeOK, Works
    <3>2. CASE torn
      <4>1. torn = TRUE
        BY <3>2
      <4>2. slots' = Program(work.ring, whole, TRUE)
        BY <2>1, <4>1
      <4>3. whole \in Nat /\ whole <= work.count /\ whole # work.count
        BY <2>1, <3>1, <3>2
      <4>4. whole < work.count
        BY <3>1, <4>3
      <4>5. QED
        BY <4>2, <4>3, <4>4
    <3>3. CASE ~torn
      <4>1. torn = FALSE
        BY <2>1, <3>3
      <4>2. slots' = Program(work.ring, whole, FALSE)
        BY <2>1, <4>1
      <4>3. whole \in Nat /\ whole <= work.count
        BY <2>1, <3>1
      <4>4. QED
        BY <4>2, <4>3
    <3>4. QED
      BY <3>2, <3>3
  <2>3. work.step = "write" /\ header' = header /\ UNCHANGED <<header, given>> /\ written' = written
    BY <1>0, <1>3 DEF CutWrite
  <2>4. /\ \A q \in Rings, n \in Sessions :
             q # work.ring \/ n # store[work.ring].session => written'[q][n] = written[q][n]
        /\ LET last == written[work.ring][store[work.ring].session]
           IN written'[work.ring][store[work.ring].session] \in {last, last + whole}
    BY <2>3
  <2>5. PartFilled' /\ RecordsLand(work.ring, whole)
    BY <2>2, <2>3, <2>4, RecordsFilled
  <2>6. InOrder(header)'
    BY <1>0, <2>3 DEF PartMatches, InOrder
  <2>7. QED
    BY <2>5, <2>6
<1>4. CASE UNCHANGED partVars
  BY <1>0, <1>4, FilledSame DEF partVars, PartMatches, InOrder
<1>5. QED
  BY <1>0, <1>1, <1>2, <1>3, <1>4

LEMMA PowerCutFilled ==
  ASSUME FilledInv, Refused = {}, StoreInv', PowerCut
  PROVE  FilledInv'
<1>0. /\ StoreInv /\ PartMatches
      /\ UNCHANGED <<named, given, written>> /\ work' = Idle
      /\ store' = [r \in Rings |-> Recovered(r, header')]
      /\ label' = header' /\ sequence' = SequenceOf(header')
      /\ spare' = [r \in Rings |-> NoSpare]
  BY DEF FilledInv, PowerCut, Boot
<1>1. PartFilled' /\ InOrder(header)'
  BY CutFilled
<1>2. /\ header' \in [Sectors -> Label]
      /\ \A t \in Sectors : header'[t].owner \in Rings =>
           header'[t] = header[t] \/ header'[t] = label[t]
  BY <1>0, CutKeeps DEF PowerCut
<1>3. \A q \in Rings : ~store'[q].claimed /\ store'[q].session = 0 /\ ~store'[q].erasing
  <2>1. \A q \in Rings : ~Recovered(q, header').claimed /\ Recovered(q, header').session = 0
    BY <1>2, RecoveredType
  <2>2. \A q \in Rings : ~Recovered(q, header').erasing
    BY DEF Recovered, Closed
  <2>3. QED
    BY <1>0, <2>1, <2>2
<1>4. sequence' <= MaxSequence
  <2>1. sequence \in Nat /\ sequence <= MaxSequence
    BY <1>0 DEF StoreInv, IInv, TypeOK, PartMatches
  <2>2. \A s \in Sectors : header'[s].owner \in Rings => header'[s].sequence <= sequence
    BY <1>0, <1>2, <2>1 DEF StoreInv, IInv, NumbersOrdered, Ordered
  <2>3. SequenceOf(header') <= sequence
    BY <1>2, <2>1, <2>2, SequenceResumed
  <2>4. SequenceOf(header') \in Nat
    BY <1>2, NewestExists
  <2>5. QED
    BY <1>0, <2>1, <2>3, <2>4, MaxSequenceAssumption
<1>5. SessionsHeld'
  <2>1. \A q \in Rings : ~spare'[q].reserved
    BY <1>0 DEF NoSpare
  <2>2. \A q \in Rings : /\ given[q] <= named[q]
                         /\ \A m \in Sessions : m > named[q] => written[q][m] = 0
    BY <1>0 DEF PartMatches, SessionsHeld
  <2>3. QED
    BY <1>0, <1>3, <2>1, <2>2 DEF SessionsHeld
<1>6. InOrder(label)' /\ Matched'
  BY <1>0, <1>1 DEF InOrder, Matched
<1>7. PartMatches'
  BY <1>0, <1>1, <1>4, <1>5, <1>6 DEF PartMatches, Idle
<1>8. \A q \in Rings : Continued(q)'
  BY <1>3 DEF Continued
<1>9. QED
  BY <1>1, <1>7, <1>8 DEF FilledInv

LEMMA FilledInit == StoreInit => FilledInv
<1> SUFFICES ASSUME StoreInit PROVE FilledInv
  OBVIOUS
<1>0. StoreInv
  BY StoreInitInv
<1>1. /\ store = [r \in Rings |-> Closed] /\ work = Idle
      /\ slots = [s \in Sectors |-> Blank]
      /\ named = [r \in Rings |-> 0] /\ given = [r \in Rings |-> 0]
      /\ written = [r \in Rings |-> [session \in Sessions |-> 0]]
      /\ label = [s \in Sectors |-> Free] /\ header = [s \in Sectors |-> Free]
      /\ spare = [r \in Rings |-> NoSpare] /\ sequence = 0
  BY DEF StoreInit, Init
<1>2. \A s \in Sectors : label[s].owner \notin Rings /\ header[s].owner \notin Rings
  BY <1>1, RecordFacts
<1>3. \A r \in Rings : store[r].session = 0 /\ ~store[r].claimed /\ ~store[r].erasing
                       /\ ~spare[r].reserved
  BY <1>1 DEF Closed, NoSpare
<1>4. SessionsHeld
  BY <1>1, <1>3 DEF SessionsHeld
<1>5. Matched /\ InOrder(label) /\ InOrder(header)
  BY <1>2 DEF Matched, Kept, InOrder
<1>6. PartMatches
  BY <1>1, <1>4, <1>5, MaxSequenceAssumption DEF PartMatches, Idle
<1>7. PartFilled
  BY <1>2 DEF PartFilled, Kept, Recorded, Last, LastBut, Others, OfSession
<1>8. \A r \in Rings : Continued(r)
  BY <1>3 DEF Continued
<1>9. QED
  BY <1>0, <1>6, <1>7, <1>8 DEF FilledInv

LEMMA FilledStep ==
  ASSUME Refused = {}, "room" \notin Requests
  PROVE  FilledInv /\ [StoreNext]_storeVars => FilledInv'
<1> SUFFICES ASSUME FilledInv, [StoreNext]_storeVars PROVE FilledInv'
  OBVIOUS
<1>0. StoreInv' /\ Stores \subseteq Rings
  BY StoreStep, StoresAssumption DEF FilledInv
<1>1. ASSUME NEW r \in Stores, NEW count \in 1 .. Slots, AppendRun(r, count)
      PROVE  FilledInv'
  <2>1. count \in Nat
    BY Consts
  <2>2. QED
    BY <1>0, <1>1, <2>1, AppendFilled
<1>2. ASSUME NEW r \in Stores, NEW session \in Sessions, BeginSession(r, session)
      PROVE  FilledInv'
  BY <1>0, <1>2, BeginSessionFilled
<1>3. ASSUME NEW r \in Stores, TakeLostRecords(r)
      PROVE  FilledInv'
  BY <1>0, <1>3, TakeLostRecordsFilled
<1>4. ASSUME NEW r \in Stores, PrepareSpare(r)
      PROVE  FilledInv'
  BY <1>0, <1>4, PrepareSpareFilled
<1>5. ASSUME NEW r \in Stores, RoomBeyondThisSector(r)
      PROVE  FilledInv'
  BY <1>5 DEF RoomBeyondThisSector
<1>6. ASSUME NEW r \in Stores, BeginErase(r)
      PROVE  FilledInv'
  BY <1>0, <1>6, BeginEraseFilled
<1>7. ASSUME NEW r \in Stores, StepErase(r)
      PROVE  FilledInv'
  BY <1>0, <1>7, StepEraseFilled
<1>8. ASSUME NEW r \in Stores, FinishErase(r)
      PROVE  FilledInv'
  BY <1>0, <1>8, FinishEraseFilled
<1>9. CASE PartWorks
  BY <1>0, <1>9, EraseClaimedFilled, WriteHeaderFilled, WriteSlotsFilled, EraseSpareFilled,
     EraseSteppedFilled DEF PartWorks
<1>10. CASE PowerCut
  BY <1>0, <1>10, PowerCutFilled
<1>11. CASE UNCHANGED storeVars
  <2>1. /\ PartMatches /\ PartFilled /\ \A r \in Rings : Continued(r)
        /\ UNCHANGED <<slots, header, store, written, label, spare, sequence, work, named, given>>
    BY <1>11 DEF FilledInv, storeVars
  <2>2. PartFilled' /\ \A r \in Rings : Continued(r)'
    BY <2>1, FilledSame, ContinuedSame
  <2>3. SessionsHeld' /\ Matched' /\ InOrder(label)' /\ InOrder(header)'
    BY <2>1 DEF PartMatches, SessionsHeld, Matched, Busy, Kept, InOrder
  <2>4. /\ work.step \in {"erase", "spare"} => GoesFirst(work.sector)'
        /\ work.step \in {"erase", "label"} => ComesLast(work.sector)'
    BY <2>1 DEF PartMatches, GoesFirst, ComesLast, Kept, Before, Others, OfSession
  <2>5. PartMatches'
    BY <2>1, <2>3, <2>4 DEF PartMatches
  <2>6. QED
    BY <1>0, <2>2, <2>5 DEF FilledInv
<1>12. QED
  BY <1>1, <1>2, <1>3, <1>4, <1>5, <1>6, <1>7, <1>8, <1>9, <1>10, <1>11 DEF StoreNext

-----------------------------------------------------------------------------
(* What a read of a session walks: its sectors in order, and the end of    *)
(* its last one.                                                           *)

\* The sector a reader is handed at each index.
Nth(r, m, i) == SessionSector(r, m, i)
Under(r, m, s) == {t \in InSession(r, m) : label[t].sequence < label[s].sequence}

LEMMA NthIs ==
  ASSUME IInv, NEW r \in Rings, NEW m \in Sessions,
         NEW i \in 0 .. Cardinality(InSession(r, m)) - 1
  PROVE  /\ Nth(r, m, i) \in InSession(r, m)
         /\ Cardinality(Under(r, m, Nth(r, m, i))) = i
BY IndexFinds DEF SectorByIndex, Nth, Under

LEMMA SessionCounted ==
  ASSUME TypeOK, NEW r \in Rings, NEW m
  PROVE  /\ InSession(r, m) \in SUBSET Sectors /\ IsFiniteSet(InSession(r, m))
         /\ Cardinality(InSession(r, m)) \in Nat
         /\ InSession(r, m) # {} => Cardinality(InSession(r, m)) >= 1
         /\ \A s \in InSession(r, m) : label[s].sequence \in Nat
         /\ \A T \in SUBSET InSession(r, m) :
              IsFiniteSet(T) /\ Cardinality(T) \in Nat /\ Cardinality(T) <= Cardinality(InSession(r, m))
<1>1. InSession(r, m) \in SUBSET Sectors /\ IsFiniteSet(InSession(r, m))
  BY SectorsFinite DEF InSession, OwnedBy
<1>2. Cardinality(InSession(r, m)) \in Nat
  BY <1>1, FS_CardinalityType
<1>3. InSession(r, m) # {} => Cardinality(InSession(r, m)) # 0
  BY <1>1, FS_EmptySet
<1>4. \A s \in InSession(r, m) : label[s].sequence \in Nat
  BY <1>1 DEF TypeOK, Label
<1>5. \A T \in SUBSET InSession(r, m) :
        IsFiniteSet(T) /\ Cardinality(T) \in Nat /\ Cardinality(T) <= Cardinality(InSession(r, m))
  BY <1>1, FS_Subset, FS_CardinalityType
<1>6. QED
  BY <1>1, <1>2, <1>3, <1>4, <1>5

\* A set with one more element, and with two.
LEMMA OneMore ==
  ASSUME NEW T, NEW U, IsFiniteSet(T), NEW s, s \notin T, U = T \cup {s}
  PROVE  IsFiniteSet(U) /\ Cardinality(U) = Cardinality(T) + 1
BY FS_AddElement

LEMMA TwoMore ==
  ASSUME NEW T, NEW S, IsFiniteSet(S), T \in SUBSET S, NEW s \in S, NEW t \in S,
         s \notin T, t \notin T, s # t
  PROVE  Cardinality(S) >= Cardinality(T) + 2
<1> DEFINE U == T \cup {s}
           V == U \cup {t}
<1>1. IsFiniteSet(T)
  BY FS_Subset
<1>2. IsFiniteSet(U) /\ Cardinality(U) = Cardinality(T) + 1
  BY <1>1, OneMore
<1>3. IsFiniteSet(V) /\ Cardinality(V) = Cardinality(U) + 1
  BY <1>2, OneMore
<1>4. V \in SUBSET S
  OBVIOUS
<1> HIDE DEF U, V
<1>5. Cardinality(V) <= Cardinality(S) /\ Cardinality(S) \in Nat /\ Cardinality(T) \in Nat
  BY <1>1, <1>4, FS_Subset, FS_CardinalityType
<1>6. QED
  BY <1>2, <1>3, <1>5

\* The sectors go up with the index, with none between two in a row, none
\* under the first and none above the last.
LEMMA NthInARow ==
  ASSUME IInv, NEW r \in Rings, NEW m \in Sessions, NEW N, N = Cardinality(InSession(r, m))
  PROVE  /\ N >= 1 => \A u \in InSession(r, m) : label[Nth(r, m, 0)].sequence <= label[u].sequence
         /\ N >= 1 => \A u \in InSession(r, m) : label[u].sequence <= label[Nth(r, m, N - 1)].sequence
         /\ \A i \in 0 .. N - 2 :
              /\ label[Nth(r, m, i)].sequence < label[Nth(r, m, i + 1)].sequence
              /\ \A u \in InSession(r, m) :
                   ~ ( /\ label[Nth(r, m, i)].sequence < label[u].sequence
                       /\ label[u].sequence < label[Nth(r, m, i + 1)].sequence )
<1> DEFINE S == InSession(r, m)
<1>0. /\ S \in SUBSET Sectors /\ IsFiniteSet(S) /\ N \in Nat
      /\ \A s \in S : label[s].sequence \in Nat
      /\ \A T \in SUBSET S : IsFiniteSet(T) /\ Cardinality(T) \in Nat
  BY SessionCounted DEF IInv
<1>1. ASSUME NEW i \in 0 .. N - 1
      PROVE  /\ Nth(r, m, i) \in S /\ label[Nth(r, m, i)].sequence \in Nat
             /\ Cardinality(Under(r, m, Nth(r, m, i))) = i
             /\ Under(r, m, Nth(r, m, i)) \in SUBSET S
             /\ Nth(r, m, i) \notin Under(r, m, Nth(r, m, i))
  BY <1>0, NthIs DEF Under
<1>2. ASSUME N >= 1, NEW u \in S
      PROVE  label[Nth(r, m, 0)].sequence <= label[u].sequence
  <2>1. 0 \in 0 .. N - 1
    BY <1>0, <1>2
  <2>2. Under(r, m, Nth(r, m, 0)) = {}
    BY <1>0, <1>1, <2>1, FS_EmptySet
  <2>3. u \notin Under(r, m, Nth(r, m, 0))
    BY <2>2
  <2>4. ~ (label[u].sequence < label[Nth(r, m, 0)].sequence)
    BY <2>3 DEF Under
  <2>5. label[Nth(r, m, 0)].sequence \in Nat /\ label[u].sequence \in Nat
    BY <1>0, <1>1, <2>1
  <2>6. QED
    BY <2>4, <2>5
<1>3. ASSUME N >= 1, NEW u \in S
      PROVE  label[u].sequence <= label[Nth(r, m, N - 1)].sequence
  <2>1. N - 1 \in 0 .. N - 1
    BY <1>0, <1>3
  <2> DEFINE z == Nth(r, m, N - 1)
             T == Under(r, m, z)
  <2>2. z \in S /\ Cardinality(T) = N - 1 /\ T \in SUBSET S /\ z \notin T
        /\ label[z].sequence \in Nat
    BY <1>1, <2>1
  <2>3. SUFFICES ASSUME label[z].sequence < label[u].sequence PROVE FALSE
    BY <1>0, <2>2
  <2>4. u \notin T /\ u # z
    BY <1>0, <2>2, <2>3 DEF Under
  <2> HIDE DEF z, T, S
  <2>5. Cardinality(S) >= Cardinality(T) + 2
    BY <1>0, <2>2, <2>4, TwoMore
  <2>6. QED
    BY <1>0, <2>2, <2>5 DEF S
<1>4. ASSUME NEW i \in 0 .. N - 2
      PROVE  /\ label[Nth(r, m, i)].sequence < label[Nth(r, m, i + 1)].sequence
             /\ \A u \in S :
                  ~ ( /\ label[Nth(r, m, i)].sequence < label[u].sequence
                      /\ label[u].sequence < label[Nth(r, m, i + 1)].sequence )
  <2> DEFINE y == Nth(r, m, i)
             z == Nth(r, m, i + 1)
             T == Under(r, m, y)
             U == Under(r, m, z)
  <2>0. i \in Nat /\ i \in 0 .. N - 1 /\ i + 1 \in 0 .. N - 1
    BY <1>0
  <2>1. /\ y \in S /\ Cardinality(T) = i /\ T \in SUBSET S /\ y \notin T
        /\ label[y].sequence \in Nat
    BY <1>1, <2>0
  <2>2. /\ z \in S /\ Cardinality(U) = i + 1 /\ U \in SUBSET S /\ z \notin U
        /\ label[z].sequence \in Nat
    BY <1>1, <2>0
  <2>3. IsFiniteSet(T) /\ IsFiniteSet(U)
    BY <1>0, <2>1, <2>2
  <2>4. label[y].sequence < label[z].sequence
    <3>1. SUFFICES ASSUME ~ (label[y].sequence < label[z].sequence) PROVE FALSE
      OBVIOUS
    <3>2. \A u \in U : u \in T
      BY <1>0, <2>1, <2>2, <3>1 DEF Under
    <3> HIDE DEF y, z, T, U
    <3>3. Cardinality(U) <= Cardinality(T)
      BY <2>3, <3>2, FS_Subset
    <3>4. QED
      BY <2>0, <2>1, <2>2, <3>3
  <2>5. ASSUME NEW u \in S, label[y].sequence < label[u].sequence,
               label[u].sequence < label[z].sequence
        PROVE  FALSE
    <3>1. y \in U /\ u \in U
      BY <2>1, <2>4, <2>5 DEF Under
    <3>2. T \in SUBSET U
      BY <1>0, <2>1, <2>2, <2>4 DEF Under
    <3>3. u \notin T /\ u # y
      BY <1>0, <2>1, <2>5 DEF Under
    <3> HIDE DEF y, z, T, U
    <3>4. Cardinality(U) >= Cardinality(T) + 2
      BY <2>1, <2>3, <3>1, <3>2, <3>3, TwoMore
    <3>5. QED
      BY <2>0, <2>1, <2>2, <3>4
  <2>6. QED
    BY <2>4, <2>5
<1>5. QED
  BY <1>2, <1>3, <1>4

\* frontier_slot() stops at the first erased slot of a sector whose erased
\* slots all come last.
LEMMA FrontierFound ==
  ASSUME NEW s,
         \A i, j \in Places : i < j /\ slots[s][i] = Erased => slots[s][j] = Erased
  PROVE  /\ FrontierSlot(s) \in 0 .. Slots
         /\ \A i \in Places : slots[s][i] = Erased <=> FrontierSlot(s) <= i
<1> DEFINE D == 0 .. Slots
           Past == {n \in D : n = Slots \/ slots[s][n] = Erased}
           Round(search) ==
             [bounds \in D \X D |->
                LET low == bounds[1]
                    high == bounds[2]
                    middle == low + (high - low) \div 2
                IN IF low >= high THEN low
                   ELSE IF slots[s][middle] = Erased THEN search[<<low, middle>>]
                   ELSE search[<<middle + 1, high>>]]
<1>0. Slots \in Nat /\ \A i \in Nat : i \in Places <=> i < Slots
  BY PlacesFacts
<1>1. Searchable(D, Past)
  <2>1. \A a \in Past, b \in D : a <= b => b \in Past
    <3> SUFFICES ASSUME NEW a \in Past, NEW b \in D, a <= b PROVE b \in Past
      OBVIOUS
    <3>1. CASE a = b \/ b = Slots
      BY <3>1
    <3>2. CASE a # b /\ b # Slots
      <4>1. a \in Places /\ b \in Places /\ a < b /\ a # Slots
        BY <1>0, <3>2
      <4>2. slots[s][a] = Erased
        BY <4>1
      <4>3. slots[s][b] = Erased
        BY <4>1, <4>2
      <4>4. QED
        BY <4>3
    <3>3. QED
      BY <3>1, <3>2
  <2>2. D \in SUBSET Nat /\ \A a, b \in D : a .. b \in SUBSET D
    BY <1>0
  <2>3. Past \in SUBSET D
    OBVIOUS
  <2> HIDE DEF D, Past
  <2>4. QED
    BY <2>1, <2>2, <2>3 DEF Searchable
<1>2. ASSUME NEW search
      PROVE  Round(search) = Halved(D, Past, search)
  <2>1. ASSUME NEW bounds \in D \X D, bounds[1] < bounds[2]
        PROVE  LET middle == bounds[1] + (bounds[2] - bounds[1]) \div 2
               IN middle \in D /\ (slots[s][middle] = Erased <=> middle \in Past)
    <3>1. bounds[1] \in Nat /\ bounds[2] \in Nat /\ bounds[2] <= Slots
      BY <1>0
    <3>2. PICK middle : middle = bounds[1] + (bounds[2] - bounds[1]) \div 2
      OBVIOUS
    <3>3. middle \in Nat /\ middle < Slots
      BY <1>0, <2>1, <3>1, <3>2
    <3>4. middle \in D /\ middle # Slots
      BY <1>0, <3>3
    <3>5. slots[s][middle] = Erased <=> middle \in Past
      BY <3>4
    <3>6. QED
      BY <3>2, <3>4, <3>5
  <2>2. ASSUME NEW bounds \in D \X D
        PROVE  Round(search)[bounds] = Halved(D, Past, search)[bounds]
    <3>0. bounds[1] \in Nat /\ bounds[2] \in Nat
      BY <1>0
    <3> DEFINE middle == bounds[1] + (bounds[2] - bounds[1]) \div 2
    <3>1. Round(search)[bounds] =
            IF bounds[1] >= bounds[2] THEN bounds[1]
            ELSE IF slots[s][middle] = Erased THEN search[<<bounds[1], middle>>]
            ELSE search[<<middle + 1, bounds[2]>>]
      OBVIOUS
    <3>2. Halved(D, Past, search)[bounds] =
            IF bounds[1] >= bounds[2] THEN bounds[1]
            ELSE IF middle \in Past THEN search[<<bounds[1], middle>>]
            ELSE search[<<middle + 1, bounds[2]>>]
      BY DEF Halved
    <3>3. bounds[1] < bounds[2] => (slots[s][middle] = Erased <=> middle \in Past)
      BY <2>1
    <3> HIDE DEF middle, Past, Round
    <3>4. CASE bounds[1] < bounds[2]
      BY <3>0, <3>1, <3>2, <3>3, <3>4
    <3>5. CASE ~ (bounds[1] < bounds[2])
      <4>1. bounds[1] >= bounds[2]
        BY <3>0, <3>5
      <4>2. QED
        BY <3>1, <3>2, <4>1
    <3>6. QED
      BY <3>4, <3>5
  <2>3. QED
    BY <2>2 DEF Halved
<1>3. FrontierSlot(s) = (CHOOSE search : search = Round(search))[<<0, Slots>>]
  BY DEF FrontierSlot
<1> HIDE DEF Round
<1>4. FrontierSlot(s) = SearchOf(D, Past)[<<0, Slots>>]
  BY <1>2, <1>3 DEF SearchOf
<1>5. 0 \in D /\ Slots \in D /\ 0 <= Slots
  BY <1>0
<1>6. IsFirst(Past, 0, Slots, FrontierSlot(s))
  <2> HIDE DEF D, Past
  <2>1. QED
    BY <1>1, <1>4, <1>5, SearchFinds
<1>7. FrontierSlot(s) \in 0 .. Slots
  BY <1>6 DEF IsFirst
<1>8. ASSUME NEW i \in Places
      PROVE  slots[s][i] = Erased <=> FrontierSlot(s) <= i
  <2>1. i \in 0 .. Slots - 1 /\ i \in D /\ i # Slots
    BY <1>0 DEF Places
  <2>2. i \in Past <=> FrontierSlot(s) <= i
    BY <1>6, <2>1 DEF IsFirst
  <2>3. QED
    BY <2>1, <2>2
<1>9. QED
  BY <1>7, <1>8

\* The tail of a sector is its whole records; the capture's, which carry no
\* checksum, may count one more, which a cut left in part.
LEMMA TailEnds ==
  ASSUME StoreInv, NEW r \in Rings, NEW s \in Sectors, header[s].owner \in Rings, WellFilled(s)
  PROVE  \E whole \in Nat :
           /\ whole <= Slots
           /\ \A i \in Places : Whole(s, i) <=> i < whole
           /\ \/ TailOf(r, s) = whole
              \/ /\ r = "diagnostics" /\ TailOf(r, s) = whole + 1
                 /\ whole \in Places /\ slots[s][whole] = Torn
<1>. PICK F : F = FrontierSlot(s)
  OBVIOUS
<1>0. /\ Slots \in Nat /\ Places \subseteq Nat /\ \A i \in Nat : i \in Places <=> i < Slots
      /\ Erased.session = 0 /\ Torn.session = 0
      /\ Erased # Torn /\ Erased # Spoiled /\ Torn # Spoiled /\ Spoiled.session = 0
  BY PlacesFacts, RecordFacts DEF Erased, Torn, Spoiled
<1>1. header[s].session # 0
  BY FilledTypes, Consts
<1>2. /\ \A i \in Places : slots[s][i] \in {Erased, Torn} \/ slots[s][i].session = header[s].session
      /\ \A i, j \in Places : i < j /\ slots[s][j] # Erased => Whole(s, i)
  BY DEF WellFilled
<1>3. \A i \in Places : Whole(s, i) => slots[s][i] # Erased /\ slots[s][i] # Torn
  BY <1>0 DEF Whole
<1>4. F \in 0 .. Slots /\ \A i \in Places : slots[s][i] = Erased <=> F <= i
  <2>1. \A i, j \in Places : i < j /\ slots[s][i] = Erased => slots[s][j] = Erased
    BY <1>2, <1>3
  <2>2. QED
    BY <2>1, FrontierFound
<1>5. F \in Nat /\ F <= Slots
  BY <1>0, <1>4
<1>6. TailOf(r, s) = IF r = "flights" /\ F > 0 /\ slots[s][F - 1] \in {Torn, Spoiled} THEN F - 1 ELSE F
  BY DEF TailOf
<1>7. CASE F = 0
  <2>1. \A i \in Places : ~Whole(s, i) /\ ~ (i < F)
    BY <1>0, <1>3, <1>4, <1>7
  <2>2. TailOf(r, s) = F
    BY <1>6, <1>7
  <2>3. QED
    BY <1>5, <2>1, <2>2
<1>8. CASE F # 0
  <2>. PICK last : last = F - 1
    OBVIOUS
  <2>1. last \in Nat /\ last \in Places /\ F > 0 /\ last < F /\ last <= Slots /\ F = last + 1
    BY <1>0, <1>5, <1>8
  <2>2. slots[s][last] # Erased
    BY <1>4, <1>5, <2>1
  <2>3. \A i \in Places : i < last => Whole(s, i)
    BY <1>2, <2>1, <2>2
  <2>4. \A i \in Places : i > last => ~Whole(s, i)
    BY <1>0, <1>3, <1>4, <2>1
  <2>5. CASE slots[s][last] = Torn
    <3>1. \A i \in Places : Whole(s, i) <=> i < last
      BY <1>0, <1>3, <2>1, <2>3, <2>4, <2>5
    <3>2. TailOf(r, s) = last \/ (r = "diagnostics" /\ TailOf(r, s) = last + 1)
      BY <1>6, <2>1, <2>5 DEF Rings
    <3>3. QED
      BY <2>1, <2>5, <3>1, <3>2
  <2>6. CASE slots[s][last] # Torn
    <3>1. slots[s][last].session # 0
      BY <1>1, <1>2, <2>1, <2>2, <2>6
    <3>2. Whole(s, last) /\ slots[s][last] # Spoiled
      BY <1>0, <3>1 DEF Whole
    <3>3. \A i \in Places : Whole(s, i) <=> i < F
      BY <1>0, <2>1, <2>3, <2>4, <3>2
    <3>4. TailOf(r, s) = F
      BY <1>6, <2>6, <3>2
    <3>5. QED
      BY <1>5, <3>3, <3>4
  <2>7. QED
    BY <2>5, <2>6
<1>9. QED
  BY <1>7, <1>8

-----------------------------------------------------------------------------
(* The list: a walk of the labels, one run of sectors at a time.           *)

EntryOf(r, run) ==
  [session |-> run.session,
   sectors |-> run.sectors,
   records |-> (run.sectors - 1) * Slots
               + TailOf(r, SessionSector(r, run.session, run.sectors - 1)),
   truncated |-> ~label[SessionSector(r, run.session, 0)].start]
Walked(r, walk) ==
  [walked \in 0 .. MaxSequence |->
     IF Above(OwnedBy(r), walked) = {} THEN {}
     ELSE LET run == SessionRun(r, walked) IN {EntryOf(r, run)} \cup walk[run.last]]

\* A walk that goes from a number to the next while it is live is defined,
\* whatever it goes through.
StepOf(D, live, next, entry, walk) ==
  [n \in D |-> IF n \in live THEN {entry[n]} \cup walk[next[n]] ELSE {}]

LEMMA WalkDefined ==
  ASSUME NEW D, NEW live, NEW next, NEW entry, \A n \in D : n \in live => next[n] \in D
  PROVE  \E walk : walk = StepOf(D, live, next, entry, walk)
<1> DEFINE Holding(T) == \A n \in T : n \in live => next[n] \in T
           Reach(n) == {k \in D : \A T \in SUBSET D : n \in T /\ Holding(T) => k \in T}
           Visited(n) == {entry[k] : k \in {j \in Reach(n) : j \in live}}
           g == [n \in D |-> Visited(n)]
<1>1. ASSUME NEW n \in D
      PROVE  n \in Reach(n) /\ Holding(Reach(n)) /\ Reach(n) \in SUBSET D
  OBVIOUS
<1>2. ASSUME NEW n \in D, NEW T \in SUBSET D, n \in T, Holding(T)
      PROVE  Reach(n) \in SUBSET T
  BY <1>2
<1> HIDE DEF Reach
<1>3. ASSUME NEW n \in D, n \in live
      PROVE  Reach(n) = {n} \cup Reach(next[n])
  <2>1. next[n] \in D
    BY <1>3
  <2>2. Holding({n} \cup Reach(next[n])) /\ {n} \cup Reach(next[n]) \in SUBSET D
    BY <1>1, <2>1
  <2>3. Reach(n) \in SUBSET ({n} \cup Reach(next[n]))
    BY <1>2, <2>2
  <2>4. n \in Reach(n) /\ next[n] \in Reach(n)
    BY <1>1, <1>3
  <2>5. Reach(next[n]) \in SUBSET Reach(n)
    BY <1>1, <1>2, <2>1, <2>4
  <2>6. QED
    BY <2>3, <2>4, <2>5
<1>4. ASSUME NEW n \in D, n \notin live
      PROVE  Reach(n) = {n}
  <2>1. Holding({n}) /\ {n} \in SUBSET D
    BY <1>4
  <2>2. Reach(n) \in SUBSET {n}
    BY <1>2, <2>1
  <2>3. QED
    BY <1>1, <2>2
<1>5. ASSUME NEW n \in D
      PROVE  g[n] = IF n \in live THEN {entry[n]} \cup g[next[n]] ELSE {}
  <2>1. CASE n \in live
    <3>1. next[n] \in D
      BY <2>1
    <3>2. g[n] = Visited(n) /\ g[next[n]] = Visited(next[n])
      BY <3>1
    <3>3. Visited(n) = {entry[n]} \cup Visited(next[n])
      BY <1>3, <2>1
    <3>4. QED
      BY <2>1, <3>2, <3>3
  <2>2. CASE n \notin live
    <3>1. {j \in Reach(n) : j \in live} = {}
      BY <1>4, <2>2
    <3>2. Visited(n) = {}
      BY <3>1
    <3>3. QED
      BY <2>2, <3>2
  <2>3. QED
    BY <2>1, <2>2
<1> HIDE DEF g
<1>6. g = [n \in D |-> g[n]]
  BY DEF g
<1>7. g = StepOf(D, live, next, entry, g)
  BY <1>5, <1>6 DEF StepOf
<1>8. QED
  BY <1>7

\* A run ends past where it was asked from, and on a number some sector has.
LEMMA RunEnds ==
  ASSUME IInv, sequence <= MaxSequence, NEW r \in Rings, NEW n \in Nat,
         Above(OwnedBy(r), n) # {}
  PROVE  /\ SessionRun(r, n).last \in 0 .. MaxSequence
         /\ n < SessionRun(r, n).last
<1> DEFINE rest == Above(OwnedBy(r), n)
           low == Lowest(rest)
           session == label[low].session
           others == {label[s].sequence : s \in {t \in rest : label[t].session # session}}
           run == {s \in rest : /\ label[s].session = session
                                /\ \A until \in others : label[s].sequence < until}
<1>0. TypeOK /\ NumbersOrdered /\ sequence \in Nat /\ MaxSequence \in Nat
  BY MaxSequenceAssumption DEF IInv, TypeOK
<1>1. /\ rest \in SUBSET Sectors /\ rest \in SUBSET OwnedBy(r)
      /\ \A s \in rest : label[s].sequence \in Nat /\ label[s].sequence > n
  BY <1>0 DEF Above, OwnedBy, TypeOK, Label
<1>2. low \in rest /\ \A t \in rest : label[low].sequence <= label[t].sequence
  BY <1>0, <1>1, LowestExists
<1>3. \A s, t \in rest : s # t => label[s].sequence # label[t].sequence
  BY <1>0, <1>1 DEF NumbersOrdered, Ordered, OwnedBy
<1>4. low \in run
  <2> SUFFICES ASSUME NEW t \in rest, label[t].session # session
               PROVE  label[low].sequence < label[t].sequence
    BY <1>2
  <2>1. t # low
    OBVIOUS
  <2> HIDE DEF low
  <2>2. QED
    BY <1>1, <1>2, <1>3, <2>1
<1>5. run \in SUBSET Sectors /\ run \in SUBSET rest
  BY <1>1
<1>6. Highest(run) \in run
  <2> HIDE DEF run
  <2>1. QED
    BY <1>0, <1>4, <1>5, HighestExists
<1>7. SessionRun(r, n).last = label[Highest(run)].sequence
  BY DEF SessionRun
<1>8. /\ label[Highest(run)].sequence \in Nat /\ label[Highest(run)].sequence > n
      /\ label[Highest(run)].sequence <= sequence
  <2>1. Highest(run) \in rest /\ Highest(run) \in OwnedBy(r)
    BY <1>1, <1>5, <1>6
  <2> HIDE DEF run, rest
  <2>2. label[Highest(run)].sequence \in 1 .. sequence
    BY <1>0, <2>1 DEF NumbersOrdered, Ordered, OwnedBy
  <2>3. label[Highest(run)].sequence > n
    BY <1>1, <2>1
  <2>4. QED
    BY <1>0, <2>2, <2>3
<1> HIDE DEF run
<1>9. QED
  BY <1>0, <1>7, <1>8

\* No session of the ring has sectors on both sides of the number.
Between(r, n) ==
  \A s, t \in OwnedBy(r) : label[s].session = label[t].session =>
    (label[s].sequence > n <=> label[t].sequence > n)

\* From between two sessions, a run is a session, whole.
LEMMA RunIsSession ==
  ASSUME IInv, InOrder(label), \A s \in Sectors : label[s].session \in Nat,
         NEW r \in Rings, NEW n \in Nat, Between(r, n), Above(OwnedBy(r), n) # {}
  PROVE  /\ \E m : /\ InSession(r, m) # {}
                   /\ SessionRun(r, n).session = m
                   /\ SessionRun(r, n).sectors = Cardinality(InSession(r, m))
         /\ Between(r, SessionRun(r, n).last)
<1> DEFINE rest == Above(OwnedBy(r), n)
           low == Lowest(rest)
           m == label[low].session
           others == {label[s].sequence : s \in {t \in rest : label[t].session # m}}
           run == {s \in rest : /\ label[s].session = m
                                /\ \A until \in others : label[s].sequence < until}
           S == InSession(r, m)
           high == Highest(S)
<1>0. TypeOK /\ NumbersOrdered
  BY DEF IInv
<1>1. /\ rest \in SUBSET Sectors /\ rest \in SUBSET OwnedBy(r)
      /\ \A s \in OwnedBy(r) : label[s].sequence \in Nat /\ s \in Sectors /\ label[s].owner = r
                               /\ label[s].session \in Nat
      /\ \A s : s \in rest <=> s \in OwnedBy(r) /\ label[s].sequence > n
  BY <1>0 DEF Above, OwnedBy, TypeOK, Label
<1>2. low \in rest /\ \A t \in rest : label[low].sequence <= label[t].sequence
  BY <1>0, <1>1, LowestExists
<1>3. \A s, t \in OwnedBy(r) : s # t => label[s].sequence # label[t].sequence
  BY <1>0 DEF NumbersOrdered, Ordered, OwnedBy
<1>4. \A s : s \in S <=> s \in OwnedBy(r) /\ label[s].session = m
  BY DEF InSession
<1>5. \A s, t \in OwnedBy(r) :
        label[s].sequence < label[t].sequence => label[s].session <= label[t].session
  BY <1>1 DEF InOrder
<1> HIDE DEF rest, low, S
<1>6. S \in SUBSET rest
  BY <1>1, <1>2, <1>4 DEF Between
<1>7. ASSUME NEW s \in S, NEW u \in rest, label[u].session # m
      PROVE  label[s].sequence < label[u].sequence
  <2>1. u # low /\ u # s /\ u \in OwnedBy(r) /\ s \in OwnedBy(r) /\ low \in OwnedBy(r)
        /\ label[s].session = m
    BY <1>1, <1>2, <1>4, <1>7
  <2>2. label[low].sequence < label[u].sequence
    BY <1>1, <1>2, <1>3, <2>1
  <2>3. label[low].session <= label[u].session
    BY <1>5, <2>1, <2>2
  <2>4. ~ (label[u].sequence < label[s].sequence)
    <3>1. SUFFICES ASSUME label[u].sequence < label[s].sequence PROVE FALSE
      OBVIOUS
    <3>2. label[u].session <= label[s].session
      BY <1>5, <2>1, <3>1
    <3>3. QED
      BY <1>1, <1>7, <2>1, <2>3, <3>2
  <2>5. QED
    BY <1>1, <1>3, <2>1, <2>4
<1>8. run = S
  <2>1. \A s \in S : s \in run
    BY <1>4, <1>6, <1>7
  <2>2. \A s \in run : s \in S
    BY <1>1, <1>4
  <2>3. QED
    BY <2>1, <2>2
<1>9. SessionRun(r, n) = [session |-> m, sectors |-> Cardinality(S), last |-> label[high].sequence]
  <2>1. SessionRun(r, n) = [session |-> m, sectors |-> Cardinality(run),
                            last |-> label[Highest(run)].sequence]
    BY DEF SessionRun, rest, low
  <2> HIDE DEF run
  <2>2. QED
    BY <1>8, <2>1
<1>10. low \in S
  BY <1>1, <1>2, <1>4
<1>11. high \in S /\ \A t \in S : label[t].sequence <= label[high].sequence
  <2>1. S \in SUBSET Sectors
    BY <1>1, <1>6
  <2>2. QED
    BY <1>0, <1>10, <2>1, HighestExists
<1> HIDE DEF high, m, run
<1>12. Between(r, label[high].sequence)
  <2> SUFFICES ASSUME NEW s \in OwnedBy(r), NEW t \in OwnedBy(r),
                      label[s].session = label[t].session,
                      label[s].sequence > label[high].sequence,
                      ~ (label[t].sequence > label[high].sequence)
               PROVE  FALSE
    BY DEF Between
  <2>1. high \in OwnedBy(r) /\ label[high].session = m
    BY <1>4, <1>11
  <2>2. s \notin S /\ label[s].session # m
    BY <1>1, <1>4, <1>11, <2>1
  <2>3. t # high
    BY <2>1, <2>2
  <2>4. label[t].sequence < label[high].sequence /\ label[high].sequence < label[s].sequence
    BY <1>1, <1>3, <2>1, <2>3
  <2>5. label[t].session <= label[high].session /\ label[high].session <= label[s].session
    BY <1>5, <2>1, <2>4
  <2>6. QED
    BY <1>1, <2>1, <2>2, <2>5
<1>13. QED
  BY <1>9, <1>10, <1>12 DEF S

\* What is listed: one entry for one whole session.
Listing(r, m) ==
  LET N == Cardinality(InSession(r, m))
  IN [session |-> m, sectors |-> N,
      records |-> (N - 1) * Slots + TailOf(r, Nth(r, m, N - 1)),
      truncated |-> ~label[Nth(r, m, 0)].start]

LEMMA WalkLists ==
  ASSUME IInv, InOrder(label), \A s \in Sectors : label[s].session \in Nat,
         sequence <= MaxSequence, NEW r \in Rings, NEW walk, walk = Walked(r, walk),
         NEW n \in 0 .. MaxSequence, Between(r, n), NEW entry \in walk[n]
  PROVE  \E m : InSession(r, m) # {} /\ entry = Listing(r, m)
<1> DEFINE D == 0 .. MaxSequence
           Good(e) == \E m : InSession(r, m) # {} /\ e = Listing(r, m)
           Wrong == {k \in D : \E j \in D : /\ j + k = MaxSequence /\ Between(r, j)
                                            /\ \E e \in walk[j] : ~Good(e)}
<1>0. MaxSequence \in Nat
  BY MaxSequenceAssumption
<1>1. ASSUME NEW j \in D
      PROVE  walk[j] = IF Above(OwnedBy(r), j) = {} THEN {}
                       ELSE {EntryOf(r, SessionRun(r, j))} \cup walk[SessionRun(r, j).last]
  BY DEF Walked
<1>2. ASSUME Wrong # {} PROVE FALSE
  <2>1. Wrong \in SUBSET Nat /\ IsFiniteSet(Wrong)
    <3>1. IsFiniteSet(D) /\ D \in SUBSET Nat /\ Wrong \in SUBSET D
      BY <1>0, FS_Interval
    <3> HIDE DEF D, Wrong
    <3>2. QED
      BY <3>1, FS_Subset
  <2>2. PICK k \in Wrong : \A i \in Wrong : k <= i
    <3> HIDE DEF Wrong
    <3>1. QED
      BY <1>2, <2>1, LeastOf
  <2> HIDE DEF Good
  <2>3. PICK j \in D : /\ j + k = MaxSequence /\ Between(r, j)
                       /\ \E e \in walk[j] : ~Good(e)
    OBVIOUS
  <2>4. PICK e \in walk[j] : ~Good(e)
    BY <2>3
  <2>5. Above(OwnedBy(r), j) # {}
    BY <1>1, <2>4
  <2>. PICK next : next = SessionRun(r, j).last
    OBVIOUS
  <2>6. j \in Nat /\ next \in D /\ next \in Nat /\ j < next /\ k \in D /\ k \in Nat
    BY <1>0, <2>5, RunEnds
  <2>7. PICK m : /\ InSession(r, m) # {}
                 /\ SessionRun(r, j).session = m
                 /\ SessionRun(r, j).sectors = Cardinality(InSession(r, m))
    BY <2>3, <2>5, <2>6, RunIsSession
  <2>8. Between(r, next)
    BY <2>3, <2>5, <2>6, RunIsSession
  <2>9. EntryOf(r, SessionRun(r, j)) = Listing(r, m)
    BY <2>7 DEF EntryOf, Listing, Nth
  <2>10. e \in walk[next]
    <3>1. Good(Listing(r, m))
      BY <2>7 DEF Good
    <3>2. e # Listing(r, m)
      BY <2>4, <3>1
    <3>3. QED
      BY <1>1, <2>4, <2>5, <2>9, <3>2
  <2>11. MaxSequence - next \in Wrong
    <3>1. MaxSequence - next \in D /\ next + (MaxSequence - next) = MaxSequence
      BY <1>0, <2>6
    <3>2. QED
      BY <2>4, <2>6, <2>8, <2>10, <3>1
  <2>12. k <= MaxSequence - next
    BY <2>2, <2>11
  <2>13. QED
    BY <1>0, <2>3, <2>6, <2>12
<1>3. MaxSequence - n \in D /\ n + (MaxSequence - n) = MaxSequence
  BY <1>0
<1>4. MaxSequence - n \notin Wrong
  BY <1>2
<1>5. Good(entry)
  <2> HIDE DEF Good
  <2>1. QED
    BY <1>3, <1>4
<1>6. QED
  BY <1>5

LEMMA IndexLists ==
  ASSUME StoreInv, PartMatches, NEW r \in Rings, NEW entry \in Index(r)
  PROVE  \E m \in Sessions : InSession(r, m) # {} /\ entry = Listing(r, m)
<1> DEFINE D == 0 .. MaxSequence
           live == {n \in D : Above(OwnedBy(r), n) # {}}
           next == [n \in D |-> SessionRun(r, n).last]
           told == [n \in D |-> EntryOf(r, SessionRun(r, n))]
           Round(walk) == [n \in D |-> IF n \in live THEN {told[n]} \cup walk[next[n]] ELSE {}]
<1>0. /\ IInv /\ InOrder(label) /\ sequence <= MaxSequence
      /\ \A s \in Sectors : label[s].session \in Nat
      /\ MaxSequence \in Nat
  BY FilledTypes, MaxSequenceAssumption DEF StoreInv, PartMatches
<1>1. \A n \in D : n \in live => next[n] \in D
  BY <1>0, RunEnds
<1>2. \E walk : walk = Round(walk)
  <2> HIDE DEF D, live, next, told
  <2>1. \E walk : walk = StepOf(D, live, next, told, walk)
    BY <1>1, WalkDefined
  <2>2. QED
    BY <2>1 DEF StepOf
<1>3. ASSUME NEW walk
      PROVE  Round(walk) = Walked(r, walk)
  <2>1. ASSUME NEW n \in D
        PROVE  Round(walk)[n] = Walked(r, walk)[n]
    <3>1. Round(walk)[n] = IF n \in live THEN {told[n]} \cup walk[next[n]] ELSE {}
      OBVIOUS
    <3>2. Walked(r, walk)[n] =
            IF Above(OwnedBy(r), n) = {} THEN {}
            ELSE {EntryOf(r, SessionRun(r, n))} \cup walk[SessionRun(r, n).last]
      BY DEF Walked
    <3>3. /\ n \in live <=> Above(OwnedBy(r), n) # {}
          /\ told[n] = EntryOf(r, SessionRun(r, n)) /\ next[n] = SessionRun(r, n).last
      OBVIOUS
    <3> HIDE DEF Round, live, told, next
    <3>4. QED
      BY <3>1, <3>2, <3>3
  <2>2. Round(walk) = [n \in D |-> Round(walk)[n]]
    OBVIOUS
  <2>3. Walked(r, walk) = [n \in D |-> Walked(r, walk)[n]]
    BY DEF Walked
  <2> HIDE DEF Round
  <2>4. QED
    BY <2>1, <2>2, <2>3
<1> HIDE DEF Round
<1>. PICK found : found = CHOOSE walk : walk = Walked(r, walk)
  OBVIOUS
<1>4. found = Walked(r, found)
  BY <1>2, <1>3
<1>5. Index(r) = found[0]
  BY DEF Index, Walked, EntryOf
<1>6. 0 \in 0 .. MaxSequence /\ Between(r, 0)
  <2>1. \A s \in OwnedBy(r) : label[s].sequence > 0
    <3>1. \A s \in OwnedBy(r) : label[s].sequence \in 1 .. sequence /\ sequence \in Nat
      BY <1>0 DEF IInv, NumbersOrdered, Ordered, OwnedBy, TypeOK
    <3>2. QED
      BY <3>1
  <2>2. QED
    BY <1>0, <2>1 DEF Between
<1> HIDE DEF D, live, next, told
<1>7. PICK m : InSession(r, m) # {} /\ entry = Listing(r, m)
  <2>1. entry \in found[0]
    BY <1>5
  <2>2. ASSUME NEW walk, walk = Walked(r, walk), NEW e \in walk[0]
        PROVE  \E m : InSession(r, m) # {} /\ e = Listing(r, m)
    BY <1>0, <1>6, <2>2, WalkLists
  <2>3. QED
    BY <1>4, <2>1, <2>2
<1>8. m \in Sessions
  BY <1>7, FilledTypes DEF InSession, OwnedBy
<1>9. QED
  BY <1>7, <1>8

-----------------------------------------------------------------------------
(* The nth record of a session: in which of its sectors, and where.        *)

LEMMA Placed ==
  ASSUME NEW a \in Nat, NEW b \in Places, NEW x, x = a * Slots + b
  PROVE  x \in Nat /\ x \div Slots = a /\ x % Slots = b
<1>0. Slots \in Nat /\ Slots >= 1 /\ b \in 0 .. Slots - 1
  BY PlacesFacts DEF Places
<1>1. x \in Nat /\ x = Slots * a + b
  BY <1>0
<1>2. x \div Slots = a
  BY <1>0, <1>1, SMTT(30)
<1>3. x % Slots = b
  BY <1>0, <1>1, SMTT(30)
<1>4. QED
  BY <1>1, <1>2, <1>3

LEMMA PlaceOf ==
  ASSUME NEW x \in Nat
  PROVE  \E a \in Nat, b \in Places : x = a * Slots + b
<1>0. Slots \in Nat /\ Slots >= 1
  BY PlacesFacts
<1>1. x \div Slots \in Nat /\ x % Slots \in 0 .. Slots - 1
  BY <1>0
<1>2. x % Slots = x - Slots * (x \div Slots)
  BY <1>0, SMTT(30)
<1>. PICK a, b : a = x \div Slots /\ b = x % Slots
  OBVIOUS
<1>3. a \in Nat /\ b \in Places /\ b = x - Slots * a
  BY <1>1, <1>2 DEF Places
<1>4. x = a * Slots + b
  BY <1>0, <1>1, <1>3
<1>5. QED
  BY <1>3, <1>4

LEMMA MoreSectors ==
  ASSUME NEW a \in Nat, NEW b \in Nat
  PROVE  /\ a * Slots \in Nat
         /\ a < b => a * Slots + Slots <= b * Slots
         /\ a >= 1 => a * Slots = (a - 1) * Slots + Slots
<1>0. Slots \in Nat
  BY PlacesFacts
<1>1. a * Slots \in Nat /\ b * Slots \in Nat
  BY <1>0
<1>2. ASSUME a < b
      PROVE  a * Slots + Slots <= b * Slots
  <2>1. PICK k \in Nat : b = a + 1 + k
    <3>1. b - a - 1 \in Nat /\ b = a + 1 + (b - a - 1)
      BY <1>2
    <3>2. QED
      BY <3>1
  <2>2. b * Slots = a * Slots + Slots + k * Slots
    BY <1>0, <2>1
  <2>3. k * Slots \in Nat
    BY <1>0
  <2>4. QED
    BY <1>0, <1>1, <2>2, <2>3
<1>3. ASSUME a >= 1
      PROVE  a * Slots = (a - 1) * Slots + Slots
  BY <1>0, <1>3
<1>4. QED
  BY <1>1, <1>2, <1>3

LEMMA ReadAt ==
  ASSUME NEW r, NEW m, NEW a \in Nat, NEW b \in Places, NEW x, x = a * Slots + b
  PROVE  ReadRecord(r, m, x) = slots[Nth(r, m, a)][b]
BY Placed DEF ReadRecord, Nth

\* The sectors of a session the pilot has not given up.
LEMMA SessionSectors ==
  ASSUME FilledInv, work = Idle, NEW r \in Rings, NEW m \in Sessions, m > given[r],
         NEW N, N = Cardinality(InSession(r, m)), N >= 1
  PROVE  /\ N \in Nat
         /\ \A i \in 0 .. N - 1 :
              /\ Nth(r, m, i) \in Sectors /\ header[Nth(r, m, i)] = label[Nth(r, m, i)]
              /\ header[Nth(r, m, i)].owner = r /\ header[Nth(r, m, i)].session = m
              /\ WellFilled(Nth(r, m, i))
         /\ \A i \in 0 .. N - 2 :
              Chained(Nth(r, m, i), Nth(r, m, i + 1)) /\ NoneBetween(Nth(r, m, i), Nth(r, m, i + 1))
         /\ Last(r, m, Nth(r, m, N - 1))
         /\ N = 1 => Others(r, m, Nth(r, m, 0)) = {}
         /\ N >= 2 => LastBut(r, m, Nth(r, m, N - 1), Nth(r, m, N - 2))
<1> DEFINE S == InSession(r, m)
           z(i) == Nth(r, m, i)
<1>0. /\ StoreInv /\ IInv /\ TypeOK /\ NumbersOrdered /\ PartMatches /\ PartFilled
  BY DEF FilledInv, StoreInv, IInv
<1>1. /\ S \in SUBSET Sectors /\ N \in Nat /\ IsFiniteSet(S)
      /\ \A s \in S : label[s].sequence \in Nat
  BY <1>0, SessionCounted
<1>2. S = OfSession(r, m)
  BY <1>0, SessionOnPart
<1>3. /\ \A s \in S : /\ s \in Sectors /\ label[s].owner = r /\ label[s].session = m
                      /\ header[s] = label[s]
      /\ \A s, t \in S : Before(s, t) <=> label[s].sequence < label[t].sequence
      /\ \A s, t \in S : s # t => label[s].sequence # label[t].sequence
  <2>1. \A s \in S : s \in Sectors /\ label[s].owner = r /\ label[s].session = m
    BY DEF InSession, OwnedBy
  <2>2. \A s \in S : header[s] = label[s]
    BY <1>0, <2>1, MatchedIdle DEF Kept
  <2>3. \A s, t \in S : s # t => label[s].sequence # label[t].sequence
    BY <1>0, <2>1 DEF NumbersOrdered, Ordered
  <2>4. QED
    BY <2>1, <2>2, <2>3 DEF Before
<1>4. \A i \in 0 .. N - 1 : z(i) \in S
  BY <1>0, NthIs
<1>5. /\ \A u \in S : label[u].sequence <= label[z(N - 1)].sequence
      /\ \A i \in 0 .. N - 2 :
           /\ label[z(i)].sequence < label[z(i + 1)].sequence
           /\ \A u \in S :
                ~ (label[z(i)].sequence < label[u].sequence /\ label[u].sequence < label[z(i + 1)].sequence)
  BY <1>0, NthInARow
<1> HIDE DEF S, z
<1>6. N - 1 \in 0 .. N - 1 /\ \A i \in 0 .. N - 2 : i \in 0 .. N - 1 /\ i + 1 \in 0 .. N - 1
  BY <1>1
<1>7. \A i \in 0 .. N - 1 :
        /\ z(i) \in Sectors /\ header[z(i)] = label[z(i)]
        /\ header[z(i)].owner = r /\ header[z(i)].session = m
        /\ WellFilled(z(i))
  BY <1>0, <1>3, <1>4 DEF PartFilled
<1>8. ASSUME NEW i \in 0 .. N - 2
      PROVE  Chained(z(i), z(i + 1)) /\ NoneBetween(z(i), z(i + 1))
  <2>1. /\ z(i) \in S /\ z(i + 1) \in S /\ Before(z(i), z(i + 1))
        /\ \A u \in S : ~ (Before(z(i), u) /\ Before(u, z(i + 1)))
    BY <1>3, <1>4, <1>5, <1>6
  <2>2. /\ header[z(i)].owner = r /\ header[z(i)].session = m
        /\ header[z(i + 1)].owner = r /\ header[z(i + 1)].session = m
        /\ z(i) \in Sectors /\ z(i + 1) \in Sectors
    BY <1>6, <1>7
  <2>3. Kept(header[z(i)])
    BY <2>2 DEF Kept
  <2>4. Chained(z(i), z(i + 1))
    BY <1>0, <2>1, <2>2, <2>3 DEF PartFilled
  <2>5. NoneBetween(z(i), z(i + 1))
    BY <1>2, <2>1, <2>2 DEF NoneBetween
  <2>6. QED
    BY <2>4, <2>5
<1>. PICK e : e = z(N - 1)
  OBVIOUS
<1>9. e \in S /\ \A u \in S \ {e} : label[u].sequence < label[e].sequence
  <2>1. e \in S
    BY <1>4, <1>6
  <2>2. QED
    BY <1>1, <1>3, <1>5, <2>1
<1>10. Last(r, m, e)
  <2>1. e # NoSector
    BY <1>3, <1>9, RecordFacts
  <2>2. QED
    BY <1>2, <1>3, <1>9, <2>1 DEF Last, LastBut, Others
<1>11. ASSUME N = 1
       PROVE  Others(r, m, z(0)) = {}
  <2>1. PICK s : S = {s}
    BY <1>1, <1>11, FS_Singleton DEF S
  <2>2. z(0) \in S
    BY <1>4, <1>6, <1>11
  <2>3. QED
    BY <1>2, <2>1, <2>2 DEF Others
<1>12. ASSUME N >= 2
       PROVE  LastBut(r, m, e, z(N - 2))
  <2>. PICK k, p : k = N - 2 /\ p = z(k)
    OBVIOUS
  <2>1. k \in 0 .. N - 2 /\ k + 1 = N - 1 /\ k \in 0 .. N - 1
    BY <1>1, <1>12
  <2>2. p \in S /\ z(k + 1) = e
    BY <1>4, <2>1
  <2>3. /\ label[p].sequence < label[e].sequence
        /\ \A u \in S : ~ (label[p].sequence < label[u].sequence /\ label[u].sequence < label[e].sequence)
    BY <1>5, <2>1, <2>2
  <2>4. p # e
    BY <1>1, <2>2, <2>3
  <2>5. \A u \in S \ {e, p} : label[u].sequence < label[p].sequence
    BY <1>1, <1>3, <1>9, <2>2, <2>3
  <2>6. QED
    BY <1>2, <1>3, <2>2, <2>4, <2>5 DEF LastBut, Others
<1>13. QED
  BY <1>1, <1>7, <1>8, <1>10, <1>11, <1>12 DEF z

\* A session's records, up to the last one whole, are in its sectors in order.
LEMMA SessionRecords ==
  ASSUME FilledInv, work = Idle, NEW r \in Rings, NEW m \in Sessions, m > given[r],
         NEW N, N = Cardinality(InSession(r, m)), N >= 1, NEW whole \in Nat, whole <= Slots,
         \A i \in Places : Whole(Nth(r, m, N - 1), i) <=> i < whole,
         NEW a \in Nat, NEW b \in Places, a * Slots + b < (N - 1) * Slots + whole
  PROVE  a \in 0 .. N - 1 /\ Whole(Nth(r, m, a), b)
<1>0. /\ N \in Nat
      /\ \A i \in 0 .. N - 1 : WellFilled(Nth(r, m, i))
      /\ \A i \in 0 .. N - 2 : Chained(Nth(r, m, i), Nth(r, m, i + 1))
  BY SessionSectors
<1>1. /\ Slots \in Nat /\ Places \subseteq Nat /\ b < Slots /\ b \in Nat
      /\ Slots - 1 \in Places /\ Erased.session = 0
  BY PlacesFacts, RecordFacts
<1>2. a * Slots \in Nat /\ (N - 1) * Slots \in Nat /\ N - 1 \in Nat
      /\ (N - 1 < a => (N - 1) * Slots + Slots <= a * Slots)
  BY <1>0, MoreSectors
<1>3. a \in 0 .. N - 1
  <2>1. ~ (N - 1 < a)
    BY <1>1, <1>2
  <2>2. QED
    BY <1>0, <1>2, <2>1
<1>4. CASE a = N - 1
  <2>1. b < whole
    BY <1>1, <1>2, <1>4
  <2>2. QED
    BY <1>3, <1>4, <2>1
<1>5. CASE a # N - 1
  <2>1. a \in 0 .. N - 2
    BY <1>0, <1>3, <1>5
  <2>. PICK s : s = Nth(r, m, a)
    OBVIOUS
  <2>2. Whole(s, Slots - 1) /\ WellFilled(s)
    BY <1>0, <1>3, <2>1 DEF Chained
  <2>3. slots[s][Slots - 1] # Erased
    BY <1>1, <2>2 DEF Whole
  <2>4. b < Slots - 1 \/ b = Slots - 1
    BY <1>1
  <2>5. Whole(s, b)
    BY <1>1, <2>2, <2>3, <2>4 DEF WellFilled
  <2>6. QED
    BY <1>3, <2>5
<1>6. QED
  BY <1>4, <1>5

\* Reading a session back: K records whole, and at most one torn after them.
ReadsBack(r, m, K) ==
  /\ \/ Listing(r, m).records = K
     \/ /\ r = "diagnostics" /\ Listing(r, m).records = K + 1
        /\ ReadRecord(r, m, K) = Torn
  /\ \A x \in 0 .. K - 1 :
       /\ ReadRecord(r, m, x).session = m
       /\ x > 0 => ReadRecord(r, m, x).number = ReadRecord(r, m, x - 1).number + 1
  /\ ~Listing(r, m).truncated /\ K > 0 => ReadRecord(r, m, 0).number = 1
  /\ IF K > 0
     THEN ReadRecord(r, m, K - 1).number >= written[r][m]
     ELSE Listing(r, m).truncated \/ written[r][m] = 0

LEMMA SessionReads ==
  ASSUME FilledInv, work = Idle, NEW r \in Rings, NEW m \in Sessions, m > given[r],
         InSession(r, m) # {}
  PROVE  \E K \in Nat : ReadsBack(r, m, K)
<1>. PICK N : N = Cardinality(InSession(r, m))
  OBVIOUS
<1>. PICK e : e = Nth(r, m, N - 1)
  OBVIOUS
<1>0. StoreInv /\ PartFilled /\ TypeOK /\ N \in Nat /\ N >= 1
  BY SessionCounted DEF FilledInv, StoreInv, IInv
<1>1. /\ \A i \in 0 .. N - 1 :
           /\ Nth(r, m, i) \in Sectors /\ header[Nth(r, m, i)] = label[Nth(r, m, i)]
           /\ header[Nth(r, m, i)].owner = r /\ header[Nth(r, m, i)].session = m
           /\ WellFilled(Nth(r, m, i))
      /\ \A i \in 0 .. N - 2 :
           Chained(Nth(r, m, i), Nth(r, m, i + 1)) /\ NoneBetween(Nth(r, m, i), Nth(r, m, i + 1))
      /\ Last(r, m, e)
      /\ N = 1 => Others(r, m, Nth(r, m, 0)) = {}
      /\ N >= 2 => LastBut(r, m, e, Nth(r, m, N - 2))
  BY <1>0, SessionSectors
<1>2. /\ Slots \in Nat /\ Slots >= 1 /\ Places \subseteq Nat /\ 0 \in Places /\ Slots - 1 \in Places
      /\ \A i \in Nat : i \in Places <=> i < Slots
      /\ Erased.session = 0 /\ Torn.session = 0
  BY PlacesFacts, RecordFacts
<1>3. /\ N - 1 \in 0 .. N - 1 /\ 0 \in 0 .. N - 1 /\ N - 1 \in Nat
      /\ (N - 1) * Slots \in Nat
      /\ N >= 2 => (N - 1) * Slots = (N - 2) * Slots + Slots /\ N - 2 \in 0 .. N - 2
                   /\ N - 2 \in Nat /\ N - 2 \in 0 .. N - 1
  <2>1. N >= 2 => (N - 1) * Slots = (N - 2) * Slots + Slots
    <3>1. N - 1 \in Nat /\ (N >= 2 => N - 1 >= 1) /\ (N - 1) - 1 = N - 2
      BY <1>0
    <3>2. QED
      BY <3>1, MoreSectors
  <2>2. N - 1 \in Nat
    BY <1>0
  <2>3. (N - 1) * Slots \in Nat
    BY <2>2, MoreSectors
  <2>4. QED
    BY <1>0, <2>1, <2>2, <2>3
<1>4. /\ e \in Sectors /\ header[e] = label[e] /\ header[e].owner = r /\ header[e].session = m
      /\ WellFilled(e) /\ header[e].owner \in Rings
  BY <1>1, <1>3
<1>5. PICK whole \in Nat :
        /\ whole <= Slots
        /\ \A i \in Places : Whole(e, i) <=> i < whole
        /\ \/ TailOf(r, e) = whole
           \/ /\ r = "diagnostics" /\ TailOf(r, e) = whole + 1
              /\ whole \in Places /\ slots[e][whole] = Torn
  BY <1>0, <1>4, TailEnds
<1>. PICK K : K = (N - 1) * Slots + whole
  OBVIOUS
<1>6. K \in Nat
  BY <1>3
<1>7. ASSUME NEW a \in Nat, NEW b \in Places, a * Slots + b < K
      PROVE  /\ a \in 0 .. N - 1 /\ Whole(Nth(r, m, a), b)
             /\ ReadRecord(r, m, a * Slots + b) = slots[Nth(r, m, a)][b]
  BY <1>0, <1>5, <1>7, SessionRecords, ReadAt
<1>8. m # 0
  BY Consts
<1>9. \/ Listing(r, m).records = K
      \/ r = "diagnostics" /\ Listing(r, m).records = K + 1 /\ ReadRecord(r, m, K) = Torn
  <2>1. Listing(r, m).records = (N - 1) * Slots + TailOf(r, e)
    BY DEF Listing
  <2>2. CASE TailOf(r, e) = whole
    BY <2>1, <2>2
  <2>3. CASE /\ r = "diagnostics" /\ TailOf(r, e) = whole + 1
             /\ whole \in Places /\ slots[e][whole] = Torn
    <3>1. ReadRecord(r, m, K) = slots[e][whole]
      BY <1>3, <2>3, ReadAt
    <3>2. Listing(r, m).records = K + 1
      BY <1>3, <2>1, <2>3
    <3>3. QED
      BY <2>3, <3>1, <3>2
  <2>4. QED
    BY <1>5, <2>2, <2>3
<1>10. ASSUME NEW x \in 0 .. K - 1
       PROVE  /\ ReadRecord(r, m, x).session = m
              /\ x > 0 => ReadRecord(r, m, x).number = ReadRecord(r, m, x - 1).number + 1
  <2>0. x \in Nat /\ x < K
    BY <1>6
  <2>1. PICK a \in Nat, b \in Places : x = a * Slots + b
    BY <2>0, PlaceOf
  <2>. PICK s : s = Nth(r, m, a)
    OBVIOUS
  <2>2. a \in 0 .. N - 1 /\ Whole(s, b) /\ ReadRecord(r, m, x) = slots[s][b]
    BY <1>7, <2>0, <2>1
  <2>3. s \in Sectors /\ WellFilled(s) /\ header[s].owner = r /\ header[s].session = m
    BY <1>1, <2>2
  <2>4. slots[s][b].session = m
    BY <1>2, <2>2, <2>3 DEF WellFilled, Whole
  <2>5. ASSUME x > 0
        PROVE  ReadRecord(r, m, x).number = ReadRecord(r, m, x - 1).number + 1
    <3>0. b \in Nat /\ a * Slots \in Nat /\ b < Slots
      BY <1>2, MoreSectors
    <3>1. CASE b > 0
      <4>. PICK c : c = b - 1
        OBVIOUS
      <4>1. c \in Places /\ c <= b /\ x - 1 = a * Slots + c /\ x - 1 < K /\ b - c = 1
        <5>1. c \in Nat /\ c < Slots
          BY <1>2, <3>0, <3>1
        <5>2. QED
          BY <1>2, <1>6, <2>0, <2>1, <3>0, <3>1, <5>1
      <4>2. ReadRecord(r, m, x - 1) = slots[s][c]
        BY <1>7, <4>1
      <4>3. slots[s][b].number = slots[s][c].number + (b - c)
        BY <2>2, <2>3, <4>1 DEF WellFilled
      <4>4. QED
        BY <2>2, <4>1, <4>2, <4>3
    <3>2. CASE b = 0
      <4>1. a >= 1
        <5>1. CASE a = 0
          BY <1>2, <2>1, <2>5, <3>2, <5>1
        <5>2. QED
          BY <5>1
      <4>. PICK c, p : c = a - 1 /\ p = Nth(r, m, c)
        OBVIOUS
      <4>2. /\ c \in Nat /\ c + 1 = a /\ c \in 0 .. N - 2
            /\ a * Slots = c * Slots + Slots
        <5>1. c \in Nat /\ c + 1 = a /\ c \in 0 .. N - 2
          BY <1>0, <2>2, <4>1
        <5>2. QED
          BY <4>1, <5>1, MoreSectors
      <4>3. x - 1 = c * Slots + (Slots - 1) /\ x - 1 < K
        <5>1. c * Slots \in Nat
          BY <4>2, MoreSectors
        <5>2. QED
          BY <1>2, <1>6, <2>0, <2>1, <3>2, <4>2, <5>1
      <4>4. ReadRecord(r, m, x - 1) = slots[p][Slots - 1]
        BY <1>2, <1>7, <4>2, <4>3
      <4>5. Chained(p, s) /\ NoneBetween(p, s)
        BY <1>1, <4>2
      <4>6. slots[s][0].number = slots[p][Slots - 1].number + 1
        BY <2>2, <3>2, <4>5 DEF Chained
      <4>7. QED
        BY <2>2, <3>2, <4>4, <4>6
    <3>3. QED
      BY <3>0, <3>1, <3>2
  <2>6. QED
    BY <2>2, <2>4, <2>5
<1>11. ASSUME ~Listing(r, m).truncated, K > 0
       PROVE  ReadRecord(r, m, 0).number = 1
  <2>. PICK s : s = Nth(r, m, 0)
    OBVIOUS
  <2>1. label[s].start
    BY <1>11 DEF Listing
  <2>2. 0 = 0 * Slots + 0 /\ 0 \in Nat
    BY <1>2
  <2>3. Whole(s, 0) /\ ReadRecord(r, m, 0) = slots[s][0]
    BY <1>2, <1>7, <1>11, <2>2
  <2>4. WellFilled(s) /\ header[s] = label[s]
    BY <1>1, <1>3
  <2>5. QED
    BY <2>1, <2>3, <2>4 DEF WellFilled
<1>12. Recorded(r, m)
  BY <1>0 DEF PartFilled
<1>13. IF Whole(e, 0)
       THEN \A i \in Places : Whole(e, i) /\ (i + 1 \in Places => ~Whole(e, i + 1)) =>
              slots[e][i].number >= written[r][m]
       ELSE /\ header[e].start /\ Others(r, m, e) = {} => written[r][m] = 0
            /\ \A p \in Sectors : LastBut(r, m, e, p) => slots[p][Slots - 1].number >= written[r][m]
  BY <1>1, <1>4, <1>12 DEF Recorded
<1>14. ASSUME K > 0
       PROVE  ReadRecord(r, m, K - 1).number >= written[r][m]
  <2>1. CASE whole > 0
    <3>. PICK c : c = whole - 1
      OBVIOUS
    <3>1. c \in Nat /\ c < Slots /\ c < whole /\ c + 1 = whole
      BY <1>2, <1>5, <2>1
    <3>2. c \in Places
      BY <1>2, <3>1
    <3>3. Whole(e, c) /\ (c + 1 \in Places => ~Whole(e, c + 1)) /\ Whole(e, 0)
      <4>1. Whole(e, c)
        BY <1>5, <3>1, <3>2
      <4>2. c + 1 \in Places => ~Whole(e, c + 1)
        <5>1. ~ (c + 1 < whole)
          BY <3>1
        <5>2. QED
          BY <1>5, <5>1
      <4>3. Whole(e, 0)
        BY <1>2, <1>5, <2>1
      <4>4. QED
        BY <4>1, <4>2, <4>3
    <3>4. slots[e][c].number >= written[r][m]
      BY <1>13, <3>2, <3>3
    <3>5. K - 1 = (N - 1) * Slots + c /\ K - 1 < K
      BY <1>3, <1>6, <3>1
    <3>6. ReadRecord(r, m, K - 1) = slots[e][c]
      BY <1>3, <1>7, <3>2, <3>5
    <3>7. QED
      BY <3>4, <3>6
  <2>2. CASE whole = 0
    <3>1. N >= 2
      <4>1. CASE N = 1
        BY <1>2, <1>14, <2>2, <4>1
      <4>2. QED
        BY <1>0, <4>1
    <3>. PICK c, p : c = N - 2 /\ p = Nth(r, m, c)
      OBVIOUS
    <3>2. c \in Nat /\ c \in 0 .. N - 1 /\ (N - 1) * Slots = c * Slots + Slots
      BY <1>3, <3>1
    <3>3. K - 1 = c * Slots + (Slots - 1) /\ K - 1 < K
      <4>1. c * Slots \in Nat
        BY <3>2, MoreSectors
      <4>2. QED
        BY <1>2, <1>6, <2>2, <3>2, <4>1
    <3>4. ReadRecord(r, m, K - 1) = slots[p][Slots - 1]
      BY <1>2, <1>7, <3>2, <3>3
    <3>5. LastBut(r, m, e, p) /\ p \in Sectors
      BY <1>1, <3>1, <3>2
    <3>6. ~Whole(e, 0)
      BY <1>2, <1>5, <2>2
    <3>7. QED
      BY <1>13, <3>4, <3>5, <3>6
  <2>3. QED
    BY <1>5, <2>1, <2>2
<1>15. ASSUME ~ (K > 0), ~Listing(r, m).truncated
       PROVE  written[r][m] = 0
  <2>1. whole = 0 /\ N = 1
    <3>1. whole = 0 /\ (N - 1) * Slots = 0
      BY <1>3, <1>5, <1>15
    <3>2. N >= 2 => (N - 1) * Slots >= Slots
      <4>1. N >= 2 => (N - 2) * Slots \in Nat
        BY <1>3, MoreSectors
      <4>2. QED
        BY <1>2, <1>3, <4>1
    <3>3. ~ (N >= 2)
      <4>1. SUFFICES ASSUME N >= 2 PROVE FALSE
        OBVIOUS
      <4>. PICK product : product = (N - 1) * Slots
        OBVIOUS
      <4>2. product >= Slots /\ product = 0
        BY <3>1, <3>2, <4>1
      <4>3. QED
        BY <1>2, <4>2
    <3>4. QED
      BY <1>0, <3>1, <3>3
  <2>2. e = Nth(r, m, 0) /\ Others(r, m, e) = {}
    BY <1>1, <2>1
  <2>3. label[e].start
    BY <1>15, <2>2 DEF Listing
  <2>4. ~Whole(e, 0)
    BY <1>2, <1>5, <2>1
  <2>5. QED
    BY <1>4, <1>13, <2>2, <2>3, <2>4
<1>16. ReadsBack(r, m, K)
  BY <1>6, <1>9, <1>10, <1>11, <1>14, <1>15 DEF ReadsBack
<1>17. QED
  BY <1>6, <1>16

-----------------------------------------------------------------------------
(* What is listed is what was written.                                     *)

LEMMA ListsWhole ==
  ASSUME FilledInv, Refused = {}
  PROVE  ListedIsRead
<1> SUFFICES ASSUME work = Idle, NEW r \in Stores, NEW entry \in Index(r), entry.session > given[r]
             PROVE  LET read(i) == ReadRecord(r, entry.session, i)
                        last == entry.records - 1
                        whole == r = "diagnostics" /\ entry.records > 0 /\ read(last) = Torn
                        sound == IF whole THEN last - 1 ELSE last
                    IN /\ \A i \in 0 .. sound :
                            /\ read(i).session = entry.session
                            /\ i > 0 => read(i).number = read(i - 1).number + 1
                       /\ ~entry.truncated /\ sound >= 0 => read(0).number = 1
                       /\ IF sound >= 0
                          THEN read(sound).number >= written[r][entry.session]
                          ELSE entry.truncated \/ written[r][entry.session] = 0
  BY DEF ListedIsRead
<1>0. StoreInv /\ PartMatches /\ r \in Rings
  BY StoresAssumption DEF FilledInv
<1>1. PICK m \in Sessions : InSession(r, m) # {} /\ entry = Listing(r, m)
  BY <1>0, IndexLists
<1>2. entry.session = m
  BY <1>1 DEF Listing
<1>3. m > given[r]
  BY <1>2
<1>4. PICK K \in Nat : ReadsBack(r, m, K)
  BY <1>0, <1>1, <1>3, SessionReads
<1> DEFINE last == entry.records - 1
           whole == r = "diagnostics" /\ entry.records > 0 /\ ReadRecord(r, m, last) = Torn
           sound == IF whole THEN last - 1 ELSE last
<1>5. /\ \/ entry.records = K
         \/ r = "diagnostics" /\ entry.records = K + 1 /\ ReadRecord(r, m, K) = Torn
      /\ \A x \in 0 .. K - 1 :
           /\ ReadRecord(r, m, x).session = m
           /\ x > 0 => ReadRecord(r, m, x).number = ReadRecord(r, m, x - 1).number + 1
      /\ ~entry.truncated /\ K > 0 => ReadRecord(r, m, 0).number = 1
      /\ IF K > 0
         THEN ReadRecord(r, m, K - 1).number >= written[r][m]
         ELSE entry.truncated \/ written[r][m] = 0
  BY <1>1, <1>4 DEF ReadsBack
<1>6. sound = K - 1
  <2>1. CASE entry.records = K
    <3>1. last = K - 1
      BY <2>1
    <3>2. ~whole
      <4>1. SUFFICES ASSUME K > 0, ReadRecord(r, m, K - 1) = Torn PROVE FALSE
        BY <2>1, <3>1
      <4>2. K - 1 \in 0 .. K - 1
        BY <4>1
      <4>3. ReadRecord(r, m, K - 1).session = m
        BY <1>5, <4>2
      <4>4. QED
        BY <4>1, <4>3, RecordFacts, Consts
    <3> HIDE DEF whole, last
    <3>3. QED
      BY <3>1, <3>2
  <2>2. CASE r = "diagnostics" /\ entry.records = K + 1 /\ ReadRecord(r, m, K) = Torn
    <3>1. last = K /\ entry.records > 0
      BY <2>2
    <3>2. whole
      <4> HIDE DEF last
      <4>1. QED
        BY <2>2, <3>1
    <3> HIDE DEF whole, last
    <3>3. QED
      BY <3>1, <3>2
  <2>3. QED
    BY <1>5, <2>1, <2>2
<1>7. sound >= 0 <=> K > 0
  <2> HIDE DEF sound
  <2>1. QED
    BY <1>6
<1> HIDE DEF sound
<1>8. /\ \A i \in 0 .. sound :
           /\ ReadRecord(r, m, i).session = m
           /\ i > 0 => ReadRecord(r, m, i).number = ReadRecord(r, m, i - 1).number + 1
      /\ ~entry.truncated /\ sound >= 0 => ReadRecord(r, m, 0).number = 1
      /\ IF sound >= 0
         THEN ReadRecord(r, m, sound).number >= written[r][m]
         ELSE entry.truncated \/ written[r][m] = 0
  BY <1>5, <1>6, <1>7
<1>9. QED
  BY <1>2, <1>8 DEF sound, whole, last

LEMMA TruncatedIsLost ==
  ASSUME FilledInv
  PROVE  TruncatedLostStart
<1> SUFFICES ASSUME work = Idle, NEW r \in Stores, NEW entry \in Index(r), entry.truncated,
                    ReadRecord(r, entry.session, 0) = [session |-> entry.session, number |-> 1]
             PROVE  FALSE
  BY DEF TruncatedLostStart
<1>0. StoreInv /\ IInv /\ TypeOK /\ PartMatches /\ PartFilled /\ r \in Rings
  BY StoresAssumption DEF FilledInv, StoreInv, IInv
<1>1. PICK m \in Sessions : InSession(r, m) # {} /\ entry = Listing(r, m)
  BY <1>0, IndexLists
<1>. PICK s : s = Nth(r, m, 0)
  OBVIOUS
<1>2. entry.session = m /\ (entry.truncated <=> ~label[s].start) /\ m # 0
  BY <1>1, Consts DEF Listing
<1>3. s \in Sectors /\ label[s].owner = r
  <2>1. 0 \in 0 .. Cardinality(InSession(r, m)) - 1
    BY <1>0, <1>1, SessionCounted
  <2>2. s \in InSession(r, m)
    BY <1>0, <2>1, NthIs
  <2>3. QED
    BY <2>2 DEF InSession, OwnedBy
<1>4. 0 \in Places /\ 0 \in Nat /\ 0 = 0 * Slots + 0 /\ \A i \in Places : Blank[i] = Erased
      /\ Erased.session = 0
  BY PlacesFacts, RecordFacts
<1>5. slots[s][0] = [session |-> m, number |-> 1]
  BY <1>2, <1>4, ReadAt
<1>6. slots[s][0].session = m /\ slots[s][0].number = 1
  BY <1>5
<1>7. header[s] = label[s] \/ slots[s] = Blank
  BY <1>0, <1>3, MatchedIdle
<1>8. header[s] = label[s]
  BY <1>2, <1>4, <1>6, <1>7
<1>9. WellFilled(s) /\ Whole(s, 0)
  BY <1>0, <1>2, <1>3, <1>6, <1>8 DEF PartFilled, Whole
<1>10. header[s].start
  BY <1>6, <1>9 DEF WellFilled
<1>11. QED
  BY <1>2, <1>8, <1>10

LEMMA AlwaysFilled ==
  Refused = {} /\ "room" \notin Requests => (StoreSpec => []FilledInv)
<1> SUFFICES ASSUME Refused = {}, "room" \notin Requests PROVE StoreSpec => []FilledInv
  OBVIOUS
<1>1. FilledInv /\ [StoreNext]_storeVars => FilledInv'
  BY FilledStep
<1>2. QED
  BY <1>1, FilledInit, PTL DEF StoreSpec

\* Where the part refuses nothing and the capture names no spare for its room,
\* every session listed and not given up reads back from its first record, or
\* from the one its lost sectors leave, without a hole, up to the last record
\* append() answered Ok for; and one listed truncated has lost its opening
\* (record_store.cpp append, index, read and recover).
THEOREM AlwaysWholeOrTruncated ==
  Refused = {} /\ "room" \notin Requests => (StoreSpec => []WholeOrTruncated)
<1> SUFFICES ASSUME Refused = {}, "room" \notin Requests PROVE StoreSpec => []WholeOrTruncated
  OBVIOUS
<1>1. FilledInv => WholeOrTruncated
  BY ListsWhole, TruncatedIsLost DEF WholeOrTruncated
<1>2. StoreSpec => []FilledInv
  BY AlwaysFilled
<1>3. QED
  BY <1>1, <1>2, PTL

=============================================================================
