---------------------------- MODULE CaptureProofs ----------------------------
(***************************************************************************)
(* What a diagnostics capture keeps for every size of its ring, its passes, *)
(* its sectors and its pool, and every answer of its store: proofs about    *)
(* Capture.                                                                *)
(***************************************************************************)
EXTENDS Capture, SequenceTheorems, WellFoundedInduction, TLAPS

-----------------------------------------------------------------------------
(* The words of the invariant.                                             *)

\* What the ring in RAM may hold: the markers go straight to the store.
RingKinds == {"sample", "boot", "config", "dropped"}

\* No sector will be found, and the open one has no slot but the reserved.
NoRoom(s) == Claimed(s) = {} /\ SlotsLeft(s) <= TailSlotsReserved

HasEnd(file) == \E i \in DOMAIN file : file[i].kind = "end"
Ends(file) ==
  \A i \in DOMAIN file : file[i].kind = "end" =>
    \A j \in DOMAIN file : j > i => file[j].kind = "stopped"

-----------------------------------------------------------------------------
(* The file: the sectors of the session, one behind the other.  Stored is a *)
(* loop over them; what it gives is shown of any sectors.                  *)

\* A set of numbers has a least one: what an induction would be used for.
LEMMA LeastOf ==
  ASSUME NEW S \in SUBSET Nat, S # {}
  PROVE  \E m \in S : \A n \in S : m <= n
<1>1. PICK m \in S : \A n \in S : <<n, m>> \notin OpToRel(<, Nat)
  BY NatLessThanWellFounded, WFMin
<1>2. \A n \in S : ~ (n < m)
  BY <1>1 DEF OpToRel
<1>3. QED
  BY <1>2

Run == Seq(Records)
Files == Seq(Run)

\* The sectors of a session are runs of records.
LEMMA FilesAre ==
  ASSUME NEW ss \in Files
  PROVE  Len(ss) \in Nat /\ (\A i \in 1 .. Len(ss) : ss[i] \in Run) /\ (Len(ss) = 0 <=> ss = <<>>)
<1>1. Len(ss) \in Nat /\ ss \in [1 .. Len(ss) -> Run]
  BY LenProperties DEF Files
<1>2. Len(ss) = 0 <=> ss = <<>>
  BY <1>1, EmptySeq DEF Files
<1>3. QED
  BY <1>1, <1>2

\* Runs join into runs, and the empty one adds nothing.
LEMMA RunsJoin ==
  ASSUME NEW r \in Run, NEW s \in Run
  PROVE  r \o s \in Run /\ <<>> \in Run /\ <<>> \o r = r /\ r \o <<>> = r
  BY ConcatProperties, ConcatEmptySeq, EmptySeq DEF Run

\* It does not matter which are joined first.
LEMMA RunsAssociate ==
  ASSUME NEW r \in Run, NEW s \in Run, NEW t \in Run
  PROVE  (r \o s) \o t = r \o (s \o t)
  BY ConcatAssociative DEF Run

\* The loop as Stored writes it, and the file it ends with.
Joined(ss) ==
  CHOOSE upTo : upTo = [i \in 0 .. Len(ss) |-> IF i = 0 THEN <<>> ELSE upTo[i - 1] \o ss[i]]
File(ss) == Joined(ss)[Len(ss)]

\* What Capture's properties call Stored is the file of the store's sectors.
LEMMA StoredIsFile == Stored = File(store.sectors)
  BY DEF Stored, File, Joined

\* A loop that joins runs exists, for as many as there are.
LEMMA JoinedDefined ==
  ASSUME NEW ss \in Files
  PROVE  Joined(ss) = [i \in 0 .. Len(ss) |-> IF i = 0 THEN <<>> ELSE Joined(ss)[i - 1] \o ss[i]]
<1> DEFINE Runs(f, m) == f = [i \in 0 .. m |-> IF i = 0 THEN <<>> ELSE f[i - 1] \o ss[i]]
           lack == {m \in Nat : ~ \E f : Runs(f, m)}
<1>1. ASSUME lack # {} PROVE FALSE
  <2>1. PICK m \in lack : \A n \in lack : m <= n
    BY <1>1, LeastOf
  <2>2. CASE m = 0
    <3> DEFINE f == [i \in 0 .. 0 |-> <<>>]
    <3>1. f = [i \in 0 .. 0 |-> IF i = 0 THEN <<>> ELSE f[i - 1] \o ss[i]]
      OBVIOUS
    <3>2. Runs(f, 0)
      BY <3>1
    <3>3. QED
      BY <2>1, <2>2, <3>2
  <2>3. CASE m > 0
    <3>1. m \in Nat /\ m - 1 \in Nat /\ m - 1 \notin lack
      <4>1. m \in Nat /\ m - 1 \in Nat /\ ~ (m <= m - 1)
        BY <2>1, <2>3
      <4> HIDE DEF Runs
      <4>2. QED
        BY <2>1, <4>1
    <3>2. PICK f : Runs(f, m - 1)
      BY <3>1
    <3> DEFINE g == [i \in 0 .. m |-> IF i = m THEN f[m - 1] \o ss[m] ELSE f[i]]
    <3>3. \A i \in 0 .. m - 1 : f[i] = IF i = 0 THEN <<>> ELSE f[i - 1] \o ss[i]
      BY <3>2
    <3>4. \A i \in 0 .. m - 1 : i \in 0 .. m /\ i # m /\ g[i] = f[i]
      BY <3>1
    <3>5. ASSUME NEW i \in 0 .. m
          PROVE  g[i] = IF i = 0 THEN <<>> ELSE g[i - 1] \o ss[i]
      <4>1. CASE i = m
        <5>1. m - 1 \in 0 .. m - 1 /\ i # 0
          BY <2>3, <3>1, <4>1
        <5>2. QED
          BY <3>4, <4>1, <5>1
      <4>2. CASE i # m
        <5>1. i \in 0 .. m - 1 /\ (i # 0 => i - 1 \in 0 .. m - 1)
          BY <3>1, <4>2
        <5>2. QED
          BY <3>3, <3>4, <5>1
      <4>3. QED
        BY <4>1, <4>2
    <3>6. g = [i \in 0 .. m |-> g[i]]
      OBVIOUS
    <3> HIDE DEF g
    <3>7. Runs(g, m)
      BY <3>5, <3>6
    <3>8. QED
      BY <2>1, <3>1, <3>7
  <2>4. QED
    BY <2>1, <2>2, <2>3
<1>2. Len(ss) \in Nat /\ Len(ss) \notin lack
  <2>1. Len(ss) \in Nat
    BY FilesAre
  <2> HIDE DEF Runs
  <2>2. QED
    BY <1>1, <2>1
<1>3. \E f : Runs(f, Len(ss))
  BY <1>2
<1>4. QED
  BY <1>3 DEF Joined

\* What the loop holds at its start, after each sector, and of what type.
LEMMA JoinedIs ==
  ASSUME NEW ss \in Files
  PROVE  /\ Joined(ss)[0] = <<>>
         /\ \A i \in 1 .. Len(ss) : Joined(ss)[i] = Joined(ss)[i - 1] \o ss[i]
         /\ \A i \in 0 .. Len(ss) : Joined(ss)[i] \in Run
<1> DEFINE up == Joined(ss)
<1>1. Len(ss) \in Nat /\ \A i \in 1 .. Len(ss) : ss[i] \in Run
  BY FilesAre
<1>2. \A i \in 0 .. Len(ss) : up[i] = IF i = 0 THEN <<>> ELSE up[i - 1] \o ss[i]
  BY JoinedDefined
<1> HIDE DEF up
<1>3. up[0] = <<>> /\ \A i \in 1 .. Len(ss) : i - 1 \in 0 .. Len(ss) /\ up[i] = up[i - 1] \o ss[i]
  <2>1. 0 \in 0 .. Len(ss) /\ \A i \in 1 .. Len(ss) : i \in 0 .. Len(ss) /\ i # 0 /\ i - 1 \in 0 .. Len(ss)
    BY <1>1
  <2>2. QED
    BY <1>2, <2>1
<1> DEFINE odd == {i \in 0 .. Len(ss) : up[i] \notin Run}
<1>4. ASSUME odd # {} PROVE FALSE
  <2>1. PICK i \in odd : \A j \in odd : i <= j
    <3>1. odd \in SUBSET Nat
      BY <1>1
    <3> HIDE DEF odd
    <3>2. QED
      BY <1>4, <3>1, LeastOf
  <2>2. i # 0
    BY <1>3, EmptySeq DEF Run
  <2>3. i \in 1 .. Len(ss) /\ i - 1 \in 0 .. Len(ss) /\ ~ (i <= i - 1)
    BY <1>1, <2>1, <2>2
  <2>4. up[i - 1] \in Run
    BY <2>1, <2>3
  <2>5. up[i] \in Run
    BY <1>1, <1>3, <2>3, <2>4, RunsJoin
  <2>6. QED
    BY <2>1, <2>5
<1>5. QED
  BY <1>3, <1>4 DEF up

\* The file is a run; of no sector, the empty one.
LEMMA FileIs == ASSUME NEW ss \in Files PROVE File(ss) \in Run /\ (ss = <<>> => File(ss) = <<>>)
<1>1. Len(ss) \in Nat /\ (ss = <<>> => Len(ss) = 0)
  BY FilesAre
<1>2. Len(ss) \in 0 .. Len(ss)
  BY <1>1
<1>3. QED
  BY <1>1, <1>2, JoinedIs DEF File

\* Sectors that begin alike make files that begin alike.
LEMMA JoinedAgree ==
  ASSUME NEW ss \in Files, NEW tt \in Files, NEW n \in Nat, n <= Len(ss), n <= Len(tt),
         \A i \in 1 .. n : ss[i] = tt[i]
  PROVE  Joined(ss)[n] = Joined(tt)[n]
<1> DEFINE odd == {i \in 0 .. n : Joined(ss)[i] # Joined(tt)[i]}
<1>1. Len(ss) \in Nat /\ Len(tt) \in Nat
  BY FilesAre
<1>2. ASSUME odd # {} PROVE FALSE
  <2>1. PICK i \in odd : \A j \in odd : i <= j
    <3>1. odd \in SUBSET Nat
      OBVIOUS
    <3> HIDE DEF odd
    <3>2. QED
      BY <1>2, <3>1, LeastOf
  <2>2. i # 0
    BY <2>1, JoinedIs
  <2>3. /\ i \in 1 .. n /\ i - 1 \in 0 .. n /\ ~ (i <= i - 1)
        /\ i \in 1 .. Len(ss) /\ i \in 1 .. Len(tt)
    BY <1>1, <2>1, <2>2
  <2>4. Joined(ss)[i - 1] = Joined(tt)[i - 1]
    BY <2>1, <2>3
  <2>5. Joined(ss)[i] = Joined(ss)[i - 1] \o ss[i] /\ Joined(tt)[i] = Joined(tt)[i - 1] \o tt[i]
    BY <2>3, JoinedIs
  <2>6. QED
    BY <2>1, <2>3, <2>4, <2>5
<1>3. QED
  BY <1>2

\* A sector more, and a sector that grew.
LEMMA FileAppend ==
  ASSUME NEW ss \in Files, NEW run \in Run
  PROVE  Append(ss, run) \in Files /\ File(Append(ss, run)) = File(ss) \o run
<1> DEFINE tt == Append(ss, run)
<1>1. /\ tt \in Files /\ Len(ss) \in Nat /\ Len(tt) = Len(ss) + 1
      /\ tt[Len(ss) + 1] = run /\ \A i \in 1 .. Len(ss) : tt[i] = ss[i]
  BY AppendProperties, FilesAre DEF Files
<1> HIDE DEF tt
<1>2. Joined(tt)[Len(ss)] = Joined(ss)[Len(ss)]
  BY <1>1, JoinedAgree
<1>3. Joined(tt)[Len(ss) + 1] = Joined(tt)[Len(ss)] \o tt[Len(ss) + 1]
  <2> DEFINE n == Len(ss) + 1
  <2>1. n \in 1 .. Len(tt) /\ n - 1 = Len(ss)
    BY <1>1
  <2>2. Joined(tt)[n] = Joined(tt)[n - 1] \o tt[n]
    BY <1>1, <2>1, JoinedIs
  <2>3. QED
    BY <2>1, <2>2
<1>4. QED
  BY <1>1, <1>2, <1>3 DEF File, tt

\* A run written into the open sector stands at the end of the file.
LEMMA FileExtend ==
  ASSUME NEW ss \in Files, Len(ss) > 0, NEW run \in Run
  PROVE  LET tt == [ss EXCEPT ![Len(ss)] = @ \o run]
         IN /\ tt \in Files /\ Len(tt) = Len(ss) /\ tt[Len(ss)] = ss[Len(ss)] \o run
            /\ \A i \in 1 .. Len(ss) - 1 : tt[i] = ss[i]
            /\ File(tt) = File(ss) \o run
<1> DEFINE n == Len(ss)
           tt == [ss EXCEPT ![n] = ss[n] \o run]
<1>1. n \in Nat /\ n \in 1 .. n /\ n - 1 \in Nat /\ n - 1 \in 0 .. n /\ ss[n] \in Run
  BY FilesAre
<1>2. ss[n] \o run \in Run
  BY <1>1, RunsJoin
<1>3. /\ tt \in Files /\ Len(tt) = n /\ tt[n] = ss[n] \o run
      /\ \A i \in 1 .. n - 1 : tt[i] = ss[i]
  BY <1>1, <1>2, ExceptSeq DEF Files
<1> HIDE DEF tt
<1>4. Joined(tt)[n - 1] = Joined(ss)[n - 1]
  BY <1>1, <1>3, JoinedAgree
<1>5. /\ Joined(tt)[n] = Joined(tt)[n - 1] \o (ss[n] \o run)
      /\ Joined(ss)[n] = Joined(ss)[n - 1] \o ss[n]
  BY <1>1, <1>3, JoinedIs
<1>6. Joined(tt)[n] = Joined(ss)[n] \o run
  <2>1. Joined(ss)[n - 1] \in Run
    BY <1>1, JoinedIs
  <2>2. (Joined(ss)[n - 1] \o ss[n]) \o run = Joined(ss)[n - 1] \o (ss[n] \o run)
    BY <1>1, <2>1, RunsAssociate
  <2>3. QED
    BY <1>4, <1>5, <2>2
<1>7. QED
  BY <1>3, <1>6 DEF File, tt

\* The oldest sector stands first, so that to lose it shortens the file there.
LEMMA FileTail ==
  ASSUME NEW ss \in Files, Len(ss) > 0
  PROVE  Tail(ss) \in Files /\ ss[1] \in Run /\ File(ss) = ss[1] \o File(Tail(ss))
<1> DEFINE tt == Tail(ss)
<1>1. ss # <<>> /\ Len(ss) \in Nat /\ ss[1] \in Run
  BY FilesAre
<1>2. /\ tt \in Files /\ Len(tt) = Len(ss) - 1 /\ Len(tt) \in Nat
      /\ \A i \in 1 .. Len(tt) : tt[i] = ss[i + 1]
  BY <1>1, HeadTailProperties DEF Files
<1> HIDE DEF tt
<1> DEFINE odd == {i \in 0 .. Len(tt) : Joined(ss)[i + 1] # ss[1] \o Joined(tt)[i]}
<1>3. ASSUME odd # {} PROVE FALSE
  <2>1. PICK i \in odd : \A j \in odd : i <= j
    <3>1. 0 .. Len(tt) \subseteq Nat
      BY <1>2
    <3>2. odd \subseteq 0 .. Len(tt)
      OBVIOUS
    <3> HIDE DEF odd
    <3>3. odd \in SUBSET Nat
      BY <3>1, <3>2
    <3>4. QED
      BY <1>3, <3>3, LeastOf
  <2>2. CASE i = 0
    <3>1. Joined(ss)[0] = <<>> /\ Joined(tt)[0] = <<>>
      BY <1>2, JoinedIs
    <3>2. Joined(ss)[1] = <<>> \o ss[1]
      <4>1. 1 \in 1 .. Len(ss) /\ 1 - 1 = 0
        BY <1>1
      <4>2. QED
        BY <3>1, <4>1, JoinedIs
    <3>3. <<>> \o ss[1] = ss[1] /\ ss[1] \o <<>> = ss[1]
      BY <1>1, RunsJoin
    <3>4. Joined(ss)[0 + 1] = ss[1] \o Joined(tt)[0]
      BY <3>1, <3>2, <3>3
    <3>5. QED
      BY <2>1, <2>2, <3>4
  <2>3. CASE i # 0
    <3>1. /\ i \in 1 .. Len(tt) /\ i - 1 \in 0 .. Len(tt) /\ ~ (i <= i - 1) /\ (i - 1) + 1 = i
          /\ i + 1 \in 1 .. Len(ss) /\ (i + 1) - 1 = i
      BY <1>2, <2>1, <2>3
    <3>2. Joined(ss)[i] = ss[1] \o Joined(tt)[i - 1]
      BY <2>1, <3>1
    <3>3. Joined(ss)[i + 1] = Joined(ss)[i] \o ss[i + 1]
      BY <3>1, JoinedIs
    <3>4. Joined(tt)[i] = Joined(tt)[i - 1] \o tt[i] /\ Joined(tt)[i - 1] \in Run /\ tt[i] \in Run
      BY <1>2, <3>1, JoinedIs, FilesAre
    <3>5. (ss[1] \o Joined(tt)[i - 1]) \o tt[i] = ss[1] \o Joined(tt)[i]
      <4>1. Joined(tt)[i - 1] \in Run /\ tt[i] \in Run
        BY <3>4
      <4>2. (ss[1] \o Joined(tt)[i - 1]) \o tt[i] = ss[1] \o (Joined(tt)[i - 1] \o tt[i])
        BY <1>1, <4>1, RunsAssociate
      <4>3. QED
        BY <3>4, <4>2
    <3>6. QED
      BY <1>2, <2>1, <3>1, <3>2, <3>3, <3>5
  <2>4. QED
    BY <2>2, <2>3
<1>4. Len(tt) \in 0 .. Len(tt) /\ Len(tt) + 1 = Len(ss)
  BY <1>1, <1>2
<1>5. QED
  BY <1>1, <1>2, <1>3, <1>4 DEF File, tt

-----------------------------------------------------------------------------
(* The store.                                                              *)

Spares == {"none", "reserved", "ready"}
Stores == [sectors : Files, old : 0 .. Pool, unseen : Nat, spare : Spares, free : 0 .. Pool]
Holding(s) == s.free + s.old + Len(s.sectors) + (IF s.spare = "none" THEN 0 ELSE 1)
SectorsFit(ss) == \A i \in 1 .. Len(ss) : Len(ss[i]) \in 1 .. Slots
StoreOK(s) == s \in Stores /\ SectorsFit(s.sectors) /\ Holding(s) <= Pool

\* What the pool took, it took from the front of the file.
Shed(s, t) == \E x \in Run : File(s.sectors) = x \o File(t.sectors)

\* The sizes, as the provers use them.
LEMMA Bounds ==
  /\ Capacity \in Nat /\ Capacity > 0 /\ Ceiling \in Nat /\ Ceiling > 0
  /\ Slots \in Nat /\ Slots > 0 /\ Pool \in Nat
  BY CapacityAssumption, CeilingAssumption, SlotsAssumption, PoolAssumption

\* The same sectors make the same file.
LEMMA ShedNothing ==
  ASSUME NEW s, NEW t, s.sectors \in Files, t.sectors = s.sectors
  PROVE  Shed(s, t)
<1>1. File(s.sectors) \in Run
  BY FileIs
<1>2. <<>> \in Run /\ <<>> \o File(s.sectors) = File(s.sectors)
  BY <1>1, RunsJoin
<1>3. QED
  BY <1>2 DEF Shed

\* Only an open sector has slots left, those its records do not fill.
LEMMA SlotsLeftIs ==
  ASSUME NEW s, StoreOK(s)
  PROVE  /\ SlotsLeft(s) \in 0 .. Slots
         /\ SlotsLeft(s) > 0 => Len(s.sectors) > 0
         /\ Len(s.sectors) > 0 => SlotsLeft(s) = Slots - Len(s.sectors[Len(s.sectors)])
<1>1. /\ s.sectors \in Files /\ Len(s.sectors) \in Nat /\ (Len(s.sectors) = 0 <=> s.sectors = <<>>)
  BY FilesAre DEF StoreOK, Stores
<1>2. Len(s.sectors) > 0 => Len(s.sectors[Len(s.sectors)]) \in 1 .. Slots
  <2>1. Len(s.sectors) > 0 => Len(s.sectors) \in 1 .. Len(s.sectors)
    BY <1>1
  <2>2. QED
    BY <2>1 DEF StoreOK, SectorsFit
<1> DEFINE last == Len(s.sectors[Len(s.sectors)])
<1>3. SlotsLeft(s) = IF Len(s.sectors) = 0 THEN 0 ELSE Slots - last
  BY <1>1 DEF SlotsLeft
<1>4. Len(s.sectors) = 0 \/ (Len(s.sectors) > 0 /\ last \in Nat /\ 1 <= last /\ last <= Slots)
  BY <1>1, <1>2, Bounds
<1> HIDE DEF last
<1>5. CASE Len(s.sectors) = 0
  BY <1>3, <1>5, Bounds
<1>6. CASE Len(s.sectors) > 0 /\ last \in Nat /\ 1 <= last /\ last <= Slots
  <2>1. SlotsLeft(s) = Slots - last
    BY <1>1, <1>3, <1>6
  <2>2. Slots - last \in 0 .. Slots
    BY <1>6, Bounds
  <2>3. QED
    BY <1>6, <2>1, <2>2 DEF last
<1>7. QED
  BY <1>4, <1>5, <1>6

\* What a store holds, where it changes.
LEMMA HoldingIs ==
  ASSUME NEW s \in Stores
  PROVE  /\ Holding(s) \in Nat
         /\ s.free \in Nat /\ s.old \in Nat /\ s.unseen \in Nat /\ s.sectors \in Files
         /\ s.spare \in Spares /\ Len(s.sectors) \in Nat
         /\ s.spare # "none" => Holding(s) = s.free + s.old + Len(s.sectors) + 1
         /\ s.spare = "none" => Holding(s) = s.free + s.old + Len(s.sectors)
<1>1. /\ s.free \in 0 .. Pool /\ s.old \in 0 .. Pool /\ s.unseen \in Nat /\ s.sectors \in Files
      /\ s.spare \in Spares
  BY DEF Stores
<1>2. /\ s.free \in Nat /\ s.old \in Nat /\ Len(s.sectors) \in Nat
  BY <1>1, FilesAre, Bounds
<1>3. s.spare # "none" => Holding(s) = s.free + s.old + Len(s.sectors) + 1
  BY DEF Holding
<1>4. s.spare = "none" => Holding(s) = s.free + s.old + Len(s.sectors)
  BY <1>2 DEF Holding
<1>5. Holding(s) \in Nat
  BY <1>2, <1>3, <1>4
<1>6. QED
  BY <1>1, <1>2, <1>3, <1>4, <1>5

\* choose(): one sector less, and the open one is not it.
LEMMA TakingsIs ==
  ASSUME NEW s, StoreOK(s), NEW t \in Takings(s)
  PROVE  /\ StoreOK(t) /\ Holding(t) = Holding(s) - 1 /\ Shed(s, t)
         /\ t.spare = s.spare /\ SlotsLeft(t) = SlotsLeft(s)
         /\ s.unseen <= t.unseen
<1> DEFINE ss == s.sectors
<1>1. /\ s \in Stores /\ ss \in Files /\ Len(ss) \in Nat /\ s.old \in Nat /\ s.free \in Nat
      /\ s.unseen \in Nat /\ s.spare \in Spares /\ Holding(s) \in Nat /\ Holding(s) <= Pool
  BY HoldingIs DEF StoreOK
<1>2. s.free \in 0 .. Pool /\ s.old \in 0 .. Pool /\ SectorsFit(ss) /\ Pool \in Nat
  BY Bounds DEF StoreOK, Stores
<1>3. ASSUME t.sectors = ss PROVE Shed(s, t) /\ SlotsLeft(t) = SlotsLeft(s) /\ SectorsFit(t.sectors)
  BY <1>1, <1>2, <1>3, ShedNothing DEF SlotsLeft
<1>4. ASSUME t \in Stores, t.spare = s.spare,
             ((t.free + t.old) + Len(t.sectors)) + 1 = (s.free + s.old) + Len(ss)
      PROVE  Holding(t) = Holding(s) - 1 /\ Holding(t) <= Pool
  <2>1. Holding(t) = Holding(s) - 1
    <3> DEFINE had == (s.free + s.old) + Len(ss)
               has == (t.free + t.old) + Len(t.sectors)
               kept == IF s.spare = "none" THEN 0 ELSE 1
    <3>1. Holding(s) = had + kept /\ Holding(t) = has + kept
      BY <1>4 DEF Holding
    <3>2. had \in Nat /\ kept \in Nat
      BY <1>1
    <3>3. has \in Nat /\ has + 1 = had
      <4>1. t.free \in Nat /\ t.old \in Nat /\ Len(t.sectors) \in Nat
        BY <1>4, HoldingIs
      <4>2. QED
        BY <1>4, <4>1
    <3> HIDE DEF had, has, kept
    <3>4. QED
      BY <3>1, <3>2, <3>3
  <2>2. QED
    BY <1>1, <1>2, <2>1
<1>5. CASE s.free > 0
  <2>1. t = [s EXCEPT !.free = s.free - 1]
    BY <1>5 DEF Takings
  <2>2. s.free - 1 \in 0 .. Pool
    BY <1>1, <1>2, <1>5
  <2>3. /\ t \in Stores /\ t.sectors = ss /\ t.free = s.free - 1 /\ t.old = s.old
        /\ t.spare = s.spare /\ t.unseen = s.unseen
    BY <1>1, <2>1, <2>2 DEF Stores
  <2>4. Holding(t) = Holding(s) - 1 /\ Holding(t) <= Pool
    <3>1. (((s.free - 1) + s.old) + Len(ss)) + 1 = (s.free + s.old) + Len(ss)
      <4>1. \A f, o, n \in Nat : (((f - 1) + o) + n) + 1 = (f + o) + n
        OBVIOUS
      <4>2. s.free \in Nat /\ s.old \in Nat /\ Len(ss) \in Nat
        BY <1>1
      <4>3. QED
        BY <4>1, <4>2
    <3>2. ((t.free + t.old) + Len(t.sectors)) + 1 = (s.free + s.old) + Len(ss)
      BY <2>3, <3>1
    <3>3. QED
      BY <1>4, <2>3, <3>2
  <2>5. QED
    BY <1>1, <1>3, <2>3, <2>4 DEF StoreOK
<1>6. CASE ~ (s.free > 0) /\ s.old = 0 /\ Len(ss) > 1
  <2>1. t = [s EXCEPT !.sectors = Tail(ss), !.unseen = s.unseen + 1]
    <3>1. ~ (s.old + Len(ss) <= 1)
      BY <1>1, <1>6
    <3>2. QED
      BY <1>6, <3>1 DEF Takings
  <2>2. /\ Tail(ss) \in Files /\ ss[1] \in Run /\ File(ss) = ss[1] \o File(Tail(ss))
        /\ Len(Tail(ss)) = Len(ss) - 1 /\ \A i \in 1 .. Len(Tail(ss)) : Tail(ss)[i] = ss[i + 1]
    <3>1. Len(ss) > 0 /\ Len(ss) # 0
      BY <1>1, <1>6
    <3>2. ss # <<>>
      BY <1>1, <3>1, FilesAre
    <3>3. ss \in Seq(Run)
      BY <1>1 DEF Files
    <3>4. QED
      BY <1>1, <3>1, <3>2, <3>3, FileTail, HeadTailProperties
  <2>3. /\ t \in Stores /\ t.sectors = Tail(ss) /\ t.free = s.free /\ t.old = s.old
        /\ t.spare = s.spare /\ t.unseen = s.unseen + 1
    <3>1. s.unseen + 1 \in Nat
      BY <1>1
    <3>2. QED
      BY <1>1, <2>1, <2>2, <3>1 DEF Stores
  <2> DEFINE tt == Tail(ss)
             n == Len(ss)
  <2>4. n \in Nat /\ n > 1 /\ tt \in Files /\ Len(tt) = n - 1 /\ \A i \in 1 .. n - 1 : tt[i] = ss[i + 1]
    BY <1>1, <1>6, <2>2
  <2>5. SectorsFit(tt)
    <3>1. \A i \in 1 .. n : Len(ss[i]) \in 1 .. Slots
      BY <1>2 DEF SectorsFit
    <3> HIDE DEF tt, n
    <3>2. \A i \in 1 .. n - 1 : i + 1 \in 1 .. n
      BY <2>4
    <3>3. QED
      BY <2>4, <3>1, <3>2 DEF SectorsFit
  <2>6. SlotsLeft(t) = SlotsLeft(s)
    <3>1. Len(tt) \in 1 .. n - 1 /\ Len(tt) + 1 = n /\ Len(tt) # 0 /\ n # 0
      <4> HIDE DEF tt, n
      <4>1. QED
        BY <2>4
    <3>2. tt[Len(tt)] = ss[n]
      <4> HIDE DEF tt, n
      <4>1. QED
        BY <2>4, <3>1
    <3>3. tt # <<>> /\ ss # <<>>
      BY <1>1, <2>4, <3>1, FilesAre
    <3>4. QED
      BY <2>3, <3>2, <3>3 DEF SlotsLeft
  <2>7. Shed(s, t)
    BY <2>2, <2>3 DEF Shed
  <2>8. Holding(t) = Holding(s) - 1 /\ Holding(t) <= Pool
    <3>1. ((t.free + t.old) + Len(t.sectors)) + 1 = (s.free + s.old) + Len(ss)
      BY <1>1, <2>2, <2>3
    <3>2. QED
      BY <1>4, <2>3, <3>1
  <2>9. QED
    BY <1>1, <2>3, <2>5, <2>6, <2>7, <2>8 DEF StoreOK
<1>7. CASE ~ (s.free > 0) /\ s.old > 0 /\ s.old + Len(ss) > 1
  <2>1. PICK n \in {0, 1} : t = [s EXCEPT !.old = s.old - 1, !.unseen = s.unseen + n]
    <3>1. ~ (s.old + Len(ss) <= 1) /\ s.old # 0
      BY <1>1, <1>7
    <3>2. QED
      BY <1>7, <3>1 DEF Takings
  <2>2. s.old - 1 \in 0 .. Pool /\ s.unseen + n \in Nat /\ s.unseen <= s.unseen + n
    BY <1>1, <1>2, <1>7
  <2>3. /\ t \in Stores /\ t.sectors = ss /\ t.free = s.free /\ t.old = s.old - 1
        /\ t.spare = s.spare /\ t.unseen = s.unseen + n
    BY <1>1, <2>1, <2>2 DEF Stores
  <2>4. Holding(t) = Holding(s) - 1 /\ Holding(t) <= Pool
    <3>1. ((s.free + (s.old - 1)) + Len(ss)) + 1 = (s.free + s.old) + Len(ss)
      BY <1>1
    <3>2. ((t.free + t.old) + Len(t.sectors)) + 1 = (s.free + s.old) + Len(ss)
      BY <2>3, <3>1
    <3>3. QED
      BY <1>4, <2>3, <3>2
  <2>5. QED
    BY <1>3, <2>2, <2>3, <2>4 DEF StoreOK
<1>8. s.free > 0 \/ (s.old + Len(ss) > 1 /\ (s.old = 0 => Len(ss) > 1) /\ (s.old = 0 \/ s.old > 0))
  <2>1. s.free > 0 \/ ~ (s.old + Len(ss) <= 1)
    BY DEF Takings
  <2>2. QED
    BY <1>1, <2>1
<1>9. QED
  BY <1>5, <1>6, <1>7, <1>8

\* prepare(): a spare, if one can be had.
LEMMA ReservedIs ==
  ASSUME NEW s, StoreOK(s), NEW t \in Reserved(s)
  PROVE  /\ StoreOK(t) /\ Shed(s, t) /\ SlotsLeft(t) = SlotsLeft(s)
         /\ t.spare # "none" /\ s.unseen <= t.unseen
<1>1. CASE s.spare # "none"
  <2>1. t = s /\ s.sectors \in Files /\ s.unseen \in Nat
    BY <1>1 DEF Reserved, StoreOK, Stores
  <2>2. QED
    BY <1>1, <2>1, ShedNothing
<1>2. CASE s.spare = "none"
  <2>1. PICK u \in Takings(s) : t = [u EXCEPT !.spare = "reserved"]
    BY <1>2 DEF Reserved
  <2>2. /\ StoreOK(u) /\ Holding(u) = Holding(s) - 1 /\ Shed(s, u)
        /\ u.spare = "none" /\ SlotsLeft(u) = SlotsLeft(s) /\ s.unseen <= u.unseen
    BY <1>2, TakingsIs
  <2>3. u \in Stores /\ Holding(u) = u.free + u.old + Len(u.sectors) /\ Holding(u) \in Nat
        /\ s \in Stores /\ Holding(s) \in Nat /\ Holding(s) <= Pool
    BY <2>2, HoldingIs DEF StoreOK
  <2>4. /\ t \in Stores /\ t.sectors = u.sectors /\ t.free = u.free /\ t.old = u.old
        /\ t.spare = "reserved" /\ t.unseen = u.unseen
    BY <2>1, <2>3 DEF Stores, Spares
  <2>5. Holding(t) = Holding(s) /\ Holding(s) <= Pool
    <3>1. Holding(t) = t.free + t.old + Len(t.sectors) + 1
      BY <2>4, HoldingIs
    <3>2. Holding(t) = Holding(u) + 1
      BY <2>3, <2>4, <3>1
    <3>3. QED
      BY <2>2, <2>3, <3>2
  <2>6. QED
    BY <2>2, <2>4, <2>5 DEF StoreOK, Shed, SlotsLeft
<1>3. QED
  BY <1>1, <1>2

\* claim(): room for a sector more.
LEMMA ClaimedIs ==
  ASSUME NEW s, StoreOK(s), NEW t \in Claimed(s)
  PROVE  /\ StoreOK(t) /\ Holding(t) < Pool /\ Shed(s, t) /\ s.unseen <= t.unseen
<1>1. CASE s.spare # "none"
  <2>1. t = [s EXCEPT !.spare = "none"]
    BY <1>1 DEF Claimed
  <2>2. /\ s \in Stores /\ Len(s.sectors) \in Nat /\ s.free \in Nat /\ s.old \in Nat /\ s.unseen \in Nat
        /\ s.sectors \in Files
    BY FilesAre DEF StoreOK, Stores
  <2>3. /\ t \in Stores /\ t.sectors = s.sectors /\ t.free = s.free /\ t.old = s.old
        /\ t.spare = "none" /\ t.unseen = s.unseen
    BY <2>1, <2>2 DEF Stores, Spares
  <2>4. Holding(t) = Holding(s) - 1 /\ Holding(s) <= Pool /\ Holding(s) \in Nat
    BY <1>1, <2>2, <2>3 DEF Holding, StoreOK
  <2>5. QED
    BY <2>2, <2>3, <2>4, Bounds, ShedNothing DEF StoreOK
<1>2. CASE s.spare = "none"
  <2>1. t \in Takings(s)
    BY <1>2 DEF Claimed
  <2>2. Holding(s) \in Nat /\ Holding(s) <= Pool
    BY FilesAre, Bounds DEF StoreOK, Stores, Holding
  <2>3. QED
    BY <2>1, <2>2, TakingsIs, Bounds
<1>3. QED
  BY <1>1, <1>2

\* Nothing can be claimed, or set aside, when there is no spare, no free
\* sector, and the open one is the last.
Bare(s) == s.spare = "none" /\ s.free = 0 /\ s.old + Len(s.sectors) <= 1

\* Claiming and setting aside fail together, on a bare pool.
LEMMA ClaimedNone ==
  ASSUME NEW s, StoreOK(s)
  PROVE  (Claimed(s) = {} <=> Bare(s)) /\ (Reserved(s) = {} <=> Bare(s))
<1>1. /\ s.free \in Nat /\ s.old \in Nat /\ Len(s.sectors) \in Nat
  BY HoldingIs DEF StoreOK
<1>2. Takings(s) = {} <=> s.free = 0 /\ s.old + Len(s.sectors) <= 1
  <2>1. CASE s.free > 0
    <3>1. [s EXCEPT !.free = @ - 1] \in Takings(s)
      BY <2>1 DEF Takings
    <3>2. QED
      BY <1>1, <2>1, <3>1
  <2>2. CASE ~ (s.free > 0) /\ s.old + Len(s.sectors) <= 1
    BY <1>1, <2>2 DEF Takings
  <2>3. CASE ~ (s.free > 0) /\ ~ (s.old + Len(s.sectors) <= 1)
    <3>1. CASE s.old = 0
      BY <1>1, <2>3, <3>1 DEF Takings
    <3>2. CASE s.old # 0
      <4>1. 0 \in (IF s.sectors = <<>> THEN {0, 1} ELSE {0})
        OBVIOUS
      <4>2. [s EXCEPT !.old = @ - 1, !.unseen = @ + 0] \in Takings(s)
        BY <2>3, <3>2, <4>1 DEF Takings
      <4>3. QED
        BY <2>3, <4>2
    <3>3. QED
      BY <3>1, <3>2
  <2>4. QED
    BY <1>1, <2>1, <2>2, <2>3
<1>3. Claimed(s) = {} <=> s.spare = "none" /\ Takings(s) = {}
  BY DEF Claimed
<1>4. Reserved(s) = {} <=> s.spare = "none" /\ Takings(s) = {}
  <2>1. CASE s.spare # "none"
    BY <2>1 DEF Reserved
  <2>2. CASE s.spare = "none"
    BY <2>2 DEF Reserved
  <2>3. QED
    BY <2>1, <2>2
<1>5. QED
  BY <1>2, <1>3, <1>4 DEF Bare

\* What the pool took is gone from the front, and the records are behind.
Grows(s, t, records) ==
  \E x, y \in Run : File(s.sectors) = x \o y /\ File(t.sectors) = y \o records

\* append(): in the open sector, or in one that is claimed for it.
LEMMA AppendsIs ==
  ASSUME NEW s, StoreOK(s), NEW records \in Run, Len(records) \in 1 .. Slots,
         SlotsLeft(s) > 0 => Len(records) <= SlotsLeft(s),
         NEW a \in Appends(s, records)
  PROVE  /\ StoreOK(a[2])
         /\ a[1] # "Ok" => a[2] = s
         /\ a[1] = "Ok" => Grows(s, a[2], records)
         /\ a[1] = "NoSector" => SlotsLeft(s) = 0 /\ Bare(s)
         /\ NoRoom(s) => NoRoom(a[2]) /\ (a[1] = "Ok" => SlotsLeft(s) > 0)
<1> DEFINE ss == s.sectors
           n == Len(ss)
           longer == [ss EXCEPT ![n] = ss[n] \o records]
<1>1. /\ s \in Stores /\ ss \in Files /\ n \in Nat /\ Holding(s) <= Pool /\ SectorsFit(ss)
      /\ SlotsLeft(s) \in 0 .. Slots /\ s.free \in Nat /\ s.old \in Nat
  BY HoldingIs, SlotsLeftIs DEF StoreOK
<1>2. CASE a[1] # "Ok" /\ a[2] = s /\ (a[1] = "NoSector" => ~ (SlotsLeft(s) > 0) /\ Claimed(s) = {})
  <2>1. a[1] = "NoSector" => SlotsLeft(s) = 0
    BY <1>1, <1>2, Bounds
  <2>2. QED
    BY <1>2, <2>1, ClaimedNone
<1>3. CASE SlotsLeft(s) > 0 /\ a = <<"Ok", [s EXCEPT !.sectors = longer]>>
  <2> DEFINE t == [s EXCEPT !.sectors = longer]
  <2>1. n > 0 /\ SlotsLeft(s) = Slots - Len(ss[n]) /\ n \in 1 .. n /\ n # 0
    BY <1>1, <1>3, SlotsLeftIs
  <2>2. /\ longer \in Files /\ Len(longer) = n /\ longer[n] = ss[n] \o records
        /\ \A i \in 1 .. n - 1 : longer[i] = ss[i]
        /\ File(longer) = File(ss) \o records
    BY <1>1, <2>1, FileExtend
  <2>3. /\ t \in Stores /\ t.sectors = longer /\ t.free = s.free /\ t.old = s.old /\ t.spare = s.spare
    BY <1>1, <2>2 DEF Stores
  <2>4. Len(ss[n]) \in 1 .. Slots /\ Len(ss[n] \o records) = Len(ss[n]) + Len(records)
    <3>1. ss[n] \in Run
      BY <1>1, <2>1, FilesAre
    <3>2. QED
      BY <1>1, <2>1, <3>1, ConcatProperties DEF SectorsFit, Run
  <2> DEFINE had == Len(ss[n])
             has == Len(longer[n])
             more == Len(records)
             left == SlotsLeft(s)
  <2>5. /\ had \in 1 .. Slots /\ more \in 1 .. Slots /\ left = Slots - had /\ more <= left
        /\ has = had + more
    BY <1>3, <2>1, <2>2, <2>4
  <2>6. SectorsFit(longer)
    <3>1. has \in 1 .. Slots
      <4> HIDE DEF had, has, more, left
      <4>1. QED
        BY <2>5, Bounds
    <3>2. \A i \in 1 .. n : i = n \/ i \in 1 .. n - 1
      <4> HIDE DEF n
      <4>1. QED
        BY <1>1
    <3>3. \A i \in 1 .. n - 1 : i \in 1 .. n /\ Len(longer[i]) \in 1 .. Slots
      <4>1. \A i \in 1 .. n - 1 : i \in 1 .. n
        BY <1>1
      <4>2. QED
        BY <1>1, <2>2, <4>1 DEF SectorsFit
    <3>4. QED
      BY <2>2, <3>1, <3>2, <3>3 DEF SectorsFit
  <2>7. Holding(t) = Holding(s)
    BY <2>2, <2>3 DEF Holding
  <2>8. StoreOK(t)
    BY <1>1, <2>3, <2>6, <2>7 DEF StoreOK
  <2>9. Grows(s, t, records)
    <3>1. File(ss) \in Run /\ <<>> \in Run /\ <<>> \o File(ss) = File(ss)
      BY <1>1, FileIs, RunsJoin
    <3>2. QED
      BY <2>2, <2>3, <3>1 DEF Grows
  <2>10. SlotsLeft(t) <= SlotsLeft(s)
    <3>1. SlotsLeft(t) = Slots - has
      <4>1. Len(t.sectors) = n /\ t.sectors[n] = longer[n] /\ StoreOK(t)
        BY <2>2, <2>3, <2>8
      <4> HIDE DEF t, longer
      <4>2. SlotsLeft(t) = Slots - Len(t.sectors[Len(t.sectors)])
        BY <2>1, <4>1, SlotsLeftIs
      <4>3. QED
        BY <4>1, <4>2
    <3>2. Slots - has <= left
      <4> HIDE DEF had, has, more, left
      <4>1. QED
        BY <2>5, Bounds
    <3>3. QED
      BY <3>1, <3>2
  <2>11. NoRoom(s) => NoRoom(t)
    <3>1. Bare(s) <=> Bare(t)
      BY <2>2, <2>3 DEF Bare
    <3>2. SlotsLeft(t) \in 0 .. Slots
      BY <2>8, SlotsLeftIs
    <3>3. SlotsLeft(s) <= TailSlotsReserved => SlotsLeft(t) <= TailSlotsReserved
      BY <1>1, <2>10, <3>2, Bounds DEF TailSlotsReserved
    <3>4. QED
      BY <2>8, <3>1, <3>3, ClaimedNone DEF NoRoom
  <2>12. QED
    BY <1>3, <2>8, <2>9, <2>11
<1>4. CASE ~ (SlotsLeft(s) > 0) /\ \E c \in Claimed(s) : a = <<"Ok", [c EXCEPT !.sectors = Append(c.sectors, records)]>>
  <2>1. PICK c \in Claimed(s) : a = <<"Ok", [c EXCEPT !.sectors = Append(c.sectors, records)]>>
    BY <1>4
  <2> DEFINE t == [c EXCEPT !.sectors = Append(c.sectors, records)]
             tt == Append(c.sectors, records)
  <2>2. StoreOK(c) /\ Holding(c) < Pool /\ Shed(s, c)
    BY ClaimedIs
  <2>3. /\ c \in Stores /\ c.sectors \in Files /\ Len(c.sectors) \in Nat /\ SectorsFit(c.sectors)
        /\ Holding(c) \in Nat
    BY <2>2, HoldingIs DEF StoreOK
  <2>4. /\ tt \in Files /\ File(tt) = File(c.sectors) \o records
        /\ Len(tt) = Len(c.sectors) + 1 /\ tt[Len(c.sectors) + 1] = records
        /\ \A i \in 1 .. Len(c.sectors) : tt[i] = c.sectors[i]
    BY <2>3, FileAppend, AppendProperties DEF Files
  <2>5. /\ t \in Stores /\ t.sectors = tt /\ t.free = c.free /\ t.old = c.old /\ t.spare = c.spare
    BY <2>3, <2>4 DEF Stores
  <2>6. SectorsFit(tt)
    <3>1. \A i \in 1 .. Len(tt) : i = Len(c.sectors) + 1 \/ i \in 1 .. Len(c.sectors)
      BY <2>3, <2>4
    <3>2. QED
      BY <2>3, <2>4, <3>1 DEF SectorsFit
  <2>7. Holding(t) <= Pool
    <3>1. Holding(t) = Holding(c) + 1
      <4> DEFINE h == (c.free + c.old)
                 k == IF c.spare = "none" THEN 0 ELSE 1
                 m == Len(c.sectors)
      <4>1. Holding(c) = h + m + k /\ Holding(t) = h + (m + 1) + k
        BY <2>4, <2>5 DEF Holding
      <4>2. h \in Nat /\ m \in Nat /\ k \in Nat
        BY <2>3, HoldingIs
      <4> HIDE DEF h, k, m
      <4>3. QED
        BY <4>1, <4>2
    <3>2. QED
      BY <2>2, <2>3, <3>1, Bounds
  <2>8. StoreOK(t)
    BY <2>5, <2>6, <2>7 DEF StoreOK
  <2>9. Grows(s, t, records)
    <3>1. File(c.sectors) \in Run
      BY <2>3, FileIs
    <3>2. QED
      BY <2>2, <2>4, <2>5, <3>1 DEF Shed, Grows
  <2>10. ~NoRoom(s)
    BY <2>1 DEF NoRoom
  <2>11. QED
    BY <2>1, <2>8, <2>9, <2>10
<1>5. a \in {<<"Deferred", s>>} \cup {<<"Fault", s>>}
         \cup (IF SlotsLeft(s) > 0 THEN {<<"Ok", [s EXCEPT !.sectors = longer]>>}
               ELSE IF Claimed(s) = {} THEN {<<"NoSector", s>>}
               ELSE {<<"Ok", [c EXCEPT !.sectors = Append(c.sectors, records)]>> : c \in Claimed(s)})
  BY DEF Appends
<1>6. CASE a \in {<<"Deferred", s>>, <<"Fault", s>>}
  BY <1>2, <1>6
<1>7. CASE SlotsLeft(s) > 0 /\ a \notin {<<"Deferred", s>>, <<"Fault", s>>}
  BY <1>3, <1>5, <1>7
<1>8. CASE ~ (SlotsLeft(s) > 0) /\ a \notin {<<"Deferred", s>>, <<"Fault", s>>} /\ Claimed(s) = {}
  BY <1>2, <1>5, <1>8
<1>9. CASE ~ (SlotsLeft(s) > 0) /\ a \notin {<<"Deferred", s>>, <<"Fault", s>>} /\ Claimed(s) # {}
  BY <1>4, <1>5, <1>9
<1>10. QED
  BY <1>6, <1>7, <1>8, <1>9

-----------------------------------------------------------------------------
(* The numbers of a trail of records.                                      *)

Weight(record) ==
  IF record.kind \in Numbered THEN 1 ELSE IF record.kind = "dropped" THEN record.n ELSE 0

\* f numbers the trail: what was pushed before each record, `top` behind the last.
Counts(trail, top, f) ==
  /\ f \in [1 .. Len(trail) + 1 -> Int]
  /\ f[Len(trail) + 1] = top
  /\ \A i \in 1 .. Len(trail) :
       /\ f[i] = f[i + 1] - Weight(trail[i])
       /\ trail[i].kind \in Numbered => trail[i].n = f[i + 1]
Counted(trail, top) == \E f : Counts(trail, top, f)

\* What the places of a run hold.
LEMMA RunIs ==
  ASSUME NEW trail \in Run
  PROVE  /\ Len(trail) \in Nat /\ DOMAIN trail = 1 .. Len(trail)
         /\ \A i \in 1 .. Len(trail) :
              trail[i] \in Records /\ trail[i].n \in Nat /\ Weight(trail[i]) \in Nat
<1>1. Len(trail) \in Nat /\ DOMAIN trail = 1 .. Len(trail) /\ trail \in [1 .. Len(trail) -> Records]
  BY LenProperties DEF Run
<1>2. \A r \in Records : r.n \in Nat /\ Weight(r) \in Nat
  BY DEF Records, Weight
<1>3. QED
  BY <1>1, <1>2

\* Where the records of two runs stand in the two joined.
LEMMA JoinIs ==
  ASSUME NEW s \in Run, NEW t \in Run
  PROVE  /\ s \o t \in Run /\ Len(s \o t) = Len(s) + Len(t)
         /\ Len(s) \in Nat /\ Len(t) \in Nat
         /\ \A i \in 1 .. Len(s) : (s \o t)[i] = s[i]
         /\ \A i \in 1 .. Len(t) : (s \o t)[Len(s) + i] = t[i]
<1>1. /\ s \o t \in Run /\ Len(s \o t) = Len(s) + Len(t) /\ Len(s) \in Nat /\ Len(t) \in Nat
      /\ \A i \in 1 .. Len(s) + Len(t) : (s \o t)[i] = IF i <= Len(s) THEN s[i] ELSE t[i - Len(s)]
  BY ConcatProperties, RunIs DEF Run
<1> DEFINE m == Len(s)
           n == Len(t)
<1>2. ASSUME NEW i \in 1 .. m PROVE (s \o t)[i] = s[i]
  <2>1. i \in 1 .. m + n /\ i <= m
    BY <1>1
  <2>2. QED
    BY <1>1, <2>1
<1>3. ASSUME NEW i \in 1 .. n PROVE (s \o t)[m + i] = t[i]
  <2>1. m + i \in 1 .. m + n /\ ~ (m + i <= m) /\ (m + i) - m = i
    BY <1>1
  <2>2. QED
    BY <1>1, <2>1
<1>4. QED
  BY <1>1, <1>2, <1>3

\* A run of one record, and a run that grew by one.
LEMMA OneRecord ==
  ASSUME NEW r \in Records
  PROVE  /\ <<r>> \in Run /\ Len(<<r>>) = 1 /\ <<r>>[1] = r
         /\ \A s \in Run : /\ Append(s, r) \in Run /\ Append(s, r) = s \o <<r>>
                           /\ Len(Append(s, r)) = Len(s) + 1 /\ Append(s, r)[Len(s) + 1] = r
                           /\ \A i \in 1 .. Len(s) : Append(s, r)[i] = s[i]
  BY AppendProperties, AppendIsConcat DEF Run

\* A record behind the last.
LEMMA CountedMore ==
  ASSUME NEW trail \in Run, NEW top \in Int, Counted(trail, top), NEW r \in Records,
         r.kind \in Numbered => r.n = top + 1
  PROVE  Counted(Append(trail, r), top + Weight(r))
<1> DEFINE n == Len(trail)
           more == Append(trail, r)
<1>1. n \in Nat /\ Weight(r) \in Nat /\ more \in Run /\ Len(more) = n + 1 /\ more[n + 1] = r
  BY RunIs, OneRecord DEF Weight, Records
<1>2. \A i \in 1 .. n : more[i] = trail[i]
  BY OneRecord
<1>3. PICK f : Counts(trail, top, f)
  BY DEF Counted
<1>4. f \in [1 .. n + 1 -> Int] /\ f[n + 1] = top
  BY <1>3 DEF Counts
<1> DEFINE g == [i \in 1 .. (n + 1) + 1 |-> IF i = (n + 1) + 1 THEN top + Weight(r) ELSE f[i]]
<1>5. \A i \in 1 .. n + 1 : i \in 1 .. (n + 1) + 1 /\ i # (n + 1) + 1 /\ g[i] = f[i]
  BY <1>1
<1>6. g[(n + 1) + 1] = top + Weight(r) /\ g \in [1 .. (n + 1) + 1 -> Int]
  <2>1. (n + 1) + 1 \in 1 .. (n + 1) + 1 /\ top + Weight(r) \in Int
    BY <1>1
  <2>2. \A i \in 1 .. (n + 1) + 1 : i = (n + 1) + 1 \/ i \in 1 .. n + 1
    BY <1>1
  <2>3. QED
    BY <1>4, <2>1, <2>2
<1> HIDE DEF g
<1>7. ASSUME NEW i \in 1 .. n + 1
      PROVE  g[i] = g[i + 1] - Weight(more[i]) /\ (more[i].kind \in Numbered => more[i].n = g[i + 1])
  <2>1. CASE i = n + 1
    <3>1. g[i] = top /\ g[i + 1] = top + Weight(r) /\ more[i] = r
      BY <1>1, <1>4, <1>5, <1>6, <2>1
    <3>2. r.kind \in Numbered => Weight(r) = 1
      BY DEF Weight
    <3>3. (top + Weight(r)) - Weight(r) = top
      BY <1>1
    <3>4. QED
      BY <3>1, <3>2, <3>3
  <2>2. CASE i # n + 1
    <3>1. i \in 1 .. n /\ i + 1 \in 1 .. n + 1
      BY <1>1, <2>2
    <3>2. f[i] = f[i + 1] - Weight(trail[i]) /\ (trail[i].kind \in Numbered => trail[i].n = f[i + 1])
      BY <1>3, <3>1 DEF Counts
    <3>3. QED
      BY <1>2, <1>5, <3>1, <3>2
  <2>3. QED
    BY <2>1, <2>2
<1>8. Counts(more, top + Weight(r), g)
  BY <1>1, <1>6, <1>7 DEF Counts
<1>9. QED
  BY <1>8 DEF Counted

\* The front gone.
LEMMA CountedSuffix ==
  ASSUME NEW s \in Run, NEW t \in Run, NEW top \in Int, Counted(s \o t, top)
  PROVE  Counted(t, top)
<1> DEFINE m == Len(s)
           n == Len(t)
<1>1. /\ m \in Nat /\ n \in Nat /\ Len(s \o t) = m + n
      /\ \A i \in 1 .. n : (s \o t)[m + i] = t[i]
  BY JoinIs
<1>2. PICK f : Counts(s \o t, top, f)
  BY DEF Counted
<1>3. /\ f \in [1 .. (m + n) + 1 -> Int] /\ f[(m + n) + 1] = top
      /\ \A i \in 1 .. m + n : /\ f[i] = f[i + 1] - Weight((s \o t)[i])
                               /\ (s \o t)[i].kind \in Numbered => (s \o t)[i].n = f[i + 1]
  BY <1>1, <1>2 DEF Counts
<1> DEFINE g == [i \in 1 .. n + 1 |-> f[m + i]]
<1>4. \A i \in 1 .. n + 1 : m + i \in 1 .. (m + n) + 1 /\ g[i] = f[m + i]
  BY <1>1
<1>5. g \in [1 .. n + 1 -> Int]
  BY <1>3, <1>4
<1>6. n + 1 \in 1 .. n + 1 /\ m + (n + 1) = (m + n) + 1
  BY <1>1
<1>7. g[n + 1] = top
  BY <1>3, <1>4, <1>6
<1> HIDE DEF g
<1>8. ASSUME NEW i \in 1 .. n
      PROVE  g[i] = g[i + 1] - Weight(t[i]) /\ (t[i].kind \in Numbered => t[i].n = g[i + 1])
  <2>1. /\ m + i \in 1 .. m + n /\ i \in 1 .. n + 1 /\ i + 1 \in 1 .. n + 1
        /\ (m + i) + 1 = m + (i + 1)
    BY <1>1
  <2>2. g[i] = f[m + i] /\ g[i + 1] = f[(m + i) + 1] /\ (s \o t)[m + i] = t[i]
    BY <1>1, <1>4, <2>1
  <2>3. QED
    BY <1>3, <2>1, <2>2
<1>9. Counts(t, top, g)
  BY <1>1, <1>5, <1>7, <1>8 DEF Counts
<1>10. QED
  BY <1>9 DEF Counted

\* A record that counts for nothing, anywhere.
LEMMA CountedInsert ==
  ASSUME NEW s \in Run, NEW t \in Run, NEW top \in Int, Counted(s \o t, top),
         NEW r \in Records, r.kind \notin Numbered \cup {"dropped"}
  PROVE  Counted((s \o <<r>>) \o t, top)
<1> DEFINE m == Len(s)
           n == Len(t)
           now == (s \o <<r>>) \o t
           was == s \o t
<1>1. /\ m \in Nat /\ n \in Nat /\ Len(was) = m + n /\ was \in Run
      /\ \A i \in 1 .. m : was[i] = s[i]
      /\ \A i \in 1 .. n : was[m + i] = t[i]
  BY JoinIs
<1>2. /\ now \in Run /\ Len(now) = (m + 1) + n
      /\ \A i \in 1 .. m : now[i] = s[i]
      /\ now[m + 1] = r
      /\ \A i \in 1 .. n : now[(m + 1) + i] = t[i]
  <2>1. /\ s \o <<r>> \in Run /\ Len(s \o <<r>>) = m + 1 /\ (s \o <<r>>)[m + 1] = r
        /\ \A i \in 1 .. m : (s \o <<r>>)[i] = s[i]
    <3>1. Append(s, r) = s \o <<r>>
      BY OneRecord
    <3>2. /\ Append(s, r) \in Run /\ Len(Append(s, r)) = m + 1 /\ Append(s, r)[m + 1] = r
          /\ \A i \in 1 .. m : Append(s, r)[i] = s[i]
      BY OneRecord
    <3>3. QED
      BY <3>1, <3>2
  <2>2. \A i \in 1 .. m : i \in 1 .. m + 1
    BY <1>1
  <2>3. m + 1 \in 1 .. m + 1
    BY <1>1
  <2> DEFINE front == s \o <<r>>
  <2> HIDE DEF front
  <2>4. /\ front \o t \in Run /\ Len(front \o t) = (m + 1) + n
        /\ \A i \in 1 .. m + 1 : (front \o t)[i] = front[i]
        /\ \A i \in 1 .. n : (front \o t)[(m + 1) + i] = t[i]
    <3>1. front \in Run /\ Len(front) = m + 1
      BY <2>1 DEF front
    <3>2. /\ front \o t \in Run /\ Len(front \o t) = Len(front) + n
          /\ \A i \in 1 .. Len(front) : (front \o t)[i] = front[i]
          /\ \A i \in 1 .. n : (front \o t)[Len(front) + i] = t[i]
      BY <3>1, JoinIs
    <3>3. QED
      BY <3>1, <3>2
  <2>5. QED
    BY <2>1, <2>2, <2>3, <2>4 DEF front
<1>3. PICK f : Counts(was, top, f)
  BY DEF Counted
<1>4. /\ f \in [1 .. (m + n) + 1 -> Int] /\ f[(m + n) + 1] = top
      /\ \A i \in 1 .. m + n : /\ f[i] = f[i + 1] - Weight(was[i])
                               /\ was[i].kind \in Numbered => was[i].n = f[i + 1]
  BY <1>1, <1>3 DEF Counts
<1> HIDE DEF now, was
<1> DEFINE len == (m + 1) + n
           g == [i \in 1 .. len + 1 |-> IF i <= m + 1 THEN f[i] ELSE f[i - 1]]
<1>5. /\ \A i \in 1 .. m + 1 : i \in 1 .. len + 1 /\ i \in 1 .. (m + n) + 1 /\ g[i] = f[i]
      /\ \A i \in m + 2 .. len + 1 : i \in 1 .. len + 1 /\ i - 1 \in 1 .. (m + n) + 1 /\ g[i] = f[i - 1]
  <2>1. \A i \in 1 .. m + 1 : i \in 1 .. len + 1 /\ i \in 1 .. (m + n) + 1 /\ i <= m + 1
    BY <1>1
  <2>2. \A i \in m + 2 .. len + 1 : i \in 1 .. len + 1 /\ i - 1 \in 1 .. (m + n) + 1 /\ ~ (i <= m + 1)
    BY <1>1
  <2>3. QED
    BY <2>1, <2>2
<1>6. \A i \in 1 .. len + 1 : i \in 1 .. m + 1 \/ i \in m + 2 .. len + 1
  BY <1>1
<1>7. g \in [1 .. len + 1 -> Int]
  BY <1>4, <1>5, <1>6
<1>8. g[len + 1] = top
  <2>1. len + 1 \in m + 2 .. len + 1 /\ (len + 1) - 1 = (m + n) + 1
    BY <1>1
  <2>2. QED
    BY <1>4, <1>5, <2>1
<1> HIDE DEF g
<1>9. ASSUME NEW i \in 1 .. len
      PROVE  g[i] = g[i + 1] - Weight(now[i]) /\ (now[i].kind \in Numbered => now[i].n = g[i + 1])
  <2>1. CASE i \in 1 .. m
    <3>1. i \in 1 .. m + 1 /\ i + 1 \in 1 .. m + 1 /\ i \in 1 .. m + n
      BY <1>1, <2>1
    <3>2. g[i] = f[i] /\ g[i + 1] = f[i + 1] /\ now[i] = was[i]
      BY <1>1, <1>2, <1>5, <2>1, <3>1
    <3>3. QED
      BY <1>4, <3>1, <3>2
  <2>2. CASE i = m + 1
    <3>1. m + 1 \in 1 .. m + 1 /\ (m + 1) + 1 \in m + 2 .. len + 1 /\ ((m + 1) + 1) - 1 = m + 1
          /\ m + 1 \in 1 .. (m + n) + 1
      BY <1>1
    <3>2. g[i] = f[m + 1] /\ g[i + 1] = f[m + 1] /\ now[i] = r /\ f[m + 1] \in Int
      BY <1>2, <1>4, <1>5, <2>2, <3>1
    <3>3. Weight(r) = 0 /\ r.kind \notin Numbered
      BY DEF Weight
    <3>4. QED
      BY <3>2, <3>3
  <2>3. CASE i \notin 1 .. m /\ i # m + 1
    <3> DEFINE k == i - (m + 1)
    <3>1. /\ k \in 1 .. n /\ (m + 1) + k = i /\ m + k = i - 1 /\ m + k \in 1 .. m + n
          /\ i \in m + 2 .. len + 1 /\ i + 1 \in m + 2 .. len + 1 /\ (i + 1) - 1 = (m + k) + 1
      BY <1>1, <2>3
    <3>2. g[i] = f[m + k] /\ g[i + 1] = f[(m + k) + 1]
      BY <1>5, <3>1
    <3>3. now[i] = t[k] /\ was[m + k] = t[k]
      BY <1>1, <1>2, <3>1
    <3>4. QED
      BY <1>4, <3>1, <3>2, <3>3
  <2>4. QED
    BY <2>1, <2>2, <2>3
<1>10. Counts(now, top, g)
  BY <1>2, <1>7, <1>8, <1>9 DEF Counts
<1>11. QED
  BY <1>10 DEF Counted, now

-----------------------------------------------------------------------------
(* The ring in RAM.                                                        *)

Recorders == [armed : BOOLEAN, ring : Run, gap : Nat, made : Nat]
Plain(ring) == \A i \in 1 .. Len(ring) : ring[i].kind \in RingKinds
RecorderOK(r) == r \in Recorders /\ Len(r.ring) <= Capacity /\ Plain(r.ring)
\* What is behind the file, and what was pushed.
Told(file, r) == Counted(file \o r.ring, r.made - r.gap)
\* A step of the ring that keeps the count, whatever the file.
Tells(r, t) == RecorderOK(t) /\ t.armed = r.armed /\ \A file \in Run : Told(file, r) => Told(file, t)

\* The kinds of record, each with the number it was made with.
LEMMA RecordsAre ==
  ASSUME NEW n \in Nat
  PROVE  /\ Sample(n) \in Records /\ Sample(n).kind \in Numbered \cap RingKinds /\ Sample(n).n = n
         /\ Boot(n) \in Records /\ Boot(n).kind \in Numbered \cap RingKinds /\ Boot(n).n = n
         /\ Config(n) \in Records /\ Config(n).kind \in Numbered \cap RingKinds /\ Config(n).n = n
         /\ Gap("dropped", n) \in Records /\ Gap("dropped", n).kind = "dropped"
         /\ Gap("dropped", n).n = n
         /\ Gap("rotated", n) \in Records /\ Gap("rotated", n).kind = "rotated"
         /\ Gap("stopped", n) \in Records /\ Gap("stopped", n).kind = "stopped"
         /\ End \in Records /\ End.kind = "end"
  BY DEF Sample, Boot, Config, Gap, End, Records, Numbered, RingKinds

\* The fields of a recorder.
LEMMA RecorderIs ==
  ASSUME NEW r, RecorderOK(r)
  PROVE  /\ r.armed \in BOOLEAN /\ r.ring \in Run /\ r.gap \in Nat /\ r.made \in Nat
         /\ Len(r.ring) \in Nat /\ r.made - r.gap \in Int
<1>1. r.armed \in BOOLEAN /\ r.ring \in Run /\ r.gap \in Nat /\ r.made \in Nat
  BY DEF RecorderOK, Recorders
<1>2. QED
  BY <1>1, RunIs

\* The ring with one record more.
LEMMA RingMore ==
  ASSUME NEW r, RecorderOK(r), ~Full(r), NEW record \in Records, record.kind \in RingKinds
  PROVE  /\ Append(r.ring, record) \in Run /\ Len(Append(r.ring, record)) <= Capacity
         /\ Plain(Append(r.ring, record))
<1> DEFINE n == Len(r.ring)
           more == Append(r.ring, record)
<1>1. r.ring \in Run /\ n \in Nat /\ n <= Capacity /\ n # Capacity /\ Plain(r.ring)
  BY RecorderIs DEF RecorderOK, Full
<1>2. /\ more \in Run /\ Len(more) = n + 1 /\ more[n + 1] = record
      /\ \A i \in 1 .. n : more[i] = r.ring[i]
  BY <1>1, OneRecord
<1> HIDE DEF more
<1>3. \A i \in 1 .. n + 1 : i \in 1 .. n \/ i = n + 1
  BY <1>1
<1>4. Plain(more)
  BY <1>1, <1>2, <1>3 DEF Plain
<1>5. n + 1 <= Capacity
  BY <1>1, Bounds
<1>6. QED
  BY <1>2, <1>4, <1>5 DEF more

\* A record behind the ring is a record behind file and ring.
LEMMA TrailMore ==
  ASSUME NEW file \in Run, NEW ring \in Run, NEW record \in Records
  PROVE  file \o Append(ring, record) = Append(file \o ring, record)
<1>1. <<record>> \in Run /\ Append(ring, record) = ring \o <<record>> /\ file \o ring \in Run
  BY OneRecord, RunsJoin
<1>2. Append(file \o ring, record) = (file \o ring) \o <<record>>
  BY <1>1, OneRecord
<1>3. (file \o ring) \o <<record>> = file \o (ring \o <<record>>)
  BY <1>1, RunsAssociate
<1>4. QED
  BY <1>1, <1>2, <1>3

\* The hole comes into the ring as a record that stands for it.
LEMMA FlushIs ==
  ASSUME NEW r, RecorderOK(r)
  PROVE  /\ Tells(r, FlushGap(r)) /\ FlushGap(r).made = r.made
         /\ Full(FlushGap(r)) \/ FlushGap(r).gap = 0
         /\ Len(r.ring) <= Len(FlushGap(r).ring)
<1>1. CASE r.gap = 0 \/ Full(r)
  BY <1>1, RecorderIs DEF FlushGap, Tells
<1>2. CASE ~ (r.gap = 0 \/ Full(r))
  <2> DEFINE hole == Gap("dropped", r.gap)
             ring == Append(r.ring, hole)
             t == [r EXCEPT !.ring = ring, !.gap = 0]
  <2>1. FlushGap(r) = t
    BY <1>2 DEF FlushGap
  <2>2. /\ r.ring \in Run /\ r.gap \in Nat /\ r.made \in Nat /\ r.made - r.gap \in Int
        /\ r \in Recorders
    BY RecorderIs DEF RecorderOK
  <2>3. hole \in Records /\ hole.kind = "dropped" /\ hole.n = r.gap
    BY <2>2, RecordsAre
  <2>4. hole.kind \in RingKinds /\ hole.kind \notin Numbered /\ Weight(hole) = r.gap
    BY <2>3 DEF RingKinds, Numbered, Weight
  <2> HIDE DEF hole
  <2>5. ring \in Run /\ Len(ring) <= Capacity /\ Plain(ring)
    BY <1>2, <2>3, <2>4, RingMore
  <2>6. t \in Recorders /\ t.ring = ring /\ t.gap = 0 /\ t.made = r.made /\ t.armed = r.armed
    BY <2>2, <2>5 DEF Recorders
  <2>7. ASSUME NEW file \in Run, Told(file, r) PROVE Told(file, t)
    <3>1. file \o r.ring \in Run
      BY <2>2, RunsJoin
    <3>2. Counted(Append(file \o r.ring, hole), (r.made - r.gap) + r.gap)
      BY <2>2, <2>3, <2>4, <2>7, <3>1, CountedMore DEF Told
    <3>3. file \o ring = Append(file \o r.ring, hole)
      BY <2>2, <2>3, TrailMore
    <3>4. (r.made - r.gap) + r.gap = r.made - 0
      BY <2>2
    <3>5. QED
      BY <2>6, <3>2, <3>3, <3>4 DEF Told
  <2>8. RecorderOK(t)
    BY <2>5, <2>6 DEF RecorderOK
  <2>9. Len(r.ring) <= Len(ring)
    <3>1. Len(ring) = Len(r.ring) + 1 /\ Len(r.ring) \in Nat
      BY <2>2, <2>3, OneRecord, RecorderIs
    <3>2. QED
      BY <3>1
  <2>10. QED
    BY <2>1, <2>6, <2>7, <2>8, <2>9 DEF Tells
<1>3. QED
  BY <1>1, <1>2

\* A record finds room, or the hole is one larger.
LEMMA PushIs ==
  ASSUME NEW r, RecorderOK(r), NEW record \in Records,
         record.kind \in Numbered \cap RingKinds, record.n = r.made + 1
  PROVE  Tells(r, Push(r, record)) /\ Push(r, record).made = r.made + 1
<1> DEFINE u == FlushGap(r)
<1>1. /\ Tells(r, u) /\ u.made = r.made /\ RecorderOK(u) /\ u.armed = r.armed
      /\ Full(u) \/ u.gap = 0
  BY FlushIs DEF Tells
<1>2. Push(r, record) = IF Full(u) THEN [u EXCEPT !.gap = @ + 1, !.made = @ + 1]
                        ELSE [u EXCEPT !.ring = Append(@, record), !.made = @ + 1]
  BY DEF Push
<1> HIDE DEF u
<1>3. /\ u.ring \in Run /\ u.gap \in Nat /\ u.made \in Nat /\ u.made - u.gap \in Int
      /\ u \in Recorders /\ u.gap + 1 \in Nat /\ u.made + 1 \in Nat
  BY <1>1, RecorderIs DEF RecorderOK
<1>4. CASE Full(u)
  <2> DEFINE t == [u EXCEPT !.gap = u.gap + 1, !.made = u.made + 1]
  <2>1. Push(r, record) = t
    BY <1>2, <1>4
  <2>2. /\ t \in Recorders /\ t.ring = u.ring /\ t.gap = u.gap + 1 /\ t.made = u.made + 1
        /\ t.armed = u.armed
    BY <1>3 DEF Recorders
  <2>3. t.made - t.gap = u.made - u.gap
    BY <1>3, <2>2
  <2>4. RecorderOK(t)
    BY <1>1, <2>2 DEF RecorderOK
  <2>5. QED
    BY <1>1, <2>1, <2>2, <2>3, <2>4 DEF Tells, Told
<1>5. CASE ~Full(u)
  <2> DEFINE ring == Append(u.ring, record)
             t == [u EXCEPT !.ring = ring, !.made = u.made + 1]
  <2>1. Push(r, record) = t
    BY <1>2, <1>5
  <2>2. ring \in Run /\ Len(ring) <= Capacity /\ Plain(ring)
    BY <1>1, <1>5, RingMore
  <2>3. /\ t \in Recorders /\ t.ring = ring /\ t.gap = u.gap /\ t.made = u.made + 1
        /\ t.armed = u.armed
    BY <1>3, <2>2 DEF Recorders
  <2>4. RecorderOK(t)
    BY <2>2, <2>3 DEF RecorderOK
  <2>5. Push(r, record) = t /\ t.made = r.made + 1
    BY <1>1, <2>1, <2>3
  <2>6. ASSUME NEW file \in Run, Told(file, u) PROVE Told(file, t)
    <3>1. file \o u.ring \in Run
      BY <1>3, RunsJoin
    <3>2. record.n = (u.made - u.gap) + 1 /\ Weight(record) = 1
      BY <1>1, <1>3, <1>5 DEF Weight
    <3>3. Counted(Append(file \o u.ring, record), (u.made - u.gap) + 1)
      BY <1>3, <2>6, <3>1, <3>2, CountedMore DEF Told
    <3>4. file \o ring = Append(file \o u.ring, record)
      BY <1>3, TrailMore
    <3>5. (u.made - u.gap) + 1 = t.made - t.gap
      BY <1>3, <2>3
    <3>6. QED
      BY <2>3, <3>3, <3>4, <3>5 DEF Told
  <2>7. QED
    BY <1>1, <2>3, <2>4, <2>5, <2>6 DEF Tells
<1>6. QED
  BY <1>4, <1>5

\* record_boot(), record_config()
LEMMA PreambleIs ==
  ASSUME NEW r, RecorderOK(r)
  PROVE  Tells(r, Preamble(r))
<1>1. CASE ~r.armed
  BY <1>1 DEF Preamble, Tells
<1>2. CASE r.armed
  <2> DEFINE u == Push(r, Boot(r.made + 1))
             t == Push(u, Config(u.made + 1))
  <2>1. Preamble(r) = t
    BY <1>2 DEF Preamble
  <2>2. r.made + 1 \in Nat
    BY RecorderIs
  <2>3. Tells(r, u)
    BY <2>2, RecordsAre, PushIs
  <2>4. RecorderOK(u)
    BY <2>3 DEF Tells
  <2>5. u.made + 1 \in Nat
    BY <2>4, RecorderIs
  <2> HIDE DEF u
  <2>6. Tells(u, t)
    BY <2>4, <2>5, RecordsAre, PushIs
  <2>7. QED
    BY <2>1, <2>3, <2>6 DEF Tells
<1>3. QED
  BY <1>1, <1>2

\* What a drain took is what the ring no longer has.
LEMMA CommittedIs ==
  ASSUME NEW r, RecorderOK(r), NEW run \in 0 .. Len(r.ring)
  PROVE  /\ RecorderOK(Committed(r, run)) /\ Committed(r, run).armed = r.armed
         /\ Committed(r, run).made = r.made /\ Committed(r, run).gap = r.gap
         /\ SubSeq(r.ring, 1, run) \in Run /\ Len(SubSeq(r.ring, 1, run)) = run
         /\ Plain(SubSeq(r.ring, 1, run))
         /\ r.ring = SubSeq(r.ring, 1, run) \o Committed(r, run).ring
<1> DEFINE ring == r.ring
           n == Len(ring)
           front == SubSeq(ring, 1, run)
           rest == SubSeq(ring, run + 1, n)
           t == [r EXCEPT !.ring = rest]
<1>1. /\ ring \in Run /\ n \in Nat /\ n <= Capacity /\ Plain(ring) /\ r \in Recorders
      /\ run \in Nat /\ run <= n
  BY RecorderIs DEF RecorderOK
<1>2. \A i \in 1 .. n : ring[i] \in Records
  BY <1>1, RunIs
<1>3. /\ front \in Run /\ Len(front) = run /\ \A i \in 1 .. run : front[i] = ring[i]
  <2>1. \A i \in 1 .. run : i \in 1 .. n /\ ring[i] \in Records
    BY <1>1, <1>2
  <2>2. /\ front \in Run /\ Len(front) = IF 1 <= run THEN run - 1 + 1 ELSE 0
        /\ \A i \in 1 .. run - 1 + 1 : front[i] = ring[1 + i - 1]
    BY <1>1, <2>1, SubSeqProperties DEF Run
  <2>3. \A i \in 1 .. run : i \in 1 .. run - 1 + 1 /\ 1 + i - 1 = i
    BY <1>1
  <2>4. Len(front) = run
    BY <1>1, <2>2
  <2>5. QED
    BY <2>2, <2>3, <2>4
<1>4. /\ rest \in Run /\ Len(rest) = n - run /\ \A i \in 1 .. n - run : rest[i] = ring[run + i]
  <2>1. \A i \in run + 1 .. n : i \in 1 .. n /\ ring[i] \in Records
    BY <1>1, <1>2
  <2>2. /\ rest \in Run /\ Len(rest) = IF run + 1 <= n THEN n - (run + 1) + 1 ELSE 0
        /\ \A i \in 1 .. n - (run + 1) + 1 : rest[i] = ring[(run + 1) + i - 1]
    BY <1>1, <2>1, SubSeqProperties DEF Run
  <2>3. \A i \in 1 .. n - run : i \in 1 .. n - (run + 1) + 1 /\ (run + 1) + i - 1 = run + i
    BY <1>1
  <2>4. Len(rest) = n - run
    BY <1>1, <2>2
  <2>5. QED
    BY <2>2, <2>3, <2>4
<1> HIDE DEF front, rest
<1>5. t \in Recorders /\ t.ring = rest /\ t.gap = r.gap /\ t.made = r.made /\ t.armed = r.armed
  BY <1>1, <1>4 DEF Recorders
<1>6. Plain(front)
  <2>1. \A i \in 1 .. run : i \in 1 .. n
    BY <1>1
  <2>2. QED
    BY <1>1, <1>3, <2>1 DEF Plain
<1>7. Plain(rest) /\ Len(rest) <= Capacity
  <2>1. \A i \in 1 .. n - run : run + i \in 1 .. n
    BY <1>1
  <2>2. n - run <= Capacity
    BY <1>1, Bounds
  <2>3. QED
    BY <1>1, <1>4, <2>1, <2>2 DEF Plain
<1>8. ring = front \o rest
  <2>1. /\ front \o rest \in Run /\ Len(front \o rest) = run + (n - run)
        /\ \A i \in 1 .. run : (front \o rest)[i] = front[i]
        /\ \A i \in 1 .. n - run : (front \o rest)[run + i] = rest[i]
    <3>1. /\ front \o rest \in Run /\ Len(front \o rest) = Len(front) + Len(rest)
          /\ \A i \in 1 .. Len(front) : (front \o rest)[i] = front[i]
          /\ \A i \in 1 .. Len(rest) : (front \o rest)[Len(front) + i] = rest[i]
      BY <1>3, <1>4, JoinIs
    <3>2. QED
      BY <1>3, <1>4, <3>1
  <2>2. run + (n - run) = n
    BY <1>1
  <2>3. ASSUME NEW i \in 1 .. n PROVE ring[i] = (front \o rest)[i]
    <3>1. CASE i <= run
      <4>1. i \in 1 .. run
        BY <1>1, <3>1
      <4>2. QED
        BY <1>3, <2>1, <4>1
    <3>2. CASE ~ (i <= run)
      <4>1. i - run \in 1 .. n - run /\ run + (i - run) = i
        BY <1>1, <3>2
      <4>2. rest[i - run] = ring[run + (i - run)] /\ (front \o rest)[run + (i - run)] = rest[i - run]
        BY <1>4, <2>1, <4>1
      <4>3. QED
        BY <4>1, <4>2
    <3>3. QED
      BY <3>1, <3>2
  <2>4. QED
    BY <1>1, <2>1, <2>2, <2>3, SeqEqual DEF Run
<1>9. RecorderOK(t) /\ Committed(r, run) = t
  BY <1>5, <1>7 DEF RecorderOK, Committed, rest
<1>10. QED
  BY <1>3, <1>5, <1>6, <1>8, <1>9 DEF front

-----------------------------------------------------------------------------
(* The file as the store changes it.                                       *)

\* What goes from the front opens no end, and counts no less.
LEMMA SuffixFile ==
  ASSUME NEW x \in Run, NEW y \in Run
  PROVE  /\ Ends(x \o y) => Ends(y)
         /\ HasEnd(y) => HasEnd(x \o y)
         /\ \A ring \in Run, top \in Int : Counted((x \o y) \o ring, top) => Counted(y \o ring, top)
<1> DEFINE m == Len(x)
           n == Len(y)
<1>1. /\ m \in Nat /\ n \in Nat /\ DOMAIN y = 1 .. n /\ DOMAIN (x \o y) = 1 .. m + n
      /\ \A i \in 1 .. n : (x \o y)[m + i] = y[i]
  <2>1. x \o y \in Run /\ Len(x \o y) = m + n
    BY JoinIs
  <2>2. QED
    BY <2>1, JoinIs, RunIs
<1>2. \A i \in 1 .. n : m + i \in 1 .. m + n
  BY <1>1
<1>3. \A i, j \in 1 .. n : j > i => m + j > m + i
  BY <1>1
<1>4. Ends(x \o y) => Ends(y)
  <2> SUFFICES ASSUME Ends(x \o y), NEW i \in 1 .. n, y[i].kind = "end", NEW j \in 1 .. n, j > i
               PROVE  y[j].kind = "stopped"
    BY <1>1 DEF Ends
  <2>1. (x \o y)[m + i].kind = "end" /\ m + i \in DOMAIN (x \o y) /\ m + j \in DOMAIN (x \o y)
        /\ m + j > m + i
    BY <1>1, <1>2, <1>3
  <2>2. (x \o y)[m + j].kind = "stopped"
    BY <2>1 DEF Ends
  <2>3. QED
    BY <1>1, <2>2
<1>5. HasEnd(y) => HasEnd(x \o y)
  <2> SUFFICES ASSUME NEW i \in 1 .. n, y[i].kind = "end" PROVE HasEnd(x \o y)
    BY <1>1 DEF HasEnd
  <2>1. (x \o y)[m + i].kind = "end" /\ m + i \in DOMAIN (x \o y)
    BY <1>1, <1>2
  <2>2. QED
    BY <2>1 DEF HasEnd
<1>6. ASSUME NEW ring \in Run, NEW top \in Int, Counted((x \o y) \o ring, top)
      PROVE  Counted(y \o ring, top)
  <2>1. (x \o y) \o ring = x \o (y \o ring) /\ y \o ring \in Run
    BY RunsAssociate, RunsJoin
  <2>2. Counted(x \o (y \o ring), top)
    BY <1>6, <2>1
  <2>3. QED
    BY <2>1, <2>2, CountedSuffix
<1>7. QED
  BY <1>4, <1>5, <1>6

\* What comes behind an end is its reason, or there was no end.
LEMMA EndsBehind ==
  ASSUME NEW y \in Run, NEW records \in Run, Ends(y),
         \/ /\ \A i \in 1 .. Len(records) : records[i].kind # "end"
            /\ HasEnd(y) => \A i \in 1 .. Len(records) : records[i].kind = "stopped"
         \/ ~HasEnd(y) /\ Len(records) = 1
  PROVE  Ends(y \o records)
<1> DEFINE m == Len(y)
           n == Len(records)
           file == y \o records
<1>1. /\ m \in Nat /\ n \in Nat /\ DOMAIN y = 1 .. m /\ DOMAIN file = 1 .. m + n
      /\ \A i \in 1 .. m : file[i] = y[i]
      /\ \A i \in 1 .. n : file[m + i] = records[i]
  <2>1. file \in Run /\ Len(file) = m + n
    BY JoinIs
  <2>2. QED
    BY <2>1, JoinIs, RunIs
<1> HIDE DEF file
<1> SUFFICES ASSUME NEW i \in 1 .. m + n, file[i].kind = "end", NEW j \in 1 .. m + n, j > i
             PROVE  file[j].kind = "stopped"
  BY <1>1 DEF Ends, file
<1>2. CASE i <= m
  <2>1. i \in 1 .. m /\ y[i].kind = "end" /\ HasEnd(y)
    <3>1. i \in 1 .. m
      BY <1>1, <1>2
    <3>2. QED
      BY <1>1, <3>1 DEF HasEnd
  <2>2. CASE j <= m
    <3>1. j \in 1 .. m
      BY <1>1, <2>2
    <3>2. y[j].kind = "stopped"
      BY <1>1, <2>1, <3>1 DEF Ends
    <3>3. QED
      BY <1>1, <3>1, <3>2
  <2>3. CASE ~ (j <= m)
    <3>1. j - m \in 1 .. n /\ m + (j - m) = j
      BY <1>1, <2>3
    <3>2. records[j - m].kind = "stopped"
      BY <2>1, <3>1
    <3>3. QED
      BY <1>1, <3>1, <3>2
  <2>4. QED
    BY <2>2, <2>3
<1>3. CASE ~ (i <= m)
  <2>1. i - m \in 1 .. n /\ m + (i - m) = i
    BY <1>1, <1>3
  <2>2. records[i - m].kind = "end"
    <3>1. file[m + (i - m)] = records[i - m]
      BY <1>1, <2>1
    <3>2. QED
      BY <2>1, <3>1
  <2>3. n = 1
    BY <2>1, <2>2
  <2>4. FALSE
    <3>1. i = m + 1 /\ j <= m + n
      BY <1>1, <1>3, <2>3
    <3>2. QED
      BY <1>1, <2>3, <3>1
  <2>5. QED
    BY <2>4
<1>4. QED
  BY <1>2, <1>3

\* What the pool takes from the front breaks neither the end nor the count.
LEMMA ShedFile ==
  ASSUME NEW s, StoreOK(s), NEW t, StoreOK(t), Shed(s, t)
  PROVE  /\ Ends(File(s.sectors)) => Ends(File(t.sectors))
         /\ HasEnd(File(t.sectors)) => HasEnd(File(s.sectors))
         /\ \A r : RecorderOK(r) /\ Told(File(s.sectors), r) => Told(File(t.sectors), r)
<1>1. s.sectors \in Files /\ t.sectors \in Files
  BY DEF StoreOK, Stores
<1>2. File(t.sectors) \in Run
  BY <1>1, FileIs
<1>3. PICK x \in Run : File(s.sectors) = x \o File(t.sectors)
  BY DEF Shed
<1>4. \A r : RecorderOK(r) => r.ring \in Run /\ r.made - r.gap \in Int
  BY RecorderIs
<1>5. QED
  BY <1>2, <1>3, <1>4, SuffixFile DEF Told

\* What an append puts behind leaves the end last, and makes none unless it is one.
LEMMA GrownFile ==
  ASSUME NEW s, StoreOK(s), NEW t, StoreOK(t), NEW records \in Run, Grows(s, t, records),
         Ends(File(s.sectors)),
         \/ /\ \A i \in 1 .. Len(records) : records[i].kind # "end"
            /\ HasEnd(File(s.sectors)) => \A i \in 1 .. Len(records) : records[i].kind = "stopped"
         \/ ~HasEnd(File(s.sectors)) /\ Len(records) = 1
  PROVE  /\ Ends(File(t.sectors))
         /\ (\A i \in 1 .. Len(records) : records[i].kind # "end") /\ HasEnd(File(t.sectors))
            => HasEnd(File(s.sectors))
<1>1. PICK x \in Run, y \in Run : File(s.sectors) = x \o y /\ File(t.sectors) = y \o records
  BY DEF Grows
<1>2. Ends(y) /\ (HasEnd(y) => HasEnd(File(s.sectors)))
  BY <1>1, SuffixFile
<1>3. Ends(y \o records)
  BY <1>2, EndsBehind
<1>4. ASSUME \A i \in 1 .. Len(records) : records[i].kind # "end", HasEnd(y \o records) PROVE HasEnd(y)
  <2> DEFINE m == Len(y)
             n == Len(records)
             file == y \o records
  <2>1. /\ m \in Nat /\ n \in Nat /\ DOMAIN y = 1 .. m /\ DOMAIN file = 1 .. m + n
        /\ \A i \in 1 .. m : file[i] = y[i]
        /\ \A i \in 1 .. n : file[m + i] = records[i]
    <3>1. file \in Run /\ Len(file) = m + n
      BY JoinIs
    <3>2. QED
      BY <3>1, JoinIs, RunIs
  <2> HIDE DEF file
  <2>2. PICK i \in 1 .. m + n : file[i].kind = "end"
    BY <1>4, <2>1 DEF HasEnd, file
  <2>3. CASE i <= m
    <3>1. i \in 1 .. m
      BY <2>1, <2>3
    <3>2. QED
      BY <2>1, <2>2, <3>1 DEF HasEnd
  <2>4. CASE ~ (i <= m)
    <3>1. i - m \in 1 .. n /\ m + (i - m) = i
      BY <2>1, <2>4
    <3>2. file[m + (i - m)] = records[i - m]
      BY <2>1, <3>1
    <3>3. QED
      BY <1>4, <2>2, <3>1, <3>2
  <2>5. QED
    BY <2>3, <2>4
<1>5. QED
  BY <1>1, <1>2, <1>3, <1>4

\* A drain moves records from the ring to the file.
LEMMA CountedMoved ==
  ASSUME NEW s, NEW t, NEW records \in Run, Grows(s, t, records), NEW ring \in Run, NEW top \in Int,
         Counted(File(s.sectors) \o (records \o ring), top)
  PROVE  Counted(File(t.sectors) \o ring, top)
<1>1. PICK x \in Run, y \in Run : File(s.sectors) = x \o y /\ File(t.sectors) = y \o records
  BY DEF Grows
<1>2. records \o ring \in Run
  BY RunsJoin
<1>3. Counted(y \o (records \o ring), top)
  BY <1>1, <1>2, SuffixFile
<1>4. (y \o records) \o ring = y \o (records \o ring)
  BY RunsAssociate
<1>5. QED
  BY <1>1, <1>3, <1>4

\* A marker counts for nothing.
LEMMA CountedMarked ==
  ASSUME NEW s, NEW t, NEW r \in Records, r.kind \notin Numbered \cup {"dropped"},
         Grows(s, t, <<r>>), NEW ring \in Run, NEW top \in Int,
         Counted(File(s.sectors) \o ring, top)
  PROVE  Counted(File(t.sectors) \o ring, top)
<1>1. PICK x \in Run, y \in Run : File(s.sectors) = x \o y /\ File(t.sectors) = y \o <<r>>
  BY DEF Grows
<1>2. Counted(y \o ring, top)
  BY <1>1, SuffixFile
<1>3. Counted((y \o <<r>>) \o ring, top)
  BY <1>2, CountedInsert
<1>4. QED
  BY <1>1, <1>3

\* What RecordsAccounted counts down from the last record is the one numbering
\* there is.
LEMMA CountedIsAccounted ==
  ASSUME Counted(Stored \o recorder.ring, recorder.made - recorder.gap),
         Stored \in Run, recorder.ring \in Run
  PROVE  RecordsAccounted
<1> DEFINE trail == Stored \o recorder.ring
           top == recorder.made - recorder.gap
           n == Len(trail)
           Down(f) == f = [i \in 1 .. n + 1 |-> IF i = n + 1 THEN top ELSE f[i + 1] - Weight(trail[i])]
           number == CHOOSE f : Down(f)
<1>1. trail \in Run /\ n \in Nat /\ DOMAIN trail = 1 .. n
  BY RunsJoin, RunIs
<1>2. PICK f : Counts(trail, top, f)
  BY DEF Counted
<1>3. /\ f \in [1 .. n + 1 -> Int] /\ f[n + 1] = top
      /\ \A i \in 1 .. n : /\ f[i] = f[i + 1] - Weight(trail[i])
                           /\ trail[i].kind \in Numbered => trail[i].n = f[i + 1]
  BY <1>2 DEF Counts
<1>4. \A i \in DOMAIN trail : trail[i].kind \in Numbered => trail[i].n = number[i + 1]
  <2> HIDE DEF trail, top
  <2>1. \A i \in 1 .. n + 1 : i = n + 1 \/ i \in 1 .. n
    BY <1>1
  <2>2. \A i \in 1 .. n + 1 : f[i] = IF i = n + 1 THEN top ELSE f[i + 1] - Weight(trail[i])
    BY <1>3, <2>1
  <2>3. Down(f)
    <3>1. f = [i \in 1 .. n + 1 |-> f[i]]
      BY <1>3
    <3>2. QED
      BY <2>2, <3>1
  <2>4. Down(number)
    BY <2>3
  <2> HIDE DEF number
  <2>5. \A i \in 1 .. n + 1 : number[i] = IF i = n + 1 THEN top ELSE number[i + 1] - Weight(trail[i])
    BY <2>4
  <2> DEFINE odd == {k \in 0 .. n : number[(n + 1) - k] # f[(n + 1) - k]}
  <2>6. ASSUME odd # {} PROVE FALSE
    <3>1. PICK k \in odd : \A j \in odd : k <= j
      <4>1. 0 .. n \subseteq Nat
        BY <1>1
      <4>2. odd \subseteq 0 .. n
        OBVIOUS
      <4> HIDE DEF odd
      <4>3. odd \in SUBSET Nat
        BY <4>1, <4>2
      <4>4. QED
        BY <2>6, <4>3, LeastOf
    <3>2. CASE k = 0
      <4>1. n + 1 \in 1 .. n + 1 /\ (n + 1) - 0 = n + 1
        BY <1>1
      <4>2. QED
        BY <1>3, <2>5, <3>1, <3>2, <4>1
    <3>3. CASE k # 0
      <4> DEFINE i == (n + 1) - k
      <4>1. /\ k - 1 \in 0 .. n /\ ~ (k <= k - 1) /\ i \in 1 .. n /\ i \in 1 .. n + 1 /\ i # n + 1
            /\ (n + 1) - (k - 1) = i + 1
        BY <1>1, <3>1, <3>3
      <4>2. number[i + 1] = f[i + 1]
        BY <3>1, <4>1
      <4>3. number[i] = f[i]
        BY <2>2, <2>5, <4>1, <4>2
      <4>4. QED
        BY <3>1, <4>3
    <3>4. QED
      BY <3>2, <3>3
  <2>7. ASSUME NEW i \in 1 .. n PROVE number[i + 1] = f[i + 1]
    <3>1. n - i \in 0 .. n /\ (n + 1) - (n - i) = i + 1
      BY <1>1
    <3>2. n - i \notin odd
      BY <2>6
    <3>3. QED
      BY <3>1, <3>2
  <2>8. QED
    BY <1>1, <1>3, <2>7
<1>5. QED
  BY <1>4 DEF RecordsAccounted, Weight

-----------------------------------------------------------------------------
(* The invariant.                                                          *)

Ats == {"idle", "drain", "announce", "drained", "refused", "stopping", "parked", "off"}
Passes == [at : Ats, parking : BOOLEAN, written : 0 .. Ceiling, progress : BOOLEAN]
Captures ==
  [open : BOOLEAN, ended : BOOLEAN, stopped : {"none", "pilot", "nosectors"}, lost : Nat]

\* Once refused, and in a pass that goes on behind the end, there is no room.
Stuck ==
  /\ pass.at \in {"refused", "stopping"} => NoRoom(store)
  /\ pass.at \notin {"idle", "off"} /\ ~capture.open => NoRoom(store)

\* Behind the end the capture is closed, and knows it.
EndIsKnown ==
  /\ HasEnd(File(store.sectors)) => capture.ended /\ ~capture.open
  /\ pass.at # "idle" /\ ~capture.open => capture.ended

\* The order of a pass.
PassOK ==
  /\ pass.at = "idle" => ~pass.parking
  /\ pass.at = "announce" => capture.open
  /\ pass.parking \/ pass.at \in {"stopping", "parked"} => ~recorder.armed

\* What was pushed since the capture was armed is in the file or behind it.
AllTold ==
  ~Rearms =>
    /\ capture.open => Told(File(store.sectors), recorder)
    /\ recorder.armed /\ ~capture.open => Told(<<>>, recorder)

CaptureInv ==
  /\ RecorderOK(recorder) /\ StoreOK(store) /\ capture \in Captures /\ pass \in Passes
  /\ Ends(File(store.sectors))
  /\ Stuck /\ EndIsKnown /\ PassOK /\ AllTold

\* The file of a store is a run of records.
LEMMA FileOfStore == ASSUME NEW s, StoreOK(s) PROVE s.sectors \in Files /\ File(s.sectors) \in Run
  BY FileIs DEF StoreOK, Stores

\* A step that moves the pass on leaves the rest of it.
LEMMA AtIs ==
  ASSUME pass \in Passes, NEW step \in Ats, At(step)
  PROVE  pass' \in Passes /\ pass'.at = step /\ pass'.parking = pass.parking
  BY DEF At, Passes

\* A step that wrote keeps the pass under its ceiling.
LEMMA WroteIs ==
  ASSUME pass \in Passes, NEW step \in Ats, NEW run \in Nat, pass.written + run <= Ceiling,
         Wrote(step, run)
  PROVE  pass' \in Passes /\ pass'.at = step /\ pass'.parking = pass.parking
<1>1. pass.written + run \in 0 .. Ceiling
  BY Bounds DEF Passes
<1>2. pass' = [pass EXCEPT !.at = step, !.written = pass.written + run, !.progress = TRUE]
  BY DEF Wrote
<1>3. QED
  BY <1>1, <1>2 DEF Passes

\* The fields of a capture.
LEMMA CapturesAre ==
  ASSUME CaptureInv
  PROVE  /\ capture.open \in BOOLEAN /\ capture.ended \in BOOLEAN /\ capture.lost \in Nat
         /\ capture.stopped \in {"none", "pilot", "nosectors"}
  BY DEF CaptureInv, Captures

\* The invariant holds of a unit that has just booted.
LEMMA CaptureInvInit == CaptureInit => CaptureInv
<1> SUFFICES ASSUME CaptureInit PROVE CaptureInv
  OBVIOUS
<1>1. <<>> \in Run /\ <<>> \in Files /\ Len(<<>>) = 0 /\ Pool \in Nat /\ Len(<<>>) <= Capacity
  BY EmptySeq, Bounds DEF Run, Files
<1>2. RecorderOK(recorder) /\ ~recorder.armed
  <2>1. recorder = [armed |-> FALSE, ring |-> <<>>, gap |-> 0, made |-> 0]
    BY DEF CaptureInit
  <2>2. QED
    BY <1>1, <2>1, Bounds DEF RecorderOK, Recorders, Plain
<1>3. StoreOK(store) /\ store.sectors = <<>>
  <2>1. /\ store.sectors = <<>> /\ store.spare = "none" /\ store \in Stores
        /\ store.old + store.free <= Pool /\ store.old \in Nat /\ store.free \in Nat
    BY <1>1 DEF CaptureInit, Stores, Spares
  <2>2. Holding(store) = store.free + store.old + 0
    BY <1>1, <2>1, HoldingIs
  <2>3. Holding(store) <= Pool
    BY <1>1, <2>1, <2>2
  <2>4. SectorsFit(store.sectors)
    BY <1>1, <2>1 DEF SectorsFit
  <2>5. QED
    BY <2>1, <2>3, <2>4 DEF StoreOK
<1>4. capture \in Captures /\ ~capture.open
  BY DEF CaptureInit, Captures
<1>5. pass \in Passes /\ pass.at = "idle" /\ ~pass.parking
  BY Bounds DEF CaptureInit, Idle, Passes, Ats
<1>6. File(store.sectors) = <<>>
  BY <1>1, <1>3, FileIs
<1>7. Ends(<<>>) /\ ~HasEnd(<<>>)
  BY DEF Ends, HasEnd
<1>8. QED
  BY <1>2, <1>3, <1>4, <1>5, <1>6, <1>7 DEF CaptureInv, Stuck, EndIsKnown, PassOK, AllTold

-----------------------------------------------------------------------------
(* The steps of a pass.                                                    *)

\* tick(): a capture opens on an empty file, and owes what was armed for.
LEMMA TickKept == ASSUME CaptureInv, Tick PROVE CaptureInv'
<1>1. pass' \in Passes /\ pass'.at = "drain" /\ ~pass'.parking /\ pass.at = "idle"
  <2>1. pass' = [Idle EXCEPT !.at = "drain"] /\ pass.at = "idle"
    BY DEF Tick
  <2>2. 0 \in 0 .. Ceiling /\ "drain" \in Ats
    BY Bounds DEF Ats
  <2>3. pass' = [at |-> "drain", parking |-> FALSE, written |-> 0, progress |-> FALSE]
    BY <2>1 DEF Idle
  <2>4. pass' \in Passes /\ pass'.at = "drain" /\ ~pass'.parking
    BY <2>2, <2>3 DEF Passes
  <2>5. QED
    BY <2>1, <2>4
<1>2. CASE /\ recorder.armed /\ ~capture.open
           /\ capture' = [open |-> TRUE, ended |-> FALSE, stopped |-> "none", lost |-> 0]
           /\ store' = [store EXCEPT !.old = @ + Len(store.sectors), !.sectors = <<>>, !.unseen = 0]
           /\ recorder' = Preamble(recorder)
  <2>1. capture' \in Captures /\ capture'.open
    BY <1>2 DEF Captures
  <2>2. Tells(recorder, recorder') /\ RecorderOK(recorder')
    BY <1>2, PreambleIs DEF CaptureInv, Tells
  <2>3. /\ store \in Stores /\ store.old \in Nat /\ store.free \in Nat /\ Len(store.sectors) \in Nat
        /\ Holding(store) <= Pool
    BY HoldingIs DEF CaptureInv, StoreOK
  <2> DEFINE old == store.old + Len(store.sectors)
  <2>4. old \in 0 .. Pool
    <3>1. Holding(store) = store.free + store.old + Len(store.sectors)
          \/ Holding(store) = store.free + store.old + Len(store.sectors) + 1
      BY <2>3, HoldingIs DEF Stores, Spares
    <3>2. QED
      BY <2>3, <3>1, Bounds
  <2>5. <<>> \in Run /\ <<>> \in Files /\ Len(<<>>) = 0
    BY EmptySeq DEF Run, Files
  <2>6. /\ store' \in Stores /\ store'.sectors = <<>> /\ store'.old = old
        /\ store'.free = store.free /\ store'.spare = store.spare
    <3>1. store' = [store EXCEPT !.old = old, !.sectors = <<>>, !.unseen = 0]
      BY <1>2
    <3>2. QED
      BY <2>3, <2>4, <2>5, <3>1 DEF Stores
  <2>7. Holding(store') = Holding(store)
    <3>1. store.free + old + 0 = store.free + store.old + Len(store.sectors)
      BY <2>3
    <3>2. QED
      BY <2>5, <2>6, <3>1 DEF Holding
  <2>8. StoreOK(store')
    BY <2>3, <2>5, <2>6, <2>7 DEF StoreOK, SectorsFit
  <2>9. File(store'.sectors) = <<>> /\ Ends(<<>>) /\ ~HasEnd(<<>>)
    BY <2>5, <2>6, FileIs DEF Ends, HasEnd
  <2>10. ~Rearms => Told(<<>>, recorder')
    BY <1>2, <2>2, <2>5 DEF CaptureInv, AllTold, Tells
  <2>11. QED
    BY <1>1, <2>1, <2>2, <2>8, <2>9, <2>10 DEF CaptureInv, Stuck, EndIsKnown, PassOK, AllTold
<1>3. CASE /\ capture.open
           /\ capture' = [capture EXCEPT !.stopped =
                            IF ~recorder.armed /\ @ = "none" THEN "pilot" ELSE @]
           /\ UNCHANGED <<recorder, store>>
  <2>1. capture' \in Captures /\ capture'.open /\ capture'.ended = capture.ended
    BY <1>3 DEF CaptureInv, Captures
  <2>2. QED
    BY <1>1, <1>3, <2>1 DEF CaptureInv, Stuck, EndIsKnown, PassOK, AllTold
<1>4. QED
  BY <1>2, <1>3 DEF Tick

\* next_run(): no run where there is no room, and room where there is a run.
LEMMA NextRunIs ==
  ASSUME CaptureInv, Queued > 0, pass.written < Ceiling, NEW next \in NextRuns(store)
  PROVE  /\ StoreOK(next[2]) /\ Shed(store, next[2])
         /\ next[1] \in 0 .. Queued /\ next[1] <= Slots /\ pass.written + next[1] <= Ceiling
         /\ SlotsLeft(next[2]) > 0 => next[1] <= SlotsLeft(next[2])
         /\ next[1] = 0 => NoRoom(next[2])
         /\ NoRoom(store) => next[1] = 0
<1> DEFINE left == SlotsLeft(store)
           room == Ceiling - pass.written
<1>1. /\ StoreOK(store) /\ left \in 0 .. Slots /\ Queued \in Nat /\ pass.written \in 0 .. Ceiling
      /\ store.sectors \in Files
  BY SlotsLeftIs, RecorderIs, FileOfStore DEF CaptureInv, Queued, Passes
<1>2. room \in Nat /\ room > 0
  BY <1>1, Bounds
<1>3. PICK slots \in RunSlots(store) :
        next \in LET asked == Lesser(Lesser(slots, room), Queued)
                 IN IF left > TailSlotsReserved /\ asked <= left - TailSlotsReserved
                    THEN {<<asked, store>>}
                    ELSE IF Reserved(store) # {} THEN {<<asked, r>> : r \in Reserved(store)}
                    ELSE {<<IF left > TailSlotsReserved THEN left - TailSlotsReserved ELSE 0, store>>}
  BY DEF NextRuns
<1> DEFINE asked == Lesser(Lesser(slots, room), Queued)
<1>4. slots \in Nat /\ slots > 0 /\ (left > 0 => slots <= left) /\ slots <= Slots
  <2>1. CASE left = 0
    BY <1>3, <2>1, Bounds DEF RunSlots
  <2>2. CASE left # 0
    BY <1>1, <1>3, <2>2, Bounds DEF RunSlots
  <2>3. QED
    BY <2>1, <2>2
<1> HIDE DEF left, room
<1>5. /\ asked \in Nat /\ asked > 0 /\ asked <= slots /\ asked <= room /\ asked <= Queued
  BY <1>1, <1>2, <1>4 DEF Lesser
<1> HIDE DEF asked
<1>6. /\ asked \in 0 .. Queued /\ asked <= Slots /\ pass.written + asked <= Ceiling
      /\ left > 0 => asked <= left
  <2>1. asked \in 0 .. Queued /\ asked <= Slots /\ (left > 0 => asked <= left)
    BY <1>1, <1>4, <1>5, Bounds
  <2>2. pass.written + asked <= Ceiling
    BY <1>1, <1>5, Bounds DEF room
  <2>3. QED
    BY <2>1, <2>2
<1>7. Shed(store, store)
  BY <1>1, ShedNothing
<1>8. NoRoom(store) => left <= TailSlotsReserved /\ Reserved(store) = {}
  BY <1>1, ClaimedNone DEF NoRoom, left
<1>9. CASE left > TailSlotsReserved /\ asked <= left - TailSlotsReserved
  <2>1. next = <<asked, store>>
    BY <1>3, <1>9 DEF asked
  <2>2. ~NoRoom(store)
    BY <1>1, <1>8, <1>9, Bounds DEF TailSlotsReserved
  <2>3. asked # 0
    BY <1>5
  <2>4. QED
    BY <1>1, <1>6, <1>7, <2>1, <2>2, <2>3 DEF left
<1>10. CASE ~ (left > TailSlotsReserved /\ asked <= left - TailSlotsReserved) /\ Reserved(store) # {}
  <2>1. PICK r \in Reserved(store) : next = <<asked, r>>
    BY <1>3, <1>10 DEF asked
  <2>2. StoreOK(r) /\ Shed(store, r) /\ SlotsLeft(r) = left
    BY <1>1, ReservedIs DEF left
  <2>3. ~NoRoom(store) /\ asked # 0
    BY <1>5, <1>8, <1>10
  <2>4. QED
    BY <1>6, <2>1, <2>2, <2>3
<1>11. CASE ~ (left > TailSlotsReserved /\ asked <= left - TailSlotsReserved) /\ Reserved(store) = {}
  <2> DEFINE run == IF left > TailSlotsReserved THEN left - TailSlotsReserved ELSE 0
  <2>1. next = <<run, store>>
    BY <1>3, <1>11 DEF asked
  <2>2. run \in Nat /\ run <= asked /\ (run = 0 => left <= TailSlotsReserved)
        /\ (left <= TailSlotsReserved => run = 0)
    BY <1>1, <1>5, <1>11, Bounds DEF TailSlotsReserved
  <2>3. Claimed(store) = {}
    BY <1>1, <1>11, ClaimedNone
  <2> HIDE DEF run
  <2>4. run = 0 => NoRoom(store)
    BY <2>2, <2>3 DEF NoRoom, left
  <2>5. run \in 0 .. Queued /\ run <= Slots /\ pass.written + run <= Ceiling /\ (left > 0 => run <= left)
    BY <1>1, <1>5, <1>6, <2>2, Bounds
  <2>6. QED
    BY <1>1, <1>7, <1>8, <2>1, <2>2, <2>4, <2>5 DEF left
<1>12. QED
  BY <1>9, <1>10, <1>11

\* drain(): what the file gets is what the ring gives, and a refused run is
\* refused for want of room.
LEMMA DrainRunKept ==
  ASSUME CaptureInv, NEW answer \in Answers, DrainRun(answer)
  PROVE  CaptureInv'
<1> DEFINE flushed == FlushGap(recorder)
           old == File(store.sectors)
           new == File(store'.sectors)
<1>1. /\ RecorderOK(recorder) /\ StoreOK(store) /\ pass \in Passes /\ capture \in Captures
      /\ pass.at = "drain" /\ Queued > 0 /\ pass.written < Ceiling /\ capture' = capture
  BY DEF CaptureInv, DrainRun
<1>2. /\ Tells(recorder, flushed) /\ RecorderOK(flushed) /\ flushed.armed = recorder.armed
      /\ Queued <= Len(flushed.ring) /\ flushed.ring \in Run
  BY <1>1, FlushIs, RecorderIs DEF Tells, Queued
<1>3. PICK next \in NextRuns(store) :
        IF next[1] = 0
        THEN answer = "NoSector" /\ store' = next[2] /\ UNCHANGED recorder /\ At("refused")
        ELSE \E a \in Appends(next[2], SubSeq(flushed.ring, 1, next[1])) :
               /\ a[1] = answer
               /\ store' = a[2]
               /\ recorder' = IF answer = "Ok" THEN Committed(flushed, next[1]) ELSE flushed
               /\ CASE answer = "Ok" -> Wrote("announce", next[1])
                    [] answer = "NoSector" -> At("refused")
                    [] answer \in {"Deferred", "Fault"} -> At("drained")
  BY DEF DrainRun
<1> DEFINE mid == next[2]
           run == next[1]
<1>4. /\ StoreOK(mid) /\ Shed(store, mid)
      /\ run \in 0 .. Queued /\ run <= Slots /\ pass.written + run <= Ceiling
      /\ SlotsLeft(mid) > 0 => run <= SlotsLeft(mid)
      /\ run = 0 => NoRoom(mid)
      /\ NoRoom(store) => run = 0
  BY <1>1, NextRunIs
<1> HIDE DEF mid, run, flushed
<1>5. /\ Ends(File(mid.sectors))
      /\ HasEnd(File(mid.sectors)) => HasEnd(old)
      /\ \A r : RecorderOK(r) /\ Told(old, r) => Told(File(mid.sectors), r)
  BY <1>1, <1>4, ShedFile DEF CaptureInv
<1>6. ~capture.open => NoRoom(store)
  BY <1>1 DEF CaptureInv, Stuck
<1>7. /\ pass.at # "idle" /\ (~capture.open => capture.ended)
      /\ HasEnd(old) => capture.ended /\ ~capture.open
      /\ pass.parking => ~recorder.armed
  BY <1>1 DEF CaptureInv, EndIsKnown, PassOK
<1>8. CASE run = 0
  <2>1. store' = mid /\ recorder' = recorder /\ At("refused")
    BY <1>3, <1>8 DEF mid, run
  <2>2. pass' \in Passes /\ pass'.at = "refused" /\ pass'.parking = pass.parking
    BY <1>1, <2>1, AtIs DEF Ats
  <2>3. NoRoom(store')
    BY <1>4, <1>8, <2>1
  <2>4. AllTold'
    BY <1>1, <1>5, <2>1 DEF CaptureInv, AllTold
  <2>5. QED
    BY <1>1, <1>4, <1>5, <1>7, <2>1, <2>2, <2>3, <2>4 DEF CaptureInv, Stuck, EndIsKnown, PassOK
<1>9. CASE run # 0
  <2> DEFINE front == SubSeq(flushed.ring, 1, run)
             rest == Committed(flushed, run)
  <2>1. PICK a \in Appends(mid, front) :
          /\ a[1] = answer
          /\ store' = a[2]
          /\ recorder' = IF answer = "Ok" THEN rest ELSE flushed
          /\ CASE answer = "Ok" -> Wrote("announce", run)
               [] answer = "NoSector" -> At("refused")
               [] answer \in {"Deferred", "Fault"} -> At("drained")
    BY <1>3, <1>9 DEF mid, run, flushed
  <2>2. run \in 0 .. Len(flushed.ring) /\ run \in 1 .. Slots /\ run \in Nat
    <3>1. Queued \in Nat /\ Len(flushed.ring) \in Nat
      BY <1>1, <1>2, RecorderIs DEF Queued
    <3>2. QED
      BY <1>2, <1>4, <1>9, <3>1, Bounds
  <2>3. /\ RecorderOK(rest) /\ rest.armed = flushed.armed /\ rest.made = flushed.made
        /\ rest.gap = flushed.gap /\ front \in Run /\ Len(front) = run /\ Plain(front)
        /\ flushed.ring = front \o rest.ring
    BY <1>2, <2>2, CommittedIs
  <2> HIDE DEF front, rest
  <2>4. /\ StoreOK(a[2])
        /\ a[1] # "Ok" => a[2] = mid
        /\ a[1] = "Ok" => Grows(mid, a[2], front)
        /\ a[1] = "NoSector" => SlotsLeft(mid) = 0 /\ Bare(mid)
    BY <1>4, <2>2, <2>3, AppendsIs
  <2>5. capture.open
    BY <1>4, <1>6, <1>9 DEF CaptureInv, Captures
  <2>6. ~HasEnd(old)
    BY <1>7, <2>5
  <2>7. CASE answer = "Ok"
    <3>1. store' = a[2] /\ recorder' = rest /\ Wrote("announce", run) /\ Grows(mid, store', front)
      BY <2>1, <2>4, <2>7
    <3>2. pass' \in Passes /\ pass'.at = "announce" /\ pass'.parking = pass.parking
      BY <1>1, <1>4, <2>2, <3>1, WroteIs DEF Ats
    <3>3. \A i \in 1 .. Len(front) : front[i].kind # "end"
      BY <2>3 DEF Plain, RingKinds
    <3>4. StoreOK(store') /\ Ends(new) /\ ~HasEnd(new)
      BY <1>4, <1>5, <2>3, <2>4, <2>6, <3>1, <3>3, GrownFile
    <3>5. RecorderOK(recorder') /\ recorder'.armed = recorder.armed
      BY <1>2, <2>3, <3>1
    <3>6. ASSUME ~Rearms PROVE Told(new, recorder')
      <4>1. Told(old, recorder) /\ old \in Run
        BY <1>1, <2>5, <3>6, FileOfStore DEF CaptureInv, AllTold
      <4>2. Told(old, flushed)
        BY <1>2, <4>1 DEF Tells
      <4>3. Told(File(mid.sectors), flushed)
        BY <1>2, <1>5, <4>2
      <4>4. /\ flushed.made - flushed.gap \in Int /\ rest.ring \in Run
            /\ Counted(File(mid.sectors) \o (front \o rest.ring), flushed.made - flushed.gap)
        BY <1>2, <2>3, <4>3, RecorderIs DEF Told
      <4>5. Counted(new \o rest.ring, flushed.made - flushed.gap)
        BY <2>3, <3>1, <4>4, CountedMoved
      <4>6. QED
        BY <2>3, <3>1, <4>5 DEF Told
    <3>7. QED
      BY <1>1, <1>7, <2>5, <3>2, <3>4, <3>5, <3>6 DEF CaptureInv, Stuck, EndIsKnown, PassOK, AllTold
  <2>8. CASE answer # "Ok"
    <3>1. /\ store' = mid /\ recorder' = flushed /\ StoreOK(mid)
          /\ answer = "NoSector" => NoRoom(mid)
      <4>1. answer = "NoSector" => SlotsLeft(mid) = 0 /\ Claimed(mid) = {}
        BY <1>4, <2>1, <2>4, ClaimedNone
      <4>2. QED
        BY <1>4, <2>1, <2>4, <2>8, <4>1 DEF NoRoom, TailSlotsReserved
    <3>2. /\ pass' \in Passes /\ pass'.parking = pass.parking
          /\ pass'.at = IF answer = "NoSector" THEN "refused" ELSE "drained"
      <4>1. IF answer = "NoSector" THEN At("refused") ELSE At("drained")
        BY <2>1, <2>8 DEF Answers
      <4>2. QED
        BY <1>1, <4>1, AtIs DEF Ats
    <3>3. ASSUME ~Rearms PROVE Told(new, recorder')
      <4>1. Told(old, recorder) /\ old \in Run
        BY <1>1, <2>5, <3>3, FileOfStore DEF CaptureInv, AllTold
      <4>2. Told(old, flushed)
        BY <1>2, <4>1 DEF Tells
      <4>3. QED
        BY <1>2, <1>5, <3>1, <4>2
    <3>4. QED
      BY <1>1, <1>2, <1>5, <1>7, <2>5, <3>1, <3>2, <3>3 DEF CaptureInv, Stuck, EndIsKnown, PassOK, AllTold
  <2>9. QED
    BY <2>7, <2>8
<1>10. QED
  BY <1>8, <1>9

\* announce_rotation() with nothing to tell.
LEMMA NothingLostKept == ASSUME CaptureInv, NothingLost PROVE CaptureInv'
<1>1. /\ pass.at = "announce" /\ pass \in Passes /\ At("drain")
      /\ recorder' = recorder /\ capture' = capture /\ store' = store
  BY DEF CaptureInv, NothingLost
<1>2. pass' \in Passes /\ pass'.at = "drain" /\ pass'.parking = pass.parking
  BY <1>1, AtIs DEF Ats
<1>3. QED
  BY <1>1, <1>2 DEF CaptureInv, Stuck, EndIsKnown, PassOK, AllTold

\* announce_rotation(): the gap, and the preamble again.
LEMMA AnnounceKept ==
  ASSUME CaptureInv, NEW answer \in Answers, Announce(answer)
  PROVE  CaptureInv'
<1> DEFINE lost == capture.lost + store.unseen * Slots
           told == [store EXCEPT !.unseen = 0]
           gap == Gap("rotated", lost)
           old == File(store.sectors)
           new == File(store'.sectors)
<1>1. /\ RecorderOK(recorder) /\ StoreOK(store) /\ pass \in Passes /\ capture \in Captures
      /\ pass.at = "announce" /\ capture.open
  BY DEF CaptureInv, Announce, PassOK
<1>2. lost \in Nat
  <2>1. store.unseen \in Nat /\ capture.lost \in Nat /\ Slots \in Nat
    BY <1>1, Bounds DEF StoreOK, Stores, Captures
  <2>2. store.unseen * Slots \in Nat
    BY <2>1
  <2>3. QED
    BY <2>1, <2>2
<1>3. gap \in Records /\ gap.kind = "rotated"
  BY <1>2, RecordsAre
<1> HIDE DEF lost
<1>4. StoreOK(told) /\ told.sectors = store.sectors
  <2>1. /\ told \in Stores /\ told.sectors = store.sectors /\ told.free = store.free
        /\ told.old = store.old /\ told.spare = store.spare
    BY <1>1 DEF StoreOK, Stores
  <2>2. QED
    BY <1>1, <2>1 DEF StoreOK, Holding
<1>5. PICK a \in Appends(told, <<gap>>) : a[1] = answer /\ store' = a[2]
  BY DEF Announce, lost
<1> HIDE DEF gap, told
<1>6. /\ <<gap>> \in Run /\ Len(<<gap>>) = 1 /\ \A i \in 1 .. Len(<<gap>>) : <<gap>>[i].kind # "end"
  <2>1. <<gap>> \in Run /\ Len(<<gap>>) = 1 /\ <<gap>>[1] = gap
    BY <1>3, OneRecord
  <2>2. QED
    BY <1>3, <2>1
<1>7. /\ StoreOK(store') /\ (answer # "Ok" => store' = told)
      /\ answer = "Ok" => Grows(told, store', <<gap>>)
  <2>1. Len(<<gap>>) \in 1 .. Slots
    BY <1>6, Bounds
  <2>2. SlotsLeft(told) > 0 => Len(<<gap>>) <= SlotsLeft(told)
    BY <1>4, <1>6, SlotsLeftIs, Bounds
  <2>3. QED
    BY <1>4, <1>5, <1>6, <2>1, <2>2, AppendsIs
<1>8. ~HasEnd(old) /\ Ends(old) /\ old \in Run
  BY <1>1, FileOfStore DEF CaptureInv, EndIsKnown
<1>9. StoreOK(store') /\ Ends(new) /\ ~HasEnd(new)
  <2>1. CASE answer = "Ok"
    BY <1>4, <1>6, <1>7, <1>8, <2>1, GrownFile
  <2>2. CASE answer # "Ok"
    BY <1>4, <1>7, <1>8, <2>2
  <2>3. QED
    BY <2>1, <2>2
<1>10. ASSUME ~Rearms PROVE Told(new, recorder)
  <2>1. Told(old, recorder)
    BY <1>1, <1>10 DEF CaptureInv, AllTold
  <2>2. CASE answer = "Ok"
    <3>1. /\ recorder.ring \in Run /\ recorder.made - recorder.gap \in Int
          /\ gap.kind \notin Numbered \cup {"dropped"}
      BY <1>1, <1>3, RecorderIs DEF Numbered
    <3>2. Counted(File(told.sectors) \o recorder.ring, recorder.made - recorder.gap)
      BY <1>4, <2>1 DEF Told
    <3>3. QED
      BY <1>3, <1>7, <2>2, <3>1, <3>2, CountedMarked DEF Told
  <2>3. CASE answer # "Ok"
    BY <1>4, <1>7, <2>1, <2>3
  <2>4. QED
    BY <2>2, <2>3
<1>11. CASE answer = "Ok"
  <2>1. /\ capture' = [capture EXCEPT !.lost = 0] /\ recorder' = Preamble(recorder)
        /\ Wrote("drain", 0)
    BY <1>11 DEF Announce
  <2>2. pass.written + 0 <= Ceiling
    BY <1>1, Bounds DEF Passes
  <2>3. pass' \in Passes /\ pass'.at = "drain" /\ pass'.parking = pass.parking
    BY <1>1, <2>1, <2>2, WroteIs DEF Ats
  <2>4. capture' \in Captures /\ capture'.open = capture.open /\ capture'.ended = capture.ended
    BY <1>1, <2>1 DEF Captures
  <2>5. Tells(recorder, recorder')
    BY <1>1, <2>1, PreambleIs
  <2>6. new \in Run
    BY <1>9, FileOfStore
  <2>7. QED
    BY <1>1, <1>9, <1>10, <2>3, <2>4, <2>5, <2>6
    DEF CaptureInv, Stuck, EndIsKnown, PassOK, AllTold, Tells
<1>12. CASE answer # "Ok"
  <2>1. /\ capture' = [capture EXCEPT !.lost = lost] /\ recorder' = recorder /\ At("drained")
    BY <1>12 DEF Announce, lost
  <2>2. pass' \in Passes /\ pass'.at = "drained" /\ pass'.parking = pass.parking
    BY <1>1, <2>1, AtIs DEF Ats
  <2>3. capture' \in Captures /\ capture'.open = capture.open /\ capture'.ended = capture.ended
    BY <1>1, <1>2, <2>1 DEF Captures
  <2>4. QED
    BY <1>1, <1>9, <1>10, <2>1, <2>2, <2>3 DEF CaptureInv, Stuck, EndIsKnown, PassOK, AllTold
<1>13. QED
  BY <1>11, <1>12

\* prepare_spare()
LEMMA PrepareSpareKept == ASSUME CaptureInv, PrepareSpare PROVE CaptureInv'
<1>1. /\ RecorderOK(recorder) /\ StoreOK(store) /\ pass \in Passes /\ capture \in Captures
      /\ pass.at = "drain" /\ capture' = capture /\ recorder' = recorder /\ At("drained")
  BY DEF CaptureInv, PrepareSpare
<1>2. pass' \in Passes /\ pass'.at = "drained" /\ pass'.parking = pass.parking
  BY <1>1, AtIs DEF Ats
<1>3. CASE store' = store
  BY <1>1, <1>2, <1>3 DEF CaptureInv, Stuck, EndIsKnown, PassOK, AllTold
<1>4. CASE store' # store
  <2>1. PICK r \in Reserved(store) : store' = [r EXCEPT !.spare = "ready"] \/ store' = r
    BY <1>4 DEF PrepareSpare
  <2>2. StoreOK(r) /\ Shed(store, r) /\ r.spare # "none"
    BY <1>1, ReservedIs
  <2>3. StoreOK(store') /\ store'.sectors = r.sectors
    <3>1. CASE store' = r
      BY <2>2, <3>1
    <3>2. CASE store' = [r EXCEPT !.spare = "ready"]
      <4>1. /\ store' \in Stores /\ store'.sectors = r.sectors /\ store'.free = r.free
            /\ store'.old = r.old /\ store'.spare = "ready"
        BY <2>2, <3>2 DEF StoreOK, Stores, Spares
      <4>2. Holding(store') = Holding(r)
        BY <2>2, <4>1 DEF Holding
      <4>3. QED
        BY <2>2, <4>1, <4>2 DEF StoreOK
    <3>3. QED
      BY <2>1, <3>1, <3>2
  <2>4. capture.open
    <3>1. Reserved(store) # {}
      BY <2>1
    <3>2. ~NoRoom(store)
      BY <1>1, <3>1, ClaimedNone DEF NoRoom
    <3>3. QED
      BY <1>1, <3>2 DEF CaptureInv, Stuck, Captures
  <2>5. /\ Ends(File(store'.sectors))
        /\ HasEnd(File(store'.sectors)) => HasEnd(File(store.sectors))
        /\ \A x : RecorderOK(x) /\ Told(File(store.sectors), x) => Told(File(store'.sectors), x)
    BY <1>1, <2>2, <2>3, ShedFile DEF CaptureInv
  <2>6. QED
    BY <1>1, <1>2, <2>3, <2>4, <2>5 DEF CaptureInv, Stuck, EndIsKnown, PassOK, AllTold
<1>5. QED
  BY <1>3, <1>4

\* A marker behind the file, or nothing: the records before it count as they did.
LEMMA MarkerIs ==
  ASSUME StoreOK(store), Ends(File(store.sectors)),
         NEW marker \in Records, marker.kind \notin Numbered \cup {"dropped"},
         marker.kind = "stopped" \/ ~HasEnd(File(store.sectors)),
         NEW a \in Appends(store, <<marker>>)
  PROVE  /\ StoreOK(a[2]) /\ Ends(File(a[2].sectors))
         /\ a[1] # "Ok" => a[2] = store
         /\ NoRoom(store) => NoRoom(a[2])
         /\ marker.kind = "stopped" /\ HasEnd(File(a[2].sectors)) => HasEnd(File(store.sectors))
         /\ \A r : RecorderOK(r) /\ Told(File(store.sectors), r) => Told(File(a[2].sectors), r)
<1> DEFINE t == a[2]
<1>1. <<marker>> \in Run /\ Len(<<marker>>) = 1 /\ \A i \in 1 .. Len(<<marker>>) : <<marker>>[i] = marker
  <2>1. <<marker>> \in Run /\ Len(<<marker>>) = 1 /\ <<marker>>[1] = marker
    BY OneRecord
  <2>2. QED
    BY <2>1
<1>2. /\ StoreOK(t) /\ (a[1] # "Ok" => t = store)
      /\ a[1] = "Ok" => Grows(store, t, <<marker>>)
      /\ NoRoom(store) => NoRoom(t)
  <2>1. Len(<<marker>>) \in 1 .. Slots
    BY <1>1, Bounds
  <2>2. SlotsLeft(store) > 0 => Len(<<marker>>) <= SlotsLeft(store)
    BY <1>1, SlotsLeftIs, Bounds
  <2>3. QED
    BY <1>1, <2>1, <2>2, AppendsIs
<1> HIDE DEF t
<1>3. CASE a[1] = "Ok"
  <2>1. /\ Ends(File(t.sectors))
        /\ marker.kind = "stopped" /\ HasEnd(File(t.sectors)) => HasEnd(File(store.sectors))
    <3>1. marker.kind = "stopped" => \A i \in 1 .. Len(<<marker>>) : <<marker>>[i].kind # "end"
      BY <1>1
    <3>2. CASE marker.kind = "stopped"
      BY <1>1, <1>2, <1>3, <3>1, <3>2, GrownFile
    <3>3. CASE marker.kind # "stopped"
      BY <1>1, <1>2, <1>3, <3>3, GrownFile
    <3>4. QED
      BY <3>2, <3>3
  <2>2. ASSUME NEW r, RecorderOK(r), Told(File(store.sectors), r) PROVE Told(File(t.sectors), r)
    <3>1. r.ring \in Run /\ r.made - r.gap \in Int
      BY <2>2, RecorderIs
    <3>2. QED
      BY <1>2, <1>3, <2>2, <3>1, CountedMarked DEF Told
  <2>3. QED
    BY <1>2, <2>1, <2>2 DEF t
<1>4. CASE a[1] # "Ok"
  BY <1>2, <1>4 DEF t
<1>5. QED
  BY <1>3, <1>4

\* A recorder disarmed still owes what it holds.
LEMMA DisarmedIs ==
  ASSUME RecorderOK(recorder), recorder' = Disarmed(recorder)
  PROVE  /\ RecorderOK(recorder') /\ ~recorder'.armed
         /\ \A file : Told(file, recorder) => Told(file, recorder')
<1>1. /\ recorder' \in Recorders /\ ~recorder'.armed /\ recorder'.ring = recorder.ring
      /\ recorder'.gap = recorder.gap /\ recorder'.made = recorder.made
  BY DEF RecorderOK, Recorders, Disarmed
<1>2. QED
  BY <1>1 DEF RecorderOK, Told

\* stop_on_refusal(): the reason, where there is room for it.
LEMMA RefusedKept ==
  ASSUME CaptureInv, NEW answer \in Answers, Refused(answer)
  PROVE  CaptureInv'
<1> DEFINE marker == Gap("stopped", Queued)
           old == File(store.sectors)
           new == File(store'.sectors)
<1>1. /\ RecorderOK(recorder) /\ StoreOK(store) /\ pass \in Passes /\ capture \in Captures
      /\ pass.at = "refused" /\ NoRoom(store) /\ Ends(old) /\ old \in Run
      /\ HasEnd(old) => capture.ended /\ ~capture.open
      /\ ~capture.open => capture.ended
      /\ pass.parking => ~recorder.armed
  BY FileOfStore DEF CaptureInv, Refused, Stuck, EndIsKnown, PassOK
<1>2. marker \in Records /\ marker.kind = "stopped" /\ marker.kind \notin Numbered \cup {"dropped"}
  <2>1. Queued \in Nat
    BY <1>1, RecorderIs DEF Queued
  <2>2. QED
    BY <2>1, RecordsAre DEF Numbered
<1>3. /\ StoreOK(store') /\ Ends(new) /\ (answer = "Deferred" => store' = store) /\ NoRoom(store')
      /\ HasEnd(new) => HasEnd(old)
      /\ \A r : RecorderOK(r) /\ Told(old, r) => Told(new, r)
  <2>1. CASE SlotsLeft(store) = 0
    <3>1. answer = "Ok" /\ store' = store
      BY <2>1 DEF Refused
    <3>2. QED
      BY <1>1, <3>1
  <2>2. CASE SlotsLeft(store) # 0
    <3>1. PICK a \in Appends(store, <<marker>>) : a[1] = answer /\ store' = a[2]
      BY <2>2 DEF Refused
    <3> HIDE DEF marker
    <3>2. QED
      BY <1>1, <1>2, <3>1, MarkerIs
  <2>3. QED
    BY <2>1, <2>2
<1>4. CASE answer = "Deferred"
  <2>1. At("drained") /\ recorder' = recorder /\ capture' = capture /\ store' = store
    BY <1>3, <1>4 DEF Refused
  <2>2. pass' \in Passes /\ pass'.at = "drained" /\ pass'.parking = pass.parking
    BY <1>1, <2>1, AtIs DEF Ats
  <2>3. QED
    BY <1>1, <2>1, <2>2 DEF CaptureInv, Stuck, EndIsKnown, PassOK, AllTold
<1>5. CASE answer # "Deferred"
  <2>1. /\ recorder' = Disarmed(recorder) /\ capture' = [capture EXCEPT !.stopped = "nosectors"]
        /\ Wrote("stopping", 0) \/ At("stopping")
    BY <1>5 DEF Refused
  <2>2. pass' \in Passes /\ pass'.at = "stopping" /\ pass'.parking = pass.parking
    <3>1. pass.written + 0 <= Ceiling
      BY <1>1, Bounds DEF Passes
    <3>2. QED
      BY <1>1, <2>1, <3>1, AtIs, WroteIs DEF Ats
  <2>3. capture' \in Captures /\ capture'.open = capture.open /\ capture'.ended = capture.ended
    BY <1>1, <2>1 DEF Captures
  <2>4. /\ RecorderOK(recorder') /\ ~recorder'.armed
        /\ \A file : Told(file, recorder) => Told(file, recorder')
    BY <1>1, <2>1, DisarmedIs
  <2>5. ~Rearms /\ capture.open => Told(new, recorder')
    BY <1>1, <1>3, <2>4 DEF CaptureInv, AllTold
  <2>6. QED
    BY <1>1, <1>3, <2>2, <2>3, <2>4, <2>5 DEF CaptureInv, Stuck, EndIsKnown, PassOK, AllTold
<1>6. QED
  BY <1>4, <1>5

\* close(): the end goes in once, behind everything, and the capture is closed.
LEMMA CloseKept ==
  ASSUME CaptureInv, NEW answer \in Answers, Close(answer)
  PROVE  CaptureInv'
<1> DEFINE old == File(store.sectors)
           new == File(store'.sectors)
<1>1. /\ RecorderOK(recorder) /\ StoreOK(store) /\ pass \in Passes /\ capture \in Captures
      /\ Ends(old) /\ ~recorder.armed /\ recorder' = recorder
      /\ HasEnd(old) => capture.ended /\ ~capture.open
      /\ pass.at \in {"stopping", "drained", "parked"}
      /\ ~capture.open => capture.ended /\ NoRoom(store)
      /\ pass.at = "stopping" => NoRoom(store)
  <2>1. Closing /\ recorder' = recorder
    BY DEF Close
  <2>2. QED
    BY <2>1 DEF CaptureInv, Closing, Stuck, EndIsKnown, PassOK
<1>2. /\ StoreOK(store') /\ Ends(new) /\ (answer = "Deferred" => store' = store)
      /\ NoRoom(store) => NoRoom(store')
  <2>1. CASE capture.ended
    <3>1. store' = store
      BY <2>1 DEF Close
    <3>2. QED
      BY <1>1, <3>1
  <2>2. CASE ~capture.ended
    <3>1. PICK a \in Appends(store, <<End>>) : a[1] = answer /\ store' = a[2]
      BY <2>2 DEF Close
    <3>2. End \in Records /\ End.kind \notin Numbered \cup {"dropped"}
      BY DEF End, Records, Numbered
    <3>3. ~HasEnd(old)
      BY <1>1, <2>2
    <3>4. QED
      BY <1>1, <3>1, <3>2, <3>3, MarkerIs
  <2>3. QED
    BY <2>1, <2>2
<1>3. /\ capture' \in Captures
      /\ answer = "Deferred" => capture' = capture
      /\ answer # "Deferred" => capture'.ended /\ ~capture'.open
  BY <1>1 DEF Close, Ended, Captures
<1>4. /\ pass' \in Passes /\ pass'.at \in {"idle", "drained", "off"}
      /\ pass'.at = "drained" => NoRoom(store)
      /\ pass'.at = "idle" => ~pass'.parking
  <2>1. CASE pass.at = "stopping"
    <3>1. Wrote("drained", 0) \/ At("drained")
      BY <2>1 DEF Close, AfterClosing
    <3>2. pass.written + 0 <= Ceiling
      BY <1>1, Bounds DEF Passes
    <3>3. pass' \in Passes /\ pass'.at = "drained"
      BY <1>1, <3>1, <3>2, AtIs, WroteIs DEF Ats
    <3>4. QED
      BY <1>1, <2>1, <3>3
  <2>2. CASE pass.at = "drained"
    <3>1. pass' = Idle
      BY <2>2 DEF Close, AfterClosing
    <3>2. 0 \in 0 .. Ceiling /\ "idle" \in Ats
      BY Bounds DEF Ats
    <3>3. QED
      BY <3>1, <3>2 DEF Idle, Passes
  <2>3. CASE pass.at = "parked"
    <3>1. At("off")
      BY <2>3 DEF Close, AfterClosing
    <3>2. pass' \in Passes /\ pass'.at = "off"
      BY <1>1, <3>1, AtIs DEF Ats
    <3>3. QED
      BY <3>2
  <2>4. QED
    BY <1>1, <2>1, <2>2, <2>3
<1>5. CASE answer = "Deferred"
  BY <1>1, <1>2, <1>3, <1>4, <1>5 DEF CaptureInv, Stuck, EndIsKnown, PassOK, AllTold
<1>6. CASE answer # "Deferred"
  BY <1>1, <1>2, <1>3, <1>4, <1>6 DEF CaptureInv, Stuck, EndIsKnown, PassOK, AllTold
<1>7. QED
  BY <1>5, <1>6

\* The end of a pass, and the drain after it at a power-off.
LEMMA EndPassKept == ASSUME CaptureInv, EndPass PROVE CaptureInv'
<1>1. /\ pass \in Passes /\ pass.at = "drained"
      /\ recorder' = recorder /\ capture' = capture /\ store' = store
  BY DEF CaptureInv, EndPass
<1>2. /\ pass' \in Passes /\ pass'.at \in {"idle", "drain", "parked"}
      /\ pass'.at = "idle" => ~pass'.parking
      /\ pass'.parking \/ pass'.at = "parked" => pass.parking
  <2>1. 0 \in 0 .. Ceiling /\ {"idle", "drain", "parked"} \subseteq Ats
    BY Bounds DEF Ats
  <2>2. CASE ~pass.parking
    <3>1. pass' = Idle
      BY <2>2 DEF EndPass
    <3>2. QED
      BY <2>1, <3>1 DEF Idle, Passes
  <2>3. CASE pass.parking /\ Queued > 0 /\ pass.progress
    <3>1. pass' = [Idle EXCEPT !.at = "drain", !.parking = TRUE]
      BY <2>3 DEF EndPass
    <3>2. pass' = [at |-> "drain", parking |-> TRUE, written |-> 0, progress |-> FALSE]
      BY <3>1 DEF Idle
    <3>3. QED
      BY <2>1, <2>3, <3>2 DEF Passes
  <2>4. CASE pass.parking /\ ~ (Queued > 0 /\ pass.progress)
    <3>1. pass' = [pass EXCEPT !.at = "parked"]
      BY <2>4 DEF EndPass
    <3>2. QED
      BY <1>1, <2>1, <2>4, <3>1 DEF Passes
  <2>5. QED
    BY <2>2, <2>3, <2>4
<1>3. QED
  BY <1>1, <1>2 DEF CaptureInv, Stuck, EndIsKnown, PassOK, AllTold

\* park()
LEMMA ParkKept == ASSUME CaptureInv, Park PROVE CaptureInv'
<1>1. /\ RecorderOK(recorder) /\ capture \in Captures /\ capture.open
      /\ recorder' = Disarmed(recorder) /\ store' = store
  BY DEF CaptureInv, Park
<1>2. /\ RecorderOK(recorder') /\ ~recorder'.armed
      /\ \A file : Told(file, recorder) => Told(file, recorder')
  BY <1>1, DisarmedIs
<1>3. capture' \in Captures /\ capture'.open /\ capture'.ended = capture.ended
  BY <1>1 DEF Park, Captures
<1>4. pass' \in Passes /\ pass'.at \in {"drain", "parked"}
  <2>1. 0 \in 0 .. Ceiling /\ {"drain", "parked"} \subseteq Ats
    BY Bounds DEF Ats
  <2>2. pass' = [at |-> IF Queued > 0 THEN "drain" ELSE "parked", parking |-> TRUE,
                 written |-> 0, progress |-> FALSE]
    BY DEF Park, Idle
  <2>3. QED
    BY <2>1, <2>2 DEF Passes
<1>5. QED
  BY <1>1, <1>2, <1>3, <1>4 DEF CaptureInv, Stuck, EndIsKnown, PassOK, AllTold

-----------------------------------------------------------------------------
(* Between two passes.                                                     *)

\* A record pushed by a service is in the ring or in its gap.
LEMMA TapKept == ASSUME CaptureInv, Tap PROVE CaptureInv'
<1>1. /\ RecorderOK(recorder) /\ StoreOK(store) /\ pass.at = "idle" /\ recorder.armed
      /\ recorder' = Push(recorder, Sample(recorder.made + 1))
      /\ capture' = capture /\ store' = store /\ pass' = pass
  BY DEF CaptureInv, Tap
<1>2. Tells(recorder, recorder')
  <2>1. recorder.made + 1 \in Nat
    BY <1>1, RecorderIs
  <2>2. QED
    BY <1>1, <2>1, RecordsAre, PushIs
<1>3. File(store.sectors) \in Run /\ <<>> \in Run
  BY <1>1, FileOfStore, RunsJoin
<1>4. QED
  BY <1>1, <1>2, <1>3 DEF CaptureInv, Stuck, EndIsKnown, PassOK, AllTold, Tells

\* toggle_capture(): what is armed anew owes what it makes from here on.
LEMMA ToggleKept == ASSUME CaptureInv, Toggle PROVE CaptureInv'
<1>1. /\ RecorderOK(recorder) /\ pass.at = "idle"
      /\ capture' = capture /\ store' = store /\ pass' = pass
  BY DEF CaptureInv, Toggle
<1>2. CASE recorder' = Disarmed(recorder)
  <2>1. /\ RecorderOK(recorder') /\ ~recorder'.armed
        /\ \A file : Told(file, recorder) => Told(file, recorder')
    BY <1>1, <1>2, DisarmedIs
  <2>2. QED
    BY <1>1, <2>1 DEF CaptureInv, Stuck, EndIsKnown, PassOK, AllTold
<1>3. CASE (capture.open => Rearms) /\ recorder' = Armed(recorder)
  <2>1. <<>> \in Run /\ Len(<<>>) = 0 /\ <<>> \o <<>> = <<>> /\ recorder.made \in Nat
    BY <1>1, EmptySeq, RunsJoin, RecorderIs DEF Run
  <2>2. /\ recorder' \in Recorders /\ recorder'.ring = <<>> /\ recorder'.gap = 0
        /\ recorder'.made = recorder.made
    BY <1>1, <1>3, <2>1 DEF RecorderOK, Recorders, Armed
  <2>3. RecorderOK(recorder')
    BY <2>1, <2>2, Bounds DEF RecorderOK, Plain
  <2>4. Told(<<>>, recorder')
    <3> DEFINE top == recorder'.made - recorder'.gap
               f == [i \in 1 .. 0 + 1 |-> top]
    <3>1. top \in Int
      BY <2>1, <2>2
    <3> HIDE DEF top
    <3>2. f \in [1 .. 0 + 1 -> Int] /\ f[0 + 1] = top
      BY <3>1
    <3> HIDE DEF f
    <3>3. Counts(<<>>, top, f)
      BY <2>1, <3>2 DEF Counts
    <3>4. QED
      BY <2>1, <2>2, <3>3 DEF Told, Counted, top
  <2>5. QED
    BY <1>1, <1>3, <2>3, <2>4 DEF CaptureInv, Stuck, EndIsKnown, PassOK, AllTold
<1>4. QED
  BY <1>2, <1>3 DEF Toggle

\* The flights take a sector, the oldest of the file perhaps.
LEMMA FlightsClaimKept == ASSUME CaptureInv, FlightsClaim PROVE CaptureInv'
<1>1. /\ StoreOK(store) /\ RecorderOK(recorder) /\ pass.at = "idle" /\ store' \in Takings(store)
      /\ recorder' = recorder /\ capture' = capture /\ pass' = pass
  BY DEF CaptureInv, FlightsClaim
<1>2. StoreOK(store') /\ Shed(store, store')
  BY <1>1, TakingsIs
<1>3. /\ Ends(File(store'.sectors))
      /\ HasEnd(File(store'.sectors)) => HasEnd(File(store.sectors))
      /\ \A r : RecorderOK(r) /\ Told(File(store.sectors), r) => Told(File(store'.sectors), r)
  BY <1>1, <1>2, ShedFile DEF CaptureInv
<1>4. QED
  BY <1>1, <1>2, <1>3 DEF CaptureInv, Stuck, EndIsKnown, PassOK, AllTold

\* The flights give a sector back.
LEMMA FlightsErasedKept == ASSUME CaptureInv, FlightsErased PROVE CaptureInv'
<1>1. /\ StoreOK(store) /\ store \in Stores /\ pass.at = "idle" /\ Holding(store) < Pool
      /\ store' = [store EXCEPT !.free = store.free + 1]
      /\ recorder' = recorder /\ capture' = capture /\ pass' = pass
  BY DEF CaptureInv, FlightsErased, StoreOK, Holding
<1>2. /\ store.free \in Nat /\ store.old \in Nat /\ Len(store.sectors) \in Nat
      /\ Holding(store) \in Nat
  BY <1>1, HoldingIs
<1>3. store.free + 1 \in 0 .. Pool
  <2> DEFINE rest == (IF store.spare = "none" THEN 0 ELSE 1)
  <2>1. Holding(store) = store.free + store.old + Len(store.sectors) + rest /\ rest \in Nat
    BY DEF Holding
  <2> HIDE DEF rest
  <2>2. store.free <= Holding(store)
    BY <1>2, <2>1
  <2>3. QED
    BY <1>1, <1>2, <2>2, Bounds
<1>4. /\ store' \in Stores /\ store'.sectors = store.sectors /\ store'.free = store.free + 1
      /\ store'.old = store.old /\ store'.spare = store.spare
  BY <1>1, <1>3 DEF Stores
<1>5. Holding(store') = Holding(store) + 1
  <2> DEFINE kept == store.old + Len(store.sectors)
             more == IF store.spare = "none" THEN 0 ELSE 1
  <2>1. /\ Holding(store) = (store.free + kept) + more
        /\ Holding(store') = ((store.free + 1) + kept) + more
    BY <1>2, <1>4 DEF Holding
  <2>2. kept \in Nat /\ more \in Nat
    BY <1>2
  <2> HIDE DEF kept, more
  <2>3. QED
    BY <1>2, <2>1, <2>2
<1>6. StoreOK(store')
  <2>1. Holding(store') <= Pool
    BY <1>1, <1>2, <1>5, Bounds
  <2>2. QED
    BY <1>1, <1>4, <2>1 DEF StoreOK
<1>7. QED
  BY <1>1, <1>4, <1>6 DEF CaptureInv, Stuck, EndIsKnown, PassOK, AllTold

\* Every step keeps the invariant.
LEMMA CaptureStepKept == ASSUME CaptureInv, [CaptureNext]_captureVars PROVE CaptureInv'
<1>1. CASE UNCHANGED captureVars
  BY <1>1 DEF captureVars, CaptureInv, Stuck, EndIsKnown, PassOK, AllTold
<1>2. CASE Tick
  BY <1>2, TickKept
<1>3. CASE \E answer \in Answers :
             DrainRun(answer) \/ Announce(answer) \/ Refused(answer) \/ Close(answer)
  BY <1>3, DrainRunKept, AnnounceKept, RefusedKept, CloseKept
<1>4. CASE NothingLost \/ PrepareSpare \/ EndPass \/ Park
  BY <1>4, NothingLostKept, PrepareSpareKept, EndPassKept, ParkKept
<1>5. CASE Tap \/ Toggle \/ FlightsClaim \/ FlightsErased
  BY <1>5, TapKept, ToggleKept, FlightsClaimKept, FlightsErasedKept
<1>6. QED
  BY <1>1, <1>2, <1>3, <1>4, <1>5 DEF CaptureNext

\* Hence every behaviour does.
LEMMA CaptureInvAlways == CaptureSpec => []CaptureInv
<1>1. CaptureInv /\ [CaptureNext]_captureVars => CaptureInv'
  BY CaptureStepKept
<1>2. QED
  BY <1>1, CaptureInvInit, PTL DEF CaptureSpec

-----------------------------------------------------------------------------
(* The theorems.                                                           *)

\* Capture: a run is never longer than its sector, the sectors are never more
\* than the pool has, and the ring in RAM never holds more than it has room for
\* (the type invariant of the capture).
THEOREM CaptureTypeCorrect == CaptureSpec => []CaptureTypeOK
<1>1. CaptureInv => CaptureTypeOK
  <2> SUFFICES ASSUME CaptureInv PROVE CaptureTypeOK
    OBVIOUS
  <2>1. RecorderOK(recorder) /\ StoreOK(store) /\ capture \in Captures /\ pass \in Passes
    BY DEF CaptureInv
  <2>2. /\ recorder \in [armed : BOOLEAN, ring : Seq(Records), gap : Nat, made : Nat]
        /\ Len(recorder.ring) <= Capacity
    BY <2>1 DEF RecorderOK, Recorders, Run
  <2>3. capture \in [open : BOOLEAN, ended : BOOLEAN, lost : Nat,
                     stopped : {"none", "pilot", "nosectors"}]
    BY <2>1 DEF Captures
  <2>4. /\ store \in [sectors : Seq(Seq(Records)), old : 0 .. Pool, unseen : Nat,
                      spare : {"none", "reserved", "ready"}, free : 0 .. Pool]
        /\ store.free + store.old + Len(store.sectors)
             + (IF store.spare = "none" THEN 0 ELSE 1) <= Pool
    BY <2>1 DEF StoreOK, Stores, Spares, Files, Run, Holding
  <2>5. \A i \in DOMAIN store.sectors : Len(store.sectors[i]) \in 1 .. Slots
    <3>1. store.sectors \in Files /\ SectorsFit(store.sectors)
      BY <2>1 DEF StoreOK, Stores
    <3>2. DOMAIN store.sectors = 1 .. Len(store.sectors)
      BY <3>1, LenProperties DEF Files
    <3>3. QED
      BY <3>1, <3>2 DEF SectorsFit
  <2>6. pass \in [at : {"idle", "drain", "announce", "drained", "refused", "stopping", "parked", "off"},
                  parking : BOOLEAN, written : 0 .. Ceiling, progress : BOOLEAN]
    BY <2>1 DEF Passes, Ats
  <2>7. QED
    BY <2>2, <2>3, <2>4, <2>5, <2>6 DEF CaptureTypeOK
<1>2. QED
  BY <1>1, CaptureInvAlways, PTL

\* Behind the end of a capture nothing is written but the reason of the stop,
\* whatever the store defers, refuses or recycles, and however the pilot, the
\* flights and the power-off come in between (CaptureService::write_end).
THEOREM EndAlwaysCloses == CaptureSpec => []EndCloses
<1>1. CaptureInv => EndCloses
  BY StoredIsFile DEF CaptureInv, Ends, EndCloses
<1>2. QED
  BY <1>1, CaptureInvAlways, PTL

\* Where a capture is armed again only once the last one is closed, every record
\* pushed is in the file, in the ring or counted by the gap that stands for it,
\* once and in order, for any sizes of ring, sector and pool
\* (Recorder::push, Recorder::peek, CaptureService::drain).
THEOREM RecordsAlwaysAccounted == ~Rearms => (CaptureSpec => []RecordsAccounted)
<1>1. ASSUME ~Rearms, CaptureInv PROVE RecordsAccounted
  <2>1. CASE capture.open
    <3>1. /\ Told(File(store.sectors), recorder) /\ StoreOK(store) /\ RecorderOK(recorder)
      BY <1>1, <2>1 DEF CaptureInv, AllTold
    <3>2. Stored \in Run /\ recorder.ring \in Run
      BY <3>1, StoredIsFile, FileOfStore, RecorderIs
    <3>3. QED
      BY <3>1, <3>2, StoredIsFile, CountedIsAccounted DEF Told
  <2>2. CASE ~capture.open
    BY <2>2 DEF RecordsAccounted
  <2>3. QED
    BY <2>1, <2>2
<1>2. SUFFICES ASSUME ~Rearms PROVE CaptureSpec => []RecordsAccounted
  OBVIOUS
<1>3. CaptureInv => RecordsAccounted
  BY <1>1, <1>2
<1>4. QED
  BY <1>3, CaptureInvAlways, PTL
=============================================================================
