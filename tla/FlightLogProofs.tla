--------------------------- MODULE FlightLogProofs ---------------------------
(***************************************************************************)
(* What a flight leaves behind, for every size of the ring, of the backlog *)
(* and of the traffic table, every length of time and every refusal of the *)
(* store: proofs about FlightLog.                                          *)
(***************************************************************************)
EXTENDS FlightLog, FiniteSetTheorems, SequenceTheorems, WellFoundedInduction, TLAPS

-----------------------------------------------------------------------------
(* The words of the invariant.                                             *)

Entries == [session : Times, record : FixRecords \cup EventRecords]
Logs == [ring : Seq(FixRecords), toFlush : 0 .. Window, dropped : Nat,
         session : Times, open : BOOLEAN, closing : BOOLEAN]
Tracks == [Slots -> {"none", "active", "ending"}]
EventLogs == [backlog : Seq(EventRecords), track : Tracks, dropped : Nat, open : BOOLEAN, raised : Nat]

\* A flight is being written, or what is left of it.
Owing(l) == l.open \/ l.closing

\* What a flight's fixes say of each other.
Follows(first, later) ==
  /\ ~first.last /\ first.at <= later.at
  /\ first.moving => later.moving \/ later.last

\* What is to be flushed is the ring, after a landing, and nothing else.
LogOK(l) ==
  /\ l \in Logs /\ Len(l.ring) <= Window /\ ~(l.open /\ l.closing)
  /\ l.toFlush = IF l.closing THEN Len(l.ring) ELSE 0

\* The ring reads as a flight, or as the ground before one.
RingOK(l, c) ==
  \A i \in 1 .. Len(l.ring) :
    /\ l.ring[i].at <= c
    /\ l.ring[i].last => l.closing
    /\ ~Owing(l) => ~l.ring[i].moving /\ 0 < l.ring[i].at
    /\ \A j \in 1 .. Len(l.ring) : i < j => Follows(l.ring[i], l.ring[j])

\* Encounters end with a flight, and wait for nothing but its file.
EventsOK(l, e, b, f) ==
  /\ e \in EventLogs /\ Len(e.backlog) <= Backlog
  /\ l.open => Ending(e) = {}
  /\ ~Owing(l) /\ b # 0 => PendingEvents(e) = 0
  /\ e.raised = Events(f) + PendingEvents(e) + e.dropped

\* Sessions are named by an instant none was named by before.
FileOK(l, b, c, f) ==
  /\ b \in Times /\ c \in Times /\ b <= c /\ f \in Seq(Entries)
  /\ Owing(l) => b # 0
  /\ \A i \in 1 .. Len(f) :
       /\ f[i].session <= c
       /\ f[i].record.kind = "fix" => f[i].session # 0 /\ f[i].record.at <= c
       /\ ~Owing(l) => \A k \in 1 .. Len(l.ring) : f[i].session < l.ring[k].at
       /\ Owing(l) /\ f[i].session = b /\ f[i].record.kind = "fix" =>
            ~f[i].record.last /\ \A k \in 1 .. Len(l.ring) : Follows(f[i].record, l.ring[k])
       /\ \A j \in 1 .. Len(f) :
            i < j /\ f[i].session = f[j].session /\ f[i].record.kind = "fix" =>
              /\ ~f[i].record.last
              /\ f[j].record.kind = "fix" => Follows(f[i].record, f[j].record)

FixesOK(l, o, f) ==
  o \in Nat /\ o = Fixes(f) + (IF Owing(l) THEN PendingFixes(l) ELSE 0) + l.dropped

\* A session l, its events e, the session b of the store, the clock c, the fixes
\* owed o and the file f, in a pass or between two.
Kept(l, e, b, c, o, f) ==
  LogOK(l) /\ RingOK(l, c) /\ EventsOK(l, e, b, f) /\ FileOK(l, b, c, f) /\ FixesOK(l, o, f)

FlightInv == Kept(log, events, base, clock, owed, file) /\ erasing \in BOOLEAN

-----------------------------------------------------------------------------
(* Numbers and runs of records.                                            *)

\* A set of numbers has a least one: what an induction would be used for.
LEMMA LeastOf ==
  ASSUME NEW S \in SUBSET Nat, S # {}
  PROVE  \E m \in S : \A n \in S : m <= n
<1>1. PICK m \in S : \A n \in S : <<n, m>> \notin OpToRel(<, Nat)
  BY NatLessThanWellFounded, WFMin
<1>2. \A n \in S : ~ (n < m)
  BY <1>1 DEF OpToRel
<1>3. QED
  BY <1>2

\* The lesser of two counts is one.
LEMMA LesserIs ==
  ASSUME NEW m \in Nat, NEW n \in Nat
  PROVE  /\ Lesser(m, n) \in Nat /\ Lesser(m, n) <= m /\ Lesser(m, n) <= n
         /\ (m <= n => Lesser(m, n) = m) /\ (n <= m => Lesser(m, n) = n)
  BY DEF Lesser

\* The fields of a session.
LEMMA LogFields ==
  ASSUME NEW l \in Logs
  PROVE  /\ l.ring \in Seq(FixRecords) /\ Len(l.ring) \in Nat
         /\ \A i \in 1 .. Len(l.ring) : l.ring[i] \in FixRecords
         /\ l.toFlush \in 0 .. Window /\ l.dropped \in Nat
         /\ l.session \in Times /\ l.open \in BOOLEAN /\ l.closing \in BOOLEAN
<1>1. l.ring \in Seq(FixRecords)
  BY DEF Logs
<1>2. Len(l.ring) \in Nat /\ \A i \in 1 .. Len(l.ring) : l.ring[i] \in FixRecords
  BY <1>1, LenProperties
<1>3. QED
  BY <1>1, <1>2 DEF Logs

\* The fields of a fix, and a fix made of them.
LEMMA SampleIs ==
  ASSUME NEW time \in Times, NEW moving \in BOOLEAN, NEW last \in BOOLEAN
  PROVE  /\ Sample(time, moving, last) \in FixRecords
         /\ Sample(time, moving, last).kind = "fix"
         /\ Sample(time, moving, last).at = time
         /\ Sample(time, moving, last).moving = moving
         /\ Sample(time, moving, last).last = last
  BY DEF Sample, FixRecords

\* The fields of any fix.
LEMMA FixFields ==
  ASSUME NEW x \in FixRecords
  PROVE  x.kind = "fix" /\ x.at \in Times /\ x.at \in Nat /\ x.moving \in BOOLEAN /\ x.last \in BOOLEAN
  BY MaxTimeAssumption DEF FixRecords, Times

\* A pushed sample is the last of the ring, behind what was there, of which
\* the oldest is gone when it was full.
PushGives(l, x, p, d) ==
  /\ d \in {0, 1} /\ d <= Len(l.ring)
  /\ p \in Logs /\ Len(p.ring) <= Window
  /\ Len(p.ring) = (Len(l.ring) + 1) - d
  /\ \A i \in 1 .. Len(p.ring) : IF i = Len(p.ring) THEN p.ring[i] = x
                                  ELSE i + d \in 1 .. Len(l.ring) /\ p.ring[i] = l.ring[i + d]
  /\ p.toFlush = IF d = 1 THEN Less(l.toFlush) ELSE l.toFlush
  /\ p.dropped = IF d = 1 /\ Owing(l) THEN l.dropped + 1 ELSE l.dropped
  /\ p.session = l.session /\ p.open = l.open /\ p.closing = l.closing

\* What a push gives, full or not.
LEMMA PushIs ==
  ASSUME NEW l \in Logs, Len(l.ring) <= Window, NEW x \in FixRecords
  PROVE  \E d \in {0, 1} : PushGives(l, x, Push(l, x), d)
<1> DEFINE p == Push(l, x)
<1>0. Window \in Nat /\ Window >= 1
  BY WindowAssumption
<1>1. CASE Len(l.ring) < Window
  <2>1. p = [ring |-> Append(l.ring, x), toFlush |-> l.toFlush, dropped |-> l.dropped,
             session |-> l.session, open |-> l.open, closing |-> l.closing]
    BY <1>1 DEF Push, Logs
  <2>2. /\ Append(l.ring, x) \in Seq(FixRecords)
        /\ Len(Append(l.ring, x)) = Len(l.ring) + 1
        /\ \A i \in 1 .. Len(l.ring) : Append(l.ring, x)[i] = l.ring[i]
        /\ Append(l.ring, x)[Len(l.ring) + 1] = x
    BY LogFields, AppendProperties
  <2>3. p \in Logs
    BY <2>1, <2>2, LogFields DEF Logs
  <2>4. PushGives(l, x, p, 0)
    <3> HIDE DEF p
    <3>1. Len(p.ring) = Len(l.ring) + 1 /\ p.ring = Append(l.ring, x)
      BY <2>1, <2>2
    <3>2. \A i \in 1 .. Len(p.ring) : i # Len(p.ring) => i + 0 \in 1 .. Len(l.ring) /\ i + 0 = i
      BY <3>1, LogFields
    <3>3. /\ p.toFlush = l.toFlush /\ p.dropped = l.dropped /\ p.session = l.session
          /\ p.open = l.open /\ p.closing = l.closing
      BY <2>1
    <3>4. Len(p.ring) <= Window /\ Len(p.ring) = (Len(l.ring) + 1) - 0 /\ 0 <= Len(l.ring)
      BY <3>1, <1>1, <1>0, LogFields
    <3>5. \A i \in 1 .. Len(p.ring) : IF i = Len(p.ring) THEN p.ring[i] = x
                                  ELSE i + 0 \in 1 .. Len(l.ring) /\ p.ring[i] = l.ring[i + 0]
      BY <3>1, <3>2, <2>2
    <3>6. QED
      BY <2>3, <3>3, <3>4, <3>5 DEF PushGives
  <2>5. QED
    BY <2>4
<1>2. CASE ~(Len(l.ring) < Window)
  <2> DEFINE rest == Tail(l.ring)
  <2>0. l.ring # <<>> /\ Len(l.ring) = Window
    BY <1>0, <1>2, LogFields, EmptySeq
  <2>1. p = [ring |-> Append(rest, x), toFlush |-> Less(l.toFlush),
             dropped |-> IF Owing(l) THEN l.dropped + 1 ELSE l.dropped,
             session |-> l.session, open |-> l.open, closing |-> l.closing]
    BY <1>2 DEF Push, Logs, Owing
  <2>2. /\ rest \in Seq(FixRecords) /\ Len(rest) = Len(l.ring) - 1
        /\ \A i \in 1 .. Len(rest) : rest[i] = l.ring[i + 1]
    BY <2>0, LogFields, HeadTailProperties
  <2> HIDE DEF rest
  <2>3. /\ Append(rest, x) \in Seq(FixRecords)
        /\ Len(Append(rest, x)) = Len(rest) + 1
        /\ \A i \in 1 .. Len(rest) : Append(rest, x)[i] = rest[i]
        /\ Append(rest, x)[Len(rest) + 1] = x
    BY <2>2, AppendProperties
  <2>4. Less(l.toFlush) \in 0 .. Window
    BY LogFields, <1>0 DEF Less
  <2>5. p \in Logs
    BY <2>1, <2>3, <2>4, LogFields DEF Logs
  <2>6. PushGives(l, x, p, 1)
    <3> HIDE DEF p
    <3>1. Len(p.ring) = Len(l.ring) /\ p.ring = Append(rest, x) /\ Len(rest) = Len(l.ring) - 1
      BY <2>1, <2>2, <2>3, LogFields
    <3>2. \A i \in 1 .. Len(p.ring) : i # Len(p.ring) => i + 1 \in 1 .. Len(l.ring) /\ i \in 1 .. Len(rest)
      BY <3>1, LogFields
    <3>3. /\ p.toFlush = Less(l.toFlush) /\ p.session = l.session
          /\ p.dropped = IF Owing(l) THEN l.dropped + 1 ELSE l.dropped
          /\ p.open = l.open /\ p.closing = l.closing
      BY <2>1
    <3>4. Len(p.ring) <= Window /\ Len(p.ring) = (Len(l.ring) + 1) - 1 /\ 1 <= Len(l.ring)
      BY <3>1, <2>0, <1>0, LogFields
    <3>5. \A i \in 1 .. Len(p.ring) : IF i = Len(p.ring) THEN p.ring[i] = x
                                  ELSE i + 1 \in 1 .. Len(l.ring) /\ p.ring[i] = l.ring[i + 1]
      <4>1. Len(rest) + 1 = Len(p.ring)
        BY <3>1, LogFields
      <4>2. QED
        BY <3>1, <3>2, <4>1, <2>2, <2>3
    <3>6. QED
      BY <2>5, <3>3, <3>4, <3>5 DEF PushGives
  <2>7. QED
    BY <2>6
<1>3. QED
  BY <1>1, <1>2

-----------------------------------------------------------------------------
(* What was around: an event is queued, or another is counted as dropped.  *)

\* The fields of the events.
LEMMA EventFields ==
  ASSUME NEW e \in EventLogs
  PROVE  /\ e.backlog \in Seq(EventRecords) /\ Len(e.backlog) \in Nat
         /\ e.track \in Tracks /\ e.dropped \in Nat /\ e.open \in BOOLEAN /\ e.raised \in Nat
<1>1. e.backlog \in Seq(EventRecords)
  BY DEF EventLogs
<1>2. QED
  BY <1>1, LenProperties DEF EventLogs

\* The events of a flight that is running: k of them are in the file.
Running(e, k) ==
  /\ e \in EventLogs /\ Len(e.backlog) <= Backlog /\ Ending(e) = {}
  /\ e.raised = k + (Len(e.backlog) + e.dropped)

\* An event more is one more queued, or one more lost.
LEMMA PushEventIs ==
  ASSUME NEW k \in Nat, NEW e, Running(e, k)
  PROVE  Running(PushEvent(e), k)
<1> DEFINE p == PushEvent(e)
<1>0. e \in EventLogs /\ Backlog \in Nat /\ Backlog >= 1
  BY BacklogAssumption DEF Running
<1>1. Event \in EventRecords
  BY DEF Event, EventRecords
<1>2. CASE Len(e.backlog) < Backlog
  <2>1. p = [backlog |-> Append(e.backlog, Event), track |-> e.track, dropped |-> e.dropped,
             open |-> e.open, raised |-> e.raised + 1]
    BY <1>0, <1>2 DEF PushEvent, EventLogs
  <2>2. Append(e.backlog, Event) \in Seq(EventRecords) /\ Len(Append(e.backlog, Event)) = Len(e.backlog) + 1
    BY <1>0, <1>1, EventFields, AppendProperties
  <2>3. p \in EventLogs
    BY <1>0, <2>1, <2>2, EventFields DEF EventLogs
  <2>4. Ending(p) = {}
    BY <2>1 DEF Ending, Running
  <2>5. QED
    <3> HIDE DEF p
    <3>1. Len(p.backlog) = Len(e.backlog) + 1 /\ p.raised = e.raised + 1 /\ p.dropped = e.dropped
      BY <2>1, <2>2
    <3>2. Running(p, k)
      <4>1. Len(p.backlog) <= Backlog
        BY <3>1, <1>0, <1>2, EventFields
      <4>2. p.raised = k + (Len(p.backlog) + p.dropped)
        <5>1. e.raised = k + (Len(e.backlog) + e.dropped)
          BY DEF Running
        <5>2. \A a, b, c \in Nat : (a + (b + c)) + 1 = a + ((b + 1) + c)
          OBVIOUS
        <5>3. p.raised = (k + (Len(e.backlog) + e.dropped)) + 1
          BY <3>1, <5>1
        <5>4. p.raised = k + ((Len(e.backlog) + 1) + e.dropped)
          BY <5>2, <5>3, <1>0, EventFields
        <5>5. QED
          BY <3>1, <5>4
      <4>3. QED
        BY <2>3, <2>4, <4>1, <4>2 DEF Running
    <3>3. QED
      BY <3>2 DEF p
<1>3. CASE ~(Len(e.backlog) < Backlog)
  <2> DEFINE rest == Tail(e.backlog)
  <2>0. e.backlog # <<>> /\ Len(e.backlog) = Backlog
    BY <1>0, <1>3, EventFields, EmptySeq DEF Running
  <2>1. p = [backlog |-> Append(rest, Event), track |-> e.track, dropped |-> e.dropped + 1,
             open |-> e.open, raised |-> e.raised + 1]
    BY <1>0, <1>3 DEF PushEvent, EventLogs
  <2>2. rest \in Seq(EventRecords) /\ Len(rest) = Len(e.backlog) - 1
    BY <1>0, <2>0, EventFields, HeadTailProperties
  <2> HIDE DEF rest
  <2>3. Append(rest, Event) \in Seq(EventRecords) /\ Len(Append(rest, Event)) = Len(rest) + 1
    BY <1>1, <2>2, AppendProperties
  <2>4. p \in EventLogs
    BY <1>0, <2>1, <2>3, EventFields DEF EventLogs
  <2>5. Ending(p) = {}
    BY <2>1 DEF Ending, Running
  <2>6. QED
    <3> HIDE DEF p
    <3>1. Len(p.backlog) = Len(e.backlog) /\ p.raised = e.raised + 1 /\ p.dropped = e.dropped + 1
      BY <2>1, <2>2, <2>3, <1>0, EventFields
    <3>2. Running(p, k)
      <4>1. Len(p.backlog) <= Backlog
        BY <3>1, <2>0, <1>0
      <4>2. p.raised = k + (Len(p.backlog) + p.dropped)
        <5>1. e.raised = k + (Len(e.backlog) + e.dropped)
          BY DEF Running
        <5>2. \A a, b, c \in Nat : (a + (b + c)) + 1 = a + (b + (c + 1))
          OBVIOUS
        <5>3. p.raised = (k + (Len(e.backlog) + e.dropped)) + 1
          BY <3>1, <5>1
        <5>4. p.raised = k + (Len(e.backlog) + (e.dropped + 1))
          BY <5>2, <5>3, <1>0, EventFields
        <5>5. QED
          BY <3>1, <5>4
      <4>3. QED
        BY <2>4, <2>5, <4>1, <4>2 DEF Running
    <3>3. QED
      BY <3>2 DEF p
<1>4. QED
  BY <1>2, <1>3

\* What a slot is followed for does not count.
LEMMA FollowedIs ==
  ASSUME NEW k \in Nat, NEW e, Running(e, k), NEW s \in Slots, NEW v \in {"none", "active"}
  PROVE  Running([e EXCEPT !.track[s] = v], k)
<1> DEFINE p == [e EXCEPT !.track[s] = v]
<1>0. e \in EventLogs
  BY DEF Running
<1>1. p = [backlog |-> e.backlog, track |-> [e.track EXCEPT ![s] = v], dropped |-> e.dropped,
           open |-> e.open, raised |-> e.raised]
  BY <1>0 DEF EventLogs
<1>2. [e.track EXCEPT ![s] = v] \in Tracks
  BY <1>0, EventFields DEF Tracks
<1>3. p \in EventLogs
  BY <1>0, <1>1, <1>2, EventFields DEF EventLogs
<1>4. Ending(p) = {}
  <2>1. \A t \in Slots : e.track[t] # "ending"
    BY DEF Running, Ending
  <2>2. \A t \in Slots : p.track[t] # "ending"
    BY <1>0, <1>1, <2>1, EventFields DEF Tracks
  <2> HIDE DEF p
  <2>3. QED
    BY <2>2 DEF Ending
<1>5. p.backlog = e.backlog /\ p.dropped = e.dropped /\ p.raised = e.raised
  BY <1>1
<1> HIDE DEF p
<1>6. Running(p, k)
  BY <1>3, <1>4, <1>5 DEF Running
<1>7. QED
  BY <1>6 DEF p

\* An encounter that is over, one that is heard, and any sight of a slot.
LEMMA EndIs ==
  ASSUME NEW k \in Nat, NEW e, Running(e, k), NEW s \in Slots
  PROVE  Running(End(e, s), k)
<1>1. Running(PushEvent(e), k)
  BY PushEventIs
<1>2. Running([PushEvent(e) EXCEPT !.track[s] = "none"], k)
  BY <1>1, FollowedIs
<1>3. QED
  BY <1>2 DEF End

\* A slot of the table, whatever it shows, adds to no count but what is raised.
LEMMA SightedIs ==
  ASSUME NEW k \in Nat, NEW e, Running(e, k), NEW s \in Slots, NEW sight \in Sights
  PROVE  Running(Sighted(e, s, sight), k)
<1>1. Running(End(e, s), k)
  BY EndIs
<1>2. ASSUME sight \notin {"vacant", "unplaced"} PROVE Running(Heard(e, s, sight), k)
  <2> DEFINE met == IF sight \in {"other", "other alarm"} THEN End(e, s) ELSE e
             told == IF sight \in {"alarm", "other alarm"} THEN PushEvent(met) ELSE met
  <2>1. Running(met, k)
    BY <1>1
  <2> HIDE DEF met
  <2>2. Running(told, k)
    BY <2>1, PushEventIs
  <2> HIDE DEF told
  <2>3. Running([told EXCEPT !.track[s] = "active"], k)
    BY <2>2, FollowedIs
  <2>4. QED
    BY <2>3 DEF Heard, met, told
<1>3. Sighted(e, s, sight) = End(e, s) \/ Sighted(e, s, sight) = e
        \/ (sight \notin {"vacant", "unplaced"} /\ Sighted(e, s, sight) = Heard(e, s, sight))
  BY DEF Sighted
<1>4. QED
  BY <1>1, <1>2, <1>3

\* The loop of watch(), and what it holds after each slot.
Loop(e, status, sights) ==
  LET upTo[s \in 0 .. Targets] ==
        IF s = 0 THEN IF status THEN PushEvent(e) ELSE e
        ELSE Sighted(upTo[s - 1], s, sights[s])
  IN upTo

\* watch() returns what its loop holds at the end.
LEMMA WatchedIsLoop ==
  ASSUME NEW e, NEW status, NEW sights
  PROVE  Watched(e, status, sights) = Loop(e, status, sights)[Targets]
  BY DEF Watched, Loop

\* The loop exists.
LEMMA LoopDefined ==
  ASSUME NEW e, NEW status, NEW sights
  PROVE  Loop(e, status, sights) =
           [s \in 0 .. Targets |->
              IF s = 0 THEN IF status THEN PushEvent(e) ELSE e
              ELSE Sighted(Loop(e, status, sights)[s - 1], s, sights[s])]
<1> DEFINE start == IF status THEN PushEvent(e) ELSE e
           Steps(f, m) == f = [s \in 0 .. m |-> IF s = 0 THEN start ELSE Sighted(f[s - 1], s, sights[s])]
           lack == {m \in Nat : ~ \E f : Steps(f, m)}
<1>1. ASSUME lack # {} PROVE FALSE
  <2>1. PICK m \in lack : \A n \in lack : m <= n
    BY <1>1, LeastOf
  <2>2. CASE m = 0
    <3> HIDE DEF start
    <3> DEFINE f == [s \in 0 .. 0 |-> start]
    <3>1. f = [s \in 0 .. 0 |-> IF s = 0 THEN start ELSE Sighted(f[s - 1], s, sights[s])]
      OBVIOUS
    <3>2. Steps(f, 0)
      BY <3>1
    <3>3. QED
      BY <2>1, <2>2, <3>2
  <2>3. CASE m > 0
    <3> HIDE DEF start
    <3>1. m \in Nat /\ m - 1 \in Nat /\ m - 1 \notin lack
      <4>1. m \in Nat /\ m - 1 \in Nat /\ ~ (m <= m - 1)
        BY <2>1, <2>3
      <4> HIDE DEF Steps
      <4>2. QED
        BY <2>1, <4>1
    <3>2. PICK f : Steps(f, m - 1)
      BY <3>1
    <3> DEFINE g == [s \in 0 .. m |-> IF s = m THEN Sighted(f[m - 1], m, sights[m]) ELSE f[s]]
    <3>3. \A s \in 0 .. m - 1 : f[s] = IF s = 0 THEN start ELSE Sighted(f[s - 1], s, sights[s])
      BY <3>2
    <3>4. \A s \in 0 .. m - 1 : s \in 0 .. m /\ s # m /\ g[s] = f[s]
      BY <3>1
    <3>5. ASSUME NEW s \in 0 .. m
          PROVE  g[s] = IF s = 0 THEN start ELSE Sighted(g[s - 1], s, sights[s])
      <4>1. CASE s = m
        <5>1. m - 1 \in 0 .. m - 1 /\ s # 0
          BY <2>3, <3>1, <4>1
        <5>2. g[s - 1] = f[s - 1] /\ g[s] = Sighted(f[s - 1], s, sights[s])
          BY <3>4, <4>1, <5>1
        <5>3. QED
          BY <5>1, <5>2
      <4>2. CASE s # m
        <5>1. s \in 0 .. m - 1 /\ (s # 0 => s - 1 \in 0 .. m - 1)
          BY <3>1, <4>2
        <5>2. g[s] = f[s] /\ (s # 0 => g[s - 1] = f[s - 1])
          BY <3>4, <5>1
        <5>3. QED
          BY <3>3, <5>1, <5>2
      <4>3. QED
        BY <4>1, <4>2
    <3>6. g = [s \in 0 .. m |-> g[s]]
      OBVIOUS
    <3> HIDE DEF g
    <3>7. Steps(g, m)
      BY <3>5, <3>6
    <3>8. QED
      BY <2>1, <3>1, <3>7
  <2>4. QED
    BY <2>1, <2>2, <2>3
<1>2. Targets \notin lack
  <2> HIDE DEF Steps
  <2>2. QED
    BY <1>1, TargetsAssumption
<1>3. \E f : Steps(f, Targets)
  BY <1>2, TargetsAssumption
<1>4. QED
  BY <1>3 DEF Loop

\* A watch keeps the count: what it raises waits or was dropped.
LEMMA WatchedIs ==
  ASSUME NEW k \in Nat, NEW e, Running(e, k), NEW status \in BOOLEAN, NEW sights \in [Slots -> Sights]
  PROVE  Running(Watched(e, status, sights), k)
<1> DEFINE up == Loop(e, status, sights)
           odd == {s \in 0 .. Targets : ~ Running(up[s], k)}
<1>0. Targets \in Nat
  BY TargetsAssumption
<1> DEFINE start == IF status THEN PushEvent(e) ELSE e
<1>5. up = [s \in 0 .. Targets |-> IF s = 0 THEN start ELSE Sighted(up[s - 1], s, sights[s])]
  BY LoopDefined
<1>6. Running(start, k)
  BY PushEventIs
<1> HIDE DEF up, start
<1>1. \A s \in 0 .. Targets : up[s] = IF s = 0 THEN start ELSE Sighted(up[s - 1], s, sights[s])
  BY <1>5
<1>2. ASSUME odd # {} PROVE FALSE
  <2>1. PICK s \in odd : \A t \in odd : s <= t
    <3>1. odd \in SUBSET Nat
      BY <1>0
    <3> HIDE DEF odd
    <3>2. QED
      BY <1>2, <3>1, LeastOf
  <2>2. s # 0
    BY <1>0, <1>1, <1>6, <2>1
  <2>3. s \in Slots /\ s \in 0 .. Targets /\ s - 1 \in 0 .. Targets /\ ~ (s <= s - 1)
    BY <1>0, <2>1, <2>2 DEF Slots
  <2>4. Running(up[s - 1], k)
    BY <2>1, <2>3
  <2>5. Running(Sighted(up[s - 1], s, sights[s]), k)
    BY <2>3, <2>4, SightedIs
  <2>6. Running(up[s], k)
    BY <1>1, <2>2, <2>3, <2>5
  <2>7. QED
    BY <2>1, <2>6
<1>3. Running(up[Targets], k)
  BY <1>0, <1>2
<1>4. QED
  BY <1>3, WatchedIsLoop DEF up

\* The slots whose encounters are to be written are finitely many.
LEMMA EndingFinite ==
  ASSUME NEW e
  PROVE  /\ IsFiniteSet(Ending(e)) /\ Ending(e) \subseteq Slots
         /\ Cardinality(Ending(e)) \in Nat
         /\ (Cardinality(Ending(e)) = 0 <=> Ending(e) = {})
<1>1. IsFiniteSet(Slots)
  BY FS_Interval, TargetsAssumption DEF Slots
<1>2. Ending(e) \in SUBSET Slots
  BY DEF Ending
<1>3. IsFiniteSet(Ending(e))
  BY <1>1, <1>2, FS_Subset
<1>4. QED
  BY <1>2, <1>3, FS_CardinalityType, FS_EmptySet

\* The events that wait are a count, the backlog among them.
LEMMA PendingEventsIs ==
  ASSUME NEW e \in EventLogs
  PROVE  PendingEvents(e) \in Nat /\ Len(e.backlog) <= PendingEvents(e)
  BY EndingFinite, EventFields DEF PendingEvents

\* The events of any flight: they are in the file, waiting or dropped.
Counted(e, k) ==
  /\ e \in EventLogs /\ Len(e.backlog) <= Backlog
  /\ e.raised = k + PendingEvents(e) + e.dropped

\* A flight opens with nothing waiting, and owes what its events are worth.
LEMMA EventsOpenIs ==
  ASSUME NEW k \in Nat, NEW e, Counted(e, k), base # 0 => PendingEvents(e) = 0
  PROVE  Running(EventsOpen(e), k)
<1> DEFINE p == EventsOpen(e)
           worth == IF base = 0 THEN e.raised - PendingEvents(e) ELSE e.raised
<1>0. e \in EventLogs /\ e.raised = (k + PendingEvents(e)) + e.dropped
  BY DEF Counted
<1>1. worth = k + e.dropped
  BY <1>0, EventFields, PendingEventsIs
<1>2. p = [backlog |-> <<>>, track |-> [s \in Slots |-> "none"], dropped |-> e.dropped,
           open |-> TRUE, raised |-> worth]
  <2> DEFINE none == [s \in Slots |-> "none"]
  <2>1. NewEvents = [backlog |-> <<>>, track |-> none, dropped |-> 0, open |-> FALSE, raised |-> 0]
    BY DEF NewEvents
  <2>2. p = [NewEvents EXCEPT !.open = TRUE, !.dropped = e.dropped, !.raised = worth]
    BY DEF EventsOpen
  <2> HIDE DEF none, worth, p
  <2>3. p = [backlog |-> <<>>, track |-> none, dropped |-> e.dropped, open |-> TRUE, raised |-> worth]
    BY <2>1, <2>2
  <2>4. QED
    BY <2>3 DEF none
<1>3. <<>> \in Seq(EventRecords) /\ Len(<<>>) = 0
  BY EmptySeq
<1>4. k + e.dropped \in Nat
  BY <1>0, EventFields
<1>5. p \in EventLogs
  BY <1>0, <1>1, <1>2, <1>3, <1>4, EventFields DEF EventLogs, Tracks
<1>6. Ending(p) = {}
  BY <1>2 DEF Ending
<1>7. p.backlog = <<>> /\ p.dropped = e.dropped /\ p.raised = k + e.dropped
  BY <1>1, <1>2
<1> HIDE DEF p, worth
<1>8. Len(p.backlog) <= Backlog /\ p.raised = k + (Len(p.backlog) + p.dropped)
  BY <1>0, <1>3, <1>7, EventFields, BacklogAssumption
<1>9. Running(p, k)
  BY <1>5, <1>6, <1>8 DEF Running
<1>10. QED
  BY <1>9 DEF p

\* A flight that ends owes one event for each encounter still running.
LEMMA EventsCloseIs ==
  ASSUME NEW k \in Nat, NEW e, Running(e, k)
  PROVE  Counted(EventsClose(e), k)
<1> DEFINE p == EventsClose(e)
           active == {s \in Slots : e.track[s] = "active"}
           follow == [s \in Slots |-> IF s \in active THEN "ending" ELSE e.track[s]]
<1>0. e \in EventLogs
  BY DEF Running
<1>1. p = [backlog |-> e.backlog, track |-> follow, dropped |-> e.dropped,
           open |-> FALSE, raised |-> e.raised + Cardinality(active)]
  <2>1. e = [backlog |-> e.backlog, track |-> e.track, dropped |-> e.dropped,
             open |-> e.open, raised |-> e.raised]
    BY <1>0 DEF EventLogs
  <2>2. p = [e EXCEPT !.track = follow, !.open = FALSE, !.raised = @ + Cardinality(active)]
    BY DEF EventsClose
  <2> HIDE DEF p, follow, active
  <2>3. QED
    BY <2>1, <2>2
<1>2. follow \in Tracks
  BY <1>0, EventFields DEF Tracks
<1>3. Ending(p) = active
  <2>1. \A s \in Slots : e.track[s] # "ending"
    BY DEF Running, Ending
  <2>2. \A s \in Slots : p.track[s] = "ending" <=> s \in active
    BY <1>1, <2>1
  <2> HIDE DEF p
  <2>3. QED
    BY <2>2 DEF Ending
<1>4. Cardinality(active) \in Nat
  <2> HIDE DEF p, active
  <2>1. QED
    BY <1>3, EndingFinite
<1>5. p \in EventLogs
  <2> HIDE DEF active, follow
  <2>1. QED
    BY <1>0, <1>1, <1>2, <1>4, EventFields DEF EventLogs
<1>6. p.backlog = e.backlog /\ p.dropped = e.dropped /\ p.raised = e.raised + Cardinality(active)
  BY <1>1
<1> HIDE DEF p, active, follow
<1>7. PendingEvents(p) = Len(e.backlog) + Cardinality(active)
  BY <1>3, <1>6 DEF PendingEvents
<1>8. p.raised = (k + PendingEvents(p)) + p.dropped
  <2>1. \A a, b, c, d \in Nat : (a + (b + c)) + d = (a + (b + d)) + c
    OBVIOUS
  <2>2. e.raised = k + (Len(e.backlog) + e.dropped)
    BY DEF Running
  <2>3. p.raised = (k + (Len(e.backlog) + e.dropped)) + Cardinality(active)
    BY <1>6, <2>2
  <2>4. p.raised = (k + (Len(e.backlog) + Cardinality(active))) + e.dropped
    BY <1>0, <1>4, <2>1, <2>3, EventFields
  <2>5. QED
    BY <1>6, <1>7, <2>4
<1>9. Counted(p, k)
  BY <1>5, <1>6, <1>8 DEF Counted, Running
<1>10. QED
  BY <1>9 DEF p

\* Past the first w of a set of numbers there are w fewer of them.
After(S, w) == {s \in S : Cardinality({t \in S : t <= s}) > w}

\* The first w being gone, that many are missing.
LEMMA AfterIs ==
  ASSUME NEW S \in SUBSET Nat, IsFiniteSet(S), NEW w \in 0 .. Cardinality(S)
  PROVE  Cardinality(After(S, w)) = Cardinality(S) - w
<1> DEFINE upTo(s) == {t \in S : t <= s}
           n == Cardinality(S)
           rank == [s \in S |-> Cardinality(upTo(s))]
           tail == [s \in After(S, w) |-> rank[s]]
<1>0. n \in Nat /\ w \in Nat /\ w <= n
  BY FS_CardinalityType
<1>1. \A s \in S : IsFiniteSet(upTo(s)) /\ Cardinality(upTo(s)) \in 1 .. n
  <2>1. TAKE s \in S
  <2>2. upTo(s) \in SUBSET S /\ s \in upTo(s)
    OBVIOUS
  <2> HIDE DEF upTo
  <2>3. IsFiniteSet(upTo(s)) /\ Cardinality(upTo(s)) <= n
    BY <2>2, FS_Subset
  <2>4. Cardinality(upTo(s)) \in Nat /\ Cardinality(upTo(s)) # 0
    BY <2>2, <2>3, FS_CardinalityType, FS_EmptySet
  <2>5. QED
    BY <1>0, <2>3, <2>4
<1>2. \A s, t \in S : s < t => Cardinality(upTo(s)) < Cardinality(upTo(t))
  <2> SUFFICES ASSUME NEW s \in S, NEW t \in S, s < t
               PROVE  Cardinality(upTo(s)) < Cardinality(upTo(t))
    OBVIOUS
  <2>0. s \in Nat /\ t \in Nat
    OBVIOUS
  <2>1. upTo(s) \in SUBSET upTo(t) /\ t \in upTo(t) /\ t \notin upTo(s)
    <3>1. \A r \in S : r \in Nat /\ (r <= s => r <= t)
      BY <2>0
    <3>2. t <= t /\ ~ (t <= s)
      BY <2>0
    <3>3. QED
      BY <3>1, <3>2
  <2> HIDE DEF upTo
  <2>2. Cardinality(upTo(s)) <= Cardinality(upTo(t)) /\ Cardinality(upTo(s)) # Cardinality(upTo(t))
    BY <1>1, <2>1, FS_Subset
  <2>3. QED
    BY <1>1, <2>2
<1> HIDE DEF upTo
<1>3. rank \in Injection(S, 1 .. n)
  <2>1. rank \in [S -> 1 .. n]
    BY <1>1
  <2>2. \A s, t \in S : rank[s] = rank[t] => s = t
    <3> SUFFICES ASSUME NEW s \in S, NEW t \in S, rank[s] = rank[t], s # t PROVE FALSE
      OBVIOUS
    <3>1. s < t \/ t < s
      OBVIOUS
    <3>2. rank[s] = Cardinality(upTo(s)) /\ rank[t] = Cardinality(upTo(t))
      OBVIOUS
    <3>3. rank[s] \in Nat /\ rank[t] \in Nat
      BY <2>1, <1>0
    <3>4. QED
      BY <1>2, <3>1, <3>2, <3>3
  <2>3. DOMAIN rank = S
    OBVIOUS
  <2> HIDE DEF rank
  <2>4. QED
    BY <2>1, <2>2, <2>3 DEF Injection, IsInjective
<1>4. rank \in Surjection(S, 1 .. n)
  <2>1. IsFiniteSet(1 .. n) /\ Cardinality(1 .. n) = n
    BY <1>0, FS_Interval
  <2>2. QED
    BY <1>3, <2>1, FS_Injection
<1>5. \A s \in S : rank[s] \in 1 .. n /\ (s \in After(S, w) <=> rank[s] > w)
  BY <1>1 DEF After, upTo
<1> HIDE DEF rank
<1>6. tail \in Bijection(After(S, w), (w + 1) .. n)
  <2>0. After(S, w) \subseteq S
    BY DEF After
  <2>1. tail \in [After(S, w) -> (w + 1) .. n]
    <3>0. \A i \in 1 .. n : i > w => i \in (w + 1) .. n
      BY <1>0
    <3>1. \A s \in After(S, w) : rank[s] \in (w + 1) .. n
      BY <1>5, <2>0, <3>0
    <3>2. QED
      BY <3>1
  <2>2. \A s, t \in After(S, w) : tail[s] = tail[t] => s = t
    <3>1. \A s, t \in S : rank[s] = rank[t] => s = t
      BY <1>3 DEF Injection, IsInjective
    <3>2. QED
      BY <3>1, <2>0
  <2>3. \A i \in (w + 1) .. n : \E s \in After(S, w) : tail[s] = i
    <3>1. TAKE i \in (w + 1) .. n
    <3>2. i \in 1 .. n /\ i > w
      BY <1>0
    <3>3. PICK s \in S : rank[s] = i
      BY <1>4, <3>2 DEF Surjection
    <3>4. s \in After(S, w)
      BY <1>5, <3>2, <3>3
    <3>5. QED
      BY <3>3, <3>4
  <2>4. DOMAIN tail = After(S, w)
    OBVIOUS
  <2> HIDE DEF tail
  <2>5. QED
    BY <2>1, <2>2, <2>3, <2>4 DEF Bijection, Injection, Surjection, IsInjective
<1>7. IsFiniteSet(After(S, w))
  <2>1. After(S, w) \in SUBSET S
    BY DEF After
  <2>2. QED
    BY <2>1, FS_Subset
<1>8. Cardinality((w + 1) .. n) = n - w
  <2>1. w + 1 \in Int /\ n \in Int
    BY <1>0
  <2>2. Cardinality((w + 1) .. n) = IF w + 1 > n THEN 0 ELSE (n - (w + 1)) + 1
    BY <2>1, FS_Interval
  <2>3. QED
    BY <1>0, <2>2
<1>9. QED
  BY <1>6, <1>7, <1>8, FS_Bijection DEF ExistsBijection

\* The drain takes as many events as it writes, and no other.
LEMMA EventsDrainedIs ==
  ASSUME NEW e \in EventLogs, Len(e.backlog) <= Backlog, NEW n \in 0 .. PendingEvents(e)
  PROVE  LET p == EventsDrained(e, n)
         IN /\ p \in EventLogs /\ Len(p.backlog) <= Backlog
            /\ PendingEvents(p) = PendingEvents(e) - n
            /\ p.dropped = e.dropped /\ p.raised = e.raised
            /\ Ending(p) \subseteq Ending(e)
<1> DEFINE p == EventsDrained(e, n)
           q == Lesser(n, Len(e.backlog))
           rest == SubSeq(e.backlog, q + 1, Len(e.backlog))
           left == EndingAfter(e, n - q)
           follow == [s \in Slots |-> IF s \in Ending(e) \ left THEN "none" ELSE e.track[s]]
<1>0. /\ e.backlog \in Seq(EventRecords) /\ Len(e.backlog) \in Nat /\ n \in Nat
      /\ n <= PendingEvents(e) /\ PendingEvents(e) = Len(e.backlog) + Cardinality(Ending(e))
      /\ Cardinality(Ending(e)) \in Nat
  BY EventFields, PendingEventsIs, EndingFinite DEF PendingEvents
<1>1. q \in Nat /\ q <= Len(e.backlog) /\ n - q \in 0 .. Cardinality(Ending(e))
  <2>1. q \in Nat /\ q <= n /\ q <= Len(e.backlog) /\ (q = n \/ q = Len(e.backlog))
    <3>1. \A a, b \in Nat : Lesser(a, b) \in Nat /\ Lesser(a, b) <= a /\ Lesser(a, b) <= b
                             /\ (Lesser(a, b) = a \/ Lesser(a, b) = b)
      BY DEF Lesser
    <3>2. QED
      BY <1>0, <3>1
  <2> HIDE DEF q
  <2>2. QED
    BY <1>0, <2>1
<1>2. rest \in Seq(EventRecords) /\ Len(rest) = Len(e.backlog) - q
  <2> HIDE DEF q
  <2>1. \A i \in (q + 1) .. Len(e.backlog) : e.backlog[i] \in EventRecords
    BY <1>0, <1>1, ElementOfSeq
  <2>2. q + 1 \in Int /\ Len(e.backlog) \in Int
    BY <1>0, <1>1
  <2>3. /\ rest \in Seq(EventRecords)
        /\ Len(rest) = IF q + 1 <= Len(e.backlog) THEN (Len(e.backlog) - (q + 1)) + 1 ELSE 0
    BY <2>1, <2>2, SubSeqProperties
  <2>4. QED
    BY <1>0, <1>1, <2>3
<1>3. p = [backlog |-> rest, track |-> follow, dropped |-> e.dropped,
           open |-> e.open, raised |-> e.raised]
  <2>1. e = [backlog |-> e.backlog, track |-> e.track, dropped |-> e.dropped,
             open |-> e.open, raised |-> e.raised]
    BY DEF EventLogs
  <2>2. p = [e EXCEPT !.backlog = rest, !.track = follow]
    BY DEF EventsDrained
  <2> HIDE DEF p, follow, rest
  <2>3. QED
    BY <2>1, <2>2
<1>4. left = After(Ending(e), n - q) /\ left \subseteq Ending(e)
  BY DEF EndingAfter, After
<1>5. Cardinality(left) = Cardinality(Ending(e)) - (n - q)
  <2>1. Ending(e) \in SUBSET Nat
    BY EndingFinite, TargetsAssumption DEF Slots
  <2> HIDE DEF left, q
  <2>2. QED
    BY <1>1, <1>4, <2>1, AfterIs, EndingFinite
<1> HIDE DEF rest, left, q
<1>6. follow \in Tracks
  BY EventFields DEF Tracks
<1>7. Ending(p) = left
  <2>1. \A s \in Slots : p.track[s] = "ending" <=> s \in left
    BY <1>3, <1>4 DEF Ending
  <2>2. Ending(p) = {s \in Slots : p.track[s] = "ending"}
    BY DEF Ending
  <2> HIDE DEF p
  <2>3. left \subseteq Slots
    BY <1>4, EndingFinite
  <2>4. QED
    BY <2>1, <2>2, <2>3
<1> HIDE DEF follow
<1>8. p \in EventLogs
  BY <1>2, <1>3, <1>6, EventFields DEF EventLogs
<1>9. p.backlog = rest /\ p.dropped = e.dropped /\ p.raised = e.raised
  BY <1>3
<1> HIDE DEF p
<1>10. PendingEvents(p) = PendingEvents(e) - n
  <2>1. PendingEvents(p) = (Len(e.backlog) - q) + (Cardinality(Ending(e)) - (n - q))
    BY <1>2, <1>5, <1>7, <1>9 DEF PendingEvents
  <2>2. \A a, b, c, d \in Nat : (a - c) + (b - (d - c)) = (a + b) - d
    OBVIOUS
  <2>3. QED
    BY <1>0, <1>1, <2>1, <2>2
<1>11. Len(p.backlog) <= Backlog
  <2>1. Len(p.backlog) = Len(e.backlog) - q
    BY <1>2, <1>9
  <2>2. QED
    BY <1>0, <1>1, <2>1, BacklogAssumption
<1>12. QED
  BY <1>4, <1>7, <1>8, <1>9, <1>10, <1>11 DEF p

-----------------------------------------------------------------------------
(* What is written, and what it adds to the file.                          *)

Fixed(f) == {i \in DOMAIN f : f[i].record.kind = "fix"}

\* The fixes of a file, and what is not one, are counts.
LEMMA FixesCount ==
  ASSUME NEW f \in Seq(Entries)
  PROVE  /\ Len(f) \in Nat /\ DOMAIN f = 1 .. Len(f)
         /\ IsFiniteSet(Fixed(f)) /\ Fixed(f) \subseteq 1 .. Len(f)
         /\ Fixes(f) = Cardinality(Fixed(f)) /\ Fixes(f) \in Nat
         /\ Fixes(f) <= Len(f) /\ Events(f) \in Nat
<1>1. Len(f) \in Nat /\ DOMAIN f = 1 .. Len(f)
  BY LenProperties
<1>2. Fixed(f) \in SUBSET (1 .. Len(f)) /\ Fixes(f) = Cardinality(Fixed(f))
  BY <1>1 DEF Fixed, Fixes
<1>3. IsFiniteSet(1 .. Len(f)) /\ Cardinality(1 .. Len(f)) = Len(f)
  BY <1>1, FS_Interval
<1>4. IsFiniteSet(Fixed(f)) /\ Cardinality(Fixed(f)) <= Len(f)
  BY <1>2, <1>3, FS_Subset
<1>5. Fixes(f) \in Nat
  BY <1>2, <1>4, FS_CardinalityType
<1>6. QED
  BY <1>1, <1>2, <1>4, <1>5 DEF Events

\* An empty file holds none.
LEMMA FixesNone == Fixes(<<>>) = 0 /\ Events(<<>>) = 0 /\ <<>> \in Seq(Entries)
<1>1. <<>> \in Seq(Entries) /\ Len(<<>>) = 0
  BY EmptySeq
<1>2. /\ Len(<<>>) = 0 /\ Fixes(<<>>) \in Nat /\ Fixes(<<>>) <= Len(<<>>)
  BY <1>1, FixesCount
<1>3. Fixes(<<>>) = 0
  <2> DEFINE n == Fixes(<<>>)
  <2>1. n \in Nat /\ n <= 0
    BY <1>2
  <2> HIDE DEF n
  <2>2. n = 0
    BY <2>1
  <2>3. QED
    BY <2>2 DEF n
<1>4. QED
  BY <1>1, <1>3 DEF Events

\* What a pass writes is as long as what it took: the events, and behind them
\* the oldest fixes of the ring.
WrittenGives(l, n, session, taken, w) ==
  /\ w \in Seq(Entries) /\ Len(w) = taken
  /\ \A i \in 1 .. taken :
       /\ w[i].session = session
       /\ i <= n => w[i].record.kind = "event"
       /\ i > n => i - n \in 1 .. Len(l.ring) /\ w[i].record = l.ring[i - n]

\* The records of a pass are those.
LEMMA WrittenIs ==
  ASSUME NEW l \in Logs, NEW e, NEW session \in Times, NEW taken \in Nat,
         EventsTaken(l, e, taken) \in Nat, EventsTaken(l, e, taken) <= taken,
         taken - EventsTaken(l, e, taken) <= Len(l.ring)
  PROVE  WrittenGives(l, EventsTaken(l, e, taken), session, taken, Written(l, e, session, taken))
<1> DEFINE n == EventsTaken(l, e, taken)
           seen == [i \in 1 .. n |-> Event]
           fixes == SubSeq(l.ring, 1, taken - n)
           both == seen \o fixes
           w == [i \in 1 .. taken |-> [session |-> session, record |-> both[i]]]
           Any == FixRecords \cup EventRecords
<1>0. n \in Nat /\ n <= taken /\ taken - n <= Len(l.ring) /\ taken - n \in Nat
  BY LogFields
<1>1. Written(l, e, session, taken) = w
  BY DEF Written
<1> HIDE DEF n
<1>2. seen \in Seq(Any) /\ Len(seen) = n /\ \A i \in 1 .. n : seen[i] = Event
  <2>1. Event \in Any
    BY DEF Event, EventRecords
  <2>2. seen \in Seq(Any)
    BY <1>0, <2>1, IsASeq
  <2>3. DOMAIN seen = 1 .. n
    OBVIOUS
  <2>4. Len(seen) = n
    BY <1>0, <2>3
  <2>5. QED
    BY <2>2, <2>4
<1>3. /\ fixes \in Seq(Any) /\ Len(fixes) = taken - n
      /\ \A i \in 1 .. taken - n : fixes[i] = l.ring[i] /\ i \in 1 .. Len(l.ring)
  <2>1. \A i \in 1 .. taken - n : i \in 1 .. Len(l.ring)
    BY <1>0, LogFields
  <2>2. \A i \in 1 .. taken - n : l.ring[i] \in Any
    BY <2>1, LogFields
  <2>3. taken - n \in Int /\ 1 \in Int
    BY <1>0
  <2>4. /\ fixes \in Seq(Any)
        /\ Len(fixes) = IF 1 <= taken - n THEN ((taken - n) - 1) + 1 ELSE 0
        /\ \A i \in 1 .. ((taken - n) - 1) + 1 : fixes[i] = l.ring[(1 + i) - 1]
    BY <2>2, <2>3, SubSeqProperties
  <2>5. Len(fixes) = taken - n
    BY <1>0, <2>4
  <2>6. \A i \in 1 .. taken - n : i \in 1 .. ((taken - n) - 1) + 1 /\ (1 + i) - 1 = i
    BY <1>0
  <2>7. QED
    BY <2>1, <2>4, <2>5, <2>6
<1> HIDE DEF seen, fixes, Any
<1>4. \A i \in 1 .. taken : both[i] \in Any /\ (i <= n => both[i] = Event)
        /\ (i > n => i - n \in 1 .. Len(l.ring) /\ both[i] = l.ring[i - n])
  <2>1. \A i \in 1 .. Len(seen) + Len(fixes) : both[i] = IF i <= Len(seen) THEN seen[i] ELSE fixes[i - Len(seen)]
    BY <1>2, <1>3, ConcatProperties
  <2>2. both \in Seq(Any) /\ Len(both) = taken
    <3>1. both \in Seq(Any) /\ Len(both) = Len(seen) + Len(fixes)
      BY <1>2, <1>3, ConcatProperties
    <3>2. n + (taken - n) = taken
      BY <1>0
    <3>3. QED
      BY <1>2, <1>3, <3>1, <3>2
  <2>3. \A i \in 1 .. taken : both[i] \in Any
    BY <2>2, ElementOfSeq
  <2>4. Len(seen) + Len(fixes) = taken
    BY <1>0, <1>2, <1>3
  <2> HIDE DEF both
  <2>5. \A i \in 1 .. taken : IF i <= n THEN i \in 1 .. n ELSE i > n /\ i - n \in 1 .. taken - n
    BY <1>0
  <2>6. QED
    BY <1>0, <1>2, <1>3, <2>1, <2>3, <2>4, <2>5
<1> HIDE DEF both
<1>5. \A i \in 1 .. taken : [session |-> session, record |-> both[i]] \in Entries
  BY <1>4 DEF Entries, Any
<1>6. w \in Seq(Entries) /\ Len(w) = taken
  <2>1. w \in Seq(Entries)
    BY <1>5, IsASeq
  <2>2. DOMAIN w = 1 .. taken
    OBVIOUS
  <2>3. QED
    BY <2>1, <2>2
<1>7. \A i \in 1 .. taken : w[i].session = session /\ w[i].record = both[i]
  OBVIOUS
<1>8. Event.kind = "event"
  BY DEF Event
<1> HIDE DEF w
<1>9. \A i \in 1 .. taken : /\ w[i].session = session
                            /\ i <= n => w[i].record.kind = "event"
                            /\ i > n => i - n \in 1 .. Len(l.ring) /\ w[i].record = l.ring[i - n]
  BY <1>4, <1>7, <1>8
<1>10. WrittenGives(l, n, session, taken, w)
  BY <1>6, <1>9 DEF WrittenGives
<1>11. QED
  BY <1>1, <1>10 DEF n

\* A file that a pass extends: what was there, and what it wrote behind.
LEMMA ExtendedIs ==
  ASSUME NEW f \in Seq(Entries), NEW w \in Seq(Entries)
  PROVE  /\ f \o w \in Seq(Entries) /\ Len(f \o w) = Len(f) + Len(w)
         /\ \A i \in 1 .. Len(f \o w) :
              IF i <= Len(f) THEN i \in 1 .. Len(f) /\ (f \o w)[i] = f[i]
              ELSE i - Len(f) \in 1 .. Len(w) /\ (f \o w)[i] = w[i - Len(f)]
<1>1. /\ f \o w \in Seq(Entries) /\ Len(f \o w) = Len(f) + Len(w)
      /\ \A i \in 1 .. Len(f) + Len(w) : (f \o w)[i] = IF i <= Len(f) THEN f[i] ELSE w[i - Len(f)]
  BY ConcatProperties
<1>2. Len(f) \in Nat /\ Len(w) \in Nat
  BY LenProperties
<1>3. \A i \in 1 .. Len(f) + Len(w) : IF i <= Len(f) THEN i \in 1 .. Len(f) ELSE i - Len(f) \in 1 .. Len(w)
  BY <1>2
<1>4. QED
  BY <1>1, <1>3

\* It counts as many fixes more as there were behind the events.
LEMMA FixesWritten ==
  ASSUME NEW f \in Seq(Entries), NEW l \in Logs, NEW n \in Nat, NEW taken \in Nat, n <= taken,
         NEW session, NEW w, WrittenGives(l, n, session, taken, w)
  PROVE  Fixes(f \o w) = Fixes(f) + (taken - n) /\ Events(f \o w) = Events(f) + n
<1> DEFINE g == f \o w
           new == ((Len(f) + n) + 1) .. (Len(f) + taken)
<1>1. w \in Seq(Entries) /\ Len(w) = taken
  BY DEF WrittenGives
<1>2. Len(f) \in Nat /\ Fixed(f) \subseteq 1 .. Len(f) /\ IsFiniteSet(Fixed(f)) /\ DOMAIN f = 1 .. Len(f)
      /\ Fixes(f) = Cardinality(Fixed(f)) /\ Fixes(f) \in Nat
  BY FixesCount
<1>3. g \in Seq(Entries) /\ Len(g) = Len(f) + taken
      /\ \A i \in 1 .. Len(f) + taken :
           IF i <= Len(f) THEN i \in 1 .. Len(f) /\ g[i] = f[i]
           ELSE i - Len(f) \in 1 .. taken /\ g[i] = w[i - Len(f)]
  BY <1>1, ExtendedIs
<1>4. DOMAIN g = 1 .. Len(g) /\ Fixes(g) = Cardinality(Fixed(g))
  BY <1>3, FixesCount
<1> HIDE DEF g
<1>5. \A i \in 1 .. taken : (i <= n => w[i].record.kind # "fix") /\ (i > n => w[i].record.kind = "fix")
  <2>1. \A i \in 1 .. taken : i <= n => w[i].record.kind = "event"
    BY DEF WrittenGives
  <2>2. \A i \in 1 .. taken : i > n => w[i].record \in FixRecords
    BY LogFields DEF WrittenGives
  <2>3. QED
    BY <2>1, <2>2, FixFields
<1>6. \A i \in 1 .. Len(g) : g[i].record.kind = "fix" <=> i \in Fixed(f) \/ i \in new
  <2>1. TAKE i \in 1 .. Len(g)
  <2>2. i \in 1 .. Len(f) + taken /\ i \in Nat
    BY <1>2, <1>3
  <2>3. CASE i <= Len(f)
    <3>1. i \notin new /\ i \in 1 .. Len(f) /\ g[i] = f[i]
      BY <1>2, <1>3, <2>2, <2>3
    <3>2. QED
      BY <1>2, <3>1 DEF Fixed
  <2>4. CASE ~(i <= Len(f))
    <3>1. i - Len(f) \in 1 .. taken /\ g[i] = w[i - Len(f)] /\ i \notin Fixed(f)
      BY <1>2, <1>3, <2>2, <2>4
    <3>2. i \in new <=> i - Len(f) > n
      BY <1>2, <2>2, <2>4
    <3>3. ~(i - Len(f) > n) => i - Len(f) <= n
      BY <1>2, <2>2
    <3>4. QED
      BY <1>5, <3>1, <3>2, <3>3
  <2>5. QED
    BY <2>3, <2>4
<1>7. Fixed(g) = Fixed(f) \cup new
  <2>1. Fixed(f) \subseteq 1 .. Len(g) /\ new \subseteq 1 .. Len(g)
    BY <1>2, <1>3
  <2> HIDE DEF new
  <2>2. QED
    BY <1>4, <1>6, <2>1 DEF Fixed
<1>8. Fixed(f) \cap new = {}
  BY <1>2
<1>9. IsFiniteSet(new) /\ Cardinality(new) = taken - n
  <2>1. (Len(f) + n) + 1 \in Int /\ Len(f) + taken \in Int
    BY <1>2
  <2>2. IsFiniteSet(new) /\ Cardinality(new) = IF (Len(f) + n) + 1 > Len(f) + taken THEN 0
                               ELSE ((Len(f) + taken) - ((Len(f) + n) + 1)) + 1
    BY <2>1, FS_Interval
  <2>3. \A a \in Nat : (IF (a + n) + 1 > a + taken THEN 0
                               ELSE ((a + taken) - ((a + n) + 1)) + 1) = taken - n
    OBVIOUS
  <2> HIDE DEF new
  <2>4. QED
    BY <1>2, <2>2, <2>3
<1> HIDE DEF new
<1>10. Cardinality(Fixed(g)) = Cardinality(Fixed(f)) + (taken - n)
  <2>1. Cardinality(Fixed(g)) = Cardinality(Fixed(f)) + Cardinality(new) - Cardinality({})
    <3>1. Cardinality(Fixed(f) \cup new) =
            Cardinality(Fixed(f)) + Cardinality(new) - Cardinality(Fixed(f) \cap new)
      BY <1>2, <1>9, FS_Union
    <3>2. QED
      BY <1>7, <1>8, <3>1
  <2>2. Cardinality({}) = 0
    BY FS_EmptySet
  <2>3. QED
    BY <1>2, <1>9, <2>1, <2>2
<1>11. Fixes(g) = Fixes(f) + (taken - n)
  BY <1>2, <1>4, <1>10
<1>12. Events(g) = Events(f) + n
  <2>1. Events(g) = (Len(f) + taken) - (Fixes(f) + (taken - n))
    BY <1>3, <1>11 DEF Events
  <2>2. Events(f) = Len(f) - Fixes(f)
    BY DEF Events
  <2>3. QED
    BY <1>2, <2>1, <2>2
<1>13. QED
  BY <1>11, <1>12 DEF g

-----------------------------------------------------------------------------
(* The drain keeps the invariant.                                          *)

\* What a session owes is its ring, while it is open or closing, and nothing
\* before and after.
LEMMA PendingIs ==
  ASSUME NEW l, LogOK(l), NEW e \in EventLogs
  PROVE  /\ PendingFixes(l) = IF Owing(l) THEN Len(l.ring) ELSE 0
         /\ PendingFixes(l) \in Nat /\ PendingFixes(l) <= Len(l.ring)
         /\ Pending(l, e) = PendingEvents(e) + PendingFixes(l) /\ Pending(l, e) \in Nat
<1>1. l \in Logs /\ Len(l.ring) \in Nat
  BY LogFields DEF LogOK
<1>2. PendingFixes(l) = IF Owing(l) THEN Len(l.ring) ELSE 0
  BY <1>1, LogFields DEF LogOK, PendingFixes, Owing
<1>3. QED
  BY <1>1, <1>2, PendingEventsIs DEF Pending

\* How much of what was taken are events, and how much fixes.
LEMMA TakenIs ==
  ASSUME NEW l, LogOK(l), NEW e \in EventLogs, NEW taken \in 0 .. Pending(l, e)
  PROVE  LET n == EventsTaken(l, e, taken)
             m == taken - n
         IN /\ n \in 0 .. PendingEvents(e) /\ n <= taken
            /\ m \in 0 .. PendingFixes(l) /\ m \in 0 .. Len(l.ring) /\ taken = n + m
            /\ m > 0 => n = PendingEvents(e)
            /\ taken < Pending(l, e) \/ (n = PendingEvents(e) /\ m = PendingFixes(l))
<1> DEFINE n == EventsTaken(l, e, taken)
           P == PendingEvents(e)
           R == PendingFixes(l)
<1>1. P \in Nat /\ R \in Nat /\ R <= Len(l.ring) /\ Pending(l, e) = P + R /\ taken \in 0 .. P + R
      /\ Len(l.ring) \in Nat
  BY PendingIs, PendingEventsIs, LogFields DEF LogOK
<1>2. n = Lesser(taken, P)
  BY DEF EventsTaken
<1>3. n = IF taken < P THEN taken ELSE P
  BY <1>2 DEF Lesser
<1> HIDE DEF n, P, R
<1>4. /\ n \in 0 .. P /\ n <= taken
      /\ taken - n \in 0 .. R /\ taken - n \in 0 .. Len(l.ring) /\ taken = n + (taken - n)
      /\ taken - n > 0 => n = P
      /\ taken < P + R \/ (n = P /\ taken - n = R)
  BY <1>1, <1>3
<1>5. QED
  BY <1>1, <1>4 DEF n, P, R

\* The session without its first m fixes, and over when nothing is left.
DrainedGives(l, p, m, over) ==
  /\ p \in Logs /\ Len(p.ring) = Len(l.ring) - m /\ Len(p.ring) \in Nat
  /\ \A i \in 1 .. Len(p.ring) : i + m \in 1 .. Len(l.ring) /\ p.ring[i] = l.ring[i + m]
  /\ p.dropped = l.dropped /\ p.session = l.session /\ p.open = l.open
  /\ p.closing = (l.closing /\ ~over)
  /\ p.toFlush = IF m < l.toFlush THEN l.toFlush - m ELSE 0

\* The drain of a session gives just that.
LEMMA FixesDrainedIs ==
  ASSUME NEW l, LogOK(l), NEW m \in 0 .. Len(l.ring), NEW closing \in BOOLEAN, NEW over \in BOOLEAN,
         closing = (l.closing /\ ~over)
  PROVE  DrainedGives(l, [FixesDrained(l, m) EXCEPT !.closing = closing], m, over)
<1> DEFINE rest == SubSeq(l.ring, m + 1, Len(l.ring))
           flush == IF m < l.toFlush THEN l.toFlush - m ELSE 0
           p == [FixesDrained(l, m) EXCEPT !.closing = closing]
<1>0. l \in Logs /\ Len(l.ring) \in Nat /\ m \in Nat /\ m <= Len(l.ring) /\ Window \in Nat
  BY LogFields, WindowAssumption DEF LogOK
<1>1. l = [ring |-> l.ring, toFlush |-> l.toFlush, dropped |-> l.dropped,
           session |-> l.session, open |-> l.open, closing |-> l.closing]
  BY <1>0 DEF Logs
<1>2. p = [[l EXCEPT !.ring = rest, !.toFlush = flush] EXCEPT !.closing = closing]
  BY DEF FixesDrained
<1> HIDE DEF rest, flush, p
<1>3. p = [ring |-> rest, toFlush |-> flush, dropped |-> l.dropped,
           session |-> l.session, open |-> l.open, closing |-> closing]
  BY <1>1, <1>2
<1>4. /\ rest \in Seq(FixRecords) /\ Len(rest) = Len(l.ring) - m
      /\ \A i \in 1 .. Len(l.ring) - m : rest[i] = l.ring[i + m]
  <2>1. \A i \in m + 1 .. Len(l.ring) : l.ring[i] \in FixRecords
    BY <1>0, LogFields
  <2>2. m + 1 \in Int /\ Len(l.ring) \in Int
    BY <1>0
  <2>3. /\ rest \in Seq(FixRecords)
        /\ Len(rest) = IF m + 1 <= Len(l.ring) THEN (Len(l.ring) - (m + 1)) + 1 ELSE 0
        /\ \A i \in 1 .. (Len(l.ring) - (m + 1)) + 1 : rest[i] = l.ring[((m + 1) + i) - 1]
    BY <2>1, <2>2, SubSeqProperties DEF rest
  <2>4. \A i \in 1 .. Len(l.ring) - m : i \in 1 .. (Len(l.ring) - (m + 1)) + 1 /\ ((m + 1) + i) - 1 = i + m
    BY <1>0
  <2>5. Len(rest) = Len(l.ring) - m
    BY <1>0, <2>3
  <2>6. QED
    BY <2>3, <2>4, <2>5
<1>5. flush \in 0 .. Window
  BY <1>0, LogFields DEF flush
<1>6. p \in Logs
  BY <1>0, <1>3, <1>4, <1>5, LogFields DEF Logs
<1>7. p.ring = rest /\ p.dropped = l.dropped /\ p.session = l.session /\ p.open = l.open
      /\ p.closing = closing /\ p.toFlush = flush
  BY <1>3
<1>8. Len(p.ring) = Len(l.ring) - m /\ Len(p.ring) \in Nat
  BY <1>0, <1>4, <1>7
<1>9. \A i \in 1 .. Len(p.ring) : i + m \in 1 .. Len(l.ring) /\ p.ring[i] = l.ring[i + m]
  <2>1. \A i \in 1 .. Len(l.ring) - m : i + m \in 1 .. Len(l.ring)
    BY <1>0
  <2>2. QED
    BY <1>4, <1>7, <1>8, <2>1
<1>10. DrainedGives(l, p, m, over)
  BY <1>6, <1>7, <1>8, <1>9 DEF DrainedGives, flush
<1>11. QED
  BY <1>10 DEF p

\* All that a drain is: n events and m fixes go from the device to the file.
\* The landing is written, and the session over, when nothing is left.
Drain(l, e, b, f, p, q, w, n, m) ==
  LET over == n = PendingEvents(e) /\ m = PendingFixes(l)
  IN /\ n \in 0 .. PendingEvents(e) /\ m \in 0 .. PendingFixes(l) /\ m \in 0 .. Len(l.ring)
     /\ m > 0 => n = PendingEvents(e)
     /\ DrainedGives(l, p, m, over)
     /\ q \in EventLogs /\ Len(q.backlog) <= Backlog
     /\ PendingEvents(q) = PendingEvents(e) - n
     /\ q.dropped = e.dropped /\ q.raised = e.raised /\ Ending(q) \subseteq Ending(e)
     /\ WrittenGives(l, n, b, n + m, w)

\* Whether it is over, and what that says.
LEMMA DrainedOwing ==
  ASSUME NEW l, LogOK(l), NEW e \in EventLogs, NEW b, NEW f, NEW p, NEW q, NEW w, NEW n, NEW m,
         Drain(l, e, b, f, p, q, w, n, m)
  PROVE  /\ Owing(p) => Owing(l)
         /\ ~Owing(l) => m = 0
         /\ ~Owing(p) /\ Owing(l) => n = PendingEvents(e) /\ m = Len(l.ring) /\ Len(p.ring) = 0
         /\ l.closing /\ m = Len(l.ring) /\ m > 0 => ~Owing(p)
<1>1. /\ m \in 0 .. PendingFixes(l) /\ m \in 0 .. Len(l.ring)
      /\ PendingFixes(l) = IF Owing(l) THEN Len(l.ring) ELSE 0
  BY PendingIs DEF Drain
<1>2. Len(p.ring) = Len(l.ring) - m /\ p.open = l.open
      /\ p.closing = (l.closing /\ ~(n = PendingEvents(e) /\ m = PendingFixes(l)))
  BY DEF Drain, DrainedGives
<1>3. m > 0 => n = PendingEvents(e)
  BY DEF Drain
<1>4. Len(l.ring) \in Nat /\ ~(l.open /\ l.closing)
  BY LogFields DEF LogOK
<1>5. Owing(p) => Owing(l)
  BY <1>2 DEF Owing
<1>6. ~Owing(l) => m = 0
  BY <1>1
<1>7. ~Owing(p) /\ Owing(l) => n = PendingEvents(e) /\ m = Len(l.ring)
  BY <1>1, <1>2 DEF Owing
<1>8. m = Len(l.ring) => Len(p.ring) = 0
  BY <1>2, <1>4
<1>9. l.closing /\ m = Len(l.ring) /\ m > 0 => ~Owing(p)
  BY <1>1, <1>2, <1>3, <1>4 DEF Owing
<1>10. QED
  BY <1>5, <1>6, <1>7, <1>8, <1>9

\* A drain leaves to be flushed what is left of the ring, after a landing.
LEMMA DrainLogOK ==
  ASSUME NEW l, LogOK(l), NEW e \in EventLogs, NEW b, NEW f, NEW p, NEW q, NEW w, NEW n, NEW m,
         Drain(l, e, b, f, p, q, w, n, m)
  PROVE  LogOK(p)
<1>1. /\ p \in Logs /\ Len(p.ring) = Len(l.ring) - m /\ m \in 0 .. Len(l.ring) /\ p.open = l.open
      /\ p.closing = (l.closing /\ ~(n = PendingEvents(e) /\ m = PendingFixes(l)))
      /\ p.toFlush = IF m < l.toFlush THEN l.toFlush - m ELSE 0
  BY DEF Drain, DrainedGives
<1>2. Len(l.ring) \in Nat /\ Len(l.ring) <= Window /\ Window \in Nat
      /\ l.toFlush = (IF l.closing THEN Len(l.ring) ELSE 0) /\ ~(l.open /\ l.closing)
  BY LogFields, WindowAssumption DEF LogOK
<1>3. Len(p.ring) <= Window
  BY <1>1, <1>2
<1>4. ~(p.open /\ p.closing)
  BY <1>1, <1>2
<1>5. p.toFlush = IF p.closing THEN Len(p.ring) ELSE 0
  <2>1. CASE l.closing
    <3>1. p.toFlush = Len(l.ring) - m
      BY <1>1, <1>2, <2>1
    <3>2. p.closing \/ m = Len(l.ring)
      BY <1>1, <2>1, PendingIs DEF Owing
    <3>3. QED
      BY <1>1, <1>2, <3>1, <3>2
  <2>2. CASE ~l.closing
    <3>1. l.toFlush = 0 /\ ~(m < 0)
      BY <1>1, <1>2, <2>2
    <3>2. p.toFlush = 0
      BY <1>1, <3>1
    <3>3. ~p.closing
      BY <1>1, <2>2
    <3>4. QED
      BY <3>2, <3>3
  <2>3. QED
    BY <2>1, <2>2
<1>6. QED
  BY <1>1, <1>3, <1>4, <1>5 DEF LogOK

\* What is left of the ring reads as it did.
LEMMA DrainRingOK ==
  ASSUME NEW l, LogOK(l), NEW e \in EventLogs, NEW b, NEW f, NEW p, NEW q, NEW w, NEW n, NEW m,
         Drain(l, e, b, f, p, q, w, n, m), NEW c, RingOK(l, c)
  PROVE  RingOK(p, c)
<1>1. /\ \A i \in 1 .. Len(p.ring) : i + m \in 1 .. Len(l.ring) /\ p.ring[i] = l.ring[i + m]
      /\ m \in Nat
  BY LogFields DEF Drain, DrainedGives, LogOK
<1>2. SUFFICES ASSUME NEW i \in 1 .. Len(p.ring)
               PROVE  /\ p.ring[i].at <= c
                      /\ p.ring[i].last => p.closing
                      /\ ~Owing(p) => ~p.ring[i].moving /\ 0 < p.ring[i].at
                      /\ \A j \in 1 .. Len(p.ring) : i < j => Follows(p.ring[i], p.ring[j])
  BY DEF RingOK
<1>3. Owing(p) <=> Owing(l)
  <2>1. Len(p.ring) # 0
    BY <1>1
  <2>2. QED
    BY <2>1, DrainedOwing
<1>4. i + m \in 1 .. Len(l.ring) /\ p.ring[i] = l.ring[i + m]
  BY <1>1
<1>5. l.closing => p.closing
  <2>1. l.closing => Owing(p) /\ ~l.open /\ p.open = l.open
    BY <1>3 DEF Owing, LogOK, Drain, DrainedGives
  <2>2. QED
    BY <2>1 DEF Owing
<1>6. /\ p.ring[i].at <= c
      /\ p.ring[i].last => l.closing
      /\ ~Owing(l) => ~p.ring[i].moving /\ 0 < p.ring[i].at
  BY <1>4 DEF RingOK
<1>7. \A j \in 1 .. Len(p.ring) : i < j => Follows(p.ring[i], p.ring[j])
  <2>1. TAKE j \in 1 .. Len(p.ring)
  <2>2. j + m \in 1 .. Len(l.ring) /\ p.ring[j] = l.ring[j + m] /\ (i < j => i + m < j + m)
    BY <1>1
  <2>3. QED
    BY <1>4, <2>2 DEF RingOK
<1>8. QED
  BY <1>3, <1>5, <1>6, <1>7

\* The events written and those that wait are still all that were raised.
LEMMA DrainEventsOK ==
  ASSUME NEW l, LogOK(l), NEW e \in EventLogs, NEW b, NEW f \in Seq(Entries), NEW p, NEW q, NEW w,
         NEW n, NEW m, Drain(l, e, b, f, p, q, w, n, m), EventsOK(l, e, b, f)
  PROVE  EventsOK(p, q, b, f \o w)
<1>1. /\ q \in EventLogs /\ Len(q.backlog) <= Backlog /\ PendingEvents(q) = PendingEvents(e) - n
      /\ q.dropped = e.dropped /\ q.raised = e.raised /\ Ending(q) \subseteq Ending(e)
      /\ p.open = l.open /\ n \in 0 .. PendingEvents(e) /\ m \in Nat
  BY LogFields DEF Drain, DrainedGives, LogOK
<1>2. /\ l.open => Ending(e) = {}
      /\ ~Owing(l) /\ b # 0 => PendingEvents(e) = 0
      /\ e.raised = (Events(f) + PendingEvents(e)) + e.dropped
  BY DEF EventsOK
<1>3. PendingEvents(e) \in Nat /\ Events(f) \in Nat /\ e.dropped \in Nat /\ n \in Nat
  BY <1>1, PendingEventsIs, FixesCount, EventFields
<1>4. Events(f \o w) = Events(f) + n
  <2>1. n <= n + m /\ n + m \in Nat /\ WrittenGives(l, n, b, n + m, w) /\ l \in Logs
    BY <1>1, <1>3 DEF Drain, LogOK
  <2>2. QED
    BY <1>3, <2>1, FixesWritten
<1>5. ~Owing(p) /\ b # 0 => PendingEvents(q) = 0
  <2>1. ~Owing(p) /\ b # 0 => n = PendingEvents(e)
    BY <1>1, <1>2, DrainedOwing
  <2>2. QED
    BY <1>1, <1>3, <2>1
<1>6. q.raised = (Events(f \o w) + PendingEvents(q)) + q.dropped
  <2>1. \A x, y, z, u \in Nat : (x + y) + z = ((x + u) + (y - u)) + z
    OBVIOUS
  <2>2. e.raised = ((Events(f) + n) + (PendingEvents(e) - n)) + e.dropped
    BY <1>2, <1>3, <2>1
  <2>3. QED
    BY <1>1, <1>4, <2>2
<1>7. p.open => Ending(q) = {}
  BY <1>1, <1>2
<1>8. QED
  BY <1>1, <1>5, <1>6, <1>7 DEF EventsOK

\* So are the fixes: what left the ring is in the file.
LEMMA DrainFixesOK ==
  ASSUME NEW l, LogOK(l), NEW e \in EventLogs, NEW b, NEW f \in Seq(Entries), NEW p, NEW q, NEW w,
         NEW n, NEW m, Drain(l, e, b, f, p, q, w, n, m), NEW o, FixesOK(l, o, f)
  PROVE  FixesOK(p, o, f \o w)
<1>1. /\ n \in Nat /\ m \in Nat /\ m <= Len(l.ring) /\ Len(l.ring) \in Nat
      /\ Len(p.ring) = Len(l.ring) - m /\ p.dropped = l.dropped /\ l.dropped \in Nat
  BY PendingEventsIs, LogFields DEF Drain, DrainedGives, LogOK
<1>2. Fixes(f \o w) = Fixes(f) + m
  <2>1. /\ n <= n + m /\ n + m \in Nat /\ WrittenGives(l, n, b, n + m, w) /\ l \in Logs
        /\ (n + m) - n = m
    BY <1>1 DEF Drain, LogOK
  <2>2. QED
    BY <1>1, <2>1, FixesWritten
<1> DEFINE waits(x) == IF Owing(x) THEN PendingFixes(x) ELSE 0
<1>3. waits(l) = IF Owing(l) THEN Len(l.ring) ELSE 0
  BY PendingIs
<1>4. waits(p) = IF Owing(p) THEN Len(p.ring) ELSE 0
  BY DrainLogOK, PendingIs
<1>5. waits(p) = waits(l) - m
  <2>1. /\ Owing(p) => Owing(l)
        /\ ~Owing(l) => m = 0
        /\ ~Owing(p) /\ Owing(l) => m = Len(l.ring)
    BY DrainedOwing
  <2>2. QED
    BY <1>1, <1>3, <1>4, <2>1
<1>6. o \in Nat /\ o = (Fixes(f) + waits(l)) + l.dropped
  BY DEF FixesOK
<1>7. Fixes(f) \in Nat /\ waits(l) \in Nat
  BY <1>1, <1>3, FixesCount
<1> HIDE DEF waits
<1>8. o = (Fixes(f \o w) + waits(p)) + p.dropped
  <2>1. \A x, y, z, u \in Nat : (x + y) + z = ((x + u) + (y - u)) + z
    OBVIOUS
  <2>2. o = ((Fixes(f) + m) + (waits(l) - m)) + l.dropped
    BY <1>1, <1>6, <1>7, <2>1
  <2>3. QED
    BY <1>1, <1>2, <1>5, <2>2
<1>9. QED
  BY <1>6, <1>8 DEF FixesOK, waits

\* A record of the longer file was there, or is an event, or one of the fixes.
OldIn(f, g, i) == i \in 1 .. Len(f) /\ g[i] = f[i]
EventIn(b, n, f, g, i) == i > Len(f) /\ i - Len(f) <= n /\ n > 0 /\ g[i].session = b /\ g[i].record.kind # "fix"
FixIn(l, b, n, m, f, g, i) ==
  /\ i > Len(f) /\ g[i].session = b
  /\ (i - Len(f)) - n \in 1 .. Len(l.ring) /\ (i - Len(f)) - n <= m /\ m > 0
  /\ g[i].record = l.ring[(i - Len(f)) - n]

\* There is no other record in it.
LEMMA RecordsBehind ==
  ASSUME NEW l \in Logs, NEW b, NEW f \in Seq(Entries), NEW n \in Nat, NEW m \in Nat,
         NEW w, WrittenGives(l, n, b, n + m, w), NEW i \in 1 .. Len(f \o w)
  PROVE  \/ OldIn(f, f \o w, i) \/ EventIn(b, n, f, f \o w, i) \/ FixIn(l, b, n, m, f, f \o w, i)
<1> DEFINE g == f \o w
           k == i - Len(f)
<1>1. w \in Seq(Entries) /\ Len(w) = n + m
  BY DEF WrittenGives
<1>2. /\ Len(g) = Len(f) + Len(w)
      /\ IF i <= Len(f) THEN i \in 1 .. Len(f) /\ g[i] = f[i]
         ELSE k \in 1 .. Len(w) /\ g[i] = w[k]
  BY <1>1, ExtendedIs
<1>3. Len(f) \in Nat /\ i \in Nat
  <2>1. Len(f) \in Nat /\ Len(w) \in Nat
    BY <1>1, LenProperties
  <2>2. QED
    BY <1>2, <2>1
<1> HIDE DEF g
<1>4. CASE i <= Len(f)
  BY <1>2, <1>4 DEF OldIn, g
<1>5. CASE ~(i <= Len(f))
  <2>1. k \in 1 .. n + m /\ g[i] = w[k] /\ i > Len(f)
    BY <1>1, <1>2, <1>3, <1>5
  <2> HIDE DEF k
  <2>2. /\ w[k].session = b
        /\ k <= n => w[k].record.kind = "event"
        /\ k > n => k - n \in 1 .. Len(l.ring) /\ w[k].record = l.ring[k - n]
    BY <2>1 DEF WrittenGives
  <2>3. CASE k <= n
    <3>1. n > 0
      BY <2>1, <2>3
    <3>2. EventIn(b, n, f, g, i)
      BY <2>1, <2>2, <2>3, <3>1 DEF EventIn, k
    <3>3. QED
      BY <3>2 DEF g
  <2>4. CASE k > n
    <3>1. k - n <= m /\ m > 0
      BY <2>1, <2>4
    <3>2. FixIn(l, b, n, m, f, g, i)
      BY <2>1, <2>2, <2>4, <3>1 DEF FixIn, k
    <3>3. QED
      BY <3>2 DEF g
  <2>5. QED
    BY <2>1, <2>3, <2>4
<1>6. QED
  BY <1>4, <1>5

\* The file reads as one flight with what is written behind it: the events come
\* first, so no event follows the fix that ends it.
LEMMA DrainFileOK ==
  ASSUME NEW l, LogOK(l), NEW e \in EventLogs, NEW b, NEW f \in Seq(Entries), NEW p, NEW q, NEW w,
         NEW n, NEW m, Drain(l, e, b, f, p, q, w, n, m),
         NEW c, RingOK(l, c), EventsOK(l, e, b, f), FileOK(l, b, c, f)
  PROVE  FileOK(p, b, c, f \o w)
<1> DEFINE g == f \o w
<1>0. /\ l \in Logs /\ n \in Nat /\ m \in Nat /\ m <= Len(l.ring) /\ Len(l.ring) \in Nat
      /\ WrittenGives(l, n, b, n + m, w) /\ w \in Seq(Entries)
      /\ m > 0 => n = PendingEvents(e)
      /\ n <= PendingEvents(e) /\ PendingEvents(e) \in Nat
  BY PendingEventsIs, LogFields DEF Drain, WrittenGives, LogOK
<1>1. /\ \A i \in 1 .. Len(p.ring) : i + m \in 1 .. Len(l.ring) /\ p.ring[i] = l.ring[i + m]
      /\ Len(p.ring) = Len(l.ring) - m
  BY DEF Drain, DrainedGives
<1>2. /\ Owing(p) => Owing(l)
      /\ ~Owing(l) => m = 0
      /\ ~Owing(p) /\ Owing(l) => Len(p.ring) = 0
      /\ l.closing /\ m = Len(l.ring) /\ m > 0 => ~Owing(p)
  BY DrainedOwing
<1>3. /\ b \in Times /\ c \in Times /\ b <= c /\ (Owing(l) => b # 0)
      /\ b \in Nat /\ c \in Nat
  BY MaxTimeAssumption DEF FileOK, Times
<1>4. ~Owing(l) /\ n > 0 => b = 0
  <2>1. ~Owing(l) /\ b # 0 => PendingEvents(e) = 0
    BY DEF EventsOK
  <2>2. QED
    BY <1>0, <2>1
<1>5. g \in Seq(Entries) /\ Len(g) \in Nat /\ Len(f) \in Nat
  BY <1>0, ExtendedIs, LenProperties
<1>6. \A i \in 1 .. Len(g) : OldIn(f, g, i) \/ EventIn(b, n, f, g, i) \/ FixIn(l, b, n, m, f, g, i)
  BY <1>0, RecordsBehind
<1> HIDE DEF g
\* What the file says of the records that were there, and the ring of its fixes.
<1>7. \A i \in 1 .. Len(f) :
        /\ f[i].session <= c
        /\ f[i].record.kind = "fix" => f[i].session # 0 /\ f[i].record.at <= c
        /\ ~Owing(l) => \A k \in 1 .. Len(l.ring) : f[i].session < l.ring[k].at
        /\ Owing(l) /\ f[i].session = b /\ f[i].record.kind = "fix" =>
             ~f[i].record.last /\ \A k \in 1 .. Len(l.ring) : Follows(f[i].record, l.ring[k])
        /\ \A j \in 1 .. Len(f) :
             i < j /\ f[i].session = f[j].session /\ f[i].record.kind = "fix" =>
               /\ ~f[i].record.last
               /\ f[j].record.kind = "fix" => Follows(f[i].record, f[j].record)
  BY DEF FileOK
<1>8. \A i \in 1 .. Len(l.ring) :
        /\ l.ring[i].at <= c
        /\ l.ring[i].last => l.closing
        /\ ~Owing(l) => 0 < l.ring[i].at
        /\ \A j \in 1 .. Len(l.ring) : i < j => Follows(l.ring[i], l.ring[j])
  BY DEF RingOK
<1>9. \A i \in 1 .. Len(g) : FixIn(l, b, n, m, f, g, i) => Owing(l)
  BY <1>2 DEF FixIn
<1>10. ASSUME NEW i \in 1 .. Len(g)
       PROVE  /\ g[i].session <= c
              /\ g[i].record.kind = "fix" => g[i].session # 0 /\ g[i].record.at <= c
  <2>1. CASE OldIn(f, g, i)
    BY <1>7, <2>1 DEF OldIn
  <2>2. CASE EventIn(b, n, f, g, i)
    BY <1>3, <2>2 DEF EventIn
  <2>3. CASE FixIn(l, b, n, m, f, g, i)
    BY <1>3, <1>8, <1>9, <2>3 DEF FixIn
  <2>4. QED
    BY <1>6, <2>1, <2>2, <2>3
<1>11. ASSUME NEW i \in 1 .. Len(g), ~Owing(p), NEW k \in 1 .. Len(p.ring)
       PROVE  g[i].session < p.ring[k].at
  <2>1. ~Owing(l) /\ m = 0 /\ k \in 1 .. Len(l.ring) /\ p.ring[k] = l.ring[k]
    <3>1. ~Owing(l)
      BY <1>2, <1>11
    <3>2. m = 0 /\ k + 0 = k
      BY <1>2, <3>1
    <3>3. QED
      BY <1>1, <3>1, <3>2
  <2>2. CASE OldIn(f, g, i)
    BY <1>7, <2>1, <2>2 DEF OldIn
  <2>3. CASE EventIn(b, n, f, g, i)
    BY <1>4, <1>8, <2>1, <2>3 DEF EventIn
  <2>4. CASE FixIn(l, b, n, m, f, g, i)
    BY <1>9, <2>1, <2>4
  <2>5. QED
    BY <1>6, <2>2, <2>3, <2>4
<1>12. ASSUME NEW i \in 1 .. Len(g), Owing(p), g[i].session = b, g[i].record.kind = "fix"
       PROVE  ~g[i].record.last /\ \A k \in 1 .. Len(p.ring) : Follows(g[i].record, p.ring[k])
  <2>0. Owing(l)
    BY <1>2, <1>12
  <2>1. CASE OldIn(f, g, i)
    BY <1>1, <1>7, <1>12, <2>0, <2>1 DEF OldIn
  <2>2. CASE FixIn(l, b, n, m, f, g, i)
    <3> DEFINE r == (i - Len(f)) - n
    <3>1. r \in 1 .. Len(l.ring) /\ r <= m /\ m > 0 /\ g[i].record = l.ring[r]
      BY <2>2 DEF FixIn
    <3> HIDE DEF r
    <3>2. ASSUME NEW k \in 1 .. Len(p.ring) PROVE Follows(g[i].record, p.ring[k])
      <4>1. k + m \in 1 .. Len(l.ring) /\ p.ring[k] = l.ring[k + m]
        BY <1>1
      <4>2. r < k + m
        BY <1>0, <3>1
      <4>3. QED
        BY <1>8, <3>1, <4>1, <4>2
    <3>3. ~g[i].record.last
      <4>1. CASE r = Len(l.ring)
        <5>1. m = Len(l.ring)
          BY <1>0, <3>1, <4>1
        <5>2. QED
          BY <1>2, <1>8, <1>12, <3>1, <5>1
      <4>2. CASE r # Len(l.ring)
        <5>1. r < Len(l.ring) /\ Len(l.ring) \in 1 .. Len(l.ring)
          BY <1>0, <3>1, <4>2
        <5>2. QED
          BY <1>8, <3>1, <5>1 DEF Follows
      <4>3. QED
        BY <4>1, <4>2
    <3>4. QED
      BY <3>2, <3>3
  <2>3. QED
    BY <1>6, <1>12, <2>1, <2>2 DEF EventIn
<1>13. ASSUME NEW i \in 1 .. Len(g), NEW j \in 1 .. Len(g),
              i < j, g[i].session = g[j].session, g[i].record.kind = "fix"
       PROVE  /\ ~g[i].record.last
              /\ g[j].record.kind = "fix" => Follows(g[i].record, g[j].record)
  <2>1. CASE OldIn(f, g, i) /\ OldIn(f, g, j)
    BY <1>7, <1>13, <2>1 DEF OldIn
  <2>2. CASE OldIn(f, g, i) /\ EventIn(b, n, f, g, j)
    <3>1. f[i].session = b /\ f[i].record.kind = "fix" /\ i \in 1 .. Len(f) /\ g[i] = f[i] /\ n > 0
      BY <1>13, <2>2 DEF OldIn, EventIn
    <3>2. b # 0
      BY <1>7, <3>1
    <3>3. Owing(l)
      BY <1>4, <3>1, <3>2
    <3>4. QED
      BY <1>7, <2>2, <3>1, <3>3 DEF EventIn
  <2>3. CASE OldIn(f, g, i) /\ FixIn(l, b, n, m, f, g, j)
    <3>1. f[i].session = b /\ f[i].record.kind = "fix" /\ i \in 1 .. Len(f) /\ g[i] = f[i]
      BY <1>13, <2>3 DEF OldIn, FixIn
    <3>2. Owing(l)
      BY <1>9, <2>3
    <3>3. QED
      BY <1>7, <2>3, <3>1, <3>2 DEF FixIn
  <2>4. CASE FixIn(l, b, n, m, f, g, i) /\ OldIn(f, g, j)
    BY <1>5, <1>13, <2>4 DEF FixIn, OldIn
  <2>5. CASE FixIn(l, b, n, m, f, g, i) /\ FixIn(l, b, n, m, f, g, j)
    <3> DEFINE r == (i - Len(f)) - n
               s == (j - Len(f)) - n
    <3>1. r < s
      BY <1>0, <1>5, <1>13
    <3>2. r \in 1 .. Len(l.ring) /\ s \in 1 .. Len(l.ring) /\ g[i].record = l.ring[r] /\ g[j].record = l.ring[s]
      BY <2>5 DEF FixIn
    <3> HIDE DEF r, s
    <3>3. Follows(g[i].record, g[j].record)
      BY <1>8, <3>1, <3>2
    <3>4. QED
      BY <3>3 DEF Follows
  <2>6. CASE FixIn(l, b, n, m, f, g, i) /\ EventIn(b, n, f, g, j)
    \* An event behind a fix: there is none.
    <3>1. j - Len(f) <= n /\ (i - Len(f)) - n >= 1
      BY <2>6 DEF FixIn, EventIn
    <3>3. FALSE
      BY <1>0, <1>5, <1>13, <3>1
    <3>2. QED
      BY <3>3
  <2>7. QED
    BY <1>6, <1>13, <2>1, <2>2, <2>3, <2>4, <2>5, <2>6 DEF EventIn
<1>14. \A i \in 1 .. Len(g) :
         /\ g[i].session <= c
         /\ g[i].record.kind = "fix" => g[i].session # 0 /\ g[i].record.at <= c
         /\ ~Owing(p) => \A k \in 1 .. Len(p.ring) : g[i].session < p.ring[k].at
         /\ Owing(p) /\ g[i].session = b /\ g[i].record.kind = "fix" =>
              ~g[i].record.last /\ \A k \in 1 .. Len(p.ring) : Follows(g[i].record, p.ring[k])
         /\ \A j \in 1 .. Len(g) :
              i < j /\ g[i].session = g[j].session /\ g[i].record.kind = "fix" =>
                /\ ~g[i].record.last
                /\ g[j].record.kind = "fix" => Follows(g[i].record, g[j].record)
  BY <1>10, <1>11, <1>12, <1>13
<1>15. FileOK(p, b, c, g)
  BY <1>2, <1>3, <1>5, <1>14 DEF FileOK
<1>16. QED
  BY <1>15 DEF g

\* A drain of any size, the store refusing where it likes, keeps the invariant.
LEMMA DrainKept ==
  ASSUME NEW l, NEW e, NEW b, NEW c, NEW o, NEW f, Kept(l, e, b, c, o, f),
         NEW taken \in 0 .. Pending(l, e)
  PROVE  LET n == EventsTaken(l, e, taken)
         IN Kept([FixesDrained(l, taken - n) EXCEPT !.closing = Closing(l, e, taken)],
                 EventsDrained(e, n), b, c, o, f \o Written(l, e, b, taken))
<1> DEFINE n == EventsTaken(l, e, taken)
           m == taken - n
           p == [FixesDrained(l, m) EXCEPT !.closing = Closing(l, e, taken)]
           q == EventsDrained(e, n)
           w == Written(l, e, b, taken)
           over == n = PendingEvents(e) /\ m = PendingFixes(l)
<1>1. /\ LogOK(l) /\ RingOK(l, c) /\ EventsOK(l, e, b, f) /\ FileOK(l, b, c, f) /\ FixesOK(l, o, f)
      /\ l \in Logs /\ e \in EventLogs /\ Len(e.backlog) <= Backlog /\ f \in Seq(Entries) /\ b \in Times
  BY DEF Kept, LogOK, EventsOK, FileOK
<1>2. /\ n \in 0 .. PendingEvents(e) /\ n <= taken
      /\ m \in 0 .. PendingFixes(l) /\ m \in 0 .. Len(l.ring) /\ taken = n + m
      /\ m > 0 => n = PendingEvents(e)
      /\ taken < Pending(l, e) \/ (n = PendingEvents(e) /\ m = PendingFixes(l))
  BY <1>1, TakenIs
<1>3. /\ PendingEvents(e) \in Nat /\ PendingFixes(l) \in Nat
      /\ Pending(l, e) = PendingEvents(e) + PendingFixes(l) /\ taken \in Nat
      /\ PendingFixes(l) <= Len(l.ring)
  <2>1. Pending(l, e) \in Nat
    BY <1>1, PendingIs
  <2>2. taken \in Nat
    BY <2>1
  <2>3. QED
    BY <1>1, <2>2, PendingIs, PendingEventsIs
<1>4. n \in Nat /\ m \in Nat /\ m <= Len(l.ring)
  <2> HIDE DEF n, m
  <2>1. Len(l.ring) \in Nat
    BY <1>1, LogFields
  <2>2. QED
    BY <1>2, <1>3, <2>1
<1>5. Closing(l, e, taken) = (l.closing /\ ~over) /\ Closing(l, e, taken) \in BOOLEAN /\ over \in BOOLEAN
  <2>1. taken < Pending(l, e) <=> ~over
    <3> HIDE DEF n, m
    <3>1. n = PendingEvents(e) /\ m = PendingFixes(l) => ~(taken < Pending(l, e))
      BY <1>2, <1>3, <1>4
    <3>2. QED
      BY <1>2, <3>1
  <2>2. Closing(l, e, taken) = (l.closing /\ taken < Pending(l, e))
    BY DEF Closing
  <2> HIDE DEF over
  <2>3. over \in BOOLEAN
    BY DEF over
  <2>4. QED
    BY <2>1, <2>2, <2>3
<1>6. DrainedGives(l, p, m, over)
  <2> HIDE DEF n, m, over
  <2>1. QED
    BY <1>1, <1>2, <1>5, FixesDrainedIs
<1>7. /\ q \in EventLogs /\ Len(q.backlog) <= Backlog
      /\ PendingEvents(q) = PendingEvents(e) - n
      /\ q.dropped = e.dropped /\ q.raised = e.raised /\ Ending(q) \subseteq Ending(e)
  <2> HIDE DEF n
  <2>1. QED
    BY <1>1, <1>2, EventsDrainedIs
<1>8. WrittenGives(l, n, b, n + m, w)
  <2>1. WrittenGives(l, n, b, taken, w)
    BY <1>1, <1>2, <1>3, <1>4, WrittenIs
  <2> HIDE DEF n, m, w
  <2>2. QED
    BY <1>2, <2>1
<1> HIDE DEF n, m, p, q, w
<1>9. Drain(l, e, b, f, p, q, w, n, m)
  BY <1>2, <1>6, <1>7, <1>8 DEF Drain, over
<1>10. Kept(p, q, b, c, o, f \o w)
  <2>1. LogOK(p)
    BY <1>1, <1>9, DrainLogOK
  <2>2. RingOK(p, c)
    BY <1>1, <1>9, DrainRingOK
  <2>3. EventsOK(p, q, b, f \o w)
    BY <1>1, <1>9, DrainEventsOK
  <2>4. FileOK(p, b, c, f \o w)
    BY <1>1, <1>9, DrainFileOK
  <2>5. FixesOK(p, o, f \o w)
    BY <1>1, <1>9, DrainFixesOK
  <2>6. QED
    BY <2>1, <2>2, <2>3, <2>4, <2>5 DEF Kept
<1>11. QED
  BY <1>10 DEF n, m, p, q, w

-----------------------------------------------------------------------------
(* The update keeps the invariant, whatever it makes of the second.        *)

\* Time passing changes nothing that is kept.
LEMMA IdleKept ==
  ASSUME NEW l, NEW e, NEW b, NEW c, NEW o, NEW f, Kept(l, e, b, c, o, f),
         NEW time \in Times, c <= time
  PROVE  Kept(l, e, b, time, o, f)
<1>1. /\ LogOK(l) /\ RingOK(l, c) /\ EventsOK(l, e, b, f) /\ FileOK(l, b, c, f) /\ FixesOK(l, o, f)
  BY DEF Kept
<1>2. b \in Times /\ c \in Times /\ b <= c /\ f \in Seq(Entries) /\ (\A t \in Times : t \in Nat)
  BY <1>1, MaxTimeAssumption DEF FileOK, Times
<1>3. /\ \A t \in Times : t <= c => t <= time
  BY <1>2
<1>4. \A i \in 1 .. Len(l.ring) : l.ring[i].at \in Times
  BY <1>1, LogFields, FixFields DEF LogOK
<1>5. \A i \in 1 .. Len(f) : f[i].session \in Times /\ (f[i].record.kind = "fix" => f[i].record.at \in Times)
  <2>1. TAKE i \in 1 .. Len(f)
  <2>2. f[i] \in Entries
    BY <1>2, ElementOfSeq
  <2>3. \A x \in EventRecords : x.kind # "fix"
    BY DEF EventRecords
  <2>4. QED
    BY <2>2, <2>3, FixFields DEF Entries
<1>6. RingOK(l, time)
  BY <1>1, <1>3, <1>4 DEF RingOK
<1>7. FileOK(l, b, time, f)
  BY <1>1, <1>2, <1>3, <1>5 DEF FileOK
<1>8. QED
  BY <1>1, <1>6, <1>7 DEF Kept

\* What the ring holds after a sample.
LEMMA PushedFrom ==
  ASSUME NEW l, NEW x, NEW p, NEW d, PushGives(l, x, p, d), NEW i \in 1 .. Len(p.ring)
  PROVE  p.ring[i] = x \/ \E k \in 1 .. Len(l.ring) : p.ring[i] = l.ring[k]
  BY DEF PushGives

\* The ring goes on as it was, and the sample follows all of it.
LEMMA PushedFollows ==
  ASSUME NEW l \in Logs, NEW x, NEW p, NEW d, PushGives(l, x, p, d),
         NEW c, RingOK(l, c), \A k \in 1 .. Len(l.ring) : Follows(l.ring[k], x),
         NEW i \in 1 .. Len(p.ring), NEW j \in 1 .. Len(p.ring), i < j
  PROVE  Follows(p.ring[i], p.ring[j])
<1>1. /\ d \in {0, 1} /\ Len(p.ring) = (Len(l.ring) + 1) - d
      /\ \A k \in 1 .. Len(p.ring) : IF k = Len(p.ring) THEN p.ring[k] = x
                                  ELSE k + d \in 1 .. Len(l.ring) /\ p.ring[k] = l.ring[k + d]
  BY DEF PushGives
<1>2. Len(p.ring) \in Nat /\ i # Len(p.ring)
  BY <1>1, LogFields
<1>3. i + d \in 1 .. Len(l.ring) /\ p.ring[i] = l.ring[i + d]
  BY <1>1, <1>2
<1>4. CASE j = Len(p.ring)
  BY <1>1, <1>3, <1>4
<1>5. CASE j # Len(p.ring)
  <2>1. j + d \in 1 .. Len(l.ring) /\ p.ring[j] = l.ring[j + d] /\ i + d < j + d
    BY <1>1, <1>5
  <2>2. QED
    BY <1>3, <2>1 DEF RingOK
<1>6. QED
  BY <1>4, <1>5

\* A sample on the ground.
LEMMA ParkKept ==
  ASSUME NEW l, NEW e, NEW b, NEW c, NEW o, NEW f, Kept(l, e, b, c, o, f),
         ~Owing(l), NEW time \in Times, time = c + 1
  PROVE  Kept(Push(l, Sample(time, FALSE, FALSE)), e, b, time, o, f)
<1> DEFINE x == Sample(time, FALSE, FALSE)
           p == Push(l, x)
<1>1. /\ LogOK(l) /\ RingOK(l, c) /\ EventsOK(l, e, b, f) /\ FileOK(l, b, c, f) /\ FixesOK(l, o, f)
      /\ l \in Logs /\ Len(l.ring) <= Window /\ Len(l.ring) \in Nat
  BY LogFields DEF Kept, LogOK
<1>2. x \in FixRecords /\ x.at = time /\ ~x.moving /\ ~x.last
  BY SampleIs
<1>3. c \in Nat /\ c < time /\ time \in Nat /\ 0 < time
  BY <1>1, MaxTimeAssumption DEF FileOK, Times
<1>4. Kept(l, e, b, time, o, f)
  BY <1>3, IdleKept
<1>5. PICK d \in {0, 1} : PushGives(l, x, p, d)
  BY <1>1, <1>2, PushIs
<1> HIDE DEF p, x
<1>6. /\ p.open = FALSE /\ p.closing = FALSE /\ ~Owing(p) /\ p \in Logs /\ p.dropped = l.dropped
      /\ p.toFlush = 0 /\ Len(p.ring) <= Window
  <2>1. l.open = FALSE /\ l.closing = FALSE /\ l.toFlush = 0
    BY <1>1, LogFields DEF Owing, LogOK
  <2>2. QED
    BY <1>5, <2>1 DEF PushGives, Owing, Less
<1>7. \A k \in 1 .. Len(l.ring) : /\ l.ring[k].at <= time /\ ~l.ring[k].moving /\ 0 < l.ring[k].at
                                  /\ ~l.ring[k].last /\ Follows(l.ring[k], x)
  <2>1. \A k \in 1 .. Len(l.ring) : /\ l.ring[k].at <= time /\ ~l.ring[k].moving /\ 0 < l.ring[k].at
                                    /\ ~l.ring[k].last
    BY <1>4 DEF Kept, RingOK, Owing
  <2>2. QED
    BY <1>2, <2>1 DEF Follows
<1>8. LogOK(p)
  BY <1>6 DEF LogOK
<1>9. RingOK(p, time)
  <2>1. ASSUME NEW i \in 1 .. Len(p.ring)
        PROVE  /\ p.ring[i].at <= time /\ ~p.ring[i].last /\ ~p.ring[i].moving /\ 0 < p.ring[i].at
    <3>1. time <= time
      BY <1>3
    <3>2. QED
      BY <1>2, <1>3, <1>5, <1>7, <3>1, PushedFrom
  <2>2. \A i, j \in 1 .. Len(p.ring) : i < j => Follows(p.ring[i], p.ring[j])
    BY <1>1, <1>5, <1>7, PushedFollows
  <2>3. QED
    BY <2>1, <2>2 DEF RingOK
<1>10. EventsOK(p, e, b, f)
  BY <1>1, <1>6 DEF EventsOK
<1>11. FileOK(p, b, time, f)
  <2>1. \A i \in 1 .. Len(f) : f[i].session < time
    <3>1. TAKE i \in 1 .. Len(f)
    <3>2. f[i].session \in Times /\ f[i].session <= c
      <4>1. f \in Seq(Entries) /\ f[i].session <= c
        BY <1>1 DEF FileOK
      <4>2. f[i] \in Entries
        BY <4>1, ElementOfSeq
      <4>3. QED
        BY <4>1, <4>2 DEF Entries
    <3>3. QED
      BY <1>3, <3>2, MaxTimeAssumption DEF Times
  <2>2. \A i \in 1 .. Len(f) : \A k \in 1 .. Len(p.ring) : f[i].session < p.ring[k].at
    <3>1. \A i \in 1 .. Len(f) : \A k \in 1 .. Len(l.ring) : f[i].session < l.ring[k].at
      BY <1>1 DEF FileOK
    <3>2. QED
      BY <1>2, <1>5, <2>1, <3>1, PushedFrom
  <2>3. FileOK(l, b, time, f)
    BY <1>4 DEF Kept
  <2>4. QED
    BY <1>6, <2>2, <2>3 DEF FileOK
<1>12. FixesOK(p, o, f)
  BY <1>1, <1>6 DEF FixesOK
<1>13. Kept(p, e, b, time, o, f)
  BY <1>8, <1>9, <1>10, <1>11, <1>12 DEF Kept
<1>14. QED
  BY <1>13 DEF p, x

\* The instant of a file's session is before the second that comes.
LEMMA SessionsBefore ==
  ASSUME NEW l, NEW b, NEW c, NEW f, FileOK(l, b, c, f), NEW time \in Times, time = c + 1
  PROVE  \A i \in 1 .. Len(f) : f[i].session < time
<1>1. c \in Nat
  BY MaxTimeAssumption DEF FileOK, Times
<1>2. TAKE i \in 1 .. Len(f)
<1>3. f \in Seq(Entries) /\ f[i].session <= c
  BY DEF FileOK
<1>4. f[i] \in Entries
  BY <1>3, ElementOfSeq
<1>5. f[i].session \in Nat
  BY <1>4, MaxTimeAssumption DEF Entries, Times
<1>6. QED
  BY <1>1, <1>3, <1>5

\* A flight that is running, or just opened, with the count of its events.
LEMMA RunningEventsOK ==
  ASSUME NEW l, Owing(l), NEW e, NEW b, NEW f \in Seq(Entries), Running(e, Events(f))
  PROVE  EventsOK(l, e, b, f)
<1>1. e \in EventLogs /\ Len(e.backlog) <= Backlog /\ Ending(e) = {}
      /\ e.raised = Events(f) + (Len(e.backlog) + e.dropped)
  BY DEF Running
<1>2. PendingEvents(e) = Len(e.backlog)
  <2>1. Cardinality(Ending(e)) = 0
    BY <1>1, FS_EmptySet
  <2>2. QED
    BY <1>1, <2>1, EventFields DEF PendingEvents
<1>3. e.raised = (Events(f) + PendingEvents(e)) + e.dropped
  BY <1>1, <1>2, FixesCount, EventFields
<1>4. QED
  BY <1>1, <1>3 DEF EventsOK

\* The events of an open flight, as a count.
LEMMA OpenIsRunning ==
  ASSUME NEW l, l.open, NEW e, NEW b, NEW f \in Seq(Entries), EventsOK(l, e, b, f)
  PROVE  Running(e, Events(f))
<1>1. e \in EventLogs /\ Len(e.backlog) <= Backlog /\ Ending(e) = {}
      /\ e.raised = (Events(f) + PendingEvents(e)) + e.dropped
  BY DEF EventsOK
<1>2. PendingEvents(e) = Len(e.backlog)
  <2>1. Cardinality(Ending(e)) = 0
    BY <1>1, FS_EmptySet
  <2>2. QED
    BY <1>1, <2>1, EventFields DEF PendingEvents
<1>3. e.raised = Events(f) + (Len(e.backlog) + e.dropped)
  BY <1>1, <1>2, FixesCount, EventFields
<1>4. QED
  BY <1>1, <1>3 DEF Running

\* Whatever the sky and the cell show, the events of a flight stay counted.
LEMMA WatchesAre ==
  ASSUME NEW k \in Nat, NEW e, Running(e, k), NEW due \in BOOLEAN, NEW q \in Watches(e, due)
  PROVE  Running(q, k)
<1>1. \E status \in {due, TRUE} : \E sights \in [Slots -> Sights] : q = Watched(e, status, sights)
  BY DEF Watches
<1>2. \A status \in {due, TRUE} : \A sights \in [Slots -> Sights] : Running(Watched(e, status, sights), k)
  BY WatchedIs
<1>3. QED
  BY <1>1, <1>2

\* A sample in flight, or the last one of a landing: what it says of the ring.
LEMMA FlownRing ==
  ASSUME NEW l, NEW e, NEW b, NEW c, NEW o, NEW f, Kept(l, e, b, c, o, f), l.open,
         NEW time \in Times, c <= time,
         NEW last \in BOOLEAN, NEW d, NEW p, PushGives(l, Sample(time, ~last, last), p, d)
  PROVE  /\ \A i \in 1 .. Len(p.ring) : p.ring[i].at <= time /\ (p.ring[i].last => last)
         /\ \A i, j \in 1 .. Len(p.ring) : i < j => Follows(p.ring[i], p.ring[j])
         /\ \A i \in 1 .. Len(f) : f[i].session = b /\ f[i].record.kind = "fix" =>
              ~f[i].record.last /\ \A k \in 1 .. Len(p.ring) : Follows(f[i].record, p.ring[k])
<1> DEFINE x == Sample(time, ~last, last)
<1>1. /\ LogOK(l) /\ l \in Logs /\ ~l.closing /\ Owing(l)
  BY DEF Kept, LogOK, Owing
<1>2. x \in FixRecords /\ x.at = time /\ x.moving = ~last /\ x.last = last
  BY SampleIs
<1>3. Kept(l, e, b, time, o, f)
  BY IdleKept
<1>4. time \in Nat /\ time <= time
  BY MaxTimeAssumption DEF Times
<1> HIDE DEF x
<1>5. RingOK(l, time) /\ FileOK(l, b, time, f)
  BY <1>3 DEF Kept
<1>6. \A k \in 1 .. Len(l.ring) : l.ring[k].at <= time /\ ~l.ring[k].last /\ Follows(l.ring[k], x)
  <2>1. \A k \in 1 .. Len(l.ring) : l.ring[k].at <= time /\ ~l.ring[k].last
    BY <1>1, <1>5 DEF RingOK
  <2>2. QED
    BY <1>2, <2>1 DEF Follows
<1>7. PushGives(l, x, p, d)
  BY DEF x
<1>8. \A i \in 1 .. Len(p.ring) : p.ring[i].at <= time /\ (p.ring[i].last => last)
  BY <1>2, <1>4, <1>6, <1>7, PushedFrom
<1>9. \A i, j \in 1 .. Len(p.ring) : i < j => Follows(p.ring[i], p.ring[j])
  BY <1>1, <1>5, <1>6, <1>7, PushedFollows
<1>10. ASSUME NEW i \in 1 .. Len(f), f[i].session = b, f[i].record.kind = "fix"
       PROVE  ~f[i].record.last /\ \A k \in 1 .. Len(p.ring) : Follows(f[i].record, p.ring[k])
  <2>1. /\ ~f[i].record.last /\ f[i].record.at <= time
        /\ \A k \in 1 .. Len(l.ring) : Follows(f[i].record, l.ring[k])
    BY <1>1, <1>5, <1>10 DEF FileOK
  <2>2. Follows(f[i].record, x)
    BY <1>2, <2>1 DEF Follows
  <2>3. QED
    BY <1>7, <2>1, <2>2, PushedFrom
<1>11. QED
  BY <1>8, <1>9, <1>10

\* A sample in flight.
LEMMA AppendKept ==
  ASSUME NEW l, NEW e, NEW b, NEW c, NEW o, NEW f, Kept(l, e, b, c, o, f),
         l.open, NEW time \in Times, c <= time, NEW q, Running(e, Events(f)) => Running(q, Events(f))
  PROVE  Kept(Push(l, Sample(time, TRUE, FALSE)), q, b, time, o + 1, f)
<1> DEFINE x == Sample(time, TRUE, FALSE)
           p == Push(l, x)
<1>1. /\ LogOK(l) /\ RingOK(l, c) /\ EventsOK(l, e, b, f) /\ FileOK(l, b, c, f) /\ FixesOK(l, o, f)
      /\ l \in Logs /\ Len(l.ring) <= Window /\ Len(l.ring) \in Nat /\ l.dropped \in Nat
      /\ f \in Seq(Entries)
  BY LogFields DEF Kept, LogOK, FileOK
<1>2. ~l.closing /\ l.closing = FALSE /\ Owing(l) /\ l.toFlush = 0
  BY <1>1, LogFields DEF LogOK, Owing
<1>3. x \in FixRecords
  BY SampleIs
<1>4. PICK d \in {0, 1} : PushGives(l, x, p, d)
  BY <1>1, <1>3, PushIs
<1> HIDE DEF p
<1>5. /\ p \in Logs /\ Len(p.ring) <= Window /\ p.open = l.open /\ p.closing = FALSE /\ p.toFlush = 0
      /\ Len(p.ring) = (Len(l.ring) + 1) - d /\ p.dropped = l.dropped + d /\ d <= Len(l.ring)
  <2>1. p.dropped = l.dropped + d
    BY <1>1, <1>2, <1>4 DEF PushGives
  <2>2. QED
    BY <1>2, <1>4, <2>1 DEF PushGives, Less
<1>6. p.open /\ Owing(p) /\ ~p.closing
  BY <1>5 DEF Owing
<1>7. /\ \A i \in 1 .. Len(p.ring) : p.ring[i].at <= time /\ ~p.ring[i].last
      /\ \A i, j \in 1 .. Len(p.ring) : i < j => Follows(p.ring[i], p.ring[j])
      /\ \A i \in 1 .. Len(f) : f[i].session = b /\ f[i].record.kind = "fix" =>
           ~f[i].record.last /\ \A k \in 1 .. Len(p.ring) : Follows(f[i].record, p.ring[k])
  <2>1. PushGives(l, Sample(time, ~FALSE, FALSE), p, d)
    BY <1>4
  <2>2. /\ \A i \in 1 .. Len(p.ring) : p.ring[i].at <= time /\ (p.ring[i].last => FALSE)
        /\ \A i, j \in 1 .. Len(p.ring) : i < j => Follows(p.ring[i], p.ring[j])
        /\ \A i \in 1 .. Len(f) : f[i].session = b /\ f[i].record.kind = "fix" =>
             ~f[i].record.last /\ \A k \in 1 .. Len(p.ring) : Follows(f[i].record, p.ring[k])
    BY <2>1, FlownRing
  <2>3. QED
    BY <2>2
<1>8. LogOK(p)
  BY <1>5 DEF LogOK
<1>9. RingOK(p, time)
  BY <1>6, <1>7 DEF RingOK
<1>10. EventsOK(p, q, b, f)
  BY <1>1, <1>6, OpenIsRunning, RunningEventsOK
<1>11. FileOK(p, b, time, f)
  <2>1. FileOK(l, b, time, f)
    BY IdleKept DEF Kept
  <2>2. QED
    BY <1>2, <1>6, <1>7, <2>1 DEF FileOK
<1>12. FixesOK(p, o + 1, f)
  <2>1. o \in Nat /\ o = (Fixes(f) + Len(l.ring)) + l.dropped /\ Fixes(f) \in Nat
    BY <1>1, <1>2, FixesCount DEF FixesOK, PendingFixes
  <2>2. PendingFixes(p) = (Len(l.ring) + 1) - d
    BY <1>5, <1>6 DEF PendingFixes
  <2>3. \A x1, x2, x3 \in Nat : \A y \in {0, 1} : ((x1 + x2) + x3) + 1 = (x1 + ((x2 + 1) - y)) + (x3 + y)
    OBVIOUS
  <2>4. o + 1 = (Fixes(f) + ((Len(l.ring) + 1) - d)) + (l.dropped + d)
    BY <1>1, <2>1, <2>3
  <2>5. o + 1 \in Nat
    BY <2>1
  <2>6. QED
    BY <1>5, <1>6, <2>2, <2>4, <2>5 DEF FixesOK
<1>13. Kept(p, q, b, time, o + 1, f)
  BY <1>8, <1>9, <1>10, <1>11, <1>12 DEF Kept
<1>14. QED
  BY <1>13 DEF p, x

\* A takeoff: the ring becomes the start of a file, named by its oldest second.
LEMMA OpenKept ==
  ASSUME NEW l, NEW e, NEW c, NEW o, NEW f, Kept(l, e, base, c, o, f),
         ~Owing(l), NEW time \in Times, time = c + 1, NEW q \in Watches(EventsOpen(e), TRUE)
  PROVE  LET p == TakenOff(l, time)
         IN Kept(p, q, p.session, time, o + Len(p.ring), f)
<1> DEFINE x == Sample(time, TRUE, FALSE)
           s == Push(l, x)
           p == TakenOff(l, time)
<1>1. /\ LogOK(l) /\ RingOK(l, c) /\ EventsOK(l, e, base, f) /\ FileOK(l, base, c, f) /\ FixesOK(l, o, f)
      /\ l \in Logs /\ Len(l.ring) <= Window /\ Len(l.ring) \in Nat /\ l.dropped \in Nat
      /\ f \in Seq(Entries)
  BY LogFields DEF Kept, LogOK, FileOK
<1>2. l.open = FALSE /\ l.closing = FALSE /\ l.toFlush = 0
  BY <1>1, LogFields DEF LogOK, Owing
<1>3. x \in FixRecords /\ x.at = time /\ x.moving /\ ~x.last
  BY SampleIs
<1>4. PICK d \in {0, 1} : PushGives(l, x, s, d)
  BY <1>1, <1>3, PushIs
<1>5. c \in Nat /\ c < time /\ time \in Nat /\ 0 < time /\ c <= time
  BY <1>1, MaxTimeAssumption DEF FileOK, Times
<1>6. Kept(l, e, base, time, o, f)
  BY <1>5, IdleKept
<1>7. /\ s \in Logs /\ Len(s.ring) <= Window /\ s.open = FALSE /\ s.closing = FALSE /\ s.toFlush = 0
      /\ Len(s.ring) = (Len(l.ring) + 1) - d /\ s.dropped = l.dropped /\ d <= Len(l.ring)
      /\ Len(s.ring) \in Nat /\ Len(s.ring) >= 1
  <2> HIDE DEF s
  <2>1. s.dropped = l.dropped /\ s.toFlush = 0
    BY <1>2, <1>4 DEF PushGives, Owing, Less
  <2>2. /\ s \in Logs /\ Len(s.ring) <= Window /\ s.open = FALSE /\ s.closing = FALSE
        /\ Len(s.ring) = (Len(l.ring) + 1) - d /\ d <= Len(l.ring)
    BY <1>2, <1>4 DEF PushGives
  <2>3. Len(s.ring) \in Nat /\ Len(s.ring) >= 1
    BY <1>1, <2>2
  <2>4. QED
    BY <2>1, <2>2, <2>3
<1>8. p = [s EXCEPT !.session = Head(s.ring).at, !.open = TRUE, !.closing = FALSE]
  BY DEF TakenOff
<1> HIDE DEF s, x, p
<1>9. Head(s.ring) = s.ring[1] /\ 1 \in 1 .. Len(s.ring) /\ s.ring[1] \in FixRecords
  BY <1>7, LogFields
<1>10. p = [ring |-> s.ring, toFlush |-> s.toFlush, dropped |-> s.dropped,
            session |-> s.ring[1].at, open |-> TRUE, closing |-> FALSE]
  <2>1. s = [ring |-> s.ring, toFlush |-> s.toFlush, dropped |-> s.dropped,
             session |-> s.session, open |-> s.open, closing |-> s.closing]
    BY <1>7 DEF Logs
  <2>2. QED
    BY <1>8, <1>9, <2>1
<1>11. p \in Logs
  BY <1>7, <1>9, <1>10, LogFields, FixFields DEF Logs
<1>12. /\ p.ring = s.ring /\ p.toFlush = 0 /\ p.dropped = l.dropped /\ p.session = s.ring[1].at
       /\ p.open = TRUE /\ p.closing = FALSE
  BY <1>7, <1>10
<1>13. p.open /\ Owing(p) /\ ~p.closing
  BY <1>12 DEF Owing
<1>14. \A k \in 1 .. Len(l.ring) : /\ l.ring[k].at <= time /\ 0 < l.ring[k].at /\ ~l.ring[k].last
                                   /\ Follows(l.ring[k], x)
  <2>1. \A k \in 1 .. Len(l.ring) : /\ l.ring[k].at <= time /\ ~l.ring[k].moving /\ 0 < l.ring[k].at
                                    /\ ~l.ring[k].last
    BY <1>6 DEF Kept, RingOK, Owing
  <2>2. QED
    BY <1>3, <2>1 DEF Follows
<1>15. \A i \in 1 .. Len(s.ring) : s.ring[i].at <= time /\ 0 < s.ring[i].at /\ ~s.ring[i].last
  <2>1. time <= time
    BY <1>5
  <2>2. QED
    BY <1>3, <1>4, <1>5, <1>14, <2>1, PushedFrom
<1>16. \A i, j \in 1 .. Len(s.ring) : i < j => Follows(s.ring[i], s.ring[j])
  BY <1>1, <1>4, <1>14, PushedFollows
<1>17. LogOK(p)
  BY <1>7, <1>11, <1>12 DEF LogOK
<1>18. RingOK(p, time)
  BY <1>12, <1>13, <1>15, <1>16 DEF RingOK
<1>19. EventsOK(p, q, p.session, f)
  <2>1. Counted(e, Events(f)) /\ Events(f) \in Nat /\ (base # 0 => PendingEvents(e) = 0)
    BY <1>1, FixesCount DEF EventsOK, Counted
  <2>2. Running(EventsOpen(e), Events(f))
    BY <2>1, EventsOpenIs
  <2>3. Running(q, Events(f))
    BY <2>1, <2>2, WatchesAre
  <2>4. QED
    BY <1>1, <1>13, <2>3, RunningEventsOK
<1>20. FileOK(p, p.session, time, f)
  <2>1. FileOK(l, base, time, f) /\ p.session \in Times /\ p.session <= time /\ p.session # 0
    BY <1>6, <1>9, <1>12, <1>15, FixFields DEF Kept
  <2>2. \A i \in 1 .. Len(f) : f[i].session < p.session
    <3>1. \A i \in 1 .. Len(f) : f[i].session < x.at
      BY <1>1, <1>3, SessionsBefore
    <3>2. \A i \in 1 .. Len(f) : \A k \in 1 .. Len(l.ring) : f[i].session < l.ring[k].at
      BY <1>1 DEF FileOK
    <3>3. s.ring[1] = x \/ \E k \in 1 .. Len(l.ring) : s.ring[1] = l.ring[k]
      BY <1>4, <1>9, PushedFrom
    <3>4. QED
      BY <1>12, <3>1, <3>2, <3>3
  <2>3. \A i \in 1 .. Len(f) : f[i].session # p.session
    <3>1. \A i \in 1 .. Len(f) : f[i].session \in Nat
      <4>1. TAKE i \in 1 .. Len(f)
      <4>2. f[i] \in Entries
        BY <1>1, ElementOfSeq
      <4>3. QED
        BY <4>2, MaxTimeAssumption DEF Entries, Times
    <3>2. p.session \in Nat
      BY <2>1, MaxTimeAssumption DEF Times
    <3>3. QED
      BY <2>2, <3>1, <3>2
  <2>4. QED
    BY <1>13, <2>1, <2>3 DEF FileOK
<1>21. FixesOK(p, o + Len(p.ring), f)
  <2>1. o \in Nat /\ o = (Fixes(f) + 0) + l.dropped /\ Fixes(f) \in Nat
    BY <1>1, FixesCount DEF FixesOK
  <2>2. PendingFixes(p) = Len(p.ring) /\ Len(p.ring) \in Nat
    BY <1>7, <1>12, <1>13 DEF PendingFixes
  <2>3. o + Len(p.ring) = (Fixes(f) + Len(p.ring)) + l.dropped /\ o + Len(p.ring) \in Nat
    BY <1>1, <2>1, <2>2
  <2>4. QED
    BY <1>12, <1>13, <2>2, <2>3 DEF FixesOK
<1>22. Kept(p, q, p.session, time, o + Len(p.ring), f)
  BY <1>17, <1>18, <1>19, <1>20, <1>21 DEF Kept
<1>23. QED
  BY <1>22 DEF p

\* A landing: what waits in the ring is owed to its last fix.
LEMMA CloseKept ==
  ASSUME NEW l, NEW e, NEW b, NEW c, NEW o, NEW f, Kept(l, e, b, c, o, f),
         l.open, NEW time \in Times, c <= time, NEW usable \in BOOLEAN
  PROVE  Kept(Landed(l, usable, time), EventsClose(e), b, time, o + (IF usable THEN 1 ELSE 0), f)
<1> DEFINE x == Sample(time, FALSE, TRUE)
           s == IF usable THEN Push(l, x) ELSE l
           p == Landed(l, usable, time)
           more == IF usable THEN 1 ELSE 0
           Read(v) == /\ \A i \in 1 .. Len(v.ring) : v.ring[i].at <= time
                      /\ \A i, j \in 1 .. Len(v.ring) : i < j => Follows(v.ring[i], v.ring[j])
                      /\ \A i \in 1 .. Len(f) : f[i].session = b /\ f[i].record.kind = "fix" =>
                           ~f[i].record.last /\ \A k \in 1 .. Len(v.ring) : Follows(f[i].record, v.ring[k])
<1>1. /\ LogOK(l) /\ RingOK(l, c) /\ EventsOK(l, e, b, f) /\ FileOK(l, b, c, f) /\ FixesOK(l, o, f)
      /\ l \in Logs /\ Len(l.ring) <= Window /\ Len(l.ring) \in Nat /\ l.dropped \in Nat
      /\ f \in Seq(Entries) /\ Window \in Nat
  BY LogFields, WindowAssumption DEF Kept, LogOK, FileOK
<1>2. ~l.closing /\ l.closing = FALSE /\ Owing(l) /\ l.toFlush = 0
  BY <1>1, LogFields DEF LogOK, Owing
<1>3. Kept(l, e, b, time, o, f)
  BY IdleKept
<1>4. RingOK(l, time) /\ FileOK(l, b, time, f)
  BY <1>3 DEF Kept
<1>5. o \in Nat /\ o = (Fixes(f) + Len(l.ring)) + l.dropped /\ Fixes(f) \in Nat
  BY <1>1, <1>2, FixesCount DEF FixesOK, PendingFixes
<1>6. /\ s \in Logs /\ Len(s.ring) <= Window /\ Len(s.ring) \in Nat /\ s.dropped \in Nat
      /\ s.open = l.open /\ Read(s)
      /\ o + more = (Fixes(f) + Len(s.ring)) + s.dropped /\ o + more \in Nat
  <2>1. CASE usable
    <3>1. x \in FixRecords
      BY SampleIs
    <3>2. s = Push(l, x) /\ more = 1
      BY <2>1
    <3>3. PICK d \in {0, 1} : PushGives(l, x, s, d)
      BY <1>1, <3>1, <3>2, PushIs
    <3>4. PushGives(l, Sample(time, ~TRUE, TRUE), s, d)
      BY <3>3
    <3> HIDE DEF s, x, more
    <3>5. /\ s \in Logs /\ Len(s.ring) <= Window /\ s.open = l.open
          /\ Len(s.ring) = (Len(l.ring) + 1) - d /\ d <= Len(l.ring) /\ s.dropped = l.dropped + d
      <4>1. s.dropped = l.dropped + d
        BY <1>1, <1>2, <3>3 DEF PushGives
      <4>2. QED
        BY <3>3, <4>1 DEF PushGives
    <3>6. Len(s.ring) \in Nat /\ s.dropped \in Nat
      BY <1>1, <3>5
    <3>7. Read(s)
      BY <3>4, FlownRing
    <3>8. o + more = (Fixes(f) + Len(s.ring)) + s.dropped /\ o + more \in Nat
      <4>1. \A x1, x2, x3 \in Nat : \A y \in {0, 1} : ((x1 + x2) + x3) + 1 = (x1 + ((x2 + 1) - y)) + (x3 + y)
        OBVIOUS
      <4>2. o + 1 = (Fixes(f) + ((Len(l.ring) + 1) - d)) + (l.dropped + d)
        BY <1>1, <1>5, <4>1
      <4>3. o + 1 \in Nat
        BY <1>5
      <4>4. QED
        BY <3>2, <3>5, <4>2, <4>3
    <3>9. QED
      BY <3>5, <3>6, <3>7, <3>8
  <2>2. CASE ~usable
    <3>1. s = l /\ more = 0
      BY <2>2
    <3> HIDE DEF s, x, more
    <3>2. Read(l)
      BY <1>2, <1>4 DEF RingOK, FileOK
    <3>3. o + more = (Fixes(f) + Len(l.ring)) + l.dropped /\ o + more \in Nat
      BY <1>5, <3>1
    <3>4. QED
      BY <1>1, <3>1, <3>2, <3>3
  <2>3. QED
    BY <2>1, <2>2
<1>7. p = [s EXCEPT !.open = FALSE, !.closing = TRUE, !.toFlush = Len(s.ring)]
  BY DEF Landed
<1> HIDE DEF s, x, p, more, Read
<1>8. p = [ring |-> s.ring, toFlush |-> Len(s.ring), dropped |-> s.dropped,
           session |-> s.session, open |-> FALSE, closing |-> TRUE]
  <2>1. s = [ring |-> s.ring, toFlush |-> s.toFlush, dropped |-> s.dropped,
             session |-> s.session, open |-> s.open, closing |-> s.closing]
    BY <1>6 DEF Logs
  <2>2. QED
    BY <1>7, <2>1
<1>9. Len(s.ring) \in 0 .. Window
  BY <1>1, <1>6
<1>10. p \in Logs
  BY <1>6, <1>8, <1>9, LogFields DEF Logs
<1>11. p.ring = s.ring /\ p.toFlush = Len(s.ring) /\ p.dropped = s.dropped /\ p.open = FALSE /\ p.closing = TRUE
  BY <1>8
<1>12. ~p.open /\ p.closing /\ Owing(p)
  BY <1>11 DEF Owing
<1>13. LogOK(p)
  BY <1>6, <1>10, <1>11 DEF LogOK
<1>14. RingOK(p, time)
  BY <1>6, <1>11, <1>12 DEF RingOK, Read
<1>15. EventsOK(p, EventsClose(e), b, f)
  <2>1. Running(e, Events(f)) /\ Events(f) \in Nat
    BY <1>1, OpenIsRunning, FixesCount
  <2>2. Counted(EventsClose(e), Events(f))
    BY <2>1, EventsCloseIs
  <2>3. QED
    BY <1>12, <2>2 DEF EventsOK, Counted
<1>16. FileOK(p, b, time, f)
  BY <1>2, <1>4, <1>6, <1>11, <1>12 DEF FileOK, Read
<1>17. FixesOK(p, o + more, f)
  BY <1>6, <1>11, <1>12 DEF FixesOK, PendingFixes
<1>18. Kept(p, EventsClose(e), b, time, o + more, f)
  BY <1>13, <1>14, <1>15, <1>16, <1>17 DEF Kept
<1>19. QED
  BY <1>18 DEF p, more

-----------------------------------------------------------------------------
(* The steps.                                                              *)

\* A pass: what the update makes of the second, then what the store takes.
LEMMA PassKept ==
  ASSUME FlightInv, NEW flying \in BOOLEAN, NEW usable \in BOOLEAN, NEW due \in BOOLEAN,
         NEW least \in Nat, Pass(flying, usable, due, least)
  PROVE  FlightInv'
<1> DEFINE time == IF due THEN clock + 1 ELSE clock
           action == Action(log, flying, usable /\ due)
           l == Updated(log, action, usable, time)
           more == OwedBy(log, action, usable, time)
           seen == CASE action = "open" -> Watches(EventsOpen(events), TRUE)
                     [] action = "append" -> Watches(events, FALSE)
                     [] action = "close" -> {EventsClose(events)}
                     [] action \in {"idle", "park"} -> {events}
<1>1. /\ time \in Times /\ clock' = time /\ erasing' = erasing
      /\ base' = (IF action = "open" THEN l.session ELSE base) /\ owed' = owed + more
  BY DEF Pass
<1>2. PICK e \in seen : \E taken \in Lesser(least, Pending(l, e)) .. Pending(l, e) :
          LET n == EventsTaken(l, e, taken)
          IN /\ file' = file \o Written(l, e, base', taken)
             /\ log' = [FixesDrained(l, taken - n) EXCEPT !.closing = Closing(l, e, taken)]
             /\ events' = EventsDrained(e, n)
  BY DEF Pass
<1>3. Kept(log, events, base, clock, owed, file) /\ erasing \in BOOLEAN
  BY DEF FlightInv
<1>4. clock \in Nat /\ clock <= time /\ (due => time = clock + 1)
  <2>1. clock \in Nat
    BY <1>3, MaxTimeAssumption DEF Kept, FileOK, Times
  <2>2. QED
    BY <2>1
<1>5. /\ log.open \in BOOLEAN /\ log.closing \in BOOLEAN
      /\ Owing(log) <=> log.open \/ log.closing
  BY <1>3, LogFields DEF Kept, LogOK, Owing
<1>6. /\ action = "close" => log.open
      /\ action = "append" => log.open
      /\ action = "open" => ~Owing(log) /\ due
      /\ action = "park" => ~Owing(log) /\ due
      /\ action \in {"close", "idle", "append", "open", "park"}
  BY <1>5 DEF Action
<1> HIDE DEF time
<1>7. Kept(l, e, base', time, owed', file)
  <2>1. CASE action = "close"
    <3>1. l = Landed(log, usable, time) /\ more = (IF usable THEN 1 ELSE 0) /\ e = EventsClose(events) /\ base' = base
      BY <1>1, <1>2, <2>1 DEF Updated, OwedBy
    <3>2. QED
      BY <1>1, <1>3, <1>4, <1>6, <2>1, <3>1, CloseKept
  <2>2. CASE action = "idle"
    <3>1. l = log /\ more = 0 /\ e = events /\ base' = base
      BY <1>1, <1>2, <2>2 DEF Updated, OwedBy
    <3>2. owed' = owed
      BY <1>1, <1>3, <3>1 DEF Kept, FixesOK
    <3>3. QED
      BY <1>1, <1>3, <1>4, <3>1, <3>2, IdleKept
  <2>3. CASE action = "park"
    <3>1. l = Push(log, Sample(time, FALSE, FALSE)) /\ more = 0 /\ e = events /\ base' = base
      BY <1>1, <1>2, <2>3 DEF Updated, OwedBy
    <3>2. owed' = owed
      BY <1>1, <1>3, <3>1 DEF Kept, FixesOK
    <3>3. QED
      BY <1>1, <1>3, <1>4, <1>6, <2>3, <3>1, <3>2, ParkKept
  <2>4. CASE action = "open"
    <3>1. l = TakenOff(log, time) /\ more = Len(TakenOff(log, time).ring) /\ base' = l.session
      BY <1>1, <2>4 DEF Updated, OwedBy
    <3>2. e \in Watches(EventsOpen(events), TRUE)
      BY <1>2, <2>4
    <3>3. QED
      BY <1>1, <1>3, <1>4, <1>6, <2>4, <3>1, <3>2, OpenKept
  <2>5. CASE action = "append"
    <3>1. l = Push(log, Sample(time, TRUE, FALSE)) /\ more = 1 /\ base' = base
      BY <1>1, <2>5 DEF Updated, OwedBy
    <3>2. e \in Watches(events, FALSE)
      BY <1>2, <2>5
    <3>3. Events(file) \in Nat
      BY <1>3, FixesCount DEF Kept, FileOK
    <3>4. Running(events, Events(file)) => Running(e, Events(file))
      BY <3>2, <3>3, WatchesAre
    <3>5. QED
      BY <1>1, <1>3, <1>4, <1>6, <2>5, <3>1, <3>4, AppendKept
  <2>6. QED
    BY <1>6, <2>1, <2>2, <2>3, <2>4, <2>5
<1> HIDE DEF l, more, seen, action
<1>8. PICK taken \in Lesser(least, Pending(l, e)) .. Pending(l, e) :
          LET n == EventsTaken(l, e, taken)
          IN /\ file' = file \o Written(l, e, base', taken)
             /\ log' = [FixesDrained(l, taken - n) EXCEPT !.closing = Closing(l, e, taken)]
             /\ events' = EventsDrained(e, n)
  BY <1>2
<1>9. taken \in 0 .. Pending(l, e)
  <2>1. Pending(l, e) \in Nat
    BY <1>7, PendingIs DEF Kept, EventsOK
  <2>2. Lesser(least, Pending(l, e)) \in Nat
    BY <2>1, LesserIs
  <2>3. QED
    BY <2>1, <2>2
<1>10. Kept([FixesDrained(l, taken - EventsTaken(l, e, taken)) EXCEPT !.closing = Closing(l, e, taken)],
            EventsDrained(e, EventsTaken(l, e, taken)), base', time, owed', file \o Written(l, e, base', taken))
  BY <1>7, <1>9, DrainKept
<1>11. Kept(log', events', base', clock', owed', file')
  BY <1>1, <1>8, <1>10
<1>12. QED
  BY <1>1, <1>3, <1>11 DEF FlightInv

\* A session that is new, whatever an earlier one left in the file.
LEMMA NewKept ==
  ASSUME NEW l, NEW k \in Nat, l = [NewLog EXCEPT !.dropped = k], NEW e, NEW c, NEW o, NEW f,
         FileOK(l, 0, c, f), Counted(e, Events(f)), o \in Nat, o = Fixes(f) + k
  PROVE  Kept(l, e, 0, c, o, f)
<1>1. l = [ring |-> <<>>, toFlush |-> 0, dropped |-> k, session |-> 0, open |-> FALSE, closing |-> FALSE]
  BY DEF NewLog
<1>2. <<>> \in Seq(FixRecords) /\ Len(<<>>) = 0
  BY EmptySeq
<1>3. 0 \in Times /\ 0 \in 0 .. Window /\ 0 <= Window
  BY MaxTimeAssumption, WindowAssumption DEF Times
<1>4. l \in Logs
  <2>1. \A r \in Seq(FixRecords), t \in Times, i \in 0 .. Window :
          [ring |-> r, toFlush |-> i, dropped |-> k, session |-> t, open |-> FALSE, closing |-> FALSE] \in Logs
    BY DEF Logs
  <2>2. QED
    BY <1>1, <1>2, <1>3, <2>1
<1>5. l.ring = <<>> /\ l.toFlush = 0 /\ l.dropped = k /\ l.open = FALSE /\ l.closing = FALSE
  BY <1>1
<1>6. ~Owing(l) /\ Len(l.ring) = 0
  BY <1>2, <1>5 DEF Owing
<1>7. LogOK(l)
  BY <1>3, <1>4, <1>5, <1>6 DEF LogOK
<1>8. RingOK(l, c)
  BY <1>6 DEF RingOK
<1>9. EventsOK(l, e, 0, f)
  BY <1>5 DEF EventsOK, Counted
<1>10. FixesOK(l, o, f)
  <2>1. Fixes(f) \in Nat
    BY FixesCount DEF FileOK
  <2>2. o = (Fixes(f) + 0) + k
    BY <2>1
  <2>3. QED
    BY <1>5, <1>6, <2>2 DEF FixesOK
<1>11. QED
  BY <1>7, <1>8, <1>9, <1>10 DEF Kept

\* The file of a session that is new holds what was written, or nothing.
LEMMA FileLeft ==
  ASSUME NEW l, l.open = FALSE, l.closing = FALSE, Len(l.ring) = 0,
         NEW m, NEW b, NEW c, NEW f, FileOK(m, b, c, f)
  PROVE  FileOK(l, 0, c, f)
<1>1. ~Owing(l) /\ 0 \in Times
  BY MaxTimeAssumption DEF Owing, Times
<1>2. c \in Times /\ 0 <= c
  BY MaxTimeAssumption DEF FileOK, Times
<1>3. \A k \in 1 .. Len(l.ring) : FALSE
  OBVIOUS
<1>4. QED
  BY <1>1, <1>2, <1>3 DEF FileOK

\* An erased file says nothing of a new session.
LEMMA FileEmpty ==
  ASSUME NEW l, l.open = FALSE, l.closing = FALSE, NEW c \in Times
  PROVE  FileOK(l, 0, c, <<>>)
<1>1. ~Owing(l) /\ 0 \in Times /\ 0 <= c
  BY MaxTimeAssumption DEF Owing, Times
<1>2. <<>> \in Seq(Entries) /\ Len(<<>>) = 0
  BY EmptySeq
<1>3. \A i \in 1 .. Len(<<>>) : FALSE
  BY <1>2
<1>4. QED
  BY <1>1, <1>2, <1>3 DEF FileOK

\* Events of which k are in the file, and none waits.
LEMMA NewCounted ==
  ASSUME NEW k \in Nat
  PROVE  Counted([NewEvents EXCEPT !.raised = k], k)
<1> DEFINE none == [s \in Slots |-> "none"]
           p == [NewEvents EXCEPT !.raised = k]
<1>1. NewEvents = [backlog |-> <<>>, track |-> none, dropped |-> 0, open |-> FALSE, raised |-> 0]
  BY DEF NewEvents
<1>2. none \in Tracks /\ \A s \in Slots : none[s] # "ending"
  BY DEF Tracks
<1>3. <<>> \in Seq(EventRecords) /\ Len(<<>>) = 0
  BY EmptySeq
<1>12. p = [NewEvents EXCEPT !.raised = k]
  OBVIOUS
<1> HIDE DEF none, p
<1>4. p = [backlog |-> <<>>, track |-> none, dropped |-> 0, open |-> FALSE, raised |-> k]
  BY <1>1, <1>12
<1>5. p \in EventLogs
  <2>1. \A r \in Seq(EventRecords), t \in Tracks :
          [backlog |-> r, track |-> t, dropped |-> 0, open |-> FALSE, raised |-> k] \in EventLogs
    BY DEF EventLogs
  <2>2. QED
    BY <1>2, <1>3, <1>4, <2>1
<1>6. p.backlog = <<>> /\ p.dropped = 0 /\ p.raised = k /\ p.track = none
  BY <1>4
<1>7. Ending(p) = {}
  BY <1>2, <1>6 DEF Ending
<1>8. PendingEvents(p) = 0
  BY <1>3, <1>6, <1>7, FS_EmptySet DEF PendingEvents
<1>9. Len(p.backlog) <= Backlog /\ p.raised = (k + PendingEvents(p)) + p.dropped
  BY <1>3, <1>6, <1>8, BacklogAssumption
<1>10. Counted(p, k)
  BY <1>5, <1>9 DEF Counted
<1>11. QED
  BY <1>10 DEF p

\* A boot with an empty store.
LEMMA FlightInvInit == FlightInit => FlightInv
<1> SUFFICES ASSUME FlightInit PROVE FlightInv
  OBVIOUS
<1>1. log = [NewLog EXCEPT !.dropped = 0] /\ log.open = FALSE /\ log.closing = FALSE
  BY DEF FlightInit, NewLog
<1>2. FileOK(log, 0, 0, <<>>)
  <2>1. 0 \in Times
    BY MaxTimeAssumption DEF Times
  <2>2. QED
    BY <1>1, <2>1, FileEmpty
<1>3. Fixes(<<>>) = 0 /\ Events(<<>>) = 0
  BY FixesNone
<1>4. Counted(NewEvents, 0)
  <2>1. [NewEvents EXCEPT !.raised = 0] = NewEvents
    <3> DEFINE none == [s \in Slots |-> "none"]
    <3>1. NewEvents = [backlog |-> <<>>, track |-> none, dropped |-> 0, open |-> FALSE, raised |-> 0]
      BY DEF NewEvents
    <3> HIDE DEF none
    <3> DEFINE p == [NewEvents EXCEPT !.raised = 0]
    <3>2. p = [NewEvents EXCEPT !.raised = 0]
      OBVIOUS
    <3> HIDE DEF p
    <3>3. p = [backlog |-> <<>>, track |-> none, dropped |-> 0, open |-> FALSE, raised |-> 0]
      BY <3>1, <3>2
    <3>4. p = NewEvents
      BY <3>1, <3>3
    <3>5. QED
      BY <3>4 DEF p
  <2>2. QED
    BY <2>1, NewCounted
<1>5. Kept(log, NewEvents, 0, 0, 0, <<>>)
  <2>1. 0 = Fixes(<<>>) + 0
    BY <1>3
  <2>2. QED
    BY <1>1, <1>2, <1>3, <1>4, <2>1, NewKept
<1>6. QED
  BY <1>5 DEF FlightInit, FlightInv

\* A reset forgets what is in RAM, and the file keeps what was written.
LEMMA PowerCutKept == ASSUME FlightInv, PowerCut PROVE FlightInv'
<1>1. Kept(log, events, base, clock, owed, file) /\ erasing \in BOOLEAN
  BY DEF FlightInv
<1>2. /\ log' = NewLog /\ events' = [NewEvents EXCEPT !.raised = Events(file)] /\ base' = 0
      /\ owed' = Fixes(file) /\ erasing' = erasing /\ file' = file /\ clock' = clock
  BY DEF PowerCut
<1>3. NewLog = [NewLog EXCEPT !.dropped = 0] /\ NewLog.open = FALSE /\ NewLog.closing = FALSE
      /\ Len(NewLog.ring) = 0
  BY EmptySeq DEF NewLog
<1>4. Fixes(file) \in Nat /\ Events(file) \in Nat /\ FileOK(log, base, clock, file)
  BY <1>1, FixesCount DEF Kept, FileOK
<1>5. FileOK(NewLog, 0, clock, file)
  BY <1>3, <1>4, FileLeft
<1>6. Counted([NewEvents EXCEPT !.raised = Events(file)], Events(file))
  BY <1>4, NewCounted
<1>7. Fixes(file) = Fixes(file) + 0
  BY <1>4
<1>8. Kept(NewLog, [NewEvents EXCEPT !.raised = Events(file)], 0, clock, Fixes(file), file)
  <2> DEFINE q == [NewEvents EXCEPT !.raised = Events(file)]
             o == Fixes(file)
  <2>1. Counted(q, Events(file)) /\ o \in Nat /\ o = Fixes(file) + 0 /\ 0 \in Nat
    BY <1>4, <1>6, <1>7
  <2> HIDE DEF q, o
  <2>2. Kept(NewLog, q, 0, clock, o, file)
    BY <1>3, <1>5, <2>1, NewKept
  <2>3. QED
    BY <2>2 DEF q, o
<1>9. QED
  BY <1>1, <1>2, <1>8 DEF FlightInv

\* An erase that ends takes the file, and owes what was dropped.
LEMMA ErasePassKept == ASSUME FlightInv, NEW ends \in BOOLEAN, ErasePass(ends) PROVE FlightInv'
<1>1. Kept(log, events, base, clock, owed, file)
  BY DEF FlightInv
<1>2. CASE ~ends
  <2>1. UNCHANGED <<log, events, base, file, owed, clock>> /\ erasing' \in BOOLEAN
    BY <1>2 DEF ErasePass
  <2>2. QED
    BY <1>1, <2>1 DEF FlightInv
<1>3. CASE ends
  <2> DEFINE p == [NewLog EXCEPT !.dropped = log.dropped]
             q == [events EXCEPT !.raised = PendingEvents(events) + events.dropped]
  <2>1. /\ log' = p /\ events' = q /\ base' = 0 /\ file' = <<>> /\ owed' = log.dropped
        /\ clock' = clock /\ erasing' \in BOOLEAN
    BY <1>3 DEF ErasePass
  <2>2. log.dropped \in Nat /\ events \in EventLogs /\ Len(events.backlog) <= Backlog /\ clock \in Times
    BY <1>1, LogFields DEF Kept, LogOK, EventsOK, FileOK
  <2>3. p.open = FALSE /\ p.closing = FALSE
    BY DEF NewLog
  <2>4. Fixes(<<>>) = 0 /\ Events(<<>>) = 0
    BY FixesNone
  <2>5. FileOK(p, 0, clock, <<>>)
    BY <2>2, <2>3, FileEmpty
  <2>6. Counted(q, 0)
    <3>1. PendingEvents(events) \in Nat /\ events.dropped \in Nat
      BY <2>2, PendingEventsIs, EventFields
    <3>2. q = [backlog |-> events.backlog, track |-> events.track, dropped |-> events.dropped,
               open |-> events.open, raised |-> PendingEvents(events) + events.dropped]
      BY <2>2 DEF EventLogs
    <3>3. q \in EventLogs
      BY <2>2, <3>1, <3>2, EventFields DEF EventLogs
    <3>4. /\ q.backlog = events.backlog /\ q.track = events.track /\ q.dropped = events.dropped
          /\ q.raised = PendingEvents(events) + events.dropped
      BY <3>2
    <3> HIDE DEF q
    <3>5. PendingEvents(q) = PendingEvents(events)
      BY <3>4 DEF PendingEvents, Ending
    <3>6. q.raised = (0 + PendingEvents(q)) + q.dropped
      BY <3>1, <3>4, <3>5
    <3>7. QED
      BY <2>2, <3>3, <3>4, <3>6 DEF Counted
  <2>7. log.dropped = Fixes(<<>>) + log.dropped
    BY <2>2, <2>4
  <2> HIDE DEF q
  <2>8. Kept(p, q, 0, clock, log.dropped, <<>>)
    BY <2>2, <2>4, <2>5, <2>6, <2>7, NewKept
  <2>9. QED
    BY <2>1, <2>8 DEF FlightInv
<1>4. QED
  BY <1>2, <1>3

\* Every step keeps the invariant.
LEMMA FlightStepKept == ASSUME FlightInv, [FlightNext]_flightVars PROVE FlightInv'
<1>1. CASE AnyPass(0)
  BY <1>1, PassKept DEF AnyPass
<1>2. CASE \E ends \in BOOLEAN : ErasePass(ends)
  BY <1>2, ErasePassKept
<1>3. CASE PowerCut
  BY <1>3, PowerCutKept
<1>4. CASE UNCHANGED flightVars
  BY <1>4 DEF flightVars, deviceVars, FlightInv
<1>5. QED
  BY <1>1, <1>2, <1>3, <1>4 DEF FlightNext

\* So it holds in every behaviour.
LEMMA FlightInvAlways == FlightSpec => []FlightInv
<1>1. FlightInit => FlightInv
  BY FlightInvInit
<1>2. FlightInv /\ [FlightNext]_flightVars => FlightInv'
  BY FlightStepKept
<1>3. QED
  BY <1>1, <1>2, PTL DEF FlightSpec

-----------------------------------------------------------------------------
(* What the log promises.                                                  *)

\* The fields stay in range: the ring, the backlog and the counters of the flight
\* log hold what the code's arrays and counters can hold.
THEOREM FlightTypeCorrect == FlightSpec => []FlightTypeOK
<1>1. FlightInv => FlightTypeOK
  <2> SUFFICES ASSUME FlightInv PROVE FlightTypeOK
    OBVIOUS
  <2>1. Kept(log, events, base, clock, owed, file) /\ erasing \in BOOLEAN
    BY DEF FlightInv
  <2>2. log \in Logs /\ Len(log.ring) <= Window
    BY <2>1 DEF Kept, LogOK
  <2>3. events \in EventLogs /\ Len(events.backlog) <= Backlog
    BY <2>1 DEF Kept, EventsOK
  <2>4. base \in Times /\ clock \in Times /\ owed \in Nat /\ file \in Seq(Entries)
    BY <2>1 DEF Kept, FileOK, FixesOK
  <2>5. QED
    BY <2>1, <2>2, <2>3, <2>4 DEF FlightTypeOK, Logs, EventLogs, Tracks, Entries
<1>2. QED
  BY <1>1, FlightInvAlways, PTL

\* A flight's file reads as one flight, however the store refused it: fixes in
\* order, the landing last, no event behind it (update, peek and commit).
THEOREM FileAlwaysAFlight == FlightSpec => []FileIsAFlight
<1>1. FlightInv => FileIsAFlight
  <2> SUFFICES ASSUME FlightInv, NEW i \in DOMAIN file, NEW j \in DOMAIN file,
                      i < j, file[i].session = file[j].session, file[i].record.kind = "fix"
               PROVE  /\ ~file[i].record.last
                      /\ file[j].record.kind = "fix" =>
                           /\ file[i].record.at <= file[j].record.at
                           /\ file[i].record.moving => file[j].record.moving \/ file[j].record.last
    BY DEF FileIsAFlight
  <2>1. FileOK(log, base, clock, file)
    BY DEF FlightInv, Kept
  <2>2. file \in Seq(Entries)
    BY <2>1 DEF FileOK
  <2>3. i \in 1 .. Len(file) /\ j \in 1 .. Len(file)
    BY <2>2, LenProperties
  <2>4. QED
    BY <2>1, <2>3 DEF FileOK, Follows
<1>2. QED
  BY <1>1, FlightInvAlways, PTL

\* No fix of a flight is lost without being counted (push, peek, commit, the
\* erase and the reset).
THEOREM FixesAlwaysAccounted == FlightSpec => []FixesAccounted
<1>1. FlightInv => FixesAccounted
  BY DEF FlightInv, Kept, FixesOK, FixesAccounted, Owing
<1>2. QED
  BY <1>1, FlightInvAlways, PTL

\* No event is lost without being counted, and none is forgotten by a takeoff
\* (push_event, open, close, peek and commit).
THEOREM EventsAlwaysAccounted == FlightSpec => []EventsAccounted
<1>1. FlightInv => EventsAccounted
  BY DEF FlightInv, Kept, EventsOK, EventsAccounted
<1>2. QED
  BY <1>1, FlightInvAlways, PTL
=============================================================================
