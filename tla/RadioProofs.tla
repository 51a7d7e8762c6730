------------------------------ MODULE RadioProofs ------------------------------
(***************************************************************************)
(* Where the radio's bursts air, proved for every cut of the second the    *)
(* map's assumptions allow, every pass, and any number of lost edges.      *)
(*                                                                         *)
(* A burst is armed by a loop that reads its clock once a pass, waits in   *)
(* one of two plans of a thread that knows nothing of seconds, may join a  *)
(* dwell already in flight, and airs when that thread gets to it.  So the  *)
(* invariant is of the plans: whatever they carry is where the map has it. *)
(* Two things keep it.  A view under lock starts where a second does, and  *)
(* is of the second that began there, so what is drawn in it is drawn      *)
(* right.  And a dwell the service holds on to is of the second its end    *)
(* gives away, so a burst put in it passes after it was opened says the    *)
(* second the dwell does.                                                  *)
(*                                                                         *)
(* A second is of any length, so dividing by it is not linear: the first   *)
(* part says of division what the rest uses in its place.                  *)
(***************************************************************************)
EXTENDS RadioDwells, FiniteSetTheorems, SequenceTheorems, WellFoundedInduction, TLAPS

-----------------------------------------------------------------------------
(* The second.                                                             *)

\* What the map's assumptions say of each instant, one by one.
LEMMA MapFacts ==
  /\ SecondMs \in Nat /\ UplinkStart \in Nat /\ UplinkEnd \in Nat /\ Slot0Start \in Nat
  /\ Slot0End \in Nat /\ Slot1End \in Nat /\ DirectStart \in Nat /\ HopGuard \in Nat
  /\ AirTime \in Nat /\ CompletionGuard \in Nat /\ Wrap \in Nat
  /\ 0 < Wrap /\ Wrap <= UplinkStart /\ UplinkStart < UplinkEnd /\ UplinkEnd <= Slot0Start
  /\ Slot0Start <= DirectStart /\ DirectStart + AirTime + CompletionGuard + HopGuard <= Slot0End
  /\ Slot0End + AirTime + CompletionGuard <= SecondMs
  /\ AirTime + CompletionGuard <= Wrap
  /\ 0 < AirTime /\ Slot0End < SecondMs /\ SecondMs > 0 /\ Slot1End = SecondMs + Wrap
BY SlotMapAssumption DEF Wrap

\* Division by the second.
LEMMA Divided ==
  ASSUME NEW t \in Int, NEW q, q = t \div SecondMs, NEW m, m = t % SecondMs
  PROVE  q \in Int /\ m \in 0 .. SecondMs - 1 /\ t = q * SecondMs + m
<1>1. SecondMs \in Nat /\ SecondMs > 0
  BY MapFacts
<1>2. QED
  BY <1>1

\* A quotient and a remainder are those of the division.
LEMMA DividedOnce ==
  ASSUME NEW q \in Int, NEW m \in 0 .. SecondMs - 1, NEW t \in Int, t = q * SecondMs + m
  PROVE  t \div SecondMs = q /\ t % SecondMs = m
<1>1. SecondMs \in Nat /\ SecondMs > 0
  BY MapFacts
<1>2. t \div SecondMs = q
  BY <1>1
<1>3. t % SecondMs = m
  BY <1>1
<1>4. QED
  BY <1>2, <1>3

\* An instant a phase of less than a second after the top of one.
LEMMA IntoSecond ==
  ASSUME NEW top \in Int, top % SecondMs = 0, NEW m \in 0 .. SecondMs - 1
  PROVE  /\ (top + m) % SecondMs = m
         /\ (top + m) \div SecondMs = top \div SecondMs
<1> DEFINE q == top \div SecondMs
<1>1. q \in Int /\ top = q * SecondMs + 0
  BY Divided
<1> HIDE DEF q
<1>2. top + m \in Int /\ top + m = q * SecondMs + m
  BY <1>1, MapFacts
<1>3. (top + m) \div SecondMs = q /\ (top + m) % SecondMs = m
  BY <1>1, <1>2, DividedOnce
<1>4. QED
  BY <1>3 DEF q

\* One more or one less of a thing.
LEMMA OneMore ==
  ASSUME NEW k \in Int, NEW s \in Int
  PROVE  (k + 1) * s = k * s + s /\ (k - 1) * s = k * s - s
OBVIOUS

\* A second earlier or later.
LEMMA NextTop ==
  ASSUME NEW top \in Int, top % SecondMs = 0
  PROVE  /\ (top + SecondMs) % SecondMs = 0
         /\ (top + SecondMs) \div SecondMs = top \div SecondMs + 1
         /\ (top - SecondMs) % SecondMs = 0
         /\ (top - SecondMs) \div SecondMs = top \div SecondMs - 1
<1>1. SecondMs \in Int /\ 0 \in 0 .. SecondMs - 1
  BY MapFacts
<1>2. PICK q : q = top \div SecondMs
  OBVIOUS
<1>3. q \in Int /\ top = q * SecondMs + 0
  BY <1>2, Divided
<1>4. PICK k, t : k = q + 1 /\ t = top + SecondMs
  OBVIOUS
<1>5. k \in Int /\ t \in Int /\ t = k * SecondMs + 0
  BY <1>1, <1>3, <1>4, OneMore
<1>6. t \div SecondMs = k /\ t % SecondMs = 0
  BY <1>1, <1>5, DividedOnce
<1>7. PICK j, u : j = q - 1 /\ u = top - SecondMs
  OBVIOUS
<1>8. j \in Int /\ u \in Int /\ u = j * SecondMs + 0
  BY <1>1, <1>3, <1>7, OneMore
<1>9. u \div SecondMs = j /\ u % SecondMs = 0
  BY <1>1, <1>8, DividedOnce
<1>10. QED
  BY <1>2, <1>4, <1>6, <1>7, <1>9

\* Two tops less than a second apart are the same.
LEMMA SameTop ==
  ASSUME NEW a \in Int, NEW b \in Int, a % SecondMs = 0, b % SecondMs = 0,
         a < b + SecondMs, b < a + SecondMs
  PROVE  a = b
<1>1. PICK i, j : i = a \div SecondMs /\ j = b \div SecondMs
  OBVIOUS
<1>2. SecondMs \in Nat /\ SecondMs > 0 /\ 0 \in 0 .. SecondMs - 1
  BY MapFacts
<1>3. i \in Int /\ a = i * SecondMs + 0
  BY <1>1, Divided
<1>4. j \in Int /\ b = j * SecondMs + 0
  BY <1>1, Divided
<1>5. CASE a <= b
  <2>1. b = i * SecondMs + (b - a) /\ b - a \in 0 .. SecondMs - 1
    BY <1>2, <1>3, <1>4, <1>5
  <2>2. b % SecondMs = b - a
    BY <1>3, <2>1, DividedOnce
  <2>3. QED
    BY <2>2
<1>6. CASE b <= a
  <2>1. a = j * SecondMs + (a - b) /\ a - b \in 0 .. SecondMs - 1
    BY <1>2, <1>3, <1>4, <1>6
  <2>2. a % SecondMs = a - b
    BY <1>4, <2>1, DividedOnce
  <2>3. QED
    BY <2>2
<1>7. QED
  BY <1>5, <1>6

\* The difference of two tops, to the nearest second.
LEMMA WholeSeconds ==
  ASSUME NEW a \in Int, NEW b \in Int, a % SecondMs = 0, b % SecondMs = 0
  PROVE  (b - a + SecondMs \div 2) \div SecondMs = b \div SecondMs - a \div SecondMs
<1>1. PICK i, j : i = a \div SecondMs /\ j = b \div SecondMs
  OBVIOUS
<1>2. SecondMs \in Nat /\ SecondMs > 0 /\ SecondMs \div 2 \in 0 .. SecondMs - 1
  BY MapFacts
<1>3. i \in Int /\ a = i * SecondMs + 0
  BY <1>1, Divided
<1>4. j \in Int /\ b = j * SecondMs + 0
  BY <1>1, Divided
<1>5. PICK h : h = SecondMs \div 2
  OBVIOUS
<1>6. h \in 0 .. SecondMs - 1
  BY <1>2, <1>5
<1>7. j - i \in Int /\ b - a + h \in Int /\ b - a + h = (j - i) * SecondMs + h
  BY <1>2, <1>3, <1>4, <1>6
<1>8. (b - a + h) \div SecondMs = j - i
  BY <1>6, <1>7, DividedOnce
<1>9. QED
  BY <1>1, <1>5, <1>8

-----------------------------------------------------------------------------
(* The dwells, the plans and the bursts.  l is how many edges were lost.   *)

Channels == {"uplink", "slot0", "slot1"}
Burst == [at : Nat, payload : Payloads, utc : Int]
PlanT == [ch : Channels \cup {"none"}, start : Nat, end : Nat, bursts : Seq(Burst)]
DwellT == [ch : Channels \cup {"none"}, from : Nat, until : Nat, utc : Int,
           at : [Payloads -> Nat]]

Within(phase) == IF InTail(phase) THEN phase + SecondMs ELSE phase

\* A burst that may air in a dwell of this channel.
WellTimed(l, at, payload, utc, ch) ==
  /\ ch = DwellAt(at % SecondMs)
  /\ Within(at % SecondMs) + AirTime <= DwellEnd(ch)
  /\ l = 0 => utc = UtcAt(at) - (IF payload = "callsign" THEN 1 ELSE 0)

GoodBursts(l, ch, end) ==
  {b \in Burst : WellTimed(l, b.at, b.payload, b.utc, ch) /\ b.at < end}

GoodPlan(l, p) ==
  /\ p \in PlanT
  /\ p.ch # "none" => p.bursts \in Seq(GoodBursts(l, p.ch, p.end))

GoodRf(l, rf) ==
  /\ rf \in [queued : PlanT, flying : PlanT]
  /\ GoodPlan(l, rf.queued) /\ GoodPlan(l, rf.flying)

\* A dwell that ends where the map ends one is of the second it opened in.
OfItsSecond(l, d) ==
  l = 0 /\ d.ch \in {"slot0", "slot1"} /\ (d.until - DwellEnd(d.ch)) % SecondMs = 0
  => d.utc = UtcAt(d.until - DwellEnd(d.ch))

\* Every phase is in a dwell of one of the three channels.
LEMMA DwellsTyped ==
  /\ \A ch \in Channels : DwellStart(ch) \in Nat /\ DwellEnd(ch) \in Nat
  /\ \A phase \in Int : DwellAt(phase) \in Channels
  /\ "none" \notin Channels
BY MapFacts DEF Channels, DwellStart, DwellEnd, DwellAt

\* A burst put in its place among others leaves a sequence of the same.
LEMMA AddedKept ==
  ASSUME NEW G, NEW bursts \in Seq(G), NEW burst \in G
  PROVE  Added(bursts, burst) \in Seq(G)
<1> DEFINE before == {i \in DOMAIN bursts : bursts[i].at <= burst.at}
           c == Cardinality(before)
<1>1. Len(bursts) \in Nat /\ DOMAIN bursts = 1 .. Len(bursts) /\ bursts \in [1 .. Len(bursts) -> G]
  BY LenProperties
<1>2. IsFiniteSet(1 .. Len(bursts)) /\ Cardinality(1 .. Len(bursts)) <= Len(bursts)
  <2>1. PICK n : n = Len(bursts)
    OBVIOUS
  <2>2. n \in Nat /\ n \in Int /\ 1 \in Int
    BY <1>1, <2>1
  <2>3. IsFiniteSet(1 .. n) /\ Cardinality(1 .. n) = IF 1 > n THEN 0 ELSE n - 1 + 1
    BY <2>2, FS_Interval
  <2>4. QED
    BY <2>1, <2>2, <2>3
<1>3. before \in SUBSET (1 .. Len(bursts))
  BY <1>1
<1>4. IsFiniteSet(before) /\ c <= Len(bursts)
  BY <1>1, <1>2, <1>3, FS_Subset, FS_CardinalityType
<1>5. c \in Nat
  BY <1>4, FS_CardinalityType
<1> HIDE DEF c
<1>6. /\ c \in 0 .. Len(bursts) /\ c + 1 \in Int /\ c + 1 - 1 = c /\ c \in Int
  BY <1>1, <1>4, <1>5
<1>7. SubSeq(bursts, 1, c) \in Seq(G)
  <2>1. \A i \in 1 .. c : bursts[i] \in G
    BY <1>1, <1>6
  <2>2. QED
    BY <1>6, <2>1, SubSeqProperties
<1>8. SubSeq(bursts, c + 1, Len(bursts)) \in Seq(G)
  <2>1. \A i \in c + 1 .. Len(bursts) : bursts[i] \in G
    BY <1>1, <1>6
  <2>2. QED
    BY <1>1, <1>6, <2>1, SubSeqProperties
<1>9. <<burst>> \in Seq(G)
  OBVIOUS
<1>10. SubSeq(bursts, 1, c) \o <<burst>> \in Seq(G)
  BY <1>7, <1>9, ConcatProperties
<1>11. SubSeq(bursts, 1, c) \o <<burst>> \o SubSeq(bursts, c + 1, Len(bursts)) \in Seq(G)
  BY <1>8, <1>10, ConcatProperties
<1>12. InsertAt(bursts, c + 1, burst) \in Seq(G)
  BY <1>6, <1>11 DEF InsertAt
<1>13. QED
  BY <1>12 DEF Added, c

\* Where the ends of two dwells are the same, so is what is good in them.
LEMMA ArmKept ==
  ASSUME NEW l, NEW rf, GoodRf(l, rf), NEW plan \in PlanT, plan.ch \in Channels,
         InRange(plan) => plan.bursts \in Seq(GoodBursts(l, plan.ch, plan.end)),
         \A i \in DOMAIN plan.bursts :
           LET b == plan.bursts[i] IN WellTimed(l, b.at, b.payload, b.utc, plan.ch)
  PROVE  GoodRf(l, Arm(rf, plan).rf) /\ Arm(rf, plan).rf.flying.ch = rf.flying.ch
<1>1. /\ rf \in [queued : PlanT, flying : PlanT]
      /\ GoodPlan(l, rf.queued) /\ GoodPlan(l, rf.flying)
      /\ rf.queued \in PlanT /\ rf.flying \in PlanT
  BY DEF GoodRf
<1>2. /\ Len(plan.bursts) \in Nat /\ DOMAIN plan.bursts = 1 .. Len(plan.bursts)
      /\ plan.bursts # <<>> => 1 \in DOMAIN plan.bursts
      /\ \A i \in DOMAIN plan.bursts : plan.bursts[i] \in Burst
  <2>1. plan.bursts \in Seq(Burst)
    BY DEF PlanT
  <2>2. QED
    BY <2>1
<1> DEFINE first == plan.bursts[1]
<1>3. CASE ~InRange(plan) \/ now >= plan.end
  BY <1>3 DEF Arm, Refuse
<1>4. CASE InRange(plan) /\ ~(now >= plan.end) /\ Joins(rf, plan)
  <2>1. /\ rf.flying.ch = plan.ch /\ plan.bursts # <<>> /\ first.at < rf.flying.end
    BY <1>4 DEF Joins
  <2>2. first \in GoodBursts(l, rf.flying.ch, rf.flying.end)
    BY <1>2, <2>1 DEF GoodBursts
  <2>3. rf.flying.bursts \in Seq(GoodBursts(l, rf.flying.ch, rf.flying.end))
    BY <1>1, <2>1, DwellsTyped DEF GoodPlan
  <2>4. Added(rf.flying.bursts, first) \in Seq(GoodBursts(l, rf.flying.ch, rf.flying.end))
    BY <2>2, <2>3, AddedKept
  <2>5. rf.flying.bursts \in Seq(Burst) /\ first \in Burst
    BY <1>1, <1>2, <2>1 DEF PlanT
  <2>6. Added(rf.flying.bursts, first) \in Seq(Burst)
    BY <2>5, AddedKept
  <2> DEFINE joined == [rf EXCEPT !.flying.bursts = Added(@, first)]
  <2>7. /\ joined.queued = rf.queued /\ joined \in [queued : PlanT, flying : PlanT]
        /\ joined.flying = [rf.flying EXCEPT !.bursts = Added(rf.flying.bursts, first)]
    BY <1>1, <2>6 DEF PlanT
  <2>8. /\ joined.flying.ch = rf.flying.ch /\ joined.flying.end = rf.flying.end
        /\ joined.flying.bursts = Added(rf.flying.bursts, first)
    BY <1>1, <2>7 DEF PlanT
  <2>9. GoodRf(l, joined)
    BY <1>1, <2>4, <2>7, <2>8 DEF GoodRf, GoodPlan
  <2>10. Arm(rf, plan).rf \in {rf, joined}
    BY <1>4 DEF Arm, Refuse
  <2>11. QED
    BY <2>8, <2>9, <2>10
<1>5. CASE /\ InRange(plan) /\ ~(now >= plan.end) /\ ~Joins(rf, plan)
           /\ ~(rf.flying.ch # "none" /\ plan.end <= rf.flying.end) /\ SameDwell(plan, rf.queued)
  <2>1. CASE plan.bursts = <<>>
    BY <1>5, <2>1 DEF Arm
  <2>2. CASE plan.bursts # <<>>
    <3>1. rf.queued.ch = plan.ch /\ rf.queued.end = plan.end
      BY <1>5 DEF SameDwell
    <3>2. first \in GoodBursts(l, rf.queued.ch, rf.queued.end)
      BY <1>2, <1>5, <2>2, <3>1
    <3>3. rf.queued.bursts \in Seq(GoodBursts(l, rf.queued.ch, rf.queued.end))
      BY <1>1, <3>1, DwellsTyped DEF GoodPlan
    <3>4. Added(rf.queued.bursts, first) \in Seq(GoodBursts(l, rf.queued.ch, rf.queued.end))
      BY <3>2, <3>3, AddedKept
    <3>5. rf.queued.bursts \in Seq(Burst) /\ first \in Burst
      BY <1>1, <1>2, <2>2 DEF PlanT
    <3>6. Added(rf.queued.bursts, first) \in Seq(Burst)
      BY <3>5, AddedKept
    <3> DEFINE joined == [rf EXCEPT !.queued.bursts = Added(@, first)]
    <3>7. /\ joined.flying = rf.flying /\ joined \in [queued : PlanT, flying : PlanT]
          /\ joined.queued = [rf.queued EXCEPT !.bursts = Added(rf.queued.bursts, first)]
      BY <1>1, <3>6 DEF PlanT
    <3>8. /\ joined.queued.ch = rf.queued.ch /\ joined.queued.end = rf.queued.end
          /\ joined.queued.bursts = Added(rf.queued.bursts, first)
      BY <1>1, <3>7 DEF PlanT
    <3>9. GoodRf(l, joined)
      BY <1>1, <3>4, <3>7, <3>8 DEF GoodRf, GoodPlan
    <3>10. Arm(rf, plan).rf \in {rf, joined}
      BY <1>5, <2>2 DEF Arm, Refuse
    <3>11. QED
      BY <3>7, <3>9, <3>10
  <2>3. QED
    BY <2>1, <2>2
<1>6. CASE /\ InRange(plan) /\ ~(now >= plan.end) /\ ~Joins(rf, plan)
           /\ (rf.flying.ch # "none" /\ plan.end <= rf.flying.end)
  BY <1>6 DEF Arm, Refuse
<1>7. CASE /\ InRange(plan) /\ ~(now >= plan.end) /\ ~Joins(rf, plan)
           /\ ~(rf.flying.ch # "none" /\ plan.end <= rf.flying.end) /\ ~SameDwell(plan, rf.queued)
  <2> DEFINE replaced == [rf EXCEPT !.queued = plan]
  <2>1. Arm(rf, plan).rf = replaced
    BY <1>7 DEF Arm
  <2>2. /\ replaced.flying = rf.flying /\ replaced.queued = plan
        /\ replaced \in [queued : PlanT, flying : PlanT]
    BY <1>1
  <2>3. GoodPlan(l, plan)
    BY <1>7 DEF GoodPlan
  <2>4. QED
    BY <1>1, <2>1, <2>2, <2>3 DEF GoodRf
<1>8. QED
  BY <1>3, <1>4, <1>5, <1>6, <1>7

-----------------------------------------------------------------------------
(* The second a pass sees.                                                 *)

TimeOK ==
  /\ now \in Nat /\ latched \in Nat /\ lost \in Nat
  /\ latched % SecondMs = 0 /\ SecondMs <= latched /\ latched <= now
  /\ lost = 0 => now - latched < SecondMs

\* A clock carried to its edge.
ClockRead(c) ==
  /\ c.locked \in BOOLEAN /\ c.edge = latched /\ c.utc \in Int
  /\ lost = 0 => c.utc = UtcAt(now)

ViewOK(v) ==
  /\ v.plan.dwell \in Channels /\ v.locked \in BOOLEAN /\ v.plan = Plan(v.plan.dwell, v.locked)
  /\ v.origin \in Int /\ v.utc \in Int /\ v.origin > 0 - Wrap
  /\ v.locked => v.origin % SecondMs = 0 /\ v.origin >= 0
  /\ lost = 0 /\ v.origin % SecondMs = 0 => v.utc = UtcAt(v.origin)

\* The phase of an instant is at most the instant.
LEMMA PhaseAtMost ==
  ASSUME NEW x \in Nat
  PROVE  x % SecondMs \in 0 .. SecondMs - 1 /\ x % SecondMs <= x
<1>1. PICK q, m : q = x \div SecondMs /\ m = x % SecondMs
  OBVIOUS
<1>2. /\ q \in Int /\ m \in 0 .. SecondMs - 1 /\ x = q * SecondMs + m
      /\ SecondMs \in Nat /\ SecondMs > 0
  BY <1>1, Divided, MapFacts
<1>3. CASE x < SecondMs
  <2>1. x = 0 * SecondMs + x /\ x \in 0 .. SecondMs - 1 /\ 0 \in Int
    BY <1>2, <1>3
  <2>2. x % SecondMs = x
    BY <2>1, DividedOnce
  <2>3. QED
    BY <1>1, <1>2, <2>2
<1>4. CASE x >= SecondMs
  BY <1>1, <1>2, <1>4
<1>5. QED
  BY <1>2, <1>3, <1>4

\* A whole number of seconds is the start of one.
LEMMA TopIs ==
  ASSUME NEW j \in Int, NEW u \in Int, u = j * SecondMs + 0
  PROVE  u % SecondMs = 0
<1>1. 0 \in 0 .. SecondMs - 1
  BY MapFacts
<1>2. QED
  BY <1>1, DividedOnce

\* What is left when the phase is taken off an instant is whole seconds.
LEMMA Regrouped ==
  ASSUME NEW t \in Int, NEW top \in Int, NEW m \in Int, NEW s \in Int,
         NEW q \in Int, NEW k \in Int, top = k * s + 0, t - top = q * s + m
  PROVE  t - m = (k + q) * s + 0
<1>1. PICK a, b : a = k * s /\ b = q * s
  OBVIOUS
<1>2. a \in Int /\ b \in Int
  BY <1>1
<1>3. top = a /\ t - top = b + m
  BY <1>1, <1>2
<1>4. t - m = a + b
  BY <1>2, <1>3
<1>5. a + b = (k + q) * s
  BY <1>1
<1>6. QED
  BY <1>2, <1>4, <1>5

\* The top of the second an instant is in, counted from another top.
LEMMA TopBehind ==
  ASSUME NEW top \in Int, top % SecondMs = 0, NEW t \in Int, NEW m, m = (t - top) % SecondMs
  PROVE  (t - m) % SecondMs = 0
<1>1. PICK q, k : q = (t - top) \div SecondMs /\ k = top \div SecondMs
  OBVIOUS
<1>2. /\ q \in Int /\ m \in Int /\ t - top = q * SecondMs + m
      /\ SecondMs \in Int /\ 0 \in 0 .. SecondMs - 1
  BY <1>1, Divided, MapFacts
<1>3. k \in Int /\ top = k * SecondMs + 0
  BY <1>1, Divided
<1>4. PICK j, u : j = k + q /\ u = t - m
  OBVIOUS
<1>5. t - m = (k + q) * SecondMs + 0
  BY <1>2, <1>3, Regrouped
<1>6. j \in Int /\ u \in Int
  BY <1>2, <1>3, <1>4
<1>7. u = j * SecondMs + 0
  BY <1>4, <1>5
<1>8. u % SecondMs = 0
  BY <1>6, <1>7, TopIs
<1>9. t - m = u
  BY <1>4
<1>10. QED
  BY <1>8, <1>9

\* While none was lost, the second is the one the last edge began.
LEMMA SecondOfEdge ==
  ASSUME TimeOK, lost = 0
  PROVE  UtcAt(now) = UtcAt(latched)
<1>1. now - latched \in 0 .. SecondMs - 1 /\ latched + (now - latched) = now /\ latched \in Int
  BY MapFacts DEF TimeOK
<1>2. (latched + (now - latched)) \div SecondMs = latched \div SecondMs
  BY <1>1, IntoSecond DEF TimeOK
<1>3. QED
  BY <1>1, <1>2 DEF UtcAt

\* What a pass reads of the clock: under lock the view's origin is the start of
\* a second, and its second the one that began there.
LEMMA ViewRead ==
  ASSUME TimeOK, NEW c, ClockRead(c), NEW fix
  PROVE  ViewOK(View(c, fix))
<1> DEFINE phase == PhaseAt(c, now)
           top == now - phase
           v == View(c, fix)
<1>1. /\ now \in Nat /\ latched \in Nat /\ latched <= now /\ now >= SecondMs /\ Skew \in Nat
      /\ c.edge = latched /\ c.locked \in BOOLEAN /\ c.utc \in Int
      /\ now - latched \in Nat /\ now + Skew \in Nat
  BY MapFacts, RadioAssumption DEF TimeOK, ClockRead
<1>2. phase \in 0 .. SecondMs - 1
  BY <1>1, PhaseAtMost DEF PhaseAt
<1>3. c.locked => top % SecondMs = 0 /\ top >= SecondMs
  <2> SUFFICES ASSUME c.locked PROVE top % SecondMs = 0 /\ top >= SecondMs
    OBVIOUS
  <2>1. phase = (now - latched) % SecondMs
    BY <1>1 DEF PhaseAt
  <2>2. phase <= now - latched
    BY <1>1, <2>1, PhaseAtMost
  <2>3. top % SecondMs = 0
    <3>1. latched \in Int /\ now \in Int /\ latched % SecondMs = 0
      BY <1>1 DEF TimeOK
    <3>2. QED
      BY <2>1, <3>1, TopBehind
  <2>4. SecondMs <= latched
    BY DEF TimeOK
  <2>5. QED
    BY <1>1, <1>2, <2>2, <2>3, <2>4, MapFacts
<1>4. lost = 0 /\ top % SecondMs = 0 => top = latched
  <2> SUFFICES ASSUME lost = 0, top % SecondMs = 0 PROVE top = latched
    OBVIOUS
  <2>1. top \in Int /\ latched \in Int /\ top < latched + SecondMs /\ latched < top + SecondMs
    BY <1>1, <1>2, MapFacts DEF TimeOK
  <2>2. QED
    BY <2>1, SameTop DEF TimeOK
<1> HIDE DEF phase
<1>5. /\ v.plan = Plan(DwellAt(phase), c.locked) /\ v.locked = c.locked
      /\ v.origin = top - (IF InTail(phase) THEN SecondMs ELSE 0)
      /\ v.utc = IF InTail(phase) THEN c.utc - 1 ELSE c.utc
  BY <1>1, <1>2, MapFacts DEF View, DwellOrigin, phase
<1>6. v.plan.dwell = DwellAt(phase) /\ DwellAt(phase) \in Channels
  BY <1>2, <1>5, DwellsTyped, MapFacts DEF Plan
<1>7. v.origin \in Int /\ v.utc \in Int /\ v.origin > 0 - Wrap
  BY <1>1, <1>2, <1>5, MapFacts DEF InTail
<1>8. v.locked => v.origin % SecondMs = 0 /\ v.origin >= 0
  <2> SUFFICES ASSUME v.locked PROVE v.origin % SecondMs = 0 /\ v.origin >= 0
    OBVIOUS
  <2>1. top \in Int /\ top % SecondMs = 0 /\ top >= SecondMs
    BY <1>1, <1>2, <1>3, <1>5, MapFacts
  <2>2. (top - SecondMs) % SecondMs = 0
    BY <2>1, NextTop
  <2>3. v.origin = top \/ v.origin = top - SecondMs
    BY <1>5, <2>1, MapFacts
  <2>4. QED
    BY <2>1, <2>2, <2>3, MapFacts
<1>9. lost = 0 /\ v.origin % SecondMs = 0 => v.utc = UtcAt(v.origin)
  <2> SUFFICES ASSUME lost = 0, v.origin % SecondMs = 0 PROVE v.utc = UtcAt(v.origin)
    OBVIOUS
  <2>1. c.utc = UtcAt(latched)
    BY SecondOfEdge DEF ClockRead
  <2>2. top \in Int /\ SecondMs \in Int
    BY <1>1, <1>2, MapFacts
  <2>3. CASE InTail(phase)
    <3>1. v.origin = top - SecondMs
      BY <1>5, <2>3
    <3>2. (v.origin + SecondMs) % SecondMs = 0 /\ v.origin + SecondMs = top
      BY <1>7, <2>2, <3>1, NextTop
    <3>3. top = latched /\ top % SecondMs = 0
      BY <1>4, <3>2
    <3>4. (top - SecondMs) \div SecondMs = top \div SecondMs - 1
      BY <2>2, <3>3, NextTop
    <3>5. v.utc = UtcAt(latched) - 1
      BY <1>5, <2>1, <2>3
    <3>6. top \div SecondMs \in Int
      BY <2>2, Divided
    <3>7. QED
      BY <3>1, <3>3, <3>4, <3>5, <3>6 DEF UtcAt
  <2>4. CASE ~InTail(phase)
    <3>1. v.origin = top /\ v.utc = c.utc
      BY <1>5, <2>2, <2>4
    <3>2. QED
      BY <1>4, <2>1, <3>1
  <2>5. QED
    BY <2>3, <2>4
<1>10. QED
  BY <1>1, <1>5, <1>6, <1>7, <1>8, <1>9 DEF ViewOK

-----------------------------------------------------------------------------
(* The bursts own-ship owes.                                               *)

\* A position's instant is in the slot of its second, with room in it.
LEMMA PositionInSlot ==
  ASSUME NEW utc, NEW pos, pos = PositionAt(utc)
  PROVE  /\ pos \in Nat /\ pos >= Wrap /\ pos < SecondMs /\ pos + AirTime <= DwellEnd(SlotOf(utc))
         /\ DwellAt(pos) = SlotOf(utc)
<1>1. CASE SlotOf(utc) = "slot0"
  <2>1. pos \in {FirstInstant("slot0"), LastInstant("slot0")}
    BY <1>1 DEF PositionAt
  <2>2. /\ pos \in Nat /\ pos >= DirectStart /\ pos + AirTime <= Slot0End - HopGuard
    BY <2>1, MapFacts DEF FirstInstant, LastInstant, DwellStart, DwellEnd, GreaterOf, LesserOf
  <2>3. QED
    BY <1>1, <2>2, MapFacts DEF DwellAt, DwellEnd
<1>2. CASE SlotOf(utc) = "slot1"
  <2>1. pos \in {FirstInstant("slot1"), LastInstant("slot1")}
    BY <1>2 DEF PositionAt
  <2>2. /\ pos \in Nat /\ pos >= Slot0End /\ pos + AirTime <= SecondMs
    BY <2>1, MapFacts DEF FirstInstant, LastInstant, DwellStart, DwellEnd, GreaterOf, LesserOf
  <2>3. QED
    BY <1>2, <2>2, MapFacts DEF DwellAt, DwellEnd
<1>3. QED
  BY <1>1, <1>2 DEF SlotOf

\* A callsign's instant is in the tail of slot 1, with room in it.
LEMMA CallsignInTail ==
  ASSUME NEW utc
  PROVE  \E r \in 0 .. SecondMs - 1 :
           /\ CallsignAt(utc) = SecondMs + r /\ r < Wrap /\ r + SecondMs + AirTime <= Slot1End
<1>1. CASE draws[utc % 2] = "first"
  <2>1. CallsignAt(utc) = SecondMs + 0
    BY <1>1 DEF CallsignAt
  <2>2. 0 \in 0 .. SecondMs - 1 /\ 0 < Wrap /\ 0 + SecondMs + AirTime <= Slot1End
    BY MapFacts
  <2>3. QED
    BY <2>1, <2>2
<1>2. CASE draws[utc % 2] # "first"
  <2>1. CallsignAt(utc) = SecondMs + (Wrap - CompletionGuard - AirTime)
    BY <1>2 DEF CallsignAt
  <2>2. Wrap - CompletionGuard - AirTime \in 0 .. SecondMs - 1
    BY MapFacts
  <2>3. QED
    BY <2>1, <2>2, MapFacts
<1>3. QED
  BY <1>1, <1>2

\* A burst owed in the second of the view is one the map has at its instant, in
\* the second it says.
LEMMA DueIsTimed ==
  ASSUME NEW v, ViewOK(v), NEW sent, NEW ch \in Channels, NEW plan, plan = Plan(ch, v.locked),
         NEW payload \in Payloads, Due(v, sent, plan, payload),
         NEW utc, lost = 0 => utc = UtcAt(v.origin),
         NEW at, at = BurstAt(v, v.origin, payload)
  PROVE  at \in Nat /\ WellTimed(lost, at, payload, utc, ch)
<1>1. v.locked /\ ch # "uplink" /\ plan.dwell = ch
  BY DEF Due, Plan
<1>2. v.origin \in Int /\ v.origin % SecondMs = 0 /\ v.origin >= 0 /\ v.origin \div SecondMs \in Int
  BY <1>1, Divided DEF ViewOK
<1>3. CASE payload = "position"
  <2>1. PICK pos : pos = PositionAt(v.utc)
    OBVIOUS
  <2>2. ch = SlotOf(v.utc)
    BY <1>1, <1>3 DEF Due
  <2>3. /\ pos \in Nat /\ pos >= Wrap /\ pos < SecondMs /\ pos + AirTime <= DwellEnd(ch)
        /\ DwellAt(pos) = ch
    BY <2>1, <2>2, PositionInSlot
  <2>4. pos \in 0 .. SecondMs - 1
    BY <2>3, MapFacts
  <2>5. at = v.origin + pos
    BY <1>2, <1>3, <2>1, <2>3 DEF BurstAt, InstantUs, GreaterOf
  <2>6. at % SecondMs = pos /\ at \div SecondMs = v.origin \div SecondMs
    BY <1>2, <2>4, <2>5, IntoSecond
  <2>7. Within(pos) = pos
    BY <2>3, MapFacts DEF Within, InTail
  <2>8. lost = 0 => utc = UtcAt(at) - 0
    BY <1>2, <2>6 DEF UtcAt
  <2>9. QED
    BY <1>2, <1>3, <2>3, <2>5, <2>6, <2>7, <2>8 DEF WellTimed
<1>4. CASE payload = "callsign"
  <2>1. PICK r \in 0 .. SecondMs - 1 :
           /\ CallsignAt(v.utc) = SecondMs + r /\ r < Wrap /\ r + SecondMs + AirTime <= Slot1End
    BY CallsignInTail
  <2>2. ch = "slot1"
    BY <1>1, <1>4 DEF Due
  <2>3. PICK top : top = v.origin + SecondMs
    OBVIOUS
  <2>4. /\ top \in Int /\ top >= 0 /\ top % SecondMs = 0
        /\ top \div SecondMs = v.origin \div SecondMs + 1
    BY <1>2, <2>3, NextTop, MapFacts
  <2>5. at = top + r
    BY <1>2, <1>4, <2>1, <2>3, <2>4, MapFacts DEF BurstAt, InstantUs, GreaterOf
  <2>6. at % SecondMs = r /\ at \div SecondMs = top \div SecondMs
    BY <2>1, <2>4, <2>5, IntoSecond
  <2>7. Within(r) = r + SecondMs /\ DwellAt(r) = "slot1" /\ DwellEnd("slot1") = Slot1End
    BY <2>1 DEF Within, InTail, DwellAt, DwellEnd
  <2>8. lost = 0 => utc = UtcAt(at) - 1
    BY <1>2, <2>4, <2>6 DEF UtcAt
  <2>9. at \in Nat
    BY <2>1, <2>4, <2>5, MapFacts
  <2>10. QED
    BY <1>4, <2>1, <2>2, <2>6, <2>7, <2>8, <2>9 DEF WellTimed
<1>5. QED
  BY <1>3, <1>4 DEF Payloads

-----------------------------------------------------------------------------
(* Arming a dwell.                                                         *)

Plans == [queued : PlanT, flying : PlanT]
XT == [current : DwellT, next : DwellT, ahead : BOOLEAN, retired : DwellT,
       sent : [Payloads -> Int], rf : Plans, aborted : BOOLEAN, utc : Int]

\* The service's state with the executor's plans in it.
Good(x) ==
  /\ x \in XT
  /\ OfItsSecond(lost, x.current) /\ OfItsSecond(lost, x.next)
  /\ GoodRf(lost, x.rf)
  /\ ~x.aborted => x.rf.flying.ch = flying.ch

\* What may be armed in this pass: own-ship's bursts are drawn in the second of
\* the view, so a dwell of another second owes none.
Armable(v, ch, plan, origin) ==
  /\ ViewOK(v) /\ ch \in Channels /\ plan = Plan(ch, v.locked)
  /\ origin \in Int /\ origin > 0 - Wrap /\ (ch # "uplink" => origin = v.origin)

YT == [dwell : DwellT, rf : Plans, origin : Int, start : Nat, end : Nat,
       again : BOOLEAN, on : BOOLEAN, carried : BOOLEAN, refused : BOOLEAN]
Arming(y, ch, origin, inFlight) ==
  /\ y \in YT /\ GoodRf(lost, y.rf) /\ y.rf.flying.ch = inFlight
  /\ y.dwell.ch = ch /\ y.dwell.until = y.end /\ OfItsSecond(lost, y.dwell)
  /\ y.origin = origin /\ y.end = InstantUs(origin, DwellEnd(ch))

\* Arming one payload keeps the plans good.
LEMMA WithBurstKept ==
  ASSUME NEW v, NEW ch, NEW plan, NEW origin, Armable(v, ch, plan, origin), NEW x,
         NEW payload \in Payloads, NEW inFlight, NEW y, Arming(y, ch, origin, inFlight)
  PROVE  Arming(WithBurst(v, x, plan, y, payload), ch, origin, inFlight)
<1> DEFINE at == BurstAt(v, y.origin, payload)
           burst == [at |-> at, payload |-> payload, utc |-> y.dwell.utc]
           told == [ch |-> plan.dwell, start |-> y.start, end |-> y.end, bursts |-> <<burst>>]
           armed == Arm(y.rf, told)
           on == [y EXCEPT !.rf = armed.rf, !.on = TRUE, !.carried = TRUE, !.dwell.at[payload] = at]
           off == [y EXCEPT !.refused = ~y.on]
           skipped == y.refused \/ Carries(y.dwell, payload) \/ ~Due(v, x.sent, plan, payload)
                      \/ at < GreaterOf(y.start, now) \/ at >= y.end
<1>1. /\ y \in YT /\ GoodRf(lost, y.rf) /\ y.rf.flying.ch = inFlight
      /\ y.dwell.ch = ch /\ y.dwell.until = y.end /\ OfItsSecond(lost, y.dwell)
      /\ y.origin = origin /\ y.end = InstantUs(origin, DwellEnd(ch))
      /\ y.dwell \in DwellT /\ y.on \in BOOLEAN
  BY DEF Arming, YT
<1>2. /\ ViewOK(v) /\ ch \in Channels /\ plan = Plan(ch, v.locked) /\ plan.dwell = ch
      /\ ch # "uplink" => origin = v.origin
  BY DEF Armable, Plan
<1>3. CASE skipped
  BY <1>3 DEF WithBurst
<1>4. CASE ~skipped
  <2>1. Due(v, x.sent, plan, payload)
    BY <1>4
  <2>2. ch \in {"slot0", "slot1"} /\ v.locked /\ y.origin = v.origin
    BY <1>1, <1>2, <2>1 DEF Due, Plan, Channels
  <2>3. /\ v.origin \in Int /\ v.origin >= 0 /\ v.origin % SecondMs = 0
        /\ DwellEnd(ch) \in Nat
    BY <1>2, <2>2, DwellsTyped DEF ViewOK
  <2>4. y.dwell.until - DwellEnd(ch) = v.origin
    BY <1>1, <2>2, <2>3 DEF InstantUs, GreaterOf
  <2>5. lost = 0 => y.dwell.utc = UtcAt(v.origin)
    BY <1>1, <2>2, <2>3, <2>4 DEF OfItsSecond
  <2>6. at \in Nat /\ WellTimed(lost, at, payload, y.dwell.utc, ch)
    <3>1. at = BurstAt(v, v.origin, payload)
      BY <2>2
    <3>2. QED
      BY <1>2, <2>1, <2>5, <3>1, DueIsTimed
  <2> HIDE DEF at
  <2>7. y.dwell.utc \in Int /\ burst \in Burst
    BY <1>1, <2>6 DEF Burst, DwellT
  <2>8. told \in PlanT /\ told.ch = ch /\ told.end = y.end /\ told.start = y.start
    <3>1. <<burst>> \in Seq(Burst)
      BY <2>7
    <3>2. QED
      BY <1>1, <1>2, <3>1 DEF PlanT, YT
  <2>9. \A i \in DOMAIN told.bursts :
          told.bursts[i] = burst
    OBVIOUS
  <2>10. \A i \in DOMAIN told.bursts :
          LET b == told.bursts[i] IN WellTimed(lost, b.at, b.payload, b.utc, told.ch)
    BY <2>6, <2>8, <2>9
  <2>11. InRange(told) => told.bursts \in Seq(GoodBursts(lost, told.ch, told.end))
    <3> SUFFICES ASSUME InRange(told) PROVE told.bursts \in Seq(GoodBursts(lost, told.ch, told.end))
      OBVIOUS
    <3>1. at \in y.start .. y.end - 1
      BY DEF InRange
    <3>2. y.start \in Nat /\ y.end \in Nat
      BY <1>1 DEF YT
    <3>3. burst \in GoodBursts(lost, told.ch, told.end)
      BY <2>6, <2>7, <2>8, <3>1, <3>2 DEF GoodBursts
    <3>4. QED
      BY <3>3
  <2> HIDE DEF told
  <2>12. GoodRf(lost, armed.rf) /\ armed.rf.flying.ch = inFlight
    BY <1>1, <1>2, <2>8, <2>10, <2>11, ArmKept
  <2>13. armed.rf \in Plans
    BY <2>12 DEF GoodRf, Plans
  <2> HIDE DEF armed
  <2>14. Arming(on, ch, origin, inFlight)
    <3>1. [y.dwell EXCEPT !.at[payload] = at] \in DwellT
      BY <1>1, <2>6 DEF DwellT
    <3>2. /\ on \in YT /\ on.rf = armed.rf /\ on.origin = y.origin /\ on.end = y.end
          /\ on.dwell = [y.dwell EXCEPT !.at[payload] = at]
      BY <1>1, <2>13, <3>1 DEF YT
    <3>3. on.dwell.ch = y.dwell.ch /\ on.dwell.until = y.dwell.until /\ on.dwell.utc = y.dwell.utc
      BY <1>1, <3>2 DEF DwellT
    <3>4. OfItsSecond(lost, on.dwell)
      BY <1>1, <3>3 DEF OfItsSecond
    <3>5. QED
      BY <1>1, <2>12, <3>2, <3>3, <3>4 DEF Arming
  <2>15. Arming(off, ch, origin, inFlight)
    <3>1. /\ off \in YT /\ off.rf = y.rf /\ off.origin = y.origin
          /\ off.end = y.end /\ off.dwell = y.dwell
      BY <1>1 DEF YT
    <3>2. QED
      BY <1>1, <3>1 DEF Arming
  <2>16. WithBurst(v, x, plan, y, payload) \in {on, off}
    BY <1>4 DEF WithBurst, armed, told, at
  <2>17. QED
    BY <2>14, <2>15, <2>16
<1>5. QED
  BY <1>3, <1>4

\* So does arming a dwell to listen.
LEMMA WithBareKept ==
  ASSUME NEW v, NEW ch, NEW plan, NEW origin, Armable(v, ch, plan, origin),
         NEW inFlight, NEW y, Arming(y, ch, origin, inFlight)
  PROVE  Arming(WithBare(plan, y), ch, origin, inFlight)
<1> DEFINE told == Bare(plan, y)
           bare == Arm(y.rf, told)
           listening == [y EXCEPT !.rf = bare.rf, !.refused = ~bare.ok]
<1>1. /\ y \in YT /\ GoodRf(lost, y.rf) /\ y.rf.flying.ch = inFlight
      /\ y.dwell.ch = ch /\ y.dwell.until = y.end /\ OfItsSecond(lost, y.dwell)
      /\ y.origin = origin /\ y.end = InstantUs(origin, DwellEnd(ch))
  BY DEF Arming
<1>2. ch \in Channels /\ plan.dwell = ch
  BY DEF Armable, Plan
<1>3. told \in PlanT /\ told.ch = ch /\ told.bursts = <<>>
  BY <1>1, <1>2 DEF Bare, PlanT, YT
<1>4. told.bursts \in Seq(GoodBursts(lost, told.ch, told.end)) /\ DOMAIN told.bursts = {}
  BY <1>3
<1> HIDE DEF told
<1>5. GoodRf(lost, bare.rf) /\ bare.rf.flying.ch = inFlight
  BY <1>1, <1>2, <1>3, <1>4, ArmKept
<1>6. bare.rf \in Plans
  BY <1>5 DEF GoodRf, Plans
<1> HIDE DEF bare
<1>7. /\ listening \in YT /\ listening.rf = bare.rf /\ listening.origin = y.origin
      /\ listening.end = y.end /\ listening.dwell = y.dwell
  BY <1>1, <1>6 DEF YT
<1>8. Arming(listening, ch, origin, inFlight)
  BY <1>1, <1>5, <1>7 DEF Arming
<1>9. WithBare(plan, y) \in {y, listening}
  BY DEF WithBare, bare, told
<1>10. QED
  BY <1>8, <1>9

\* fly keeps the service's state good.
LEMMA FlownGood ==
  ASSUME NEW x, Good(x), NEW dwell \in DwellT, OfItsSecond(lost, dwell)
  PROVE  /\ Good(Flown(x, dwell)) /\ Flown(x, dwell).aborted = x.aborted
         /\ Flown(x, dwell).rf = x.rf
<1>1. x \in XT /\ x.current \in DwellT /\ x.retired \in DwellT
  BY DEF Good, XT
<1>2. /\ Flown(x, dwell) \in XT /\ Flown(x, dwell).current = dwell
      /\ Flown(x, dwell).next = x.next /\ Flown(x, dwell).rf = x.rf
      /\ Flown(x, dwell).aborted = x.aborted
  BY <1>1 DEF Flown, XT
<1>3. QED
  BY <1>2 DEF Good

\* So does what the service keeps of a dwell it armed.
LEMMA KeptGood ==
  ASSUME NEW x, Good(x), NEW ch, NEW origin, NEW y, Arming(y, ch, origin, x.rf.flying.ch), NEW role
  PROVE  Good(Kept(x, y, role))
<1> DEFINE told == [x EXCEPT !.rf = y.rf]
           queuedUp == [told EXCEPT !.next = y.dwell, !.ahead = TRUE]
           again == [told EXCEPT !.current = y.dwell]
<1>1. /\ x \in XT /\ OfItsSecond(lost, x.current) /\ OfItsSecond(lost, x.next)
      /\ ~x.aborted => x.rf.flying.ch = flying.ch
  BY DEF Good
<1>2. /\ y \in YT /\ GoodRf(lost, y.rf) /\ y.rf.flying.ch = x.rf.flying.ch
      /\ y.dwell \in DwellT /\ y.rf \in Plans /\ OfItsSecond(lost, y.dwell)
  BY DEF Arming, YT
<1>3. /\ told \in XT /\ told.rf = y.rf /\ told.current = x.current /\ told.next = x.next
      /\ told.aborted = x.aborted
  BY <1>1, <1>2 DEF XT
<1>4. Good(told)
  BY <1>1, <1>2, <1>3 DEF Good
<1>5. Good(queuedUp)
  <2>1. /\ queuedUp \in XT /\ queuedUp.rf = y.rf /\ queuedUp.current = x.current
        /\ queuedUp.next = y.dwell /\ queuedUp.aborted = x.aborted
    BY <1>1, <1>2 DEF XT
  <2>2. QED
    BY <1>1, <1>2, <2>1 DEF Good
<1>6. Good(again)
  <2>1. /\ again \in XT /\ again.rf = y.rf /\ again.current = y.dwell
        /\ again.next = x.next /\ again.aborted = x.aborted
    BY <1>1, <1>2 DEF XT
  <2>2. QED
    BY <1>1, <1>2, <2>1 DEF Good
<1>7. Good(Flown(told, y.dwell))
  BY <1>2, <1>4, FlownGood
<1>8. Kept(x, y, role) \in {told, queuedUp, again, Flown(told, y.dwell)}
  BY DEF Kept
<1>9. QED
  BY <1>4, <1>5, <1>6, <1>7, <1>8

\* arm_dwell, its bursts and what is kept of it.
LEMMA ArmDwellGood ==
  ASSUME TimeOK, NEW x, Good(x), NEW v, NEW ch, NEW plan, NEW origin,
         Armable(v, ch, plan, origin), NEW role
  PROVE  Good(ArmDwell(v, x, plan, origin, role))
<1> DEFINE was == IF role = "next" THEN x.next ELSE x.current
           opened == Opened(v, plan, origin, role)
           again == /\ role = "current" \/ x.ahead
                    /\ was.ch = opened.ch /\ was.until = opened.until
           unarmed == [dwell |-> IF again THEN was ELSE opened, rf |-> x.rf, origin |-> origin,
                       start |-> opened.from, end |-> opened.until, again |-> again,
                       on |-> again, carried |-> FALSE, refused |-> FALSE]
<1>1. /\ x \in XT /\ OfItsSecond(lost, x.current) /\ OfItsSecond(lost, x.next)
      /\ GoodRf(lost, x.rf) /\ x.ahead \in BOOLEAN
      /\ x.current \in DwellT /\ x.next \in DwellT /\ x.rf \in Plans
  BY DEF Good, XT
<1>2. /\ ViewOK(v) /\ ch \in Channels /\ plan = Plan(ch, v.locked) /\ plan.dwell = ch
      /\ plan.start = DwellStart(ch) /\ plan.end = DwellEnd(ch)
      /\ origin \in Int /\ origin > 0 - Wrap /\ (ch # "uplink" => origin = v.origin)
      /\ DwellStart(ch) \in Nat /\ DwellEnd(ch) \in Nat /\ now \in Nat
  BY DwellsTyped DEF Armable, Plan, TimeOK
<1>3. /\ opened.ch = ch /\ opened.until = InstantUs(origin, DwellEnd(ch)) /\ opened.utc = v.utc
      /\ opened \in DwellT
  <2>1. InstantUs(origin, DwellEnd(ch)) \in Nat /\ InstantUs(origin, DwellStart(ch)) \in Nat
    BY <1>2 DEF InstantUs, GreaterOf
  <2>2. v.utc \in Int
    BY <1>2 DEF ViewOK
  <2>3. GreaterOf(InstantUs(origin, DwellStart(ch)), now) \in Nat
    BY <1>2, <2>1 DEF GreaterOf
  <2>4. QED
    BY <1>2, <2>1, <2>2, <2>3 DEF Opened, DwellT
<1>4. OfItsSecond(lost, opened)
  <2> SUFFICES ASSUME lost = 0, opened.ch \in {"slot0", "slot1"},
                      (opened.until - DwellEnd(opened.ch)) % SecondMs = 0
               PROVE  opened.utc = UtcAt(opened.until - DwellEnd(opened.ch))
    BY DEF OfItsSecond
  <2>1. ch \in {"slot0", "slot1"} /\ origin = v.origin /\ DwellEnd(ch) >= Wrap
    BY <1>2, <1>3, MapFacts DEF DwellEnd
  <2>2. opened.until - DwellEnd(opened.ch) = v.origin
    BY <1>2, <1>3, <2>1, MapFacts DEF InstantUs, GreaterOf
  <2>3. v.origin % SecondMs = 0
    BY <2>2
  <2>4. QED
    BY <1>2, <1>3, <2>2, <2>3 DEF ViewOK
<1> HIDE DEF opened
<1>5. /\ again \in BOOLEAN /\ was \in DwellT /\ OfItsSecond(lost, was)
      /\ again => was.ch = ch /\ was.until = opened.until
  BY <1>1, <1>3
<1> HIDE DEF again, was
<1>6. Arming(unarmed, ch, origin, x.rf.flying.ch)
  <2>1. unarmed.dwell = was \/ unarmed.dwell = opened
    OBVIOUS
  <2>2. /\ unarmed.dwell \in DwellT /\ unarmed.dwell.ch = ch /\ unarmed.dwell.until = opened.until
        /\ OfItsSecond(lost, unarmed.dwell)
    BY <1>3, <1>4, <1>5
  <2>3. opened.from \in Nat /\ opened.until \in Nat
    BY <1>3 DEF DwellT
  <2>4. unarmed \in YT
    BY <1>1, <1>2, <1>5, <2>2, <2>3 DEF YT
  <2>5. /\ unarmed.rf = x.rf /\ unarmed.end = opened.until /\ unarmed.origin = origin
    OBVIOUS
  <2>6. QED
    BY <1>1, <1>3, <2>2, <2>4, <2>5 DEF Arming
<1> HIDE DEF unarmed
<1> DEFINE one == WithBurst(v, x, plan, unarmed, "position")
           two == WithBurst(v, x, plan, one, "callsign")
<1>7. Arming(one, ch, origin, x.rf.flying.ch)
  BY <1>6, WithBurstKept DEF Payloads
<1> HIDE DEF one
<1>8. Arming(two, ch, origin, x.rf.flying.ch)
  BY <1>7, WithBurstKept DEF Payloads
<1> HIDE DEF two
<1>9. Arming(WithBare(plan, two), ch, origin, x.rf.flying.ch)
  BY <1>8, WithBareKept
<1>10. Good(Kept(x, WithBare(plan, two), role))
  BY <1>9, KeptGood
<1>11. ArmDwell(v, x, plan, origin, role) = Kept(x, WithBare(plan, two), role)
  BY DEF ArmDwell, two, one, unarmed, again, was, opened
<1>12. QED
  BY <1>10, <1>11

-----------------------------------------------------------------------------
(* RadioService::tick.                                                     *)

\* The dwell the view is in may be armed.
LEMMA HereArmable ==
  ASSUME NEW v, ViewOK(v)
  PROVE  Armable(v, v.plan.dwell, v.plan, v.origin)
BY DEF Armable, ViewOK

\* So may the next, which is of this second unless it is the uplink.
LEMMA UpcomingArmable ==
  ASSUME NEW v, ViewOK(v)
  PROVE  \E ch : Armable(v, ch, Upcoming(v).plan, Upcoming(v).origin)
<1>1. /\ v.plan.dwell \in {"uplink", "slot0", "slot1"}
      /\ v.origin \in Int /\ v.origin > 0 - Wrap
      /\ v.origin + SecondMs \in Int /\ v.origin + SecondMs > 0 - Wrap
  BY MapFacts DEF ViewOK, Channels
<1>2. CASE v.plan.dwell = "slot0"
  <2>1. Upcoming(v).plan = Plan("slot1", v.locked) /\ Upcoming(v).origin = v.origin
    BY <1>2 DEF Upcoming
  <2>2. Armable(v, "slot1", Upcoming(v).plan, Upcoming(v).origin)
    BY <1>1, <2>1 DEF Armable, Channels
  <2>3. QED
    BY <2>2
<1>3. CASE v.plan.dwell = "slot1"
  <2>1. Upcoming(v).plan = Plan("uplink", v.locked) /\ Upcoming(v).origin = v.origin + SecondMs
    BY <1>3 DEF Upcoming
  <2>2. Armable(v, "uplink", Upcoming(v).plan, Upcoming(v).origin)
    BY <1>1, <2>1 DEF Armable, Channels
  <2>3. QED
    BY <2>2
<1>4. CASE v.plan.dwell = "uplink"
  <2>1. Upcoming(v).plan = Plan("slot0", v.locked) /\ Upcoming(v).origin = v.origin
    BY <1>4 DEF Upcoming
  <2>2. Armable(v, "slot0", Upcoming(v).plan, Upcoming(v).origin)
    BY <1>1, <2>1 DEF Armable, Channels
  <2>3. QED
    BY <2>2
<1>5. QED
  BY <1>1, <1>2, <1>3, <1>4

\* queue_next keeps the state good.
LEMMA QueueNextGood ==
  ASSUME TimeOK, NEW x, Good(x), NEW v, ViewOK(v)
  PROVE  Good(QueueNext(v, x))
<1>1. PICK ch : Armable(v, ch, Upcoming(v).plan, Upcoming(v).origin)
  BY UpcomingArmable
<1>2. Good(ArmDwell(v, x, Upcoming(v).plan, Upcoming(v).origin, "next"))
  BY <1>1, ArmDwellGood
<1>3. QED
  BY <1>2 DEF QueueNext

\* A dwell cut short: the plan in flight loses its channel, and the queued one is
\* dropped.
LEMMA CutGood ==
  ASSUME NEW x, Good(x), ~x.aborted, NEW gone \in BOOLEAN,
         NEW cut, cut = [x EXCEPT !.ahead = FALSE, !.aborted = gone,
                                  !.rf = IF gone THEN Aborted(@) ELSE @]
  PROVE  Good(cut)
<1>1. /\ x \in XT /\ x.rf \in Plans /\ GoodRf(lost, x.rf) /\ x.rf.flying.ch = flying.ch
      /\ OfItsSecond(lost, x.current) /\ OfItsSecond(lost, x.next)
  BY DEF Good, XT
<1>2. x.rf.flying \in PlanT
  BY <1>1 DEF Plans
<1>3. GoodPlan(lost, NoPlan)
  <2>1. <<>> \in Seq(Burst)
    OBVIOUS
  <2>2. QED
    BY <2>1 DEF GoodPlan, NoPlan, PlanT
<1>4. GoodPlan(lost, Landed(x.rf.flying))
  BY <1>2 DEF GoodPlan, Landed, PlanT
<1>5. GoodRf(lost, Aborted(x.rf)) /\ Aborted(x.rf) \in Plans
  BY <1>3, <1>4 DEF GoodRf, GoodPlan, Aborted, Plans
<1>6. CASE gone
  <2>1. /\ cut \in XT /\ cut.rf = Aborted(x.rf) /\ cut.aborted = TRUE
        /\ cut.current = x.current /\ cut.next = x.next
    BY <1>1, <1>5, <1>6 DEF XT
  <2>2. QED
    BY <1>1, <1>5, <2>1 DEF Good
<1>7. CASE ~gone
  <2>1. /\ cut \in XT /\ cut.rf = x.rf /\ cut.current = x.current /\ cut.next = x.next
    BY <1>1, <1>7 DEF XT
  <2>2. QED
    BY <1>1, <2>1 DEF Good
<1>8. QED
  BY <1>6, <1>7

\* RadioService::tick, what was sent once settled.
LEMMA TickedGood ==
  ASSUME TimeOK, NEW x, Good(x), ~x.aborted, NEW v, ViewOK(v)
  PROVE  Good(Ticked(v, x))
<1> DEFINE gone == x.current.ch # "none"
           cut == [x EXCEPT !.ahead = FALSE, !.aborted = gone,
                            !.rf = IF gone THEN Aborted(@) ELSE @]
           armed == IF ~Holds(x.current, v.plan) THEN ArmDwell(v, cut, v.plan, v.origin, "current")
                    ELSE IF Owes(v, x, x.current, v.plan, v.origin)
                    THEN ArmDwell(v, x, v.plan, v.origin, "current")
                    ELSE x
<1>1. Good(cut)
  <2>1. gone \in BOOLEAN
    OBVIOUS
  <2> HIDE DEF gone
  <2>2. QED
    BY <2>1, CutGood
<1> HIDE DEF cut
<1>2. Good(ArmDwell(v, cut, v.plan, v.origin, "current"))
  BY <1>1, HereArmable, ArmDwellGood
<1>3. Good(ArmDwell(v, x, v.plan, v.origin, "current"))
  BY HereArmable, ArmDwellGood
<1>4. Good(armed)
  BY <1>2, <1>3
<1> HIDE DEF armed
<1>5. Good(QueueNext(v, armed))
  BY <1>4, QueueNextGood
<1>6. Ticked(v, x) \in {x, QueueNext(v, armed)}
  BY DEF Ticked, armed, cut
<1>7. QED
  BY <1>5, <1>6

\* promote keeps the state good.
LEMMA PromotedGood ==
  ASSUME NEW x, Good(x)
  PROVE  Good(Promoted(x)) /\ Promoted(x).aborted = x.aborted
<1>1. x.next \in DwellT /\ OfItsSecond(lost, x.next)
  BY DEF Good, XT
<1>2. PICK flown : flown = Flown(x, x.next)
  OBVIOUS
<1>3. Good(flown) /\ flown.aborted = x.aborted
  BY <1>1, <1>2, FlownGood
<1>4. PICK p : p = [flown EXCEPT !.ahead = FALSE]
  OBVIOUS
<1>5. /\ p \in XT /\ p.rf = flown.rf /\ p.current = flown.current /\ p.next = flown.next
      /\ p.aborted = flown.aborted
  BY <1>3, <1>4 DEF Good, XT
<1>6. Good(p)
  BY <1>3, <1>5 DEF Good
<1>7. Promoted(x) = p
  BY <1>2, <1>4 DEF Promoted
<1>8. QED
  BY <1>3, <1>5, <1>6, <1>7

\* So does flying the queued dwell when it has begun.
LEMMA AdvancedGood ==
  ASSUME NEW x, Good(x)
  PROVE  Good(Advanced(x)) /\ Advanced(x).aborted = x.aborted
BY PromotedGood DEF Advanced

-----------------------------------------------------------------------------
(* What became of what was sent.                                           *)

\* A set of numbers that is not empty has a least.
LEMMA LeastOf ==
  ASSUME NEW S \in SUBSET Nat, S # {}
  PROVE  \E n \in S : \A m \in S : n <= m
<1>1. PICK n \in S : \A m \in S : ~ (<<m, n>> \in OpToRel(<, Nat))
  BY NatLessThanWellFounded, WFMin
<1>2. \A m \in S : ~ (m < n)
  BY <1>1 DEF OpToRel
<1>3. QED
  BY <1>2

\* A dwell's second hangs on its channel, its end and the second it was armed in.
LEMMA DwellKept ==
  ASSUME NEW d \in DwellT, OfItsSecond(lost, d), NEW e \in DwellT,
         e.ch = d.ch, e.until = d.until, e.utc = d.utc
  PROVE  OfItsSecond(lost, e)
BY DEF OfItsSecond

\* A burst settled is dropped from its dwell,
LEMMA DroppedKept ==
  ASSUME NEW d \in DwellT, OfItsSecond(lost, d), NEW p \in Payloads
  PROVE  Dropped(d, p) \in DwellT /\ OfItsSecond(lost, Dropped(d, p))
<1>1. /\ Dropped(d, p) \in DwellT /\ Dropped(d, p).ch = d.ch /\ Dropped(d, p).until = d.until
      /\ Dropped(d, p).utc = d.utc
  BY DEF Dropped, DwellT
<1>2. QED
  BY <1>1, DwellKept

\* and a dwell too old is emptied.
LEMMA ExpiredKept ==
  ASSUME NEW d \in DwellT
  PROVE  /\ Expired(d) \in DwellT
         /\ OfItsSecond(lost, d) => OfItsSecond(lost, Expired(d))
<1>1. PICK e : e = [d EXCEPT !.at = [p \in Payloads |-> 0]]
  OBVIOUS
<1>2. e \in DwellT /\ e.ch = d.ch /\ e.until = d.until /\ e.utc = d.utc
  BY <1>1 DEF DwellT
<1>3. OfItsSecond(lost, d) => OfItsSecond(lost, e)
  BY <1>2, DwellKept
<1>4. Expired(d) \in {d, e}
  BY <1>1 DEF Expired, Emptied
<1>5. QED
  BY <1>2, <1>3, <1>4

\* spend keeps the state good,
LEMMA SpendGood ==
  ASSUME NEW x, Good(x), NEW which \in {"current", "retired", "next"}, NEW p \in Payloads
  PROVE  Good(Spend(x, which, p)) /\ Spend(x, which, p).aborted = x.aborted
<1>1. /\ x \in XT /\ x.current \in DwellT /\ x.next \in DwellT /\ x.retired \in DwellT
      /\ OfItsSecond(lost, x.current) /\ OfItsSecond(lost, x.next)
      /\ x.current.utc \in Int /\ x.next.utc \in Int /\ x.retired.utc \in Int
  BY DEF Good, XT, DwellT
<1>2. CASE which = "current"
  <2>1. PICK d : d = Dropped(x.current, p)
    OBVIOUS
  <2>2. d \in DwellT /\ OfItsSecond(lost, d)
    BY <1>1, <2>1, DroppedKept
  <2>3. PICK s : s = [x EXCEPT !.sent[p] = x.current.utc, !.current = d]
    OBVIOUS
  <2>4. /\ s \in XT /\ s.current = d /\ s.next = x.next /\ s.rf = x.rf /\ s.aborted = x.aborted
    BY <1>1, <2>2, <2>3 DEF XT
  <2>5. Spend(x, which, p) = s
    BY <1>1, <1>2, <2>1, <2>3 DEF Spend, SpentIn
  <2>6. QED
    BY <1>1, <2>2, <2>4, <2>5 DEF Good
<1>3. CASE which = "retired"
  <2>1. PICK d : d = Dropped(x.retired, p)
    OBVIOUS
  <2>2. d \in DwellT
    BY <1>1, <2>1 DEF Dropped, DwellT
  <2>3. PICK s : s = [x EXCEPT !.sent[p] = x.retired.utc, !.retired = d]
    OBVIOUS
  <2>4. /\ s \in XT /\ s.current = x.current /\ s.next = x.next /\ s.rf = x.rf
        /\ s.aborted = x.aborted
    BY <1>1, <2>2, <2>3 DEF XT
  <2>5. Spend(x, which, p) = s
    BY <1>1, <1>3, <2>1, <2>3 DEF Spend, SpentIn
  <2>6. QED
    BY <1>1, <2>4, <2>5 DEF Good
<1>4. CASE which = "next"
  <2>1. PICK d : d = Dropped(x.next, p)
    OBVIOUS
  <2>2. d \in DwellT /\ OfItsSecond(lost, d)
    BY <1>1, <2>1, DroppedKept
  <2>3. PICK s : s = [x EXCEPT !.sent[p] = x.next.utc, !.next = d]
    OBVIOUS
  <2>4. /\ s \in XT /\ s.current = x.current /\ s.next = d /\ s.rf = x.rf /\ s.aborted = x.aborted
    BY <1>1, <2>2, <2>3 DEF XT
  <2>5. Spend(x, which, p) = s
    BY <1>1, <1>4, <2>1, <2>3 DEF Spend, SpentIn
  <2>6. QED
    BY <1>1, <2>2, <2>4, <2>5 DEF Good
<1>5. QED
  BY <1>2, <1>3, <1>4

\* so does crediting an instant, whoever claims it,
LEMMA CreditGood ==
  ASSUME NEW x, Good(x), NEW at
  PROVE  Good(Credit(x, at)) /\ Credit(x, at).aborted = x.aborted
<1> DEFINE Claims(which, p) == /\ which = "next" => x.ahead
                               /\ x[which].at[p] = at
           asked == <<<<"current", "position">>, <<"current", "callsign">>,
                      <<"retired", "position">>, <<"retired", "callsign">>,
                      <<"next", "position">>, <<"next", "callsign">>>>
           claiming == {i \in DOMAIN asked : Claims(asked[i][1], asked[i][2])}
           least == CHOOSE i \in claiming : \A j \in claiming : i <= j
           first == asked[least]
           unclaimed == [x EXCEPT !.sent.position = SpentIn(x, x.current)]
<1>1. /\ x \in XT /\ x.current \in DwellT /\ x.current.utc \in Int
  BY DEF Good, XT, DwellT
<1>2. /\ claiming # {} => first[1] \in {"current", "retired", "next"} /\ first[2] \in Payloads
  <2>1. claiming \in SUBSET (1 .. 6) /\ claiming \in SUBSET Nat
    OBVIOUS
  <2> SUFFICES ASSUME claiming # {}
               PROVE  first[1] \in {"current", "retired", "next"} /\ first[2] \in Payloads
    OBVIOUS
  <2> HIDE DEF claiming
  <2>2. \E i \in claiming : \A j \in claiming : i <= j
    BY <2>1, LeastOf
  <2>3. least \in claiming
    BY <2>2
  <2>4. least \in 1 .. 6
    BY <2>1, <2>3
  <2> HIDE DEF least
  <2>5. \A i \in 1 .. 6 : asked[i][1] \in {"current", "retired", "next"} /\ asked[i][2] \in Payloads
    BY DEF Payloads
  <2>6. QED
    BY <2>4, <2>5
<1>3. claiming # {} =>
        /\ Good(Spend(x, first[1], first[2]))
        /\ Spend(x, first[1], first[2]).aborted = x.aborted
  <2> HIDE DEF claiming, first
  <2>1. QED
    BY <1>2, SpendGood
<1>4. /\ Good(Spend(x, "current", FirstCarried(x.current)))
      /\ Spend(x, "current", FirstCarried(x.current)).aborted = x.aborted
  <2>1. FirstCarried(x.current) \in Payloads
    BY DEF FirstCarried, Payloads
  <2>2. QED
    BY <2>1, SpendGood
<1>5. Good(unclaimed) /\ unclaimed.aborted = x.aborted
  <2>1. /\ unclaimed \in XT /\ unclaimed.current = x.current /\ unclaimed.next = x.next
        /\ unclaimed.rf = x.rf /\ unclaimed.aborted = x.aborted
    BY <1>1 DEF XT, SpentIn, Payloads
  <2>2. QED
    BY <2>1 DEF Good
<1>6. Credit(x, at) = IF claiming # {} THEN Spend(x, first[1], first[2])
                      ELSE IF CarriesAny(x.current)
                      THEN Spend(x, "current", FirstCarried(x.current))
                      ELSE unclaimed
  BY DEF Credit
<1> HIDE DEF claiming, first, unclaimed
<1>7. QED
  BY <1>3, <1>4, <1>5, <1>6

\* and crediting it a pass late.
LEMMA CreditedGood ==
  ASSUME NEW x, Good(x), NEW at
  PROVE  Good(Credited(x, at)) /\ Credited(x, at).aborted = x.aborted
<1>1. Good(Credit(x, at)) /\ Credit(x, at).aborted = x.aborted
  BY CreditGood
<1>2. Good(Promoted(x)) /\ Promoted(x).aborted = x.aborted
  BY PromotedGood
<1>3. Good(Credit(Promoted(x), at)) /\ Credit(Promoted(x), at).aborted = x.aborted
  BY <1>2, CreditGood
<1>4. Credited(x, at) \in {Credit(x, at), Credit(Promoted(x), at)}
  BY DEF Credited
<1>5. QED
  BY <1>1, <1>3, <1>4

\* The loop over the reports of a pass is a recursive function; there is one,
\* since there is one as far as any report.
CreditOnce(x, f) == [n \in 0 .. Len(done) |-> IF n = 0 THEN x ELSE Credited(f[n - 1], done[n])]
CreditLoop(x) == CHOOSE f : f = CreditOnce(x, f)

\* The loop over what was told is a function: each turn hangs on the one before.
LEMMA CreditLoopDefined ==
  ASSUME NEW x, Len(done) \in Nat
  PROVE  CreditLoop(x) = CreditOnce(x, CreditLoop(x))
<1> DEFINE Runs(f, m) ==
             f = [i \in 0 .. m |-> IF i = 0 THEN x ELSE Credited(f[i - 1], done[i])]
           lack == {m \in Nat : ~ \E f : Runs(f, m)}
<1>1. ASSUME lack # {} PROVE FALSE
  <2>1. PICK m \in lack : \A n \in lack : m <= n
    BY <1>1, LeastOf
  <2>2. CASE m = 0
    <3> DEFINE f == [i \in 0 .. 0 |-> x]
    <3>1. f = [i \in 0 .. 0 |-> IF i = 0 THEN x ELSE Credited(f[i - 1], done[i])]
      OBVIOUS
    <3>2. Runs(f, 0)
      BY <3>1
    <3>3. QED
      BY <2>1, <2>2, <3>2
  <2>3. CASE m > 0
    <3>1. m \in Nat /\ m - 1 \in Nat /\ m - 1 \notin lack
      <4>1. m \in Nat /\ m - 1 \in Nat /\ ~ (m <= m - 1)
        BY <2>1, <2>3
      <4> HIDE DEF Runs
      <4>2. QED
        BY <2>1, <4>1
    <3>2. PICK f : Runs(f, m - 1)
      BY <3>1
    <3> DEFINE g == [i \in 0 .. m |-> IF i = m THEN Credited(f[m - 1], done[m]) ELSE f[i]]
    <3>3. \A i \in 0 .. m - 1 : f[i] = IF i = 0 THEN x ELSE Credited(f[i - 1], done[i])
      BY <3>2
    <3>4. \A i \in 0 .. m - 1 : i \in 0 .. m /\ i # m /\ g[i] = f[i]
      BY <3>1
    <3>5. ASSUME NEW i \in 0 .. m
          PROVE  g[i] = IF i = 0 THEN x ELSE Credited(g[i - 1], done[i])
      <4>1. CASE i = m
        <5>1. m - 1 \in 0 .. m - 1 /\ i # 0
          BY <2>3, <3>1, <4>1
        <5>2. QED
          BY <3>4, <4>1, <5>1
      <4>2. CASE i # m
        <5>1. i \in 0 .. m - 1 /\ (i # 0 => i - 1 \in 0 .. m - 1)
          BY <3>1, <4>2
        <5>2. QED
          BY <3>3, <3>4, <5>1
      <4>3. QED
        BY <4>1, <4>2
    <3>6. g = [i \in 0 .. m |-> g[i]]
      OBVIOUS
    <3> HIDE DEF g
    <3>7. Runs(g, m)
      BY <3>5, <3>6
    <3>8. QED
      BY <2>1, <3>1, <3>7
  <2>4. QED
    BY <2>1, <2>2, <2>3
<1>2. Len(done) \notin lack
  BY <1>1
<1>3. \E f : Runs(f, Len(done))
  BY <1>2
<1>4. \E f : f = CreditOnce(x, f)
  BY <1>3 DEF CreditOnce
<1>5. QED
  BY <1>4 DEF CreditLoop

\* collect_outcome keeps the state good.
LEMMA CollectedGood ==
  ASSUME NEW x, Good(x), Len(done) \in Nat
  PROVE  Good(Collected(x)) /\ Collected(x).aborted = x.aborted
<1> DEFINE told == CreditLoop(x)
           Kept2(n) == Good(told[n]) /\ told[n].aborted = x.aborted
           lack == {n \in Nat : n \in 0 .. Len(done) /\ ~Kept2(n)}
           last == told[Len(done)]
           settled == [last EXCEPT !.current = Expired(@), !.retired = Expired(@)]
<1>1. \A n \in 0 .. Len(done) : told[n] = IF n = 0 THEN x ELSE Credited(told[n - 1], done[n])
  <2>1. told = CreditOnce(x, told)
    BY CreditLoopDefined
  <2> HIDE DEF told
  <2>2. QED
    BY <2>1 DEF CreditOnce
<1>2. Collected(x) = settled
  BY DEF Collected, CreditLoop, CreditOnce
<1> HIDE DEF told
<1>3. ASSUME lack # {} PROVE FALSE
  <2>1. PICK m \in lack : \A n \in lack : m <= n
    BY <1>3, LeastOf
  <2>2. m \in Nat /\ m \in 0 .. Len(done)
    BY <2>1
  <2>3. CASE m = 0
    BY <1>1, <2>1, <2>2, <2>3
  <2>4. CASE m > 0
    <3>1. m - 1 \in Nat /\ m - 1 \in 0 .. Len(done) /\ ~ (m <= m - 1)
      BY <2>2, <2>4
    <3>2. m - 1 \notin lack
      BY <2>1, <3>1
    <3>3. Kept2(m - 1)
      BY <3>1, <3>2
    <3>4. told[m] = Credited(told[m - 1], done[m])
      BY <1>1, <2>2, <2>4
    <3>5. Kept2(m)
      BY <3>3, <3>4, CreditedGood
    <3>6. QED
      BY <2>1, <3>5
  <2>5. QED
    BY <2>2, <2>3, <2>4
<1>4. Len(done) \in 0 .. Len(done)
  OBVIOUS
<1>5. Good(last) /\ last.aborted = x.aborted
  BY <1>3, <1>4
<1> HIDE DEF last
<1>6. /\ last \in XT /\ last.current \in DwellT /\ last.retired \in DwellT
      /\ OfItsSecond(lost, last.current)
  BY <1>5 DEF Good, XT
<1>7. /\ Expired(last.current) \in DwellT /\ OfItsSecond(lost, Expired(last.current))
      /\ Expired(last.retired) \in DwellT
  BY <1>6, ExpiredKept
<1>8. /\ settled \in XT /\ settled.current = Expired(last.current) /\ settled.next = last.next
      /\ settled.rf = last.rf /\ settled.aborted = last.aborted
  BY <1>6, <1>7 DEF XT
<1>9. Good(settled)
  BY <1>5, <1>7, <1>8 DEF Good
<1>10. QED
  BY <1>2, <1>5, <1>8, <1>9

IsSeq(s) == \E S : s \in Seq(S)

SentOnce(told, f) ==
  [n \in 0 .. Len(told) |->
    IF n = 0 THEN <<>>
    ELSE IF told[n].type = "TxDone" THEN Append(f[n - 1], told[n].at) ELSE f[n - 1]]
SentLoop(told) == CHOOSE f : f = SentOnce(told, f)

\* The loop that drains the reports is a function too,
LEMMA SentLoopDefined ==
  ASSUME NEW told, Len(told) \in Nat
  PROVE  SentLoop(told) = SentOnce(told, SentLoop(told))
<1> DEFINE Runs(f, m) ==
             f = [i \in 0 .. m |->
                   IF i = 0 THEN <<>>
                   ELSE IF told[i].type = "TxDone" THEN Append(f[i - 1], told[i].at)
                   ELSE f[i - 1]]
           lack == {m \in Nat : ~ \E f : Runs(f, m)}
<1>1. ASSUME lack # {} PROVE FALSE
  <2>1. PICK m \in lack : \A n \in lack : m <= n
    BY <1>1, LeastOf
  <2>2. CASE m = 0
    <3> DEFINE f == [i \in 0 .. 0 |-> <<>>]
    <3>1. f = [i \in 0 .. 0 |->
                IF i = 0 THEN <<>>
                ELSE IF told[i].type = "TxDone" THEN Append(f[i - 1], told[i].at)
                ELSE f[i - 1]]
      OBVIOUS
    <3>2. Runs(f, 0)
      BY <3>1
    <3>3. QED
      BY <2>1, <2>2, <3>2
  <2>3. CASE m > 0
    <3>1. m \in Nat /\ m - 1 \in Nat /\ m - 1 \notin lack
      <4>1. m \in Nat /\ m - 1 \in Nat /\ ~ (m <= m - 1)
        BY <2>1, <2>3
      <4> HIDE DEF Runs
      <4>2. QED
        BY <2>1, <4>1
    <3>2. PICK f : Runs(f, m - 1)
      BY <3>1
    <3> DEFINE g == [i \in 0 .. m |->
                      IF i # m THEN f[i]
                      ELSE IF told[m].type = "TxDone" THEN Append(f[m - 1], told[m].at)
                      ELSE f[m - 1]]
    <3>3. \A i \in 0 .. m - 1 : 
            f[i] = IF i = 0 THEN <<>>
                   ELSE IF told[i].type = "TxDone" THEN Append(f[i - 1], told[i].at)
                   ELSE f[i - 1]
      BY <3>2
    <3>4. \A i \in 0 .. m - 1 : i \in 0 .. m /\ i # m /\ g[i] = f[i]
      BY <3>1
    <3>5. ASSUME NEW i \in 0 .. m
          PROVE  g[i] = IF i = 0 THEN <<>>
                        ELSE IF told[i].type = "TxDone" THEN Append(g[i - 1], told[i].at)
                        ELSE g[i - 1]
      <4>1. CASE i = m
        <5>1. m - 1 \in 0 .. m - 1 /\ i # 0
          BY <2>3, <3>1, <4>1
        <5>2. QED
          BY <3>4, <4>1, <5>1
      <4>2. CASE i # m
        <5>1. i \in 0 .. m - 1 /\ (i # 0 => i - 1 \in 0 .. m - 1)
          BY <3>1, <4>2
        <5>2. QED
          BY <3>3, <3>4, <5>1
      <4>3. QED
        BY <4>1, <4>2
    <3>6. g = [i \in 0 .. m |-> g[i]]
      OBVIOUS
    <3> HIDE DEF g
    <3>7. Runs(g, m)
      BY <3>5, <3>6
    <3>8. QED
      BY <2>1, <3>1, <3>7
  <2>4. QED
    BY <2>1, <2>2, <2>3
<1>2. Len(told) \notin lack
  BY <1>1
<1>3. \E f : Runs(f, Len(told))
  BY <1>2
<1>4. \E f : f = SentOnce(told, f)
  BY <1>3 DEF SentOnce
<1>5. QED
  BY <1>4 DEF SentLoop

\* and the instants it tells of are a sequence.
LEMMA SentIsSeq ==
  ASSUME NEW told, IsSeq(told)
  PROVE  IsSeq(SentOf(told))
<1>1. Len(told) \in Nat
  BY DEF IsSeq
<1> DEFINE sent == SentLoop(told)
           Instants == {told[i].at : i \in 1 .. Len(told)}
           lack == {n \in Nat : n \in 0 .. Len(told) /\ sent[n] \notin Seq(Instants)}
<1>2. \A n \in 0 .. Len(told) :
        sent[n] = IF n = 0 THEN <<>>
                  ELSE IF told[n].type = "TxDone" THEN Append(sent[n - 1], told[n].at)
                  ELSE sent[n - 1]
  <2>1. sent = SentOnce(told, sent)
    BY <1>1, SentLoopDefined
  <2> HIDE DEF sent
  <2>2. QED
    BY <2>1 DEF SentOnce
<1>3. SentOf(told) = sent[Len(told)]
  BY DEF SentOf, SentLoop, SentOnce
<1> HIDE DEF sent
<1>4. ASSUME lack # {} PROVE FALSE
  <2>1. PICK m \in lack : \A n \in lack : m <= n
    BY <1>4, LeastOf
  <2>2. m \in Nat /\ m \in 0 .. Len(told)
    BY <2>1
  <2>3. CASE m = 0
    <3>1. sent[m] = <<>>
      BY <1>2, <2>2, <2>3
    <3> HIDE DEF Instants
    <3>2. sent[m] \in Seq(Instants)
      BY <3>1
    <3>3. QED
      BY <2>1, <3>2
  <2>4. CASE m > 0
    <3>1. m - 1 \in Nat /\ m - 1 \in 0 .. Len(told) /\ ~ (m <= m - 1) /\ m \in 1 .. Len(told)
      BY <1>1, <2>2, <2>4
    <3>2. m - 1 \notin lack
      BY <2>1, <3>1
    <3>3. sent[m - 1] \in Seq(Instants) /\ told[m].at \in Instants
      BY <3>1, <3>2
    <3> HIDE DEF Instants
    <3>4. Append(sent[m - 1], told[m].at) \in Seq(Instants)
      BY <3>3, AppendProperties
    <3>5. sent[m] = sent[m - 1] \/ sent[m] = Append(sent[m - 1], told[m].at)
      <4>1. m \in 0 .. Len(told) /\ m # 0
        BY <2>2, <2>4
      <4>2. sent[m] = IF told[m].type = "TxDone" THEN Append(sent[m - 1], told[m].at)
                      ELSE sent[m - 1]
        BY <1>2, <4>1
      <4>3. QED
        BY <4>2
    <3>6. sent[m] \in Seq(Instants)
      BY <3>3, <3>4, <3>5
    <3>7. QED
      BY <2>1, <3>6
  <2>5. QED
    BY <2>2, <2>3, <2>4
<1>5. Len(told) \in 0 .. Len(told)
  BY <1>1
<1>6. sent[Len(told)] \in Seq(Instants)
  BY <1>1, <1>4, <1>5
<1>7. QED
  BY <1>3, <1>6 DEF IsSeq

-----------------------------------------------------------------------------
(* The clock.                                                              *)

ClockT == [locked : BOOLEAN, edge : Nat, utc : Int, utcEdge : Nat]
ClockOK(c) ==
  /\ c \in ClockT /\ c.utcEdge % SecondMs = 0 /\ c.utcEdge <= latched
  /\ lost = 0 => c.utc = UtcAt(c.utcEdge)

\* The seconds of an instant are a natural number.
LEMMA SecondsSince ==
  ASSUME NEW t \in Nat
  PROVE  t \div SecondMs \in Nat
<1>1. PICK q, m : q = t \div SecondMs /\ m = t % SecondMs
  OBVIOUS
<1>2. /\ q \in Int /\ m \in 0 .. SecondMs - 1 /\ t = q * SecondMs + m
      /\ SecondMs \in Nat /\ SecondMs > 0
  BY <1>1, Divided, MapFacts
<1>3. ~(q <= -1)
  <2> SUFFICES ASSUME q <= -1 PROVE FALSE
    OBVIOUS
  <2>1. q * SecondMs <= 0 - SecondMs
    BY <1>2
  <2>2. QED
    BY <1>2, <2>1
<1>4. QED
  BY <1>1, <1>2, <1>3

\* carry_utc_to_edge: whole seconds from the edge the UTC was of.
LEMMA ClockCarried ==
  ASSUME TimeOK, NEW c, ClockOK(c)
  PROVE  ClockRead(OnItsEdge(c)) /\ ClockOK(OnItsEdge(c))
<1> DEFINE k == OnItsEdge(c)
           seconds == IF c.utc = 0 \/ latched <= c.utcEdge THEN 0
                      ELSE (latched - c.utcEdge + SecondMs \div 2) \div SecondMs
<1>1. /\ c.utc \in Int /\ c.utcEdge \in Nat /\ c.utcEdge \in Int
      /\ latched \in Nat /\ latched \in Int
      /\ c.utcEdge % SecondMs = 0 /\ latched % SecondMs = 0 /\ c.utcEdge <= latched
      /\ now \in Nat /\ (now - latched < Holdover) \in BOOLEAN
  BY DEF ClockOK, ClockT, TimeOK
<1>2. PICK a, b : a = latched \div SecondMs /\ b = c.utcEdge \div SecondMs
  OBVIOUS
<1>3. a \in Nat /\ b \in Nat
  BY <1>1, <1>2, SecondsSince
<1>4. (latched - c.utcEdge + SecondMs \div 2) \div SecondMs = a - b
  BY <1>1, <1>2, WholeSeconds
<1>5. latched = c.utcEdge => a = b
  BY <1>2
<1>6. seconds \in Int /\ (seconds = 0 \/ seconds = a - b)
  BY <1>3, <1>4
<1>7. lost = 0 => seconds = a - b /\ c.utc = 1 + b
  <2> SUFFICES ASSUME lost = 0 PROVE seconds = a - b /\ c.utc = 1 + b
    OBVIOUS
  <2>1. c.utc = 1 + b
    BY <1>2 DEF ClockOK, UtcAt
  <2>2. c.utc # 0
    BY <1>3, <2>1
  <2>3. CASE latched <= c.utcEdge
    <3>1. latched = c.utcEdge
      BY <1>1, <2>3
    <3>2. QED
      BY <1>3, <1>5, <2>1, <2>3, <3>1
  <2>4. CASE ~(latched <= c.utcEdge)
    BY <1>4, <2>1, <2>2, <2>4
  <2>5. QED
    BY <2>3, <2>4
<1> HIDE DEF seconds
<1>8. /\ k = [locked |-> now - latched < Holdover, edge |-> latched, utc |-> c.utc + seconds,
              utcEdge |-> IF seconds = 0 THEN c.utcEdge ELSE latched]
  BY DEF OnItsEdge, seconds
<1>9. k \in ClockT /\ k.utcEdge % SecondMs = 0 /\ k.utcEdge <= latched /\ k.edge = latched
  BY <1>1, <1>6, <1>8 DEF ClockT
<1>10. lost = 0 => k.utc = UtcAt(k.utcEdge) /\ k.utc = UtcAt(latched)
  <2> SUFFICES ASSUME lost = 0 PROVE k.utc = UtcAt(k.utcEdge) /\ k.utc = UtcAt(latched)
    OBVIOUS
  <2>1. k.utc = 1 + a /\ c.utc = 1 + b
    BY <1>3, <1>7, <1>8
  <2>2. k.utc = UtcAt(latched)
    BY <1>2, <2>1 DEF UtcAt
  <2>3. CASE seconds = 0
    <3>1. k.utcEdge = c.utcEdge /\ a = b
      BY <1>3, <1>7, <1>8, <2>3
    <3>2. QED
      BY <1>2, <2>1, <2>2, <3>1 DEF UtcAt
  <2>4. CASE seconds # 0
    BY <1>8, <2>2, <2>4
  <2>5. QED
    BY <2>3, <2>4
<1>11. lost = 0 => k.utc = UtcAt(now)
  BY <1>10, SecondOfEdge
<1>12. QED
  BY <1>9, <1>10, <1>11 DEF ClockRead, ClockOK, ClockT

\* A sentence anchors the UTC at the edge just latched.
LEMMA AnchoredKept ==
  ASSUME TimeOK, NEW c, ClockRead(c), ClockOK(c), NEW at
  PROVE  ClockRead(Anchored(c, at)) /\ ClockOK(Anchored(c, at))
<1>1. PICK k : k = [c EXCEPT !.utc = UtcAt(now), !.utcEdge = c.edge]
  OBVIOUS
<1>2. now \in Nat /\ latched \in Nat /\ c.edge = latched /\ c \in ClockT /\ latched % SecondMs = 0
  BY DEF TimeOK, ClockRead, ClockOK
<1>3. UtcAt(now) \in Int
  BY <1>2, SecondsSince DEF UtcAt
<1>4. k \in ClockT /\ k.utc = UtcAt(now) /\ k.utcEdge = latched /\ k.edge = latched
  BY <1>1, <1>2, <1>3 DEF ClockT
<1>5. lost = 0 => k.utc = UtcAt(k.utcEdge)
  BY <1>4, SecondOfEdge
<1>6. ClockRead(k) /\ ClockOK(k)
  BY <1>2, <1>4, <1>5 DEF ClockRead, ClockOK, ClockT
<1>7. Anchored(c, at) \in {c, k}
  BY <1>1 DEF Anchored
<1>8. QED
  BY <1>6, <1>7

-----------------------------------------------------------------------------
(* A burst in a dwell of the map is over before the dwell is.              *)

\* It was armed before the dwell's end and with room before the channel's, and
\* the two ends are whole seconds apart.
LEMMA EndsInside ==
  ASSUME NEW at \in Nat, NEW end \in Nat, NEW l, NEW payload, NEW utc, NEW ch,
         WellTimed(l, at, payload, utc, ch), at < end, (end - DwellEnd(ch)) % SecondMs = 0
  PROVE  at + AirTime <= end
<1>1. PICK m : m = at % SecondMs
  OBVIOUS
<1>2. /\ m \in 0 .. SecondMs - 1 /\ SecondMs \in Nat /\ AirTime \in Nat /\ Wrap \in Nat /\ 0 < Wrap
      /\ Wrap < SecondMs
  BY <1>1, Divided, MapFacts
<1>3. ch = DwellAt(m) /\ Within(m) + AirTime <= DwellEnd(ch)
  BY <1>1 DEF WellTimed
<1>4. DwellEnd(ch) \in Nat /\ DwellEnd(ch) <= SecondMs + Wrap
  BY <1>2, <1>3, MapFacts DEF DwellAt, DwellEnd
<1>5. PICK e, w : e = DwellEnd(ch) /\ w = Within(m)
  OBVIOUS
<1>6. w \in Nat /\ w >= Wrap /\ (w = m \/ w = m + SecondMs) /\ w + AirTime <= e
  BY <1>2, <1>3, <1>5 DEF Within, InTail
<1>7. (at - m) % SecondMs = 0
  <2>1. 0 % SecondMs = 0
    BY PhaseAtMost
  <2>2. m = (at - 0) % SecondMs
    BY <1>1
  <2>3. QED
    BY <2>1, <2>2, TopBehind
<1>8. PICK o, p : o = at - w /\ p = end - e
  OBVIOUS
<1>9. o \in Int /\ p \in Int /\ p % SecondMs = 0
  BY <1>4, <1>5, <1>6, <1>8
<1>10. o % SecondMs = 0
  <2>1. CASE w = m
    BY <1>7, <1>8, <2>1
  <2>2. CASE w = m + SecondMs
    <3>1. PICK t : t = at - m
      OBVIOUS
    <3>2. t \in Int /\ t % SecondMs = 0
      BY <1>2, <1>7, <3>1
    <3>3. (t - SecondMs) % SecondMs = 0
      BY <3>2, NextTop
    <3>4. o = t - SecondMs
      BY <1>2, <1>8, <2>2, <3>1
    <3>5. QED
      BY <3>3, <3>4
  <2>3. QED
    BY <1>6, <2>1, <2>2
<1>11. ASSUME ~(at + AirTime <= end) PROVE FALSE
  <2>1. at = o + w /\ end = p + e /\ e \in Nat /\ e <= SecondMs + Wrap
    BY <1>4, <1>5, <1>6, <1>8
  <2>2. o > p
    BY <1>2, <1>6, <1>9, <1>11, <2>1
  <2>3. o < p + SecondMs /\ p < o + SecondMs
    BY <1>2, <1>6, <1>9, <2>1, <2>2
  <2>4. o = p
    BY ONLY <1>9, <1>10, <2>3, SameTop
  <2>5. QED
    BY <1>9, <2>2, <2>4
<1>12. QED
  BY <1>11

-----------------------------------------------------------------------------
(* The invariant.                                                          *)

\* A burst that aired where the map has it, in a dwell that outlasts it.
AiredGood(l, a) ==
  /\ WellTimed(l, a.at, a.payload, a.utc, a.ch)
  /\ (a.end - DwellEnd(a.ch)) % SecondMs = 0 => a.at + AirTime <= a.end

ServiceOK ==
  /\ radio \in [current : DwellT, next : DwellT, ahead : BOOLEAN, retired : DwellT,
                sent : [Payloads -> Int]]
  /\ OfItsSecond(lost, radio.current) /\ OfItsSecond(lost, radio.next)
  /\ IsSeq(done) /\ IsSeq(reports)
PlansOK == GoodPlan(lost, queued) /\ GoodPlan(lost, flying)
ThreadT == [step : {"idle", "waiting", "dwelling"}, keyed : Nat, done : Nat,
            airUntil : Int, abort : BOOLEAN]
ThreadOK ==
  /\ thread \in ThreadT
  /\ thread.step # "idle" /\ ~thread.abort => flying.ch # "none"
AiredOK == \A a \in aired : AiredGood(lost, a)

RadioInv == TimeOK /\ ClockOK(clock) /\ ServiceOK /\ PlansOK /\ ThreadOK /\ AiredOK

-----------------------------------------------------------------------------
(* What was good stays good when another edge is lost.                     *)

\* Only while none is lost is a second promised.
LEMMA TimedStill ==
  ASSUME NEW l \in Nat, NEW k \in Nat, l <= k
  PROVE  /\ \A at, payload, utc, ch :
              WellTimed(l, at, payload, utc, ch) => WellTimed(k, at, payload, utc, ch)
         /\ \A d : OfItsSecond(l, d) => OfItsSecond(k, d)
         /\ \A a : AiredGood(l, a) => AiredGood(k, a)
<1>1. k = 0 => l = 0
  OBVIOUS
<1>2. \A at, payload, utc, ch :
        WellTimed(l, at, payload, utc, ch) => WellTimed(k, at, payload, utc, ch)
  BY ONLY <1>1 DEF WellTimed
<1>3. \A d : OfItsSecond(l, d) => OfItsSecond(k, d)
  BY ONLY <1>1 DEF OfItsSecond
<1>4. \A a : AiredGood(l, a) => AiredGood(k, a)
  BY ONLY <1>2 DEF AiredGood
<1>5. QED
  BY <1>2, <1>3, <1>4

\* A good plan is good still.
LEMMA PlanStill ==
  ASSUME NEW l \in Nat, NEW k \in Nat, l <= k, NEW p, GoodPlan(l, p)
  PROVE  GoodPlan(k, p)
<1>1. GoodBursts(l, p.ch, p.end) \subseteq GoodBursts(k, p.ch, p.end)
  BY TimedStill DEF GoodBursts
<1>2. ASSUME NEW S, NEW T, S \subseteq T, NEW s \in Seq(S) PROVE s \in Seq(T)
  BY <1>2
<1>3. QED
  BY <1>1, <1>2 DEF GoodPlan

\* A plan let go of, and no plan.
LEMMA LandedGood ==
  ASSUME NEW l, NEW p, GoodPlan(l, p)
  PROVE  GoodPlan(l, Landed(p)) /\ Landed(p).ch = "none"
BY DEF GoodPlan, PlanT, Landed

\* An empty slot of the executor.
LEMMA NoPlanGood ==
  ASSUME NEW l
  PROVE  GoodPlan(l, NoPlan) /\ NoPlan.ch = "none"
<1>1. <<>> \in Seq(Burst)
  OBVIOUS
<1>2. QED
  BY <1>1 DEF GoodPlan, PlanT, NoPlan

-----------------------------------------------------------------------------
(* The thread keeps the invariant.                                         *)

\* Reports are told in a sequence.
LEMMA ReportKept ==
  ASSUME IsSeq(reports), NEW type, NEW bursts, IsSeq(bursts), Report(type, bursts)
  PROVE  IsSeq(reports')
<1>1. CASE UNCHANGED reports
  BY <1>1 DEF IsSeq
<1>2. CASE reports' = reports \o [i \in DOMAIN bursts |-> [type |-> type, at |-> bursts[i].at]]
  <2>1. PICK R : reports \in Seq(R)
    BY DEF IsSeq
  <2>2. PICK told : told = [i \in DOMAIN bursts |-> [type |-> type, at |-> bursts[i].at]]
    OBVIOUS
  <2>3. DOMAIN bursts = 1 .. Len(bursts) /\ Len(bursts) \in Nat
    BY DEF IsSeq
  <2>4. PICK T : T = R \cup {told[i] : i \in DOMAIN bursts}
    OBVIOUS
  <2>5. told \in Seq(T)
    BY <2>2, <2>3, <2>4
  <2>6. reports \in Seq(T)
    BY <2>1, <2>4
  <2>7. reports \o told \in Seq(T)
    BY <2>5, <2>6, ConcatProperties
  <2>8. QED
    BY <1>2, <2>2, <2>7 DEF IsSeq
<1>3. QED
  BY <1>1, <1>2 DEF Report

\* What a plan carries is a sequence.
LEMMA BurstsAreSeq ==
  ASSUME NEW l, NEW p, GoodPlan(l, p)
  PROVE  IsSeq(p.bursts)
BY DEF GoodPlan, PlanT, IsSeq

\* The burst keyed is one the dwell in flight carries, and its channel is still
\* flown: an abort would have ended the dwell.
LEMMA KeyAirs ==
  ASSUME TimeOK, PlansOK, ThreadOK, thread.step = "dwelling", KeyDue,
         NEW burst, burst = flying.bursts[thread.keyed + 1],
         NEW a, a = [payload |-> burst.payload, utc |-> burst.utc, at |-> burst.at,
                     keyed |-> now, ch |-> flying.ch, end |-> flying.end]
  PROVE  AiredGood(lost, a)
<1>1. flying.ch # "none"
  BY DEF ThreadOK, KeyDue, Over
<1>2. flying.bursts \in Seq(GoodBursts(lost, flying.ch, flying.end)) /\ flying.end \in Nat
  BY <1>1 DEF PlansOK, GoodPlan, PlanT
<1>3. thread.keyed + 1 \in 1 .. Len(flying.bursts)
  BY <1>2 DEF ThreadOK, ThreadT, KeyDue
<1>4. burst \in GoodBursts(lost, flying.ch, flying.end)
  BY <1>2, <1>3
<1>5. /\ burst.at \in Nat /\ burst.at < flying.end
      /\ WellTimed(lost, burst.at, burst.payload, burst.utc, flying.ch)
  BY <1>4 DEF GoodBursts, Burst
<1>6. (flying.end - DwellEnd(flying.ch)) % SecondMs = 0 => burst.at + AirTime <= flying.end
  BY <1>2, <1>5, EndsInside
<1>7. QED
  BY <1>5, <1>6 DEF AiredGood

\* What is not done of a dwell is a sequence of bursts.
LEMMA UnfinishedIsSeq ==
  ASSUME NEW bursts, IsSeq(bursts), NEW n \in Nat
  PROVE  IsSeq(Unfinished(bursts, n))
<1>1. Len(bursts) \in Nat
  BY DEF IsSeq
<1>2. PICK S : S = {bursts[i] : i \in n + 1 .. Len(bursts)}
  OBVIOUS
<1>3. SubSeq(bursts, n + 1, Len(bursts)) \in Seq(S)
  BY <1>1, <1>2, SubSeqProperties
<1>4. QED
  BY <1>3 DEF Unfinished, IsSeq

\* What the thread may do to the plans, the reports and what aired.
ThreadStep ==
  /\ PlansOK' /\ ThreadOK' /\ IsSeq(reports)' /\ AiredOK'

\* A part that fails ends its dwell.
LEMMA FaultKept ==
  ASSUME RadioInv, UNCHANGED <<lost, queued, aired>>, NEW bursts, IsSeq(bursts), Fault(bursts)
  PROVE  ThreadStep
<1>1. IsSeq(reports)'
  BY ReportKept DEF RadioInv, ServiceOK, Fault
<1>2. GoodPlan(lost, Landed(flying)) /\ GoodPlan(lost, queued)
  BY LandedGood DEF RadioInv, PlansOK
<1>3. QED
  BY <1>1, <1>2 DEF Fault, Asleep, RadioInv, PlansOK, ThreadOK, ThreadT, AiredOK, ThreadStep

\* Whatever the thread does.
LEMMA ThreadKeeps ==
  ASSUME RadioInv, Executor, UNCHANGED lost
  PROVE  ThreadStep
<1> USE DEF ThreadStep
<1>1. IsSeq(reports) /\ GoodPlan(lost, queued) /\ GoodPlan(lost, flying) /\ ThreadOK
  BY DEF RadioInv, ServiceOK, PlansOK
<1>2. CASE Take
  <2>1. GoodPlan(lost, Landed(queued)) /\ GoodPlan(lost, NoPlan)
    BY <1>1, LandedGood, NoPlanGood
  <2>2. IsSeq(queued.bursts)
    BY <1>1, BurstsAreSeq
  <2>3. CASE now >= queued.end
    <3>1. IsSeq(reports)'
      BY <1>1, <1>2, <2>2, <2>3, ReportKept DEF Take
    <3>2. QED
      BY <1>1, <1>2, <2>1, <2>3, <3>1 DEF Take, RadioInv, PlansOK, ThreadOK, ThreadT, AiredOK
  <2>4. CASE ~(now >= queued.end)
    <3>1. /\ queued' = NoPlan /\ flying' = queued /\ queued.ch # "none"
          /\ thread' = [Asleep EXCEPT !.step = "waiting"] /\ UNCHANGED <<reports, aired, lost>>
      BY <1>2, <2>4 DEF Take
    <3>2. thread' = [step |-> "waiting", keyed |-> 0, done |-> 0, airUntil |-> 0, abort |-> FALSE]
      BY <3>1 DEF Asleep
    <3>x. thread' \in ThreadT
      BY <3>2 DEF ThreadT
    <3>3. ThreadOK'
      BY <3>1, <3>x DEF ThreadOK
    <3>4. QED
      BY <1>1, <2>1, <3>1, <3>3 DEF RadioInv, PlansOK, AiredOK
  <2>5. QED
    BY <2>3, <2>4
<1>3. CASE Start
  <2>1. CASE Fault(flying.bursts)
    BY <1>1, <1>3, <2>1, BurstsAreSeq, FaultKept DEF Start
  <2>2. CASE /\ thread.abort /\ flying' = Landed(flying) /\ thread' = Asleep
             /\ UNCHANGED <<reports, faulted>>
    <3>1. GoodPlan(lost, Landed(flying))
      BY <1>1, LandedGood
    <3>2. QED
      BY <1>1, <1>3, <2>2, <3>1 DEF Start, Asleep, RadioInv, PlansOK, ThreadOK, ThreadT, AiredOK
  <2>3. CASE /\ ~thread.abort /\ thread' = [thread EXCEPT !.step = "dwelling"]
             /\ UNCHANGED <<flying, reports, faulted>>
    BY <1>1, <1>3, <2>3 DEF Start, RadioInv, PlansOK, ThreadOK, ThreadT, AiredOK
  <2>4. QED
    BY <1>3, <2>1, <2>2, <2>3 DEF Start
<1>4. CASE Key
  <2>1. PICK burst, a : /\ burst = flying.bursts[thread.keyed + 1]
                        /\ a = [payload |-> burst.payload, utc |-> burst.utc, at |-> burst.at,
                                keyed |-> now, ch |-> flying.ch, end |-> flying.end]
    OBVIOUS
  <2>2. AiredGood(lost, a)
    BY <1>1, <1>4, <2>1, KeyAirs DEF Key, RadioInv
  <2>3. aired' = aired \cup {a}
    BY <1>4, <2>1 DEF Key
  <2>4. AiredOK'
    BY <2>2, <2>3 DEF RadioInv, AiredOK
  <2>5. now + AirTime \in Int
    BY MapFacts DEF RadioInv, TimeOK
  <2>6. ThreadOK'
    <3>1. /\ thread' = [thread EXCEPT !.keyed = @ + 1, !.airUntil = now + AirTime]
          /\ thread \in ThreadT /\ thread.keyed + 1 \in Nat /\ flying' = flying
      BY <1>1, <1>4 DEF Key, ThreadOK, ThreadT
    <3>2. thread' \in ThreadT /\ thread'.step = thread.step /\ thread'.abort = thread.abort
      BY <2>5, <3>1 DEF ThreadT
    <3>3. QED
      BY <1>1, <3>1, <3>2 DEF ThreadOK
  <2>7. PlansOK' /\ IsSeq(reports)'
    BY <1>1, <1>4 DEF Key, PlansOK
  <2>8. QED
    BY <2>4, <2>6, <2>7
<1>5. CASE Collect
  <2>1. IsSeq(<<flying.bursts[thread.keyed]>>)
    <3>1. PICK S : S = {flying.bursts[thread.keyed]}
      OBVIOUS
    <3>2. <<flying.bursts[thread.keyed]>> \in Seq(S)
      BY <3>1
    <3>3. QED
      BY <3>2 DEF IsSeq
  <2>2. CASE Fault(<<flying.bursts[thread.keyed]>>)
    BY <1>5, <2>1, <2>2, FaultKept DEF Collect
  <2>3. CASE /\ thread' = [thread EXCEPT !.done = @ + 1]
             /\ Report("TxDone", <<flying.bursts[thread.keyed]>>)
             /\ UNCHANGED <<flying, faulted>>
    <3>1. IsSeq(reports)'
      BY <1>1, <2>1, <2>3, ReportKept
    <3>2. QED
      BY <1>1, <1>5, <2>3, <3>1 DEF Collect, RadioInv, PlansOK, ThreadOK, ThreadT, AiredOK
  <2>4. QED
    BY <1>5, <2>2, <2>3 DEF Collect
<1>6. CASE Finish
  <2>1. IsSeq(Unfinished(flying.bursts, thread.done))
    BY <1>1, BurstsAreSeq, UnfinishedIsSeq DEF ThreadOK, ThreadT
  <2>2. IsSeq(reports)'
    BY <1>1, <1>6, <2>1, ReportKept DEF Finish
  <2>3. GoodPlan(lost, Landed(flying))
    BY <1>1, LandedGood
  <2>4. QED
    BY <1>1, <1>6, <2>2, <2>3 DEF Finish, Asleep, RadioInv, PlansOK, ThreadOK, ThreadT, AiredOK
<1>7. QED
  BY <1>2, <1>3, <1>4, <1>5, <1>6 DEF Executor

\* The thread touches neither the clock nor what the service keeps.
LEMMA FliesKept ==
  ASSUME RadioInv, Flies
  PROVE  RadioInv'
<1>1. ThreadStep
  BY ThreadKeeps DEF Flies
<1>2. UNCHANGED <<now, latched, lost, clock, radio, done>>
  BY DEF Flies, serviceVars
<1>3. TimeOK' /\ ClockOK(clock)'
  BY <1>2 DEF RadioInv, TimeOK, ClockOK
<1>4. ServiceOK'
  BY <1>1, <1>2 DEF RadioInv, ServiceOK, ThreadStep, OfItsSecond, IsSeq
<1>5. QED
  BY <1>1, <1>3, <1>4 DEF RadioInv, ThreadStep

-----------------------------------------------------------------------------
(* Time keeps the invariant.                                               *)

\* An edge comes at the top of a second, is lost there, or is not due.
LEMMA TickKept ==
  ASSUME RadioInv, Tick
  PROVE  RadioInv'
<1>1. /\ now \in Nat /\ latched \in Nat /\ lost \in Nat /\ latched % SecondMs = 0
      /\ SecondMs <= latched /\ latched <= now /\ SecondMs \in Nat /\ SecondMs > 0
      /\ (lost = 0 => now - latched < SecondMs) /\ now' = now + 1
  BY MapFacts DEF RadioInv, TimeOK, Tick
<1>2. UNCHANGED <<clock, radio, done, queued, flying, thread, reports, aired>>
  BY DEF Tick, rfVars, serviceVars
<1>3. TimeOK' /\ lost' \in Nat /\ lost <= lost' /\ latched <= latched'
  <2>1. CASE Edge(now + 1) /\ latched' = now + 1 /\ UNCHANGED lost
    <3>1. (now + 1) % SecondMs = 0
      BY <2>1 DEF Edge
    <3>2. PICK t : t = now + 1
      OBVIOUS
    <3>3. t % SecondMs = 0 /\ now' = t /\ latched' = t /\ lost' = lost
      BY <1>1, <2>1, <3>1, <3>2
    <3>4. t \in Nat /\ SecondMs <= t /\ latched <= t /\ t - t < SecondMs
      BY <1>1, <3>2
    <3>5. QED
      BY <1>1, <3>3, <3>4 DEF TimeOK
  <2>2. CASE Edge(now + 1) /\ lost < LostEdges /\ lost' = lost + 1 /\ UNCHANGED latched
    <3>1. lost' \in Nat /\ lost' # 0 /\ lost <= lost' /\ latched <= now'
      BY <1>1, <2>2
    <3>2. QED
      BY <1>1, <2>2, <3>1 DEF TimeOK
  <2>3. CASE ~Edge(now + 1) /\ UNCHANGED <<latched, lost>>
    <3>1. (latched + SecondMs) % SecondMs = 0
      BY <1>1, NextTop
    <3>2. now + 1 # latched + SecondMs
      BY <2>3, <3>1 DEF Edge
    <3>3. lost = 0 => now' - latched < SecondMs
      BY <1>1, <3>2
    <3>4. QED
      BY <1>1, <2>3, <3>3 DEF TimeOK
  <2>4. QED
    BY <2>1, <2>2, <2>3 DEF Tick
<1>4. lost' = 0 => lost = 0
  BY <1>1, <1>3
<1>5. ClockOK(clock)'
  <2>1. /\ clock \in ClockT /\ clock.utcEdge % SecondMs = 0 /\ clock.utcEdge <= latched
        /\ (lost = 0 => clock.utc = UtcAt(clock.utcEdge))
    BY DEF RadioInv, ClockOK
  <2>2. clock.utcEdge \in Nat /\ latched' \in Nat
    BY <1>3, <2>1 DEF ClockT, TimeOK
  <2>3. clock.utcEdge <= latched'
    BY <1>1, <1>3, <2>1, <2>2
  <2>4. QED
    BY <1>2, <1>4, <2>1, <2>3 DEF ClockOK
<1>6. ServiceOK'
  <2>1. OfItsSecond(lost', radio.current) /\ OfItsSecond(lost', radio.next)
    BY <1>1, <1>3, TimedStill DEF RadioInv, ServiceOK
  <2>2. QED
    BY <1>2, <2>1 DEF RadioInv, ServiceOK, IsSeq
<1>7. PlansOK'
  <2>1. GoodPlan(lost', queued) /\ GoodPlan(lost', flying)
    BY <1>1, <1>3, PlanStill DEF RadioInv, PlansOK
  <2>2. QED
    BY <1>2, <2>1 DEF PlansOK
<1>8. ThreadOK'
  BY <1>2 DEF RadioInv, ThreadOK
<1>9. AiredOK'
  <2>1. \A a \in aired : AiredGood(lost', a)
    BY <1>1, <1>3, TimedStill DEF RadioInv, AiredOK
  <2>2. QED
    BY <1>2, <2>1 DEF AiredOK
<1>10. QED
  BY <1>3, <1>5, <1>6, <1>7, <1>8, <1>9 DEF RadioInv

-----------------------------------------------------------------------------
(* A pass keeps the invariant.                                             *)

\* The clock is carried to its edge, a sentence may anchor it, and the service
\* settles what was sent, flies what has begun and arms what is owed.
LEMMA PassKept ==
  ASSUME RadioInv, NEW sentence \in BOOLEAN, Pass(sentence)
  PROVE  RadioInv'
<1>1. TimeOK /\ ClockOK(clock) /\ ServiceOK /\ PlansOK /\ ThreadOK /\ AiredOK
  BY DEF RadioInv
<1> DEFINE Begun(v) ==
      [current |-> radio.current, next |-> radio.next, ahead |-> radio.ahead,
       retired |-> radio.retired, sent |-> radio.sent,
       rf |-> Held, aborted |-> FALSE, utc |-> v.utc]
<1> DEFINE Left(c, fix, x) ==
      /\ clock' = c /\ fixAt' = fix
      /\ radio' = [current |-> x.current, next |-> x.next, ahead |-> x.ahead,
                   retired |-> x.retired, sent |-> x.sent]
      /\ queued' = x.rf.queued /\ flying' = x.rf.flying
      /\ thread' = IF x.aborted /\ thread.step # "idle" THEN [thread EXCEPT !.abort = TRUE]
                   ELSE thread
      /\ jumped' = IF PhaseAt(c, now) # PhaseAt(clock, now) THEN now ELSE jumped
<1>2. PICK c, fix, v, x :
        /\ c = (IF sentence THEN Anchored(OnItsEdge(clock), SolvedAt(OnItsEdge(clock)))
                ELSE OnItsEdge(clock))
        /\ v = View(c, fix) /\ x = Ticked(v, Advanced(Collected(Begun(v))))
        /\ Left(c, fix, x)
  <2>1. \E carried \in {OnItsEdge(clock)} :
          \E c \in {IF sentence THEN Anchored(carried, SolvedAt(carried)) ELSE carried},
             fix \in {IF sentence THEN SolvedAt(carried) ELSE fixAt} :
            \E v \in {View(c, fix)} :
              \E x \in {Ticked(v, Advanced(Collected(Begun(v))))} : Left(c, fix, x)
    BY Zenon DEF Pass
  <2> HIDE DEF Left, Begun
  <2>2. PICK carried \in {OnItsEdge(clock)} :
          \E c \in {IF sentence THEN Anchored(carried, SolvedAt(carried)) ELSE carried},
             fix \in {IF sentence THEN SolvedAt(carried) ELSE fixAt} :
            \E v \in {View(c, fix)} :
              \E x \in {Ticked(v, Advanced(Collected(Begun(v))))} : Left(c, fix, x)
    BY <2>1
  <2>3. PICK c \in {IF sentence THEN Anchored(carried, SolvedAt(carried)) ELSE carried},
             fix \in {IF sentence THEN SolvedAt(carried) ELSE fixAt} :
          \E v \in {View(c, fix)} :
            \E x \in {Ticked(v, Advanced(Collected(Begun(v))))} : Left(c, fix, x)
    BY <2>2
  <2>4. PICK v \in {View(c, fix)} :
          \E x \in {Ticked(v, Advanced(Collected(Begun(v))))} : Left(c, fix, x)
    BY <2>3
  <2>5. PICK x \in {Ticked(v, Advanced(Collected(Begun(v))))} : Left(c, fix, x)
    BY <2>4
  <2>6. carried = OnItsEdge(clock) /\ v = View(c, fix)
        /\ c = (IF sentence THEN Anchored(carried, SolvedAt(carried)) ELSE carried)
        /\ x = Ticked(v, Advanced(Collected(Begun(v))))
    OBVIOUS
  <2>7. QED
    BY <2>5, <2>6
<1> DEFINE x0 == Begun(v)
<1>3. UNCHANGED <<now, latched, lost, aired>> /\ done' = SentOf(reports) /\ reports' = <<>>
  BY DEF Pass
<1>4. ClockRead(c) /\ ClockOK(c)
  BY <1>1, <1>2, ClockCarried, AnchoredKept
<1>5. ViewOK(v)
  BY <1>1, <1>2, <1>4, ViewRead
<1>6. Good(x0) /\ ~x0.aborted
  <2>1. v.utc \in Int
    BY <1>5 DEF ViewOK
  <2>2. Held \in Plans /\ GoodRf(lost, Held) /\ Held.flying.ch = flying.ch
    BY <1>1 DEF Held, Plans, GoodRf, PlansOK, GoodPlan
  <2>3. QED
    BY <1>1, <1>2, <2>1, <2>2 DEF ServiceOK, Good, XT
<1>7. Good(Collected(x0)) /\ ~Collected(x0).aborted
  BY <1>1, <1>6, CollectedGood DEF ServiceOK, IsSeq
<1>8. Good(Advanced(Collected(x0))) /\ ~Advanced(Collected(x0)).aborted
  BY <1>7, AdvancedGood
<1>9. Good(x)
  BY <1>1, <1>2, <1>5, <1>8, TickedGood
<1>10. TimeOK' /\ ClockOK(clock)'
  <2>1. TimeOK'
    BY <1>1, <1>3 DEF TimeOK
  <2>2. ClockOK(clock)'
    BY <1>2, <1>3, <1>4 DEF ClockOK
  <2>3. QED
    BY <2>1, <2>2
<1>11. ServiceOK'
  <2>1. IsSeq(SentOf(reports)) /\ IsSeq(<<>>)
    <3>1. <<>> \in Seq({})
      OBVIOUS
    <3>2. QED
      BY <1>1, <3>1, SentIsSeq DEF ServiceOK, IsSeq
  <2>2. IsSeq(done') /\ IsSeq(reports')
    BY <1>3, <2>1
  <2>3. OfItsSecond(lost', radio'.current) /\ OfItsSecond(lost', radio'.next)
    BY <1>2, <1>3, <1>9 DEF Good
  <2>4. radio' \in [current : DwellT, next : DwellT, ahead : BOOLEAN, retired : DwellT,
                    sent : [Payloads -> Int]]
    BY <1>2, <1>9 DEF Good, XT
  <2>5. QED
    BY <2>2, <2>3, <2>4 DEF ServiceOK
<1>12. PlansOK'
  BY <1>2, <1>3, <1>9 DEF Good, GoodRf, PlansOK
<1>13. ThreadOK'
  <2>1. x.aborted \in BOOLEAN /\ (~x.aborted => flying'.ch = flying.ch)
    BY <1>2, <1>9 DEF Good, XT
  <2>2. QED
    BY <1>1, <1>2, <2>1 DEF ThreadOK, ThreadT
<1>14. AiredOK'
  BY <1>1, <1>3 DEF AiredOK
<1>15. QED
  BY <1>10, <1>11, <1>12, <1>13, <1>14 DEF RadioInv

-----------------------------------------------------------------------------
(* The theorems.                                                           *)

\* The unit starts at an edge, with nothing armed.
LEMMA RadioInvStarts ==
  ASSUME Init
  PROVE  RadioInv
<1>1. /\ SecondMs % SecondMs = 0 /\ SecondMs \div SecondMs = 1 /\ SecondMs \in Nat
      /\ SecondMs > 0 /\ 0 \in 0 .. SecondMs - 1
  <2>1. SecondMs \in Nat /\ SecondMs > 0 /\ 0 \in 0 .. SecondMs - 1
    BY MapFacts
  <2>2. SecondMs = 1 * SecondMs + 0
    BY <2>1
  <2>3. QED
    BY <2>1, <2>2, DividedOnce
<1>2. TimeOK
  BY <1>1 DEF Init, TimeOK
<1>3. ClockOK(clock)
  <2>1. clock.utc = UtcAt(clock.utcEdge)
    BY <1>1 DEF Init, UtcAt
  <2>2. QED
    BY <1>1, <2>1 DEF Init, ClockOK, ClockT
<1>4. ServiceOK
  <2>1. Nowhere \in DwellT /\ Nowhere.ch = "none"
    BY DEF Nowhere, DwellT, Payloads
  <2>2. OfItsSecond(lost, Nowhere)
    BY <2>1 DEF OfItsSecond
  <2>3. IsSeq(done) /\ IsSeq(reports)
    <3>1. <<>> \in Seq({})
      OBVIOUS
    <3>2. QED
      BY <3>1 DEF Init, RfInit, IsSeq
  <2>4. QED
    BY <2>1, <2>2, <2>3 DEF Init, ServiceOK
<1>5. PlansOK
  BY NoPlanGood DEF Init, RfInit, PlansOK
<1>6. ThreadOK /\ AiredOK
  BY DEF Init, RfInit, Asleep, ThreadOK, ThreadT, AiredOK
<1>7. QED
  BY <1>2, <1>3, <1>4, <1>5, <1>6 DEF RadioInv

\* Every step keeps the invariant.
LEMMA RadioInvStays ==
  ASSUME RadioInv, [Next]_radioVars
  PROVE  RadioInv'
<1>1. CASE \E sentence \in BOOLEAN : Pass(sentence)
  BY <1>1, PassKept
<1>2. CASE Flies
  BY <1>2, FliesKept
<1>3. CASE Tick
  BY <1>3, TickKept
<1>4. CASE UNCHANGED radioVars
  BY <1>4 DEF radioVars, rfVars, serviceVars, RadioInv, TimeOK, ClockOK, ServiceOK, PlansOK,
              ThreadOK, AiredOK, OfItsSecond, IsSeq
<1>5. QED
  BY <1>1, <1>2, <1>3, <1>4 DEF Next

\* The invariant says of what aired what the property does.
LEMMA RadioInvAirs ==
  RadioInv => AirsWhereItSays
BY DEF RadioInv, AiredOK, AiredGood, WellTimed, Within, AirsWhereItSays, NoneLost

\* The plans of the executor, the dwells of the service and the clock they are
\* armed by agree with the map in every state: a burst armed, queued or in flight
\* is where the map has it, in the second it says while no edge was lost.
\* Code: RadioService::tick and arm_dwell, the executor's arm, abort and run,
\* ClockState::carry_utc_to_edge.
THEOREM RadioInvHolds ==
  RadioSpec => []RadioInv
<1>1. Init => RadioInv
  BY RadioInvStarts
<1>2. RadioInv /\ [Next]_radioVars => RadioInv'
  BY RadioInvStays
<1>3. QED
  BY <1>1, <1>2, PTL DEF RadioSpec

\* For every cut of the second the map's assumptions allow, every offset of the
\* device's own clock, every length of pass and any number of lost edges, a burst
\* airs on the channel of its instant, ends inside the dwell, and while no edge
\* was lost says the second it aired in.
\* Code: RadioService::arm_dwell, Transmitter::attempt, ClockState::slot_utc_s.
THEOREM RadioAlwaysAirsWhereItSays ==
  RadioSpec => []AirsWhereItSays
<1>1. RadioSpec => []RadioInv
  BY RadioInvHolds
<1>2. RadioInv => AirsWhereItSays
  BY RadioInvAirs
<1>3. QED
  BY <1>1, <1>2, PTL
=============================================================================
