----------------------------- MODULE DecisionsProofs -----------------------------
(***************************************************************************)
(* The three machines that decide when: the window that lets a write       *)
(* through, the monitor that parks the unit and the two that speak up of   *)
(* other aircraft.  Each is proved of on its own; they share no state.     *)
(*                                                                         *)
(* The window, for every second, dwell, cost and pass the constants allow. *)
(* A placed write is judged on a phase carried forward from the pass       *)
(* before, reduced to the frame its dwell started in.  The invariant says  *)
(* which instants of the pass that phase stands for: the view is exact     *)
(* modulo the second, and what the pass has booked beyond its clock lies   *)
(* in one clear stretch of the dwell the view names.  A forced write is    *)
(* judged by how far the passes can go round without meeting a phase at    *)
(* which the settings' writer is let through.                              *)
(*                                                                         *)
(* The monitor, for any ladder, margin, length of run and set of readings. *)
(* A run counted under a step is exactly the newest readings under it, as  *)
(* far back as a whole run; a run counted clear of a step is no longer     *)
(* than the newest readings clear of it.  Flat keeps no count.             *)
(*                                                                         *)
(* The sky, for any number of aircraft, of targets and of slots.  The      *)
(* table and the tracker forget by clocks of their own, and what ties them *)
(* is that a slot was last seen no earlier than its aircraft's report.  A  *)
(* pass grades the targets one by one, so its lemmas are of one grading,   *)
(* and the loop keeps what each grading keeps.                             *)
(***************************************************************************)
EXTENDS WriteWindow, Cutoff, Traffic, FiniteSetTheorems, WellFoundedInduction, TLAPS

(***************************************************************************)
(* The flash window.                                                       *)
(***************************************************************************)

Views ==
  [dwell : Dwells, anchored : BOOLEAN, phase : 0..SecondMs - 1,
   age : {0, 0 - WorstWrite}, burst : BOOLEAN]
Windows == [pending : BOOLEAN, first : 0..DeferCeiling, last : 0..SettleTime + SecondMs]
Works ==
  [verdict : {"none", "place", "forced"}, from : Nat, to : Nat,
   last : 0..SettleTime + SecondMs, crowded : BOOLEAN]
Frames == {0 - SecondMs, 0, SecondMs}

WriteTypes ==
  /\ phase \in 0..SecondMs - 1
  /\ view \in Views
  /\ window \in Windows
  /\ elapsed \in Nat /\ booked \in Nat
  /\ work \in Works
  /\ crowded \in BOOLEAN

\* The view stands for the instant it was published at, modulo the second.
ViewExact ==
  /\ 0 - view.age <= elapsed
  /\ view.phase = phase - view.age \/ view.phase = phase - view.age - SecondMs

\* From a to b, positions in the frame the dwell started in, the core may be
\* held.
Clear(dwell, a, b) ==
  /\ DwellStart(dwell) <= a
  /\ b + JitterGuard <= DwellEnd(dwell)
  /\ a < DirectStart => b + JitterGuard <= DirectStart
  /\ b + JitterGuard <= NextEdge(a)

Where(into) == InFrame(Plan(view.dwell, view.anchored), view.phase + view.age + into)

\* What is booked beyond the clock is clear from the clock to its end.
Stretch ==
  booked > elapsed =>
    \E frame \in Frames :
      /\ Where(booked) = phase + booked - frame
      /\ Clear(view.dwell, phase + elapsed - frame, phase + booked - frame)

PlacedInv == WriteTypes /\ ViewExact /\ Stretch /\ PlacedOwesNothing

-----------------------------------------------------------------------------
(* The second.                                                             *)

LEMMA SlotFacts ==
  /\ SecondMs \in Nat /\ UplinkStart \in Nat /\ UplinkEnd \in Nat /\ Slot0Start \in Nat
  /\ Slot0End \in Nat /\ Slot1End \in Nat /\ DirectStart \in Nat /\ JitterGuard \in Nat
  /\ HopGuard \in Nat /\ AirTime \in Nat /\ CompletionGuard \in Nat /\ Wrap \in Nat
  /\ WorstWrite \in Nat /\ SettleTime \in Nat /\ DeferCeiling \in Nat /\ ViewStale \in Nat
  /\ LongestStep \in Nat /\ LongestStep > 0 /\ 0 < JitterGuard /\ 0 < Wrap
  /\ WorstWrite + ViewStale <= SecondMs /\ WorstWrite < SettleTime /\ ViewStale < SettleTime
  /\ Wrap = Slot1End - SecondMs
  /\ Wrap <= UplinkStart /\ UplinkStart < UplinkEnd /\ UplinkEnd <= Slot0Start
  /\ Slot0Start <= DirectStart /\ DirectStart + HopGuard < Slot0End
  /\ Slot0End < SecondMs
BY SlotMapAssumption, WriteWindowAssumption DEF SlotMapAssumption, WriteWindowAssumption, Wrap

\* A phase at most one second past the top is taken off it by one subtraction.
LEMMA OneSecondOff ==
  ASSUME NEW x \in 0..2 * SecondMs - 1
  PROVE  /\ x % SecondMs \in 0..SecondMs - 1
         /\ x % SecondMs = x \/ x % SecondMs = x - SecondMs
BY SlotFacts

LEMMA PhaseInSecond ==
  ASSUME NEW x \in Nat
  PROVE  x % SecondMs \in 0..SecondMs - 1
BY SlotFacts

-----------------------------------------------------------------------------
(* Free stretches.                                                         *)

LEMMA FreeIsClear ==
  ASSUME NEW dwell \in Dwells, NEW anchored \in BOOLEAN, NEW x \in Int, NEW cost \in Nat,
         FreeAt(Plan(dwell, anchored), x, cost),
         NEW spot \in Int, spot = InFrame(Plan(dwell, anchored), x)
  PROVE  Clear(dwell, spot, spot + cost)
<1>1. /\ Plan(dwell, anchored).start = DwellStart(dwell)
      /\ Plan(dwell, anchored).end = DwellEnd(dwell)
  BY DEF Plan
<1>2. DwellStart(dwell) \in Nat /\ DwellEnd(dwell) \in Nat
  BY SlotFacts DEF DwellStart, DwellEnd, Dwells
<1> QED  BY <1>1, <1>2, SlotFacts DEF FreeAt, Clear

\* The frame a phase is counted in: its own, the one before or the next.
LEMMA FrameOf ==
  ASSUME NEW dwell \in Dwells, NEW anchored \in BOOLEAN, NEW x \in 0..2 * SecondMs - 1,
         NEW spot, spot = InFrame(Plan(dwell, anchored), x)
  PROVE  /\ spot \in 0..2 * SecondMs - 1
         /\ x < SecondMs => spot = x \/ spot = x + SecondMs
         /\ x >= SecondMs => spot = x \/ spot = x - SecondMs
<1>1. Plan(dwell, anchored).end \in Nat /\ Plan(dwell, anchored).end <= SecondMs + Wrap
  BY SlotFacts DEF Plan, DwellEnd, Dwells
<1>2. Wrap < SecondMs
  BY SlotFacts
<1> QED  BY <1>1, <1>2, SlotFacts DEF InFrame

\* Work that begins in a clear stretch ends in the same frame.
LEMMA FrameKept ==
  ASSUME NEW dwell \in Dwells, NEW anchored \in BOOLEAN, NEW x \in 0..2 * SecondMs - 1,
         NEW cost \in Nat, NEW spot \in Int, spot = InFrame(Plan(dwell, anchored), x),
         Clear(dwell, spot, spot + cost)
  PROVE  InFrame(Plan(dwell, anchored), x + cost) = spot + cost
<1>1. Plan(dwell, anchored).end = DwellEnd(dwell)
  BY DEF Plan
<1>2. CASE dwell = "slot1"
  <2>1. DwellEnd(dwell) = SecondMs + Wrap /\ DwellStart(dwell) = Slot0End
    BY <1>2, SlotFacts DEF DwellEnd, DwellStart
  <2> QED  BY <1>1, <2>1, SlotFacts DEF InFrame, Clear, NextEdge
<1>3. CASE dwell # "slot1"
  <2>1. DwellEnd(dwell) \in Nat /\ DwellEnd(dwell) <= SecondMs
    BY <1>3, SlotFacts DEF DwellEnd, Dwells
  <2> QED  BY <1>1, <2>1, SlotFacts DEF InFrame, Clear, NextEdge
<1> QED  BY <1>2, <1>3

\* A clear stretch owes the radio nothing, in whichever frame it is counted.
LEMMA ClearOwesNothing ==
  ASSUME NEW dwell \in Dwells, NEW a \in Int, NEW b \in Int, NEW frame \in Frames,
         Clear(dwell, a, b), NEW from \in Int, NEW to \in Int,
         a <= b, from = frame + a, to <= frame + b
  PROVE  InsideOneDwell(from, to) /\ ClearOfTheEdge(from, to)
<1>1. DwellStart(dwell) \in Nat /\ DwellEnd(dwell) \in Nat /\ DwellEnd(dwell) <= SecondMs + Wrap
  BY SlotFacts DEF DwellStart, DwellEnd, Dwells
<1>2. InsideOneDwell(from, to)
  <2>1. frame + DwellStart(dwell) <= from /\ to + JitterGuard <= frame + DwellEnd(dwell)
    BY <1>1, SlotFacts DEF Clear, Frames
  <2>2. ASSUME dwell = "slot0", from < frame + DirectStart
        PROVE  to + JitterGuard <= frame + FirstInstant(dwell)
    BY <2>2, SlotFacts DEF Clear, Frames, FirstInstant, GreaterOf, DwellStart
  <2> QED  BY <2>1, <2>2 DEF InsideOneDwell, Frames
<1>3. ClearOfTheEdge(from, to)
  <2>1. 0 <= a /\ a < 2 * SecondMs
    BY <1>1, SlotFacts DEF Clear
  <2>2. frame \in {0 - SecondMs, 0, SecondMs} /\ to + JitterGuard <= frame + NextEdge(a)
    BY <1>1, SlotFacts DEF Clear, Frames, NextEdge
  <2> QED  BY <2>1, <2>2, SlotFacts DEF ClearOfTheEdge, NextEdge
<1> QED  BY <1>2, <1>3

-----------------------------------------------------------------------------
(* A pass.                                                                 *)

LEMMA DwellTyped ==
  ASSUME NEW x
  PROVE  DwellAt(x) \in Dwells
BY DEF DwellAt, Dwells

LEMMA WindowTyped ==
  ASSUME window \in Windows, NEW step \in Nat, NEW change \in BOOLEAN
  PROVE  /\ Passed(window, step) \in Windows
         /\ (IF change THEN Requested(Passed(window, step)) ELSE Passed(window, step)) \in Windows
<1>1. \A age \in Nat, bound \in Nat : Later(age, step, bound) \in 0..bound
  BY DEF Later, LesserOf
<1>2. /\ DeferCeiling \in Nat /\ SettleTime + SecondMs \in Nat
      /\ 0 \in 0..DeferCeiling /\ 0 \in 0..SettleTime + SecondMs
  BY SlotFacts
<1>3. Passed(window, step) \in Windows
  <2>1. /\ Later(window.first, step, DeferCeiling) \in 0..DeferCeiling
        /\ Later(window.last, step, SettleTime + SecondMs) \in 0..SettleTime + SecondMs
    BY <1>1, <1>2 DEF Windows
  <2> QED  BY <2>1 DEF Passed, Windows
<1>4. \A w \in Windows : Requested(w) \in Windows
  BY <1>2 DEF Requested, Windows
<1> QED  BY <1>3, <1>4

ViewLeft(began, spent, anchored, burst) ==
  [Published(began + spent, anchored, burst) EXCEPT !.age = 0 - spent]

\* The view a pass leaves stands for the instant the radio's turn came.
LEMMA PublishedExact ==
  ASSUME NEW top \in 0..SecondMs - 1, NEW spent \in {0, WorstWrite},
         NEW anchored \in BOOLEAN, NEW burst \in BOOLEAN, NEW v,
         v = ViewLeft(top, spent, anchored, burst)
  PROVE  /\ v \in Views /\ 0 - v.age <= spent
         /\ v.phase = top - v.age \/ v.phase = top - v.age - SecondMs
         /\ v.dwell = DwellAt(v.phase) /\ v.burst = burst /\ v.age = 0 - spent
<1>1. top + spent \in 0..2 * SecondMs - 1
  BY SlotFacts
<1>2. /\ (top + spent) % SecondMs \in 0..SecondMs - 1
      /\ (top + spent) % SecondMs \in {top + spent, top + spent - SecondMs}
  BY <1>1, OneSecondOff, SlotFacts
<1>3. v = [dwell |-> DwellAt((top + spent) % SecondMs), anchored |-> anchored,
           phase |-> (top + spent) % SecondMs, age |-> 0 - spent, burst |-> burst]
  BY DEF ViewLeft, Published
<1>4. 0 - spent \in {0, 0 - WorstWrite}
  BY SlotFacts
<1>5. v \in Views
  BY <1>2, <1>3, <1>4, DwellTyped DEF Views
<1>6. 0 - (0 - spent) = spent /\ top - (0 - spent) = top + spent
  BY SlotFacts
<1> QED  BY <1>2, <1>3, <1>5, <1>6, SlotFacts

\* The settings' writer, let through at a phase carried from the pass before,
\* writes in a clear stretch of the second it writes in.
LEMMA PlacedByThePass ==
  ASSUME WriteTypes, ViewExact, NEW step \in Nat, elapsed <= step,
         FreeNow(view, view.age + step, WorstWrite),
         NEW began, began = (phase + step) % SecondMs
  PROVE  InsideOneDwell(began, began + WorstWrite) /\ ClearOfTheEdge(began, began + WorstWrite)
<1> DEFINE x == view.phase + (view.age + step)
           plan == Plan(view.dwell, view.anchored)
           spot == InFrame(plan, x)
<1>1. /\ view.dwell \in Dwells /\ view.anchored \in BOOLEAN /\ view.phase \in 0..SecondMs - 1
      /\ view.age \in {0, 0 - WorstWrite} /\ phase \in 0..SecondMs - 1 /\ elapsed \in Nat
  BY DEF WriteTypes, Views
<1>2. view.age + step <= ViewStale /\ FreeAt(plan, x, WorstWrite)
  BY DEF FreeNow
<1>3. x \in 0..2 * SecondMs - 1
  BY <1>1, <1>2, SlotFacts DEF ViewExact
<1>4. x = phase + step \/ x = phase + step - SecondMs
  BY <1>1, SlotFacts DEF ViewExact
<1>5. phase + step \in 0..2 * SecondMs - 1
  BY <1>1, <1>2, SlotFacts
<1>6. began = phase + step \/ began = phase + step - SecondMs
  BY <1>1, <1>5, OneSecondOff, SlotFacts
<1>7. began \in 0..SecondMs - 1
  BY <1>5, OneSecondOff
<1>8. spot \in 0..2 * SecondMs - 1 /\ (x < SecondMs => spot = x \/ spot = x + SecondMs)
      /\ (x >= SecondMs => spot = x \/ spot = x - SecondMs)
  BY <1>1, <1>3, FrameOf
<1>9. Clear(view.dwell, spot, spot + WorstWrite)
  <2>1. spot \in Int /\ x \in Int /\ WorstWrite \in Nat
    BY <1>3, <1>8, SlotFacts
  <2> HIDE DEF x
  <2> QED  BY <1>1, <1>2, <2>1, FreeIsClear, Zenon
<1> HIDE DEF x, spot, plan
<1>10. began - spot \in Frames
  BY <1>4, <1>5, <1>6, <1>7, <1>8, <1>3, <1>1, SlotFacts DEF Frames
<1>11. /\ spot \in Int /\ spot + WorstWrite \in Int /\ spot <= spot + WorstWrite
       /\ began = (began - spot) + spot
       /\ began + WorstWrite <= (began - spot) + (spot + WorstWrite)
       /\ began \in Int /\ began + WorstWrite \in Int
  BY <1>7, <1>8, SlotFacts
<1> QED  BY <1>1, <1>9, <1>10, <1>11, ClearOwesNothing

LEMMA PassKeepsPlaced ==
  ASSUME PlacedInv, NEW step \in Nat, 0 < step, elapsed <= step, NEW change \in BOOLEAN,
         Pass(step, change)
  PROVE  PlacedInv'
<1> DEFINE aged == Passed(window, step)
           w == IF change THEN Requested(aged) ELSE aged
           verdict == Decided(w, FreeNow(view, view.age + step, WorstWrite))
           writes == verdict \in {"place", "forced"}
<1>0. /\ phase \in 0..SecondMs - 1 /\ elapsed \in Nat /\ window \in Windows /\ view \in Views
      /\ crowded \in BOOLEAN
  BY DEF PlacedInv, WriteTypes
<1>1. PICK began \in 0..SecondMs - 1 : began = (phase + step) % SecondMs
  <2>1. phase + step \in Nat
    BY <1>0, SlotFacts
  <2>2. (phase + step) % SecondMs \in 0..SecondMs - 1
    BY <1>0, <2>1, PhaseInSecond, SlotFacts
  <2> QED  BY <2>2
<1>2. w \in Windows
  BY <1>0, WindowTyped
<1>3. /\ phase' = began /\ elapsed' = (IF writes THEN WorstWrite ELSE 0) /\ booked' = 0
      /\ window' \in (IF writes THEN {Idle, [w EXCEPT !.first = 0, !.last = 0]} ELSE {w})
      /\ work' = (IF writes
                  THEN [verdict |-> verdict, from |-> began, to |-> began + WorstWrite,
                        last |-> w.last, crowded |-> crowded]
                  ELSE NoWork)
      /\ crowded' = (crowded /\ ~change /\ ~writes)
  BY <1>1 DEF Pass
<1>4. PICK anchored \in BOOLEAN, burst \in BOOLEAN :
        view' = ViewLeft(began, elapsed', anchored, burst)
  BY <1>1 DEF Pass, ViewLeft
<1>5. elapsed' \in {0, WorstWrite}
  BY <1>3
<1> HIDE DEF aged, w, verdict, writes
<1>6. /\ view' \in Views /\ 0 - view'.age <= elapsed'
      /\ view'.phase = began - view'.age \/ view'.phase = began - view'.age - SecondMs
  BY <1>4, <1>5, PublishedExact
<1>7. writes => (verdict = "place" => FreeNow(view, view.age + step, WorstWrite))
  BY DEF Decided, verdict
<1>8. WriteTypes'
  <2>1. window' \in Windows
    <3>1. 0 \in 0..DeferCeiling /\ 0 \in 0..SettleTime + SecondMs
      BY SlotFacts
    <3>2. Idle \in Windows /\ [w EXCEPT !.first = 0, !.last = 0] \in Windows
      BY <1>2, <3>1 DEF Idle, Windows
    <3> QED  BY <1>2, <1>3, <3>2
  <2>2. work' \in Works
    <3>1. NoWork \in Works
      BY SlotFacts DEF NoWork, Works
    <3>2. CASE writes
      <4>1. verdict \in {"none", "place", "forced"}
        BY <3>2 DEF writes
      <4>2. w.last \in 0..SettleTime + SecondMs /\ began \in Nat /\ began + WorstWrite \in Nat
        BY <1>1, <1>2, SlotFacts DEF Windows
      <4> QED  BY <1>0, <1>3, <3>2, <4>1, <4>2 DEF Works
    <3> QED  BY <1>3, <3>1, <3>2
  <2>3. crowded' \in BOOLEAN
    BY <1>3
  <2> QED  BY <1>1, <1>3, <1>5, <1>6, <2>1, <2>2, <2>3, SlotFacts DEF WriteTypes
<1>9. ViewExact'
  BY <1>3, <1>6 DEF ViewExact
<1>10. Stretch'
  BY <1>3, <1>5, SlotFacts DEF Stretch
<1>11. PlacedOwesNothing'
  <2> SUFFICES ASSUME work'.verdict = "place"
               PROVE  InsideOneDwell(work'.from, work'.to) /\ ClearOfTheEdge(work'.from, work'.to)
    BY DEF PlacedOwesNothing
  <2>1. writes
    BY <1>3 DEF NoWork
  <2>2. /\ work'.verdict = verdict /\ work'.from = began /\ work'.to = began + WorstWrite
    BY <1>3, <2>1
  <2>3. FreeNow(view, view.age + step, WorstWrite)
    BY <1>7, <2>1, <2>2
  <2>4. WriteTypes /\ ViewExact
    BY DEF PlacedInv
  <2> QED  BY <2>2, <2>3, <2>4, <1>1, PlacedByThePass
<1> QED  BY <1>8, <1>9, <1>10, <1>11 DEF PlacedInv

-----------------------------------------------------------------------------
(* A store's turn.                                                         *)

\* What a store is let through to is clear from the clock, or from what the
\* pass booked before it, to the end of what it asked for.
LEMMA BookedIsClear ==
  ASSUME WriteTypes, ViewExact, Stretch, NEW cost \in Nat, 0 < cost,
         FreeNow(view, view.age + IntoPass, cost)
  PROVE  \E frame \in Frames :
           /\ Where(IntoPass + cost) = phase + IntoPass + cost - frame
           /\ Clear(view.dwell, phase + elapsed - frame, phase + IntoPass + cost - frame)
<1> DEFINE x == view.phase + (view.age + IntoPass)
           plan == Plan(view.dwell, view.anchored)
           spot == InFrame(plan, x)
<1>1. /\ view.dwell \in Dwells /\ view.anchored \in BOOLEAN /\ view.phase \in 0..SecondMs - 1
      /\ view.age \in {0, 0 - WorstWrite} /\ phase \in 0..SecondMs - 1 /\ elapsed \in Nat
      /\ booked \in Nat
  BY DEF WriteTypes, Views
<1>2. view.age + IntoPass <= ViewStale /\ FreeAt(plan, x, cost)
  BY DEF FreeNow
<1>3. /\ IntoPass \in Nat /\ elapsed <= IntoPass
      /\ IntoPass = elapsed \/ (IntoPass = booked /\ booked > elapsed)
  BY <1>1 DEF IntoPass, GreaterOf
<1>4. x \in 0..2 * SecondMs - 1 /\ (x = phase + IntoPass \/ x = phase + IntoPass - SecondMs)
  BY <1>1, <1>2, <1>3, SlotFacts DEF ViewExact
<1>5. spot \in 0..2 * SecondMs - 1 /\ (x < SecondMs => spot = x \/ spot = x + SecondMs)
      /\ (x >= SecondMs => spot = x \/ spot = x - SecondMs)
  BY <1>1, <1>4, FrameOf
<1>6. Clear(view.dwell, spot, spot + cost)
  <2>1. spot \in Int /\ x \in Int
    BY <1>4, <1>5
  <2> HIDE DEF x
  <2> QED  BY <1>1, <1>2, <2>1, FreeIsClear, Zenon
<1>7. InFrame(plan, x + cost) = spot + cost
  <2>1. spot \in Int
    BY <1>5
  <2> HIDE DEF x
  <2> QED  BY <1>1, <1>4, <1>6, <2>1, FrameKept, Zenon
<1>8. Where(IntoPass + cost) = spot + cost
  <2>1. view.phase + view.age + (IntoPass + cost) = x + cost
    BY <1>1, <1>3, SlotFacts
  <2> QED  BY <1>7, <2>1 DEF Where
<1>9. spot = Where(IntoPass)
  <2>1. view.phase + view.age + IntoPass = x
    BY <1>1, <1>3, SlotFacts
  <2> QED  BY <2>1 DEF Where
<1> HIDE DEF x, plan, spot
<1>10. DwellEnd(view.dwell) \in Nat /\ DwellStart(view.dwell) \in Nat
       /\ DwellEnd(view.dwell) <= 2 * SecondMs
  BY <1>1, SlotFacts DEF DwellEnd, DwellStart, Dwells
<1>11. CASE IntoPass = elapsed
  <2>1. phase + IntoPass - spot \in Frames
    BY <1>1, <1>2, <1>3, <1>4, <1>5, SlotFacts DEF Frames, ViewExact
  <2>2. /\ phase + IntoPass + cost - (phase + IntoPass - spot) = spot + cost
        /\ phase + elapsed - (phase + IntoPass - spot) = spot
    BY <1>1, <1>3, <1>5, <1>11, SlotFacts
  <2> QED  BY <1>6, <1>8, <2>1, <2>2
<1>12. CASE IntoPass = booked /\ booked > elapsed
  <2>1. PICK frame \in Frames :
          /\ Where(booked) = phase + booked - frame
          /\ Clear(view.dwell, phase + elapsed - frame, phase + booked - frame)
    BY <1>12 DEF Stretch
  <2>2. frame \in Int
    BY SlotFacts DEF Frames
  <2>3. spot = phase + booked - frame /\ spot + cost = phase + IntoPass + cost - frame
    BY <1>1, <1>3, <1>9, <1>12, <2>1, <2>2
  <2>4. Clear(view.dwell, phase + elapsed - frame, spot + cost)
    BY <1>1, <1>5, <1>6, <1>10, <1>12, <2>1, <2>2, <2>3, SlotFacts DEF Clear, NextEdge
  <2> QED  BY <1>8, <2>3, <2>4
<1> QED  BY <1>3, <1>11, <1>12

LEMMA BookKeepsPlaced ==
  ASSUME PlacedInv, NEW cost \in Costs, NEW spent \in 1..cost, Book(cost, spent)
  PROVE  PlacedInv'
<1>1. /\ cost \in Nat /\ 0 < cost /\ spent \in Nat /\ 0 < spent /\ spent <= cost
  BY WriteWindowAssumption DEF WriteWindowAssumption
<1>2. /\ phase \in 0..SecondMs - 1 /\ elapsed \in Nat /\ booked \in Nat /\ window \in Windows
      /\ view \in Views /\ view.dwell \in Dwells /\ crowded \in BOOLEAN
  BY DEF PlacedInv, WriteTypes, Views
<1>3. /\ FreeNow(view, view.age + IntoPass, cost)
      /\ booked' = IntoPass + cost /\ elapsed' = elapsed + spent
      /\ work' = [verdict |-> "place", from |-> phase + elapsed,
                  to |-> phase + elapsed + spent, last |-> 0, crowded |-> FALSE]
      /\ crowded' \in BOOLEAN
      /\ phase' = phase /\ view' = view /\ window' = window
  BY DEF Book
<1>4. IntoPass \in Nat /\ elapsed <= IntoPass
  BY <1>2 DEF IntoPass, GreaterOf
<1>5. PICK frame \in Frames :
        /\ Where(IntoPass + cost) = phase + IntoPass + cost - frame
        /\ Clear(view.dwell, phase + elapsed - frame, phase + IntoPass + cost - frame)
  BY <1>1, <1>3, BookedIsClear DEF PlacedInv
<1>6. frame \in Int
  BY SlotFacts DEF Frames
<1>7. WriteTypes'
  <2>1. 0 \in 0..SettleTime + SecondMs /\ phase + elapsed \in Nat /\ phase + elapsed + spent \in Nat
    BY <1>1, <1>2, SlotFacts
  <2>2. work' \in Works
    BY <1>3, <2>1 DEF Works
  <2> QED  BY <1>1, <1>2, <1>3, <1>4, <2>2 DEF WriteTypes
<1>8. ViewExact'
  <2>1. view.age \in Int
    BY <1>2, SlotFacts DEF Views
  <2> QED  BY <1>1, <1>2, <1>3, <2>1 DEF ViewExact, PlacedInv
<1>9. Stretch'
  <2>1. Where(booked)' = Where(IntoPass + cost)
    BY <1>3 DEF Where
  <2>2. phase' + booked' - frame = phase + IntoPass + cost - frame
    BY <1>1, <1>2, <1>3, <1>4, <1>6
  <2>3. Clear(view.dwell, phase' + elapsed' - frame, phase' + booked' - frame)
    <3>1. DwellEnd(view.dwell) \in Nat /\ DwellStart(view.dwell) \in Nat
          /\ DwellEnd(view.dwell) <= 2 * SecondMs
      BY <1>2, SlotFacts DEF DwellEnd, DwellStart, Dwells
    <3> QED  BY <1>1, <1>2, <1>3, <1>4, <1>5, <1>6, <3>1, SlotFacts DEF Clear, NextEdge
  <2> QED  BY <1>3, <1>5, <2>1, <2>2, <2>3 DEF Stretch
<1>10. PlacedOwesNothing'
  <2> DEFINE a == phase + elapsed - frame
             b == phase + IntoPass + cost - frame
  <2>1. /\ a \in Int /\ b \in Int /\ a <= b /\ phase + elapsed = frame + a
        /\ phase + elapsed + spent <= frame + b
        /\ phase + elapsed \in Int /\ phase + elapsed + spent \in Int
    BY <1>1, <1>2, <1>4, <1>6
  <2>2. Clear(view.dwell, a, b)
    BY <1>5
  <2> HIDE DEF a, b
  <2>3. InsideOneDwell(phase + elapsed, phase + elapsed + spent)
        /\ ClearOfTheEdge(phase + elapsed, phase + elapsed + spent)
    BY <1>2, <2>1, <2>2, ClearOwesNothing
  <2>4. work'.from = phase + elapsed /\ work'.to = phase + elapsed + spent
    BY <1>3
  <2> QED  BY <2>3, <2>4 DEF PlacedOwesNothing, InsideOneDwell, ClearOfTheEdge
<1> QED  BY <1>7, <1>8, <1>9, <1>10 DEF PlacedInv

-----------------------------------------------------------------------------
(* What is promised of a placed write.                                     *)

LEMMA InitPlaced ==
  ASSUME Init
  PROVE  PlacedInv
<1>1. phase \in 0..SecondMs - 1 /\ phase \in Nat
  BY SlotFacts DEF Init
<1>2. phase % SecondMs = phase
  BY <1>1, SlotFacts
<1>3. view = [dwell |-> DwellAt(phase), anchored |-> FALSE, phase |-> phase, age |-> 0,
              burst |-> FALSE]
  BY <1>2 DEF Init, Published
<1>4. WriteTypes
  <2>1. view \in Views
    BY <1>1, <1>3, DwellTyped, SlotFacts DEF Views
  <2>2. window \in Windows /\ work \in Works
    BY SlotFacts DEF Init, Idle, NoWork, Windows, Works
  <2> QED  BY <1>1, <2>1, <2>2 DEF WriteTypes, Init
<1>5. ViewExact
  <2>1. view.age = 0 /\ view.phase = phase
    BY <1>3
  <2>2. elapsed = 0
    BY DEF Init
  <2> QED  BY <1>1, <2>1, <2>2 DEF ViewExact
<1>6. Stretch
  BY DEF Init, Stretch
<1>7. PlacedOwesNothing
  BY DEF Init, PlacedOwesNothing, NoWork
<1> QED  BY <1>4, <1>5, <1>6, <1>7 DEF PlacedInv

LEMMA NextKeepsPlaced ==
  ASSUME PlacedInv, [Next]_writeVars
  PROVE  PlacedInv'
<1>1. ASSUME NEW step \in 1..LongestStep, NEW change \in BOOLEAN,
             Pass(GreaterOf(step, elapsed), change)
      PROVE  PlacedInv'
  <2>1. elapsed \in Nat
    BY DEF PlacedInv, WriteTypes
  <2>2. /\ GreaterOf(step, elapsed) \in Nat /\ 0 < GreaterOf(step, elapsed)
        /\ elapsed <= GreaterOf(step, elapsed)
    BY <2>1, SlotFacts DEF GreaterOf
  <2> QED  BY <1>1, <2>2, PassKeepsPlaced
<1>2. ASSUME NEW cost \in Costs, NEW spent \in 1..cost, Book(cost, spent)
      PROVE  PlacedInv'
  BY <1>2, BookKeepsPlaced
<1>3. CASE UNCHANGED writeVars
  BY <1>3 DEF writeVars, PlacedInv, WriteTypes, ViewExact, Stretch, Where, PlacedOwesNothing
<1> QED  BY <1>1, <1>2, <1>3 DEF Next

THEOREM PlacedInvariant == WriteSpec => []PlacedInv
<1> QED  BY InitPlaced, NextKeepsPlaced, PTL DEF WriteSpec

\* Every variable keeps its type: phases and ages stay within their second and
\* their bounds however many passes go by.
THEOREM WriteTypeCorrect == WriteSpec => []WriteTypeOK
<1>1. PlacedInv => WriteTypeOK
  BY DEF PlacedInv, WriteTypes, WriteTypeOK, Views, Windows, Works
<1> QED  BY <1>1, PlacedInvariant, PTL

\* DurableWriteWindow::free_now and RfState::book_flash_window: a write let
\* through at a phase carried forward from the pass before, shared with any
\* number of other writers, lies inside one dwell and clear of every instant
\* the radio owes, for every cut of the second and every cost asked for.
THEOREM PlacedOwesNothingAlways == WriteSpec => []PlacedOwesNothing
<1>1. PlacedInv => PlacedOwesNothing
  BY DEF PlacedInv
<1> QED  BY <1>1, PlacedInvariant, PTL

-----------------------------------------------------------------------------
(* How long a change that settled may wait.                                *)

\* The view names the dwell of its phase, and an uplink dwell carries no burst.
ViewNamed ==
  /\ view.dwell = DwellAt(view.phase)
  /\ view.burst => view.dwell # "uplink"

\* A change waits that no store has booked since.
Waiting == window.pending /\ ~crowded

\* Nothing has spent time in the pass since the change was asked for.
UnhurriedPass ==
  Waiting => elapsed <= WorstWrite /\ (window.last > 0 => elapsed = 0)

\* Not a phase the writer is let through at, coming from a pass just before.
Missed(spot) == spot > LastFree \/ spot < UplinkStart \/ spot < Wrap + LongestStep

\* The wait since the change settled is at most the way round the second from
\* the last phase a write could begin at.
WaitBounded ==
  Waiting /\ window.last >= SettleTime =>
    /\ Missed(phase)
    /\ phase > LastFree => window.last + LastFree < SettleTime + LongestStep + phase
    /\ phase <= LastFree => window.last + LastFree < SettleTime + LongestStep + phase + SecondMs

WaitInv ==
  PlacedInv /\ ViewNamed /\ UnhurriedPass /\ WaitBounded /\ ForcedOnlyWhenCrowded

LEMMA Closeness ==
  /\ LastFree \in Int /\ LastFree < SecondMs /\ LastFree < Slot0Start
  /\ LastFree + WorstWrite + JitterGuard = UplinkEnd
  /\ LongestStep <= ViewStale
  /\ UplinkStart + LongestStep <= LastFree + 1 /\ Wrap + 2 * LongestStep <= LastFree + 1
BY SlotFacts, PassesAreClose DEF LastFree, PassesAreClose

\* A pass that lands where a write fits, coming from a pass that saw the uplink
\* dwell open, lets the writer through.
LEMMA FreePhase ==
  ASSUME WriteTypes, ViewExact, ViewNamed, elapsed = 0, NEW step \in 1..LongestStep,
         NEW spot \in 0..SecondMs - 1, spot = phase + step \/ spot = phase + step - SecondMs,
         ~Missed(spot)
  PROVE  FreeNow(view, view.age + step, WorstWrite)
<1>1. /\ view.dwell \in Dwells /\ view.anchored \in BOOLEAN /\ view.phase \in 0..SecondMs - 1
      /\ view.age \in {0, 0 - WorstWrite} /\ phase \in 0..SecondMs - 1
      /\ step \in Int /\ 1 <= step /\ step <= LongestStep
  BY SlotFacts DEF WriteTypes, Views
<1>2. view.age = 0 /\ view.phase = phase
  BY <1>1, SlotFacts DEF ViewExact
<1>3. /\ spot <= LastFree /\ UplinkStart <= spot /\ Wrap + LongestStep <= spot
  BY SlotFacts, Closeness DEF Missed
<1>4. spot = phase + step /\ Wrap <= phase /\ phase < Slot0Start
  BY <1>1, <1>3, SlotFacts, Closeness
<1>5. view.dwell = "uplink" /\ ~view.burst
  <2>1. DwellAt(phase) = "uplink"
    BY <1>1, <1>4, SlotFacts DEF DwellAt
  <2>2. view.dwell = "uplink"
    BY <1>2, <2>1 DEF ViewNamed
  <2> QED  BY <2>2, Zenon DEF ViewNamed
<1>6. Plan(view.dwell, view.anchored) =
        [dwell |-> "uplink", start |-> UplinkStart, end |-> UplinkEnd, txAllowed |-> FALSE]
  BY <1>1, <1>5 DEF Plan, DwellStart, DwellEnd
<1>7. InFrame(Plan(view.dwell, view.anchored), spot) = spot
  BY <1>3, <1>6, SlotFacts DEF InFrame
<1>8. view.phase + (view.age + step) = spot /\ view.age + step = step
  BY <1>1, <1>2, <1>4
<1>9. FreeAt(Plan(view.dwell, view.anchored), spot, WorstWrite)
  BY <1>3, <1>6, <1>7, SlotFacts, Closeness DEF FreeAt, NextEdge
<1>10. step <= ViewStale
  BY <1>1, Closeness, SlotFacts
<1>11. view.burst \in BOOLEAN
  BY DEF WriteTypes, Views
<1> QED  BY <1>5, <1>8, <1>9, <1>10, <1>11 DEF FreeNow

LEMMA AgedBy ==
  ASSUME window \in Windows, window.pending, NEW step \in Nat
  PROVE  /\ Passed(window, step).pending = window.pending
         /\ Passed(window, step).last \in Nat
         /\ Passed(window, step).last <= window.last + step
<1>1. window.last \in Nat /\ SettleTime + SecondMs \in Nat
  BY SlotFacts DEF Windows
<1>2. Passed(window, step).last = Later(window.last, step, SettleTime + SecondMs)
  BY DEF Passed, Windows
<1>3. Passed(window, step).pending = window.pending
  BY DEF Passed, Windows
<1> QED  BY <1>1, <1>2, <1>3 DEF Later, LesserOf

\* A pass at which the change has settled, with no store in the way: either the
\* writer is let through, or the wait is still within its bound.
LEMMA SettledPass ==
  ASSUME WaitInv, Waiting, NEW step \in 1..LongestStep, NEW hop, hop = GreaterOf(step, elapsed),
         NEW last, last = Passed(window, hop).last, last >= SettleTime
  PROVE  /\ hop = step
         /\ \E spot \in 0..SecondMs - 1 :
              /\ spot = (phase + hop) % SecondMs
              /\ \/ FreeNow(view, view.age + hop, WorstWrite)
                 \/ /\ Missed(spot)
                    /\ last < SettleTime + SecondMs
                    /\ spot > LastFree => last + LastFree < SettleTime + LongestStep + spot
                    /\ spot <= LastFree =>
                         last + LastFree < SettleTime + LongestStep + spot + SecondMs
<1>1. /\ phase \in 0..SecondMs - 1 /\ elapsed \in Nat /\ window \in Windows
      /\ window.pending /\ window.last \in Nat /\ elapsed <= WorstWrite
      /\ (window.last > 0 => elapsed = 0)
      /\ step \in Nat /\ 1 <= step /\ step <= LongestStep
  BY SlotFacts DEF WaitInv, PlacedInv, WriteTypes, Windows, UnhurriedPass, Waiting
<1>2. hop \in Nat /\ (hop = step \/ hop = elapsed)
  BY <1>1 DEF GreaterOf
<1>3. last \in Nat /\ last <= window.last + hop
  BY <1>1, <1>2, AgedBy
<1>4. window.last > 0
  BY <1>1, <1>2, <1>3, SlotFacts, Closeness
<1>5. hop = step /\ elapsed = 0
  BY <1>1, <1>4, SlotFacts DEF GreaterOf
<1>6. phase + step \in 0..2 * SecondMs - 1
  BY <1>1, SlotFacts, Closeness
<1>7. PICK spot \in 0..SecondMs - 1 :
        spot = (phase + hop) % SecondMs /\ (spot = phase + step \/ spot = phase + step - SecondMs)
  <2>1. /\ (phase + step) % SecondMs \in 0..SecondMs - 1
        /\ (phase + step) % SecondMs = phase + step
           \/ (phase + step) % SecondMs = phase + step - SecondMs
    BY <1>1, <1>6, OneSecondOff, SlotFacts
  <2> QED  BY <1>5, <2>1
<1>8. CASE ~Missed(spot)
  <2>1. FreeNow(view, view.age + step, WorstWrite)
    BY <1>5, <1>7, <1>8, FreePhase DEF WaitInv, PlacedInv
  <2> QED  BY <1>5, <1>7, <2>1
<1>9. CASE Missed(spot)
  <2>1. /\ spot > LastFree => last + LastFree < SettleTime + LongestStep + spot
        /\ spot <= LastFree => last + LastFree < SettleTime + LongestStep + spot + SecondMs
    <3>1. CASE window.last < SettleTime
      BY <1>1, <1>3, <1>5, <3>1, SlotFacts, Closeness
    <3>2. CASE window.last >= SettleTime
      <4>1. /\ Missed(phase)
            /\ phase > LastFree => window.last + LastFree < SettleTime + LongestStep + phase
            /\ phase <= LastFree =>
                 window.last + LastFree < SettleTime + LongestStep + phase + SecondMs
        BY <3>2 DEF WaitInv, WaitBounded
      <4> QED  BY <1>1, <1>3, <1>5, <1>7, <4>1, SlotFacts, Closeness DEF Missed
    <3> QED  BY <1>1, <3>1, <3>2, SlotFacts
  <2>2. last < SettleTime + SecondMs
    BY <1>3, <1>7, <1>9, <2>1, SlotFacts, Closeness DEF Missed
  <2> QED  BY <1>5, <1>7, <1>9, <2>1, <2>2
<1> QED  BY <1>8, <1>9


LEMMA PassKeepsTheWait ==
  ASSUME WaitInv, NEW step \in 1..LongestStep, NEW change \in BOOLEAN,
         Pass(GreaterOf(step, elapsed), change)
  PROVE  WaitInv'
<1> DEFINE hop == GreaterOf(step, elapsed)
           aged == Passed(window, hop)
           w == IF change THEN Requested(aged) ELSE aged
           verdict == Decided(w, FreeNow(view, view.age + hop, WorstWrite))
           writes == verdict \in {"place", "forced"}
<1>1. /\ phase \in 0..SecondMs - 1 /\ elapsed \in Nat /\ window \in Windows
      /\ crowded \in BOOLEAN /\ step \in Nat /\ 0 < step
  BY SlotFacts DEF WaitInv, PlacedInv, WriteTypes
<1>2. hop \in Nat /\ 0 < hop /\ elapsed <= hop
  BY <1>1 DEF GreaterOf
<1>3. PlacedInv'
  BY <1>2, PassKeepsPlaced DEF WaitInv
<1>4. /\ phase' = (phase + hop) % SecondMs /\ elapsed' = (IF writes THEN WorstWrite ELSE 0)
      /\ window' \in (IF writes THEN {Idle, [w EXCEPT !.first = 0, !.last = 0]} ELSE {w})
      /\ work' = (IF writes
                  THEN [verdict |-> verdict, from |-> (phase + hop) % SecondMs,
                        to |-> ((phase + hop) % SecondMs) + WorstWrite,
                        last |-> w.last, crowded |-> crowded]
                  ELSE NoWork)
      /\ crowded' = (crowded /\ ~change /\ ~writes)
  BY DEF Pass
<1>5. w \in Windows
  BY <1>1, <1>2, WindowTyped
<1>6. change => w.last = 0
  BY DEF Requested
<1>7. ~change => w = aged /\ aged.pending = window.pending
  BY <1>1 DEF Passed, Windows
<1>8. /\ ~w.pending => verdict = "idle"
      /\ w.last >= SettleTime /\ w.pending /\ FreeNow(view, view.age + hop, WorstWrite) =>
           verdict = "place"
      /\ verdict = "forced" => w.pending /\ ~FreeNow(view, view.age + hop, WorstWrite)
  BY <1>5, SlotFacts DEF Decided, Windows
<1> HIDE DEF aged, w, verdict, writes
<1>9. ASSUME ~change, ~crowded, w.pending, w.last >= SettleTime
      PROVE  \/ verdict = "place"
             \/ /\ Missed(phase')
                /\ w.last < SettleTime + SecondMs
                /\ phase' > LastFree => w.last + LastFree < SettleTime + LongestStep + phase'
                /\ phase' <= LastFree =>
                     w.last + LastFree < SettleTime + LongestStep + phase' + SecondMs
  <2>1. Waiting
    BY <1>7, <1>9 DEF Waiting
  <2>2. Passed(window, hop).last >= SettleTime /\ w.last = Passed(window, hop).last
    BY <1>7, <1>9 DEF aged
  <2> QED  BY <1>4, <1>8, <1>9, <2>1, <2>2, SettledPass
<1>10. writes => ~window'.pending \/ window'.last = 0
  <2>1. window' = Idle => ~window'.pending
    BY DEF Idle
  <2>2. window' = [w EXCEPT !.first = 0, !.last = 0] => window'.last = 0
    BY <1>5 DEF Windows
  <2> QED  BY <1>4, <2>1, <2>2
<1>11. ViewNamed'
  <2>1. PICK anchored \in BOOLEAN, burst \in BOOLEAN :
          /\ burst => DwellAt((phase' + elapsed') % SecondMs) # "uplink"
          /\ view' = ViewLeft(phase', elapsed', anchored, burst)
    BY <1>4 DEF Pass, ViewLeft
  <2>2. /\ view'.dwell = DwellAt((phase' + elapsed') % SecondMs)
        /\ view'.phase = (phase' + elapsed') % SecondMs /\ view'.burst = burst
    BY <2>1 DEF ViewLeft, Published
  <2> QED  BY <2>1, <2>2 DEF ViewNamed
<1>12. UnhurriedPass'
  BY <1>4, <1>10, SlotFacts DEF UnhurriedPass, Waiting
<1>13. WaitBounded'
  <2> SUFFICES ASSUME Waiting', window'.last >= SettleTime
               PROVE  /\ Missed(phase')
                      /\ phase' > LastFree =>
                           window'.last + LastFree < SettleTime + LongestStep + phase'
                      /\ phase' <= LastFree =>
                           window'.last + LastFree < SettleTime + LongestStep + phase' + SecondMs
    BY DEF WaitBounded, Missed
  <2>1. ~writes
    BY <1>10, SlotFacts DEF Waiting
  <2>2. window' = w /\ verdict # "place"
    BY <1>4, <2>1 DEF writes
  <2>3. ~change
    BY <1>6, <2>2, SlotFacts
  <2>4. ~crowded
    BY <1>4, <2>1, <2>3 DEF Waiting
  <2> QED  BY <1>9, <2>2, <2>3, <2>4 DEF Waiting
<1>14. ForcedOnlyWhenCrowded'
  <2> SUFFICES ASSUME work'.verdict = "forced", ~work'.crowded
               PROVE  work'.last < SettleTime + SecondMs
    BY DEF ForcedOnlyWhenCrowded
  <2>1. writes
    BY <1>4 DEF NoWork
  <2>2. verdict = "forced" /\ work'.last = w.last /\ ~crowded
    BY <1>4, <2>1
  <2>3. CASE change
    BY <1>6, <2>2, <2>3, SlotFacts
  <2>4. CASE ~change /\ w.last >= SettleTime
    BY <1>8, <1>9, <2>2, <2>4
  <2>5. CASE w.last < SettleTime
    BY <1>5, <2>2, <2>5, SlotFacts DEF Windows
  <2>6. w.last \in Nat
    BY <1>5, SlotFacts DEF Windows
  <2> QED  BY <2>3, <2>4, <2>5, <2>6, SlotFacts
<1> QED  BY <1>3, <1>11, <1>12, <1>13, <1>14 DEF WaitInv

LEMMA BookKeepsTheWait ==
  ASSUME WaitInv, NEW cost \in Costs, NEW spent \in 1..cost, Book(cost, spent)
  PROVE  WaitInv'
<1>1. PlacedInv'
  BY BookKeepsPlaced DEF WaitInv
<1>2. /\ view' = view /\ window' = window /\ crowded' = (crowded \/ window.pending)
      /\ work'.verdict = "place"
  BY DEF Book
<1>3. ViewNamed'
  BY <1>2 DEF WaitInv, ViewNamed
<1>4. ~Waiting'
  BY <1>2 DEF Waiting
<1>5. UnhurriedPass' /\ WaitBounded'
  BY <1>4 DEF UnhurriedPass, WaitBounded
<1>6. ForcedOnlyWhenCrowded'
  BY <1>2 DEF ForcedOnlyWhenCrowded
<1> QED  BY <1>1, <1>3, <1>5, <1>6 DEF WaitInv

LEMMA InitWaits ==
  ASSUME Init
  PROVE  WaitInv
<1>1. PlacedInv
  BY InitPlaced
<1>2. phase \in Nat /\ phase < SecondMs /\ phase % SecondMs = phase
  BY SlotFacts DEF Init
<1>3. ViewNamed
  BY <1>2 DEF Init, Published, ViewNamed
<1>4. UnhurriedPass /\ WaitBounded /\ ForcedOnlyWhenCrowded
  BY DEF Init, UnhurriedPass, WaitBounded, ForcedOnlyWhenCrowded, Waiting, Idle, NoWork
<1> QED  BY <1>1, <1>3, <1>4 DEF WaitInv

THEOREM WaitInvariant == WriteSpec => []WaitInv
<1>1. WaitInv /\ [Next]_writeVars => WaitInv'
  <2> SUFFICES ASSUME WaitInv, [Next]_writeVars PROVE WaitInv'
    OBVIOUS
  <2>1. CASE UNCHANGED writeVars
    <3>1. PlacedInv'
      BY NextKeepsPlaced DEF WaitInv
    <3>2. UNCHANGED <<phase, view, window, elapsed, booked, work, crowded>>
      BY <2>1 DEF writeVars
    <3>3. ViewNamed' /\ UnhurriedPass' /\ WaitBounded' /\ ForcedOnlyWhenCrowded'
      BY <3>2 DEF WaitInv, ViewNamed, UnhurriedPass, WaitBounded, Waiting, Missed,
                  ForcedOnlyWhenCrowded
    <3> QED  BY <3>1, <3>3 DEF WaitInv
  <2> QED  BY <2>1, PassKeepsTheWait, BookKeepsTheWait DEF Next
<1> QED  BY <1>1, InitWaits, PTL DEF WriteSpec

\* DurableWriteWindow::decide: a settings write the radio was not asked about
\* is one whose last change is less than a settle and a second old, or one the
\* stores booked the free stretch away from.  No number of passes, whatever
\* their phases, makes it otherwise as long as they are close enough.
THEOREM ForcedOnlyWhenCrowdedAlways == WriteSpec => []ForcedOnlyWhenCrowded
<1>1. WaitInv => ForcedOnlyWhenCrowded
  BY DEF WaitInv
<1> QED  BY <1>1, WaitInvariant, PTL

(***************************************************************************)
(* The cell and the sky.                                                   *)
(***************************************************************************)

EndsUnder(run, i, n) ==
  \A k \in LevelSamples - n + 1 .. LevelSamples : run[k] # NoReading /\ Under(run[k], i)
EndsClear(run, i, n) ==
  \A k \in LevelSamples - n + 1 .. LevelSamples : run[k] # NoReading /\ Clears(run[k], i)
EndsBefore(run, i, n) ==
  n < LevelSamples =>
    run[LevelSamples - n] = NoReading \/ ~Under(run[LevelSamples - n], i)

\* The counts answer for the readings.
Answering(m, run) ==
  \A i \in Steps :
    /\ EndsUnder(run, i, m.below[i])
    /\ EndsBefore(run, i, m.below[i])
    /\ EndsClear(run, i, m.cleared[i])
    /\ m.below[i] > 0 => m.cleared[i] = 0

\* A whole run under a step has been acted on.
Acted(m) == \A i \in Steps : m.below[i] = LevelSamples => Depth(m.level) >= i

CountsKept == monitor.level # "flat" => Answering(monitor, recent) /\ Acted(monitor)
CutoffInv == CutoffTypeOK /\ CountsKept

USE DEF Steps

-----------------------------------------------------------------------------
(* The ladder and its depths.                                              *)

LEMMA LadderIsNat == \A i \in Steps : Ladder[i] \in Nat /\ Ladder[i] + Margin \in Nat
  BY LadderAssumption DEF Ladder

LEMMA DepthInLadder == \A level \in Levels : Depth(level) \in 0 .. 3
  BY DEF Depth, Levels

LEMMA LevelOfDepth ==
  /\ \A i \in Steps : LevelAt[i] \in Levels /\ Depth(LevelAt[i]) = i
  /\ \A d \in 0 .. 3 : LevelFor(d) \in Levels /\ Depth(LevelFor(d)) = d
  BY DEF Depth, LevelFor, LevelAt, Levels

\* A reading does not clear a step it is under.
LEMMA UnderIsNotClear ==
  ASSUME NEW mv \in Nat, NEW i \in Steps, Under(mv, i)
  PROVE  ~Clears(mv, i)
  BY LadderAssumption DEF Under, Clears, Ladder

-----------------------------------------------------------------------------
(* Counting one reading.                                                   *)

LEMMA CountedType ==
  ASSUME NEW m \in Monitors, NEW mv
  PROVE  Counted(m, mv) \in Monitors /\ Counted(m, mv).level = m.level
<1> DEFINE below == [i \in Steps |-> IF Under(mv, i) THEN Lengthened(m.below[i]) ELSE 0]
           cleared == [i \in Steps |-> IF Clears(mv, i) THEN Lengthened(m.cleared[i]) ELSE 0]
<1>1. \A n \in 0 .. LevelSamples : {0, Lengthened(n)} \subseteq 0 .. LevelSamples
  BY LadderAssumption DEF Lengthened
<1>2. below \in [Steps -> 0 .. LevelSamples] /\ cleared \in [Steps -> 0 .. LevelSamples]
  BY <1>1 DEF Monitors
<1> HIDE DEF below, cleared
<1>3. [m EXCEPT !.below = below, !.cleared = cleared] \in Monitors
  BY <1>2 DEF Monitors
<1>4. [m EXCEPT !.below = below, !.cleared = cleared].level = m.level
  BY DEF Monitors
<1> QED BY <1>3, <1>4 DEF Counted, below, cleared

LEMMA CountedFields ==
  ASSUME NEW m \in Monitors, NEW mv, NEW i \in Steps
  PROVE  /\ Counted(m, mv).below[i] = IF Under(mv, i) THEN Lengthened(m.below[i]) ELSE 0
         /\ Counted(m, mv).cleared[i] = IF Clears(mv, i) THEN Lengthened(m.cleared[i]) ELSE 0
  BY DEF Counted, Monitors

LEMMA RememberedType ==
  ASSUME CutoffTypeOK, NEW mv \in Readings
  PROVE  /\ Remembered(mv) \in [Window -> Readings \cup {NoReading}]
         /\ Remembered(mv)[LevelSamples] = mv
         /\ \A k \in 1 .. LevelSamples - 1 : Remembered(mv)[k] = recent[k + 1]
  BY LadderAssumption DEF CutoffTypeOK, Remembered, Window

LEMMA CountedAnswers ==
  ASSUME CutoffTypeOK, NEW mv \in Readings, Answering(monitor, recent)
  PROVE  Answering(Counted(monitor, mv), Remembered(mv))
<1> DEFINE c == Counted(monitor, mv)
           run == Remembered(mv)
<1> SUFFICES ASSUME NEW i \in Steps
             PROVE  /\ EndsUnder(run, i, c.below[i])
                    /\ EndsBefore(run, i, c.below[i])
                    /\ EndsClear(run, i, c.cleared[i])
                    /\ c.below[i] > 0 => c.cleared[i] = 0
  BY DEF Answering
<1>1. /\ monitor \in Monitors /\ mv \in Nat /\ mv # NoReading
      /\ monitor.below[i] \in 0 .. LevelSamples /\ monitor.cleared[i] \in 0 .. LevelSamples
  BY ReadingsAssumption DEF CutoffTypeOK, Monitors, NoReading
<1>2. /\ run[LevelSamples] = mv
      /\ \A k \in 1 .. LevelSamples - 1 : run[k] = recent[k + 1]
  BY RememberedType
<1>3. /\ c.below[i] = IF Under(mv, i) THEN Lengthened(monitor.below[i]) ELSE 0
      /\ c.cleared[i] = IF Clears(mv, i) THEN Lengthened(monitor.cleared[i]) ELSE 0
  BY <1>1, CountedFields
<1>4. /\ EndsUnder(recent, i, monitor.below[i]) /\ EndsBefore(recent, i, monitor.below[i])
      /\ EndsClear(recent, i, monitor.cleared[i])
  BY DEF Answering
<1> HIDE DEF c, run
<1>5. EndsUnder(run, i, c.below[i])
  <2> SUFFICES ASSUME NEW k \in LevelSamples - c.below[i] + 1 .. LevelSamples
               PROVE  run[k] # NoReading /\ Under(run[k], i)
    BY DEF EndsUnder
  <2>1. Under(mv, i) /\ c.below[i] = Lengthened(monitor.below[i])
    BY <1>3, LadderAssumption
  <2>2. CASE k = LevelSamples
    BY <1>1, <1>2, <2>1, <2>2
  <2>3. CASE k # LevelSamples
    <3>1. /\ k \in 1 .. LevelSamples - 1
          /\ k + 1 \in LevelSamples - monitor.below[i] + 1 .. LevelSamples
      BY <1>1, <2>1, <2>3, LadderAssumption DEF Lengthened
    <3> QED BY <1>2, <1>4, <3>1 DEF EndsUnder
  <2> QED BY <2>2, <2>3
<1>6. EndsBefore(run, i, c.below[i])
  <2>1. CASE Under(mv, i) /\ monitor.below[i] < LevelSamples /\ c.below[i] < LevelSamples
    <3>1. c.below[i] = monitor.below[i] + 1 /\ LevelSamples - c.below[i] \in 1 .. LevelSamples - 1
      BY <1>1, <1>3, <2>1, LadderAssumption DEF Lengthened
    <3>2. run[LevelSamples - c.below[i]] = recent[LevelSamples - monitor.below[i]]
      BY <1>1, <1>2, <3>1, LadderAssumption
    <3> QED BY <1>4, <2>1, <3>2 DEF EndsBefore
  <2>2. CASE ~Under(mv, i)
    <3>1. c.below[i] = 0 /\ LevelSamples - 0 = LevelSamples
      BY <1>3, <2>2, LadderAssumption
    <3> QED BY <1>2, <2>2, <3>1 DEF EndsBefore
  <2>3. CASE Under(mv, i) /\ ~(c.below[i] < LevelSamples)
    BY <2>3 DEF EndsBefore
  <2>4. CASE Under(mv, i) /\ ~(monitor.below[i] < LevelSamples)
    BY <1>1, <1>3, <2>4 DEF EndsBefore, Lengthened
  <2> QED BY <2>1, <2>2, <2>3, <2>4
<1>7. EndsClear(run, i, c.cleared[i])
  <2> SUFFICES ASSUME NEW k \in LevelSamples - c.cleared[i] + 1 .. LevelSamples
               PROVE  run[k] # NoReading /\ Clears(run[k], i)
    BY DEF EndsClear
  <2>1. Clears(mv, i) /\ c.cleared[i] = Lengthened(monitor.cleared[i])
    BY <1>3, LadderAssumption
  <2>2. CASE k = LevelSamples
    BY <1>1, <1>2, <2>1, <2>2
  <2>3. CASE k # LevelSamples
    <3>1. /\ k \in 1 .. LevelSamples - 1
          /\ k + 1 \in LevelSamples - monitor.cleared[i] + 1 .. LevelSamples
      BY <1>1, <2>1, <2>3, LadderAssumption DEF Lengthened
    <3> QED BY <1>2, <1>4, <3>1 DEF EndsClear
  <2> QED BY <2>2, <2>3
<1>8. c.below[i] > 0 => c.cleared[i] = 0
  BY <1>1, <1>3, UnderIsNotClear
<1> QED BY <1>5, <1>6, <1>7, <1>8

-----------------------------------------------------------------------------
(* Settling on a level.                                                    *)

LEMMA DeepestFallen ==
  ASSUME NEW m \in Monitors, NEW i \in Steps, i > Depth(m.level), m.below[i] = LevelSamples
  PROVE  \E j \in Steps : Fallen(m, j)
<1>1. \A j \in Steps : m.below[j] \in 0 .. LevelSamples
  BY DEF Monitors
<1>2. Depth(m.level) \in 0 .. 3
  BY DepthInLadder DEF Monitors
<1>3. CASE m.below[3] >= LevelSamples
  BY <1>1, <1>2, <1>3, LadderAssumption DEF Fallen
<1>4. CASE m.below[3] < LevelSamples /\ m.below[2] >= LevelSamples
  BY <1>1, <1>2, <1>4, LadderAssumption DEF Fallen
<1>5. CASE m.below[3] < LevelSamples /\ m.below[2] < LevelSamples
  BY <1>1, <1>2, <1>5, LadderAssumption DEF Fallen
<1> QED BY <1>1, <1>3, <1>4, <1>5, LadderAssumption

LEMMA SomeRisen ==
  ASSUME NEW m \in Monitors
  PROVE  \E depth \in 0 .. 3 : Risen(m, depth)
<1>1. \A j \in Steps : m.cleared[j] \in 0 .. LevelSamples
  BY DEF Monitors
<1>2. Depth(m.level) \in 0 .. 3
  BY DepthInLadder DEF Monitors
<1>3. CASE \A j \in 1 .. Depth(m.level) : m.cleared[j] >= LevelSamples
  BY <1>2, <1>3 DEF Risen
<1>4. CASE Depth(m.level) >= 3 /\ m.cleared[3] < LevelSamples
  BY <1>1, <1>2, <1>4, LadderAssumption DEF Risen
<1>5. CASE /\ Depth(m.level) >= 2 /\ m.cleared[2] < LevelSamples
           /\ Depth(m.level) = 3 => m.cleared[3] >= LevelSamples
  BY <1>1, <1>2, <1>5, LadderAssumption DEF Risen
<1>6. CASE /\ Depth(m.level) >= 1 /\ m.cleared[1] < LevelSamples
           /\ \A j \in 2 .. Depth(m.level) : m.cleared[j] >= LevelSamples
  BY <1>1, <1>2, <1>6, LadderAssumption DEF Risen
<1> QED BY <1>1, <1>2, <1>3, <1>4, <1>5, <1>6, LadderAssumption

\* Where a reading may leave the level: down on a whole run under it, up over
\* steps that were all cleared by a whole run, and never above a step with a
\* whole run under it.
WellSettled(m, level) ==
  /\ level \in Levels
  /\ \A i \in Steps : m.below[i] = LevelSamples => Depth(level) >= i
  /\ Depth(level) > Depth(m.level) => m.below[Depth(level)] = LevelSamples
  /\ \A i \in Depth(level) + 1 .. Depth(m.level) : m.cleared[i] = LevelSamples

LEMMA SettledLevel ==
  ASSUME NEW m \in Monitors, NEW mv \in Nat,
         \A i \in Steps : m.below[i] > 0 => m.cleared[i] = 0
  PROVE  WellSettled(m, Settled(m, mv))
<1> DEFINE level == Settled(m, mv)
<1> SUFFICES WellSettled(m, level)
  OBVIOUS
<1>1. \A j \in Steps : m.below[j] \in 0 .. LevelSamples /\ m.cleared[j] \in 0 .. LevelSamples
  BY DEF Monitors
<1>2. Depth(m.level) \in 0 .. 3 /\ LevelSamples \in Nat \ {0}
  BY DepthInLadder, LadderAssumption DEF Monitors
<1>3. CASE \E i \in Steps : Fallen(m, i)
  <2> DEFINE i == CHOOSE j \in Steps : Fallen(m, j)
  <2>1. level = LevelAt[i]
    BY <1>3 DEF Settled
  <2>2. i \in Steps /\ Fallen(m, i)
    BY <1>3
  <2> HIDE DEF i, level
  <2>3. level \in Levels /\ Depth(level) = i
    BY <2>1, <2>2, LevelOfDepth
  <2>4. i > Depth(m.level) /\ m.below[i] = LevelSamples
    BY <1>1, <1>2, <2>2 DEF Fallen
  <2>5. \A j \in Steps : m.below[j] = LevelSamples => i >= j
    BY <1>1, <1>2, <2>2 DEF Fallen
  <2>6. i + 1 .. Depth(m.level) = {}
    BY <1>2, <2>2, <2>4
  <2> QED BY <2>3, <2>4, <2>5, <2>6 DEF WellSettled
<1>4. CASE ~(\E i \in Steps : Fallen(m, i)) /\ m.level = "unknown"
  <2>1. level \in {"normal", "unknown"}
    BY <1>4 DEF Settled
  <2>2. level \in Levels /\ Depth(level) = 0 /\ Depth(m.level) = 0
    BY <1>4, <2>1 DEF Levels, Depth
  <2>3. \A i \in Steps : m.below[i] # LevelSamples
    BY <1>4, <2>2, DeepestFallen
  <2> HIDE DEF level
  <2> QED BY <2>2, <2>3 DEF WellSettled
<1>5. CASE ~(\E i \in Steps : Fallen(m, i)) /\ m.level # "unknown"
  <2> DEFINE depth == CHOOSE d \in 0 .. 3 : Risen(m, d)
  <2>1. level = LevelFor(depth)
    BY <1>5 DEF Settled
  <2>2. depth \in 0 .. 3 /\ Risen(m, depth)
    BY SomeRisen
  <2> HIDE DEF depth, level
  <2>3. level \in Levels /\ Depth(level) = depth
    BY <2>1, <2>2, LevelOfDepth
  <2>4. depth <= Depth(m.level)
        /\ \A j \in depth + 1 .. Depth(m.level) : m.cleared[j] = LevelSamples
    <3>1. depth \in 0 .. Depth(m.level)
          /\ \A j \in depth + 1 .. Depth(m.level) : m.cleared[j] >= LevelSamples
      BY <2>2 DEF Risen
    <3>2. \A j \in depth + 1 .. Depth(m.level) : j \in Steps
      BY <1>2, <3>1
    <3> QED BY <1>1, <1>2, <3>1, <3>2
  <2>5. ASSUME NEW i \in Steps, m.below[i] = LevelSamples
        PROVE  depth >= i
    <3>1. i <= Depth(m.level)
      BY <1>2, <1>5, <2>5, DeepestFallen
    <3>2. m.cleared[i] = 0
      BY <1>2, <2>5
    <3> QED BY <1>2, <2>2, <2>4, <3>1, <3>2
  <2> QED BY <1>2, <2>2, <2>3, <2>4, <2>5 DEF WellSettled
<1> QED BY <1>3, <1>4, <1>5

-----------------------------------------------------------------------------
(* The monitor's steps.                                                    *)

LEMMA AppliedReading ==
  ASSUME CutoffInv, NEW mv \in Readings, Sample(mv), monitor.level # "flat"
  PROVE  /\ monitor' \in Monitors
         /\ Answering(monitor', recent')
         /\ Acted(monitor')
         /\ Depth(monitor'.level) > Depth(monitor.level)
               => monitor'.below[Depth(monitor'.level)] = LevelSamples
         /\ \A i \in Depth(monitor'.level) + 1 .. Depth(monitor.level) :
               monitor'.cleared[i] = LevelSamples
<1> DEFINE c == Counted(monitor, mv)
           level == Settled(c, mv)
<1>1. mv \in Nat /\ monitor \in Monitors
  BY ReadingsAssumption DEF CutoffInv, CutoffTypeOK
<1>2. Answering(c, recent') /\ c \in Monitors /\ c.level = monitor.level
  BY <1>1, CountedAnswers, CountedType DEF Sample, CutoffInv, CountsKept
<1>3. monitor' = [c EXCEPT !.level = level]
  BY DEF Sample, Applied
<1> HIDE DEF c
<1>4. WellSettled(c, level)
  BY <1>1, <1>2, SettledLevel DEF Answering
<1> HIDE DEF level
<1>5. /\ monitor' \in Monitors /\ monitor'.level = level
      /\ monitor'.below = c.below /\ monitor'.cleared = c.cleared
  BY <1>2, <1>3, <1>4 DEF Monitors, WellSettled
<1>6. Answering(monitor', recent')
  BY <1>2, <1>5 DEF Answering
<1>7. Acted(monitor')
  BY <1>4, <1>5 DEF Acted, WellSettled
<1> QED BY <1>2, <1>4, <1>5, <1>6, <1>7 DEF WellSettled

LEMMA NothingRead ==
  ASSUME NEW m \in Monitors, m.below = NoRuns, m.cleared = NoRuns
  PROVE  Answering(m, Unread) /\ Acted(m)
<1>1. \A i \in Steps : m.below[i] = 0 /\ m.cleared[i] = 0
  BY DEF NoRuns
<1>2. Unread[LevelSamples] = NoReading
  BY LadderAssumption DEF Unread, Window
<1>3. LevelSamples \in Nat \ {0} /\ LevelSamples - 0 = LevelSamples
      /\ LevelSamples - 0 + 1 .. LevelSamples = {}
  BY LadderAssumption
<1>4. Answering(m, Unread)
  BY <1>1, <1>2, <1>3 DEF Answering, EndsUnder, EndsClear, EndsBefore
<1> QED BY <1>1, <1>3, <1>4 DEF Acted

LEMMA ForgottenType ==
  /\ Booted \in Monitors /\ Booted.below = NoRuns /\ Booted.cleared = NoRuns
  /\ Unread \in [Window -> Readings \cup {NoReading}]
  /\ \A m \in Monitors, level \in Levels :
       LET f == [Forgotten(m) EXCEPT !.level = level]
       IN f \in Monitors /\ f.level = level /\ f.below = NoRuns /\ f.cleared = NoRuns
  /\ \A m \in Monitors :
       LET f == Forgotten(m)
       IN f \in Monitors /\ f.level = m.level /\ f.below = NoRuns /\ f.cleared = NoRuns
<1>1. NoRuns \in [Steps -> 0 .. LevelSamples]
  BY LadderAssumption DEF NoRuns
<1>2. Booted \in Monitors /\ Booted.below = NoRuns /\ Booted.cleared = NoRuns
  BY <1>1 DEF Booted, Monitors, Levels
<1>3. Unread \in [Window -> Readings \cup {NoReading}]
  BY DEF Unread
<1>4. ASSUME NEW m \in Monitors, NEW level \in Levels
      PROVE  LET f == [Forgotten(m) EXCEPT !.level = level]
             IN f \in Monitors /\ f.level = level /\ f.below = NoRuns /\ f.cleared = NoRuns
  BY <1>1 DEF Forgotten, Monitors
<1>5. ASSUME NEW m \in Monitors
      PROVE  LET f == Forgotten(m)
             IN f \in Monitors /\ f.level = m.level /\ f.below = NoRuns /\ f.cleared = NoRuns
  BY <1>1 DEF Forgotten, Monitors
<1> QED BY <1>2, <1>3, <1>4, <1>5

LEMMA CutoffInvInit == CutoffInit => CutoffInv
  BY ForgottenType, NothingRead DEF CutoffInit, CutoffInv, CutoffTypeOK, CountsKept

LEMMA SampleKeeps ==
  ASSUME CutoffInv, NEW mv \in Readings, Sample(mv)
  PROVE  CutoffInv'
<1>1. recent' \in [Window -> Readings \cup {NoReading}] /\ cable' \in BOOLEAN
  BY RememberedType DEF Sample, CutoffInv
<1>2. CASE monitor.level = "flat"
  BY <1>1, <1>2 DEF Sample, Applied, CutoffInv, CutoffTypeOK, CountsKept
<1>3. CASE monitor.level # "flat"
  BY <1>1, <1>3, AppliedReading DEF CutoffInv, CutoffTypeOK, CountsKept
<1> QED BY <1>2, <1>3

LEMMA CableKeeps ==
  ASSUME CutoffInv, Cable
  PROVE  CutoffInv'
<1>1. recent' = Unread /\ cable' = TRUE /\ monitor \in Monitors
  BY DEF Cable, CutoffInv, CutoffTypeOK
<1>2. CASE monitor.level = "flat"
  BY <1>1, <1>2, ForgottenType
  DEF Cable, OnTheCable, OnTheCableUnread, CutoffInv, CutoffTypeOK, CountsKept
<1>3. CASE monitor.level # "flat"
  <2>1. \/ monitor' = [Forgotten(monitor) EXCEPT !.level = "normal"]
        \/ monitor' = Forgotten(monitor)
    BY <1>3 DEF Cable, OnTheCable, OnTheCableUnread
  <2>2. monitor' \in Monitors /\ monitor'.below = NoRuns /\ monitor'.cleared = NoRuns
    <3>1. CASE monitor' = [Forgotten(monitor) EXCEPT !.level = "normal"]
      BY <1>1, <3>1, ForgottenType DEF Levels
    <3>2. CASE monitor' = Forgotten(monitor)
      BY <1>1, <3>2, ForgottenType
    <3> QED BY <2>1, <3>1, <3>2
  <2>3. Answering(monitor', recent') /\ Acted(monitor')
    BY <1>1, <2>2, NothingRead
  <2> QED BY <1>1, <2>2, <2>3, ForgottenType DEF CutoffInv, CutoffTypeOK, CountsKept
<1> QED BY <1>2, <1>3

LEMMA RestartKeeps ==
  ASSUME CutoffInv, Restart
  PROVE  CutoffInv'
  BY ForgottenType, NothingRead DEF Restart, CutoffInv, CutoffTypeOK, CountsKept

LEMMA CutoffInvStep ==
  ASSUME CutoffInv, [CutoffNext]_cutoffVars
  PROVE  CutoffInv'
<1>1. CASE UNCHANGED cutoffVars
  BY <1>1 DEF cutoffVars, CutoffInv, CutoffTypeOK, CountsKept
<1> QED BY <1>1, SampleKeeps, CableKeeps, RestartKeeps DEF CutoffNext

-----------------------------------------------------------------------------
(* The theorems.                                                           *)

\* The level, the counts and the readings they answer for keep their types.
THEOREM CutoffTypeCorrect == CutoffSpec => []CutoffTypeOK
  BY CutoffInvInit, CutoffInvStep, PTL DEF CutoffSpec, CutoffInv

LEMMA RunActsOf == CutoffInv => RunActs
<1> SUFFICES ASSUME CutoffInv, NEW i \in Steps, AllUnder(recent, i)
             PROVE  Depth(monitor.level) >= i
  BY DEF RunActs
<1>1. monitor \in Monitors /\ LevelSamples \in Nat \ {0}
  BY LadderAssumption DEF CutoffInv, CutoffTypeOK
<1>2. CASE monitor.level = "flat"
  BY <1>2 DEF Depth
<1>3. CASE monitor.level # "flat"
  <2>1. monitor.below[i] \in 0 .. LevelSamples
    BY <1>1 DEF Monitors
  <2>2. EndsBefore(recent, i, monitor.below[i]) /\ Acted(monitor)
    BY <1>3 DEF CutoffInv, CountsKept, Answering
  <2>3. monitor.below[i] = LevelSamples
    BY <1>1, <2>1, <2>2 DEF EndsBefore, AllUnder, Window
  <2> QED BY <2>2, <2>3 DEF Acted
<1> QED BY <1>2, <1>3

\* Whatever sags, cables and recoveries came before, a unit is on a level at
\* least as deep as its last whole run of readings asks for.
THEOREM RunAlwaysActs == CutoffSpec => []RunActs
  BY CutoffInvInit, CutoffInvStep, RunActsOf, PTL DEF CutoffSpec

LEMMA MovesOnARunStep ==
  ASSUME CutoffInv, [CutoffNext]_cutoffVars
  PROVE  [ /\ Depth(monitor'.level) > Depth(monitor.level)
                => AllUnder(recent', Depth(monitor'.level))
           /\ Depth(monitor'.level) < Depth(monitor.level)
                => \/ recent' = Unread
                   \/ \A i \in Depth(monitor'.level) + 1 .. Depth(monitor.level) :
                         AllClear(recent', i) ]_monitor
<1>1. monitor \in Monitors /\ LevelSamples \in Nat \ {0}
  BY LadderAssumption DEF CutoffInv, CutoffTypeOK
<1>2. ASSUME NEW mv \in Readings, Sample(mv), monitor.level # "flat"
      PROVE  /\ Depth(monitor'.level) > Depth(monitor.level)
                   => AllUnder(recent', Depth(monitor'.level))
             /\ \A i \in Depth(monitor'.level) + 1 .. Depth(monitor.level) :
                   AllClear(recent', i)
  <2>1. /\ monitor' \in Monitors /\ Answering(monitor', recent')
        /\ Depth(monitor'.level) > Depth(monitor.level)
              => monitor'.below[Depth(monitor'.level)] = LevelSamples
        /\ \A i \in Depth(monitor'.level) + 1 .. Depth(monitor.level) :
              monitor'.cleared[i] = LevelSamples
    BY <1>2, AppliedReading
  <2>2. Depth(monitor.level) \in 0 .. 3 /\ Depth(monitor'.level) \in 0 .. 3
    BY <1>1, <2>1, DepthInLadder DEF Monitors
  <2>3. LevelSamples - LevelSamples + 1 .. LevelSamples = Window
    BY <1>1 DEF Window
  <2>4. ASSUME NEW i \in Steps
        PROVE  /\ monitor'.below[i] = LevelSamples => AllUnder(recent', i)
               /\ monitor'.cleared[i] = LevelSamples => AllClear(recent', i)
    BY <2>1, <2>3 DEF Answering, EndsUnder, EndsClear, AllUnder, AllClear
  <2> QED BY <2>1, <2>2, <2>4
<1>3. CASE \E mv \in Readings : Sample(mv)
  BY <1>2, <1>3 DEF Sample, Applied
<1>4. CASE Cable
  <2>1. CASE monitor' = monitor
    BY <2>1
  <2>2. CASE \/ monitor' = [Forgotten(monitor) EXCEPT !.level = "normal"]
             \/ monitor' = Forgotten(monitor)
    <3>1. monitor'.level \in {"normal", monitor.level}
      <4>1. CASE monitor' = [Forgotten(monitor) EXCEPT !.level = "normal"]
        BY <1>1, <4>1, ForgottenType DEF Levels
      <4>2. CASE monitor' = Forgotten(monitor)
        BY <1>1, <4>2, ForgottenType
      <4> QED BY <2>2, <4>1, <4>2
    <3>2. Depth("normal") = 0 /\ Depth(monitor.level) \in 0 .. 3
      BY <1>1, DepthInLadder DEF Depth, Monitors
    <3>3. ~(Depth(monitor'.level) > Depth(monitor.level))
      BY <3>1, <3>2
    <3> QED BY <1>4, <3>3 DEF Cable
  <2> QED BY <1>4, <2>1, <2>2 DEF Cable, OnTheCable, OnTheCableUnread
<1>5. CASE Restart
  <2>1. Depth(monitor'.level) = 0 /\ recent' = Unread
    BY <1>5 DEF Restart, Booted, Depth
  <2> QED BY <1>1, <2>1, DepthInLadder DEF Monitors
<1>6. CASE UNCHANGED cutoffVars
  BY <1>6 DEF cutoffVars
<1> QED BY <1>3, <1>4, <1>5, <1>6 DEF CutoffNext

\* The level goes down only on a whole run under the step it goes to, and up
\* only on a whole run clear of each step it leaves, a cable or a boot.
THEOREM AlwaysMovesOnARun == CutoffSpec => MovesOnARun
  BY CutoffInvInit, CutoffInvStep, MovesOnARunStep, PTL DEF CutoffSpec, MovesOnARun

HIDE DEF Steps

-----------------------------------------------------------------------------
(* The sky.  What the tracker's slots and the table's say of each other.   *)

Target == [who : Aircraft \cup {Nobody}, air : BOOLEAN, direct : BOOLEAN, age : Nat,
           new : BOOLEAN, alarm : BOOLEAN]
Track == [who : Aircraft \cup {Nobody}, seen : Nat, forget : Nat, notified : BOOLEAN,
          dismissed : BOOLEAN, falling : Nat \cup {Steady}]

SkyTypeOK ==
  /\ table \in [Slots -> Target]
  /\ tracker \in [Tracks -> Track]
  /\ said \in SUBSET Aircraft /\ ring \in SUBSET Aircraft
  /\ told \in SUBSET Aircraft /\ touched \in SUBSET Aircraft
  /\ gap \in [Aircraft -> Nat]
  /\ tone \in BOOLEAN /\ live \in BOOLEAN /\ recycled \in BOOLEAN
  /\ at \in {"radio", "glass"}

\* An aircraft has one slot.
OneSlotEach(slots) ==
  \A i, j \in DOMAIN slots : slots[i].who # Nobody /\ slots[i].who = slots[j].who => i = j

\* Whoever was graded inside is in the table, in alarm.
RingInAlarm ==
  /\ ring \subseteq Held(table)
  /\ \A i \in Slots : table[i].who \in ring => table[i].alarm

\* The tracker has seen an aircraft no earlier than its report, but one it has
\* not been shown yet.
SeenNoOlder ==
  \A i \in Slots, j \in Tracks :
    /\ table[i].who # Nobody /\ tracker[j].who = table[i].who
    /\ ~table[i].new
    => tracker[j].seen <= table[i].age

\* What a slot holds as said was, and is dismissed if a touch came since.
NotifiedTold ==
  /\ told \subseteq Held(tracker)
  /\ \A j \in Used(tracker) : tracker[j].notified =>
       /\ tracker[j].who \in told
       /\ tracker[j].who \in touched => tracker[j].dismissed

\* How long an aircraft has been outside is no less than its slot believes.
FallsOutside ==
  \A j \in Used(tracker) :
    tracker[j].falling # Steady =>
      \/ tracker[j].falling <= gap[tracker[j].who]
      \/ RenotifyFloor <= gap[tracker[j].who]

\* What was told and may be said again has been outside for a floor.
SaidAgainLate ==
  ~recycled => \A j \in Used(tracker) :
    tracker[j].who \in told /\ ~tracker[j].notified => RenotifyFloor <= gap[tracker[j].who]

SkyInv ==
  /\ SkyTypeOK
  /\ OneSlotEach(table) /\ OneSlotEach(tracker)
  /\ RingInAlarm /\ SeenNoOlder /\ NotifiedTold /\ FallsOutside /\ SaidAgainLate
  /\ ToneIsMeant

USE DEF Slots, Tracks

LEMMA Bounds ==
  /\ MaxTargets \in Nat /\ 1 \in Slots /\ MaxTracked \in Nat /\ 1 \in Tracks
  /\ RenotifyFloor \in Nat /\ AlertMaxAge \in Nat /\ AirForget \in Nat /\ GroundForget \in Nat
  /\ GroundPeriod \in Nat
  /\ 0 < RenotifyFloor /\ RenotifyFloor <= AlertMaxAge
  /\ AlertMaxAge < AirForget /\ AirForget < GroundForget
BY TrafficAssumption

-----------------------------------------------------------------------------
(* The slot an aircraft is given.                                          *)

LEMMA LeastOf ==
  ASSUME NEW S \in SUBSET Nat, S # {}
  PROVE  \E n \in S : \A m \in S : n <= m
<1>1. PICK n \in S : \A m \in S : ~ (<<m, n>> \in OpToRel(<, Nat))
  BY NatLessThanWellFounded, WFMin
<1>2. \A m \in S : ~ (m < n)
  BY <1>1 DEF OpToRel
<1>3. QED
  BY <1>2

LEMMA FirstIs ==
  ASSUME NEW S \in SUBSET Nat, S # {}
  PROVE  First(S) \in S
BY LeastOf DEF First

\* Some slot was seen no later than any other.
LEMMA LongestUnseen ==
  ASSUME NEW slots \in [Tracks -> Track]
  PROVE  \E i \in Tracks : \A j \in Tracks : slots[j].seen <= slots[i].seen
<1> DEFINE lack == {m \in Nat : /\ m \in Tracks
                                /\ ~ \E i \in 1 .. m : \A j \in 1 .. m : slots[j].seen <= slots[i].seen}
<1>1. \A j \in Tracks : slots[j].seen \in Nat
  BY DEF Track
<1>2. ASSUME lack # {} PROVE FALSE
  <2>1. PICK m \in lack : \A n \in lack : m <= n
    BY <1>2, LeastOf
  <2>2. m \in Nat /\ m \in Tracks
    BY <2>1
  <2>3. CASE m = 1
    <3>1. \A j \in 1 .. m : slots[j].seen <= slots[1].seen /\ 1 \in 1 .. m
      BY <1>1, <2>2, <2>3
    <3>2. QED
      BY <2>1, <2>3, <3>1
  <2>4. CASE m > 1
    <3>1. m - 1 \in Tracks /\ m - 1 \in Nat /\ m - 1 \notin lack
      <4>1. m - 1 \in Tracks /\ m - 1 \in Nat /\ ~ (m <= m - 1)
        BY <2>2, <2>4, Bounds
      <4>2. QED
        BY <2>1, <4>1
    <3>2. PICK i \in 1 .. m - 1 : \A j \in 1 .. m - 1 : slots[j].seen <= slots[i].seen
      BY <3>1
    <3>3. /\ i \in Tracks /\ i \in 1 .. m /\ m \in 1 .. m
          /\ \A j \in 1 .. m : j \in Tracks /\ (j \in 1 .. m - 1 \/ j = m)
      BY <2>2, <2>4, Bounds
    <3>4. CASE slots[m].seen <= slots[i].seen
      <4>1. \A j \in 1 .. m : slots[j].seen <= slots[i].seen
        BY <3>2, <3>3, <3>4
      <4>2. QED
        BY <2>1, <3>3, <4>1
    <3>5. CASE ~ (slots[m].seen <= slots[i].seen)
      <4>1. ASSUME NEW j \in 1 .. m PROVE slots[j].seen <= slots[m].seen
        <5> DEFINE its == slots[j].seen
                   most == slots[i].seen
                   last == slots[m].seen
        <5>1. its \in Nat /\ most \in Nat /\ last \in Nat
          BY <1>1, <2>2, <3>3
        <5>2. its <= most \/ its = last
          BY <3>2, <3>3
        <5>3. ~ (last <= most)
          BY <3>5
        <5> HIDE DEF its, most, last
        <5>4. its <= last
          BY <5>1, <5>2, <5>3
        <5>5. QED
          BY <5>4 DEF its, last
      <4>2. QED
        BY <2>1, <3>3, <4>1
    <3>6. QED
      BY <3>4, <3>5
  <2>5. QED
    BY <2>2, <2>3, <2>4
<1>3. MaxTracked \in Nat /\ MaxTracked \in Tracks /\ Tracks = 1 .. MaxTracked
  BY Bounds
<1>4. QED
  BY <1>2, <1>3

LEMMA SlotForIs ==
  ASSUME NEW slots \in [Tracks -> Track], NEW a \in Aircraft
  PROVE  /\ SlotFor(slots, a) \in Tracks
         /\ \/ slots[SlotFor(slots, a)].who = a
            \/ /\ a \notin Held(slots)
               /\ slots[SlotFor(slots, a)].who = Nobody \/ Free(slots) = {}
<1>1. DOMAIN slots = Tracks /\ Tracks \in SUBSET Nat /\ a # Nobody
  BY NobodyAssumption
<1>2. CASE a \in Held(slots)
  <2>1. \E i \in Tracks : slots[i].who = a
    BY <1>1, <1>2 DEF Held, Used
  <2>2. SlotOf(slots, a) \in Tracks /\ slots[SlotOf(slots, a)].who = a
    BY <1>1, <2>1 DEF SlotOf
  <2>3. QED
    BY <1>2, <2>2 DEF SlotFor
<1>3. CASE a \notin Held(slots) /\ Free(slots) # {}
  <2>1. Free(slots) \in SUBSET Nat
    BY <1>1 DEF Free, Used
  <2>2. First(Free(slots)) \in Free(slots)
    BY <1>3, <2>1, FirstIs
  <2>3. First(Free(slots)) \in Tracks /\ slots[First(Free(slots))].who = Nobody
    BY <1>1, <2>2 DEF Free, Used
  <2>4. QED
    BY <1>3, <2>3 DEF SlotFor
<1>4. CASE a \notin Held(slots) /\ Free(slots) = {}
  <2> DEFINE oldest == {i \in Tracks : \A j \in Tracks : slots[j].seen <= slots[i].seen}
  <2>1. oldest \in SUBSET Nat /\ oldest # {}
    BY <1>1, LongestUnseen
  <2>2. First(oldest) \in oldest
    BY <2>1, FirstIs
  <2>3. SlotFor(slots, a) = First(oldest)
    BY <1>4 DEF SlotFor
  <2>4. QED
    BY <1>4, <2>2, <2>3
<1>5. QED
  BY <1>2, <1>3, <1>4

\* A slot nobody had before holds nothing of anybody else.
Opened(a) == [Unused EXCEPT !.who = a]

LEMMA ForgetIs ==
  ASSUME NEW report \in Target
  PROVE  Forget(report) \in Nat /\ AlertMaxAge < Forget(report)
BY Bounds DEF Forget

LEMMA FoundIs ==
  ASSUME NEW slots \in [Tracks -> Track], OneSlotEach(slots),
         NEW report \in Target, report.who \in Aircraft
  PROVE  \E j \in Tracks, was \in Track :
           /\ Found(slots, report) = [slots EXCEPT ![j] =
                [was EXCEPT !.seen = IF report.new THEN 0 ELSE @, !.forget = Forget(report)]]
           /\ SlotOf(Found(slots, report), report.who) = j
           /\ was.who = report.who
           /\ \A t \in Tracks \ {j} : slots[t].who # report.who
           /\ \/ slots[j].who = report.who /\ was = slots[j]
              \/ /\ report.who \notin Held(slots) /\ was = Opened(report.who)
                 /\ slots[j].who = Nobody \/ Free(slots) = {}
<1> DEFINE a == report.who
           j == SlotFor(slots, a)
           was == IF slots[j].who = a THEN slots[j] ELSE Opened(a)
           now == [was EXCEPT !.seen = IF report.new THEN 0 ELSE @, !.forget = Forget(report)]
           found == [slots EXCEPT ![j] = now]
<1>1. /\ j \in Tracks /\ a # Nobody
      /\ \/ slots[j].who = a
         \/ a \notin Held(slots) /\ (slots[j].who = Nobody \/ Free(slots) = {})
  BY SlotForIs, NobodyAssumption
<1>2. DOMAIN slots = Tracks
  OBVIOUS
<1>3. \A t \in Tracks \ {j} : slots[t].who # a
  <2>1. CASE slots[j].who = a
    BY <1>1, <1>2, <2>1 DEF OneSlotEach
  <2>2. CASE a \notin Held(slots)
    BY <1>1, <1>2, <2>2 DEF Held, Used
  <2>3. QED
    BY <1>1, <2>1, <2>2
<1>4. was \in Track /\ was.who = a
  <2>1. Opened(a) \in Track /\ Opened(a).who = a
    BY DEF Opened, Unused, Track
  <2>2. QED
    BY <1>1, <2>1
<1>5. Found(slots, report) = found
  BY DEF Found, Opened
<1> HIDE DEF was, j
<1>6. found[j].who = a /\ DOMAIN found = Tracks /\ \A t \in Tracks \ {j} : found[t] = slots[t]
  BY <1>1, <1>4 DEF Track
<1> HIDE DEF found
<1>7. SlotOf(found, a) = j
  BY <1>1, <1>3, <1>6 DEF SlotOf
<1>8. \/ slots[j].who = a /\ was = slots[j]
      \/ a \notin Held(slots) /\ was = Opened(a) /\ (slots[j].who = Nobody \/ Free(slots) = {})
  BY <1>1 DEF was
<1>9. QED
  BY <1>1, <1>3, <1>4, <1>5, <1>7, <1>8 DEF found

\* What one grading makes of a slot.
LEMMA NotifiedIs ==
  ASSUME NEW slot \in Track, NEW inside \in BOOLEAN, NEW floor \in Nat,
         NEW now, now = Notified(slot, inside, floor)
  PROVE  /\ now \in Track
         /\ now.who = slot.who /\ now.seen = slot.seen /\ now.forget = slot.forget
         /\ inside => now.notified /\ now.falling = Steady
         /\ now.notified => inside \/ slot.notified
         /\ now.notified /\ slot.notified => now.dismissed = slot.dismissed
         /\ now.falling # Steady => now.falling = 0 \/ now.falling = slot.falling
         /\ slot.notified /\ ~now.notified => slot.falling # Steady /\ slot.falling >= floor
<1> USE DEF Track, Steady
<1>1. CASE inside \/ ~slot.notified
  BY <1>1 DEF Notified
<1>2. CASE ~inside /\ slot.notified
  <2>1. CASE slot.falling = Steady
    BY <1>2, <2>1 DEF Notified
  <2>2. CASE slot.falling # Steady /\ slot.falling >= floor
    BY <1>2, <2>2 DEF Notified
  <2>3. CASE slot.falling # Steady /\ ~ (slot.falling >= floor)
    BY <1>2, <2>3 DEF Notified
  <2>4. QED
    BY <2>1, <2>2, <2>3
<1>3. QED
  BY <1>1, <1>2

LEMMA WithdrawnIs ==
  ASSUME NEW slot \in Track, NEW now, now = Withdrawn(slot)
  PROVE  /\ now \in Track
         /\ now.who = slot.who /\ now.seen = slot.seen /\ now.forget = slot.forget
         /\ ~now.notified /\ now.falling = Steady
BY DEF Withdrawn, Track, Steady

-----------------------------------------------------------------------------
(* A pass over the table, one target at a time.                            *)

Sky == [table : [Slots -> Target], tracker : [Tracks -> Track], said : SUBSET Aircraft,
        ring : SUBSET Aircraft, live : BOOLEAN, full : BOOLEAN]

IsPass(pass) ==
  /\ pass.fix \in BOOLEAN /\ pass.down \in BOOLEAN /\ pass.early \in BOOLEAN
  /\ pass.near \in SUBSET Aircraft /\ pass.silent \in SUBSET Aircraft

\* Who stands in the first n places of what the ageing left.
GradedWho(base, n) == {base[k].who : k \in 1 .. n}

\* What is so of a slot once the first n have been graded.
SlotKept(sky, base, pass, n, slot) ==
  /\ slot.notified => slot.who \in told \cup sky.said
  /\ slot.notified /\ slot.who \in touched /\ slot.who \notin sky.said => slot.dismissed
  /\ slot.falling # Steady =>
       slot.falling <= gap[slot.who] \/ RenotifyFloor <= gap[slot.who]
  /\ slot.who \in sky.said => slot.notified
  /\ ~sky.full /\ slot.who \in told /\ ~slot.notified =>
       RenotifyFloor <= gap[slot.who] \/ slot.who \in pass.silent \cap GradedWho(base, n)
  /\ slot.who \in pass.silent \cap GradedWho(base, n) => ~slot.notified
  /\ \A k \in 1 .. n :
       base[k].who = slot.who =>
         /\ slot.forget = Forget(base[k])
         /\ slot.who \in sky.ring /\ Fresh(base[k]) => slot.notified /\ slot.falling = Steady
  /\ \A k \in Slots :
       base[k].who = slot.who /\ (k <= n \/ ~base[k].new) => slot.seen <= base[k].age

TableKept(sky, base, n) ==
  \A k \in Slots :
    /\ k > n => sky.table[k] = base[k]
    /\ /\ sky.table[k].who = base[k].who /\ sky.table[k].air = base[k].air
       /\ sky.table[k].age = base[k].age
    /\ k <= n /\ base[k].who \in sky.ring => sky.table[k].alarm

SkyKept(sky, base, pass, n) ==
  /\ sky \in Sky
  /\ OneSlotEach(sky.tracker)
  /\ TableKept(sky, base, n)
  /\ sky.ring \subseteq GradedWho(base, n) \ pass.silent
  /\ sky.said \subseteq GradedWho(base, n)
  /\ \A j \in Used(sky.tracker) : SlotKept(sky, base, pass, n, sky.tracker[j])
  /\ ~sky.full =>
       /\ ~recycled /\ Held(tracker) \subseteq Held(sky.tracker)
       /\ GradedWho(base, n) \ {Nobody} \subseteq Held(sky.tracker)
       /\ \A a \in told \cap sky.said : RenotifyFloor <= gap[a]

\* What the ageing leaves.
IsBase(base) == base \in [Slots -> Target] /\ OneSlotEach(base)

LEMMA GradedNobody ==
  ASSUME NEW sky, NEW base, IsBase(base), NEW pass, NEW i \in Slots,
         SkyKept(sky, base, pass, i - 1), base[i].who = Nobody
  PROVE  SkyKept(Graded(sky, i, pass), base, pass, i)
<1>1. sky.table[i].who = Nobody
  BY DEF SkyKept, TableKept
<1>2. Graded(sky, i, pass) = sky
  BY <1>1 DEF Graded
<1>3. i \in Nat /\ \A k \in Slots : k <= i <=> k <= i - 1 \/ k = i
  BY Bounds
<1>4. \A k \in 1 .. i : k \in Slots /\ (k \in 1 .. i - 1 \/ k = i)
  BY <1>3, Bounds
<1>5. GradedWho(base, i) = GradedWho(base, i - 1) \cup {Nobody}
  <2>1. i \in 1 .. i /\ \A k \in 1 .. i - 1 : k \in 1 .. i
    BY <1>3, Bounds
  <2>2. QED
    BY <1>4, <2>1 DEF GradedWho
<1>6. sky.ring \in SUBSET Aircraft /\ sky.said \in SUBSET Aircraft
      /\ \A j \in Used(sky.tracker) : sky.tracker[j].who # Nobody
  BY DEF SkyKept, Sky, Used
<1>7. TableKept(sky, base, i)
  <2>1. ASSUME NEW k \in Slots
        PROVE  /\ k > i => sky.table[k] = base[k]
               /\ k <= i /\ base[k].who \in sky.ring => sky.table[k].alarm
    <3>1. k > i => k > i - 1
      BY <1>3
    <3>2. k <= i => k <= i - 1 \/ base[k].who \notin sky.ring
      BY <1>3, <1>6, NobodyAssumption
    <3>3. QED
      BY <3>1, <3>2 DEF SkyKept, TableKept
  <2>2. QED
    BY <2>1 DEF SkyKept, TableKept
<1>8. \A j \in Used(sky.tracker) : SlotKept(sky, base, pass, i, sky.tracker[j])
  <2> SUFFICES ASSUME NEW j \in Used(sky.tracker)
               PROVE  SlotKept(sky, base, pass, i, sky.tracker[j])
    OBVIOUS
  <2>1. SlotKept(sky, base, pass, i - 1, sky.tracker[j]) /\ sky.tracker[j].who # Nobody
    BY <1>6 DEF SkyKept
  <2>2. \A k \in 1 .. i : base[k].who = sky.tracker[j].who => k \in 1 .. i - 1
    BY <1>4, <2>1
  <2>3. \A k \in Slots : base[k].who = sky.tracker[j].who /\ k <= i => k <= i - 1
    BY <1>3, <2>1
  <2>4. sky.tracker[j].who \in GradedWho(base, i) => sky.tracker[j].who \in GradedWho(base, i - 1)
    BY <1>5, <2>1
  <2>5. sky.tracker[j].who \in GradedWho(base, i - 1) => sky.tracker[j].who \in GradedWho(base, i)
    BY <1>5
  <2>6. QED
    BY <2>1, <2>2, <2>3, <2>4, <2>5 DEF SlotKept
<1>9. QED
  BY <1>2, <1>5, <1>7, <1>8 DEF SkyKept

LEMMA FloorIs ==
  ASSUME NEW report, NEW pass
  PROVE  Floor(report, pass) \in Nat /\ RenotifyFloor <= Floor(report, pass)
BY Bounds DEF Floor

LEMMA GradedSomebody ==
  ASSUME SkyInv, NEW base, IsBase(base), NEW pass, IsPass(pass), NEW i \in Slots,
         NEW sky, SkyKept(sky, base, pass, i - 1), base[i].who # Nobody
  PROVE  SkyKept(Graded(sky, i, pass), base, pass, i)
<1> DEFINE report == sky.table[i]
           a == report.who
           slots == Found(sky.tracker, report)
           inside == Inside(report, pass)
           quiet == a \in pass.silent
           next == Graded(sky, i, pass)
<1>1. /\ sky \in Sky /\ OneSlotEach(sky.tracker) /\ TableKept(sky, base, i - 1)
      /\ sky.table \in [Slots -> Target] /\ sky.tracker \in [Tracks -> Track]
      /\ sky.ring \in SUBSET Aircraft /\ sky.said \in SUBSET Aircraft
  BY DEF SkyKept, Sky
<1>2. i \in Nat /\ i - 1 \in Nat /\ i > i - 1
      /\ (\A k \in Slots : (k <= i <=> k <= i - 1 \/ k = i) /\ (k > i => k > i - 1))
      /\ (\A k \in 1 .. i : k \in Slots /\ (k \in 1 .. i - 1 \/ k = i))
      /\ (\A k \in 1 .. i - 1 : k \in Slots /\ k \in 1 .. i /\ k # i)
      /\ i \in 1 .. i
  BY Bounds
<1>3. report = base[i] /\ report \in Target /\ a \in Aircraft /\ inside \in BOOLEAN
  <2>1. report = base[i]
    BY <1>1, <1>2 DEF TableKept
  <2>2. base[i] \in Target
    BY DEF IsBase
  <2>3. QED
    BY <2>1, <2>2 DEF Target, Inside
<1>4. PICK j \in Tracks, was \in Track :
           /\ slots = [sky.tracker EXCEPT ![j] =
                [was EXCEPT !.seen = IF report.new THEN 0 ELSE @, !.forget = Forget(report)]]
           /\ SlotOf(slots, a) = j
           /\ was.who = a
           /\ \A t \in Tracks \ {j} : sky.tracker[t].who # a
           /\ \/ sky.tracker[j].who = a /\ was = sky.tracker[j]
              \/ /\ a \notin Held(sky.tracker) /\ was = Opened(a)
                 /\ sky.tracker[j].who = Nobody \/ Free(sky.tracker) = {}
  BY <1>1, <1>3, FoundIs
<1> DEFINE old == slots[j]
           slot == IF Fresh(report) THEN Notified(old, inside, Floor(report, pass)) ELSE old
           last == IF quiet THEN Withdrawn(slot) ELSE slot
<1>5. next = [table |-> [sky.table EXCEPT ![i].new = FALSE, ![i].alarm = inside /\ ~quiet],
              tracker |-> [slots EXCEPT ![j] = last],
              said |-> IF slot.notified /\ ~old.notified /\ ~quiet THEN sky.said \cup {a}
                       ELSE sky.said,
              ring |-> IF inside /\ ~quiet THEN sky.ring \cup {a} ELSE sky.ring,
              live |-> sky.live \/ (inside /\ ~quiet /\ ~slot.dismissed),
              full |-> sky.full \/ (a \notin Held(sky.tracker) /\ Free(sky.tracker) = {})]
  BY <1>3, <1>4 DEF Graded
<1>6. /\ old = [was EXCEPT !.seen = IF report.new THEN 0 ELSE @, !.forget = Forget(report)]
      /\ old \in Track /\ old.who = a
      /\ old.notified = was.notified /\ old.falling = was.falling /\ old.dismissed = was.dismissed
      /\ old.seen = (IF report.new THEN 0 ELSE was.seen) /\ old.forget = Forget(report)
  <2>1. Forget(report) \in Nat
    BY <1>3, ForgetIs
  <2>2. old = [was EXCEPT !.seen = IF report.new THEN 0 ELSE @, !.forget = Forget(report)]
    BY <1>1, <1>4
  <2>3. was \in Track /\ was.who = a
    BY <1>4
  <2> HIDE DEF report, a, old
  <2>4. QED
    BY <2>1, <2>2, <2>3 DEF Track
<1> HIDE DEF report, a, slots, inside, quiet, next, old
<1>7. /\ slot \in Track /\ slot.who = a /\ slot.seen = old.seen /\ slot.forget = old.forget
      /\ inside /\ Fresh(report) => slot.notified /\ slot.falling = Steady
      /\ slot.notified => old.notified \/ (inside /\ Fresh(report))
      /\ slot.notified /\ old.notified => slot.dismissed = old.dismissed
      /\ slot.falling # Steady => slot.falling = 0 \/ slot.falling = old.falling
      /\ old.notified /\ ~slot.notified => old.falling # Steady /\ old.falling >= RenotifyFloor
  <2>1. Floor(report, pass) \in Nat /\ RenotifyFloor <= Floor(report, pass)
    BY FloorIs
  <2>2. CASE Fresh(report)
    <3>1. /\ slot = Notified(old, inside, Floor(report, pass))
          /\ old \in Track /\ inside \in BOOLEAN /\ Floor(report, pass) \in Nat
      BY <1>3, <1>6, <2>1, <2>2
    <3> HIDE DEF slot
    <3>2. /\ slot \in Track
          /\ slot.who = old.who /\ slot.seen = old.seen /\ slot.forget = old.forget
          /\ inside => slot.notified /\ slot.falling = Steady
          /\ slot.notified => inside \/ old.notified
          /\ slot.notified /\ old.notified => slot.dismissed = old.dismissed
          /\ slot.falling # Steady => slot.falling = 0 \/ slot.falling = old.falling
          /\ old.notified /\ ~slot.notified => old.falling # Steady /\ old.falling >= Floor(report, pass)
      BY <3>1, NotifiedIs, SMTT(30)
    <3>3. old.falling # Steady /\ old.falling >= Floor(report, pass) => old.falling >= RenotifyFloor
      BY <1>6, <2>1, Bounds DEF Track
    <3>4. QED
      BY <1>6, <2>2, <3>2, <3>3
  <2>3. CASE ~Fresh(report)
    BY <1>6, <2>3
  <2>4. QED
    BY <2>2, <2>3
<1> HIDE DEF slot
<1>8. /\ last \in Track /\ last.who = a /\ last.seen = old.seen /\ last.forget = Forget(report)
      /\ quiet => ~last.notified /\ last.falling = Steady
      /\ ~quiet => last = slot
  BY <1>6, <1>7, WithdrawnIs
<1> HIDE DEF last
<1>9. /\ next.table = [sky.table EXCEPT ![i].new = FALSE, ![i].alarm = inside /\ ~quiet]
      /\ next.tracker = [sky.tracker EXCEPT ![j] = last]
      /\ next.said = IF slot.notified /\ ~old.notified /\ ~quiet THEN sky.said \cup {a} ELSE sky.said
      /\ next.ring = IF inside /\ ~quiet THEN sky.ring \cup {a} ELSE sky.ring
      /\ next.full = (sky.full \/ (a \notin Held(sky.tracker) /\ Free(sky.tracker) = {}))
      /\ next.live = (sky.live \/ (inside /\ ~quiet /\ ~slot.dismissed))
  <2>1. [slots EXCEPT ![j] = last] = [sky.tracker EXCEPT ![j] = last]
    BY <1>1, <1>4
  <2>2. QED
    BY <1>5, <2>1
<1>10. /\ next \in Sky
       /\ next.tracker \in [Tracks -> Track] /\ next.tracker[j] = last
       /\ \A t \in Tracks \ {j} : next.tracker[t] = sky.tracker[t]
       /\ \A k \in Slots \ {i} : next.table[k] = sky.table[k]
       /\ next.table[i] = [report EXCEPT !.new = FALSE, !.alarm = inside /\ ~quiet]
  <2>1. next.table \in [Slots -> Target]
        /\ (\A k \in Slots \ {i} : next.table[k] = sky.table[k])
        /\ next.table[i] = [report EXCEPT !.new = FALSE, !.alarm = inside /\ ~quiet]
    <3>1. [report EXCEPT !.new = FALSE, !.alarm = inside /\ ~quiet] \in Target
      BY <1>3 DEF Target
    <3>2. next.table = [sky.table EXCEPT ![i] = [report EXCEPT !.new = FALSE, !.alarm = inside /\ ~quiet]]
      BY <1>1, <1>9 DEF report
    <3>3. QED
      BY <1>1, <3>1, <3>2
  <2>2. /\ next.tracker \in [Tracks -> Track] /\ next.tracker[j] = last
        /\ \A t \in Tracks \ {j} : next.tracker[t] = sky.tracker[t]
    <3>1. /\ next.tracker = [sky.tracker EXCEPT ![j] = last]
          /\ sky.tracker \in [Tracks -> Track] /\ j \in Tracks /\ last \in Track
      BY <1>1, <1>4, <1>8, <1>9
    <3>2. QED
      BY <3>1
  <2>3. next.said \in SUBSET Aircraft /\ next.ring \in SUBSET Aircraft
    BY <1>1, <1>3, <1>9
  <2>4. next.full \in BOOLEAN /\ next.live \in BOOLEAN
    BY <1>9
  <2>5. next = [table |-> next.table, tracker |-> next.tracker, said |-> next.said,
                ring |-> next.ring, live |-> next.live, full |-> next.full]
    BY <1>5
  <2>6. QED
    BY <2>1, <2>2, <2>3, <2>4, <2>5 DEF Sky
<1>11. OneSlotEach(next.tracker)
  <2>1. DOMAIN next.tracker = Tracks /\ DOMAIN sky.tracker = Tracks
    BY <1>1, <1>10
  <2>2. \A s, t \in Tracks : sky.tracker[s].who # Nobody /\ sky.tracker[s].who = sky.tracker[t].who => s = t
    BY <1>1, <2>1 DEF OneSlotEach
  <2>3. \A s, t \in Tracks : next.tracker[s].who # Nobody /\ next.tracker[s].who = next.tracker[t].who => s = t
    BY <1>4, <1>8, <1>10, <2>2
  <2>4. QED
    BY <2>1, <2>3 DEF OneSlotEach
<1>12. GradedWho(base, i) = GradedWho(base, i - 1) \cup {a}
  BY <1>2, <1>3 DEF GradedWho, a
<1>13. a \notin GradedWho(base, i - 1)
  <2>1. \A k \in Slots : base[k].who = a => k = i
    BY <1>3, NobodyAssumption DEF IsBase, OneSlotEach, a
  <2>2. QED
    BY <1>2, <2>1 DEF GradedWho
<1>14. /\ sky.ring \subseteq GradedWho(base, i - 1) \ pass.silent
       /\ sky.said \subseteq GradedWho(base, i - 1)
       /\ a \notin sky.ring /\ a \notin sky.said
  BY <1>13 DEF SkyKept

<1>15. TableKept(next, base, i)
  <2> SUFFICES ASSUME NEW k \in Slots
               PROVE  /\ k > i => next.table[k] = base[k]
                      /\ /\ next.table[k].who = base[k].who /\ next.table[k].air = base[k].air
                         /\ next.table[k].age = base[k].age
                      /\ k <= i /\ base[k].who \in next.ring => next.table[k].alarm
    BY DEF TableKept
  <2>1. CASE k = i
    <3>1. next.table[k].alarm = (inside /\ ~quiet) /\ next.table[k].who = base[k].who
          /\ next.table[k].air = base[k].air /\ next.table[k].age = base[k].age
      BY <1>3, <1>10, <2>1 DEF Target
    <3>2. a \in next.ring => inside /\ ~quiet
      BY <1>9, <1>14
    <3>3. ~ (k > i) /\ base[k].who = a
      BY <1>2, <1>3, <2>1 DEF a
    <3>4. QED
      BY <3>1, <3>2, <3>3
  <2>2. CASE k # i
    <3>1. next.table[k] = sky.table[k] /\ base[k].who # a
      <4>1. base[i].who = a
        BY <1>3 DEF a
      <4>2. QED
        BY <1>3, <1>10, <2>2, <4>1, NobodyAssumption DEF IsBase, OneSlotEach
    <3>2. base[k].who \in next.ring => base[k].who \in sky.ring
      BY <1>9, <3>1
    <3>3. /\ k > i - 1 => sky.table[k] = base[k]
          /\ /\ sky.table[k].who = base[k].who /\ sky.table[k].air = base[k].air
             /\ sky.table[k].age = base[k].age
          /\ k <= i - 1 /\ base[k].who \in sky.ring => sky.table[k].alarm
      BY <1>1 DEF TableKept
    <3>4. (k > i => k > i - 1) /\ (k <= i => k <= i - 1)
      BY <1>2, <2>2
    <3>5. QED
      BY <3>1, <3>2, <3>3, <3>4
  <2>3. QED
    BY <2>1, <2>2
<1>16. next.ring \subseteq GradedWho(base, i) \ pass.silent /\ next.said \subseteq GradedWho(base, i)
  BY <1>9, <1>12, <1>14 DEF quiet
<1>17. a # Nobody /\ DOMAIN sky.tracker = Tracks /\ DOMAIN next.tracker = Tracks
  BY <1>1, <1>3, <1>10, NobodyAssumption
\* Another's slot.
<1>18. ASSUME NEW t \in Used(next.tracker), t # j
       PROVE  SlotKept(next, base, pass, i, next.tracker[t])
  <2> DEFINE s == next.tracker[t]
  <2>1. t \in Used(sky.tracker) /\ s = sky.tracker[t] /\ s.who # a
    BY <1>4, <1>10, <1>17, <1>18 DEF Used
  <2> HIDE DEF s
  <2>2. SlotKept(sky, base, pass, i - 1, s)
    BY <2>1 DEF SkyKept
  <2>3. /\ s.who \in next.said <=> s.who \in sky.said
        /\ s.who \in next.ring <=> s.who \in sky.ring
        /\ s.who \in GradedWho(base, i) <=> s.who \in GradedWho(base, i - 1)
        /\ ~next.full => ~sky.full
    BY <1>9, <1>12, <2>1
  <2>4. \A k \in Slots : base[k].who = s.who => k # i
    BY <1>3, <2>1 DEF a
  <2>5. /\ \A k \in 1 .. i : base[k].who = s.who => k \in 1 .. i - 1
        /\ \A k \in Slots : base[k].who = s.who /\ k <= i => k <= i - 1
    BY <1>2, <2>4
  <2>6. SlotKept(next, base, pass, i, s)
    BY <2>2, <2>3, <2>5 DEF SlotKept
  <2>7. QED
    BY <2>6 DEF s
\* What its slot was, its own or a new one.
<1>19. /\ was.notified => a \in told
       /\ was.notified /\ a \in touched => was.dismissed
       /\ was.falling # Steady => was.falling <= gap[a] \/ RenotifyFloor <= gap[a]
       /\ ~next.full /\ a \in told /\ ~was.notified => RenotifyFloor <= gap[a]
       /\ ~report.new => was.seen <= report.age
  <2>1. CASE sky.tracker[j].who = a /\ was = sky.tracker[j]
    <3>1. SlotKept(sky, base, pass, i - 1, was)
      BY <1>4, <1>17, <2>1 DEF SkyKept, Used
    <3>2. ~next.full => ~sky.full
      BY <1>9
    <3>3. base[i] = report /\ base[i].who = was.who
      BY <1>3, <1>4 DEF a
    <3>4. QED
      BY <1>4, <1>13, <1>14, <3>1, <3>2, <3>3 DEF SlotKept
  <2>2. CASE a \notin Held(sky.tracker) /\ was = Opened(a)
    <3>1. /\ ~was.notified /\ was.falling = Steady /\ was.seen = 0
      BY <2>2 DEF Opened, Unused
    <3>2. ~next.full => ~sky.full
      BY <1>9
    <3>3. ~next.full => a \notin told
      <4>1. ~sky.full => Held(tracker) \subseteq Held(sky.tracker)
        BY DEF SkyKept
      <4>2. told \subseteq Held(tracker)
        BY DEF SkyInv, NotifiedTold
      <4>3. QED
        BY <2>2, <3>2, <4>1, <4>2
    <3>4. 0 <= report.age
      BY <1>3 DEF Target
    <3>5. QED
      BY <3>1, <3>3, <3>4
  <2>3. QED
    BY <1>4, <2>1, <2>2
<1>20. SlotKept(next, base, pass, i, last)
  <2>1. gap[a] \in Nat
    BY <1>3 DEF SkyInv, SkyTypeOK
  <2>2. a \in next.said <=> slot.notified /\ ~old.notified /\ ~quiet
    BY <1>9, <1>14
  <2>3. a \in next.ring <=> inside /\ ~quiet
    BY <1>9, <1>14
  <2>4. a \in GradedWho(base, i) /\ (a \in pass.silent <=> quiet)
    BY <1>12 DEF quiet
  <2>5. last.notified => a \in told \cup next.said
    BY <1>6, <1>7, <1>8, <1>19, <2>2
  <2>6. last.notified /\ a \in touched /\ a \notin next.said => last.dismissed
    BY <1>6, <1>7, <1>8, <1>19, <2>2
  <2>7. last.falling # Steady => last.falling <= gap[a] \/ RenotifyFloor <= gap[a]
    BY <1>6, <1>7, <1>8, <1>19, <2>1
  <2>8. a \in next.said => last.notified
    BY <1>8, <2>2
  <2>9. ~next.full /\ a \in told /\ ~last.notified => RenotifyFloor <= gap[a] \/ a \in pass.silent \cap GradedWho(base, i)
    <3>1. CASE quiet
      BY <2>4, <3>1
    <3>2. CASE ~quiet /\ ~slot.notified /\ old.notified
      <4>1. was.falling # Steady /\ was.falling >= RenotifyFloor
        BY <1>6, <1>7, <3>2
      <4>2. was.falling \in Nat /\ RenotifyFloor \in Nat
        BY <1>4, <4>1, Bounds DEF Track
      <4>3. RenotifyFloor <= gap[a]
        BY <1>19, <2>1, <4>1, <4>2
      <4>4. QED
        BY <4>3
    <3>3. CASE ~quiet /\ ~old.notified
      BY <1>6, <1>19, <3>3
    <3>4. QED
      BY <1>8, <3>1, <3>2, <3>3
  <2>10. a \in pass.silent \cap GradedWho(base, i) => ~last.notified
    BY <1>8, <2>4
  <2>11. \A k \in Slots : base[k].who = a => k = i /\ base[k] = report
    <3>1. base[i].who = a /\ base[i] = report
      BY <1>3 DEF a
    <3>2. QED
      BY <1>17, <3>1 DEF IsBase, OneSlotEach
  <2>12. /\ last.forget = Forget(report)
         /\ a \in next.ring /\ Fresh(report) => last.notified /\ last.falling = Steady
    BY <1>7, <1>8, <2>3
  <2>13. last.seen <= report.age
    <3>1. report.age \in Nat /\ report.new \in BOOLEAN
      BY <1>3 DEF Target
    <3>2. QED
      BY <1>6, <1>8, <1>19, <3>1
  <2>14. last.who = a
    BY <1>8
  <2>15. QED
    BY <1>2, <2>5, <2>6, <2>7, <2>8, <2>9, <2>10, <2>11, <2>12, <2>13, <2>14 DEF SlotKept
<1>21. \A t \in Used(next.tracker) : SlotKept(next, base, pass, i, next.tracker[t])
  BY <1>10, <1>18, <1>20
<1>22. ~next.full =>
         /\ ~recycled /\ Held(tracker) \subseteq Held(next.tracker)
         /\ GradedWho(base, i) \ {Nobody} \subseteq Held(next.tracker)
         /\ \A b \in told \cap next.said : RenotifyFloor <= gap[b]
  <2> SUFFICES ASSUME ~next.full
               PROVE  /\ ~recycled /\ Held(tracker) \subseteq Held(next.tracker)
                      /\ GradedWho(base, i) \ {Nobody} \subseteq Held(next.tracker)
                      /\ \A b \in told \cap next.said : RenotifyFloor <= gap[b]
    OBVIOUS
  <2>1. /\ ~sky.full /\ (a \in Held(sky.tracker) \/ Free(sky.tracker) # {})
        /\ ~recycled /\ Held(tracker) \subseteq Held(sky.tracker)
        /\ GradedWho(base, i - 1) \ {Nobody} \subseteq Held(sky.tracker)
        /\ \A b \in told \cap sky.said : RenotifyFloor <= gap[b]
    BY <1>9 DEF SkyKept
  <2>2. sky.tracker[j].who = a \/ sky.tracker[j].who = Nobody
    BY <1>4, <2>1
  <2>3. Held(sky.tracker) \subseteq Held(next.tracker)
    <3> SUFFICES ASSUME NEW t \in Tracks, sky.tracker[t].who # Nobody
                 PROVE  \E u \in Tracks : next.tracker[u].who = sky.tracker[t].who
      BY <1>17 DEF Held, Used
    <3>1. CASE t = j
      BY <1>8, <1>10, <2>2, <3>1
    <3>2. CASE t # j
      BY <1>10, <3>2
    <3>3. QED
      BY <3>1, <3>2
  <2>4. a \in Held(next.tracker)
    BY <1>8, <1>10, <1>17 DEF Held, Used
  <2>5. \A b \in told \cap next.said : RenotifyFloor <= gap[b]
    <3>1. a \in told /\ a \in next.said => ~was.notified
      BY <1>6, <1>9, <1>14
    <3>2. \A b \in next.said : b = a \/ b \in sky.said
      BY <1>9
    <3>3. QED
      BY <1>19, <2>1, <3>1, <3>2
  <2>6. QED
    BY <1>12, <2>1, <2>3, <2>4, <2>5
<1>23. SkyKept(next, base, pass, i)
  BY <1>10, <1>11, <1>15, <1>16, <1>21, <1>22 DEF SkyKept
<1>24. QED
  BY <1>23 DEF next

-----------------------------------------------------------------------------
(* The whole pass: as far as the last target, or no target without a fix.  *)

GradeFrom(pass) ==
  [table |-> AgedOut(pass.early), tracker |-> tracker, said |-> {}, ring |-> {},
   live |-> FALSE, full |-> recycled]

\* One round of GradedAll's loop, and the loop it defines.
GradedOnce(pass, upTo) ==
  [i \in 0 .. MaxTargets |-> IF i = 0 THEN GradeFrom(pass) ELSE Graded(upTo[i - 1], i, pass)]
GradeLoop(pass) == CHOOSE upTo : upTo = GradedOnce(pass, upTo)

LEMMA AgedIsBase ==
  ASSUME SkyInv, NEW early \in BOOLEAN
  PROVE  /\ IsBase(AgedOut(early))
         /\ \A k \in Slots :
              \/ AgedOut(early)[k] = table[k]
              \/ /\ AgedOut(early)[k].who = Nobody
                 /\ table[k].who # Nobody /\ table[k].age >= Forget(table[k])
<1>1. table \in [Slots -> Target] /\ OneSlotEach(table)
  BY DEF SkyInv, SkyTypeOK
<1>2. Vacant \in Target /\ Vacant.who = Nobody
  BY DEF Vacant, Target
<1>3. \A k \in Slots : AgedOut(early)[k] =
        IF table[k].who # Nobody /\ Expired(table[k], early) THEN Vacant ELSE table[k]
  BY DEF AgedOut
<1>4. DOMAIN AgedOut(early) = Slots /\ AgedOut(early) \in [Slots -> Target]
  BY <1>1, <1>2 DEF AgedOut
<1>5. \A k \in Slots : Expired(table[k], early) => table[k].age >= Forget(table[k])
  <2> SUFFICES ASSUME NEW k \in Slots, Expired(table[k], early)
               PROVE  table[k].age >= Forget(table[k])
    OBVIOUS
  <2>1. table[k].age \in Nat /\ Forget(table[k]) \in Nat
    BY <1>1, ForgetIs DEF Target
  <2>2. QED
    BY <2>1 DEF Expired
<1>6. OneSlotEach(AgedOut(early))
  <2>1. \A k \in Slots : AgedOut(early)[k].who # Nobody => AgedOut(early)[k] = table[k]
    BY <1>2, <1>3
  <2>2. QED
    BY <1>1, <1>4, <2>1 DEF OneSlotEach
<1>7. QED
  BY <1>2, <1>3, <1>4, <1>5, <1>6 DEF IsBase

LEMMA GradeFromKept ==
  ASSUME SkyInv, NEW pass, IsPass(pass)
  PROVE  SkyKept(GradeFrom(pass), AgedOut(pass.early), pass, 0)
<1> DEFINE sky == GradeFrom(pass)
           base == AgedOut(pass.early)
<1>1. /\ sky.table = base /\ sky.tracker = tracker /\ sky.said = {} /\ sky.ring = {}
      /\ sky.full = recycled
  BY DEF GradeFrom
<1>2. IsBase(base) /\ base \in [Slots -> Target]
  BY AgedIsBase DEF IsPass, IsBase
<1>3. \A k \in Slots : base[k].who # Nobody => base[k] = table[k]
  BY AgedIsBase DEF IsPass
<1>4. sky \in Sky
  BY <1>2 DEF GradeFrom, Sky, SkyInv, SkyTypeOK
<1> HIDE DEF sky, base
<1>5. GradedWho(base, 0) = {} /\ \A k \in Slots : k > 0 /\ ~ (k <= 0)
  BY Bounds DEF GradedWho
<1>6. TableKept(sky, base, 0)
  BY <1>1, <1>5 DEF TableKept
<1>7. ASSUME NEW j \in Used(tracker)
      PROVE  SlotKept(sky, base, pass, 0, tracker[j])
  <2>1. j \in Tracks /\ tracker[j].who # Nobody
    BY <1>7 DEF Used, SkyInv, SkyTypeOK
  <2>2. \A k \in Slots : base[k].who = tracker[j].who => base[k] = table[k]
    BY <1>3, <2>1
  <2>3. \A k \in Slots : base[k].who = tracker[j].who /\ ~base[k].new => tracker[j].seen <= base[k].age
    BY <2>1, <2>2 DEF SkyInv, SeenNoOlder
  <2>4. QED
    BY <1>1, <1>5, <1>7, <2>3 DEF SlotKept, SkyInv, NotifiedTold, FallsOutside, SaidAgainLate
<1>8. QED
  BY <1>1, <1>4, <1>5, <1>6, <1>7 DEF SkyKept, SkyInv, sky, base

\* Grading one more keeps what was so.
LEMMA GradedKept ==
  ASSUME SkyInv, NEW pass, IsPass(pass), NEW i \in Slots, NEW sky,
         SkyKept(sky, AgedOut(pass.early), pass, i - 1)
  PROVE  SkyKept(Graded(sky, i, pass), AgedOut(pass.early), pass, i)
<1> DEFINE base == AgedOut(pass.early)
<1>1. IsBase(base)
  BY AgedIsBase DEF IsPass
<1> HIDE DEF base
<1>2. SkyKept(sky, base, pass, i - 1)
  BY DEF base
<1>3. SkyKept(Graded(sky, i, pass), base, pass, i)
  BY <1>1, <1>2, GradedNobody, GradedSomebody
<1>4. QED
  BY <1>3 DEF base

\* The loop is defined as far as any target, so it is defined.
LEMMA GradeLoopDefined ==
  ASSUME NEW pass
  PROVE  GradeLoop(pass) = GradedOnce(pass, GradeLoop(pass))
<1> DEFINE Runs(f, m) ==
             f = [i \in 0 .. m |-> IF i = 0 THEN GradeFrom(pass) ELSE Graded(f[i - 1], i, pass)]
           lack == {m \in Nat : ~ \E f : Runs(f, m)}
<1>1. ASSUME lack # {} PROVE FALSE
  <2>1. PICK m \in lack : \A n \in lack : m <= n
    BY <1>1, LeastOf
  <2>2. CASE m = 0
    <3> DEFINE f == [i \in 0 .. 0 |-> GradeFrom(pass)]
    <3>1. f = [i \in 0 .. 0 |-> IF i = 0 THEN GradeFrom(pass) ELSE Graded(f[i - 1], i, pass)]
      OBVIOUS
    <3>2. Runs(f, 0)
      BY <3>1
    <3>3. QED
      BY <2>1, <2>2, <3>2
  <2>3. CASE m > 0
    <3>1. m \in Nat /\ m - 1 \in Nat /\ m - 1 \notin lack
      <4>1. m \in Nat /\ m - 1 \in Nat /\ ~ (m <= m - 1)
        BY <2>1, <2>3
      <4> HIDE DEF Runs
      <4>2. QED
        BY <2>1, <4>1
    <3>2. PICK f : Runs(f, m - 1)
      BY <3>1
    <3> DEFINE g == [i \in 0 .. m |-> IF i = m THEN Graded(f[m - 1], m, pass) ELSE f[i]]
    <3>3. \A i \in 0 .. m - 1 : f[i] = IF i = 0 THEN GradeFrom(pass) ELSE Graded(f[i - 1], i, pass)
      BY <3>2
    <3>4. \A i \in 0 .. m - 1 : i \in 0 .. m /\ i # m /\ g[i] = f[i]
      BY <3>1
    <3>5. ASSUME NEW i \in 0 .. m
          PROVE  g[i] = IF i = 0 THEN GradeFrom(pass) ELSE Graded(g[i - 1], i, pass)
      <4>1. CASE i = m
        <5>1. m - 1 \in 0 .. m - 1 /\ i # 0
          BY <2>3, <3>1, <4>1
        <5>2. QED
          BY <3>4, <4>1, <5>1
      <4>2. CASE i # m
        <5>1. i \in 0 .. m - 1 /\ (i # 0 => i - 1 \in 0 .. m - 1)
          BY <3>1, <4>2
        <5>2. QED
          BY <3>3, <3>4, <5>1
      <4>3. QED
        BY <4>1, <4>2
    <3>6. g = [i \in 0 .. m |-> g[i]]
      OBVIOUS
    <3> HIDE DEF g
    <3>7. Runs(g, m)
      BY <3>5, <3>6
    <3>8. QED
      BY <2>1, <3>1, <3>7
  <2>4. QED
    BY <2>1, <2>2, <2>3
<1>2. MaxTargets \in Nat /\ MaxTargets \notin lack
  BY <1>1, Bounds
<1>3. \E f : Runs(f, MaxTargets)
  BY <1>2
<1>4. \E f : f = GradedOnce(pass, f)
  BY <1>3 DEF GradedOnce
<1>5. QED
  BY <1>4 DEF GradeLoop

\* How far a pass grades.
Reach(pass) == IF pass.fix THEN MaxTargets ELSE 0

LEMMA GradedAllKept ==
  ASSUME SkyInv, NEW pass, IsPass(pass)
  PROVE  SkyKept(GradedAll(pass), AgedOut(pass.early), pass, Reach(pass))
<1> DEFINE upTo == GradeLoop(pass)
           Kept(i) == SkyKept(upTo[i], AgedOut(pass.early), pass, i)
           lack == {i \in Nat : i \in 0 .. MaxTargets /\ ~Kept(i)}
<1>1. \A i \in 0 .. MaxTargets :
        upTo[i] = IF i = 0 THEN GradeFrom(pass) ELSE Graded(upTo[i - 1], i, pass)
  <2>1. upTo = GradedOnce(pass, upTo)
    BY GradeLoopDefined
  <2> HIDE DEF upTo
  <2>2. QED
    BY <2>1 DEF GradedOnce
<1>2. GradedAll(pass) = IF pass.fix THEN upTo[MaxTargets] ELSE GradeFrom(pass)
  BY DEF GradedAll, GradeLoop, GradedOnce, GradeFrom
<1> HIDE DEF upTo
<1>3. SkyKept(GradeFrom(pass), AgedOut(pass.early), pass, 0)
  BY GradeFromKept
<1>4. ASSUME lack # {} PROVE FALSE
  <2>1. PICK m \in lack : \A n \in lack : m <= n
    BY <1>4, LeastOf
  <2>2. m \in Nat /\ m \in 0 .. MaxTargets
    BY <2>1
  <2>3. CASE m = 0
    BY <1>1, <1>3, <2>1, <2>2, <2>3
  <2>4. CASE m > 0
    <3>1. m \in Slots /\ m - 1 \in Nat /\ m - 1 \in 0 .. MaxTargets /\ ~ (m <= m - 1)
      BY <2>2, <2>4, Bounds
    <3>2. m - 1 \notin lack
      BY <2>1, <3>1
    <3>3. Kept(m - 1)
      BY <3>1, <3>2
    <3>4. SkyKept(Graded(upTo[m - 1], m, pass), AgedOut(pass.early), pass, m)
      BY <3>1, <3>3, GradedKept
    <3>5. upTo[m] = Graded(upTo[m - 1], m, pass)
      BY <1>1, <2>2, <2>4
    <3>6. Kept(m)
      BY <3>4, <3>5
    <3>7. QED
      BY <2>1, <3>6
  <2>5. QED
    BY <2>2, <2>3, <2>4
<1>5. MaxTargets \in Nat /\ MaxTargets \in 0 .. MaxTargets
  BY Bounds
<1>6. Kept(MaxTargets)
  BY <1>4, <1>5
<1>7. QED
  BY <1>2, <1>3, <1>6 DEF Reach

-----------------------------------------------------------------------------
(* The steps.                                                              *)

LEMMA SlotOfIs ==
  ASSUME NEW base, IsBase(base), NEW k \in Slots, base[k].who # Nobody
  PROVE  SlotOf(base, base[k].who) = k
<1>1. DOMAIN base = Slots /\ \A i \in Slots : base[i].who = base[k].who => i = k
  BY DEF IsBase, OneSlotEach
<1>2. QED
  BY <1>1 DEF SlotOf

\* What a pass leaves, and what it says.
LEMMA TickKept ==
  ASSUME SkyInv, NEW pass, IsPass(pass), Tick(pass)
  PROVE  SkyInv' /\ KeepsItsPlace /\ (~recycled' => ToldOnce)
<1> DEFINE sky == GradedAll(pass)
           base == AgedOut(pass.early)
           n == Reach(pass)
           kept == ForgetStale(sky.tracker)
           hushed == IF pass.fix THEN pass.silent \cap Held(sky.table) ELSE {}
           inside == {a \in sky.ring : Fresh(sky.table[SlotOf(sky.table, a)])}
<1>1. SkyKept(sky, base, pass, n)
  BY GradedAllKept
<1>2. /\ IsBase(base)
      /\ \A k \in Slots : \/ base[k] = table[k]
                          \/ /\ base[k].who = Nobody
                             /\ table[k].who # Nobody /\ table[k].age >= Forget(table[k])
  BY AgedIsBase DEF IsPass
<1>3. /\ at' = "glass" /\ table' = sky.table /\ tracker' = kept /\ said' = sky.said
      /\ tone' = Announced(kept) /\ live' = sky.live /\ ring' = sky.ring
      /\ told' = ((told \cup sky.said) \cap Held(kept)) \ hushed
      /\ gap' = [a \in Aircraft |-> IF a \in inside THEN 0 ELSE gap[a]]
      /\ touched' = (touched \cap told') \ sky.said
      /\ recycled' = sky.full
  BY DEF Tick
<1>4. n = (IF pass.fix THEN MaxTargets ELSE 0) /\ pass.fix \in BOOLEAN
  BY DEF Reach, IsPass
<1> HIDE DEF sky, base, n
<1>5. /\ sky \in Sky /\ OneSlotEach(sky.tracker) /\ TableKept(sky, base, n)
      /\ sky.table \in [Slots -> Target] /\ sky.tracker \in [Tracks -> Track]
      /\ sky.ring \in SUBSET Aircraft /\ sky.said \in SUBSET Aircraft
      /\ sky.live \in BOOLEAN /\ sky.full \in BOOLEAN
      /\ sky.ring \subseteq GradedWho(base, n) \ pass.silent
  BY <1>1 DEF SkyKept, Sky
<1>6. /\ \A k \in Slots : sky.table[k].who = base[k].who /\ sky.table[k].air = base[k].air
                          /\ sky.table[k].age = base[k].age
      /\ DOMAIN sky.table = Slots /\ DOMAIN sky.tracker = Tracks
  BY <1>5 DEF TableKept
<1>7. IsBase(sky.table)
  BY <1>2, <1>5, <1>6 DEF IsBase, OneSlotEach
<1>8. \A k \in 1 .. n : k \in Slots /\ k <= n
  BY <1>4, Bounds
<1>9. /\ kept \in [Tracks -> Track]
      /\ \A j \in Tracks : /\ kept[j].who # Nobody =>
                                /\ kept[j] = sky.tracker[j] /\ j \in Used(sky.tracker)
                           /\ sky.tracker[j].who # Nobody /\ sky.tracker[j].seen < sky.tracker[j].forget
                                => kept[j] = sky.tracker[j]
  <2>1. Unused \in Track /\ Unused.who = Nobody
    BY DEF Unused, Track
  <2>2. \A j \in Tracks : kept[j] =
          IF sky.tracker[j].who # Nobody /\ sky.tracker[j].seen >= sky.tracker[j].forget
          THEN Unused ELSE sky.tracker[j]
    BY DEF ForgetStale
  <2>3. \A j \in Tracks : sky.tracker[j].seen \in Nat /\ sky.tracker[j].forget \in Nat
    BY <1>5 DEF Track
  <2>4. kept \in [Tracks -> Track]
    BY <1>5, <2>1 DEF ForgetStale
  <2> HIDE DEF kept
  <2>5. \A j \in Tracks : kept[j].who # Nobody =>
          kept[j] = sky.tracker[j] /\ j \in Used(sky.tracker)
    BY <1>6, <2>1, <2>2 DEF Used
  <2>6. \A j \in Tracks : sky.tracker[j].seen < sky.tracker[j].forget => kept[j] = sky.tracker[j]
    BY <2>2, <2>3
  <2>7. QED
    BY <2>4, <2>5, <2>6
<1> HIDE DEF kept
<1>10. Used(kept) = {j \in Tracks : kept[j].who # Nobody}
  BY <1>9 DEF Used
<1>11. \A j \in Used(kept) : /\ j \in Tracks /\ kept[j].who \in Aircraft
                             /\ kept[j] = sky.tracker[j]
                             /\ SlotKept(sky, base, pass, n, kept[j])
  <2>1. \A j \in Used(sky.tracker) : SlotKept(sky, base, pass, n, sky.tracker[j])
    BY <1>1 DEF SkyKept
  <2>2. QED
    BY <1>9, <1>10, <2>1 DEF Track
\* Whoever is hushed was graded.
<1>12. hushed \subseteq pass.silent \cap GradedWho(base, n)
       /\ \A a \in Aircraft : a \in pass.silent \cap GradedWho(base, n) => a \in hushed
  <2>1. CASE ~pass.fix
    <3>1. GradedWho(base, n) = {}
      BY <1>4, <2>1 DEF GradedWho
    <3>2. QED
      BY <2>1, <3>1
  <2>2. CASE pass.fix
    <3>1. n = MaxTargets /\ GradedWho(base, n) = {base[k].who : k \in Slots}
      BY <1>4, <2>2 DEF GradedWho
    <3>2. Held(sky.table) = {sky.table[k].who : k \in {i \in Slots : sky.table[i].who # Nobody}}
      BY <1>6 DEF Held, Used
    <3>3. \A a \in Held(sky.table) : a \in GradedWho(base, n)
      BY <1>6, <3>1, <3>2
    <3>4. \A a \in Aircraft : a \in GradedWho(base, n) => a \in Held(sky.table)
      BY <1>6, <3>1, <3>2, NobodyAssumption
    <3>5. QED
      BY <2>2, <3>3, <3>4
  <2>3. QED
    BY <1>4, <2>1, <2>2
<1> HIDE DEF hushed
\* Who was graded inside stands somewhere among the first n.
<1>13. ASSUME NEW a \in sky.ring
       PROVE  \E k \in 1 .. n : /\ k \in Slots /\ base[k].who = a /\ SlotOf(sky.table, a) = k
                                /\ sky.table[k].who = a /\ sky.table[k].alarm /\ a \in Aircraft
                                /\ a # Nobody
  <2>1. PICK k \in 1 .. n : base[k].who = a
    BY <1>5, <1>13 DEF GradedWho
  <2>2. k \in Slots /\ k <= n /\ a \in Aircraft /\ a # Nobody
    BY <1>5, <1>8, <1>13, NobodyAssumption
  <2>3. sky.table[k].who = a /\ sky.table[k].alarm
    BY <1>5, <1>6, <1>13, <2>1, <2>2 DEF TableKept
  <2>4. SlotOf(sky.table, a) = k
    BY <1>7, <2>2, <2>3, SlotOfIs
  <2>5. QED
    BY <2>1, <2>2, <2>3, <2>4
<1>14. \A k \in Slots : Fresh(sky.table[k]) = Fresh(base[k])
  BY <1>6 DEF Fresh
\* A slot whose aircraft starts its outside anew is in what was said, and steady.
<1>15. ASSUME NEW j \in Used(kept), kept[j].who \in inside
       PROVE  kept[j].notified /\ kept[j].falling = Steady
  <2>1. PICK k \in 1 .. n : k \in Slots /\ base[k].who = kept[j].who
                            /\ SlotOf(sky.table, kept[j].who) = k
    BY <1>13, <1>15
  <2>2. Fresh(base[k])
    BY <1>14, <1>15, <2>1
  <2>3. kept[j].who \in sky.ring
    BY <1>15
  <2>4. QED
    BY <1>11, <2>1, <2>2, <2>3 DEF SlotKept
<1>16. \A j \in Used(kept) : kept[j].who \notin inside => gap'[kept[j].who] = gap[kept[j].who]
  BY <1>3, <1>11
<1> HIDE DEF inside
<1>17. SkyTypeOK'
  <2>1. gap' \in [Aircraft -> Nat]
    BY <1>3 DEF SkyInv, SkyTypeOK
  <2>2. told' \in SUBSET Aircraft /\ touched' \in SUBSET Aircraft
    BY <1>3, <1>5 DEF SkyInv, SkyTypeOK
  <2>3. tone' \in BOOLEAN
    BY <1>3 DEF Announced
  <2>4. QED
    BY <1>3, <1>5, <1>9, <2>1, <2>2, <2>3 DEF SkyTypeOK
<1>18. OneSlotEach(table)' /\ OneSlotEach(tracker)'
  <2>1. OneSlotEach(kept)
    <3>1. DOMAIN kept = Tracks
      BY <1>9
    <3>2. \A i, j \in Tracks : kept[i].who # Nobody /\ kept[i].who = kept[j].who => i = j
      BY <1>5, <1>6, <1>9 DEF OneSlotEach
    <3>3. QED
      BY <3>1, <3>2 DEF OneSlotEach
  <2>2. QED
    BY <1>3, <1>7, <2>1 DEF IsBase
<1>19. RingInAlarm'
  <2>1. ring' \subseteq Held(table')
    BY <1>3, <1>6, <1>13 DEF Held, Used
  <2>2. \A i \in Slots : table'[i].who \in ring' => table'[i].alarm
    <3> SUFFICES ASSUME NEW i \in Slots, sky.table[i].who \in sky.ring
                 PROVE  sky.table[i].alarm
      BY <1>3
    <3>1. PICK k \in 1 .. n : k \in Slots /\ SlotOf(sky.table, sky.table[i].who) = k
                              /\ sky.table[k].alarm /\ sky.table[i].who # Nobody
      BY <1>13
    <3>2. SlotOf(sky.table, sky.table[i].who) = i
      BY <1>7, <3>1, SlotOfIs
    <3>3. QED
      BY <3>1, <3>2
  <2>3. QED
    BY <2>1, <2>2 DEF RingInAlarm
<1>20. SeenNoOlder'
  <2> SUFFICES ASSUME NEW i \in Slots, NEW j \in Tracks,
                      sky.table[i].who # Nobody, kept[j].who = sky.table[i].who,
                      ~sky.table[i].new
               PROVE  kept[j].seen <= sky.table[i].age
    BY <1>3 DEF SeenNoOlder
  <2>1. j \in Used(kept)
    BY <1>10
  <2>2. i <= n \/ ~base[i].new
    <3>1. i \in Nat /\ n \in Nat
      BY <1>4, Bounds
    <3>2. CASE i <= n
      BY <3>2
    <3>3. CASE i > n
      BY <1>5, <3>3 DEF TableKept
    <3>4. QED
      BY <3>1, <3>2, <3>3
  <2>3. kept[j].seen <= base[i].age
    BY <1>6, <1>11, <2>1, <2>2 DEF SlotKept
  <2>4. QED
    BY <1>6, <2>3
<1>21. \A a \in Held(kept) : \E j \in Used(kept) : kept[j].who = a
  BY DEF Held
<1>22. NotifiedTold'
  <2>1. told' \subseteq Held(kept)
    BY <1>3
  <2>2. ASSUME NEW j \in Used(kept), kept[j].notified
        PROVE  /\ kept[j].who \in told'
               /\ kept[j].who \in touched' => kept[j].dismissed
    <3>1. kept[j].who \in Held(kept)
      BY DEF Held
    <3>2. kept[j].who \in told \cup sky.said
      BY <1>11, <2>2 DEF SlotKept
    <3>3. kept[j].who \notin hushed
      BY <1>11, <1>12, <2>2 DEF SlotKept
    <3>4. kept[j].who \in touched' => kept[j].who \in touched /\ kept[j].who \notin sky.said
      BY <1>3
    <3>5. QED
      BY <1>3, <1>11, <2>2, <3>1, <3>2, <3>3, <3>4 DEF SlotKept
  <2>3. QED
    BY <1>3, <2>1, <2>2 DEF NotifiedTold
<1>23. FallsOutside'
  <2> SUFFICES ASSUME NEW j \in Used(kept), kept[j].falling # Steady
               PROVE  \/ kept[j].falling <= gap'[kept[j].who]
                      \/ RenotifyFloor <= gap'[kept[j].who]
    BY <1>3 DEF FallsOutside
  <2>1. gap'[kept[j].who] = gap[kept[j].who]
    BY <1>15, <1>16
  <2>2. QED
    BY <1>11, <2>1 DEF SlotKept
<1>24. SaidAgainLate'
  <2> SUFFICES ASSUME ~sky.full, NEW j \in Used(kept), kept[j].who \in told', ~kept[j].notified
               PROVE  RenotifyFloor <= gap'[kept[j].who]
    BY <1>3 DEF SaidAgainLate
  <2>1. gap'[kept[j].who] = gap[kept[j].who]
    BY <1>15, <1>16
  <2>2. kept[j].who \notin sky.said /\ kept[j].who \in told /\ kept[j].who \notin hushed
    BY <1>3, <1>11 DEF SlotKept
  <2>3. kept[j].who \notin pass.silent \cap GradedWho(base, n)
    BY <1>11, <1>12, <2>2
  <2>4. QED
    BY <1>11, <2>1, <2>2, <2>3 DEF SlotKept
<1>25. ToneIsMeant'
  <2> SUFFICES ASSUME Announced(kept)
               PROVE  told' \ touched' # {}
    BY <1>3 DEF ToneIsMeant
  <2>1. PICK j \in Used(kept) : kept[j].notified /\ ~kept[j].dismissed
    BY DEF Announced
  <2>2. kept[j].who \in told' /\ kept[j].who \notin touched'
    BY <1>3, <1>22, <2>1 DEF NotifiedTold
  <2>3. QED
    BY <2>2
<1>26. SkyInv'
  BY <1>17, <1>18, <1>19, <1>20, <1>22, <1>23, <1>24, <1>25 DEF SkyInv
<1>27. KeepsItsPlace
  <2> SUFFICES ASSUME NEW a \in ring \cap Held(table), a \notin Held(table')
               PROVE  LET report == table[SlotOf(table, a)] IN report.age >= Forget(report)
    BY DEF KeepsItsPlace
  <2>1. table \in [Slots -> Target] /\ IsBase(table)
    BY DEF SkyInv, SkyTypeOK, IsBase
  <2>2. PICK k \in Slots : table[k].who = a /\ a # Nobody
    BY <2>1 DEF Held, Used
  <2>3. SlotOf(table, a) = k
    BY <2>1, <2>2, SlotOfIs
  <2>4. sky.table[k].who # a
    BY <1>3, <1>6, <2>2 DEF Held, Used
  <2>5. base[k] # table[k]
    BY <1>6, <2>2, <2>4
  <2>6. QED
    BY <1>2, <2>3, <2>5
<1>28. ASSUME ~recycled' PROVE ToldOnce
  <2>1. ~sky.full
    BY <1>3, <1>28
  <2>2. \A a \in told \cap sky.said : RenotifyFloor <= gap[a]
    BY <1>1, <2>1 DEF SkyKept
  <2>3. ASSUME NEW a \in sky.ring, Fresh(sky.table[SlotOf(sky.table, a)])
        PROVE  a \in told'
    <3>1. PICK k \in 1 .. n : k \in Slots /\ base[k].who = a /\ SlotOf(sky.table, a) = k
                              /\ a \in Aircraft /\ a # Nobody
      BY <1>13
    <3>2. a \in Held(sky.tracker)
      <4>1. GradedWho(base, n) \ {Nobody} \subseteq Held(sky.tracker)
        BY <1>1, <2>1 DEF SkyKept
      <4>2. QED
        BY <3>1, <4>1 DEF GradedWho
    <3>3. PICK j \in Used(sky.tracker) : sky.tracker[j].who = a
      BY <3>2 DEF Held
    <3>4. SlotKept(sky, base, pass, n, sky.tracker[j]) /\ j \in Tracks
      BY <1>1, <1>6 DEF SkyKept, Used
    <3>5. Fresh(base[k])
      BY <1>14, <2>3, <3>1
    <3>6. sky.tracker[j].seen <= base[k].age /\ sky.tracker[j].forget = Forget(base[k])
      BY <1>8, <3>1, <3>3, <3>4 DEF SlotKept
    <3>7. sky.tracker[j].seen < sky.tracker[j].forget
      <4>1. base[k] \in Target /\ sky.tracker[j] \in Track
        BY <1>2, <1>5, <3>1, <3>4 DEF IsBase
      <4>2. /\ base[k].age \in Nat /\ Forget(base[k]) \in Nat /\ AlertMaxAge < Forget(base[k])
            /\ sky.tracker[j].seen \in Nat
        BY <4>1, ForgetIs DEF Target, Track
      <4>3. base[k].age < AlertMaxAge /\ AlertMaxAge \in Nat
        BY <3>5, Bounds DEF Fresh
      <4>4. QED
        BY <3>6, <4>2, <4>3
    <3>8. kept[j] = sky.tracker[j] /\ kept[j].who = a
      BY <1>9, <3>1, <3>3, <3>4, <3>7
    <3>9. j \in Used(kept) /\ kept[j].notified
      <4>1. j \in Used(kept)
        BY <1>10, <3>1, <3>4, <3>8
      <4>2. QED
        BY <2>3, <3>1, <3>3, <3>4, <3>5, <3>8, <4>1 DEF SlotKept
    <3>10. QED
      BY <1>3, <1>22, <3>8, <3>9 DEF NotifiedTold
  <2>4. \A a \in said' \cap told : gap[a] >= RenotifyFloor
    <3>1. \A a \in said' \cap told : gap[a] \in Nat
      BY DEF SkyInv, SkyTypeOK
    <3>2. QED
      BY <1>3, <2>2, <3>1, Bounds
  <2>5. QED
    BY <1>3, <2>3, <2>4 DEF ToldOnce
<1>29. QED
  BY <1>26, <1>27, <1>28

LEMMA ReportIs ==
  ASSUME NEW a \in Aircraft, NEW air \in BOOLEAN, NEW direct \in BOOLEAN,
         NEW report, report = Report(a, air, direct)
  PROVE  /\ report \in Target /\ report.who = a /\ report.new /\ report.air = air
         /\ a # Nobody
BY NobodyAssumption DEF Report, Target

\* A report changes one place of the table: an empty one, its aircraft's own,
\* or that of a target which is not in alarm.
LEMMA HearIs ==
  ASSUME SkyInv, NEW a \in Aircraft, NEW air \in BOOLEAN, NEW direct \in BOOLEAN,
         NEW report, report = Report(a, air, direct), Hear(report)
  PROVE  \/ table' = table
         \/ \E i \in Slots, now \in Target :
              /\ table' = [table EXCEPT ![i] = now]
              /\ now.who = a /\ now.new
              /\ \A k \in Slots \ {i} : table[k].who # a
              /\ \/ table[i].who = a /\ now.alarm = table[i].alarm
                 \/ table[i].who = Nobody /\ a \notin Held(table)
                 \/ ~table[i].alarm /\ a \notin Held(table)
<1>1. table \in [Slots -> Target] /\ IsBase(table) /\ DOMAIN table = Slots
  BY DEF SkyInv, SkyTypeOK, IsBase
<1>2. report \in Target /\ report.who = a /\ report.new /\ a # Nobody
  BY ReportIs
<1>3. CASE Known(report)
  <2>1. a \in Held(table)
    BY <1>2, <1>3 DEF Known
  <2>2. PICK i \in Slots : table[i].who = a
    BY <1>1, <2>1 DEF Held, Used
  <2>3. SlotOf(table, a) = i
    BY <1>1, <1>2, <2>2, SlotOfIs
  <2> DEFINE now == [report EXCEPT !.alarm = table[i].alarm]
  <2>4. now \in Target /\ now.who = a /\ now.new /\ now.alarm = table[i].alarm
    BY <1>1, <1>2 DEF Target
  <2>5. table' = [table EXCEPT ![i] = now] \/ table' = table
    BY <1>2, <1>3, <2>3 DEF Known
  <2> HIDE DEF now
  <2>6. \A k \in Slots \ {i} : table[k].who # a
    BY <1>1, <1>2, <2>2 DEF IsBase, OneSlotEach
  <2>7. QED
    BY <2>2, <2>4, <2>5, <2>6
<1>4. \A k \in Slots : a \notin Held(table) => table[k].who # a
  BY <1>1, <1>2 DEF Held, Used
<1>5. CASE Placed(report)
  <2>1. /\ a \notin Held(table) /\ Free(table) # {}
        /\ table' = [table EXCEPT ![First(Free(table))] = report]
    BY <1>2, <1>5 DEF Placed
  <2>2. Free(table) \in SUBSET Nat /\ \A i \in Free(table) : i \in Slots /\ table[i].who = Nobody
    BY <1>1 DEF Free, Used
  <2>3. First(Free(table)) \in Free(table)
    BY <2>1, <2>2, FirstIs
  <2>4. QED
    BY <1>2, <1>4, <2>1, <2>2, <2>3
<1>6. ASSUME NEW i \in Slots, Displaces(report, i)
      PROVE  /\ table' = [table EXCEPT ![i] = report]
             /\ ~table[i].alarm /\ a \notin Held(table)
  BY <1>2, <1>6 DEF Displaces, Victims, Expendable
<1>7. CASE TurnedAway(report)
  BY <1>7 DEF TurnedAway
<1>8. Known(report) \/ Placed(report) \/ (\E i \in Slots : Displaces(report, i)) \/ TurnedAway(report)
  BY DEF Hear
<1>9. QED
  BY <1>2, <1>3, <1>4, <1>5, <1>6, <1>7, <1>8

LEMMA HearKept ==
  ASSUME SkyInv, NEW a \in Aircraft, NEW air \in BOOLEAN, NEW direct \in BOOLEAN,
         NEW report, report = Report(a, air, direct), Hear(report)
  PROVE  SkyInv' /\ KeepsItsPlace /\ at' = "radio"
<1>1. /\ at = "radio" /\ at' = at
      /\ tracker' = tracker /\ said' = said /\ tone' = tone /\ live' = live /\ ring' = ring
      /\ told' = told /\ gap' = gap /\ touched' = touched /\ recycled' = recycled
  BY DEF Hear, histVars
<1>2. CASE table' = table
  BY <1>1, <1>2 DEF SkyInv, SkyTypeOK, OneSlotEach, RingInAlarm, SeenNoOlder, NotifiedTold, Used,
    FallsOutside, SaidAgainLate, ToneIsMeant, KeepsItsPlace
<1>3. ASSUME NEW i \in Slots, NEW now \in Target,
             table' = [table EXCEPT ![i] = now],
             now.who = a, now.new,
             \A k \in Slots \ {i} : table[k].who # a,
             \/ table[i].who = a /\ now.alarm = table[i].alarm
             \/ table[i].who = Nobody /\ a \notin Held(table)
             \/ ~table[i].alarm /\ a \notin Held(table)
      PROVE  SkyInv' /\ KeepsItsPlace
  <2>1. /\ table \in [Slots -> Target] /\ DOMAIN table = Slots
        /\ table' \in [Slots -> Target] /\ DOMAIN table' = Slots
        /\ table'[i] = now /\ \A k \in Slots \ {i} : table'[k] = table[k]
    BY <1>3 DEF SkyInv, SkyTypeOK
  <2>2. /\ OneSlotEach(table) /\ RingInAlarm /\ SeenNoOlder /\ ring \in SUBSET Aircraft
        /\ a # Nobody
    BY NobodyAssumption DEF SkyInv, SkyTypeOK
  <2>3. OneSlotEach(table')
    BY <1>3, <2>1, <2>2 DEF OneSlotEach
  <2>4. ASSUME NEW b \in ring
        PROVE  b \in Held(table')
    <3>1. PICK k \in Slots : table[k].who = b /\ table[k].alarm /\ b # Nobody
      BY <2>1, <2>2, <2>4, NobodyAssumption DEF RingInAlarm, Held, Used
    <3>2. table'[k].who = b
      BY <1>3, <2>1, <3>1 DEF Held, Used
    <3>3. QED
      BY <2>1, <3>1, <3>2 DEF Held, Used
  <2>5. ASSUME NEW k \in Slots, table'[k].who \in ring
        PROVE  table'[k].alarm
    <3>1. CASE k # i
      BY <2>1, <2>2, <2>5, <3>1 DEF RingInAlarm
    <3>2. CASE k = i
      <4>1. a \in ring /\ a \in Held(table)
        BY <1>3, <2>1, <2>2, <2>5, <3>2 DEF RingInAlarm
      <4>2. table[i].who = a /\ now.alarm = table[i].alarm
        BY <1>3, <4>1
      <4>3. QED
        BY <2>1, <2>2, <3>2, <4>1, <4>2 DEF RingInAlarm
    <3>3. QED
      BY <3>1, <3>2
  <2>6. RingInAlarm'
    BY <1>1, <2>4, <2>5 DEF RingInAlarm
  <2>7. SeenNoOlder'
    BY <1>1, <1>3, <2>1, <2>2 DEF SeenNoOlder
  <2>8. SkyTypeOK'
    BY <1>1, <2>1 DEF SkyInv, SkyTypeOK
  <2>9. /\ OneSlotEach(tracker)' /\ NotifiedTold' /\ FallsOutside' /\ SaidAgainLate' /\ ToneIsMeant'
    BY <1>1 DEF SkyInv, OneSlotEach, NotifiedTold, Used, FallsOutside, SaidAgainLate, ToneIsMeant
  <2>10. KeepsItsPlace
    BY <2>4 DEF KeepsItsPlace
  <2>11. QED
    BY <2>3, <2>6, <2>7, <2>8, <2>9, <2>10 DEF SkyInv
<1>4. QED
  BY <1>1, <1>2, <1>3, HearIs

LEMMA OlderIs ==
  ASSUME NEW n \in Nat, NEW bound \in Nat
  PROVE  /\ Older(n, bound) \in Nat /\ n <= Older(n, bound)
         /\ \/ Older(n, bound) = n + 1
            \/ (Older(n, bound) = n /\ bound <= n)
         /\ n < bound => Older(n, bound) = n + 1
BY DEF Older

\* Time and a touch: a slot is its aircraft's still, older, and dismissed.
LEMMA BetweenSlot ==
  ASSUME SkyInv, NEW touch \in BOOLEAN, NEW later \in BOOLEAN, Between(touch, later),
         NEW j \in Tracks
  PROVE  LET was == tracker[j]
             now == tracker'[j]
         IN /\ now \in Track /\ now.who = was.who /\ now.notified = was.notified
            /\ now.who # Nobody =>
                 /\ now.dismissed = (was.dismissed \/ (touch /\ was.notified))
                 /\ later => /\ now.seen = Older(was.seen, GroundForget)
                             /\ now.falling = IF was.falling = Steady THEN Steady
                                              ELSE Older(was.falling, GroundForget)
                 /\ ~later => now.seen = was.seen /\ now.falling = was.falling
<1> DEFINE was == tracker[j]
           slots == IF touch THEN Dismissed(tracker) ELSE tracker
           slot == slots[j]
           stale == [slot EXCEPT !.seen = Older(@, GroundForget),
                                 !.falling = IF @ = Steady THEN @ ELSE Older(@, GroundForget)]
<1>1. was \in Track /\ tracker \in [Tracks -> Track]
  BY DEF SkyInv, SkyTypeOK
<1>2. slot = IF touch THEN [was EXCEPT !.dismissed = @ \/ was.notified] ELSE was
  BY DEF Dismissed
<1>3. DOMAIN slots = Tracks
  BY <1>1 DEF Dismissed
<1>4. tracker'[j] = IF later THEN (IF slot.who = Nobody THEN slot ELSE stale) ELSE slot
  <2>1. tracker' = IF later
                   THEN [i \in DOMAIN slots |->
                           IF slots[i].who = Nobody THEN slots[i]
                           ELSE [slots[i] EXCEPT !.seen = Older(@, GroundForget),
                                  !.falling = IF @ = Steady THEN @ ELSE Older(@, GroundForget)]]
                   ELSE slots
    BY DEF Between, Aged
  <2> HIDE DEF slots
  <2>2. QED
    BY <1>3, <2>1
<1> HIDE DEF slots, was
<1>5. /\ slot \in Track /\ slot.who = was.who /\ slot.notified = was.notified
      /\ slot.seen = was.seen /\ slot.falling = was.falling
      /\ slot.dismissed = (was.dismissed \/ (touch /\ was.notified))
  BY <1>1, <1>2 DEF Track
<1> HIDE DEF slot
<1>6. /\ stale \in Track /\ stale.who = slot.who /\ stale.notified = slot.notified
      /\ stale.dismissed = slot.dismissed
      /\ stale.seen = Older(slot.seen, GroundForget)
      /\ stale.falling = IF slot.falling = Steady THEN Steady ELSE Older(slot.falling, GroundForget)
  <2>1. /\ Older(slot.seen, GroundForget) \in Nat
        /\ slot.falling # Steady => Older(slot.falling, GroundForget) \in Nat
    BY <1>5, Bounds, OlderIs DEF Track
  <2>2. QED
    BY <1>5, <2>1 DEF Track
<1> HIDE DEF stale
<1>7. QED
  BY <1>4, <1>5, <1>6 DEF was

LEMMA BetweenTable ==
  ASSUME SkyInv, NEW touch \in BOOLEAN, NEW later \in BOOLEAN, Between(touch, later),
         NEW i \in Slots
  PROVE  LET was == table[i]
             now == table'[i]
         IN /\ now \in Target /\ now.who = was.who /\ now.alarm = was.alarm /\ now.new = was.new
            /\ now.who # Nobody => now.age = IF later THEN Older(was.age, GroundForget + 1) ELSE was.age
<1> DEFINE was == table[i]
           aged == [was EXCEPT !.age = Older(@, GroundForget + 1)]
<1>1. was \in Target /\ table \in [Slots -> Target] /\ DOMAIN table = Slots
  BY DEF SkyInv, SkyTypeOK
<1>2. table'[i] = IF later THEN (IF was.who = Nobody THEN was ELSE aged) ELSE was
  BY <1>1 DEF Between, Aged
<1> HIDE DEF was
<1>3. Older(was.age, GroundForget + 1) \in Nat
  <2>1. was.age \in Nat /\ GroundForget + 1 \in Nat
    BY <1>1, Bounds DEF Target
  <2>2. QED
    BY <2>1, OlderIs
<1>4. QED
  BY <1>1, <1>2, <1>3 DEF Target, was

LEMMA BetweenKept ==
  ASSUME SkyInv, NEW touch \in BOOLEAN, NEW later \in BOOLEAN, Between(touch, later)
  PROVE  SkyInv' /\ KeepsItsPlace /\ at' = "radio"
<1>1. /\ at' = "radio" /\ said' = {} /\ tone' = tone /\ live' = live /\ ring' = ring
      /\ told' = told /\ recycled' = recycled
      /\ touched' = (IF touch THEN touched \cup told ELSE touched)
      /\ gap' = IF later THEN [a \in Aircraft |-> Older(gap[a], RenotifyFloor)] ELSE gap
  BY DEF Between
<1>2. /\ table \in [Slots -> Target] /\ tracker \in [Tracks -> Track]
      /\ DOMAIN table = Slots /\ DOMAIN tracker = Tracks
      /\ gap \in [Aircraft -> Nat]
  BY DEF SkyInv, SkyTypeOK
<1>3. DOMAIN table' = Slots /\ DOMAIN tracker' = Tracks
      /\ table' \in [Slots -> Target] /\ tracker' \in [Tracks -> Track]
  <2>1. table' = [k \in Slots |-> table'[k]]
    BY <1>2 DEF Between, Aged
  <2>2. tracker' = [k \in Tracks |-> tracker'[k]]
    BY <1>2 DEF Between, Aged, Dismissed
  <2>3. (\A k \in Slots : table'[k] \in Target) /\ \A k \in Tracks : tracker'[k] \in Track
    BY BetweenTable, BetweenSlot
  <2>4. QED
    BY <2>1, <2>2, <2>3
<1>4. /\ \A k \in Slots : /\ table'[k].who = table[k].who /\ table'[k].alarm = table[k].alarm
                          /\ table'[k].new = table[k].new
      /\ \A j \in Tracks : tracker'[j].who = tracker[j].who
                           /\ tracker'[j].notified = tracker[j].notified
  BY BetweenTable, BetweenSlot
<1>5. Held(table') = Held(table) /\ Held(tracker') = Held(tracker) /\ Used(tracker') = Used(tracker)
  BY <1>2, <1>3, <1>4 DEF Held, Used
<1>6. \A j \in Used(tracker) : j \in Tracks /\ tracker[j].who # Nobody /\ tracker[j].who \in Aircraft
                               /\ tracker[j] \in Track
  BY <1>2 DEF Used, Track
<1>7. \A a \in Aircraft : gap'[a] \in Nat /\ (RenotifyFloor <= gap[a] => RenotifyFloor <= gap'[a])
  <2> SUFFICES ASSUME NEW a \in Aircraft
               PROVE  gap'[a] \in Nat /\ (RenotifyFloor <= gap[a] => RenotifyFloor <= gap'[a])
    OBVIOUS
  <2>1. gap[a] \in Nat /\ gap'[a] = IF later THEN Older(gap[a], RenotifyFloor) ELSE gap[a]
    BY <1>1, <1>2
  <2>2. RenotifyFloor \in Nat
    BY Bounds
  <2>3. /\ Older(gap[a], RenotifyFloor) \in Nat
        /\ gap[a] <= Older(gap[a], RenotifyFloor)
    BY <2>1, <2>2, OlderIs
  <2>4. QED
    BY <2>1, <2>2, <2>3
<1>8. SkyTypeOK'
  <2>1. gap' \in [Aircraft -> Nat]
    BY <1>1, <1>2, <1>7
  <2>2. QED
    BY <1>1, <1>3, <2>1 DEF SkyInv, SkyTypeOK
<1>9. OneSlotEach(table)' /\ OneSlotEach(tracker)'
  BY <1>2, <1>3, <1>4 DEF SkyInv, OneSlotEach
<1>10. RingInAlarm'
  BY <1>1, <1>4, <1>5 DEF SkyInv, RingInAlarm
<1>11. SeenNoOlder'
  <2> SUFFICES ASSUME NEW i \in Slots, NEW j \in Tracks,
                      table[i].who # Nobody, tracker[j].who = table[i].who, ~table[i].new
               PROVE  tracker'[j].seen <= table'[i].age
    BY <1>4 DEF SeenNoOlder
  <2>1. tracker[j].seen <= table[i].age
    BY DEF SkyInv, SeenNoOlder
  <2>2. tracker[j].seen \in Nat /\ table[i].age \in Nat /\ GroundForget \in Nat
    BY <1>2, Bounds DEF Track, Target
  <2>3. CASE ~later
    <3>1. tracker'[j].seen = tracker[j].seen /\ table'[i].age = table[i].age
      BY <2>3, <1>4, BetweenSlot, BetweenTable
    <3>2. QED
      BY <2>1, <3>1
  <2>4. CASE later
    <3>1. /\ tracker'[j].seen = Older(tracker[j].seen, GroundForget)
          /\ table'[i].age = Older(table[i].age, GroundForget + 1)
      BY <2>4, <1>4, BetweenSlot, BetweenTable
    <3>2. QED
      BY <2>1, <2>2, <3>1 DEF Older
  <2>5. QED
    BY <2>3, <2>4
<1>12. NotifiedTold'
  <2>1. told' \subseteq Held(tracker')
    BY <1>1, <1>5 DEF SkyInv, NotifiedTold
  <2>2. ASSUME NEW j \in Used(tracker'), tracker'[j].notified
        PROVE  /\ tracker'[j].who \in told'
               /\ tracker'[j].who \in touched' => tracker'[j].dismissed
    <3>1. j \in Used(tracker) /\ j \in Tracks /\ tracker'[j].who = tracker[j].who
          /\ tracker[j].notified /\ tracker'[j].who # Nobody
      BY <1>4, <1>5, <1>6, <2>2
    <3>2. /\ tracker[j].who \in told
          /\ tracker[j].who \in touched => tracker[j].dismissed
      BY <3>1 DEF SkyInv, NotifiedTold
    <3>3. tracker'[j].dismissed = (tracker[j].dismissed \/ (touch /\ tracker[j].notified))
      BY <3>1, BetweenSlot
    <3>4. QED
      BY <1>1, <3>1, <3>2, <3>3
  <2>3. QED
    BY <2>1, <2>2 DEF NotifiedTold
<1>13. FallsOutside'
  <2> SUFFICES ASSUME NEW j \in Used(tracker), tracker'[j].falling # Steady
               PROVE  \/ tracker'[j].falling <= gap'[tracker[j].who]
                      \/ RenotifyFloor <= gap'[tracker[j].who]
    BY <1>4, <1>5, <1>6 DEF FallsOutside
  <2> DEFINE a == tracker[j].who
  <2>1. j \in Tracks /\ a \in Aircraft /\ tracker'[j].who # Nobody /\ tracker[j] \in Track
    BY <1>4, <1>6
  <2>2. CASE ~later
    <3>1. tracker'[j].falling = tracker[j].falling /\ gap' = gap
      BY <1>1, <2>1, <2>2, BetweenSlot
    <3>2. QED
      BY <3>1 DEF SkyInv, FallsOutside
  <2>3. CASE later
    <3>1. /\ tracker[j].falling # Steady
          /\ tracker'[j].falling = Older(tracker[j].falling, GroundForget)
          /\ gap'[a] = Older(gap[a], RenotifyFloor)
      BY <1>1, <2>1, <2>3, BetweenSlot
    <3>2. tracker[j].falling <= gap[a] \/ RenotifyFloor <= gap[a]
      BY <3>1 DEF SkyInv, FallsOutside
    <3>3. tracker[j].falling \in Nat /\ gap[a] \in Nat
      BY <1>2, <2>1, <3>1 DEF Track
    <3> HIDE DEF a
    <3>4. \/ Older(tracker[j].falling, GroundForget) <= Older(gap[a], RenotifyFloor)
          \/ RenotifyFloor <= Older(gap[a], RenotifyFloor)
      BY <3>2, <3>3, Bounds DEF Older
    <3>5. QED
      BY <3>1, <3>4 DEF a
  <2>4. QED
    BY <2>2, <2>3
<1>14. SaidAgainLate'
  <2> SUFFICES ASSUME ~recycled, NEW j \in Used(tracker), tracker[j].who \in told, ~tracker[j].notified
               PROVE  RenotifyFloor <= gap'[tracker[j].who]
    BY <1>1, <1>4, <1>5, <1>6 DEF SaidAgainLate
  <2>1. RenotifyFloor <= gap[tracker[j].who]
    BY DEF SkyInv, SaidAgainLate
  <2>2. QED
    BY <1>6, <1>7, <2>1
<1>15. ToneIsMeant' /\ KeepsItsPlace
  BY <1>1, <1>5 DEF ToneIsMeant, KeepsItsPlace
<1>16. QED
  BY <1>1, <1>8, <1>9, <1>10, <1>11, <1>12, <1>13, <1>14, <1>15 DEF SkyInv

LEMMA SkyInitKept == SkyInit => SkyInv
<1> SUFFICES ASSUME SkyInit PROVE SkyInv
  OBVIOUS
<1>1. /\ table = [i \in Slots |-> Vacant] /\ tracker = [i \in Tracks |-> Unused]
      /\ said = {} /\ tone = FALSE /\ live = FALSE /\ at = "radio"
      /\ ring = {} /\ told = {} /\ touched = {} /\ gap = [a \in Aircraft |-> RenotifyFloor]
      /\ recycled = FALSE
  BY DEF SkyInit
<1>2. /\ Vacant \in Target /\ Vacant.who = Nobody /\ Unused \in Track /\ Unused.who = Nobody
  BY DEF Vacant, Target, Unused, Track
<1>3. SkyTypeOK
  BY <1>1, <1>2, Bounds DEF SkyTypeOK
<1>4. Used(tracker) = {} /\ OneSlotEach(table) /\ OneSlotEach(tracker)
  BY <1>1, <1>2 DEF Used, OneSlotEach
<1>5. RingInAlarm /\ SeenNoOlder /\ ToneIsMeant
  BY <1>1, <1>2 DEF RingInAlarm, SeenNoOlder, ToneIsMeant
<1>6. NotifiedTold /\ FallsOutside /\ SaidAgainLate
  BY <1>1, <1>4 DEF NotifiedTold, FallsOutside, SaidAgainLate
<1>7. QED
  BY <1>3, <1>4, <1>5, <1>6 DEF SkyInv

LEMMA PassesArePasses ==
  ASSUME SkyInv, NEW pass \in Blind \cup Sighted(Held(table))
  PROVE  IsPass(pass)
<1>1. Earlies \in SUBSET BOOLEAN
  BY DEF Earlies
<1>2. Held(table) \in SUBSET Aircraft
  BY DEF SkyInv, SkyTypeOK, Held, Used, Target
<1>3. CASE pass \in Blind
  BY <1>1, <1>3 DEF Blind, IsPass
<1>4. CASE pass \in Sighted(Held(table))
  BY <1>1, <1>2, <1>4 DEF Sighted, IsPass
<1>5. QED
  BY <1>3, <1>4

LEMMA SkyStepKept ==
  ASSUME SkyInv, [SkyNext]_skyVars
  PROVE  SkyInv' /\ [KeepsItsPlace /\ (at' = "glass" /\ ~recycled' => ToldOnce)]_skyVars
<1>1. ASSUME NEW a \in Aircraft, NEW air \in BOOLEAN, NEW direct \in BOOLEAN,
             Hear(Report(a, air, direct))
      PROVE  SkyInv' /\ KeepsItsPlace /\ at' = "radio"
  BY <1>1, HearKept
<1>2. ASSUME NEW pass \in Blind \cup Sighted(Held(table)), Tick(pass)
      PROVE  SkyInv' /\ KeepsItsPlace /\ (~recycled' => ToldOnce)
  BY <1>2, PassesArePasses, TickKept
<1>3. ASSUME NEW touch \in BOOLEAN, NEW later \in BOOLEAN, Between(touch, later)
      PROVE  SkyInv' /\ KeepsItsPlace /\ at' = "radio"
  BY <1>3, BetweenKept
<1>4. CASE UNCHANGED skyVars
  BY <1>4 DEF skyVars, histVars, SkyInv, SkyTypeOK, OneSlotEach, RingInAlarm, Held, Used, SeenNoOlder,
    NotifiedTold, FallsOutside, SaidAgainLate, ToneIsMeant
<1>5. QED
  BY <1>1, <1>2, <1>3, <1>4 DEF SkyNext

LEMMA AlwaysSkyInv == TrafficSpec => []SkyInv
<1>1. SkyInv /\ [SkyNext]_skyVars => SkyInv'
  BY SkyStepKept
<1>2. QED
  BY <1>1, SkyInitKept, PTL DEF TrafficSpec

\* The table, the tracker and the histories keep their types, whatever is heard,
\* graded, touched or aged (TrafficTable, AlarmTracker::Slot).
THEOREM SkyTypeCorrect == TrafficSpec => []SkyTypeOK
<1>1. SkyInv => SkyTypeOK
  BY DEF SkyInv
<1>2. QED
  BY <1>1, AlwaysSkyInv, PTL

\* The tone always stands for somebody who was announced and not dismissed
\* since, a full tracker included (AlarmTracker::dismiss, withdraw,
\* announced_level).
THEOREM ToneAlwaysMeant == TrafficSpec => []ToneIsMeant
<1>1. SkyInv => ToneIsMeant
  BY DEF SkyInv
<1>2. QED
  BY <1>1, AlwaysSkyInv, PTL

\* An aircraft in alarm is announced, announced once a visit, and keeps its
\* place on the glass, for every size of the table and the tracker
\* (AlarmTracker::update, notify_for, TrafficTable::allocate_slot, age_out).
THEOREM AlwaysToldOnceAndKept == TrafficSpec => ToldOnceAndKept
<1>1. SkyInv /\ [SkyNext]_skyVars =>
        [KeepsItsPlace /\ (at' = "glass" /\ ~recycled' => ToldOnce)]_skyVars
  BY SkyStepKept
<1>2. QED
  BY <1>1, AlwaysSkyInv, PTL DEF TrafficSpec, ToldOnceAndKept
================================================================================
