------------------------------ MODULE WriteWindow ------------------------------
(***************************************************************************)
(* What may write flash in a pass, and when.  The settings' writer runs    *)
(* before the radio and reads the view of the second the radio published   *)
(* a pass ago, carried forward by its age; the record stores run after it  *)
(* and book what is left of the window between them.  A write holds the    *)
(* core, so the radio owes the air nothing for as long as it lasts.        *)
(*                                                                         *)
(* Source: core/timing/durable_write.{h,cpp}, bus::RfState::               *)
(* book_flash_window and the view RadioService::publish_dwell leaves.  The *)
(* passes are a few units apart, some of them late; the view's phase is    *)
(* the device's own, so a step of the latched edge is left out, and so is  *)
(* the boot before the first dwell, when no plan stands and all is free.   *)
(***************************************************************************)
EXTENDS SlotMap

CONSTANTS
  WorstWrite,      \* kWorstWriteMs
  SettleTime,      \* kSettleMs
  DeferCeiling,    \* kDeferCeilingMs
  ViewStale,       \* kViewStaleMs
  LongestStep,     \* how far apart two passes may be
  Costs            \* what the stores ask for: an erase, a page

ASSUME WriteWindowAssumption ==
  /\ {WorstWrite, SettleTime, DeferCeiling, ViewStale} \subseteq Nat
  /\ LongestStep \in Nat \ {0} /\ Costs \subseteq Nat \ {0}
  /\ 0 < JitterGuard /\ WorstWrite + ViewStale <= SecondMs
  /\ WorstWrite < SettleTime /\ ViewStale < SettleTime

\* The last phase of the uplink dwell a settings write may begin at.
LastFree == UplinkEnd - JitterGuard - WorstWrite

\* A pass that sees the dwell open is followed by one in time for it: passes are
\* 10 ms apart where up to 52 would do.
ASSUME PassesAreClose ==
  /\ LongestStep <= ViewStale
  /\ UplinkStart + LongestStep <= LastFree + 1 /\ Wrap + 2 * LongestStep <= LastFree + 1

VARIABLES
  phase,     \* of the second, where this pass began
  view,      \* RfState: [dwell, anchored, phase, age, burst] as last published
  window,    \* DurableWriteWindow: [pending, first, last], the two as ages
  elapsed,   \* into the pass
  booked,    \* flash_pass_booked_ms
  work,      \* what the last decision let through: [verdict, from, to, last,
             \* crowded], from and to as phases of the second this pass began in
  crowded    \* history: a store has booked since the last change was asked for

writeVars == <<phase, view, window, elapsed, booked, work, crowded>>

Idle == [pending |-> FALSE, first |-> 0, last |-> 0]
NoWork == [verdict |-> "none", from |-> 0, to |-> 0, last |-> 0, crowded |-> FALSE]
Dwells == {"uplink", "slot0", "slot1"}

\* DurableWriteWindow::free_now, asked age units after the view was taken.
\* Mutant of FreeNow: a view of the pass before is refused.
FreeNowThisPass(v, age, cost) ==
  /\ ~v.burst
  /\ age = 0
  /\ FreeAt(Plan(v.dwell, v.anchored), v.phase + age, cost)
FreeNow(v, age, cost) ==
  /\ ~v.burst
  /\ age <= ViewStale
  /\ FreeAt(Plan(v.dwell, v.anchored), v.phase + age, cost)

\* decide(): the bound outranks the settle, and then the window.
Decided(w, free) ==
  IF ~w.pending THEN "idle"
  ELSE IF w.first < DeferCeiling /\ w.last < SettleTime THEN "hold"
  ELSE IF free THEN "place"
  ELSE IF w.first >= DeferCeiling THEN "forced" ELSE "hold"

\* An age is not counted past where it decides.
Later(age, step, bound) == LesserOf(age + step, bound)
Passed(w, step) ==
  IF w.pending
  THEN [w EXCEPT !.first = Later(@, step, DeferCeiling),
                 !.last = Later(@, step, SettleTime + SecondMs)]
  ELSE w
Requested(w) == [pending |-> TRUE, first |-> IF w.pending THEN w.first ELSE 0, last |-> 0]

\* RadioService::publish_dwell, at the phase the radio's turn comes: a dwell
\* that opened anchored may still carry its burst after the anchor is lost.
Published(at, anchored, burst) ==
  [dwell |-> DwellAt(at % SecondMs), anchored |-> anchored, phase |-> at % SecondMs,
   age |-> 0, burst |-> burst]

-----------------------------------------------------------------------------
\* One pass as far as the radio: the settings' writer decides on the view it
\* was left, writes or not, and the radio publishes the next.
Pass(step, change) ==
  /\ LET began == (phase + step) % SecondMs
         aged == Passed(window, step)
         w == IF change THEN Requested(aged) ELSE aged
         verdict == Decided(w, FreeNow(view, view.age + step, WorstWrite))
         writes == verdict \in {"place", "forced"}
     IN /\ phase' = began
        /\ elapsed' = IF writes THEN WorstWrite ELSE 0
        \* The store may refuse: the bound starts again.
        /\ window' \in IF writes THEN {Idle, [w EXCEPT !.first = 0, !.last = 0]} ELSE {w}
        /\ work' = IF writes
                   THEN [verdict |-> verdict, from |-> began, to |-> began + WorstWrite,
                         last |-> w.last, crowded |-> crowded]
                   ELSE NoWork
        /\ crowded' = (crowded /\ ~change /\ ~writes)
        /\ booked' = 0
        /\ \E anchored, burst \in BOOLEAN :
             /\ burst => DwellAt((began + elapsed') % SecondMs) # "uplink"
             /\ view' = [Published(began + elapsed', anchored, burst) EXCEPT !.age = 0 - elapsed']

\* A store's turn, after the radio's: work starts at the clock or after what
\* the pass booked, if later.  It takes no longer than it asked for.
IntoPass == GreaterOf(elapsed, booked)

Book(cost, spent) ==
  /\ ~Plan(view.dwell, view.anchored).txAllowed
  /\ FreeNow(view, view.age + IntoPass, cost)
  /\ booked' = IntoPass + cost
  /\ elapsed' = elapsed + spent
  /\ work' = [verdict |-> "place", from |-> phase + elapsed, to |-> phase + elapsed + spent,
              last |-> 0, crowded |-> FALSE]
  /\ crowded' = (crowded \/ window.pending)
  /\ UNCHANGED <<phase, view, window>>

Init ==
  /\ phase \in {0, 1} /\ window = Idle /\ elapsed = 0 /\ booked = 0 /\ work = NoWork
  /\ crowded = FALSE
  /\ view = Published(phase, FALSE, FALSE)

Next ==
  \/ \E step \in 1..LongestStep, change \in BOOLEAN : Pass(GreaterOf(step, elapsed), change)
  \/ \E cost \in Costs : \E spent \in 1..cost : Book(cost, spent)

WriteSpec == Init /\ [][Next]_writeVars

-----------------------------------------------------------------------------
(* Properties.                                                             *)

\* Every variable keeps its type.
WriteTypeOK ==
  /\ phase \in 0..SecondMs - 1
  /\ view.dwell \in Dwells /\ view.phase \in 0..SecondMs - 1
  /\ window.first \in 0..DeferCeiling /\ window.last \in 0..SettleTime + SecondMs
  /\ elapsed \in Nat /\ booked \in Nat
  /\ work.verdict \in {"none", "place", "forced"}
  /\ {crowded, work.crowded} \subseteq BOOLEAN

\* A write that was placed owes the radio nothing for as long as it lasts,
\* whichever writers shared the pass and however old the view they were given:
\* it lies inside one dwell, a guard clear of the edge the next second is
\* measured from, and is over before the first instant of the dwell own-ship
\* might have drawn.
InsideOneDwell(from, to) ==
  \E dwell \in Dwells, frame \in {0 - SecondMs, 0, SecondMs} :
    /\ frame + DwellStart(dwell) <= from
    /\ to + JitterGuard <= frame + DwellEnd(dwell)
    /\ dwell = "slot0" /\ from < frame + DirectStart
         => to + JitterGuard <= frame + FirstInstant(dwell)
ClearOfTheEdge(from, to) ==
  \A edge \in {0, SecondMs, 2 * SecondMs} : from < edge => to + JitterGuard <= edge
PlacedOwesNothing ==
  work.verdict = "place" =>
    InsideOneDwell(work.from, work.to) /\ ClearOfTheEdge(work.from, work.to)

\* A settings write only goes outside the window, the one outcome that is a
\* fault, under a thumb that would not stop or when the stores have booked
\* since: a last change a settle and a second old has otherwise been offered a
\* free stretch, passes a few hops apart.
ForcedOnlyWhenCrowded ==
  work.verdict = "forced" => work.last < SettleTime + SecondMs \/ work.crowded
===============================================================================
