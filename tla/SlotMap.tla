------------------------------- MODULE SlotMap --------------------------------
(***************************************************************************)
(* The second as the one radio cuts it: which dwell a phase belongs to,    *)
(* when own-ship may key inside one, and where a stall of the core costs   *)
(* the radio nothing.  Phases are milliseconds from the top of the second; *)
(* a dwell is [start, end), and the second M-band dwell ends in the next   *)
(* second.                                                                 *)
(*                                                                         *)
(* Source: core/timing/slot.{h,cpp}, the instants of core/timing/transmit  *)
(* .cpp and DurableWriteWindow::free_at.                                   *)
(***************************************************************************)
EXTENDS Integers

CONSTANTS
  SecondMs,
  UplinkStart, UplinkEnd,          \* kUplinkRxStartMs, kUplinkRxEndMs
  Slot0Start, Slot0End,            \* kSlot0StartMs, kSlot0EndMs
  Slot1End,                        \* kSlot1EndMs; the slot opens at Slot0End
  DirectStart,                     \* kDirectStartMs
  JitterGuard, HopGuard,           \* kJitterGuardMs, kHopGuardMs
  AirTime, CompletionGuard         \* kAirTimeMs, kCompletionGuardMs

Wrap == Slot1End - SecondMs

ASSUME SlotMapAssumption ==
  /\ {SecondMs, UplinkStart, UplinkEnd, Slot0Start, Slot0End, Slot1End, DirectStart,
      JitterGuard, HopGuard, AirTime, CompletionGuard} \subseteq Nat
  /\ 0 < Wrap /\ Wrap <= UplinkStart /\ UplinkStart < UplinkEnd /\ UplinkEnd <= Slot0Start
  /\ Slot0Start <= DirectStart /\ DirectStart + AirTime + CompletionGuard + HopGuard <= Slot0End
  /\ Slot0End + AirTime + CompletionGuard <= SecondMs
  /\ AirTime + CompletionGuard <= Wrap
  /\ 0 < AirTime /\ Slot0End < SecondMs

-----------------------------------------------------------------------------
(* The dwells.                                                             *)

\* Scheduler::state_at, the hop guard counted with the dwell it closes and the
\* two retune guards with the dwell they lead to or follow.
DwellAt(phase) ==
  IF phase < Wrap \/ phase >= Slot0End THEN "slot1"
  ELSE IF phase >= Slot0Start THEN "slot0"
  ELSE "uplink"

DwellStart(dwell) ==
  CASE dwell = "uplink" -> UplinkStart
    [] dwell = "slot0" -> Slot0Start
    [] dwell = "slot1" -> Slot0End

\* Scheduler::dwell_end: the hop guard belongs to the dwell that closes.
DwellEnd(dwell) ==
  CASE dwell = "uplink" -> UplinkEnd
    [] dwell = "slot0" -> Slot0End - HopGuard
    [] dwell = "slot1" -> Slot1End

\* SlotPlan: anchored is a locked edge and a UTC second; without them own-ship
\* listens.
Plan(dwell, anchored) ==
  [dwell |-> dwell, start |-> DwellStart(dwell), end |-> DwellEnd(dwell),
   txAllowed |-> anchored /\ dwell # "uplink"]

-----------------------------------------------------------------------------
(* The instants own-ship may key at.                                       *)

LesserOf(a, b) == IF a < b THEN a ELSE b
GreaterOf(a, b) == IF a > b THEN a ELSE b

\* Transmitter::first_instant_in, last_instant_in: the direct slot ends with
\* the second, and a burst completes inside it and inside its dwell.
FirstInstant(dwell) == GreaterOf(DwellStart(dwell), DirectStart)
LastInstant(dwell) ==
  GreaterOf(FirstInstant(dwell), LesserOf(DwellEnd(dwell), SecondMs) - CompletionGuard - AirTime)

-----------------------------------------------------------------------------
(* Where a stall fits: DurableWriteWindow::free_at.                        *)

\* The phase in the frame the dwell started in.
InFrame(plan, phase) ==
  LET at == IF phase >= SecondMs THEN phase - SecondMs ELSE phase
  IN IF plan.end > SecondMs /\ at < plan.end - SecondMs THEN at + SecondMs ELSE at

NextEdge(at) == IF at < SecondMs THEN SecondMs ELSE 2 * SecondMs

\* Mutant of FreeAt: a dwell is written in as soon as the last one closed.
FreeAtBeforeTheDwell(plan, phase, cost) ==
  LET at == InFrame(plan, phase)
      done == at + cost
  IN /\ ~plan.txAllowed
     /\ done + JitterGuard <= plan.end
     /\ ~(at < DirectStart /\ done + JitterGuard > DirectStart)
     /\ done + JitterGuard <= NextEdge(at)
FreeAt(plan, phase, cost) ==
  LET at == InFrame(plan, phase)
      done == at + cost
  IN /\ ~plan.txAllowed
     /\ at >= plan.start
     /\ done + JitterGuard <= plan.end
     /\ ~(at < DirectStart /\ done + JitterGuard > DirectStart)
     /\ done + JitterGuard <= NextEdge(at)
===============================================================================
