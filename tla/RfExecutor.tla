------------------------------ MODULE RfExecutor ------------------------------
(***************************************************************************)
(* The radio executor: a thread of its own, above the service loop, that   *)
(* flies one dwell at a time and keys each burst at the instant it was     *)
(* armed for.  It holds the dwell it flies and one behind it.  arm() and   *)
(* abort() are called by the loop under the scheduler's lock; everything   *)
(* else is the thread's, and time does not pass while it has something to  *)
(* do.                                                                     *)
(*                                                                         *)
(* Source: hardware/platform/zephyr/rf.h, ports/rf.h.  The retune lead and *)
(* the staging lead are less than a unit of this clock; what the receiver  *)
(* hears, the health watchdog and sleep are left out.                      *)
(***************************************************************************)
EXTENDS SlotMap, Sequences, SequencesExt

CONSTANTS
  MaxBursts,     \* RfBursts::kMaxBursts
  Faults,        \* whether the part may once refuse to start or fail a burst
  Crowded        \* whether the queue of reports may be full of frames heard

ASSUME ExecutorAssumption ==
  MaxBursts \in Nat \ {0} /\ Faults \in BOOLEAN /\ Crowded \in BOOLEAN

VARIABLES
  now,       \* the clock both threads read
  queued,    \* the plan behind the one in flight
  flying,    \* the plan in flight; no channel once arm() may not join it
  thread,    \* [step, keyed, done, airUntil, abort]
  reports,   \* bus.rf, drained by the traffic service
  aired,     \* history: the bursts the part has put on air
  faulted    \* history: when the part failed, 0 while it has not

rfVars == <<queued, flying, thread, reports, aired, faulted>>

\* RfPlan, with the bursts RfBursts keeps in the order of their instants.
NoPlan == [ch |-> "none", start |-> 0, end |-> 0, bursts |-> <<>>]
Asleep == [step |-> "idle", keyed |-> 0, done |-> 0, airUntil |-> 0, abort |-> FALSE]

-----------------------------------------------------------------------------
(* What the loop asks of it.                                               *)

Carried(bursts, at) == \E i \in DOMAIN bursts : bursts[i].at = at
Fits(bursts, burst) == Carried(bursts, burst.at) \/ Len(bursts) < MaxBursts
Added(bursts, burst) ==
  IF Carried(bursts, burst.at) THEN bursts
  ELSE LET before == {i \in DOMAIN bursts : bursts[i].at <= burst.at}
       IN InsertAt(bursts, Cardinality(before) + 1, burst)

\* The two plans the loop reaches under the lock.
Held == [queued |-> queued, flying |-> flying]
Landed(plan) == [plan EXCEPT !.ch = "none"]

InRange(plan) ==
  /\ plan.start < plan.end
  /\ \A i \in DOMAIN plan.bursts : plan.bursts[i].at \in plan.start .. plan.end - 1

\* Mutant of Joins: whatever dwell is in flight is joined.
JoinsAny(rf, plan) ==
  /\ rf.flying.ch # "none"
  /\ plan.bursts # <<>>
  /\ plan.bursts[1].at >= now /\ plan.bursts[1].at < rf.flying.end
\* joins_flying_dwell: a burst for the channel in flight, inside its window.
Joins(rf, plan) ==
  /\ rf.flying.ch = plan.ch
  /\ plan.bursts # <<>>
  /\ plan.bursts[1].at >= now /\ plan.bursts[1].at < rf.flying.end
SameDwell(one, other) == one.ch = other.ch /\ one.end = other.end

\* arm(): [ok, rf].
Refuse(rf) == [ok |-> FALSE, rf |-> rf]
Arm(rf, plan) ==
  IF ~InRange(plan) \/ now >= plan.end THEN Refuse(rf)
  ELSE IF Joins(rf, plan)
  THEN IF Fits(rf.flying.bursts, plan.bursts[1])
       THEN [ok |-> TRUE, rf |-> [rf EXCEPT !.flying.bursts = Added(@, plan.bursts[1])]]
       ELSE Refuse(rf)
  ELSE IF rf.flying.ch # "none" /\ plan.end <= rf.flying.end THEN Refuse(rf)
  ELSE IF SameDwell(plan, rf.queued)
  THEN IF plan.bursts = <<>> THEN [ok |-> TRUE, rf |-> rf]
       ELSE IF Fits(rf.queued.bursts, plan.bursts[1])
       THEN [ok |-> TRUE, rf |-> [rf EXCEPT !.queued.bursts = Added(@, plan.bursts[1])]]
       ELSE Refuse(rf)
  ELSE [ok |-> TRUE, rf |-> [rf EXCEPT !.queued = plan]]

\* abort(): the dwell in flight is cut short and the queued one dropped.
Aborted(rf) == [queued |-> NoPlan, flying |-> Landed(rf.flying)]

-----------------------------------------------------------------------------
(* The thread.                                                             *)

Report(type, bursts) ==
  \/ reports' = reports \o [i \in DOMAIN bursts |-> [type |-> type, at |-> bursts[i].at]]
  \/ Crowded /\ bursts # <<>> /\ UNCHANGED reports

Unfinished(bursts, done) == SubSeq(bursts, done + 1, Len(bursts))

\* take(), and run() up to the dwell's start.
Take ==
  /\ thread.step = "idle" /\ queued.ch # "none"
  /\ queued' = NoPlan
  /\ IF now >= queued.end
     THEN /\ flying' = Landed(queued)
          /\ UNCHANGED thread
          /\ Report("Missed", queued.bursts)
     ELSE /\ flying' = queued
          /\ thread' = [Asleep EXCEPT !.step = "waiting"]
          /\ UNCHANGED reports
  /\ UNCHANGED <<aired, faulted>>

\* The part fails, once in a behaviour: the dwell ends there.
Fault(bursts) ==
  /\ Faults /\ faulted = 0
  /\ faulted' = now
  /\ flying' = Landed(flying) /\ thread' = Asleep
  /\ Report("Missed", bursts)

\* An abort is only looked at once the start has come.
Start ==
  /\ thread.step = "waiting" /\ now >= flying.start
  /\ \/ /\ thread.abort
        /\ flying' = Landed(flying) /\ thread' = Asleep
        /\ UNCHANGED <<reports, faulted>>
     \/ /\ ~thread.abort
        /\ thread' = [thread EXCEPT !.step = "dwelling"]
        /\ UNCHANGED <<flying, reports, faulted>>
     \/ ~thread.abort /\ Fault(flying.bursts)
  /\ UNCHANGED <<queued, aired>>

Over == thread.abort \/ now >= flying.end
OnAir == thread.keyed > thread.done
KeyDue ==
  /\ ~Over /\ ~OnAir /\ thread.keyed < Len(flying.bursts)
  /\ flying.bursts[thread.keyed + 1].at <= now
AirEnded == OnAir /\ now >= thread.airUntil

\* key(): none while one is on air.
Key ==
  /\ thread.step = "dwelling" /\ KeyDue
  /\ LET burst == flying.bursts[thread.keyed + 1]
     IN aired' = aired \cup {[payload |-> burst.payload, utc |-> burst.utc, at |-> burst.at,
                              keyed |-> now, ch |-> flying.ch, end |-> flying.end]}
  /\ thread' = [thread EXCEPT !.keyed = @ + 1, !.airUntil = now + AirTime]
  /\ UNCHANGED <<queued, flying, reports, faulted>>

\* collect(): the burst on air was sent, or the part raised a fault and the
\* dwell ends there, the bursts still waiting in it untold.
Collect ==
  /\ thread.step = "dwelling" /\ AirEnded
  /\ \/ /\ thread' = [thread EXCEPT !.done = @ + 1]
        /\ Report("TxDone", <<flying.bursts[thread.keyed]>>)
        /\ UNCHANGED <<flying, faulted>>
     \/ Fault(<<flying.bursts[thread.keyed]>>)
  /\ UNCHANGED <<queued, aired>>

\* The dwell ends, or an abort cuts it short: what is not done is missed.
Finish ==
  /\ thread.step = "dwelling" /\ Over /\ ~AirEnded
  /\ flying' = Landed(flying) /\ thread' = Asleep
  /\ Report("Missed", Unfinished(flying.bursts, thread.done))
  /\ UNCHANGED <<queued, aired, faulted>>

Executor == Take \/ Start \/ Key \/ Collect \/ Finish

\* Nothing for the thread to do before the clock moves.
Settled ==
  CASE thread.step = "idle" -> queued.ch = "none"
    [] thread.step = "waiting" -> now < flying.start
    [] thread.step = "dwelling" -> ~Over /\ ~KeyDue /\ ~AirEnded

RfInit ==
  /\ queued = NoPlan /\ flying = NoPlan /\ thread = Asleep
  /\ reports = <<>> /\ aired = {} /\ faulted = 0
===============================================================================
