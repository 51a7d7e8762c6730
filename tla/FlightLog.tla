------------------------------ MODULE FlightLog ------------------------------
(***************************************************************************)
(* What a flight leaves behind.  Once a second the service samples the     *)
(* fix into a short ring in RAM; a takeoff opens a session, which hands    *)
(* the ring to the file, and a landing closes it, after which the ring is  *)
(* written out to its last fix.  What was around the aircraft is queued    *)
(* beside it and is written first.  The store may refuse a record at any   *)
(* time, which ends the pass; the power may be cut between two passes.     *)
(*                                                                         *)
(* Source: core/flight/log_session.{h,cpp}, log_events.{h,cpp} and         *)
(* services/flight_log.cpp.  The store is modelled by RecordStore; here it *)
(* is the records it answered Ok for, which an erase takes away.           *)
(***************************************************************************)
EXTENDS Integers, FiniteSets, Sequences

CONSTANTS
  Window,    \* kLogPreTakeoffRecords: the fixes the ring holds
  Backlog,   \* kLogEventBacklogRecords: the events that may wait
  Targets,   \* kLogTargetSlots: the slots of the traffic table
  MaxTime,   \* bound on the clock: the samples of a behaviour
  Erases     \* whether the pilot may ask for an erase

ASSUME WindowAssumption == Window \in Nat \ {0}
ASSUME BacklogAssumption == Backlog \in Nat \ {0}
ASSUME TargetsAssumption == Targets \in Nat
ASSUME MaxTimeAssumption == MaxTime \in Nat
ASSUME ErasesAssumption == Erases \in BOOLEAN

VARIABLES
  log,      \* LogSession
  events,   \* LogEvents
  base,     \* RecordStore::base_session(), the session records are written under
  erasing,  \* RecordStore::erasing()
  file,     \* the records the store took, in order: [session, record]
  clock,    \* UTC seconds, of the last sample
  owed      \* fixes the file was owed since the boot or the last erase

deviceVars == <<log, events, base, erasing>>
flightVars == <<deviceVars, file, clock, owed>>

Times == 0 .. MaxTime
Slots == 1 .. Targets

Sample(time, moving, last) == [kind |-> "fix", at |-> time, moving |-> moving, last |-> last]
Event == [kind |-> "event"]

NewLog == [ring |-> <<>>, toFlush |-> 0, dropped |-> 0, session |-> 0,
           open |-> FALSE, closing |-> FALSE]
NewEvents == [backlog |-> <<>>, track |-> [s \in Slots |-> "none"], dropped |-> 0,
              open |-> FALSE, raised |-> 0]

-----------------------------------------------------------------------------
(* The session: which second is kept, and when it is owed to the file.     *)

Less(n) == IF n > 0 THEN n - 1 ELSE 0
Lesser(m, n) == IF m < n THEN m ELSE n

\* A full ring gives up its oldest, which is a loss only once it is owed.
Push(l, sample) ==
  IF Len(l.ring) < Window
  THEN [l EXCEPT !.ring = Append(@, sample)]
  ELSE [l EXCEPT !.ring = Append(Tail(@), sample),
                 !.toFlush = Less(@),
                 !.dropped = IF l.open \/ l.closing THEN @ + 1 ELSE @]

\* Mutant of Landed: the landing leaves one last record behind, whatever waits.
LandedWithOne(l, usable, time) ==
  LET kept == IF usable THEN Push(l, Sample(time, FALSE, TRUE)) ELSE l
  IN [kept EXCEPT !.open = FALSE, !.closing = TRUE, !.toFlush = Lesser(1, Len(kept.ring))]
Landed(l, usable, time) ==
  LET kept == IF usable THEN Push(l, Sample(time, FALSE, TRUE)) ELSE l
  IN [kept EXCEPT !.open = FALSE, !.closing = TRUE, !.toFlush = Len(kept.ring)]

TakenOff(l, time) ==
  LET kept == Push(l, Sample(time, TRUE, FALSE))
  IN [kept EXCEPT !.session = Head(kept.ring).at, !.open = TRUE, !.closing = FALSE]

\* update(): `sampled` is a usable fix when one is due.
Action(l, flying, sampled) ==
  IF l.open /\ ~flying THEN "close"
  ELSE IF ~sampled \/ l.closing THEN "idle"
  ELSE IF l.open THEN "append"
  ELSE IF flying THEN "open"
  ELSE "park"

Updated(l, action, usable, time) ==
  CASE action = "close" -> Landed(l, usable, time)
    [] action = "idle" -> l
    [] action = "park" -> Push(l, Sample(time, FALSE, FALSE))
    [] action = "open" -> TakenOff(l, time)
    [] action = "append" -> Push(l, Sample(time, TRUE, FALSE))

\* Fixes the file is owed by an update.
OwedBy(l, action, usable, time) ==
  CASE action = "open" -> Len(TakenOff(l, time).ring)
    [] action = "append" -> 1
    [] action = "close" -> IF usable THEN 1 ELSE 0
    [] action \in {"idle", "park"} -> 0

-----------------------------------------------------------------------------
(* What was around: a status a minute, an alarm when its level changes, an *)
(* encounter when it is over.                                              *)

\* What a slot of the traffic table shows: nobody, an aircraft that cannot be
\* placed, the same aircraft or another, its alarm changed or not.
Sights == {"vacant", "unplaced", "same", "alarm", "other", "other alarm"}

\* Mutant of PushEvent: a full backlog loses its oldest and does not say so.
PushUncounted(e) ==
  IF Len(e.backlog) < Backlog
  THEN [e EXCEPT !.backlog = Append(@, Event), !.raised = @ + 1]
  ELSE [e EXCEPT !.backlog = Append(Tail(@), Event), !.raised = @ + 1]
PushEvent(e) ==
  IF Len(e.backlog) < Backlog
  THEN [e EXCEPT !.backlog = Append(@, Event), !.raised = @ + 1]
  ELSE [e EXCEPT !.backlog = Append(Tail(@), Event), !.raised = @ + 1, !.dropped = @ + 1]

End(e, s) ==
  IF e.track[s] = "active" THEN [PushEvent(e) EXCEPT !.track[s] = "none"] ELSE e

Heard(e, s, sight) ==
  LET met == IF sight \in {"other", "other alarm"} THEN End(e, s) ELSE e
      told == IF sight \in {"alarm", "other alarm"} THEN PushEvent(met) ELSE met
  IN [told EXCEPT !.track[s] = "active"]

Sighted(e, s, sight) ==
  CASE sight = "vacant" -> End(e, s)
    [] sight = "unplaced" -> e
    [] OTHER -> Heard(e, s, sight)

\* watch(): the status, then the slots in order.
Watched(e, status, sights) ==
  LET upTo[s \in 0 .. Targets] ==
        IF s = 0 THEN IF status THEN PushEvent(e) ELSE e
        ELSE Sighted(upTo[s - 1], s, sights[s])
  IN upTo[Targets]

\* What one sampling of the sky and the cell may make of the events.
Watches(e, due) ==
  UNION {{Watched(e, status, sights) : sights \in [Slots -> Sights]} : status \in {due, TRUE}}

Ending(e) == {s \in Slots : e.track[s] = "ending"}
PendingEvents(e) == Len(e.backlog) + Cardinality(Ending(e))

\* The code does not keep `raised`, the events so far.  What waited from a
\* flight that was erased is not owed.
EventsOpen(e) ==
  [NewEvents EXCEPT !.open = TRUE, !.dropped = e.dropped,
                    !.raised = IF base = 0 THEN e.raised - PendingEvents(e) ELSE e.raised]

\* Every encounter still running ends with the flight.
EventsClose(e) ==
  LET running == {s \in Slots : e.track[s] = "active"}
  IN [e EXCEPT !.track = [s \in Slots |-> IF s \in running THEN "ending" ELSE @[s]],
               !.open = FALSE,
               !.raised = @ + Cardinality(running)]

\* A closed session yields only what it held at the landing.
PendingFixes(l) == IF l.open THEN Len(l.ring) ELSE l.toFlush
Pending(l, e) == PendingEvents(e) + PendingFixes(l)

-----------------------------------------------------------------------------
(* The drain: the events first, then the fixes, until the store refuses.   *)

\* Mutant of EventsTaken: the fixes go first.
EventsTakenLast(l, e, taken) ==
  IF taken <= PendingFixes(l) THEN 0 ELSE taken - PendingFixes(l)
EventsTaken(l, e, taken) == Lesser(taken, PendingEvents(e))

\* The slots whose encounters are still to be written, the first being gone.
EndingAfter(e, written) ==
  {s \in Ending(e) : Cardinality({t \in Ending(e) : t <= s}) > written}

EventsDrained(e, n) ==
  LET queued == Lesser(n, Len(e.backlog))
  IN [e EXCEPT !.backlog = SubSeq(@, queued + 1, Len(@)),
               !.track = [s \in Slots |-> IF s \in Ending(e) \ EndingAfter(e, n - queued)
                                          THEN "none" ELSE @[s]]]

\* Mutant of Closing: only a written record ends the closing.
ClosingByRecords(l, e, taken) == l.closing /\ (taken < Pending(l, e) \/ taken = 0)
\* peek() finds nothing left, or commit() took the last record of the landing.
Closing(l, e, taken) == l.closing /\ taken < Pending(l, e)

FixesDrained(l, n) ==
  [l EXCEPT !.ring = SubSeq(@, n + 1, Len(@)),
            !.toFlush = IF n < @ THEN @ - n ELSE 0]

\* The first `taken` records of what is pending, under the session of the store.
Written(l, e, session, taken) ==
  LET n == EventsTaken(l, e, taken)
      seen == [i \in 1 .. n |-> Event]
      fixes == SubSeq(l.ring, 1, taken - n)
      record(r) == [session |-> session, record |-> r]
  IN [i \in 1 .. taken |-> record((seen \o fixes)[i])]

-----------------------------------------------------------------------------

Fixes(f) == Cardinality({i \in DOMAIN f : f[i].record.kind = "fix"})
Events(f) == Len(f) - Fixes(f)

\* One pass of the service, when nothing is being erased.  The store takes
\* `least` records, if so many are pending.
Pass(flying, usable, due, least) ==
  LET time == IF due THEN clock + 1 ELSE clock
      action == Action(log, flying, usable /\ due)
      l == Updated(log, action, usable, time)
      seen == CASE action = "open" -> Watches(EventsOpen(events), TRUE)
                [] action = "append" -> Watches(events, FALSE)
                [] action = "close" -> {EventsClose(events)}
                [] action \in {"idle", "park"} -> {events}
  IN /\ ~erasing
     /\ time \in Times
     /\ clock' = time
     /\ base' = IF action = "open" THEN l.session ELSE base
     /\ owed' = owed + OwedBy(log, action, usable, time)
     /\ \E e \in seen : \E taken \in Lesser(least, Pending(l, e)) .. Pending(l, e) :
          LET n == EventsTaken(l, e, taken)
          IN /\ file' = file \o Written(l, e, base', taken)
             /\ log' = [FixesDrained(l, taken - n) EXCEPT !.closing = Closing(l, e, taken)]
             /\ events' = EventsDrained(e, n)
     /\ UNCHANGED erasing

AnyPass(least) ==
  \E flying, usable, due \in BOOLEAN : Pass(flying, usable, due, least)

\* A pass of the erase, the first or another; the last one gives the ring back.
ErasePass(ends) ==
  /\ Erases
  /\ erasing' = ~ends
  /\ IF ends
     THEN /\ log' = [NewLog EXCEPT !.dropped = log.dropped]
          /\ base' = 0
          /\ file' = <<>>
          /\ owed' = log.dropped
          /\ events' = [events EXCEPT !.raised = PendingEvents(events) + events.dropped]
     ELSE UNCHANGED <<log, events, base, file, owed>>
  /\ UNCHANGED clock

\* A reset: what is in RAM is gone.  A cut in the middle of an erase is in
\* RecordStore.
PowerCut ==
  /\ ~erasing
  /\ log' = NewLog
  /\ events' = [NewEvents EXCEPT !.raised = Events(file)]
  /\ base' = 0
  /\ owed' = Fixes(file)
  /\ UNCHANGED <<erasing, file, clock>>

FlightInit ==
  /\ log = NewLog
  /\ events = NewEvents
  /\ base = 0
  /\ erasing = FALSE
  /\ file = <<>>
  /\ clock = 0
  /\ owed = 0

FlightNext ==
  \/ AnyPass(0)
  \/ \E ends \in BOOLEAN : ErasePass(ends)
  \/ PowerCut

FlightSpec == FlightInit /\ [][FlightNext]_flightVars

\* Every pass of the loop calls the service, passes come back in which the
\* radio leaves the part a window, and an erase ends (RecordStore's EraseEnds).
FairFlightSpec ==
  /\ FlightSpec
  /\ WF_flightVars(AnyPass(1))
  /\ WF_flightVars(erasing /\ ErasePass(TRUE))

-----------------------------------------------------------------------------
(* Properties.                                                             *)

FixRecords == [kind : {"fix"}, at : Times, moving : BOOLEAN, last : BOOLEAN]
EventRecords == [kind : {"event"}]

FlightTypeOK ==
  /\ log \in [ring : Seq(FixRecords), toFlush : 0 .. Window, dropped : Nat,
              session : Times, open : BOOLEAN, closing : BOOLEAN]
  /\ Len(log.ring) <= Window
  /\ events \in [backlog : Seq(EventRecords), track : [Slots -> {"none", "active", "ending"}],
                 dropped : Nat, open : BOOLEAN, raised : Nat]
  /\ Len(events.backlog) <= Backlog
  /\ base \in Times /\ clock \in Times /\ owed \in Nat
  /\ erasing \in BOOLEAN
  /\ file \in Seq([session : Times, record : FixRecords \cup EventRecords])

\* A flight file reads as one flight: its fixes are in the order they were
\* taken, the ground ones only before the first in flight, never one from after
\* the landing, and the fix that ends it is its last record, events included.
FileIsAFlight ==
  \A i, j \in DOMAIN file :
    i < j /\ file[i].session = file[j].session =>
      LET first == file[i].record
          later == file[j].record
      IN /\ first.kind = "fix" => ~first.last
         /\ first.kind = "fix" /\ later.kind = "fix" =>
              /\ first.at <= later.at
              /\ first.moving => later.moving \/ later.last

\* Every fix a session owes is in the file, waiting, or counted as dropped.
FixesAccounted ==
  owed = Fixes(file) + (IF log.open \/ log.closing THEN PendingFixes(log) ELSE 0) + log.dropped

\* So is every event: a takeoff never forgets what the last flight is owed.
EventsAccounted == events.raised = Events(file) + PendingEvents(events) + events.dropped

\* A landing is written to its end, and only then may the next flight open: it
\* does not wait for ever, not even when the landing left nothing to write.
ClosingEnds == log.closing ~> ~log.closing
=============================================================================
