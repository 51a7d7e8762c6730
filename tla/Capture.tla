------------------------------- MODULE Capture -------------------------------
(***************************************************************************)
(* A diagnostics capture, from the tap to the file.  Services push records *)
(* into a ring in RAM; the capture drains it into the record store a run   *)
(* at a time, tells what the ring dropped and what the pool recycled under *)
(* the session, and ends the session when the pilot stops it, when no      *)
(* sector is left, or at power-off.  The store may defer or refuse any     *)
(* append.  A pass is a sequence of steps here, one per call of the store; *)
(* between two passes the taps, the pilot and the flights act.             *)
(*                                                                         *)
(* Source: core/diagnostics/recorder.{h,cpp}, services/capture.{h,cpp}.    *)
(* The store is what RecordStore answers, seen from its caller: a refused  *)
(* operation leaves no record, and the pool hands out a free sector (those *)
(* of the flights above their floor included), else the oldest of the ring.*)
(***************************************************************************)
EXTENDS Integers, Sequences

CONSTANTS
  Capacity,    \* kMaxRecords: the records the ring in RAM holds
  Ceiling,     \* kDrainCeilingRecords: the records a pass may write
  Slots,       \* the slots of a sector
  Pool,        \* the sectors the flights do not hold, at most
  MaxMade,     \* bound on the records pushed in a behaviour
  Faults,      \* whether the part may refuse an operation
  Rearms       \* whether the pilot may arm again before the last capture is closed

ASSUME CapacityAssumption == Capacity \in Nat \ {0}
ASSUME CeilingAssumption == Ceiling \in Nat \ {0}
ASSUME SlotsAssumption == Slots \in Nat \ {0}
ASSUME PoolAssumption == Pool \in Nat
ASSUME MaxMadeAssumption == MaxMade \in Nat
ASSUME FaultsAssumption == Faults \in BOOLEAN /\ Rearms \in BOOLEAN

VARIABLES
  recorder,  \* Recorder: [armed, ring, gap, made]; `made` numbers what is pushed
  capture,   \* CaptureService: [open, ended, stopped, lost]
  store,     \* the capture's RecordStore and its pool:
             \* [sectors, old, spare, unseen, free]
  pass       \* where the pass is: [at, parking, written, progress]

captureVars == <<recorder, capture, store, pass>>

TailSlotsReserved == 2     \* kTailSlotsReserved

Lesser(m, n) == IF m < n THEN m ELSE n

Sample(n) == [kind |-> "sample", n |-> n]
Boot(n) == [kind |-> "boot", n |-> n]
Config(n) == [kind |-> "config", n |-> n]
Gap(why, n) == [kind |-> why, n |-> n]     \* why: "dropped", "rotated", "stopped"
End == [kind |-> "end", n |-> 0]

-----------------------------------------------------------------------------
(* The ring in RAM.                                                        *)

Full(r) == Len(r.ring) = Capacity

FlushGap(r) ==
  IF r.gap = 0 \/ Full(r) THEN r
  ELSE [r EXCEPT !.ring = Append(@, Gap("dropped", r.gap)), !.gap = 0]

\* Mutant of Push: the hole is told after the record that found room.
PushThenFlush(r, record) ==
  IF Full(r) THEN [r EXCEPT !.gap = @ + 1, !.made = @ + 1]
  ELSE FlushGap([r EXCEPT !.ring = Append(@, record), !.made = @ + 1])
\* A full ring keeps what it has; the hole is told before the record behind it.
Push(r, record) ==
  LET flushed == FlushGap(r)
  IN IF Full(flushed)
     THEN [flushed EXCEPT !.gap = @ + 1, !.made = @ + 1]
     ELSE [flushed EXCEPT !.ring = Append(@, record), !.made = @ + 1]

\* record_boot() and record_config(): refused once disarmed.
Preamble(r) ==
  IF ~r.armed THEN r
  ELSE LET booted == Push(r, Boot(r.made + 1)) IN Push(booted, Config(booted.made + 1))

Armed(r) == [r EXCEPT !.armed = TRUE, !.ring = <<>>, !.gap = 0]
Disarmed(r) == [r EXCEPT !.armed = FALSE]
Committed(r, run) == [r EXCEPT !.ring = SubSeq(@, run + 1, Len(@))]
Queued == Len(recorder.ring)

-----------------------------------------------------------------------------
(* The store, as its caller sees it: the sectors of this session, how many *)
(* older ones the ring holds, the spare, the sectors lost and not yet told,*)
(* and `free`, what the pool hands out before any of these.                *)

SlotsLeft(s) ==
  IF s.sectors = <<>> THEN 0 ELSE Slots - Len(s.sectors[Len(s.sectors)])

\* run_slots(): a claim writes one record, and a run stays in its page.
RunSlots(s) == IF SlotsLeft(s) = 0 THEN {1} ELSE 1 .. SlotsLeft(s)

\* choose(): the sector handed out.  The frontier never is.  A sector of an
\* older capture counts as lost if the frontier is of that capture still.
Takings(s) ==
  IF s.free > 0 THEN {[s EXCEPT !.free = @ - 1]}
  ELSE IF s.old + Len(s.sectors) <= 1 THEN {}
  ELSE IF s.old = 0 THEN {[s EXCEPT !.sectors = Tail(@), !.unseen = @ + 1]}
  ELSE {[s EXCEPT !.old = @ - 1, !.unseen = @ + counted] :
          counted \in IF s.sectors = <<>> THEN {0, 1} ELSE {0}}

\* prepare(): the spare that is set aside already, or another.
Reserved(s) ==
  IF s.spare # "none" THEN {s} ELSE {[t EXCEPT !.spare = "reserved"] : t \in Takings(s)}

\* claim(): the spare, or what the pool chooses.
Claimed(s) ==
  IF s.spare # "none" THEN {[s EXCEPT !.spare = "none"]} ELSE Takings(s)

\* append(): what it may answer, with the store behind the answer.
Appends(s, records) ==
  LET behind == [s EXCEPT !.sectors[Len(s.sectors)] = @ \o records]
  IN {<<"Deferred", s>>}
     \cup (IF Faults THEN {<<"Fault", s>>} ELSE {})
     \cup (IF SlotsLeft(s) > 0 THEN {<<"Ok", behind>>}
           ELSE IF Claimed(s) = {} THEN {<<"NoSector", s>>}
           ELSE {<<"Ok", [c EXCEPT !.sectors = Append(@, records)]>> : c \in Claimed(s)})

-----------------------------------------------------------------------------
(* The steps of a pass.                                                    *)

Idle == [at |-> "idle", parking |-> FALSE, written |-> 0, progress |-> FALSE]
At(step) == pass' = [pass EXCEPT !.at = step]
Wrote(step, run) ==
  pass' = [pass EXCEPT !.at = step, !.written = @ + run, !.progress = TRUE]

\* tick(), up to the drain: a capture opens, or the pilot's stop is seen.
Tick ==
  /\ pass.at = "idle"
  /\ \/ /\ recorder.armed /\ ~capture.open
        /\ capture' = [open |-> TRUE, ended |-> FALSE, stopped |-> "none", lost |-> 0]
        /\ store' = [store EXCEPT !.old = @ + Len(store.sectors), !.sectors = <<>>, !.unseen = 0]
        /\ recorder' = Preamble(recorder)
     \/ /\ capture.open
        /\ capture' = [capture EXCEPT !.stopped =
                         IF ~recorder.armed /\ @ = "none" THEN "pilot" ELSE @]
        /\ UNCHANGED <<recorder, store>>
  /\ pass' = [Idle EXCEPT !.at = "drain"]

\* next_run(): the last two slots are written only while a sector waits beyond
\* them, and asking sets that sector aside.  Each answer: the run, the store.
NextRuns(s) ==
  UNION {LET asked == Lesser(Lesser(slots, Ceiling - pass.written), Queued)
             left == SlotsLeft(s)
         IN IF left > TailSlotsReserved /\ asked <= left - TailSlotsReserved
            THEN {<<asked, s>>}
            ELSE IF Reserved(s) # {} THEN {<<asked, r>> : r \in Reserved(s)}
            ELSE {<<IF left > TailSlotsReserved THEN left - TailSlotsReserved ELSE 0, s>>}
         : slots \in RunSlots(s)}

\* drain(): the next run goes to the store; only what it took leaves the ring.
\* A hole that the ring has room to tell comes into it when the run is peeked.
DrainRun(answer) ==
  LET flushed == FlushGap(recorder)
  IN /\ pass.at = "drain" /\ Queued > 0 /\ pass.written < Ceiling
     /\ \E next \in NextRuns(store) :
          IF next[1] = 0
          THEN /\ answer = "NoSector"
               /\ store' = next[2]
               /\ UNCHANGED recorder
               /\ At("refused")
          ELSE \E a \in Appends(next[2], SubSeq(flushed.ring, 1, next[1])) :
               /\ a[1] = answer
               /\ store' = a[2]
               /\ recorder' = IF answer = "Ok" THEN Committed(flushed, next[1]) ELSE flushed
               /\ CASE answer = "Ok" -> Wrote("announce", next[1])
                    [] answer = "NoSector" -> At("refused")
                    [] answer \in {"Deferred", "Fault"} -> At("drained")
     /\ UNCHANGED capture

\* announce_rotation(): what the pool recycled under the session.
NothingLost ==
  /\ pass.at = "announce"
  /\ capture.lost + store.unseen = 0
  /\ At("drain")
  /\ UNCHANGED <<recorder, capture, store>>

Announce(answer) ==
  LET lost == capture.lost + store.unseen * Slots
  IN /\ pass.at = "announce"
     /\ lost > 0
     /\ \E a \in Appends([store EXCEPT !.unseen = 0], <<Gap("rotated", lost)>>) :
          /\ a[1] = answer
          /\ store' = a[2]
     /\ IF answer = "Ok"
        THEN /\ capture' = [capture EXCEPT !.lost = 0]
             /\ recorder' = Preamble(recorder)
             /\ Wrote("drain", 0)
        ELSE /\ capture' = [capture EXCEPT !.lost = lost]
             /\ UNCHANGED recorder
             /\ At("drained")

\* prepare_spare(), at the end of a drain nothing refused.
PrepareSpare ==
  /\ pass.at = "drain" /\ (Queued = 0 \/ pass.written >= Ceiling)
  /\ \/ UNCHANGED store
     \/ /\ store.spare # "ready"
        /\ \E r \in Reserved(store) :
             \/ store' = [r EXCEPT !.spare = "ready"]
             \/ Faults /\ store' = r
  /\ At("drained")
  /\ UNCHANGED <<recorder, capture>>

\* stop_on_refusal(): the gap that says why, then the end marker.
Refused(answer) ==
  /\ pass.at = "refused"
  /\ IF SlotsLeft(store) = 0
     THEN answer = "Ok" /\ UNCHANGED store
     ELSE \E a \in Appends(store, <<Gap("stopped", Queued)>>) : a[1] = answer /\ store' = a[2]
  /\ IF answer = "Deferred"
     THEN At("drained") /\ UNCHANGED <<recorder, capture>>
     ELSE /\ recorder' = Disarmed(recorder)
          /\ capture' = [capture EXCEPT !.stopped = "nosectors"]
          /\ IF answer = "Ok" /\ SlotsLeft(store) > 0 THEN Wrote("stopping", 0) ELSE At("stopping")

\* close(): write_end() counts any answer but Deferred as written.
\* Mutant of Ended: the marker is not remembered.
EndedUnremembered(c) == [c EXCEPT !.open = FALSE]
Ended(c) == [c EXCEPT !.ended = TRUE, !.open = FALSE]

\* Mutant of Closing: a capture is closed by the pass that empties the ring.
ClosingBehindARun ==
  \/ pass.at = "stopping"
  \/ pass.at = "drained" /\ ~pass.parking /\ ~recorder.armed /\ Queued = 0 /\ pass.progress
  \/ pass.at = "parked"
Closing ==
  \/ pass.at = "stopping"
  \/ pass.at = "drained" /\ ~pass.parking /\ ~recorder.armed /\ Queued = 0
  \/ pass.at = "parked"
AfterClosing ==
  CASE pass.at = "stopping" -> At("drained")
    [] pass.at = "drained" -> pass' = Idle
    [] pass.at = "parked" -> At("off")

Close(answer) ==
  /\ Closing
  /\ IF capture.ended
     THEN answer = "Ok" /\ UNCHANGED store
     ELSE \E a \in Appends(store, <<End>>) : a[1] = answer /\ store' = a[2]
  /\ capture' = IF answer = "Deferred" THEN capture ELSE Ended(capture)
  /\ IF pass.at = "stopping" /\ answer = "Ok" /\ ~capture.ended
     THEN Wrote("drained", 0) ELSE AfterClosing
  /\ UNCHANGED recorder

\* The rest of the pass: the next one, or another drain of the power-off.
EndPass ==
  /\ pass.at = "drained"
  /\ ~(Closing /\ capture.open)
  /\ pass' = IF ~pass.parking THEN Idle
             ELSE IF Queued > 0 /\ pass.progress
             THEN [Idle EXCEPT !.at = "drain", !.parking = TRUE]
             ELSE [pass EXCEPT !.at = "parked"]
  /\ UNCHANGED <<recorder, capture, store>>

\* park(), before the rails go: it drains until a drain writes nothing.
Park ==
  /\ pass.at = "idle"
  /\ capture.open
  /\ recorder' = Disarmed(recorder)
  /\ capture' = [capture EXCEPT !.stopped = IF @ = "none" THEN "pilot" ELSE @]
  /\ pass' = [Idle EXCEPT !.parking = TRUE, !.at = IF Queued > 0 THEN "drain" ELSE "parked"]
  /\ UNCHANGED store

-----------------------------------------------------------------------------
(* Between two passes.                                                     *)

\* A tap: a record of a type the profile lists.
Tap ==
  /\ pass.at = "idle"
  /\ recorder.armed
  /\ recorder.made < MaxMade
  /\ recorder' = Push(recorder, Sample(recorder.made + 1))
  /\ UNCHANGED <<capture, store, pass>>

\* The pilot's two presses: toggle_capture().
Toggle ==
  /\ pass.at = "idle"
  /\ \/ recorder.armed /\ recorder' = Disarmed(recorder)
     \/ /\ ~recorder.armed
        /\ capture.open => Rearms
        /\ recorder.made < MaxMade
        /\ recorder' = Armed(recorder)
  /\ UNCHANGED <<capture, store, pass>>

\* The flights claim a sector, which may be the oldest of the captures, or give
\* one back.
FlightsClaim ==
  /\ pass.at = "idle"
  /\ store' \in Takings(store)
  /\ UNCHANGED <<recorder, capture, pass>>

FlightsErased ==
  /\ pass.at = "idle"
  /\ store.free + store.old + Len(store.sectors) + (IF store.spare = "none" THEN 0 ELSE 1) < Pool
  /\ store' = [store EXCEPT !.free = @ + 1]
  /\ UNCHANGED <<recorder, capture, pass>>

CaptureInit ==
  /\ recorder = [armed |-> FALSE, ring |-> <<>>, gap |-> 0, made |-> 0]
  /\ capture = [open |-> FALSE, ended |-> FALSE, stopped |-> "none", lost |-> 0]
  /\ store \in [sectors : {<<>>}, old : 0 .. Pool, spare : {"none"}, unseen : {0}, free : 0 .. Pool]
  /\ store.old + store.free <= Pool
  /\ pass = Idle

Answers == {"Ok", "Deferred", "NoSector", "Fault"}

CaptureNext ==
  \/ Tick
  \/ \E answer \in Answers :
       DrainRun(answer) \/ Announce(answer) \/ Refused(answer) \/ Close(answer)
  \/ NothingLost
  \/ PrepareSpare
  \/ EndPass
  \/ Park
  \/ Tap
  \/ Toggle
  \/ FlightsClaim
  \/ FlightsErased

CaptureSpec == CaptureInit /\ [][CaptureNext]_captureVars

\* A pass ends, passes come back, and the part does not defer or refuse for
\* ever what it is asked again every pass.
Answered(Step(_)) == Step("Ok") \/ Step("NoSector")
FairCaptureSpec ==
  /\ CaptureSpec
  /\ WF_captureVars(Tick)
  /\ WF_captureVars(pass.at # "idle" /\ CaptureNext)
  /\ SF_captureVars(Answered(DrainRun))
  /\ SF_captureVars(Answered(Refused))
  /\ SF_captureVars(Answered(Close))

-----------------------------------------------------------------------------
(* Properties.                                                             *)

Records == [kind : {"sample", "boot", "config", "dropped", "rotated", "stopped", "end"}, n : Nat]
Numbered == {"sample", "boot", "config"}

\* The file of the session, as far as the pool has kept it.
Stored ==
  LET upTo[i \in 0 .. Len(store.sectors)] ==
        IF i = 0 THEN <<>> ELSE upTo[i - 1] \o store.sectors[i]
  IN upTo[Len(store.sectors)]

CaptureTypeOK ==
  /\ recorder \in [armed : BOOLEAN, ring : Seq(Records), gap : Nat, made : Nat]
  /\ Len(recorder.ring) <= Capacity
  /\ capture \in [open : BOOLEAN, ended : BOOLEAN, lost : Nat,
                  stopped : {"none", "pilot", "nosectors"}]
  /\ store \in [sectors : Seq(Seq(Records)), old : 0 .. Pool, unseen : Nat,
                spare : {"none", "reserved", "ready"}, free : 0 .. Pool]
  /\ \A i \in DOMAIN store.sectors : Len(store.sectors[i]) \in 1 .. Slots
  /\ store.free + store.old + Len(store.sectors) + (IF store.spare = "none" THEN 0 ELSE 1) <= Pool
  /\ pass \in [at : {"idle", "drain", "announce", "drained", "refused", "stopping", "parked", "off"},
               parking : BOOLEAN, written : 0 .. Ceiling, progress : BOOLEAN]

\* Everything pushed is in the file, in the ring or told by a gap where it was
\* dropped, in the order it was pushed and once.  Counting down from the last
\* record pushed, each record stands where its number says.
RecordsAccounted ==
  capture.open =>
    LET trail == Stored \o recorder.ring
        weight(record) == IF record.kind \in Numbered THEN 1
                          ELSE IF record.kind = "dropped" THEN record.n ELSE 0
        number[i \in 1 .. Len(trail) + 1] ==
          IF i = Len(trail) + 1 THEN recorder.made - recorder.gap
          ELSE number[i + 1] - weight(trail[i])
    IN \A i \in DOMAIN trail :
         trail[i].kind \in Numbered => trail[i].n = number[i + 1]

\* Once the end marker is in the file, no record, no hole and no second marker
\* follows it, whatever the store deferred or refused on the way: at most the
\* reason of the stop is told again behind it (CaptureService::write_end, park).
EndCloses ==
  \A i \in DOMAIN Stored : Stored[i].kind = "end" =>
    \A j \in DOMAIN Stored : j > i => Stored[j].kind = "stopped"

\* A capture that was disarmed is written to its end and closed, or the power
\* goes off, unless it is armed again (CaptureService::tick, stop_on_refusal).
CaptureCloses ==
  (capture.open /\ ~recorder.armed) ~> (~capture.open \/ recorder.armed \/ pass.at = "off")
=============================================================================
