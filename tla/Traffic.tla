-------------------------------- MODULE Traffic --------------------------------
(***************************************************************************)
(* Which aircraft the unit holds, and what it says of them.  A pass takes  *)
(* the reports the radio left, ages the table, and then grades every       *)
(* aircraft in it; the tracker remembers per aircraft what was said and    *)
(* what the pilot dismissed, in slots of its own.  Time moves in units,    *)
(* with any number of passes between two of them.                          *)
(*                                                                         *)
(* Source: core/traffic/table.cpp, alarm.cpp, lease.h, services/alarm.cpp  *)
(* and the reports of services/traffic.cpp.  Whether two aircraft fly in   *)
(* formation, where each is when it is graded, and which of two is the     *)
(* nearer when the table is full, are inputs.  Left out: the range gate    *)
(* and own-ship's own echo, reports that give no position, a clock that    *)
(* steps, turn rates, names, the lamp and the tune.                        *)
(***************************************************************************)
EXTENDS Integers, FiniteSets

CONSTANTS
  Aircraft,
  MaxTargets,      \* kMaxTargets
  MaxTracked,      \* kMaxTrackedTargets
  RenotifyFloor,   \* kRenotifyFloorMs
  AlertMaxAge,     \* kAlertMaxAgeMs
  AirForget,       \* kAirborneTargetForgetS
  GroundForget,    \* kGroundTargetForgetS, and kGroundRenotifyFloorMs
  GroundPeriod     \* kGroundReportPeriodS

ASSUME TrafficAssumption ==
  /\ MaxTargets \in Nat \ {0} /\ MaxTracked \in Nat \ {0}
  /\ {RenotifyFloor, AlertMaxAge, AirForget, GroundForget, GroundPeriod} \subseteq Nat
  /\ 0 < RenotifyFloor /\ RenotifyFloor <= AlertMaxAge /\ AlertMaxAge < AirForget
  /\ AirForget < GroundForget

VARIABLES
  table,     \* TrafficTable: slots_
  tracker,   \* AlarmTracker: slots_
  said,      \* Decision::notify: who was announced in this pass
  tone,      \* announced_level
  live,      \* alarm_undismissed
  at,        \* where the pass is: "radio", or "glass" when it is over
  ring,      \* history: who the last pass graded inside the ring
  told,      \* history: who was announced since it was last lost or silenced
  gap,       \* history: how long ago each was last graded inside
  touched,   \* history: who was announced, and then dismissed
  recycled   \* history: a full tracker has given one of its slots to another

histVars == <<ring, told, gap, touched>>
skyVars == <<table, tracker, said, tone, live, at, histVars, recycled>>

Slots == 1 .. MaxTargets
Tracks == 1 .. MaxTracked
Nobody == "nobody"
ASSUME NobodyAssumption == Nobody \notin Aircraft
Steady == -1               \* not falling

\* Target and its observation; new, until the tracker has seen its reception.
Vacant == [who |-> Nobody, air |-> FALSE, direct |-> FALSE, age |-> 0, new |-> FALSE,
           alarm |-> FALSE]
\* AlarmTracker::Slot
Unused == [who |-> Nobody, seen |-> 0, forget |-> 0, notified |-> FALSE,
           dismissed |-> FALSE, falling |-> Steady]

Used(slots) == {i \in DOMAIN slots : slots[i].who # Nobody}
Free(slots) == DOMAIN slots \ Used(slots)
Held(slots) == {slots[i].who : i \in Used(slots)}
First(S) == CHOOSE i \in S : \A j \in S : i <= j
SlotOf(slots, a) == CHOOSE i \in DOMAIN slots : slots[i].who = a

Report(a, air, direct) ==
  [who |-> a, air |-> air, direct |-> direct, age |-> 0, new |-> TRUE, alarm |-> FALSE]

Forget(report) == IF report.air THEN AirForget ELSE GroundForget
DirectPreferred(report) ==
  IF ~report.air /\ GroundPeriod > AlertMaxAge THEN GroundPeriod ELSE AlertMaxAge

-----------------------------------------------------------------------------
(* The table.                                                              *)

\* A relay never displaces a first-hand report the alarm would still act on.
PreferNew(incoming, existing) ==
  ~(existing.direct /\ ~incoming.direct /\ existing.age <= DirectPreferred(existing))

Expendable == {i \in Used(table) : ~table[i].alarm}

\* matters_less(): the ground before the air, then what the geometry says.
Victims == {i \in Expendable : table[i].air => \A j \in Expendable : table[j].air}
Outranks(report, i) == report.air /\ ~table[i].air
Outranked(report, i) == ~report.air /\ table[i].air

\* TrafficTable::update, with allocate_slot()
Known(report) ==
  LET i == SlotOf(table, report.who)
  IN /\ report.who \in Held(table)
     /\ table' = IF PreferNew(report, table[i])
                THEN [table EXCEPT ![i] = [report EXCEPT !.alarm = table[i].alarm]] ELSE table
Placed(report) ==
  /\ report.who \notin Held(table)
  /\ Free(table) # {}
  /\ table' = [table EXCEPT ![First(Free(table))] = report]
Displaces(report, i) ==
  /\ report.who \notin Held(table)
  /\ Free(table) = {}
  /\ i \in Victims /\ ~Outranked(report, i)
  /\ table' = [table EXCEPT ![i] = report]
TurnedAway(report) ==
  /\ report.who \notin Held(table)
  /\ Free(table) = {}
  /\ \A i \in Victims : ~Outranks(report, i)
  /\ UNCHANGED table

\* A report of the radio's queue.
Hear(report) ==
  /\ at = "radio"
  /\ \/ Known(report)
     \/ Placed(report)
     \/ \E i \in Slots : Displaces(report, i)
     \/ TurnedAway(report)
  /\ UNCHANGED <<tracker, said, tone, live, at, histVars, recycled>>

\* age_out(): ages are differences of seconds, so a lease that is up may be
\* found so a second late.
Expired(report, early) ==
  report.age > Forget(report) \/ (early /\ report.age = Forget(report))
AgedOut(early) ==
  [i \in Slots |-> IF table[i].who # Nobody /\ Expired(table[i], early) THEN Vacant
                  ELSE table[i]]

-----------------------------------------------------------------------------
(* The tracker.                                                            *)

\* What a pass finds: pass.near, who is inside the ring; pass.down, own-ship is
\* on the ground; pass.fix; pass.silent, who is in formation; pass.early.
Grounded(report, pass) == ~report.air \/ pass.down
Inside(report, pass) == report.who \in pass.near /\ ~Grounded(report, pass)
Fresh(report) == report.age < AlertMaxAge
Floor(report, pass) == IF Grounded(report, pass) THEN GroundForget ELSE RenotifyFloor

\* slot_for(): its own slot, the first free one, or the one not seen for the
\* longest.
SlotFor(slots, a) ==
  IF a \in Held(slots) THEN SlotOf(slots, a)
  ELSE IF Free(slots) # {} THEN First(Free(slots))
  ELSE First({i \in Tracks : \A j \in Tracks : slots[j].seen <= slots[i].seen})

Found(slots, report) ==
  LET a == report.who
      i == SlotFor(slots, a)
      slot == IF slots[i].who = a THEN slots[i] ELSE [Unused EXCEPT !.who = a]
  IN [slots EXCEPT ![i] = [slot EXCEPT !.seen = IF report.new THEN 0 ELSE @,
                                       !.forget = Forget(report)]]

\* notify_for(): what was said falls back once the aircraft has been outside
\* for a floor.
\* Mutant of Notified: it falls back at once.
NotifiedToTheLast(slot, inside, floor) ==
  [slot EXCEPT !.notified = inside, !.falling = Steady,
               !.dismissed = @ /\ ~(inside /\ ~slot.notified)]
Notified(slot, inside, floor) ==
  IF inside \/ ~slot.notified
  THEN [slot EXCEPT !.notified = inside, !.falling = Steady,
                    !.dismissed = @ /\ ~(inside /\ ~slot.notified)]
  ELSE IF slot.falling = Steady THEN [slot EXCEPT !.falling = 0]
  ELSE IF slot.falling >= floor
  THEN [slot EXCEPT !.notified = FALSE, !.falling = Steady]
  ELSE slot

Withdrawn(slot) ==
  [slot EXCEPT !.notified = FALSE, !.falling = Steady, !.dismissed = FALSE]

\* One target of AlarmService::tick: AlarmTracker::update, and what a
\* formation takes back.
Graded(sky, i, pass) ==
  LET report == sky.table[i]
      a == report.who
      slots == Found(sky.tracker, report)
      j == SlotOf(slots, a)
      inside == Inside(report, pass)
      slot == IF Fresh(report) THEN Notified(slots[j], inside, Floor(report, pass))
              ELSE slots[j]
      quiet == a \in pass.silent
  IN IF a = Nobody THEN sky
     ELSE [table |-> [sky.table EXCEPT ![i].new = FALSE, ![i].alarm = inside /\ ~quiet],
           tracker |-> [slots EXCEPT ![j] = IF quiet THEN Withdrawn(slot) ELSE slot],
           said |-> IF slot.notified /\ ~slots[j].notified /\ ~quiet THEN sky.said \cup {a}
                    ELSE sky.said,
           ring |-> IF inside /\ ~quiet THEN sky.ring \cup {a} ELSE sky.ring,
           live |-> sky.live \/ (inside /\ ~quiet /\ ~slot.dismissed),
           full |-> sky.full \/ (a \notin Held(sky.tracker) /\ Free(sky.tracker) = {})]

\* AlarmService::tick: without a fix nobody is graded.
GradedAll(pass) ==
  LET held == [table |-> AgedOut(pass.early), tracker |-> tracker, said |-> {}, ring |-> {},
               live |-> FALSE, full |-> recycled]
      upTo[i \in 0 .. MaxTargets] == IF i = 0 THEN held ELSE Graded(upTo[i - 1], i, pass)
  IN IF pass.fix THEN upTo[MaxTargets] ELSE held

ForgetStale(slots) ==
  [i \in Tracks |-> IF slots[i].who # Nobody /\ slots[i].seen >= slots[i].forget
                   THEN Unused ELSE slots[i]]

\* announced_level()
\* Mutant of Announced: what the pilot dismissed goes on.
AnnouncedThroughATouch(slots) ==
  \E i \in Used(slots) : slots[i].notified /\ slots[i].seen < AlertMaxAge
Announced(slots) ==
  \E i \in Used(slots) :
    slots[i].notified /\ ~slots[i].dismissed /\ slots[i].seen < AlertMaxAge

\* TrafficService::tick once the queue is empty, and AlarmService::tick.
Tick(pass) == \E sky \in {GradedAll(pass)} :
  LET kept == ForgetStale(sky.tracker)
      hushed == IF pass.fix THEN pass.silent \cap Held(sky.table) ELSE {}
      inside == {a \in sky.ring : Fresh(sky.table[SlotOf(sky.table, a)])}
  IN /\ at = "radio"
     /\ at' = "glass"
     /\ table' = sky.table
     /\ tracker' = kept
     /\ said' = sky.said
     /\ tone' = Announced(kept)
     /\ live' = sky.live
     /\ ring' = sky.ring
     /\ told' = ((told \cup sky.said) \cap Held(kept)) \ hushed
     /\ gap' = [a \in Aircraft |-> IF a \in inside THEN 0 ELSE gap[a]]
     /\ touched' = (touched \cap told') \ sky.said
     /\ recycled' = sky.full

-----------------------------------------------------------------------------
(* Between two passes: a touch, and time.                                  *)

Dismissed(slots) ==
  [i \in Tracks |-> [slots[i] EXCEPT !.dismissed = @ \/ slots[i].notified]]

Older(n, bound) == IF n < bound THEN n + 1 ELSE n
Aged(slots, older(_)) ==
  [i \in DOMAIN slots |-> IF slots[i].who = Nobody THEN slots[i] ELSE older(slots[i])]

\* A long touch reaches the tracker while an alarm stands: else it turns a page.
Between(touch, later) ==
  LET slots == IF touch THEN Dismissed(tracker) ELSE tracker
      aged(report) == [report EXCEPT !.age = Older(@, GroundForget + 1)]
      stale(slot) == [slot EXCEPT !.seen = Older(@, GroundForget),
                                  !.falling = IF @ = Steady THEN @ ELSE Older(@, GroundForget)]
  IN /\ at = "glass"
     /\ at' = "radio"
     /\ touch => live
     /\ tracker' = IF later THEN Aged(slots, stale) ELSE slots
     /\ table' = IF later THEN Aged(table, aged) ELSE table
     /\ gap' = IF later THEN [a \in Aircraft |-> Older(gap[a], RenotifyFloor)] ELSE gap
     /\ touched' = IF touch THEN touched \cup told ELSE touched
     /\ said' = {}
     /\ UNCHANGED <<tone, live, ring, told, recycled>>

SkyInit ==
  /\ table = [i \in Slots |-> Vacant] /\ tracker = [i \in Tracks |-> Unused]
  /\ said = {} /\ tone = FALSE /\ live = FALSE /\ at = "radio"
  /\ ring = {} /\ told = {} /\ touched = {} /\ gap = [a \in Aircraft |-> RenotifyFloor]
  /\ recycled = FALSE

\* Inputs that make no difference are given one value.
Earlies == IF \E i \in Used(table) : table[i].age = Forget(table[i]) THEN BOOLEAN ELSE {FALSE}
Blind == [fix : {FALSE}, near : {{}}, down : {FALSE}, early : Earlies, silent : {{}}]
Sighted(held) ==
  {pass \in [fix : {TRUE}, near : SUBSET held, down : BOOLEAN, early : Earlies,
             silent : {{}} \cup {{a} : a \in held}] : pass.down => pass.near = {}}

SkyNext ==
  \/ \E a \in Aircraft, air, direct \in BOOLEAN : Hear(Report(a, air, direct))
  \/ \E pass \in Blind \cup Sighted(Held(table)) : Tick(pass)
  \/ \E touch, later \in BOOLEAN : Between(touch, later)

TrafficSpec == SkyInit /\ [][SkyNext]_skyVars

-----------------------------------------------------------------------------
(* Properties.                                                             *)

\* Whoever is graded inside on a report fresh enough has been told of, and
\* nobody is told of again before a whole floor outside.
ToldOnce ==
  /\ \A a \in ring' : Fresh(table'[SlotOf(table', a)]) => a \in told'
  /\ \A a \in said' \cap told : gap[a] >= RenotifyFloor

\* Whoever was graded inside leaves the table when its own lease is up.
KeepsItsPlace ==
  \A a \in ring \cap Held(table) :
    \/ a \in Held(table')
    \/ LET report == table[SlotOf(table, a)] IN report.age >= Forget(report)

\* An aircraft in alarm is announced, announced once a visit, and stays on the
\* glass: through fades, formations, lost fixes, touches, landings and a table
\* full of newcomers.  A full tracker excepted: it recycles the slot of an
\* aircraft that may still be there, and says it again.
\* Code: AlarmTracker::update, notify_for, slot_for, forget_stale, and
\* TrafficTable::allocate_slot, age_out.
ToldOnceAndKept ==
  [][KeepsItsPlace /\ (at' = "glass" /\ ~recycled' => ToldOnce)]_skyVars

\* The tone stands for somebody the pilot was told of and has not dismissed
\* since: from the next pass on one touch quiets all that was said, whatever
\* the slots went through.
\* Code: AlarmTracker::dismiss, withdraw, announced_level.
ToneIsMeant == at = "glass" /\ tone => told \ touched # {}
===============================================================================
