------------------------------ MODULE RadioDwells ------------------------------
(***************************************************************************)
(* The radio as the service loop drives it.  Once a pass the board carries *)
(* the clock to the latched PPS edge, own-ship takes the sentence of the   *)
(* second, the radio service settles what was sent and keeps the executor  *)
(* one dwell ahead, and traffic drains the executor's reports.  Between    *)
(* passes the executor flies what it was given.                            *)
(*                                                                         *)
(* Source: products/skyblip_go/services/radio.{h,cpp}, core/timing         *)
(* /transmit.cpp, slot.cpp, services/ownship.cpp (the clock's half) and    *)
(* services/traffic.cpp (the reports).  The hour's air-time budget, a      *)
(* change of flight state, the slower rate on the ground, the diagnostics  *)
(* and the counters are left out.  The unit is activated in flight, its    *)
(* receiver settled: the radio starts idle under a clock that is dated.    *)
(***************************************************************************)
EXTENDS RfExecutor

CONSTANTS
  Horizon,        \* the bound on the clock
  MaxGap,         \* the longest time between two passes
  Skew,           \* how far the device's own second is from the receiver's
  Holdover,       \* kHoldoverUs: how long an edge keeps the clock locked
  LostEdges,      \* how many edges may fail to reach the pin
  OutcomeAge,     \* kTxOutcomeMaxAgeMs
  CallsignPeriod, CallsignSecond   \* kCallsignPeriodS, the address's second

ASSUME RadioAssumption ==
  /\ {Horizon, MaxGap, Skew, Holdover, LostEdges, OutcomeAge, CallsignSecond} \subseteq Nat
  /\ CallsignPeriod \in Nat \ {0}

VARIABLES
  latched,   \* Pps: the last edge that reached the pin
  clock,     \* ClockState: [locked, edge, utc, utcEdge]
  fixAt,     \* own.fix_at_ms
  radio,     \* [current, next, ahead, retired, sent]; ahead is next_armed_
  done,      \* tx_done_ring_us: the bursts told and not credited yet
  passed,    \* when the last pass ran
  draws,     \* which end of the slot the hash draws in an even and an odd second
  lost,      \* how many edges were lost
  heard,     \* whether the sentence of this second was taken, and in time
  jumped     \* history: when the phase last jumped under the radio

serviceVars == <<clock, fixAt, radio, done, passed, jumped>>
radioVars == <<now, latched, draws, lost, heard, rfVars, serviceVars>>

Payloads == {"position", "callsign"}
Nowhere == [ch |-> "none", from |-> 0, until |-> 0, utc |-> 0,
            at |-> [p \in Payloads |-> 0]]
Carries(dwell, payload) == dwell.at[payload] # 0
CarriesAny(dwell) == \E p \in Payloads : Carries(dwell, p)

\* The second the receiver is in, and where it starts.
UtcAt(t) == 1 + t \div SecondMs
TopOf(utc) == (utc - 1) * SecondMs

-----------------------------------------------------------------------------
(* Where the radio is in its second.                                       *)

PhaseAt(c, t) == IF c.locked /\ t >= c.edge THEN (t - c.edge) % SecondMs
                                            ELSE (t + Skew) % SecondMs
InTail(phase) == phase < Wrap

\* dwell_origin_us: the tail belongs to the second its slot opened in.
\* Mutant of DwellOrigin: the tail is counted in its own second.
DwellOriginPlain(phase) == now - phase
DwellOrigin(phase) == now - phase - (IF InTail(phase) THEN SecondMs ELSE 0)

\* phase_ms, dwell_origin_us, slot_utc_s, fix_lag_ms, read once a pass.
View(c, fix) ==
  LET phase == PhaseAt(c, now)
      origin == DwellOrigin(phase)
  IN [plan |-> Plan(DwellAt(phase), c.locked), locked |-> c.locked, origin |-> origin,
      utc |-> IF InTail(phase) THEN c.utc - 1 ELSE c.utc,
      lag |-> GreaterOf(0, origin) - fix]

InstantUs(origin, at) == GreaterOf(0, origin + at)

\* upcoming_after.
\* Mutant of Upcoming: the dwell after slot 1 is looked for in this second.
UpcomingThisSecond(v) ==
  CASE v.plan.dwell = "slot0" -> [plan |-> Plan("slot1", v.locked), origin |-> v.origin]
    [] v.plan.dwell = "slot1" -> [plan |-> Plan("uplink", v.locked), origin |-> v.origin]
    [] v.plan.dwell = "uplink" -> [plan |-> Plan("slot0", v.locked), origin |-> v.origin]
Upcoming(v) ==
  CASE v.plan.dwell = "slot0" -> [plan |-> Plan("slot1", v.locked), origin |-> v.origin]
    [] v.plan.dwell = "slot1" -> [plan |-> Plan("uplink", v.locked),
                                  origin |-> v.origin + SecondMs]
    [] v.plan.dwell = "uplink" -> [plan |-> Plan("slot0", v.locked), origin |-> v.origin]

-----------------------------------------------------------------------------
(* What own-ship owes a dwell: Transmitter::attempt.                       *)

SlotOf(utc) == IF utc % 2 = 0 THEN "slot0" ELSE "slot1"
PositionAt(utc) ==
  IF draws[utc % 2] = "first" THEN FirstInstant(SlotOf(utc)) ELSE LastInstant(SlotOf(utc))
CallsignAt(utc) == SecondMs + (IF draws[utc % 2] = "first" THEN 0
                               ELSE Wrap - CompletionGuard - AirTime)

Due(v, sent, plan, payload) ==
  /\ plan.txAllowed /\ sent[payload] # v.utc
  /\ IF payload = "position"
     THEN v.lag <= SecondMs \div 2 /\ plan.dwell = SlotOf(v.utc)
     ELSE v.utc % CallsignPeriod = CallsignSecond /\ plan.dwell = "slot1"
BurstAt(v, origin, payload) ==
  InstantUs(origin, IF payload = "position" THEN PositionAt(v.utc) ELSE CallsignAt(v.utc))

\* owes: a burst the dwell does not carry and there is still time for.
Owes(v, x, dwell, plan, origin) ==
  \E p \in Payloads : /\ ~Carries(dwell, p) /\ Due(v, x.sent, plan, p)
                      /\ BurstAt(v, origin, p) > now

-----------------------------------------------------------------------------
(* Arming a dwell.  x is the service's state with the executor's two plans *)
(* in it, y the dwell being armed.                                         *)

\* fly: a dwell whose bursts are not settled yet is kept, the one before it
\* given up.
Flown(x, dwell) ==
  [x EXCEPT !.retired = IF CarriesAny(x.current) THEN x.current ELSE @,
            !.current = dwell]
Promoted(x) == [Flown(x, x.next) EXCEPT !.ahead = FALSE]

\* One payload of arm_dwell's loop.
WithBurst(v, x, plan, y, payload) ==
  LET at == BurstAt(v, y.origin, payload)
      burst == [at |-> at, payload |-> payload, utc |-> y.dwell.utc]
      armed == Arm(y.rf, [ch |-> plan.dwell, start |-> y.start, end |-> y.end,
                          bursts |-> <<burst>>])
  IN IF y.refused \/ Carries(y.dwell, payload) \/ ~Due(v, x.sent, plan, payload)
        \/ at < GreaterOf(y.start, now) \/ at >= y.end
     THEN y
     ELSE IF armed.ok
     THEN [y EXCEPT !.rf = armed.rf, !.on = TRUE, !.carried = TRUE, !.dwell.at[payload] = at]
     ELSE [y EXCEPT !.refused = ~y.on]

Bare(plan, y) == [ch |-> plan.dwell, start |-> y.start, end |-> y.end, bursts |-> <<>>]

\* The dwell as its first arming opens it: the current one begins now.
Opened(v, plan, origin, role) ==
  LET opens == InstantUs(origin, plan.start)
      end == InstantUs(origin, plan.end)
      start == IF role = "next" THEN opens ELSE GreaterOf(opens, now)
  IN [ch |-> plan.dwell, from |-> start, until |-> end, utc |-> v.utc,
      at |-> [p \in Payloads |-> 0]]

\* A dwell that owes nothing is armed all the same, to listen.
WithBare(plan, y) ==
  LET bare == Arm(y.rf, Bare(plan, y))
  IN IF y.on \/ y.refused THEN y ELSE [y EXCEPT !.rf = bare.rf, !.refused = ~bare.ok]

\* What the service keeps of a dwell that was armed, or told anew.
Kept(x, y, role) ==
  LET told == [x EXCEPT !.rf = y.rf]
  IN IF y.end <= now \/ y.refused \/ (y.again /\ ~y.carried) THEN told
     ELSE IF role = "next" THEN [told EXCEPT !.next = y.dwell, !.ahead = TRUE]
     ELSE IF y.again THEN [told EXCEPT !.current = y.dwell]
     ELSE Flown(told, y.dwell)

ArmDwell(v, x, plan, origin, role) ==
  LET was == IF role = "next" THEN x.next ELSE x.current
      opened == Opened(v, plan, origin, role)
      again == /\ role = "current" \/ x.ahead
               /\ was.ch = opened.ch /\ was.until = opened.until
      unarmed == [dwell |-> IF again THEN was ELSE opened, rf |-> x.rf, origin |-> origin,
                  start |-> opened.from, end |-> opened.until, again |-> again,
                  on |-> again, carried |-> FALSE, refused |-> FALSE]
      burdened == WithBurst(v, x, plan, WithBurst(v, x, plan, unarmed, "position"), "callsign")
  IN Kept(x, WithBare(plan, burdened), role)

-----------------------------------------------------------------------------
(* What became of what was sent: collect_outcome.                          *)

Dropped(dwell, payload) == [dwell EXCEPT !.at[payload] = 0]
Emptied(dwell) == [dwell EXCEPT !.at = [p \in Payloads |-> 0]]

\* Armed::first.
FirstCarried(dwell) ==
  IF ~Carries(dwell, "callsign") THEN "position"
  ELSE IF ~Carries(dwell, "position") THEN "callsign"
  ELSE IF dwell.at["position"] <= dwell.at["callsign"] THEN "position" ELSE "callsign"

\* spend: the second the burst was armed for is the one it spends.
\* Mutant of SpentIn: the second of the pass that hears of it.
SpentInThisPass(x, dwell) == x.utc
SpentIn(x, dwell) == dwell.utc

Spend(x, which, payload) ==
  [x EXCEPT !.sent[payload] = SpentIn(x, x[which]), ![which] = Dropped(@, payload)]

\* A TxDone belongs to the dwell that carries its instant; one that nothing
\* claims spends what the dwell in flight carries.
Credit(x, at) ==
  LET Claims(which, p) == /\ which = "next" => x.ahead
                          /\ x[which].at[p] = at
      asked == <<<<"current", "position">>, <<"current", "callsign">>,
                 <<"retired", "position">>, <<"retired", "callsign">>,
                 <<"next", "position">>, <<"next", "callsign">>>>
      claiming == {i \in DOMAIN asked : Claims(asked[i][1], asked[i][2])}
      first == asked[CHOOSE i \in claiming : \A j \in claiming : i <= j]
  IN IF claiming # {} THEN Spend(x, first[1], first[2])
     ELSE IF CarriesAny(x.current) THEN Spend(x, "current", FirstCarried(x.current))
     ELSE [x EXCEPT !.sent.position = SpentIn(x, x.current)]

\* A pass so late that the queued dwell flew and its burst went out before it.
Credited(x, at) ==
  LET late == /\ ~CarriesAny(x.current) /\ x.ahead /\ CarriesAny(x.next)
              /\ now >= x.next.from
  IN Credit(IF late THEN Promoted(x) ELSE x, at)

Expired(dwell) == IF now >= dwell.until + OutcomeAge THEN Emptied(dwell) ELSE dwell
Collected(x) ==
  LET told[n \in 0 .. Len(done)] == IF n = 0 THEN x ELSE Credited(told[n - 1], done[n])
  IN [told[Len(done)] EXCEPT !.current = Expired(@), !.retired = Expired(@)]

-----------------------------------------------------------------------------
(* RadioService::tick.                                                     *)

Holds(dwell, plan) == dwell.ch = plan.dwell

QueueNext(v, x) ==
  LET up == Upcoming(v)
  IN IF x.current.ch = "none" \/ (x.ahead /\ ~Owes(v, x, x.next, up.plan, up.origin)) THEN x
     ELSE ArmDwell(v, x, up.plan, up.origin, "next")

\* The queued dwell has begun.
Advanced(x) == IF x.ahead /\ now >= x.next.from THEN Promoted(x) ELSE x

Ticked(v, x) ==
  LET gone == x.current.ch # "none"
      cut == [x EXCEPT !.ahead = FALSE, !.aborted = gone,
                       !.rf = IF gone THEN Aborted(@) ELSE @]
      armed == IF ~Holds(x.current, v.plan) THEN ArmDwell(v, cut, v.plan, v.origin, "current")
               ELSE IF Owes(v, x, x.current, v.plan, v.origin)
               THEN ArmDwell(v, x, v.plan, v.origin, "current")
               ELSE x
  IN IF x.ahead /\ Holds(x.next, v.plan) THEN x ELSE QueueNext(v, armed)

-----------------------------------------------------------------------------
(* The clock.                                                              *)

\* Pps::locked and carry_utc_to_edge.
OnItsEdge(c) ==
  LET seconds == IF c.utc = 0 \/ latched <= c.utcEdge THEN 0
                 ELSE (latched - c.utcEdge + SecondMs \div 2) \div SecondMs
  IN [locked |-> now - latched < Holdover, edge |-> latched,
      utc |-> c.utc + seconds,
      utcEdge |-> IF seconds = 0 THEN c.utcEdge ELSE latched]

\* solution_instant: the latched edge, or the receiver's own estimate of the
\* second it solved when the edge is over a second old.
SolvedAt(c) == IF c.locked /\ now - c.edge < SecondMs THEN c.edge ELSE TopOf(UtcAt(now))
Anchored(c, at) ==
  IF c.locked /\ at = c.edge THEN [c EXCEPT !.utc = UtcAt(now), !.utcEdge = c.edge] ELSE c

-----------------------------------------------------------------------------
\* The instants of the bursts the executor says it sent, in its order.
SentOf(told) ==
  LET sent[n \in 0 .. Len(told)] ==
        IF n = 0 THEN <<>>
        ELSE IF told[n].type = "TxDone" THEN Append(sent[n - 1], told[n].at) ELSE sent[n - 1]
  IN sent[Len(told)]

\* One pass of the loop, with the sentence of this second or without.  The
\* executor is above it and has done what was due.
Pass(sentence) ==
  /\ Settled /\ now > passed
  /\ sentence => heard = "no"
  /\ \E carried \in {OnItsEdge(clock)} :
     \E c \in {IF sentence THEN Anchored(carried, SolvedAt(carried)) ELSE carried},
        fix \in {IF sentence THEN SolvedAt(carried) ELSE fixAt} :
     \E v \in {View(c, fix)} :
     \E x \in {Ticked(v, Advanced(Collected(
                 [current |-> radio.current, next |-> radio.next, ahead |-> radio.ahead,
                  retired |-> radio.retired, sent |-> radio.sent,
                  rf |-> Held, aborted |-> FALSE, utc |-> v.utc])))} :
        /\ clock' = c /\ fixAt' = fix
        /\ radio' = [current |-> x.current, next |-> x.next, ahead |-> x.ahead,
                     retired |-> x.retired, sent |-> x.sent]
        /\ queued' = x.rf.queued /\ flying' = x.rf.flying
        /\ thread' = IF x.aborted /\ thread.step # "idle" THEN [thread EXCEPT !.abort = TRUE]
                     ELSE thread
        /\ jumped' = IF PhaseAt(c, now) # PhaseAt(clock, now) THEN now ELSE jumped
  \* Traffic's turn: the bursts told are credited on the next pass.
  /\ done' = SentOf(reports)
  /\ reports' = <<>>
  /\ passed' = now
  /\ heard' = IF ~sentence THEN heard
              ELSE IF now < TopOf(UtcAt(now)) + PositionAt(UtcAt(now)) THEN "due" ELSE "late"
  /\ UNCHANGED <<now, latched, draws, lost, aired, faulted>>

\* Time passes once the executor has done what is due, and no pass is late.
Edge(t) == t % SecondMs = 0
Tick ==
  /\ Settled /\ now < Horizon /\ now < passed + MaxGap
  /\ now' = now + 1
  /\ heard' = IF Edge(now + 1) THEN "no" ELSE heard
  /\ \/ Edge(now + 1) /\ latched' = now + 1 /\ UNCHANGED lost
     \/ Edge(now + 1) /\ lost < LostEdges /\ lost' = lost + 1 /\ UNCHANGED latched
     \/ ~Edge(now + 1) /\ UNCHANGED <<latched, lost>>
  /\ UNCHANGED <<draws, rfVars, serviceVars>>

Flies == Executor /\ UNCHANGED <<now, latched, draws, lost, heard, serviceVars>>

Init ==
  /\ now = SecondMs /\ latched = SecondMs /\ passed = SecondMs - 1 /\ lost = 0
  /\ clock = [locked |-> TRUE, edge |-> SecondMs, utc |-> 2, utcEdge |-> SecondMs]
  /\ fixAt = 0
  /\ radio = [current |-> Nowhere, next |-> Nowhere, ahead |-> FALSE, retired |-> Nowhere,
              sent |-> [p \in Payloads |-> 0]]
  /\ done = <<>>
  /\ draws \in [{0, 1} -> {"first", "last"}]
  /\ heard = "no" /\ jumped = SecondMs
  /\ RfInit

Next == (\E sentence \in BOOLEAN : Pass(sentence)) \/ Flies \/ Tick

RadioSpec == Init /\ [][Next]_radioVars

-----------------------------------------------------------------------------
(* Properties.                                                             *)

\* Every edge of the seconds up to this one has been latched.
NoneLost == lost = 0

\* A burst leaves on the channel the map gives its instant in the receiver's own
\* second, with room for it before that channel's dwell closes, in a dwell that
\* outlasts it whenever that dwell ends where the map ends one; a position says
\* the second it really aired in.  An edge lost leaves the second of the last
\* one, and is excepted.
\* Code: RadioService::arm_dwell, Transmitter::attempt, ClockState::slot_utc_s.
AirsWhereItSays ==
  \A a \in aired :
    LET phase == a.at % SecondMs
        within == IF InTail(phase) THEN phase + SecondMs ELSE phase
        second == UtcAt(a.at) - (IF a.payload = "callsign" THEN 1 ELSE 0)
    IN /\ a.ch = DwellAt(phase) /\ within + AirTime <= DwellEnd(a.ch)
       /\ (a.end - DwellEnd(a.ch)) % SecondMs = 0 => a.at + AirTime <= a.end
       /\ NoneLost => a.utc = second

\* A position burst in every second: its edge and its sentence in hand before
\* the instant drawn, and a part that has not failed, it aired by then.
\* Code: Transmitter::attempt, RadioService::owes and arm_dwell.
SpeaksInEverySecond ==
  LET utc == UtcAt(now)
  IN heard = "due" /\ NoneLost /\ faulted = 0
     /\ Settled /\ now >= TopOf(utc) + PositionAt(utc) =>
       \E a \in aired : a.payload = "position" /\ a.utc = utc

\* The second the transmitter remembers speaking in is one it spoke in.
CreditIsTrue ==
  \A p \in Payloads :
    radio.sent[p] # 0 => \E a \in aired : a.payload = p /\ a.utc = radio.sent[p]

\* A phase that jumps leaves the dwell in flight where the old one put it: until
\* it ends the executor is late for the next, and the one queued behind it can be
\* replaced before it flew.  A second and a dwell later nothing of it is left.
LongestDwell == Slot1End - Slot0End
SettledAt == jumped + SecondMs + LongestDwell + MaxGap

\* Once settled a burst keys at its instant and ends inside its dwell.
KeysOnTime ==
  \A a \in aired :
    a.keyed >= SettledAt => a.keyed = a.at /\ a.keyed + AirTime <= a.end

\* The executor is never between dwells: once settled it listens where the map
\* says and keys when it was told, whatever the passes did, but for a dwell
\* after the part failed.
\* Code: RadioService::tick and queue_next, the executor's arm and run.
ListensThrough ==
  /\ KeysOnTime
  /\ Settled /\ now >= SettledAt /\ (faulted # 0 => now >= faulted + LongestDwell)
     => /\ thread.step = "dwelling"
        /\ flying.ch = DwellAt(PhaseAt(clock, now))
===============================================================================
