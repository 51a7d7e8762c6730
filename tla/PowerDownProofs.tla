--------------------------- MODULE PowerDownProofs ---------------------------
(***************************************************************************)
(* What PowerDown promises, proved for every ladder, hold, park and bound  *)
(* on the fingers and the boots.                                           *)
(*                                                                         *)
(* Each promise relates a retained byte or a reason to what was really     *)
(* painted or pressed several passes, and often a boot, before.  The       *)
(* invariant ties the byte to the panel's own word, the panel's word to    *)
(* the glass, the retained fact to the history, and the sequencer's hold   *)
(* to what the fingers have done since the boot.                           *)
(***************************************************************************)
EXTENDS PowerDown, TLAPS

Paths == {"unpowered", "off", "reboots", "run", "leave", "wordmark", "flat"}
Phases == {"running", "parking", "awaitRelease", "off"}
Frames == {"none", "installing", "recovery", "blank", "flat", "low", "wordmark"}
ParkSteps == {"none", "wipe", "frame", "sleep"}
Said == Words \cup {"none"}

Sequencers ==
  [phase : Phases, reason : Reasons \cup {"none"}, since : 0 .. ParkPasses,
   release : NeverUp .. ReleasePasses, hold : NeverUp .. HoldPasses,
   armed : BOOLEAN, stowing : BOOLEAN, padArmed : BOOLEAN]
Panels == [step : ParkSteps, frame : Frames, busy : BOOLEAN, said : Said]
Seens ==
  [up : BOOLEAN, down : 0 .. HoldPasses + 1, padUp : BOOLEAN, padDown : BOOLEAN]

Shape ==
  /\ warned \in BOOLEAN /\ ranDry \in BOOLEAN
  /\ fingers \in [button : BOOLEAN, pad : BOOLEAN, touches : 0 .. MaxTouches]
  /\ boot \in [path : Paths, flat : BOOLEAN, dark : BOOLEAN, asked : BOOLEAN,
               since : 0 .. RefusalPasses]
  /\ count \in 0 .. MaxBoots
  /\ shutdown \in Sequencers
  /\ acted \in Phases
  /\ screen \in Panels
  /\ retained \in [glass : Said, dark : BOOLEAN]
  /\ seen \in Seens

\* A panel that has not been parked yet says nothing, and what it says it
\* painted.
PanelTells ==
  /\ screen.step \in {"wipe", "frame"} => screen.said = "none"
  /\ screen.said \in Words => glass = screen.said /\ screen.frame = screen.said

\* A unit that runs has parked nothing before it goes down.
RunsUnparked ==
  boot.path = "run" =>
    /\ acted = shutdown.phase
    /\ ~GoingDown => screen.step = "none" /\ screen.said = "none" /\ screen.frame = "none"

\* A refused boot parks its frame in its first pass or never.
RefusalParks ==
  Refusing =>
    /\ ~GoingDown
    /\ boot.path = "leave" \/ ~boot.asked => screen = Unparked
    /\ boot.path # "leave" /\ boot.asked =>
         screen.step \in {"none", "sleep"} /\ screen.frame = boot.path /\ glass = boot.path

\* A flat cell's refusal paints FLAT or leaves a FLAT that is there.
RefusedFlat ==
  Refusing /\ boot.flat =>
    boot.path = "flat" \/ (boot.path = "leave" /\ retained.glass = "flat")

\* The fact of going dark for the cell is kept in the byte, and a FLAT the byte
\* remembers is one that fact stands behind until the boot that runs has drawn.
DryKept ==
  /\ retained.dark = ranDry
  /\ retained.glass = "flat" => ranDry \/ (boot.path = "run" /\ ~boot.asked)
  /\ boot.path = "run" /\ screen.frame = "flat" => ranDry
  /\ boot.path = "flat" /\ boot.asked => ranDry

\* A sequencer has counted no more of a press than the fingers have made.
PressOf(s, saw) ==
  /\ s.armed => saw.up
  /\ s.padArmed => saw.padUp
  /\ s.hold = NeverUp => saw.down = 0
  /\ s.hold # NeverUp => saw.down > s.hold
  /\ s.hold # NeverUp /\ s.stowing => saw.padUp /\ saw.padDown

PressCounted == ~GoingDown => shutdown.reason = "none" /\ PressOf(shutdown, seen)

PowerInv ==
  /\ Shape /\ PanelTells /\ RunsUnparked /\ RefusalParks /\ RefusedFlat /\ DryKept
  /\ PressCounted /\ GlassRemembered /\ LongPressIsMeant

-----------------------------------------------------------------------------
(* The sequencer.                                                          *)

LEMMA Times ==
  /\ HoldPasses \in Nat /\ HoldPasses > 0 /\ ParkPasses \in Nat /\ ParkPasses > 0
  /\ ReleasePasses \in Nat /\ ReleasePasses > 0 /\ RefusalPasses \in Nat /\ RefusalPasses > 0
  /\ MaxTouches \in Nat /\ MaxBoots \in Nat /\ NeverUp = -1
BY TimesAssumption DEF TimesAssumption, NeverUp

LEMMA LengthenType ==
  ASSUME NEW bound \in Nat, NEW age \in NeverUp .. bound
  PROVE  /\ Lengthen(age, bound) \in 0 .. bound
         /\ Lengthen(age, bound) = age + 1 \/ (Lengthen(age, bound) = age /\ age = bound)
BY DEF Lengthen, NeverUp

LEMMA RequestedType ==
  ASSUME NEW s \in Sequencers, NEW reason \in Reasons
  PROVE  /\ Requested(s, reason) \in Sequencers
         /\ Requested(s, reason).phase # "running"
         /\ s.phase # "running" => Requested(s, reason) = s
         /\ s.phase = "running" =>
              /\ Requested(s, reason).phase = "parking"
              /\ Requested(s, reason).reason = reason
<1>1. CASE s.phase # "running"
  BY <1>1 DEF Requested
<1>2. CASE s.phase = "running"
  <2>1. 0 \in 0 .. ParkPasses /\ NeverUp \in NeverUp .. ReleasePasses
    BY Times
  <2> QED  BY <1>2, <2>1 DEF Requested, Sequencers, Phases
<1> QED  BY <1>1, <1>2

\* Held(), field by field.
HeldTells(s, down, pad, r) ==
  /\ r \in Sequencers
  /\ r.armed <=> s.armed \/ ~down
  /\ r.padArmed <=> s.padArmed \/ ~pad
  /\ ~down => r.hold = NeverUp /\ r.phase = "running" /\ r.reason = "none"
  /\ down /\ s.hold = NeverUp =>
       /\ r.hold = 0 /\ r.phase = "running" /\ r.reason = "none"
       /\ r.stowing <=> (s.padArmed \/ ~pad) /\ pad
  /\ down /\ s.hold # NeverUp =>
       /\ r.hold = Lengthen(s.hold, HoldPasses)
       /\ r.stowing <=> s.stowing /\ pad
       /\ \/ r.phase = "running" /\ r.reason = "none"
          \/ /\ r.phase = "parking" /\ r.hold = HoldPasses /\ s.armed
             /\ r.reason = (IF r.stowing THEN "stow" ELSE "longPress")

LEMMA HeldFields ==
  ASSUME NEW s \in Sequencers, s.phase = "running", s.reason = "none",
         NEW down \in BOOLEAN, NEW pad \in BOOLEAN, NEW r, r = Held(s, down, pad)
  PROVE  HeldTells(s, down, pad, r)
<1>1. PICK v \in BOOLEAN : v <=> s.padArmed \/ ~pad
  OBVIOUS
<1>2. PICK armed \in Sequencers : armed = [s EXCEPT !.padArmed = @ \/ ~pad]
  <2>1. [s EXCEPT !.padArmed = @ \/ ~pad] \in Sequencers
    BY DEF Sequencers
  <2> QED  BY <2>1
<1>3. /\ armed.phase = "running" /\ armed.reason = "none" /\ armed.hold = s.hold
      /\ armed.armed = s.armed /\ armed.stowing = s.stowing
      /\ armed.since = s.since /\ armed.release = s.release
  BY <1>2 DEF Sequencers
<1>4. armed.padArmed <=> s.padArmed \/ ~pad
  BY <1>2, Zenon DEF Sequencers
<1>5. CASE ~down
  <2>1. r = [armed EXCEPT !.hold = NeverUp, !.armed = TRUE]
    BY <1>2, <1>5 DEF Held
  <2>2. NeverUp \in NeverUp .. HoldPasses
    BY Times
  <2> QED  BY <1>3, <1>4, <1>5, <2>1, <2>2 DEF Sequencers, HeldTells
<1>6. CASE down /\ s.hold = NeverUp
  <2>1. r = [armed EXCEPT !.hold = 0, !.stowing = armed.padArmed /\ pad]
    BY <1>2, <1>6 DEF Held
  <2>2. 0 \in NeverUp .. HoldPasses
    BY Times
  <2>3. PICK b \in BOOLEAN : b = (armed.padArmed /\ pad)
    OBVIOUS
  <2>4. r = [armed EXCEPT !.hold = 0, !.stowing = b]
    BY <2>1, <2>3
  <2>5. /\ r \in Sequencers /\ r.hold = 0 /\ r.stowing = b /\ r.phase = "running"
        /\ r.reason = "none" /\ r.armed = s.armed /\ r.padArmed = armed.padArmed
    BY <1>3, <2>2, <2>4 DEF Sequencers
  <2> QED  BY <1>4, <1>6, <2>3, <2>5 DEF HeldTells
<1>7. CASE down /\ s.hold # NeverUp
  <2>1. PICK longer : longer = [armed EXCEPT !.hold = Lengthen(@, HoldPasses), !.stowing = @ /\ pad]
    OBVIOUS
  <2>2. r = IF longer.armed /\ longer.hold = HoldPasses
            THEN Requested(longer, IF longer.stowing THEN "stow" ELSE "longPress")
            ELSE longer
    BY <1>2, <1>7, <2>1 DEF Held
  <2>3. PICK b \in BOOLEAN : b = (armed.stowing /\ pad)
    OBVIOUS
  <2>4. longer = [armed EXCEPT !.hold = Lengthen(s.hold, HoldPasses), !.stowing = b]
    BY <1>3, <2>1, <2>3
  <2>5. Lengthen(s.hold, HoldPasses) \in NeverUp .. HoldPasses
    BY LengthenType, Times DEF Sequencers
  <2>6. /\ longer \in Sequencers /\ longer.hold = Lengthen(s.hold, HoldPasses)
        /\ longer.stowing = b /\ longer.phase = "running" /\ longer.reason = "none"
        /\ longer.armed = s.armed /\ longer.padArmed = armed.padArmed
    BY <1>3, <2>4, <2>5 DEF Sequencers
  <2>7. CASE ~(longer.armed /\ longer.hold = HoldPasses)
    BY <1>3, <1>4, <1>7, <2>2, <2>3, <2>6, <2>7 DEF HeldTells
  <2>8. CASE longer.armed /\ longer.hold = HoldPasses
    <3>1. PICK reason \in {"stow", "longPress"} :
            reason = (IF longer.stowing THEN "stow" ELSE "longPress")
      OBVIOUS
    <3>2. r = [longer EXCEPT !.phase = "parking", !.reason = reason, !.since = 0,
                             !.release = NeverUp]
      BY <2>2, <2>6, <2>8, <3>1 DEF Requested
    <3>3. /\ 0 \in 0 .. ParkPasses /\ NeverUp \in NeverUp .. ReleasePasses
          /\ reason \in Reasons
      BY Times DEF Reasons
    <3>4. /\ r \in Sequencers /\ r.phase = "parking" /\ r.reason = reason
          /\ r.hold = longer.hold /\ r.armed = longer.armed /\ r.stowing = longer.stowing
          /\ r.padArmed = longer.padArmed
      BY <2>6, <3>2, <3>3 DEF Sequencers, Phases
    <3> QED  BY <1>3, <1>4, <1>7, <2>3, <2>6, <2>8, <3>1, <3>4 DEF HeldTells
  <2> QED  BY <2>7, <2>8
<1> QED  BY <1>5, <1>6, <1>7

LEMMA AskedFields ==
  ASSUME NEW s \in Sequencers, s.phase = "running", NEW level, NEW asks, NEW a,
         a = Asked(s, level, asks)
  PROVE  /\ a \in Sequencers
         /\ a = s \/ (a.phase # "running"
                      /\ a.reason \in {"lowBattery", "link", "install", "recovery"})
<1> DEFINE Off == {"lowBattery", "link", "install", "recovery"}
           Fine(x) == x \in Sequencers /\ (x = s \/ (x.phase # "running" /\ x.reason \in Off))
<1>1. ASSUME NEW x, Fine(x), NEW reason \in Off
      PROVE  Fine(Requested(x, reason))
  BY <1>1, RequestedType DEF Reasons
<1>2. Fine(s)
  OBVIOUS
<1> DEFINE low == IF level = "flat" THEN Requested(s, "lowBattery") ELSE s
           link == IF "link" \in asks THEN Requested(low, "link") ELSE low
           install == IF "install" \in asks THEN Requested(link, "install") ELSE link
<1> HIDE DEF Fine
<1>3. Fine(low)
  BY <1>1, <1>2
<1>4. Fine(link)
  <2> HIDE DEF low
  <2> QED  BY <1>1, <1>3
<1>5. Fine(install)
  <2> HIDE DEF link
  <2> QED  BY <1>1, <1>4
<1>6. a = IF "recovery" \in asks THEN Requested(install, "recovery") ELSE install
  BY DEF Asked
<1>7. Fine(a)
  <2> HIDE DEF install
  <2> QED  BY <1>1, <1>5, <1>6
<1> QED  BY <1>7 DEF Fine

\* Past the running phase nothing but the phase, its age and the release moves.
LEMMA TickedFields ==
  ASSUME NEW s \in Sequencers, s.phase # "running", NEW down \in BOOLEAN, NEW pad,
         NEW t, t = Ticked(s, down, pad)
  PROVE  t \in Sequencers /\ t.phase # "running" /\ t.reason = s.reason
<1>1. CASE s.phase = "parking"
  <2>1. t = IF s.since < ParkPasses THEN [s EXCEPT !.since = @ + 1]
            ELSE [s EXCEPT !.phase = "awaitRelease", !.since = 0]
    BY <1>1 DEF Ticked
  <2>2. s.since \in 0 .. ParkPasses /\ 0 \in 0 .. ParkPasses
        /\ (s.since < ParkPasses => s.since + 1 \in 0 .. ParkPasses)
    BY Times DEF Sequencers
  <2> QED  BY <1>1, <2>1, <2>2 DEF Sequencers, Phases
<1>2. CASE s.phase = "awaitRelease"
  <2>1. PICK r : r = Released(s.release, down)
    OBVIOUS
  <2>2. r \in NeverUp .. ReleasePasses
    <3>1. 0 \in NeverUp .. ReleasePasses /\ NeverUp \in NeverUp .. ReleasePasses
      BY Times
    <3>2. s.release \in NeverUp .. ReleasePasses
      BY DEF Sequencers
    <3>3. Lengthen(s.release, ReleasePasses) \in NeverUp .. ReleasePasses
      BY <3>2, LengthenType, Times
    <3> QED  BY <2>1, <3>1, <3>3 DEF Released
  <2>3. t = [s EXCEPT !.release = r, !.phase = IF r = ReleasePasses THEN "off" ELSE @]
    BY <1>2, <2>1 DEF Ticked
  <2> QED  BY <1>2, <2>2, <2>3 DEF Sequencers, Phases
<1>3. CASE s.phase = "off"
  BY <1>3 DEF Ticked
<1>4. s.phase \in Phases
  BY DEF Sequencers
<1> QED  BY <1>1, <1>2, <1>3, <1>4 DEF Phases

\* What the fingers have done, and what one more pass adds to it.
Sees(saw, sees, down, pad) ==
  /\ sees \in Seens
  /\ sees.up <=> saw.up \/ ~down
  /\ sees.padUp <=> saw.padUp \/ ~pad
  /\ ~down => sees.down = 0
  /\ down =>
       /\ sees.down = saw.down + 1 \/ (sees.down = saw.down /\ saw.down = HoldPasses + 1)
       /\ sees.padDown <=> pad /\ (saw.padDown \/ saw.down = 0)

LEMMA ObservedSees ==
  ASSUME Shape
  PROVE  Sees(seen, Observed, fingers.button, fingers.pad)
<1> DEFINE o == Observed
<1>1. /\ fingers.button \in BOOLEAN /\ fingers.pad \in BOOLEAN /\ seen.down \in 0 .. HoldPasses + 1
      /\ HoldPasses + 1 \in Nat /\ seen.up \in BOOLEAN /\ seen.padUp \in BOOLEAN
      /\ seen.padDown \in BOOLEAN
  BY Times DEF Shape, Seens
<1>2. PICK up \in BOOLEAN, padUp \in BOOLEAN, padDown \in BOOLEAN :
        /\ up = (seen.up \/ ~fingers.button)
        /\ padUp = (seen.padUp \/ ~fingers.pad)
        /\ padDown = (fingers.button /\ fingers.pad /\ (seen.padDown \/ seen.down = 0))
  OBVIOUS
<1>3. PICK down : down = IF fingers.button THEN Lengthen(seen.down, HoldPasses + 1) ELSE 0
  OBVIOUS
<1>4. down \in 0 .. HoldPasses + 1
  BY <1>1, <1>3, LengthenType, Times
<1>5. o = [up |-> up, down |-> down, padUp |-> padUp, padDown |-> padDown]
  BY <1>2, <1>3 DEF Observed
<1>6. fingers.button => down = seen.down + 1 \/ (down = seen.down /\ seen.down = HoldPasses + 1)
  BY <1>1, <1>3, LengthenType, Times
<1>7. /\ o \in Seens
      /\ o.up = up /\ o.down = down /\ o.padUp = padUp /\ o.padDown = padDown
  BY <1>4, <1>5 DEF Seens
<1>8. ~fingers.button => o.down = 0
  BY <1>3, <1>7
<1> HIDE DEF o
<1>9. Sees(seen, o, fingers.button, fingers.pad)
  BY <1>2, <1>6, <1>7, <1>8 DEF Sees
<1> QED  BY <1>9 DEF o

\* What the reason of a switch-off says the fingers did.
Meant(s, saw) ==
  /\ s.reason \in {"longPress", "stow"} => saw.up /\ saw.down > HoldPasses
  /\ s.reason = "stow" => saw.padUp /\ saw.padDown

\* A pass counts a press no further than the finger has held it, and asks for
\* the shutdown a whole one means.
LEMMA HeldMeans ==
  ASSUME NEW s \in Sequencers, s.phase = "running", s.reason = "none",
         NEW saw \in Seens, PressOf(s, saw),
         NEW down \in BOOLEAN, NEW pad \in BOOLEAN,
         NEW sees, Sees(saw, sees, down, pad), NEW r, r = Held(s, down, pad)
  PROVE  /\ r \in Sequencers
         /\ r.phase = "running" => r.reason = "none" /\ PressOf(r, sees)
         /\ Meant(r, sees)
<1>0. HeldTells(s, down, pad, r)
  BY HeldFields
<1>1. /\ s.hold \in NeverUp .. HoldPasses /\ saw.down \in 0 .. HoldPasses + 1
      /\ NeverUp \in Int /\ NeverUp = -1
  BY Times DEF Sequencers, Seens
<1>2. r \in Sequencers /\ (r.armed => sees.up) /\ (r.padArmed => sees.padUp)
  BY <1>0, Zenon DEF HeldTells, Sees, PressOf
<1>3. CASE ~down
  <2>1. r.hold = NeverUp /\ r.phase = "running" /\ r.reason = "none"
    BY <1>0, <1>3, Zenon DEF HeldTells
  <2>2. sees.down = 0
    BY <1>3 DEF Sees
  <2> QED  BY <1>2, <2>1, <2>2 DEF PressOf, Meant
<1>4. CASE down /\ s.hold = NeverUp
  <2>1. /\ r.hold = 0 /\ r.phase = "running" /\ r.reason = "none"
        /\ r.stowing <=> (s.padArmed \/ ~pad) /\ pad
    BY <1>0, <1>4, Zenon DEF HeldTells
  <2>2. saw.down = 0
    BY <1>4 DEF PressOf
  <2>3. sees.down = 1
    BY <1>4, <2>2, Times DEF Sees
  <2>4. r.stowing => sees.padUp /\ sees.padDown
    BY <1>4, <2>1, <2>2, Zenon DEF Sees, PressOf
  <2>5. r.hold # NeverUp /\ sees.down > r.hold
    BY <1>1, <2>1, <2>3
  <2> QED  BY <1>2, <2>1, <2>4, <2>5 DEF PressOf, Meant
<1>5. CASE down /\ s.hold # NeverUp
  <2>1. /\ r.hold = Lengthen(s.hold, HoldPasses)
        /\ r.stowing <=> s.stowing /\ pad
        /\ \/ r.phase = "running" /\ r.reason = "none"
           \/ /\ r.phase = "parking" /\ r.hold = HoldPasses /\ s.armed
              /\ r.reason = (IF r.stowing THEN "stow" ELSE "longPress")
    BY <1>0, <1>5, Zenon DEF HeldTells
  <2>2. /\ r.hold \in 0 .. HoldPasses
        /\ r.hold = s.hold + 1 \/ (r.hold = s.hold /\ s.hold = HoldPasses)
    BY <1>1, <2>1, LengthenType, Times
  <2>3. saw.down > s.hold /\ (sees.down = saw.down + 1 \/ (sees.down = saw.down /\ saw.down = HoldPasses + 1))
    BY <1>5 DEF Sees, PressOf
  <2>4. r.hold # NeverUp /\ sees.down > r.hold
    BY <1>1, <2>2, <2>3, Times
  <2>5. r.stowing => sees.padUp /\ sees.padDown
    BY <1>5, <2>1, Zenon DEF Sees, PressOf
  <2>6. PressOf(r, sees)
    BY <1>2, <2>4, <2>5 DEF PressOf
  <2>7. r.phase = "parking" => sees.up /\ sees.down > HoldPasses
    BY <1>2, <1>5, <2>1, <2>4, Zenon DEF Sees, PressOf
  <2>8. r.reason = "stow" => r.stowing
    BY <2>1
  <2>9. r.phase = "running" => r.reason = "none"
    BY <2>1
  <2>10. r.reason \in {"longPress", "stow"} => r.phase = "parking"
    BY <2>1
  <2> QED  BY <1>2, <2>5, <2>6, <2>7, <2>8, <2>9, <2>10 DEF Meant
<1> QED  BY <1>3, <1>4, <1>5

LEMMA PassPresses ==
  ASSUME Shape, PressCounted, LongPressIsMeant, NEW level, NEW asks,
         shutdown' = Ticked(IF GoingDown THEN shutdown ELSE Asked(shutdown, level, asks),
                            fingers.button, fingers.pad),
         seen' = IF GoingDown THEN seen ELSE Observed
  PROVE  /\ shutdown' \in Sequencers /\ seen' \in Seens
         /\ PressCounted' /\ LongPressIsMeant'
         /\ GoingDown => GoingDown'
<1>1. /\ shutdown \in Sequencers /\ fingers.button \in BOOLEAN /\ fingers.pad \in BOOLEAN
      /\ seen \in Seens
  BY DEF Shape
<1>2. CASE GoingDown
  <2>1. shutdown' = Ticked(shutdown, fingers.button, fingers.pad) /\ seen' = seen
    BY <1>2
  <2>2. shutdown' \in Sequencers /\ shutdown'.phase # "running" /\ shutdown'.reason = shutdown.reason
    BY <1>1, <1>2, <2>1, TickedFields DEF GoingDown
  <2> QED  BY <1>1, <2>1, <2>2 DEF PressCounted, LongPressIsMeant, GoingDown
<1>3. CASE ~GoingDown
  <2>1. PICK a : a = Asked(shutdown, level, asks)
    OBVIOUS
  <2>2. /\ a \in Sequencers
        /\ a = shutdown \/ (a.phase # "running"
                            /\ a.reason \in {"lowBattery", "link", "install", "recovery"})
    BY <1>1, <1>3, <2>1, AskedFields DEF GoingDown
  <2>3. shutdown' = Ticked(a, fingers.button, fingers.pad) /\ seen' = Observed
    BY <1>3, <2>1
  <2>4. Sees(seen, seen', fingers.button, fingers.pad)
    BY <2>3, ObservedSees
  <2>5. CASE a.phase # "running"
    <3>1. shutdown' \in Sequencers /\ shutdown'.phase # "running" /\ shutdown'.reason = a.reason
      BY <1>1, <2>2, <2>3, <2>5, TickedFields
    <3>2. a.reason \in {"lowBattery", "link", "install", "recovery"}
      BY <1>3, <2>2, <2>5 DEF GoingDown
    <3>3. seen' \in Seens
      BY <2>4 DEF Sees
    <3> QED  BY <1>3, <3>1, <3>2, <3>3 DEF PressCounted, LongPressIsMeant, GoingDown
  <2>6. CASE a.phase = "running"
    <3>1. a = shutdown /\ shutdown.phase = "running" /\ shutdown.reason = "none"
      BY <1>3, <2>2, <2>6 DEF PressCounted, GoingDown
    <3>2. shutdown' = Held(shutdown, fingers.button, fingers.pad)
      BY <2>3, <2>6, <3>1 DEF Ticked
    <3>3. PressOf(shutdown, seen)
      BY <1>3 DEF PressCounted
    <3>4. /\ shutdown' \in Sequencers
          /\ shutdown'.phase = "running" => shutdown'.reason = "none" /\ PressOf(shutdown', seen')
          /\ Meant(shutdown', seen')
      BY <1>1, <2>4, <3>1, <3>2, <3>3, HeldMeans
    <3>5. seen' \in Seens
      BY <2>4 DEF Sees
    <3>6. LongPressIsMeant'
      BY <3>4 DEF LongPressIsMeant, Meant
    <3>7. PressCounted'
      BY <3>4 DEF PressCounted, GoingDown, PressOf
    <3> QED  BY <1>3, <3>4, <3>5, <3>6, <3>7
  <2> QED  BY <2>5, <2>6
<1> QED  BY <1>2, <1>3

-----------------------------------------------------------------------------
(* The panel.                                                              *)

\* What a panel says, over the glass g.
Tells(sc, g) ==
  /\ sc.step \in {"wipe", "frame"} => sc.said = "none"
  /\ sc.said \in Words => g = sc.said /\ sc.frame = sc.said

\* park() hands over a frame, and what it hands over has not been said.
LEMMA ParkedTells ==
  ASSUME NEW sc \in Panels, sc.said = "none", NEW frame \in Frames, NEW lost,
         NEW p, p = Parked(sc, frame, lost)
  PROVE  /\ p \in Panels /\ p.frame = frame /\ p.said = "none" /\ p.busy = sc.busy
         /\ p.step \in {"wipe", "frame", "sleep"}
<1>1. PICK step \in {"wipe", "frame", "sleep"} :
        step = (IF lost THEN "sleep" ELSE IF WornPoweredOff(frame) THEN "frame" ELSE "wipe")
  OBVIOUS
<1>2. p = [sc EXCEPT !.frame = frame, !.step = step]
  BY <1>1 DEF Parked
<1> QED  BY <1>2 DEF Panels, ParkSteps

\* A command of the park paints what the panel then says.
LEMMA SettledTells ==
  ASSUME NEW sc \in Panels, Tells(sc, glass), NEW q, q = SettledPark(sc)
  PROVE  /\ q \in Panels /\ q.frame = sc.frame /\ Tells(q, Worn(sc))
         /\ sc.step = "frame" /\ ~sc.busy => q.step = "sleep" /\ Worn(sc) = sc.frame
         /\ sc.step \in {"none", "sleep"} =>
              q.step \in {"none", "sleep"} /\ q.said = sc.said /\ Worn(sc) = glass
         /\ sc.busy => q = sc /\ Worn(sc) = glass
<1>1. CASE sc.step = "none" \/ sc.busy
  <2>1. q = sc /\ Worn(sc) = glass
    BY <1>1 DEF SettledPark, Worn
  <2> QED  BY <1>1, <2>1
<1>2. CASE sc.step = "wipe" /\ ~sc.busy
  <2>1. q = [sc EXCEPT !.step = "frame", !.busy = TRUE]
    BY <1>2 DEF SettledPark
  <2>2. sc.said = "none"
    BY <1>2 DEF Tells
  <2>3. q \in Panels /\ q.frame = sc.frame /\ q.said = "none" /\ q.step = "frame"
    BY <2>1, <2>2 DEF Panels, ParkSteps
  <2> QED  BY <1>2, <2>3 DEF Tells, Words
<1>3. CASE sc.step = "frame" /\ ~sc.busy
  <2>1. PICK said \in Said : said = (IF sc.frame \in Words THEN sc.frame ELSE "none")
    BY DEF Said
  <2>2. q = [sc EXCEPT !.step = "sleep", !.busy = TRUE, !.said = said]
    BY <1>3, <2>1 DEF SettledPark
  <2>3. q \in Panels /\ q.frame = sc.frame /\ q.said = said /\ q.step = "sleep"
    BY <2>2 DEF Panels, ParkSteps
  <2>4. Worn(sc) = sc.frame
    BY <1>3 DEF Worn
  <2>5. Tells(q, Worn(sc))
    BY <2>1, <2>3, <2>4 DEF Tells, Words
  <2> QED  BY <1>3, <2>3, <2>4, <2>5
<1>4. CASE sc.step = "sleep" /\ ~sc.busy
  <2>1. q = [sc EXCEPT !.step = "none"]
    BY <1>4 DEF SettledPark
  <2>2. q \in Panels /\ q.frame = sc.frame /\ q.said = sc.said /\ q.step = "none"
    BY <2>1 DEF Panels, ParkSteps
  <2>3. Worn(sc) = glass
    BY <1>4 DEF Worn
  <2> QED  BY <1>4, <2>2, <2>3 DEF Tells
<1> QED  BY <1>1, <1>2, <1>3, <1>4 DEF Panels, ParkSteps

LEMMA FrameOfType ==
  ASSUME NEW reason, NEW level
  PROVE  FrameOf(reason, level) \in Frames
BY DEF FrameOf, Frames

\* A phase is parking only from the pass that first asked for it.
LEMMA ParkingOnce ==
  ASSUME NEW s \in Sequencers, s.phase \notin {"running", "parking"}, NEW down, NEW pad
  PROVE  Ticked(s, down, pad).phase # "parking"
<1>1. CASE s.phase = "awaitRelease"
  <2>1. PICK r : r = Released(s.release, down)
    OBVIOUS
  <2>2. Ticked(s, down, pad) = [s EXCEPT !.release = r, !.phase = IF r = ReleasePasses THEN "off" ELSE @]
    BY <1>1, <2>1 DEF Ticked
  <2> QED  BY <1>1, <2>2 DEF Sequencers
<1>2. CASE s.phase = "off"
  BY <1>2 DEF Ticked
<1> QED  BY <1>1, <1>2 DEF Sequencers, Phases

\* A pass, as the panel lives it: drawn by a page, driven by a shutdown, q and g
\* what the panel and the glass are afterwards.
PanelPass(presents, frame, lost, drawn, driven, q, g) ==
  /\ presents => ~GoingDown /\ ~screen.busy
  /\ drawn = IF presents THEN [screen EXCEPT !.busy = TRUE, !.said = "none"] ELSE screen
  /\ driven = IF shutdown'.phase = "parking" /\ acted # "parking"
              THEN Parked(drawn, frame, lost) ELSE drawn
  /\ q = IF shutdown'.phase # "running" THEN SettledPark(driven) ELSE driven
  /\ g = IF shutdown'.phase # "running" /\ Worn(driven) # glass THEN Worn(driven)
         ELSE IF presents THEN "page" ELSE glass

\* It leaves the panel saying what the glass wears, and a frame on it only when
\* it is going down.
LEMMA PassPanel ==
  ASSUME Shape, PanelTells, RunsUnparked, boot.path = "run", shutdown'.phase \in Phases,
         GoingDown => GoingDown',
         shutdown'.phase = "parking" /\ acted # "parking" => ~GoingDown,
         NEW presents \in BOOLEAN, NEW frame \in Frames, NEW lost, NEW drawn, NEW driven,
         NEW q, NEW g, PanelPass(presents, frame, lost, drawn, driven, q, g)
  PROVE  /\ q \in Panels /\ Tells(q, g) /\ q.frame = driven.frame
         /\ drawn.frame = screen.frame
         /\ shutdown'.phase = "running" =>
              q.step = "none" /\ q.said = "none" /\ q.frame = "none"
<1> USE DEF PanelPass
<1>1. /\ screen \in Panels /\ Tells(screen, glass)
      /\ ~GoingDown => screen.step = "none" /\ screen.said = "none" /\ screen.frame = "none"
  BY DEF Shape, PanelTells, Tells, RunsUnparked
<1>2. /\ drawn \in Panels /\ drawn.frame = screen.frame /\ drawn.step = screen.step
      /\ presents => drawn.busy /\ drawn.said = "none"
      /\ ~presents => drawn = screen
  <2>1. CASE presents
    <3>1. drawn = [screen EXCEPT !.busy = TRUE, !.said = "none"]
      BY <2>1
    <3>2. "none" \in Said
      BY DEF Said
    <3> QED  BY <1>1, <2>1, <3>1, <3>2 DEF Panels
  <2>2. CASE ~presents
    BY <1>1, <2>2
  <2> QED  BY <2>1, <2>2
<1>3. CASE shutdown'.phase = "running"
  <2>1. ~GoingDown
    BY <1>3 DEF GoingDown
  <2>2. q = drawn /\ driven = drawn
    BY <1>3
  <2>3. drawn.said = "none" /\ drawn.step = "none" /\ drawn.frame = "none"
    BY <1>1, <1>2, <2>1
  <2> QED  BY <1>2, <2>2, <2>3 DEF Tells, Words
<1>4. CASE shutdown'.phase = "parking" /\ acted # "parking"
  <2>1. drawn.said = "none"
    BY <1>1, <1>2, <1>4
  <2>2. /\ driven \in Panels /\ driven.said = "none" /\ driven.busy = drawn.busy
    BY <1>2, <1>4, <2>1, ParkedTells
  <2>3. Tells(driven, glass)
    BY <2>2 DEF Tells, Words
  <2>4. q = SettledPark(driven)
    BY <1>4
  <2>5. /\ q \in Panels /\ q.frame = driven.frame /\ Tells(q, Worn(driven))
        /\ driven.busy => q = driven /\ Worn(driven) = glass
    BY <2>2, <2>3, <2>4, SettledTells
  <2>6. CASE presents
    <3>1. q.said = "none"
      BY <1>2, <2>2, <2>5, <2>6
    <3> QED  BY <1>2, <1>4, <2>5, <3>1 DEF Tells, Words
  <2>7. CASE ~presents
    <3>1. g = Worn(driven)
      BY <1>4, <2>7
    <3> QED  BY <1>2, <1>4, <2>5, <3>1
  <2> QED  BY <2>6, <2>7
<1>5. CASE shutdown'.phase # "running" /\ ~(shutdown'.phase = "parking" /\ acted # "parking")
  <2>1. driven = drawn /\ q = SettledPark(driven) /\ driven \in Panels
    BY <1>2, <1>5
  <2>2. Tells(driven, glass)
    <3>1. CASE presents
      BY <1>2, <2>1, <3>1 DEF Tells, Words
    <3>2. CASE ~presents
      BY <1>1, <1>2, <2>1, <3>2
    <3> QED  BY <3>1, <3>2
  <2>3. /\ q \in Panels /\ q.frame = driven.frame /\ Tells(q, Worn(driven))
        /\ driven.busy => q = driven /\ Worn(driven) = glass
    BY <2>1, <2>2, SettledTells
  <2>4. CASE presents
    <3>1. q.said = "none"
      BY <1>2, <2>1, <2>3, <2>4
    <3> QED  BY <1>2, <1>5, <2>3, <3>1 DEF Tells, Words
  <2>5. CASE ~presents
    <3>1. g = Worn(driven)
      BY <1>5, <2>5
    <3> QED  BY <1>2, <1>5, <2>3, <3>1
  <2> QED  BY <2>4, <2>5
<1> QED  BY <1>3, <1>4, <1>5

-----------------------------------------------------------------------------
(* The steps.                                                              *)

\* A restart, a wake and a power-on all find the fact standing behind the byte.
LEMMA BootKeeps ==
  ASSUME PowerInv, NEW cause, NEW cell, Boot(cause, cell),
         boot.path # "run" \/ boot.asked
  PROVE  PowerInv' /\ boot'.dark = ranDry
<1> DEFINE dark == retained.glass = "flat" \/ retained.dark
           again == SleepsAgain(cause, cell)
           path == IF ~again THEN "run" ELSE RefusedFrame(cell)
<1>1. /\ Shape /\ DryKept /\ GlassRemembered
      /\ dark \in BOOLEAN /\ again \in BOOLEAN
      /\ retained.dark \in BOOLEAN /\ ranDry \in BOOLEAN /\ Below(cell, LockoutMv) \in BOOLEAN
      /\ retained.glass \in Said
  BY Zenon DEF PowerInv, Shape, SleepsAgain, Below
<1>2. dark = ranDry
  BY <1>1 DEF DryKept
<1>3. /\ boot' = [path |-> path, flat |-> again /\ Below(cell, LockoutMv), dark |-> dark,
                  asked |-> FALSE, since |-> 0]
      /\ retained' = [retained EXCEPT !.dark = KeptDark(again, dark)]
      /\ ranDry' = (IF again THEN ranDry ELSE FALSE)
      /\ count < MaxBoots /\ count' = count + 1
      /\ warned' = FALSE /\ shutdown' = Running /\ acted' = "running"
      /\ screen' = Unparked /\ seen' = Untouched
      /\ UNCHANGED <<fingers, glass>>
  BY DEF Boot
<1>4. /\ path \in {"run", "leave", "wordmark", "flat"}
      /\ again /\ Below(cell, LockoutMv) =>
           path = "flat" \/ (path = "leave" /\ retained.glass = "flat")
      /\ path = "run" <=> ~again
  BY <1>1 DEF RefusedFrame
<1>5. /\ boot'.path = path /\ boot'.dark = dark /\ boot'.asked = FALSE
      /\ boot'.flat = (again /\ Below(cell, LockoutMv))
      /\ boot' \in [path : Paths, flat : BOOLEAN, dark : BOOLEAN, asked : BOOLEAN,
                    since : 0 .. RefusalPasses]
  <2> HIDE DEF path, again, dark
  <2>1. PICK flat \in BOOLEAN : flat = (again /\ Below(cell, LockoutMv))
    OBVIOUS
  <2>2. boot' = [path |-> path, flat |-> flat, dark |-> dark, asked |-> FALSE, since |-> 0]
    BY <1>3, <2>1
  <2>3. 0 \in 0 .. RefusalPasses
    BY Times
  <2> QED  BY <1>1, <1>4, <2>1, <2>2, <2>3 DEF Paths
<1>6. /\ retained' \in [glass : Said, dark : BOOLEAN] /\ retained'.glass = retained.glass
      /\ retained'.dark = (again /\ dark)
  <2> HIDE DEF again, dark
  <2>1. PICK kept \in BOOLEAN : kept = (again /\ dark)
    OBVIOUS
  <2>2. retained' = [retained EXCEPT !.dark = kept]
    BY <1>3, <2>1 DEF KeptDark
  <2> QED  BY <1>1, <2>1, <2>2 DEF Shape
<1>7. /\ Running \in Sequencers /\ Running.phase = "running" /\ Running.reason = "none"
      /\ PressOf(Running, Untouched)
      /\ Unparked \in Panels /\ Unparked.said = "none" /\ Unparked.step = "none"
      /\ Unparked.frame = "none" /\ Untouched \in Seens
  BY Times DEF Running, Unparked, Untouched, Sequencers, Panels, Seens, Phases, ParkSteps,
               Frames, Said, PressOf
<1> HIDE DEF path, again, dark
<1>8. ranDry' = (again /\ dark)
  BY <1>1, <1>2, <1>3
<1>9. Shape'
  <2>1. count' \in 0 .. MaxBoots
    BY <1>1, <1>3, Times DEF Shape
  <2>2. ranDry' \in BOOLEAN /\ warned' \in BOOLEAN /\ acted' \in Phases
    BY <1>1, <1>3, <1>8 DEF Phases
  <2>3. fingers' \in [button : BOOLEAN, pad : BOOLEAN, touches : 0 .. MaxTouches]
    BY <1>1, <1>3 DEF Shape
  <2> QED  BY <1>3, <1>5, <1>6, <1>7, <2>1, <2>2, <2>3 DEF Shape
<1>10. PanelTells' /\ RunsUnparked' /\ GlassRemembered'
  BY <1>1, <1>3, <1>6, <1>7 DEF PanelTells, RunsUnparked, GlassRemembered, Words
<1>11. RefusalParks'
  BY <1>3, <1>5, <1>7 DEF RefusalParks, GoingDown
<1>12. RefusedFlat'
  BY <1>3, <1>4, <1>5, <1>6 DEF RefusedFlat
<1>13. DryKept'
  <2>1. retained'.glass = "flat" => dark
    BY <1>6 DEF dark
  <2> QED  BY <1>1, <1>3, <1>4, <1>5, <1>6, <1>7, <1>8, <2>1 DEF DryKept
<1>14. PressCounted' /\ LongPressIsMeant'
  BY <1>3, <1>7 DEF PressCounted, LongPressIsMeant
<1> QED  BY <1>2, <1>5, <1>9, <1>10, <1>11, <1>12, <1>13, <1>14 DEF PowerInv

\* A refusal that ends leaves a flat cell's glass on FLAT BATTERY.
LEMMA RefuseKeeps ==
  ASSUME PowerInv, Refuse
  PROVE  /\ PowerInv'
         /\ boot.flat /\ boot'.path = "off" => glass' = "flat"
<1> DEFINE leaves == boot.path = "leave"
<1>1. /\ Refusing /\ Shape /\ PanelTells /\ RefusalParks /\ RefusedFlat /\ DryKept
      /\ PressCounted /\ GlassRemembered /\ LongPressIsMeant
  BY DEF PowerInv, Refuse
<1>2. /\ boot \in [path : Paths, flat : BOOLEAN, dark : BOOLEAN, asked : BOOLEAN,
                   since : 0 .. RefusalPasses]
      /\ shutdown \in Sequencers /\ screen \in Panels /\ fingers.button \in BOOLEAN
      /\ retained \in [glass : Said, dark : BOOLEAN] /\ ranDry \in BOOLEAN
      /\ boot.asked \in BOOLEAN /\ retained.dark \in BOOLEAN
  BY <1>1 DEF Shape
<1>3. PICK first \in BOOLEAN : first = (~boot.asked /\ boot.path # "leave")
  OBVIOUS
<1>4. PICK asked : asked = IF first THEN Parked(screen, boot.path, FALSE) ELSE screen
  OBVIOUS
<1>5. PICK sc : sc = IF leaves THEN screen ELSE SettledPark(asked)
  OBVIOUS
<1>6. PICK released : released = Released(shutdown.release, fingers.button)
  OBVIOUS
<1>7. PICK since : since = IF leaves \/ first THEN 0 ELSE Lengthen(boot.since, RefusalPasses)
  OBVIOUS
<1>8. PICK done \in BOOLEAN :
        done = (released = ReleasePasses
                /\ (leaves \/ sc.step = "none" \/ since = RefusalPasses))
  OBVIOUS
<1>9. /\ shutdown' = [shutdown EXCEPT !.release = released]
      /\ screen' = (IF done THEN Unparked ELSE sc)
      /\ glass' = (IF leaves THEN glass ELSE Worn(asked))
      /\ retained' = [glass |-> IF leaves THEN retained.glass ELSE sc.said,
                      dark |-> retained.dark \/ (first /\ boot.path = "flat")]
      /\ ranDry' = (ranDry \/ (first /\ boot.path = "flat"))
      /\ boot' = (IF done THEN Dark("off")
                  ELSE [boot EXCEPT !.asked = @ \/ first, !.since = since])
      /\ UNCHANGED <<monitor, warned, fingers, count, acted, seen>>
  BY <1>3, <1>4, <1>5, <1>6, <1>7, <1>8 DEF Refuse
<1>10. released \in NeverUp .. ReleasePasses
  <2>1. 0 \in NeverUp .. ReleasePasses /\ NeverUp \in NeverUp .. ReleasePasses
    BY Times
  <2>2. shutdown.release \in NeverUp .. ReleasePasses
    BY <1>2 DEF Sequencers
  <2>3. Lengthen(shutdown.release, ReleasePasses) \in NeverUp .. ReleasePasses
    BY <2>2, LengthenType, Times
  <2> QED  BY <1>6, <2>1, <2>3 DEF Released
<1>11. since \in 0 .. RefusalPasses
  <2>1. 0 \in 0 .. RefusalPasses /\ boot.since \in NeverUp .. RefusalPasses
    BY <1>2, Times
  <2>2. Lengthen(boot.since, RefusalPasses) \in 0 .. RefusalPasses
    BY <2>1, LengthenType, Times
  <2> QED  BY <1>7, <2>1, <2>2
<1>12. /\ shutdown' \in Sequencers /\ shutdown'.phase = shutdown.phase
       /\ shutdown'.reason = shutdown.reason /\ shutdown'.hold = shutdown.hold
       /\ shutdown'.armed = shutdown.armed /\ shutdown'.padArmed = shutdown.padArmed
       /\ shutdown'.stowing = shutdown.stowing
  BY <1>2, <1>9, <1>10 DEF Sequencers
<1>13. PressCounted' /\ LongPressIsMeant'
  BY <1>1, <1>9, <1>12 DEF PressCounted, LongPressIsMeant, PressOf, GoingDown
<1>14. /\ sc \in Panels /\ Tells(sc, glass')
       /\ leaves => sc = screen /\ screen = Unparked
       /\ ~leaves => sc.step \in {"none", "sleep"} /\ sc.frame = boot.path /\ glass' = boot.path
  <2>1. CASE leaves
    <3>1. sc = screen /\ screen = Unparked /\ glass' = glass
      BY <1>1, <1>5, <1>9, <2>1 DEF RefusalParks
    <3> QED  BY <1>1, <1>2, <2>1, <3>1 DEF PanelTells, Tells
  <2>2. CASE ~leaves /\ first
    <3>1. screen = Unparked
      BY <1>1, <1>3, <2>2 DEF RefusalParks
    <3>2. screen.said = "none" /\ boot.path \in Frames /\ WornPoweredOff(boot.path)
      BY <1>1, <2>2, <3>1 DEF Unparked, Refusing, Frames, WornPoweredOff
    <3>3. asked = [screen EXCEPT !.frame = boot.path, !.step = "frame"]
      BY <1>4, <2>2, <3>2 DEF Parked
    <3>4. /\ asked \in Panels /\ asked.step = "frame" /\ asked.frame = boot.path
          /\ asked.said = "none" /\ ~asked.busy
      BY <3>1, <3>2, <3>3 DEF Panels, Unparked, ParkSteps, Said
    <3>5. Tells(asked, glass) /\ sc = SettledPark(asked) /\ glass' = Worn(asked)
      BY <1>5, <1>9, <2>2, <3>4 DEF Tells, Words
    <3>6. /\ sc \in Panels /\ sc.frame = asked.frame /\ Tells(sc, Worn(asked))
          /\ sc.step = "sleep" /\ Worn(asked) = asked.frame
      BY <3>4, <3>5, SettledTells
    <3> QED  BY <2>2, <3>4, <3>5, <3>6
  <2>3. CASE ~leaves /\ ~first
    <3>1. /\ boot.asked /\ asked = screen /\ asked \in Panels
          /\ screen.step \in {"none", "sleep"} /\ screen.frame = boot.path /\ glass = boot.path
      BY <1>1, <1>2, <1>3, <1>4, <2>3 DEF RefusalParks
    <3>2. Tells(asked, glass) /\ sc = SettledPark(asked) /\ glass' = Worn(asked)
      BY <1>1, <1>5, <1>9, <2>3, <3>1 DEF PanelTells, Tells
    <3>3. /\ sc \in Panels /\ sc.frame = asked.frame /\ Tells(sc, Worn(asked))
          /\ sc.step \in {"none", "sleep"} /\ Worn(asked) = glass
      BY <3>1, <3>2, SettledTells
    <3> QED  BY <2>3, <3>1, <3>2, <3>3
  <2> QED  BY <2>1, <2>2, <2>3
<1>15. /\ retained' \in [glass : Said, dark : BOOLEAN] /\ ranDry' \in BOOLEAN
       /\ retained'.dark = ranDry'
       /\ leaves => retained'.glass = retained.glass /\ glass' = glass
       /\ ~leaves => retained'.glass = sc.said
       /\ ranDry' <=> ranDry \/ (first /\ boot.path = "flat")
  <2>1. PICK dark \in BOOLEAN : dark = (ranDry \/ (first /\ boot.path = "flat"))
    BY <1>2
  <2>2. retained.dark = ranDry
    BY <1>1 DEF DryKept
  <2>3. /\ ranDry' = dark
        /\ retained' = [glass |-> IF leaves THEN retained.glass ELSE sc.said, dark |-> dark]
    BY <1>9, <2>1, <2>2
  <2>4. sc.said \in Said /\ retained.glass \in Said
    BY <1>2, <1>14 DEF Panels
  <2>5. ranDry' <=> ranDry \/ (first /\ boot.path = "flat")
    BY <2>1, <2>3, Zenon
  <2>6. retained' \in [glass : Said, dark : BOOLEAN] /\ retained'.dark = dark
        /\ retained'.glass = (IF leaves THEN retained.glass ELSE sc.said)
    BY <2>1, <2>3, <2>4
  <2>7. ranDry' \in BOOLEAN
    BY <2>1, <2>3
  <2> QED  BY <1>9, <2>3, <2>5, <2>6, <2>7
<1>16. PICK asks \in BOOLEAN : asks = (boot.asked \/ first)
  OBVIOUS
<1>17. /\ ~done => /\ boot' \in [path : Paths, flat : BOOLEAN, dark : BOOLEAN, asked : BOOLEAN,
                                 since : 0 .. RefusalPasses]
                   /\ boot'.path = boot.path /\ boot'.flat = boot.flat /\ boot'.asked = asks
       /\ done => boot' = Dark("off")
  <2>1. ~done => boot' = [boot EXCEPT !.asked = asks, !.since = since]
    BY <1>9, <1>16
  <2> QED  BY <1>2, <1>9, <1>11, <2>1
<1>18. boot' \in [path : Paths, flat : BOOLEAN, dark : BOOLEAN, asked : BOOLEAN,
                  since : 0 .. RefusalPasses]
  <2>1. Dark("off") \in [path : Paths, flat : BOOLEAN, dark : BOOLEAN, asked : BOOLEAN,
                         since : 0 .. RefusalPasses]
    BY Times DEF Dark, Paths
  <2> QED  BY <1>17, <2>1
<1>19. screen' \in Panels
  BY <1>9, <1>14 DEF Unparked, Panels, ParkSteps, Frames, Said
<1>20. Shape'
  BY <1>1, <1>9, <1>12, <1>15, <1>18, <1>19 DEF Shape
<1>21. PanelTells'
  BY <1>9, <1>14 DEF PanelTells, Tells, Unparked, Words
<1>22. RunsUnparked' /\ (Refusing' => ~done) /\ (done => boot'.path = "off")
  BY <1>1, <1>17 DEF RunsUnparked, Refusing, Dark
<1>23. RefusalParks'
  BY <1>1, <1>2, <1>3, <1>9, <1>12, <1>14, <1>16, <1>17, <1>22 DEF RefusalParks, GoingDown
<1>24. RefusedFlat'
  BY <1>1, <1>15, <1>17, <1>22 DEF RefusedFlat
<1>25. boot.path = "flat" => ranDry'
  BY <1>1, <1>3, <1>15 DEF DryKept
<1>26. retained'.glass = "flat" => ranDry'
  <2>1. CASE leaves
    BY <1>1, <1>15, <2>1 DEF DryKept
  <2>2. CASE ~leaves
    BY <1>14, <1>15, <1>25, <2>2 DEF Tells, Words
  <2> QED  BY <2>1, <2>2
<1>27. DryKept'
  <2>1. boot'.path # "run" /\ (boot'.path = "flat" => boot.path = "flat")
    BY <1>1, <1>17 DEF Refusing, Dark
  <2> QED  BY <1>15, <1>25, <1>26, <2>1 DEF DryKept
<1>28. GlassRemembered'
  BY <1>1, <1>14, <1>15 DEF GlassRemembered, Tells
<1>29. boot.flat /\ boot'.path = "off" => glass' = "flat"
  BY <1>1, <1>14, <1>15 DEF RefusedFlat, GlassRemembered, Words
<1> QED  BY <1>13, <1>20, <1>21, <1>22, <1>23, <1>24, <1>27, <1>28, <1>29 DEF PowerInv

LEMMA PassKeeps ==
  ASSUME PowerInv, NEW cell, NEW warns \in BOOLEAN, NEW asks, NEW presents \in BOOLEAN,
         Pass(cell, warns, asks, presents)
  PROVE  PowerInv' /\ boot'.path \in {"run", "reboots", "off"} /\ count' = count
<1>1. /\ Shape /\ PanelTells /\ RunsUnparked /\ DryKept /\ PressCounted /\ LongPressIsMeant
      /\ boot.path = "run"
  BY DEF PowerInv, Pass
<1>2. /\ boot \in [path : Paths, flat : BOOLEAN, dark : BOOLEAN, asked : BOOLEAN,
                   since : 0 .. RefusalPasses]
      /\ shutdown \in Sequencers /\ warned \in BOOLEAN /\ ranDry \in BOOLEAN
      /\ acted = shutdown.phase
  BY <1>1 DEF Shape, RunsUnparked
<1>3. /\ Draws(presents) /\ warned' = (warned \/ warns)
      /\ shutdown' = Ticked(IF GoingDown THEN shutdown ELSE Asked(shutdown, monitor'.level, asks),
                            fingers.button, fingers.pad)
      /\ acted' = shutdown'.phase
      /\ seen' = (IF GoingDown THEN seen ELSE Observed)
      /\ UNCHANGED <<fingers, count>>
  BY DEF Pass
<1>4. PICK level : level = monitor'.level
  OBVIOUS
<1>5. /\ shutdown' \in Sequencers /\ seen' \in Seens /\ PressCounted' /\ LongPressIsMeant'
      /\ GoingDown => GoingDown'
  <2>1. shutdown' = Ticked(IF GoingDown THEN shutdown ELSE Asked(shutdown, level, asks),
                           fingers.button, fingers.pad)
    BY <1>3, <1>4
  <2> QED  BY <1>1, <1>3, <2>1, PassPresses
<1>6. shutdown'.phase = "parking" /\ acted # "parking" => ~GoingDown
  <2>1. SUFFICES ASSUME GoingDown, shutdown.phase # "parking"
                 PROVE  shutdown'.phase # "parking"
    BY <1>2
  <2>2. shutdown' = Ticked(shutdown, fingers.button, fingers.pad)
    BY <1>3, <2>1
  <2> QED  BY <1>2, <2>1, <2>2, ParkingOnce DEF GoingDown
<1>7. PICK drawn, driven :
        /\ drawn = IF presents THEN [screen EXCEPT !.busy = TRUE, !.said = "none"] ELSE screen
        /\ driven = Drives(shutdown', drawn)
        /\ screen' = IF shutdown'.phase # "running" THEN SettledPark(driven) ELSE driven
        /\ glass' = IF shutdown'.phase # "running" /\ Worn(driven) # glass THEN Worn(driven)
                    ELSE IF presents THEN "page" ELSE glass
        /\ retained' = [glass |-> screen'.said,
                        dark |-> retained.dark \/ (driven # drawn /\ driven.frame = "flat")]
        /\ ranDry' = (ranDry \/ (driven # drawn /\ driven.frame = "flat"))
  BY DEF Pass
<1>7a. PICK dries \in BOOLEAN : dries = (driven # drawn /\ driven.frame = "flat")
  OBVIOUS
<1>8. PICK frame : frame = FrameOf(shutdown'.reason, monitor'.level)
  OBVIOUS
<1>9. PICK lost : lost = warned'
  OBVIOUS
<1>10. /\ screen' \in Panels /\ Tells(screen', glass') /\ screen'.frame = driven.frame
       /\ drawn.frame = screen.frame
       /\ shutdown'.phase = "running" =>
            screen'.step = "none" /\ screen'.said = "none" /\ screen'.frame = "none"
  <2>1. frame \in Frames
    BY <1>8, FrameOfType
  <2>2. presents => ~GoingDown /\ ~screen.busy
    BY <1>3 DEF Draws
  <2>3. shutdown'.phase \in Phases
    BY <1>5 DEF Sequencers
  <2>4. PICK q, g : q = screen' /\ g = glass'
    OBVIOUS
  <2>5. PanelPass(presents, frame, lost, drawn, driven, q, g)
    BY <1>7, <1>8, <1>9, <2>2, <2>4 DEF PanelPass, Drives
  <2>6. /\ q \in Panels /\ Tells(q, g) /\ q.frame = driven.frame
        /\ drawn.frame = screen.frame
        /\ shutdown'.phase = "running" =>
              q.step = "none" /\ q.said = "none" /\ q.frame = "none"
    BY <1>1, <1>5, <1>6, <2>1, <2>3, <2>5, PassPanel
  <2> QED  BY <2>4, <2>6
<1>11. PICK dry \in BOOLEAN : dry = (ranDry \/ dries)
  OBVIOUS
<1>12. /\ retained' \in [glass : Said, dark : BOOLEAN] /\ ranDry' = dry
       /\ retained'.glass = screen'.said /\ retained'.dark = ranDry'
  <2>1. retained.dark = ranDry
    BY <1>1 DEF DryKept
  <2>2. retained' = [glass |-> screen'.said, dark |-> dry]
    BY <1>7, <1>7a, <1>11, <2>1
  <2>3. screen'.said \in Said
    BY <1>10 DEF Panels
  <2>4. ranDry' = dry
    BY <1>7, <1>7a, <1>11, Zenon
  <2>5. retained' \in [glass : Said, dark : BOOLEAN] /\ retained'.dark = dry
        /\ retained'.glass = screen'.said
    BY <1>11, <2>2, <2>3
  <2> QED  BY <2>4, <2>5
<1>13. (ranDry => ranDry') /\ (dries => ranDry')
  BY <1>7, <1>7a, Zenon
<1>14. /\ boot' \in [path : Paths, flat : BOOLEAN, dark : BOOLEAN, asked : BOOLEAN,
                     since : 0 .. RefusalPasses]
       /\ boot'.path \in {"run", "reboots", "off"}
  <2>1. PICK ends \in {"stays", "reboots", "off"} : ends = Ends(shutdown', screen')
    BY DEF Ends
  <2>2. boot' = IF ends = "stays" THEN [boot EXCEPT !.asked = TRUE] ELSE Dark(ends)
    BY <2>1 DEF Pass
  <2>3. ends # "stays" =>
          /\ Dark(ends) \in [path : Paths, flat : BOOLEAN, dark : BOOLEAN, asked : BOOLEAN,
                             since : 0 .. RefusalPasses]
          /\ Dark(ends).path = ends
    BY <2>1, Times DEF Dark, Paths
  <2> QED  BY <1>1, <1>2, <2>1, <2>2, <2>3
<1>15. Shape'
  <2>1. warned' \in BOOLEAN /\ ranDry' \in BOOLEAN
    BY <1>3, <1>11, <1>12
  <2>2. acted' \in Phases
    BY <1>3, <1>5 DEF Sequencers
  <2> QED  BY <1>1, <1>3, <1>5, <1>10, <1>12, <1>14, <2>1, <2>2 DEF Shape
<1>16. PanelTells' /\ GlassRemembered'
  BY <1>10, <1>12 DEF PanelTells, Tells, GlassRemembered
<1>17. RunsUnparked'
  BY <1>3, <1>10 DEF RunsUnparked, GoingDown
<1>18. RefusalParks' /\ RefusedFlat'
  BY <1>14 DEF RefusalParks, RefusedFlat, Refusing
<1>19. screen'.frame = "flat" => ranDry'
  <2>1. CASE driven # drawn
    BY <1>7a, <1>10, <1>13, <2>1
  <2>2. CASE driven = drawn
    BY <1>1, <1>10, <1>13, <2>2 DEF DryKept
  <2> QED  BY <2>1, <2>2
<1>20. DryKept'
  <2>1. retained'.glass = "flat" => ranDry'
    BY <1>10, <1>12, <1>19 DEF Tells, Words
  <2> QED  BY <1>12, <1>14, <1>19, <2>1 DEF DryKept
<1> QED  BY <1>3, <1>5, <1>14, <1>15, <1>16, <1>17, <1>18, <1>20 DEF PowerInv

LEMMA PowerCutKeeps ==
  ASSUME PowerInv, PowerCut
  PROVE  PowerInv' /\ boot'.path = "unpowered"
<1>1. /\ Shape /\ boot' = Dark("unpowered") /\ retained' = [glass |-> "none", dark |-> FALSE]
      /\ ranDry' = FALSE /\ warned' = FALSE /\ shutdown' = Running /\ acted' = "running"
      /\ screen' = Unparked /\ seen' = Untouched /\ UNCHANGED <<fingers, count, glass>>
  BY DEF PowerInv, PowerCut
<1>2. /\ Running \in Sequencers /\ Running.phase = "running" /\ Running.reason = "none"
      /\ PressOf(Running, Untouched)
      /\ Unparked \in Panels /\ Unparked.said = "none" /\ Unparked.step = "none"
      /\ Unparked.frame = "none" /\ Untouched \in Seens
  BY Times DEF Running, Unparked, Untouched, Sequencers, Panels, Seens, Phases, ParkSteps,
               Frames, Said, PressOf
<1>3. /\ boot' \in [path : Paths, flat : BOOLEAN, dark : BOOLEAN, asked : BOOLEAN,
                    since : 0 .. RefusalPasses]
      /\ boot'.path = "unpowered"
  BY <1>1, Times DEF Dark, Paths
<1>4. Shape'
  BY <1>1, <1>2, <1>3 DEF Shape, Phases, Said
<1>5. PanelTells' /\ RunsUnparked' /\ RefusalParks' /\ RefusedFlat' /\ GlassRemembered'
  BY <1>1, <1>2, <1>3 DEF PanelTells, RunsUnparked, RefusalParks, RefusedFlat, Refusing,
                          GlassRemembered, Words
<1>6. DryKept' /\ PressCounted' /\ LongPressIsMeant'
  BY <1>1, <1>2, <1>3 DEF DryKept, PressCounted, LongPressIsMeant
<1> QED  BY <1>3, <1>4, <1>5, <1>6 DEF PowerInv

\* A panel that finishes says what it said, and a frame it never had in hand
\* does not finish.
LEMMA PanelDoneKeeps ==
  ASSUME PowerInv, PanelDone
  PROVE  PowerInv'
<1>1. /\ Shape /\ PanelTells /\ RunsUnparked /\ RefusalParks /\ screen \in Panels /\ screen.busy
      /\ screen' = [screen EXCEPT !.busy = FALSE]
      /\ UNCHANGED <<monitor, warned, fingers, boot, count, shutdown, acted, glass,
                     retained, seen, ranDry>>
  BY DEF PowerInv, PanelDone, Shape
<1>2. /\ screen' \in Panels /\ screen'.step = screen.step /\ screen'.said = screen.said
      /\ screen'.frame = screen.frame
  BY <1>1 DEF Panels
<1>3. screen # Unparked
  BY <1>1 DEF Unparked
<1>4. Shape' /\ PanelTells' /\ RunsUnparked'
  BY <1>1, <1>2 DEF Shape, PanelTells, RunsUnparked, GoingDown
<1>5. RefusalParks'
  BY <1>1, <1>2, <1>3 DEF RefusalParks, Refusing, GoingDown
<1>6. RefusedFlat' /\ DryKept' /\ GlassRemembered' /\ LongPressIsMeant'
  BY <1>1, <1>2 DEF PowerInv, RefusedFlat, Refusing, DryKept, GlassRemembered, LongPressIsMeant
<1>7. PressCounted'
  BY <1>1 DEF PowerInv, PressCounted, GoingDown, PressOf
<1> QED  BY <1>4, <1>5, <1>6, <1>7 DEF PowerInv

\* The fingers are read, and nothing of what they did is rewritten.
LEMMA FingersKeep ==
  ASSUME PowerInv, Touch \/ LetGo \/ UNCHANGED powerVars
  PROVE  PowerInv'
<1>1. /\ Shape
      /\ fingers' \in [button : BOOLEAN, pad : BOOLEAN, touches : 0 .. MaxTouches]
      /\ UNCHANGED <<warned, boot, count, shutdown, acted, screen, glass, retained, seen, ranDry>>
  <2>1. fingers \in [button : BOOLEAN, pad : BOOLEAN, touches : 0 .. MaxTouches]
    BY DEF PowerInv, Shape
  <2>2. CASE Touch
    <3>1. fingers.touches + 1 \in 0 .. MaxTouches
      BY <2>1, <2>2, Times DEF Touch
    <3> QED  BY <2>1, <2>2, <3>1 DEF PowerInv, Touch
  <2>3. CASE LetGo
    BY <2>1, <2>3 DEF PowerInv, LetGo
  <2>4. CASE UNCHANGED powerVars
    BY <2>1, <2>4 DEF PowerInv, powerVars
  <2> QED  BY <2>2, <2>3, <2>4
<1>2. Shape' /\ PanelTells' /\ RunsUnparked'
  BY <1>1 DEF PowerInv, Shape, PanelTells, RunsUnparked, GoingDown
<1>3. RefusalParks' /\ RefusedFlat' /\ DryKept'
  BY <1>1 DEF PowerInv, RefusalParks, RefusedFlat, DryKept, Refusing, GoingDown
<1>4. PressCounted' /\ GlassRemembered' /\ LongPressIsMeant'
  BY <1>1 DEF PowerInv, PressCounted, GlassRemembered, LongPressIsMeant, GoingDown, PressOf
<1> QED  BY <1>2, <1>3, <1>4 DEF PowerInv

LEMMA PowerInitInv == PowerInit => PowerInv
<1> SUFFICES ASSUME PowerInit PROVE PowerInv
  OBVIOUS
<1>1. /\ warned = FALSE /\ fingers = [button |-> FALSE, pad |-> FALSE, touches |-> 0]
      /\ boot = Dark("unpowered") /\ count = 0 /\ shutdown = Running /\ acted = "running"
      /\ screen = Unparked /\ retained = [glass |-> "none", dark |-> FALSE]
      /\ seen = Untouched /\ ranDry = FALSE
  BY DEF PowerInit
<1>2. /\ Running \in Sequencers /\ Running.phase = "running" /\ Running.reason = "none"
      /\ PressOf(Running, Untouched)
      /\ Unparked \in Panels /\ Unparked.said = "none" /\ Unparked.step = "none"
      /\ Unparked.frame = "none" /\ Untouched \in Seens
  BY Times DEF Running, Unparked, Untouched, Sequencers, Panels, Seens, Phases, ParkSteps,
               Frames, Said, PressOf
<1>3. /\ boot \in [path : Paths, flat : BOOLEAN, dark : BOOLEAN, asked : BOOLEAN,
                   since : 0 .. RefusalPasses]
      /\ boot.path = "unpowered"
  BY <1>1, Times DEF Dark, Paths
<1>4. Shape
  <2>1. fingers \in [button : BOOLEAN, pad : BOOLEAN, touches : 0 .. MaxTouches]
        /\ count \in 0 .. MaxBoots
    BY <1>1, Times
  <2>2. retained \in [glass : Said, dark : BOOLEAN]
    BY <1>1 DEF Said
  <2> QED  BY <1>1, <1>2, <1>3, <2>1, <2>2 DEF Shape, Phases
<1>5. PanelTells /\ RunsUnparked /\ RefusalParks /\ RefusedFlat /\ GlassRemembered
  BY <1>1, <1>2, <1>3 DEF PanelTells, RunsUnparked, RefusalParks, RefusedFlat, Refusing,
                          GlassRemembered, Words
<1>6. DryKept /\ PressCounted /\ LongPressIsMeant
  BY <1>1, <1>2, <1>3 DEF DryKept, PressCounted, LongPressIsMeant
<1> QED  BY <1>4, <1>5, <1>6 DEF PowerInv

\* What a step of the unit or of the world does to the facts of the next boot.
LEMMA StepKeeps ==
  ASSUME PowerInv, [PowerNext]_powerVars
  PROVE  /\ PowerInv'
         /\ count' # count /\ boot'.path = "run" => boot'.dark = ranDry
         /\ Refusing /\ boot.flat /\ boot'.path = "off" => glass' = "flat"
<1>1. ASSUME NEW cell, NEW warns \in BOOLEAN, NEW asks, NEW presents \in BOOLEAN,
              Pass(cell, warns, asks, presents)
      PROVE  PowerInv' /\ count' = count /\ ~Refusing
  BY <1>1, PassKeeps DEF Pass, Refusing
<1>1a. CASE Passes
  <2>1. PICK cell \in Readings \cup {NoReading, OnCable}, warns \in {FALSE, ~warned},
             asks \in {{}, {"link"}, {"install"}, {"recovery"}}, presents \in BOOLEAN :
               Pass(cell, warns, asks, presents)
    BY <1>1a DEF Passes
  <2>2. warns \in BOOLEAN
    BY <2>1 DEF PowerInv, Shape
  <2> QED  BY <1>1, <2>1, <2>2
<1>1b. CASE Parks
  <2>1. Pass(NoReading, FALSE, {}, FALSE)
    BY <1>1b DEF Parks
  <2> QED  BY <1>1, <2>1
<1>2. CASE Refuse
  <2>1. count' = count
    BY <1>2 DEF Refuse
  <2> QED  BY <1>2, <2>1, RefuseKeeps
<1>3. CASE Wake \/ Reboot
  <2>1. PICK cause, cell : Boot(cause, cell) /\ (boot.path # "run" \/ boot.asked)
    <3>1. CASE Wake
      BY <3>1 DEF Wake
    <3>2. CASE Reboot
      BY <3>2 DEF Reboot, Refusing
    <3> QED  BY <1>3, <3>1, <3>2
  <2>2. PowerInv' /\ boot'.dark = ranDry
    BY <2>1, BootKeeps
  <2>3. boot'.path # "off"
    BY <2>1 DEF Boot, RefusedFrame
  <2> QED  BY <2>2, <2>3
<1>4. CASE PowerCut
  BY <1>4, PowerCutKeeps
<1>5. CASE PanelDone
  <2>1. boot' = boot /\ count' = count
    BY <1>5 DEF PanelDone
  <2> QED  BY <1>5, <2>1, PanelDoneKeeps DEF Refusing
<1>6. CASE Touch \/ LetGo \/ UNCHANGED powerVars
  <2>1. boot' = boot /\ count' = count
    BY <1>6 DEF Touch, LetGo, powerVars
  <2> QED  BY <1>6, <2>1, FingersKeep DEF Refusing
<1> QED  BY <1>1a, <1>1b, <1>2, <1>3, <1>4, <1>5, <1>6 DEF PowerNext

-----------------------------------------------------------------------------
(* The panel, the byte, the fact and the hold agree in every state.        *)
THEOREM PowerInvariant == PowerSpec => []PowerInv
<1>1. PowerInv /\ [PowerNext]_powerVars => PowerInv'
  BY StepKeeps
<1> QED  BY <1>1, PowerInitInv, PTL DEF PowerSpec

(* The byte the next boot reads names a word only while the glass wears it,*)
(* through refreshes that finish late, refusals, reboots and cut power.    *)
THEOREM GlassRememberedAlways == PowerSpec => []GlassRemembered
<1>1. PowerInv => GlassRemembered
  BY DEF PowerInv
<1> QED  BY <1>1, PowerInvariant, PTL

(* A button never switches the unit off by the press that woke it, nor by  *)
(* one shorter than the hold; nor a covered pad that was never free.       *)
THEOREM LongPressIsMeantAlways == PowerSpec => []LongPressIsMeant
<1>1. PowerInv => LongPressIsMeant
  BY DEF PowerInv
<1> QED  BY <1>1, PowerInvariant, PTL

(* The boot that runs says it went dark for the cell exactly when the unit *)
(* did, however many refused boots, resets and wakes came between.         *)
THEOREM DarknessNamedAlways == PowerSpec => NamesItsDarkness
<1>1. PowerInv /\ [PowerNext]_powerVars =>
        [count' # count /\ boot'.path = "run" => boot'.dark = ranDry]_powerVars
  BY StepKeeps
<1> QED  BY <1>1, PowerInvariant, PTL DEF PowerSpec, NamesItsDarkness

(* A refusal over a flat cell goes off only over a glass that says so.     *)
THEOREM RefusalSaidAlways == PowerSpec => RefusalIsSaid
<1>1. PowerInv /\ [PowerNext]_powerVars =>
        [Refusing /\ boot.flat /\ boot'.path = "off" => glass' = "flat"]_powerVars
  BY StepKeeps
<1> QED  BY <1>1, PowerInvariant, PTL DEF PowerSpec, RefusalIsSaid

==============================================================================
