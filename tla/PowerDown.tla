------------------------------ MODULE PowerDown -------------------------------
(***************************************************************************)
(* How a unit comes up and how it goes dark.  A pass runs the services,    *)
(* turns their requests and the button into a shutdown, parks the panel    *)
(* and drops the rails; a boot decides from its cause and the cell whether *)
(* it becomes a device or goes straight back; what the glass wears outlives*)
(* the rails in a retained byte.  A reset lands between two passes, and    *)
(* the first pass belongs to setup.                                        *)
(*                                                                         *)
(* Source: products/skyblip_go/product.h and main.cpp, core/power/         *)
(* {cutoff,shutdown,wake}.{h,cpp}, services/power.cpp and the parking half *)
(* of services/screen.cpp.  Settings, the image update's records and the   *)
(* other services are in DurableSettings, Capture and ConfigLink.  Left    *)
(* out: a glass too hot to refresh, the unit that misses a required part   *)
(* and runs no service, and the recovery of a unit whose watchdog never    *)
(* armed.  The reset pin stands with the press.                            *)
(***************************************************************************)
EXTENDS PowerLevel

CONSTANTS
  LockoutMv,       \* kBootLockoutMv
  HoldPasses,      \* kLongPressHoldMs, in passes
  ParkPasses,      \* kParkSettleMs, in passes
  ReleasePasses,   \* kReleaseSettleMs, in passes
  RefusalPasses,   \* kRefusalParkCeilingMs, in passes
  MaxTouches,      \* bound on what the fingers do in a behaviour
  MaxBoots         \* bound on the boots of a behaviour

ASSUME TimesAssumption ==
  /\ {HoldPasses, ParkPasses, ReleasePasses, RefusalPasses} \subseteq Nat \ {0}
  /\ {MaxTouches, MaxBoots, LockoutMv} \subseteq Nat

VARIABLES
  monitor,   \* CutoffMonitor: the level and its runs
  warned,    \* CutoffMonitor: supply_warned_
  fingers,   \* [button, pad, touches]
  boot,      \* [path, flat, dark, asked, since]: what this boot was made of;
             \* asked once it has run a pass, or parked its refused frame
  count,     \* how many boots there have been
  shutdown,  \* ShutdownSequencer
  acted,     \* acted_phase_
  screen,    \* ScreenService and the panel: [step, frame, busy, said]
  glass,     \* what the glass wears
  retained,  \* GPREGRET2: [glass, dark]
  seen,      \* what the fingers have really done since the boot
  ranDry     \* the unit went dark for its cell, and no boot has said so yet

powerVars == <<monitor, warned, fingers, boot, count, shutdown, acted,
               screen, glass, retained, seen, ranDry>>

Reasons == {"longPress", "stow", "lowBattery", "link", "install", "recovery"}
Words == {"low", "flat"}

NeverUp == -1
\* A pass that reads no cell, and a reading on the cable.
NoReading == -1
OnCable == 0
Running == [phase |-> "running", reason |-> "none", since |-> 0,
            release |-> NeverUp, hold |-> NeverUp, armed |-> FALSE,
            stowing |-> FALSE, padArmed |-> FALSE]
Unparked == [step |-> "none", frame |-> "none", busy |-> FALSE, said |-> "none"]
Dark(path) == [path |-> path, flat |-> FALSE, dark |-> FALSE, asked |-> FALSE,
               since |-> 0]
Untouched == [up |-> FALSE, down |-> 0, padUp |-> FALSE, padDown |-> FALSE]

GoingDown == shutdown.phase # "running"
Lengthen(age, bound) == IF age < bound THEN age + 1 ELSE age

-----------------------------------------------------------------------------
(* The sequencer.                                                          *)

\* request(): the first reason to arrive wins and nothing cancels it.
Requested(s, reason) ==
  IF s.phase # "running" THEN s
  ELSE [s EXCEPT !.phase = "parking", !.reason = reason, !.since = 0,
                 !.release = NeverUp]

\* Mutant of Released: every pass that finds the button up starts it again.
ReleasedAgain(age, down) == IF down THEN NeverUp ELSE 0
\* ButtonRelease::settled(), as the age of the release: NeverUp while down.
Released(age, down) ==
  IF down THEN NeverUp
  ELSE IF age = NeverUp THEN 0 ELSE Lengthen(age, ReleasePasses)

\* Mutant of Held: the press that woke the unit counts as a hold.
HeldFromTheWake(s, down, pad) ==
  LET longer == [s EXCEPT !.hold = Lengthen(@, HoldPasses)]
  IN IF ~down THEN [s EXCEPT !.hold = NeverUp, !.armed = TRUE]
     ELSE IF s.hold = NeverUp THEN [s EXCEPT !.hold = 0]
     ELSE IF longer.hold = HoldPasses THEN Requested(longer, "longPress")
     ELSE longer

Held(s, down, pad) ==
  LET armed == [s EXCEPT !.padArmed = @ \/ ~pad]
      longer == [armed EXCEPT !.hold = Lengthen(@, HoldPasses),
                              !.stowing = @ /\ pad]
  IN IF ~down THEN [armed EXCEPT !.hold = NeverUp, !.armed = TRUE]
     ELSE IF s.hold = NeverUp
     THEN [armed EXCEPT !.hold = 0, !.stowing = armed.padArmed /\ pad]
     ELSE IF longer.armed /\ longer.hold = HoldPasses
     THEN Requested(longer, IF longer.stowing THEN "stow" ELSE "longPress")
     ELSE longer

Ticked(s, down, pad) ==
  CASE s.phase = "running" -> Held(s, down, pad)
    [] s.phase = "parking" ->
         IF s.since < ParkPasses THEN [s EXCEPT !.since = @ + 1]
         ELSE [s EXCEPT !.phase = "awaitRelease", !.since = 0]
    [] s.phase = "awaitRelease" ->
         LET r == Released(s.release, down)
         IN [s EXCEPT !.release = r,
                      !.phase = IF r = ReleasePasses THEN "off" ELSE @]
    [] OTHER -> s

\* The requests of one pass, in the order run_pass() asks.
Asked(s, level, asks) ==
  LET low == IF level = "flat" THEN Requested(s, "lowBattery") ELSE s
      link == IF "link" \in asks THEN Requested(low, "link") ELSE low
      install == IF "install" \in asks THEN Requested(link, "install") ELSE link
  IN IF "recovery" \in asks THEN Requested(install, "recovery") ELSE install

-----------------------------------------------------------------------------
(* The panel.                                                              *)

WornPoweredOff(frame) == frame \notin {"installing", "recovery"}

\* Mutant of Parked: the word is remembered where the frame is chosen.
ParkedWithTheWord(sc, frame, lost) ==
  [sc EXCEPT !.frame = frame, !.said = IF frame \in Words THEN frame ELSE "none",
             !.step = IF lost THEN "sleep"
                      ELSE IF WornPoweredOff(frame) THEN "frame" ELSE "wipe"]
\* park(): a lost supply latches no frame, so the panel only sleeps.
Parked(sc, frame, lost) ==
  [sc EXCEPT !.frame = frame,
             !.step = IF lost THEN "sleep"
                      ELSE IF WornPoweredOff(frame) THEN "frame" ELSE "wipe"]

FrameOf(reason, level) ==
  CASE reason = "install" -> "installing"
    [] reason = "recovery" -> "recovery"
    [] reason = "stow" -> "blank"
    [] reason = "lowBattery" -> "flat"
    [] OTHER -> IF level \in {"low", "critical", "flat"} THEN "low" ELSE "wordmark"

\* settle_park(): one command a pass, and only to a panel that is ready.
SettledPark(sc) ==
  IF sc.step = "none" \/ sc.busy THEN sc
  ELSE CASE sc.step = "wipe" -> [sc EXCEPT !.step = "frame", !.busy = TRUE]
         [] sc.step = "frame" ->
              [sc EXCEPT !.step = "sleep", !.busy = TRUE,
                         !.said = IF sc.frame \in Words THEN sc.frame ELSE "none"]
         [] sc.step = "sleep" -> [sc EXCEPT !.step = "none"]

\* What the glass wears after that command.
Worn(sc) ==
  IF sc.step \in {"none", "sleep"} \/ sc.busy THEN glass
  ELSE IF sc.step = "wipe" THEN "black" ELSE sc.frame

Parking == screen.step # "none"

-----------------------------------------------------------------------------
(* A boot.                                                                 *)

\* wake.cpp: what the cell may refuse.
Below(cell, mv) == cell # OnCable /\ cell < mv

SleepsAgain(cause, cell) ==
  \/ Below(cell, IF cause = "restart" THEN FlatMv ELSE LockoutMv)
  \/ cause = "charger" /\ ~fingers.button

\* Mutant of RefusedFrame: any word already on the glass is left there.
RefusedFrameLeavesAny(cell) ==
  IF Below(cell, LockoutMv)
  THEN IF retained.glass # "none" THEN "leave" ELSE "flat"
  ELSE IF retained.glass = "none" THEN "leave" ELSE "wordmark"
RefusedFrame(cell) ==
  IF Below(cell, LockoutMv)
  THEN IF retained.glass = "flat" THEN "leave" ELSE "flat"
  ELSE IF retained.glass = "none" THEN "leave" ELSE "wordmark"

\* Mutant of KeptDark: the retained bit is read and never dropped.
KeptDarkForGood(again, dark) == dark
\* set_went_dark_flat(): a boot that runs drops it.
KeptDark(again, dark) == again /\ dark
\* setup(): what went dark is read, told, and kept only by a boot that refuses.
Boot(cause, cell) ==
  LET dark == retained.glass = "flat" \/ retained.dark
      again == SleepsAgain(cause, cell)
  IN /\ count < MaxBoots
     /\ count' = count + 1
     /\ boot' = [path |-> IF ~again THEN "run" ELSE RefusedFrame(cell),
                 flat |-> again /\ Below(cell, LockoutMv), dark |-> dark,
                 asked |-> FALSE, since |-> 0]
     /\ retained' = [retained EXCEPT !.dark = KeptDark(again, dark)]
     /\ ranDry' = IF again THEN ranDry ELSE FALSE
     /\ monitor' = Booted
     /\ warned' = FALSE
     /\ shutdown' = Running /\ acted' = "running"
     /\ screen' = Unparked /\ seen' = Untouched
     /\ UNCHANGED <<fingers, glass>>

Refusing == boot.path \in {"leave", "wordmark", "flat"}

\* park_refusal(): the frame is bounded, the finger is not.
Refuse ==
  /\ Refusing
  /\ LET released == Released(shutdown.release, fingers.button)
         first == ~boot.asked /\ boot.path # "leave"
         asked == IF first THEN Parked(screen, boot.path, FALSE) ELSE screen
         sc == IF boot.path = "leave" THEN screen ELSE SettledPark(asked)
         since == IF boot.path = "leave" \/ first THEN 0
                  ELSE Lengthen(boot.since, RefusalPasses)
         done == released = ReleasePasses
                 /\ (boot.path = "leave" \/ sc.step = "none" \/ since = RefusalPasses)
     IN /\ shutdown' = [shutdown EXCEPT !.release = released]
        /\ screen' = IF done THEN Unparked ELSE sc
        /\ glass' = IF boot.path = "leave" THEN glass ELSE Worn(asked)
        /\ retained' = [glass |-> IF boot.path = "leave" THEN retained.glass ELSE sc.said,
                        dark |-> retained.dark \/ (first /\ boot.path = "flat")]
        /\ ranDry' = (ranDry \/ (first /\ boot.path = "flat"))
        /\ boot' = IF done THEN Dark("off")
                   ELSE [boot EXCEPT !.asked = @ \/ first, !.since = since]
  /\ UNCHANGED <<monitor, warned, fingers, count, acted, seen>>

-----------------------------------------------------------------------------
(* A pass of a running unit.                                               *)

\* The cell a pass reads, and nothing when it reads none.
Reads(cell) ==
  CASE cell = NoReading -> UNCHANGED monitor
    [] cell = OnCable -> monitor' = OnTheCable(monitor)
    [] OTHER -> monitor' = Applied(monitor, cell)

Observed ==
  [up |-> seen.up \/ ~fingers.button,
   down |-> IF fingers.button THEN Lengthen(seen.down, HoldPasses + 1) ELSE 0,
   padUp |-> seen.padUp \/ ~fingers.pad,
   padDown |-> fingers.button /\ fingers.pad /\ (seen.padDown \/ seen.down = 0)]

\* drive_shutdown() on the pass the phase turned to parking.
Drives(s, sc) ==
  IF s.phase = "parking" /\ acted # "parking"
  THEN Parked(sc, FrameOf(s.reason, monitor'.level), warned')
  ELSE sc

\* What the rails do at the end of the pass: a reboot starts a new boot, which
\* is a restart on the same cell.
Ends(s, sc) ==
  IF s.phase # "off" THEN "stays"
  ELSE IF s.reason = "install" THEN "reboots"
  ELSE IF sc.step # "none" THEN "stays" ELSE "off"

\* A page is only drawn by a pass whose cell and supply let it, on a panel that
\* is ready.
Draws(presents) ==
  presents => ~GoingDown /\ ~screen.busy /\ monitor'.level # "flat" /\ ~warned'

Pass(cell, warns, asks, presents) ==
  /\ boot.path = "run"
  /\ Reads(cell)
  /\ warned' = (warned \/ warns)
  /\ Draws(presents)
  /\ shutdown' = Ticked(IF GoingDown THEN shutdown ELSE Asked(shutdown, monitor'.level, asks),
                        fingers.button, fingers.pad)
  /\ acted' = shutdown'.phase
  /\ seen' = IF GoingDown THEN seen ELSE Observed
  /\ \E drawn \in {IF presents THEN [screen EXCEPT !.busy = TRUE, !.said = "none"] ELSE screen} :
     \E driven \in {Drives(shutdown', drawn)} :
       LET parks == shutdown'.phase # "running"
           dries == driven # drawn /\ driven.frame = "flat"
       IN /\ screen' = IF parks THEN SettledPark(driven) ELSE driven
          /\ glass' = IF parks /\ Worn(driven) # glass THEN Worn(driven)
                      ELSE IF presents THEN "page" ELSE glass
          /\ retained' = [glass |-> screen'.said, dark |-> retained.dark \/ dries]
          /\ ranDry' = (ranDry \/ dries)
  /\ boot' = IF Ends(shutdown', screen') = "stays" THEN [boot EXCEPT !.asked = TRUE]
             ELSE Dark(Ends(shutdown', screen'))
  /\ UNCHANGED <<fingers, count>>

-----------------------------------------------------------------------------
(* The world.                                                              *)

\* A press or a cable wakes a unit that is off; a cell put back, one without.
Wake ==
  \E cell \in Readings \cup {OnCable} :
    \/ boot.path = "off" /\ \E cause \in {"press", "charger"} : Boot(cause, cell)
    \/ boot.path = "unpowered" /\ Boot("powerOn", cell)

\* dfu.trigger(), and a watchdog bite or a fault; all keep the retained byte.
Reboot ==
  /\ \/ boot.path = "reboots"
     \/ boot.path = "run" /\ boot.asked
     \/ Refusing
  /\ \E cell \in Readings \cup {OnCable} : Boot("restart", cell)

\* The cell is pulled and put back: the retained byte and the fact are gone.
PowerCut ==
  /\ boot.path # "unpowered"
  /\ boot' = Dark("unpowered")
  /\ retained' = [glass |-> "none", dark |-> FALSE]
  /\ ranDry' = FALSE
  /\ monitor' = Booted
  /\ warned' = FALSE /\ shutdown' = Running /\ acted' = "running"
  /\ screen' = Unparked /\ seen' = Untouched
  /\ UNCHANGED <<fingers, count, glass>>

PanelDone ==
  /\ screen.busy
  /\ screen' = [screen EXCEPT !.busy = FALSE]
  /\ UNCHANGED <<monitor, warned, fingers, boot, count, shutdown, acted,
                 glass, retained, seen, ranDry>>

Touch ==
  /\ fingers.touches < MaxTouches
  /\ \E f \in {[fingers EXCEPT !.button = ~@, !.touches = @ + 1],
               [fingers EXCEPT !.pad = ~@, !.touches = @ + 1]} : fingers' = f
  /\ UNCHANGED <<monitor, warned, boot, count, shutdown, acted, screen,
                 glass, retained, seen, ranDry>>

\* A finger that is down comes up in the end.
LetGo ==
  /\ fingers.button
  /\ fingers' = [fingers EXCEPT !.button = FALSE]
  /\ UNCHANGED <<monitor, warned, boot, count, shutdown, acted, screen,
                 glass, retained, seen, ranDry>>

PowerInit ==
  /\ monitor = Booted
  /\ warned = FALSE
  /\ fingers = [button |-> FALSE, pad |-> FALSE, touches |-> 0]
  /\ boot = Dark("unpowered") /\ count = 0
  /\ shutdown = Running /\ acted = "running"
  /\ screen = Unparked /\ glass = "page"
  /\ retained = [glass |-> "none", dark |-> FALSE]
  /\ seen = Untouched /\ ranDry = FALSE

Passes ==
  /\ ~GoingDown
  /\ \E cell \in Readings \cup {NoReading, OnCable}, warns \in {FALSE, ~warned},
        asks \in {{}, {"link"}, {"install"}, {"recovery"}}, presents \in BOOLEAN :
          Pass(cell, warns, asks, presents)

\* Going down the services no longer run: nothing is read, asked or presented.
Parks == GoingDown /\ Pass(NoReading, FALSE, {}, FALSE)

PowerNext ==
  \/ Passes \/ Parks \/ Refuse \/ Wake \/ Reboot \/ PowerCut
  \/ PanelDone \/ Touch \/ LetGo

PowerSpec == PowerInit /\ [][PowerNext]_powerVars
FairPowerSpec ==
  /\ PowerSpec
  /\ WF_powerVars(Parks) /\ WF_powerVars(Refuse)
  /\ WF_powerVars(PanelDone) /\ WF_powerVars(LetGo)

-----------------------------------------------------------------------------
PowerTypeOK ==
  /\ monitor \in Monitors
  /\ warned \in BOOLEAN /\ ranDry \in BOOLEAN
  /\ fingers \in [button : BOOLEAN, pad : BOOLEAN, touches : 0 .. MaxTouches]
  /\ boot \in [path : {"unpowered", "off", "reboots", "run", "leave", "wordmark", "flat"},
               flat : BOOLEAN, dark : BOOLEAN, asked : BOOLEAN,
               since : 0 .. RefusalPasses]
  /\ count \in 0 .. MaxBoots
  /\ shutdown \in [phase : {"running", "parking", "awaitRelease", "off"},
                   reason : Reasons \cup {"none"}, since : 0 .. ParkPasses,
                   release : NeverUp .. ReleasePasses, hold : NeverUp .. HoldPasses,
                   armed : BOOLEAN, stowing : BOOLEAN, padArmed : BOOLEAN]
  /\ acted \in {"running", "parking", "awaitRelease", "off"}
  /\ screen.step \in {"none", "wipe", "frame", "sleep"}
  /\ screen.said \in Words \cup {"none"} /\ screen.busy \in BOOLEAN
  /\ retained \in [glass : Words \cup {"none"}, dark : BOOLEAN]
  /\ seen.down \in 0 .. HoldPasses + 1

(* A retained word is the word the glass wears: the next boot may leave a  *)
(* frame alone because the byte says so, so a byte that outlived its frame *)
(* would leave a flat unit looking like a live one.                        *)
GlassRemembered == retained.glass \in Words => glass = retained.glass

(* The boot that runs says the unit went dark for its cell exactly when it *)
(* did, once, whatever refused presses, cables and resets came between.    *)
NamesItsDarkness ==
  [][count' # count /\ boot'.path = "run" => boot'.dark = ranDry]_powerVars

(* A press a flat cell refuses ends on FLAT BATTERY, whether this refusal  *)
(* painted it or left the frame an earlier road to it had painted.         *)
RefusalIsSaid ==
  [][Refusing /\ boot.flat /\ boot'.path = "off" => glass' = "flat"]_powerVars

(* A switch-off by the button is one a thumb asked this boot for: the      *)
(* button was up since the boot, then down the whole hold; a stow besides  *)
(* found the pad free once and covered through all of that hold.           *)
LongPressIsMeant ==
  /\ shutdown.reason \in {"longPress", "stow"} => seen.up /\ seen.down > HoldPasses
  /\ shutdown.reason = "stow" => seen.padUp /\ seen.padDown

(* A shutdown that started ends, and a refused boot goes back to sleep: no *)
(* panel, phase, request or order of them holds the rails up for good.     *)
GoesDark ==
  /\ (boot.path = "run" /\ GoingDown) ~> ~(boot.path = "run" /\ GoingDown)
  /\ Refusing ~> ~Refusing
=============================================================================
