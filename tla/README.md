# Skyblip: models, checks and proofs

Skyblip is the firmware of a small traffic beacon for light aircraft: it hears and tells
positions on the ADS-L slots, warns its pilot, takes commands from a phone, and keeps a log of
every flight on the part's flash. This directory holds TLA+ models of the firmware under
`src/firmware`, the TLC configurations that check them on small instances, and the proofs TLAPS
checks for every instance.

Contents: [what is here](#what-is-here), [the system](#the-system),
[the modules](#the-modules), [the runs](#the-runs), [fairness](#fairness),
[the proofs](#the-proofs), [what the models found](#what-the-models-found),
[not modelled](#not-modelled), [the plan](#the-plan).

## What is here

| Module | What it holds | Run |
| --- | --- | --- |
| `SectorAllocator` | the sector pool two log rings share | `allocator` |
| `LogRings` | what that pool promises, as two queues: the abstract specification | `allocator` |
| `SectorRings` | the pool mapped to `LogRings` | `allocator` |
| `MCSectorAllocator` | both instantiated for TLC | `allocator` |
| `RecordStore` | the record stores over the pool and the part | `store`, `store_erase` |
| `LogStoreProofs` | the pool's properties, that it implements `LogRings`, and the stores' over it, proved | |
| `FlightLog` | what becomes a flight's file | `flight` |
| `FlightLogProofs` | the file's properties, proved | |
| `Capture` | a diagnostics capture, from the ring in RAM to its end marker | `capture` |
| `CaptureProofs` | the capture's properties, proved | |
| `ConfigLink` | the phone's commands, the prompt and its presses, the answers | `link` |
| `ConfigLinkProofs` | the link's properties, proved | |
| `PowerLevel`, `Cutoff` | the ladder of levels; the monitor over a stream of readings | `warnings` |
| `PowerDown` | how a unit comes up and goes dark (over `PowerLevel`) | `power` |
| `PowerDownProofs` | the unit's properties, proved | |
| `DurableSettings` | settings and the record of an update, across resets and images | `settings`, `found_revert` |
| `DurableSettingsProofs` | the settings' and the record's properties, proved | |
| `SlotMap`, `WriteWindow` | the second as the radio cuts it; who may stall the core when | `window` |
| `RfExecutor`, `RadioDwells` | the executor's thread; the loop that keeps it a dwell ahead | `radio` |
| `RadioProofs` | where a burst airs, proved | |
| `Traffic` | the table of aircraft and the tracker of what was said | `warnings` |
| `MCWarnings` | `Cutoff` and `Traffic` side by side | `warnings` |
| `DecisionsProofs` | the properties of the window, the monitor and the sky, proved of each alone | |

`PROJECT.json` lists the components, the source lines each definition stands for, the runs, a
mutant each property refutes, the hazards and the theorems.

## The system

One cooperative loop (`runtime/loop.h`, `products/skyblip_go/product.h`) runs each service once a
pass; interrupts, the radio executor's thread and the Bluetooth threads only push onto bounded
queues (`core/bus/bus.h`) that the services drain. A pass must be short: the radio has three dwells
a second, and flash work stalls the core, so anything that writes asks for a window first and comes
back next pass if refused.

| Component | State | Operations | What is hard | What makes it correct |
| --- | --- | --- | --- | --- |
| Sector pool (`core/store`) | a label a sector, a spare a ring, one counter, the losses | claim, prepare, note an erase, release, note a header, quarantine | order rebuilt from headers after a cut; one ring living off the other; sectors between rings | one order; never the frontier; oldest first; the flights' floor; the nth sector of a session is the nth |
| Record store (`services/record_store`, `record_pool`) | cursor, session, spare known erased, erase in progress, index | begin and end a session, append, prepare, ask for room, erase all, rebuild, list, read | a cut or a refusal between any two operations of the part; two stores over one pool; an erase of many passes | what is listed is what was written; no byte written twice; losses told; an erase ends |
| Flight log (`core/flight/log_*`, `services/flight_log`) | the ring of fixes, what is owed, the session, the encounters and their backlog | sample, take off, land, drain, erase | a landing written over several passes while the next flight begins; full ring, full backlog, full store | a file is one flight, ended by its last fix; nothing owed is lost untold; a landing is finished |
| Capture (`services/capture`, `core/diagnostics/recorder`) | a ring of records, the gap not yet told, open, ended, stopped | arm, record, drain, tell a rotation, stop, park | the last two slots of the last sector; a marker deferred; power-off in one pass | every record is stored or told in a gap; nothing follows the end; a stopped capture closes |
| Durable writes (`core/timing/durable_write`, `core/bus/state.h`) | a request, when first and last asked, what the pass has booked | request, decide, place, refuse, book | a window judged on a view that ages; several writers; a bound that forces | no placed write meets what the radio owes; a write is forced only under changes that do not stop, or in a crowded second |
| Configuration and log link (`core/comms`, `services/config_link`) | up to three sessions, one claim, one prompt, the upload window, one reply held on each side | connect, command, confirm, disconnect, take off, expire, list, read, erase | events lost from a full queue; a prompt confirmed in another state than it was asked in; a reply held while its reader leaves | one central commands; a prompt dies with its holder; the pilot confirms what was read; answers are whole |
| Settings and update (`core/settings`, `core/dfu`, `product.h`) | two blobs, the record of an update, a running and a staged image | change, write, park, swap, confirm, revert | a reset between any two writes; three witnesses of one update; blobs in another image's layout | a change is written within its bound; a revert comes back to what was left; the outcome told is what happened |
| Power and shutdown (`core/power`, `main.cpp`, `services/screen`) | a level and its runs, a phase, what the glass wears | sample, warn, ask, release, park, boot, refuse | a cell that recovers; the press that woke the unit; a panel that is busy; a boot the cell refuses | the level answers for its readings; the last phase is reached; the glass names why |
| Radio and slots (`services/radio`, `core/timing`, `platform/zephyr/rf.h`) | the dwell flying, the one ahead, the one retired, the second last spoken in | plan, arm, promote, abort, credit, expire | two threads; reports that come after the dwell; the second dwell over the edge; a sentence that comes late | a burst airs in its own dwell; own-ship speaks in every second; each burst is credited when it flew; never between dwells |
| Traffic and alarm (`core/traffic`, `services/traffic`, `services/alarm`) | a table of aircraft, a tracker of what was said | hear, age, evict, assess, dismiss, withdraw | a full table; leases; a tracker that outlives the table and the reverse | an aircraft in alarm keeps its place, is told of once and stays quiet once dismissed |
| Identity, pages, lamp, sounder, GNSS, flight state, protocols | see [not modelled](#not-modelled) | | | |

How they meet: the flight log and the capture each own a `RecordStore`; both stores share one
`RecordPool`, hence one allocator and one window; the log link reads both; the erase a pilot
confirms on the link (or its page) is run by the flight log; the radio publishes the dwell that the
window is judged by; the power level decides who may write; the shutdown parks them all. Under
`hazards`, `PROJECT.json` lists each place where these go wrong in ways a test would hardly reach.

## The modules

Each module's header says which files it is of and what it leaves out; the map in `PROJECT.json`
gives the lines of every definition. One name is used for one thing: a variable that exists only to
state a property is commented *history* where it is declared, and takes part in no guard.

### SectorAllocator: the pool

The allocator never touches flash: it keeps a label per sector in RAM (`label`: owner, sequence,
session, start) and answers which sector a ring is handed next. The model has its fields one for
one, and one more variable, `header`, for what the head of each sector would decode to at the next
boot, because that is all that survives a reset.

| Model | Code |
| --- | --- |
| `Claim`, `Chosen`, `Victim`, `Evictable`, `AboveFloor`, `NextFree`, `Take` | `claim()`, `choose()`, `evictable()`, `next_free()`, `take()` |
| `Prepare`, `Reserve`, `NoteErased`, `Release`, `NoteTaken` | the public operations of the same name |
| `Boot`, `NewestOf`, `SequenceOf` | `reset()` and a `note_sector()` or `quarantine()` per sector, in the order of the scan |
| `SessionRun`, `Bisect`, `SessionSector` | `session_run()`, `session_sector()`: the walks the index and the reads use |
| `Labelled`, `Prepared`, `SpareErased`, `GivenBack`, `Rescan` | the actions: an operation with what its one caller does to the part |

`Labelled` claims, then erases and labels: the part may refuse either, so the header is what it was,
nothing, or the new label. `GivenBack` is the whole of an erase of a ring. `Rescan` is a reset
in which any one header may read as noise or not read at all; several are several resets. A session
is any value: the pool compares sessions for equality only. The counter is bounded by `MaxSequence`
(it is 32 bits in the code, at one number per sector claimed: the flash wears out first).

### LogRings: what the pool promises

Two queues of `[session, start]`, without sectors, labels, spares or numbers. A ring grows at
the tail; room is made at a head, never by taking a ring's only sector, by the capture from
the flights only above the floor, and by the flights from themselves only when the capture has one
sector left to give; a session's opening is named once; what a ring loses of the session at its
tail is counted. `part` follows the rings by single sectors erased or labelled, and a reset goes
back to it. `SectorRings` maps each ring to the queue of its labelled sectors by
number, and TLC checks that every step of the pool is a step of `LogRings` (`KeepsPromise`).

### RecordStore: the stores

`RecordStore` extends `SectorAllocator` and puts a part under it: `slots`, each erased, a
record, torn, or *spoiled* (programmed twice between two erases). A store's operation is cut where
the code calls the part: `AppendRun` claims and stops at the first operation (`work`), then
`EraseClaimed`, `WriteHeader`, `WriteSlots`, each of which may succeed, be refused (`Refused`) or be
cut by the power with whatever the part is left with. The loop is cooperative, so while one store
has an operation under way nothing else moves; between two operations anything may. The window is
abstracted: a refused window is a pass in which nothing happens.

| Model | Code |
| --- | --- |
| `AppendRun`, `ClaimSector`, `RunSlots` | `append()`, `claim_sector()`, `run_slots()` |
| `BeginSession`, `TakeLostRecords`, `PrepareSpare`, `EraseSpare`, `RoomBeyondThisSector` | the operations of the same name |
| `BeginErase`, `StepErase`, `EraseStepped`, `FinishErase` | `begin_erase()`, `step_erase()`, one sector at a time |
| `PowerCut`, `Recovered` | the pool's `open()` and scan, the store's `recover()` |
| `Index`, `TailOf`, `FrontierSlot`, `ReadRecord` | what a list and a read answer: `rebuild_index()`, `tail_of()`, `frontier_slot()`, `read_records()` |

`named`, `given`, `written` and `gone` are history: the last session a service named, the last the
pilot asked to erase, the records `append()` answered Ok for, the sectors lost and not yet told.
Three assumptions: services name sessions in increasing order and never twice (with UTC they do;
without it see the hazard at `capture.cpp:36`); a run is any number of records up to
`run_slots()` (its page is a matter of cost); a store does not append while it is erasing, which is
how both services call it.

### FlightLog: what a flight leaves

One action, `Pass`, is the whole of `FlightLogService::tick()`: sample if one is due, decide
(`Action`), open or close the session and the encounters, watch the traffic slots, then drain
encounters and fixes until the store refuses. The store is the sequence `file` of the records it
took; how many it takes in a pass is free. `ErasePass` is a pass of the erase, `PowerCut` a reset.
`owed` and `events.raised` are history: what the file was owed. A traffic slot is in one of three
states (nobody, an encounter under way, one to be ended), which is what `heard()` and
`vacant()` tell apart.

### Capture: from the tap to the end marker

`recorder` is the ring of `core/diagnostics/recorder`; `capture` the service's flags; `store` the
capture's half of the pool, as far as its caller can tell. A pass is cut at each call of the store,
because each may be answered Ok, Deferred, NoSector or Fault: `Tick` opens, `DrainRun` appends a
run, `Announce` tells what the pool recycled, `Refused` is `stop_on_refusal()`, `Close` the end
marker, `EndPass` the rest. Between passes records are tapped (`Tap`), the pilot arms or stops
(`Toggle`), the flights claim or give back sectors, and `Park` is the power-off, which runs the same
steps in one call. Records are numbered as they are pushed (`made`), so that the order and the
count of what reaches the file can be compared with what was pushed.

### ConfigLink: the phone

The Bluetooth thread (`Connect`, `Disconnect`, `Write`, `Upload`) may act around any step of the
poll; the pass is the sequence `at`: move events and frames onto the bus (`PollEvents`,
then `PollFrame` until `Polled`, each into a bounded queue), drain the events, hear the flight state, send what the
link refused last time (`Resume`), execute commands while no answer waits (`Command`), tick the
prompt's and the image's timers, serve the log (`ResumeLog`, `Request`), read the button
(`Press`, `Input`) and present. `reply` and `chunks` are the two outboxes: a frame held and a run of
frames under way. A session id is the index of a connection, so the next central has the same one.
`window`, `approved`, `installing` and `gate` are the upload window as seen by the loop, by the
prompt and by the MCUmgr thread.

### PowerLevel, Cutoff, PowerDown

`PowerLevel` is the arithmetic of `CutoffMonitor::apply`: a run counter down and one up for each of
three steps, over natural-number readings. `Cutoff` puts it under any stream of readings, cables and
boots and remembers (`recent`) the last readings that counted. `PowerDown` puts it in a unit: `Pass`
is the loop's pass with the shutdown sequencer after it, `Boot` decides from the cause and the cell,
`Refuse` is the road of a boot that goes straight back, the panel finishes when it does
(`PanelDone`), fingers come and go (`Touch`, `LetGo`), and a cut or a reset falls between two
passes. `glass` is what e-paper wears, which outlives the rails, and `retained` the byte that
remembers it. `ranDry` and `seen` are history.

### DurableSettings

`settings` and `window` are the RAM side: the value, its dirty flag and the durable write's request.
`flash` has the three records (`settings`, `prior`, `update`), `image` the bootloader's two slots.
`RecordUpdate`, `KeepSettings`, `Trigger` and `RailsOff` are the four steps of the way into a swap,
with `Cut` possible between any two; `Bootloader` decides what runs and `Boot` what that image makes
of the records it finds. Image `i` lays its blob out as layout `i`, which decides what it can adopt.
`OnFlash` is the value that image would come up with: a blob it cannot adopt gives the defaults.
NVS is external: a record is written whole or not at all, or refused.

### SlotMap, WriteWindow, RfExecutor, RadioDwells

`SlotMap` holds the pure part of `core/timing`: which dwell a phase is in, the instants own-ship may
key at, and `FreeAt`, the rule for a stall. `WriteWindow` runs passes over it: the settings' writer
ahead of the radio on a view a pass old, the radio's publication, then the stores which book one
after another. `RfExecutor` is the thread: it takes a plan, keys each burst, collects, finishes or
is aborted; `Arm` and `Aborted` are what the loop may do under the scheduler's lock, and because the
thread is above the loop, time does not pass and no pass begins while it has something due
(`Settled`). `RadioDwells` is the loop's side: `Pass` carries the clock to the latched edge, takes
the second's sentence or not, settles what was sent, keeps one dwell ahead (`QueueNext`) and drains
the reports; `Tick` is the time between, with an edge that may be lost.

### Traffic

`table` is `TrafficTable`'s slots, `tracker` `AlarmTracker`'s. A pass hears the reports (`Hear`:
prefer direct, place, displace, turn away), ages the table, then grades every target and decides
(`Tick`, with `GradedAll`, `Notified`, `Withdrawn`, `ForgetStale`, `Announced`). Which aircraft are
inside the ring, in formation, fresh or own fix lost are inputs; a touch falls `Between` passes.
`told`, `touched`, `ring`, `gap` and `recycled` are history: who was announced, dismissed, graded
inside, for how long outside, and whether a slot was taken from somebody still around.

## The runs

Every property is an invariant, an action property or a liveness property of the listed run, and
each has a mutant in `PROJECT.json`: the same definition with a plausible bug, which TLC finds.

| Run | Instance | Checks |
| --- | --- | --- |
| `allocator` | 3 sectors, floor 2, two sessions (symmetric), the counter bounded at 4; 110,000 states | `NumbersOrdered`, `SectorByIndex`, `KeepsPromise` |
| `store` | both stores, 3 sectors of 2 slots, two sessions, floor 1, four claims, cuts anywhere; 650,000 states | `WholeOrTruncated`, `NoByteTwice`, `LossesReported` |
| `store_erase` | both stores, 2 sectors of 1 slot, erase and room asked for at any time, every operation refused at will, cuts anywhere, fair; 166,000 states | `CursorOwned`, `SpareBlank`, `EraseEnds` |
| `flight` | a ring of 2 fixes, a backlog of 1, one traffic slot, 4 samples, erases and resets, fair; 52,000 states | `FileIsAFlight`, `FixesAccounted`, `EventsAccounted`, `ClosingEnds` |
| `capture` | a ring of 3, passes of 2, sectors of 4, a pool of 2, 5 records, faults, fair; 235,000 states | `RecordsAccounted`, `EndCloses`, `CaptureCloses` |
| `link` | two sessions, dump, install, read and erase, answers of 3 frames, queues of 1 to 3, two arrivals and two commands, fair; 2.5 million states | `AuthorityHeld`, `AnswersWhole`, `UploadsHaveAHolder`, `KindWasRead`, `LinkComesToRest` |
| `warnings` | the code's thresholds, runs of 3, 7 readings; 3 aircraft (symmetric), a table of 1 and a tracker of 2; 635,000 states | `RunActs`, `MovesOnARun`, `ToldOnceAndKept`, `ToneIsMeant` |
| `power` | 3 readings, runs of 1, times of 1 or 2 passes, two touches, three boots, fair; 246,000 states | `GlassRemembered`, `LongPressIsMeant`, `NamesItsDarkness`, `RefusalIsSaid`, `GoesDark` |
| `settings` | two images, 3 values, a ceiling of 3 passes, three changes, three boots, one refusal; 3.1 million states | `ChangeIsPrompt`, `ComesBackAsLeft`, `SwitchedOffIsSaved`, `FateTold` |
| `window` | a second of 36 units, passes 1 or 2 units apart, costs of 1 and 3 with any time spent up to the cost, a ceiling of 50; 787,000 states | `PlacedOwesNothing`, `ForcedOnlyWhenCrowded` |
| `radio` | a second of 9 units, two dwells and the uplink, a free-running phase 8 units off, passes at most 2 units apart, one lost edge, one fault, almost five seconds; 4.0 million states | `AirsWhereItSays`, `SpeaksInEverySecond`, `CreditIsTrue`, `ListensThrough` |
| `found_revert` | three images, three changes, four boots | `ComesBackAsLeft`, violated |

What the less obvious ones say:

- `NumbersOrdered`: no two sectors in use share a number, and none is above the counter, in RAM
  *and* in the headers the next boot will read. This is what a boot relies on to put the rings back
  in order when a header in the middle reads as noise.
- `SectorByIndex`: the bisection over sequence numbers, with gaps left by the other ring and by what
  was recycled, lands on the sector that counting would.
- `WholeOrTruncated`: whatever order of claims, cuts and recycling came before, every session a
  list names reads back in the order written, from its first record unless it is listed truncated,
  up to the last one `append()` answered Ok for; and it is listed truncated only if its opening is
  gone.
- `LossesReported`: the capture's gap record never says less than was lost (it may say more,
  see below).
- `CursorOwned`: a store that will append without claiming writes into the frontier of its own ring,
  under a header that is really on the part.
- `FileIsAFlight`: in a session's file fixes are in time order, ground fixes only before the first
  in flight, and the record that ends it is the last of all, encounters included.
- `FixesAccounted`, `EventsAccounted`: what was owed is in the file, still waiting, or in the
  counter of what was dropped, through takeoffs in the middle of a landing.
- `RecordsAccounted`: every record pushed is, once and in order, in the file, in the ring, or told by
  a gap record standing where it was dropped.
- `AnswersWhole`: the frame that waits is the first of its answer that has not arrived.
- `KindWasRead`: a second press confirms a prompt of the kind that is on the glass, though the phone
  may have replaced it since. Of the *kind*: see below for what the screen's comment says.
- `RunActs` and `MovesOnARun` are the two directions of "the level is what the last run of readings
  says".
- `ToldOnceAndKept`: an aircraft graded inside on a fresh report has been announced, is not announced
  again until it has been outside for a whole floor, and leaves the table only with its lease.
- `GlassRemembered`, `NamesItsDarkness`, `RefusalIsSaid`: the three readers of the retained byte
  agree with what the e-paper really wears and why the unit really went dark.
- `ComesBackAsLeft`: an image that wrote its settings finds them when it next boots, through a swap
  and a revert.
- `PlacedOwesNothing`: a write that was placed lies inside one dwell, clear of the next second's edge
  and over before the first instant own-ship may draw, though it was judged on an older view and
  other writers had booked in the same pass.
- `ForcedOnlyWhenCrowded`: a settings write goes outside the window only while changes keep coming
  (the last is less than a settle and a second old) or when a store has booked since the last
  change; see below for what a wipe does to it.
- `SpeaksInEverySecond`, `ListensThrough`: with its edge and its sentence in time and a part that has
  not failed, own-ship's position airs in every second; and once a phase that jumped is a second and
  a dwell old, the executor is never between dwells, keys at the instant and ends inside the dwell.

**Why the bounds are enough.** *Log.* Three sectors are the least at which each ring can hold one
and fight over the third, or one ring can have a head, a middle and a tail, with a spare taken from
it; four claims over three sectors wrap the pool and recycle. Two slots give a sector that is half
full, a run torn in its middle and one that is whole. Two sessions let one be recycled under another
and a session be listed truncated. In the erase two sectors of one slot let the capture take what
the erase has given back, before and behind the walk, while every operation may be refused. Two
fixes in the ring are enough to overflow it and to have one owed and one not; four samples are a
takeoff, a landing, a takeoff before the landing is written, and a landing. In the capture a ring of
three overflows in one pass of two, and five records fill a sector and rotate the pool of two.
*Link.* Two centrals, two commands and two arrivals let a holder leave, its id be reused and the
other claim, with one command of each standing; queues of one to three overflow under that traffic;
three frames have a first, a middle and a last. *Power.* The ladder is checked with the code's own
thresholds and run length, on readings on both sides of each step and of each margin; in the unit,
runs of one reading reach the same levels sooner, and three boots are a life, a refusal and a
return. *Settings.* Two images are a swap and its revert; three boots are the trial, the revert and
one more; the third image in `found_revert` is what its counterexample needs. *Radio.* Five seconds
see both slots, the callsign's period twice, and a lost edge, the clock free-running after it and
locked again with dwells of the other phase in flight; a clock of nine units to the second keeps the
order of every instant in the plan (the guards become 0). Thirty other instances (a second of 16,
bursts of 2, passes 1 to 3 apart, every skew) were explored once with the same outcome. The window's run
keeps the guards, at about 28 ms a unit; its second is short enough that a ceiling holds a settle and
a whole turn of the second, and passes of one or two units meet every phase. *Traffic.* A table of one is full with one
aircraft; a tracker of two is outlived by, and outlives, the table; the third aircraft evicts.

The bounds `MaxSequence`, `MaxMade`, `MaxTime`, `MaxArrivals`, `MaxCommands`, `MaxTouches`, `MaxBoots`,
`MaxChanges`, `MaxRefusals`, `Horizon` and `LostEdges` are guards of one action each. A behaviour
that reaches one goes on with everything but that action, so `CHECK_DEADLOCK FALSE` says that a
bounded run may stop there; the device does not.

## Fairness

- `store_erase` assumes that an operation of the part, once started, ends (weak fairness of
  `PartWorks`), and that `step_erase()`, called in every pass, is not always refused its window
  (strong fairness of `StepErase` and `FinishErase`, since the other store's operations disable
  them in between). The loop calls the flight log every pass and the radio's plan leaves dwells in
  which it does not transmit; while the power is cut over and over nothing is promised (a reset ends
  the erase, which is why `EraseEnds` holds then too).
- `flight` assumes that passes come back in which the store takes at least one record
  (weak fairness of `AnyPass(1)`), and that an erase ends, which is `EraseEnds`.
- `capture` assumes that passes go on and end (weak fairness of `Tick` and of the steps of a pass),
  and that a store asked again and again answers something other than Deferred (strong fairness of
  an answered `DrainRun`, `Refused` and `Close`): the window opens in every second.
- `link` assumes only that the loop runs (weak fairness of `Pass`). Neither the link's nor the
  pilot's answers are assumed: the ceilings of the code end both.
- `power` assumes that the loop runs (`Parks`), that a refused boot's loop runs (`Refuse`), that the
  panel's busy line falls or its timeout passes (`PanelDone`, `kBusyTimeoutMs`), and that a finger
  comes up (`LetGo`): a button held for ever keeps the rails up, by design.

`radio`, `window`, `settings` and `warnings` state their promptness as invariants over a bounded
clock and assume no fairness. A store that refuses for ever, because the part is broken or the ring
has no sector to give, ends neither a landing nor an erase; the code has no answer to it either,
beyond not recording.

## The proofs

`LogStoreProofs` proves of the sector pool, for any number of sectors the code allows (1 to 512), any floor, any
set of sessions and any bound on the counter:

| Theorem | Says |
| --- | --- |
| `TypeCorrect` | `Spec => []TypeOK` |
| `NumbersAlwaysOrdered` | `Spec => []NumbersOrdered` |
| `SpareAlwaysNobodys` | `Spec => []SpareIsNobodys` |
| `FrontierAlwaysKept` | `Spec => FrontierKept`: no claim and no spare takes a sector that is being written |
| `AlwaysOldestFirst` | `Spec => OldestFirst` |
| `FloorAlwaysKept` | `Spec => FloorKept` |
| `QuarantineAlwaysKept` | `Spec => QuarantineKept` |
| `SectorAlwaysByIndex` | `Spec => []SectorByIndex`: the bisection finds the nth sector of a session |

The inductive invariant is `IInv == TypeOK /\ NumbersOrdered /\ SpareIsNobodys`, and each part needs
the others. The order of the numbers in RAM after a reset needs the order of the *headers*,
which is why `NumbersOrdered` says both; the order of headers after a claim needs the label's number
to be above every header still on the part, so the bound by the counter must cover headers whose
sector is free in RAM. `SpareIsNobodys` is needed because a claim takes its spare unseen: were
that sector labelled, a claim would take a sector out of the other ring's middle, and were it held
by both rings it would be labelled twice. Types are needed throughout, for the walks that `CHOOSE`
the highest, lowest and newest sector: `FiniteMaximal` shows, from the library's theorem
that strict inclusion of finite subsets is well-founded, that a strict order has an extreme over a
finite set, and `HighestExists`, `LowestExists` and `NewestExists` apply it.

The four action properties follow from one lemma, `HandedFrom`: a sector that is handed out was free
and nobody's spare, or was the ring's own spare, or was the *oldest* of the victim and not its
frontier, with the flights above their floor when the capture took it.

`SectorByIndex` is about a recursive function. `SearchDefined` shows that the search over a pair of
bounds exists: it gives it outright, as the first number from the lower bound on that reaches past
the index, and checks that this function satisfies the recursion. `SearchFinds` then takes a smallest
interval on which the answer would be another and finds a smaller one (`LeastOf`, in place of an
induction theorem). What the bisection starts from is `BisectBrackets`: the sector sought lies at
least `index` numbers above the session's lowest and `after` below its highest, because the numbers
of a ring are distinct (`NumbersOrdered`) and there are no more sectors than numbers for them
(`CountedWithin`).

It also proves `KeepsItsPromise`, `Spec => KeepsPromise`: every behaviour of the
allocator is one of `LogRings`. A ring's queue is defined by counting, so the lemmas first trade it
for a *listing*, any enumeration of the ring's sectors with rising numbers: one exists
(`ListExists`), and the queue is read off whichever is at hand (`QueueOf`). What one label's change
does to the queues follows: none of a ring's own leaves it (`QueueSame`), a sector lost drops its
place (`QueueWithout`, at the head `TailOne`), a sector gained under the highest number is at the
tail (`QueueAppended`), and a subset keeps its order (`QueueWithin`). `HandedIsFreeOrHead` turns
`HandedFrom` into the promise's terms, and one lemma per action maps each step: a claim is `Extend`
or `Recycle`, setting a spare aside `SetAside` or a stutter, its erase `Clear`, giving back
`GiveBack`, a reset `Reset`. All of it stands on `IInv`, before the step and after.

`DecisionsProofs` proves of the monitor, for any ladder that satisfies `LadderAssumption` (steps far
enough apart that a margin does not reach over one), any run length and any readings:

| Theorem | Says |
| --- | --- |
| `CutoffTypeCorrect` | `CutoffSpec => []CutoffTypeOK` |
| `RunAlwaysActs` | `CutoffSpec => []RunActs`: readings that stayed under a step for a whole run have the level that deep |
| `AlwaysMovesOnARun` | `CutoffSpec => MovesOnARun`: the level moves for a whole run, and for nothing less |

The inductive invariant is `CutoffInv == CutoffTypeOK /\ CountsKept`: what the two counters of each
step say of the last readings (`EndsUnder`, `EndsBefore`, `EndsClear`), that they are never both
running, and that a full count has been acted on (`Acted`). `EndsBefore` says that the reading
before a counted run was not under the step: without it a count could be shorter than the run it is
of, and a whole run could go unnoticed. `EndsClear` is what a rise of the level is answered with.
All of it is conditional on the level not being `flat`, because the code stops counting there.

The same module proves of the sky, for any number of aircraft, of targets and of tracked slots, and
any leases and floors ordered as the code's are:

| Theorem | Says |
| --- | --- |
| `SkyTypeCorrect` | `TrafficSpec => []SkyTypeOK` |
| `ToneAlwaysMeant` | `TrafficSpec => []ToneIsMeant` |
| `AlwaysToldOnceAndKept` | `TrafficSpec => ToldOnceAndKept` |

The table and the tracker each forget by a clock of their own, and `SkyInv` says what keeps them
together. A slot was last seen no earlier than its aircraft's report (`SeenNoOlder`), so a slot is
not let go while a report is fresh enough to be graded. The histories are tied to the slots by
`NotifiedTold` (what a slot holds as said was said, and is dismissed if a touch came since),
`FallsOutside` (an aircraft has been outside for at least as long as its slot believes) and
`SaidAgainLate` (what may be said again has been outside for a floor). Only the last excepts a
tracker that has recycled a slot, and with it the half of `ToldOnceAndKept` that speaks of announcing.
`RingInAlarm` is why an eviction never takes who was just graded inside: the table's victims are
those not in alarm.

A pass is a loop over the targets. `SkyKept` is what it has established after each: the targets
behind it have been graded, those ahead are as the ageing left them, nobody is graded twice
(`OneSlotEach`). `GradedNobody` and `GradedSomebody` carry it over one target, `GradedAllKept` over
all of them, by the first target after which it would fail (`LeastOf`). `GradedAll` defines its loop
as a recursive function; `GradeLoopDefined` shows that there is one, since there is one as far as any
target.

Over the allocator's invariant it then proves of the two stores, the pool and the part together, for
any partition, any set of sessions and power cuts anywhere:

| Theorem | Says |
| --- | --- |
| `StoreTypeCorrect` | `StoreSpec => []StoreTypeOK` |
| `CursorAlwaysOwned` | `StoreSpec => []CursorOwned` |
| `SparesAlwaysBlank` | `StoreSpec => []SpareBlank` |
| `NoByteEverTwice` | `"slots" \notin Refused => (StoreSpec => []NoByteTwice)` |
| `LossesAlwaysReported` | `StoreSpec => []LossesReported` |
| `AlwaysWholeOrTruncated` | `Refused = {} /\ "room" \notin Requests => (StoreSpec => []WholeOrTruncated)` |

The inductive invariant is `StoreInv`, checked by TLC on both stores' runs first. It keeps the
allocator's `IInv`, since every step of a store is a step of the pool or leaves it alone, and adds
what only the two together know. A claim is in RAM before its header is on the part, so between the
two a label is ahead of its header: `HeadersApart` says that no header carries the number of another
sector's label, without which a cut there could bring two sectors back with one number. `WorkHeld`
says of each operation under way what the store must still believe when it ends, because the other
store moves meanwhile; `CursorAtEnd` says that a store which has claimed writes at the end of its
ring, which the other ring may shorten from the front but never from the back (`HandedNotEnd`, from
the allocator's `HandedFrom`). `BlankAhead` is what makes a write the first one. `SessionIsLast`,
that what a ring claimed after a sector of its current session is of that session too, is what makes
counting by position a count of the session's losses. The hypothesis of `NoByteEverTwice` is the
limit of the code, described below: after a refused write the cursor stays.

`AlwaysWholeOrTruncated` needs more than `StoreInv`, since what a list names is computed from the part
and not from the labels. `FilledInv` adds that between operations every header is its sector's label
or the sector is blank (`PartMatches`), that a sector is filled from its first slot with one session's
records numbered in a row (`WellFilled`), that the next sector of a session goes on where the one
before it is full (`Chained`), that the last record written is no later than the last on the part
(`Recorded`), and that a store goes on where its session ends (`Continued`). A cut keeps all of it: a torn slot is the frontier and nothing is behind it. What a
reader then sees is a chain of lemmas about the operators: the bisection ends on the first erased slot
(`SearchFinds`, `FrontierFound`), the walk of the ring exists and counts each session's sectors
(`WalkDefined`, `RunIsSession`), the list is those runs (`IndexLists`), and the sector at an index is
the one counting would find (`NthInARow`), so a session reads whole (`SessionReads`, `ListsWhole`)
and one listed truncated has lost its opening (`TruncatedIsLost`). The hypotheses are the limits of
the code: a refused erase, header or record leaves a sector that is in the pool with what it held, or
with a hole, and the room the capture asks for is named in RAM alone until it is erased; TLC finds a
counterexample in at most eight steps when any one of the three is let in, and a longer one with
the room. Erase
requests are allowed: the theorem covers them where the run `store` does not, because
the property excepts a session the pilot asked to erase.

`ConfigLinkProofs` proves, for any number of connections, any rooms of the queues, any ceilings, any
length of answers and any commands:

| Theorem | Says |
| --- | --- |
| `LinkTypeCorrect` | `LinkSpec => []LinkTypeOK` |
| `AuthorityAlwaysHeld` | `LinkSpec => []AuthorityHeld` |
| `AnswersAlwaysWhole` | `LinkSpec => []AnswersWhole` |
| `UploadsAlwaysHaveAHolder` | `LinkSpec => []UploadsHaveAHolder` |
| `KindAlwaysRead` | `LinkSpec => []KindWasRead` |

`LinkInv` says of everything that refers to a command (what is queued at the radio and on the bus,
the prompt, the question on the glass, the one confirmed) that it names one that was written and is
of the kind it was written with; that an outbox holds nothing or waits on the first frame of its
answer that has not arrived, the rest coming after it; and that at the step that reads the presses
the screen has just taken the prompt (`PassOK`). Frames leave the radio's queue one
at a time, as the code pops them, so no lemma about a filtered queue is needed.

`DecisionsProofs` proves of the window, for any cut of the second that satisfies `SlotMap`'s assumptions, any
costs and any number of writers in a pass:

| Theorem | Says |
| --- | --- |
| `WriteTypeCorrect` | `WriteSpec => []WriteTypeOK` |
| `PlacedOwesNothingAlways` | `WriteSpec => []PlacedOwesNothing` |
| `ForcedOnlyWhenCrowdedAlways` | `WriteSpec => []ForcedOnlyWhenCrowded` |

`PlacedInv` says that the view stands for the instant it was published at, modulo the second
(`ViewExact`), and that what the pass has booked beyond its clock lies in one clear stretch of the
dwell the view names (`Stretch`), so the next to ask begins where the last one ended without
leaving it. `WaitInv` adds how long a change that has settled has waited (`WaitBounded`): at most the
way round the second from the last phase a write could begin at. A pass cannot step over the free
phases if it is no longer than they are, which is the assumption `PassesAreClose`; only this theorem
uses it.

`PowerDownProofs` proves, for any ladder, hold, park and number of touches and boots:

| Theorem | Says |
| --- | --- |
| `GlassRememberedAlways` | `PowerSpec => []GlassRemembered` |
| `LongPressIsMeantAlways` | `PowerSpec => []LongPressIsMeant` |
| `DarknessNamedAlways` | `PowerSpec => NamesItsDarkness` |
| `RefusalSaidAlways` | `PowerSpec => RefusalIsSaid` |

`PowerInv` goes from the byte to the glass in two steps: what the panel says it painted is what the
glass wears (`PanelTells`), and the byte repeats the panel, because a unit that runs has parked
nothing before it goes down (`RunsUnparked`) and a refused boot parks its frame in its first pass or
never (`RefusalParks`, `RefusedFlat`). The fact of having gone dark for the cell is in the byte until
the boot that draws (`DryKept`). Of a press, the sequencer has counted no more than the fingers have
made since the boot (`PressCounted`), the release it awaits at a wake included.

`DurableSettingsProofs` proves, for any settle and ceiling, any values and any number of changes,
boots and refusals:

| Theorem | Says |
| --- | --- |
| `SettingsTypeCorrect` | `SettingsSpec => []SettingsTypeOK` |
| `ChangeAlwaysPrompt` | `SettingsSpec => []ChangeIsPrompt` |
| `FateAlwaysTold` | `SettingsSpec => []FateTold` |
| `SwitchedOffAlwaysSaved` | `SettingsSpec => SwitchedOffIsSaved` |
| `AlwaysComesBackAsLeft` | `MaxImage <= 2 /\ SettingsSpec => ComesBackAsLeft` |

`SettingsInv` says, of every phase between a change and the boot after it, what flash already holds:
what an image believes of its key is so (`KeyKept`), a change that is not on flash is in the window,
which has counted every pass but the one that took it (`ChangeHeld`), a record stands for the two
slots the bootloader will find (`SlotsKept`, `FateKept`), and what the pilot switched off with is
what this image would load (`LeftKept`). Between two images the newer one's blob is never written
over and the older one's snapshot is taken before the newer may run (`Snapped`, `OwedKept`). The
bound on the images is a hypothesis because a third one breaks the property, as the `found_revert`
run shows.

`CaptureProofs` proves, for any ring, ceiling of a pass, sector and pool, any number of records and
any answers of the store:

| Theorem | Says |
| --- | --- |
| `CaptureTypeCorrect` | `CaptureSpec => []CaptureTypeOK` |
| `EndAlwaysCloses` | `CaptureSpec => []EndCloses` |
| `RecordsAlwaysAccounted` | `~Rearms => (CaptureSpec => []RecordsAccounted)` |

`CaptureInv` explains why nothing follows an end. A pass goes on behind a closed capture in two
cases only, after a refusal, and both times because no sector will be found and the open one has
no slot beyond the two reserved (`NoRoom`, `Stuck`): so `next_run()` offers no run (`NextRunIs`), and
since a refused append leaves no more room than there was (`AppendsIs`), none comes back before the
pass is over. `ended` is remembered from the moment a marker is in the file (`EndIsKnown`), so a
second one is not written; a deferred gap of the stop may be.

Both properties are about recursive functions, `Stored` over the sectors and the countdown over the
trail, so the proofs first show that each exists and is what it should be, by least counterexample
(`JoinedDefined`, `JoinedIs`, `CountedIsAccounted`). The file is then only what its lemmas say: a
claim may take it from the front (`Shed`), an append puts it behind (`Grows`). `Counted` asks for
*some* numbering of the trail that agrees with every numbered record; it survives a record pushed
(`CountedMore`), a run moved from the ring to the file (`CountedMoved`), a front recycled
(`CountedSuffix`) and a marker put in (`CountedInsert`), and there is only one, which is the one the
property counts down. The hypothesis `~Rearms` is the limit of the code described below: an arm
before the last capture has drained empties the ring, and what was in it is told by nothing. The
`capture` run has the same setting; without it, `EndCloses` and the types are proved all the same.

`FlightLogProofs` proves, for any ring, any backlog, any number of traffic slots and any length of
time:

| Theorem | Says |
| --- | --- |
| `FlightTypeCorrect` | `FlightSpec => []FlightTypeOK` |
| `FileAlwaysAFlight` | `FlightSpec => []FileIsAFlight` |
| `FixesAlwaysAccounted` | `FlightSpec => []FixesAccounted` |
| `EventsAlwaysAccounted` | `FlightSpec => []EventsAccounted` |

A pass is two things, an update and a drain, and `Kept` is what holds before, between and after
them. The update has five outcomes, a lemma each (`ParkKept`, `OpenKept`, `AppendKept`, `CloseKept`,
`IdleKept`), and the drain one, `DrainKept`, for whatever number of records the store takes.
What the file says depends on what the ring says: no ground fix follows one in flight and only the
last of a landing is marked so (`RingOK`), and whatever of this session is in the file comes
before all of it (`FileOK`). Two facts about sessions are needed that no property states. A session is
named by the oldest second of the ring, which is later than every session in the file, so its
records are never read with another flight's; for that the ring of a unit on the ground must hold
nothing as old as the newest session, through resets and erases. And outside a flight nothing waits
under a session that has a file (`EventsOK`): the drain ends the closing only when the last record is
taken, and a fix is taken only behind the last event. That is why no event follows the landing, and
why an event written late, after an erase, goes under session 0, which owns no fix.

The counts rest on lemmas about the operators: a push gives up at most one fix, which is counted when
it is owed (`PushIs`); the loop over the traffic slots keeps the count whatever it sees
(`WatchedIs`, its recursion again by least counterexample); the slots left to be written after the
first `w` are `w` fewer (`AfterIs`, from ranks being a bijection); and what a pass writes adds to the
file its fixes and its events, each to its own count (`FixesWritten`).

`RadioProofs` proves, for any cut of the second that satisfies `SlotMap`'s assumptions, any offset of
the device's own second, any holdover, any passes, faults and lost edges:

| Theorem | Says |
| --- | --- |
| `RadioInvHolds` | `RadioSpec => []RadioInv`, the types included |
| `RadioAlwaysAirsWhereItSays` | `RadioSpec => []AirsWhereItSays` |

The burst that airs is one the thread finds in its plan, so `RadioInv` is about the two plans: every
burst in them is on the channel of its instant, with room before that channel's dwell closes, in the
second it says (`GoodPlan`), and a thread that has not been aborted flies a plan whose channel is
still on it (`ThreadOK`), which is why no burst of an aborted plan is keyed. A burst may be put in a dwell passes after it was opened and takes the
dwell's second, not the pass's; it is the right one because a dwell that ends where the map ends one
belongs to the second its end gives away (`OfItsSecond`). Under lock a view starts where a second
does and is of the second that began there (`ViewRead`), which in turn needs the UTC to be that of
the edge it was carried to (`ClockOK`). All that is said of seconds hangs on `lost = 0`, and the
rest does not. `WithBurstKept`, `KeptGood` and `ArmDwellGood` follow a dwell being armed,
`CreditedGood` and `CollectedGood` one being settled, `TickedGood` a whole pass; the executor has a
case for each of its five actions (`ThreadKeeps`), and the tick one for an edge that comes, one that
is lost and none (`TickKept`). That a burst keyed is over before its dwell is (`EndsInside`) rests
on the two ends being whole seconds apart.

Each inductive invariant was checked by TLC on the runs of its module before it was proved. The
assumptions are those named on the constants in `Capture`, `SectorAllocator`, `RecordStore`, `PowerLevel`,
`PowerDown`, `ConfigLink`, `DurableSettings`, `FlightLog`, `SlotMap`, `RfExecutor`, `RadioDwells`,
`Traffic` and `WriteWindow`; TLC evaluates them in
every run that extends the module.

Only checked by TLC, and why:

- liveness (`EraseEnds`, `ClosingEnds`, `CaptureCloses`, `LinkComesToRest`, `GoesDark`) needs
  reasoning about ENABLED;
- `SpeaksInEverySecond`, `CreditIsTrue` and `ListensThrough` of `RadioDwells` hold for passes that
  come often enough: `CreditIsTrue` because a report that no dwell claims is put to the one in
  flight, the other two because a dwell must be armed before it begins. With passes up to 2 units
  apart in a second of 9 TLC checks them; with passes up to 5 apart it refutes each. How often is
  enough in general has no assumption in the module yet: see the plan.

Stated in the modules and in no run, because a run's properties are kept for what could be wrong:
the type invariants (checked as they were written; ten of them proved, `PowerDown`'s as `Shape`);
`SpareIsNobodys`, `FrontierKept`, `OldestFirst`, `FloorKept` and `QuarantineKept`, which are proved.

## What the models found

`found_revert` ends in a counterexample against a sentence of the repository
(`products/skyblip_go/README.md:11`, "a revert comes back up on the settings the pilot had, not on
defaults"): an image that finds a newer layout under `settings` uses `settings.prior`, which is also
where the snapshot for a revert was left. After a reverted update to the newest layout, an update to
one in between writes over that snapshot in its own layout, and the revert after it finds two blobs
it cannot read. With two images (`settings`) the property holds.

More was seen while modelling, where code and prose differ or a corner is worth a comment there. No
run is kept for these:

- *Record store.* After a refused write `append()` leaves the cursor (`record_store.cpp:149`), so the
  retry programs slots the refused run may have written; `ports/flash_region.h:32-34` asks that no
  byte be written twice (`NoByteTwice` is checked without refusals). A spare reserved but not yet
  erased is the old ring's again after a cut (`record_store.cpp:197`), not "a free sector" as
  `core/store/README.md:78` says. A sector recycled between `begin_session()` and the first claim is
  counted against the session just named (`sector_allocator.cpp:87`), which never owned it. The
  erase passes over a sector whose erase failed (`record_store.cpp:222`), and its flight is back
  after a reset. A reset in the middle of an erase leaves a ring with holes, so
  `WholeOrTruncated` stops promising a session the pilot asked to erase.
- *Flight log.* Encounters waiting when the pilot erases the log are written afterwards under no
  session or the next flight's (`flight_log.cpp:25`, `log_session.h:54`).
- *Capture.* What the pool recycles while a capture is being closed is counted and never told; an
  arm before the last capture has drained drops what was queued, untold; where the part may refuse,
  the gap of a stop may be told again behind the end (`capture.cpp:158`), which `EndCloses` allows.
- *Link.* The second press compares the *kind* of prompt on the glass (`screen.cpp:30`), so a prompt
  replaced by another of its kind, a second `set`, is confirmed unread, which the comment at
  `screen.cpp:37` denies. `config.cpp:239` names the approved
  version before the press, so a request the pilot has not answered moves the version an open window
  is held to; the comment at `:223` has it be the one the press authorises. The prompt that was
  replaced is never answered. A disconnection dropped at the bus's full queue (`board.h:228`) leaves
  a claim whose holder is gone, until that session id is given out again and leaves
  (`core/comms/README.md:35` has the claim end with the session); the run has such drops, and
  `AuthorityHeld` ties what stands to the claim, not to a live connection.
- *Settings.* A change held off the key by an update is lost by the revert, which reads the snapshot;
  a cut between the record and the trigger reads `Reverted` though nothing was swapped; another
  upload after a revert makes the record read `Refused`; tapping that does not stop is forced
  outside the window at the bound.
- *Window.* Nobody need tap: a wipe erases as many sectors a pass as a dwell holds
  (`flight_log.cpp`'s `step_erase`, `kEraseCeilingSectors`) and books them, so it can fill the
  uplink dwell of every second before the settings' writer, which looks in the next pass, gets a
  view of it; the change is then forced at its bound. `docs/BEHAVIOR.md:780` ("never forced there,
  because the second offers the window twice") and `core/timing/durable_write.h:91-98` count on the
  window alone. `ForcedOnlyWhenCrowded` excepts a booking since the change; without that exception
  TLC finds it in a dozen steps.
- *Radio.* With edges lost but the clock still in holdover (`pps.h:51`), the second is the last
  edge's, so own-ship is silent or dates its burst with the old second; `core/timing/README.md` says
  it speaks in every second airborne. `SpeaksInEverySecond` and the date in `AirsWhereItSays`
  therefore except a lost edge. A burst aborted in the air is reported as missed.
- *Radio, when the phase jumps.* Past the holdover the service arms dwells by a phase of its own, and
  the edge that comes back moves the phase under them. A dwell of the same name is kept
  (`radio.cpp`'s `tick` compares names), so a stale uplink dwell flies on past the slot's opening and
  the slot's burst, queued behind it, keys late; or a burst joins a stale dwell that ends earlier
  (`platform/zephyr/rf.h:155` asks that it keys before the end, not that it completes) and is cut.
  `ports/rf.h:50` says the burst "keys here, full stop" and `ports/rf.h:13` that a dwell is "never
  truncated on air". With the skew of the earlier instance neither could happen; on a wider skew TLC
  finds both, so `ListensThrough` promises the instant and the whole burst from a second and a dwell
  after the jump, and `AirsWhereItSays` what holds at any time: channel, place in the map and second.
- *Traffic.* A full tracker recycles the slot of an aircraft still around, even a dismissed one, which
  is then announced again (`core/traffic/README.md:34` says a slot "cannot outlive the target it was
  opened for"; it does, by up to a second, and after an eviction). A long touch while the tone is
  held for an aircraft that has already left the ring turns the page instead of dismissing
  (`screen.cpp:162`).

## Not modelled

In the modelled components:

- *Log:* the cost of operations in milliseconds; the sectors under a read that spans passes, and
  paging; what a record holds beyond its session and its place; a part that returns other bytes than
  were written. In the flight log the traffic slots' content, and the second-by-second acceptance of
  fixes, are inputs.
- *Link:* payload sizes and the MTU, the status and update pushes nobody asked for, the identity
  commands, the refusals of a failing supply, an MTU exchange that renames a session.
- *Power:* the gauge's curve, the charger, a glass too hot to refresh, a unit that misses a required
  part, the recovery of a unit whose watchdog never armed, a reset between setup and the first pass.
- *Settings:* the fields and their migrations, the unlock's write, a torn blob, a store that never
  mounted, a unit that installs an older image.
- *Radio:* the hour's air-time budget, a change of flight state, the slower rate on the ground, the
  retune and staging leads, what is received, statistics. The radio starts in flight under a dated
  clock, with at most one fault; the window's run leaves out the boot before the first dwell.
- *Traffic:* geometry and the formation test (inputs), the range gate, own echo, reports that carry
  no position, turn rates, names, a clock that steps (ages are counted, see the hazard at
  `table.cpp:146`).

Not modelled at all: identity and activation (a challenge and its answer over signatures a model
would take as given); flight state, instruments and the GNSS parser (thresholds and arithmetic over
one sample); air protocols, error correction and cryptography (vectors in `test/`); lamp, sounder,
pages and drawing (timed outputs, goldens); NMEA output and the diagnostics payloads (formatting);
the drivers of six parts (checked against behavioural models in `hardware/parts/*/model.h`); the
simulator, the server, the scripts and the vendored code (not the device's own logic).

## The plan

What a pilot would lose first came first: the log, then what else is written and who may write, then
the link, power, the radio and the sky. All of the modules planned are written. What is left:

1. **Reads under recycling**: compose a read that spans passes (`ConfigLink`'s chunks) with the
   sectors under it (`RecordStore`), for the hazard at `record_store.cpp:354`.
2. **More proofs**, most wanted first:
   - `ListensThrough` of `RadioDwells`, with the longest pass it holds for as an assumption.
