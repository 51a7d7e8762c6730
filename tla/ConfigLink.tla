------------------------------ MODULE ConfigLink ------------------------------
(***************************************************************************)
(* The commands a phone sends and the presses that authorise them.  The    *)
(* Bluetooth thread connects, disconnects and queues writes at any instant *)
(* of the pass; the pass moves events and frames onto the bus, drains the  *)
(* events, sends the reply the link refused last time, executes commands   *)
(* while none of their answers waits, serves the log, then reads the       *)
(* button.  One app holds the claim; what changes the unit stands as a     *)
(* prompt until the pilot presses twice.                                   *)
(*                                                                         *)
(* Source: core/comms/{config,config_reports}.cpp, link_claim.h,           *)
(* link_sessions.h, core/bus/bus.h, services/config_link.cpp, the link's   *)
(* half of flight_log.cpp, record_pool.cpp and record_store.cpp,           *)
(* services/screen.cpp (the prompt), platform/zephyr/link.cpp.  A session  *)
(* id is the index of a connection: the next central there has it again.   *)
(* Payload sizes, the unasked status push and the identity commands (a     *)
(* product that hands over no IdentityLink) are left out.                  *)
(***************************************************************************)
EXTENDS Integers, Sequences

CONSTANTS
  Sessions,      \* the connections the controller admits, 1 .. kMaxSessions
  Kinds,         \* the commands the apps send: a subset of AllKinds
  Parts,         \* the frames of a dump, the chunks of a log read
  RxRoom,        \* the frames Bluetooth queues (g_rx)
  EventRoom,     \* kMaxEvents: the connection events it queues
  BusRoom,       \* the frames of one endpoint the bus queues
  BusEvents,     \* the connection events the bus queues
  HoldPasses,    \* kReplyWaitCeilingMs, in passes
  PromptPasses,  \* kPromptForgetMs, in passes
  MaxArrivals,   \* bound on the connections made in a behaviour
  MaxCommands    \* bound on the commands written in a behaviour

Prompts == {"set", "dfu", "recovery", "coldStart", "erase"}
LogKinds == {"read", "erase"}
AllKinds == Prompts \cup LogKinds \cup {"get", "dump"}

ASSUME SessionsAssumption == Sessions \subseteq Nat \ {0}
ASSUME KindsAssumption == Kinds \subseteq AllKinds
ASSUME RoomAssumption == {Parts, RxRoom, EventRoom, BusRoom, BusEvents} \subseteq Nat \ {0}
ASSUME BoundsAssumption ==
  {HoldPasses, PromptPasses, MaxArrivals, MaxCommands} \subseteq Nat

VARIABLES
  central,    \* the sessions a central is connected on
  arrivals,   \* how many have connected
  raised,     \* LinkSessions: the connection events not polled yet
  rx,         \* g_rx: the frames written and not polled yet
  written,    \* what every command written is, in order
  bus,        \* [events, link, log]: the queues of the bus
  claim,      \* LinkClaim: the session that commands, 0 none
  pending,    \* ConfigService: [kind, by, of, age], the prompt that stands
  window,     \* upload_window_open_: the firmware command that opened it, 0 shut
  approved,   \* approved_version_: the firmware command that named it
  installing, \* install_requested_: [image, window], the firmware command the
              \* image is of and the one whose window it came through
  flight,     \* confirmed_state, as the ownship service last published it
  seen,       \* flight_state_: what the config service was told of it
  gate,       \* UploadGate: [allowed, finished, image], and what the slot holds
  reply,      \* the config service's outbox: [held, run]
  chunks,     \* the log's outbox
  screen,     \* ScreenService: [prompt, glass, armed, pressed]
  confirmed,  \* the last press's [done, read]: what it executed, what the glass
              \* showed
  at          \* where the pass is

btVars == <<central, arrivals, raised, rx, written>>
configVars == <<claim, pending, window, approved, installing, seen>>
linkVars == <<btVars, bus, configVars, flight, gate, reply, chunks,
              screen, confirmed, at>>

None == [kind |-> "none", by |-> 0, of |-> 0, age |-> 0]
NoFrame == [to |-> 0, of |-> 0, part |-> 0, age |-> 0]
NoRun == [to |-> 0, of |-> 0, next |-> 0, got |-> 0]
NoInstall == [image |-> 0, window |-> 0]
Unconfirmed == [done |-> 0, read |-> 0]
Quiet == [held |-> NoFrame, run |-> NoRun]
Steps == {"poll", "frames", "events", "resume", "commands", "log", "requests",
          "presses"}

Least(s) == CHOOSE m \in s : \A n \in s : m <= n
Older(age, passes) == Least({age + 1, passes})
Kept(queue, more, room) ==     \* Queue::push, a full queue drops what comes
  SubSeq(queue \o more, 1, Least({room, Len(queue) + Len(more)}))

-----------------------------------------------------------------------------
(* Answers.  An outbox has one frame waiting for the link, and what is to  *)
(* follow of an answer of several frames: the next, and the last that got  *)
(* there.  Each operator yields the outboxes the link may leave.           *)

Replying(out) == out.held.to # 0 \/ out.run.of # 0

\* send_to(): the controller may be out of buffers, or refuse the frame.
Sends(to) == IF to \in central THEN {"Ok", "WouldBlock", "Invalid"} ELSE {"Down"}

Waiting(to, of, part) == [to |-> to, of |-> of, part |-> part, age |-> 0]

\* deliver(): one frame.  Behind one that waits it is dropped and counted.
Delivers(out, to, of) ==
  IF out.held.to = 0 /\ to \in central
  THEN {out, [out EXCEPT !.held = Waiting(to, of, 1)]}
  ELSE {out}

\* continue_report(), continue_read(): frames until one is refused, is the last
\* or waits.
Continues(out, to) ==
  LET run == out.run
      Waits(part) == [held |-> Waiting(to, run.of, part),
                      run |-> IF part = Parts THEN NoRun
                              ELSE [run EXCEPT !.next = part + 1,
                                               !.got = IF part = run.next THEN @ ELSE part - 1]]
  IN IF run.of = 0 \/ out.held.to # 0 THEN {out}
     ELSE {[out EXCEPT !.run = NoRun]}
          \cup (IF to \in central THEN {Waits(part) : part \in run.next .. Parts} ELSE {})

\* Mutant of Refused: the frame is given up, the rest of the answer is not.
RefusedAlone(out, to) == Continues([out EXCEPT !.held = NoFrame], to)
\* drop_replies(), abandon_reads(): nothing follows a frame that was lost.
Refused(out, to) == {Quiet}

\* Mutant of Overdue: a link that never has room is waited for.
NeverOverdue(frame) == FALSE
Overdue(frame) == frame.age >= HoldPasses

\* resume_replies(), deliver_held() and what follows it.
Resumes(out, to) ==
  IF out.held.to = 0 THEN Continues(out, to)
  ELSE UNION {CASE sent = "Ok" ->
                     Continues([out EXCEPT !.held = NoFrame,
                                  !.run.got = IF out.run.of = 0 THEN 0 ELSE out.held.part], to)
                [] sent = "WouldBlock" /\ ~Overdue(out.held) -> {[out EXCEPT !.held.age = Older(@, HoldPasses)]}
                [] OTHER -> Refused(out, to) : sent \in Sends(out.held.to)}

Starts(out, to, of) ==
  Continues([out EXCEPT !.run = [to |-> to, of |-> of, next |-> 1, got |-> 0]], to)

\* acknowledge(): to whoever holds the claim.
Acknowledgements(of) == Delivers(reply, claim, of)

-----------------------------------------------------------------------------
(* The Bluetooth thread: these happen at any step of the pass.  What is    *)
(* connected and written is read by the poll alone and by a reply of the   *)
(* pass that follows: the instants around the poll stand for all of them.  *)

AroundThePoll == at \in {"poll", "frames", "events"}

\* LinkSessions::raise()
Raise(type, s) == raised' = Kept(raised, <<[type |-> type, of |-> s]>>, EventRoom)

\* connected(): on the first connection that is free, of those there are.
Connect(s) ==
  /\ AroundThePoll
  /\ s \notin central /\ s = Least(Sessions \ central) /\ arrivals < MaxArrivals
  /\ arrivals' = arrivals + 1
  /\ central' = central \cup {s}
  /\ Raise("up", s)
  /\ UNCHANGED <<rx, written, bus, configVars, flight, gate, reply, chunks,
                 screen, confirmed, at>>

\* disconnected(): what the session had written stays queued.  (No step reads
\* it from "frames".)
Disconnect(s) ==
  /\ at # "frames"
  /\ s \in central
  /\ central' = central \ {s}
  /\ Raise("down", s)
  /\ UNCHANGED <<arrivals, rx, written, bus, configVars, flight, gate, reply, chunks, screen, confirmed, at>>

\* accept_write(): a full queue is an error the app sees.
Write(s, kind) ==
  /\ AroundThePoll
  /\ s \in central /\ Len(written) < MaxCommands /\ Len(rx) < RxRoom
  /\ written' = Append(written, kind)
  /\ rx' = Append(rx, [from |-> s, of |-> Len(written) + 1])
  /\ UNCHANGED <<central, arrivals, raised, bus, configVars, flight, gate, reply, chunks, screen, confirmed, at>>

\* on_command(), on_upload(): a chunk enters the slot; the last one finishes
\* an image, of a version that was asked for or of another.
Firmware == {n \in 1 .. Len(written) : written[n] = "dfu"}
Upload ==
  /\ gate.allowed /\ central # {} /\ at \in {"poll", "commands"}
  /\ \/ gate' = [gate EXCEPT !.finished = FALSE, !.image = 0]
     \/ \E image \in {0} \cup Firmware :
          gate' = [gate EXCEPT !.finished = TRUE, !.image = image]
  /\ UNCHANGED <<btVars, bus, configVars, flight, reply, chunks, screen,
                 confirmed, at>>

-----------------------------------------------------------------------------
(* The board polls: events first, then frames one by one, each to the      *)
(* queue of its endpoint.                                                  *)

KindOf(frame) == written[frame.of]
OfTheLog(frame) == KindOf(frame) \in LogKinds

PollEvents ==
  /\ at = "poll" /\ at' = "frames"
  /\ bus' = [bus EXCEPT !.events = Kept(@, raised, BusEvents)]
  /\ raised' = <<>>
  /\ UNCHANGED <<central, arrivals, rx, written, configVars, flight, gate, reply, chunks, screen, confirmed>>

PollFrame ==
  /\ at = "frames" /\ rx # <<>>
  /\ bus' = IF OfTheLog(Head(rx))
            THEN [bus EXCEPT !.log = Kept(@, <<Head(rx)>>, BusRoom)]
            ELSE [bus EXCEPT !.link = Kept(@, <<Head(rx)>>, BusRoom)]
  /\ rx' = Tail(rx)
  /\ UNCHANGED <<central, arrivals, raised, written, configVars, flight, gate, reply,
                 chunks, screen, confirmed, at>>

\* Nothing is left to pop.
Polled ==
  /\ at = "frames" /\ rx = <<>> /\ at' = "events"
  /\ UNCHANGED <<btVars, bus, configVars, flight, gate, reply, chunks, screen, confirmed>>

-----------------------------------------------------------------------------
(* The config service.                                                     *)

\* Mutant of Left: the claim goes with its holder, the prompt stays.
LeftTheClaim(s) ==
  IF claim # s THEN UNCHANGED <<claim, pending, window, reply>>
  ELSE claim' = 0 /\ window' = 0 /\ reply' = Quiet /\ UNCHANGED pending
\* on_link_down(): only the holder's disconnect cancels.
Left(s) ==
  IF claim # s THEN UNCHANGED <<claim, pending, window, reply>>
  ELSE claim' = 0 /\ pending' = None /\ window' = 0 /\ reply' = Quiet

\* drain_link_events(), one event.
DrainEvent ==
  /\ at = "events" /\ bus.events # <<>>
  /\ LET event == Head(bus.events)
     IN IF event.type = "down" THEN Left(event.of)
        ELSE UNCHANGED <<claim, pending, window, reply>>
  /\ bus' = [bus EXCEPT !.events = Tail(@)]
  /\ UNCHANGED <<btVars, approved, installing, flight, seen, gate, chunks,
                 screen, confirmed, at>>

\* Mutant of Verdict: the verdict of the state the pass began in.
VerdictBefore == window # 0 /\ seen = "ground"
\* publish_upload_verdict(), of the state the events and the flight left.
Verdict == window' # 0 /\ seen' = "ground"

\* set_flight_state(), once the events are drained.
HearFlight ==
  /\ at = "events" /\ bus.events = <<>> /\ at' = "resume"
  /\ seen' = flight
  /\ window' = IF flight = "airborne" THEN 0 ELSE window
  /\ IF flight = "airborne" /\ pending # None
     THEN pending' = None /\ reply' \in Acknowledgements(pending.of)
     ELSE UNCHANGED <<pending, reply>>
  /\ gate' = [gate EXCEPT !.allowed = Verdict]
  /\ UNCHANGED <<btVars, bus, claim, approved, installing, flight, chunks, screen,
                 confirmed>>

Resume ==
  /\ at = "resume" /\ at' = "commands"
  /\ reply' \in Resumes(reply, claim)
  /\ UNCHANGED <<btVars, bus, configVars, flight, gate, chunks, screen, confirmed>>

\* LinkClaim::grant()
Granted(s) == claim \in {0, s}
Grant(s) == claim' = IF claim = 0 THEN s ELSE claim

\* stage(): the prompt that stands is replaced.
Stage(kind, s, of) == pending' = [kind |-> kind, by |-> s, of |-> of, age |-> 0]

\* answer_prompt_request(), stage_settings(): only on the ground.
StagesIf(stages, kind, s, of) ==
  IF stages /\ seen = "ground" THEN Stage(kind, s, of) ELSE UNCHANGED pending

\* request_firmware(): the version is approved as the prompt is staged.
Approves(stages, of) ==
  approved' = IF stages /\ seen = "ground" THEN of ELSE approved

\* on_rx(), while no answer waits.
Command ==
  /\ at = "commands" /\ ~Replying(reply) /\ bus.link # <<>>
  /\ bus' = [bus EXCEPT !.link = Tail(@)]
  /\ LET frame == Head(bus.link)
         kind == KindOf(frame)
         stages == Granted(frame.from) /\ kind \in Prompts
     IN /\ Grant(frame.from)
        /\ reply' \in IF Granted(frame.from) /\ kind = "dump"
                     THEN Starts(reply, frame.from, frame.of)
                     ELSE Delivers(reply, frame.from, frame.of)
        /\ StagesIf(stages, kind, frame.from, frame.of)
        /\ Approves(stages /\ kind = "dfu", frame.of)
  /\ UNCHANGED <<btVars, window, installing, flight, seen, gate, chunks, screen,
                 confirmed, at>>

Forgotten == pending.age >= PromptPasses

\* install_received_image(): what was received whole is installed if it is of
\* the version approved.
Installs(whole) ==
  installing' = IF whole /\ gate.image = approved /\ seen = "ground"
                THEN [image |-> gate.image, window |-> window] ELSE installing

\* tick(): the window closes of itself or on a whole image; a prompt nobody
\* answers is forgotten.
TickConfig ==
  /\ at = "commands" /\ (Replying(reply) \/ bus.link = <<>>) /\ at' = "log"
  /\ \E closes \in BOOLEAN :
       LET whole == window # 0 /\ ~closes /\ gate.finished
           expires == pending # None /\ Forgotten
           received == IF whole THEN Acknowledgements(window) ELSE {reply}
       IN /\ window' = IF closes \/ whole THEN 0 ELSE window
          /\ Installs(whole)
          /\ IF expires
             THEN /\ pending' = None
                  /\ reply' \in UNION {Delivers(out, claim, pending.of) : out \in received}
             ELSE /\ pending' = IF pending = None THEN None ELSE [pending EXCEPT !.age = Older(@, PromptPasses)]
                  /\ reply' \in received
  /\ UNCHANGED <<btVars, bus, claim, approved, flight, seen, gate, chunks, screen, confirmed>>

-----------------------------------------------------------------------------
(* The ownship service confirms a flight state; the log serves its frames. *)

Fly ==
  /\ at = "log"
  /\ flight' \in IF flight = "ground" THEN {"airborne"}
                 ELSE IF flight = "airborne" THEN {"ground"} ELSE {"ground", "airborne"}
  /\ UNCHANGED <<btVars, bus, configVars, gate, reply, chunks, screen,
                 confirmed, at>>

\* RecordPool::deliver_held(), RecordStore::continue_read()
ResumesLog(out) == Resumes(out, out.run.to)

\* serve_link(), up to the frames.
ResumeLog ==
  /\ at = "log" /\ at' = "requests"
  /\ chunks' \in ResumesLog(chunks)
  /\ UNCHANGED <<btVars, bus, configVars, flight, gate, reply, screen, confirmed>>

\* request_log_erase()
RequestErase(erase, s, of) == StagesIf(erase, "erase", s, of)

\* answer_read()
Reads(out, to, of) == Starts(out, to, of)

\* handle(): a read starts its chunks; an erase asks the config service, whose
\* own idea of the flight and whose own outbox it goes through.
Request ==
  /\ at = "requests" /\ ~Replying(chunks) /\ bus.log # <<>>
  /\ bus' = [bus EXCEPT !.log = Tail(@)]
  /\ LET frame == Head(bus.log)
         served == Granted(frame.from) /\ flight = "ground"
         erase == served /\ KindOf(frame) = "erase"
     IN /\ Grant(frame.from)
        /\ IF erase
           THEN reply' \in Delivers(reply, claim', frame.of) /\ UNCHANGED chunks
           ELSE /\ chunks' \in IF served THEN Reads(chunks, frame.from, frame.of)
                              ELSE Delivers(chunks, frame.from, frame.of)
                /\ UNCHANGED reply
        /\ RequestErase(erase, claim', frame.of)
  /\ UNCHANGED <<btVars, window, approved, installing, flight, seen, gate, screen,
                 confirmed, at>>

-----------------------------------------------------------------------------
(* The screen.  `glass` is the question known to be readable: a prompt of  *)
(* another kind, or an answer, clears it, and a redraw sets it.            *)

Answered == [screen EXCEPT !.prompt = "none", !.glass = 0, !.armed = FALSE, !.pressed = FALSE]

\* Mutant of Shown: the gesture stays armed when another prompt stands.
ShownArmed == [screen EXCEPT !.prompt = pending.kind]
\* handle_input(), before the contacts: a prompt of another kind disarms.
Shown ==
  IF pending.kind = screen.prompt THEN screen
  ELSE [Answered EXCEPT !.prompt = pending.kind]

\* The gesture arms once the question is on the glass and the thumb is still.
Input ==
  /\ at = "requests" /\ (Replying(chunks) \/ bus.log = <<>>) /\ at' = "presses"
  /\ \E still \in BOOLEAN :
       screen' = IF still /\ Shown.prompt # "none" /\ Shown.glass # 0 /\ ~Shown.armed
                 THEN [Shown EXCEPT !.armed = TRUE, !.pressed = FALSE] ELSE Shown
  /\ UNCHANGED <<btVars, bus, configVars, flight, gate, reply, chunks, confirmed>>

\* confirm(): in flight nothing; else what the prompt that stands says.
Confirm ==
  /\ pending' = None
  /\ reply' \in Acknowledgements(pending.of)
  /\ IF seen # "ground" THEN UNCHANGED <<window, gate, confirmed>>
     ELSE /\ confirmed' = [done |-> pending.of, read |-> screen.glass]
          /\ window' = IF pending.kind = "dfu" THEN pending.of
                       ELSE IF pending.kind = "recovery" THEN 0 ELSE window
          /\ gate' = IF pending.kind = "dfu" THEN [gate EXCEPT !.finished = FALSE] ELSE gate

\* cancel(): a lone press at a prompt, or a press while an image is received.
Cancel ==
  /\ pending' = None /\ window' = 0
  /\ reply' \in Delivers(reply, claim, IF pending # None THEN pending.of ELSE window)
  /\ UNCHANGED gate

Unpressed == UNCHANGED <<pending, window, gate, reply>>

\* ConfirmGesture: armed, then one press, then the other.
FirstPress == screen.armed /\ ~screen.pressed
SecondPress == screen.armed /\ screen.pressed

\* press(): the first, the second, the one that stops an upload.
Press ==
  /\ at = "presses"
  /\ \/ /\ FirstPress
        /\ screen' = [screen EXCEPT !.pressed = TRUE]
        /\ Unpressed /\ UNCHANGED confirmed
     \/ /\ SecondPress
        /\ screen' = Answered
        /\ Confirm
     \/ /\ screen.prompt = "none" /\ window # 0
        /\ Cancel /\ UNCHANGED <<screen, confirmed>>
  /\ UNCHANGED <<btVars, bus, claim, approved, installing, flight, seen, chunks, at>>

\* A press that is not followed refuses; then the panel is redrawn or, hot or
\* not ready, is not.  Behind the services the product spends what was requested.
Present ==
  /\ at = "presses" /\ at' = "poll"
  /\ \E drawn \in BOOLEAN :
       LET Drawn(s) == IF drawn THEN [s EXCEPT !.glass = IF s.prompt = "none" THEN 0 ELSE pending'.of]
                       ELSE s
       IN \/ Unpressed /\ screen' = Drawn(screen)
          \/ /\ SecondPress
             /\ Cancel /\ screen' = Drawn(Answered)
  /\ confirmed' = Unconfirmed /\ installing' = NoInstall
  /\ UNCHANGED <<btVars, bus, claim, approved, flight, seen, chunks>>

-----------------------------------------------------------------------------
LinkInit ==
  /\ central = {} /\ arrivals = 0 /\ raised = <<>> /\ rx = <<>> /\ written = <<>>
  /\ bus = [events |-> <<>>, link |-> <<>>, log |-> <<>>]
  /\ claim = 0 /\ pending = None /\ window = 0 /\ approved = 0 /\ installing = NoInstall
  /\ flight = "unknown" /\ seen = "unknown"
  /\ gate = [allowed |-> FALSE, finished |-> FALSE, image |-> 0]
  /\ reply = Quiet /\ chunks = Quiet
  /\ screen = [prompt |-> "none", glass |-> 0, armed |-> FALSE, pressed |-> FALSE]
  /\ confirmed = Unconfirmed /\ at = "poll"

Bluetooth ==
  \/ \E s \in Sessions : Connect(s) \/ Disconnect(s) \/ \E kind \in Kinds : Write(s, kind)
  \/ Upload

Pass ==
  \/ PollEvents \/ PollFrame \/ Polled \/ DrainEvent \/ HearFlight \/ Resume \/ Command
  \/ TickConfig \/ ResumeLog \/ Request \/ Input \/ Present

LinkNext == Bluetooth \/ Pass \/ Fly \/ Press

LinkSpec == LinkInit /\ [][LinkNext]_linkVars
\* The main loop makes its passes; Bluetooth and the pilot owe it nothing.
FairLinkSpec == LinkSpec /\ WF_linkVars(Pass)

-----------------------------------------------------------------------------
Events == [type : {"up", "down"}, of : Sessions]
Frames == [from : Sessions, of : 1 .. MaxCommands]
Outboxes ==
  [held : [to : {0} \cup Sessions, of : 0 .. MaxCommands, part : 0 .. Parts,
           age : 0 .. HoldPasses],
   run : [to : {0} \cup Sessions, of : 0 .. MaxCommands, next : 0 .. Parts, got : 0 .. Parts]]

\* Every queue keeps within its room, and every session, command, frame and
\* prompt is one there is.
LinkTypeOK ==
  /\ central \subseteq Sessions /\ arrivals \in 0 .. MaxArrivals
  /\ raised \in Seq(Events) /\ Len(raised) <= EventRoom
  /\ rx \in Seq(Frames) /\ Len(rx) <= RxRoom
  /\ written \in Seq(Kinds) /\ Len(written) <= MaxCommands
  /\ bus \in [events : Seq(Events), link : Seq(Frames), log : Seq(Frames)]
  /\ Len(bus.events) <= BusEvents /\ Len(bus.link) <= BusRoom /\ Len(bus.log) <= BusRoom
  /\ claim \in {0} \cup Sessions
  /\ pending \in [kind : Prompts \cup {"none"}, by : {0} \cup Sessions,
                  of : 0 .. MaxCommands, age : 0 .. PromptPasses]
  /\ window \in 0 .. MaxCommands /\ approved \in 0 .. MaxCommands
  /\ installing \in [image : 0 .. MaxCommands, window : 0 .. MaxCommands]
  /\ {flight, seen} \subseteq {"unknown", "ground", "airborne"}
  /\ gate \in [allowed : BOOLEAN, finished : BOOLEAN, image : 0 .. MaxCommands]
  /\ reply \in Outboxes /\ chunks \in Outboxes
  /\ screen \in [prompt : Prompts \cup {"none"}, glass : 0 .. MaxCommands,
                 armed : BOOLEAN, pressed : BOOLEAN]
  /\ confirmed \in [done : 0 .. MaxCommands, read : 0 .. MaxCommands]
  /\ at \in Steps

\* What was asked of the pilot, an open upload window and a dump under way are
\* the claim holder's: its disconnect ends all three, and nobody else's does
\* (core/comms/README.md, The claim; on_link_down() and stage()).
AuthorityHeld ==
  /\ pending # None => pending.by = claim /\ claim # 0
  /\ window # 0 => claim # 0
  /\ reply.run.of # 0 => reply.run.to = claim /\ claim # 0

\* The frames of an answer arrive one after another: the one that waits is the
\* first that has not arrived, and the rest come after it, whatever the link
\* refused, and whoever disconnected, on the way (continue_report(),
\* resume_replies(), continue_read(), deliver_held()).
AnswersWhole ==
  \A out \in {reply, chunks} :
    out.run.of # 0 => /\ out.held.of = out.run.of
                      /\ out.held.part = out.run.got + 1
                      /\ out.run.next = out.held.part + 1

\* Once a pass has drained what the link did and heard the flight state, no
\* chunk enters the slot unless the app that asked still holds the claim and
\* the unit is on the ground (publish_upload_verdict(), twice in a pass).
UploadsHaveAHolder ==
  at \in {"resume", "commands"} /\ gate.allowed => claim # 0 /\ seen = "ground"

\* The pilot confirms a prompt of the kind that is on the glass, though the
\* phone may replace it, leave, or outwait it at any instant of the two presses
\* (handle_input()).
KindWasRead ==
  confirmed # Unconfirmed =>
    /\ confirmed.read # 0
    /\ written[confirmed.done] = written[confirmed.read]

\* Apps that stop asking leave the unit at rest: no prompt stands, no answer
\* waits and no command is queued, whatever the link does and whether or not
\* the pilot answers (tick(), kPromptForgetMs; resume_replies(),
\* kReplyWaitCeilingMs).
LinkComesToRest ==
  <>[](pending = None /\ ~Replying(reply) /\ ~Replying(chunks)
       /\ rx = <<>> /\ bus.link = <<>> /\ bus.log = <<>>)
=============================================================================
