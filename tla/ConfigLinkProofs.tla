--------------------------- MODULE ConfigLinkProofs ---------------------------
(***************************************************************************)
(* The link's properties, for any number of connections, any rooms of the  *)
(* queues, any ceilings and any commands.  Every command in a queue, every *)
(* prompt and everything on the glass is one that was written, of the kind *)
(* it says; an outbox with more to follow holds the frame that comes first *)
(* and knows the last that arrived.                                        *)
(***************************************************************************)
EXTENDS ConfigLink, SequenceTheorems, TLAPS

Ids == {0} \cup Sessions
States == {"unknown", "ground", "airborne"}
PromptKinds == Prompts \cup {"none"}
\* The commands written so far, and what may be queued of them.
Written == 1 .. Len(written)
WrittenFrames == [from : Sessions, of : Written]

\* An outbox that holds nothing is blank, and one with an answer under way
\* waits on its first frame that has not arrived.
OutboxOK(out) ==
  /\ out \in Outboxes
  /\ out.held.to = 0 => out.held = NoFrame
  /\ out.run.of # 0 => /\ out.held.of = out.run.of
                       /\ out.held.part = out.run.got + 1
                       /\ out.run.next = out.held.part + 1

RadioOK ==
  /\ central \subseteq Sessions /\ arrivals \in 0 .. MaxArrivals
  /\ raised \in Seq(Events) /\ Len(raised) <= EventRoom
  /\ written \in Seq(Kinds) /\ Len(written) <= MaxCommands
  /\ rx \in Seq(WrittenFrames) /\ Len(rx) <= RxRoom

BusOK ==
  /\ bus \in [events : Seq(Events), link : Seq(WrittenFrames), log : Seq(WrittenFrames)]
  /\ Len(bus.events) <= BusEvents /\ Len(bus.link) <= BusRoom /\ Len(bus.log) <= BusRoom

ConfigOK ==
  /\ claim \in Ids /\ window \in 0 .. MaxCommands /\ approved \in 0 .. MaxCommands
  /\ installing \in [image : 0 .. MaxCommands, window : 0 .. MaxCommands]
  /\ flight \in States /\ seen \in States
  /\ gate \in [allowed : BOOLEAN, finished : BOOLEAN, image : 0 .. MaxCommands]

\* A prompt is of the kind its command was written with.
PromptOK ==
  /\ pending \in [kind : PromptKinds, by : Ids, of : 0 .. MaxCommands, age : 0 .. PromptPasses]
  /\ IF pending.kind = "none" THEN pending = None
     ELSE pending.of \in Written /\ written[pending.of] = pending.kind

\* So is the question on the glass, and the gesture arms on one.
ScreenOK ==
  /\ screen \in [prompt : PromptKinds, glass : 0 .. MaxCommands,
                 armed : BOOLEAN, pressed : BOOLEAN]
  /\ screen.glass # 0 => screen.glass \in Written /\ written[screen.glass] = screen.prompt
  /\ screen.armed => screen.prompt # "none" /\ screen.glass # 0

ConfirmedOK ==
  /\ confirmed \in [done : 0 .. MaxCommands, read : 0 .. MaxCommands]
  /\ confirmed # Unconfirmed =>
       /\ confirmed.done \in Written /\ confirmed.read \in Written
       /\ written[confirmed.done] = written[confirmed.read]

\* The presses are read right after the screen took the prompt.
PassOK == at \in Steps /\ (at = "presses" => screen.prompt = pending.kind)

LinkInv ==
  /\ RadioOK /\ BusOK /\ ConfigOK /\ PromptOK /\ ScreenOK /\ ConfirmedOK /\ PassOK
  /\ OutboxOK(reply) /\ OutboxOK(chunks)
  /\ AuthorityHeld /\ UploadsHaveAHolder

-----------------------------------------------------------------------------
(* Numbers and queues.                                                     *)

LEMMA LeastOfTwo ==
  ASSUME NEW a \in Int, NEW b \in Int
  PROVE  Least({a, b}) = IF a <= b THEN a ELSE b
<1>1. \E m \in {a, b} : \A n \in {a, b} : m <= n
  OBVIOUS
<1>2. Least({a, b}) \in {a, b} /\ \A n \in {a, b} : Least({a, b}) <= n
  BY <1>1 DEF Least
<1> QED BY <1>2

LEMMA OlderType ==
  ASSUME NEW passes \in Nat, NEW age \in 0 .. passes
  PROVE  Older(age, passes) \in 0 .. passes
  BY LeastOfTwo DEF Older

LEMMA KeptType ==
  ASSUME NEW S, NEW queue \in Seq(S), NEW more \in Seq(S), NEW room \in Nat
  PROVE  Kept(queue, more, room) \in Seq(S) /\ Len(Kept(queue, more, room)) <= room
<1> DEFINE all == queue \o more
           kept == Least({room, Len(queue) + Len(more)})
<1>1. all \in Seq(S) /\ Len(all) = Len(queue) + Len(more) /\ Len(all) \in Nat
  BY ConcatProperties, LenProperties
<1>2. kept \in 0 .. Len(all) /\ kept <= room
  BY <1>1, LeastOfTwo
<1> HIDE DEF all, kept
<1>3. \A i \in 1 .. kept : all[i] \in S
  BY <1>1, <1>2, ElementOfSeq
<1>4. SubSeq(all, 1, kept) \in Seq(S) /\ Len(SubSeq(all, 1, kept)) = IF 1 <= kept THEN kept - 1 + 1 ELSE 0
  BY <1>2, <1>3, SubSeqProperties
<1>5. SubSeq(all, 1, kept) \in Seq(S) /\ Len(SubSeq(all, 1, kept)) <= room
  BY <1>2, <1>4
<1> QED BY <1>5 DEF Kept, all, kept

-----------------------------------------------------------------------------
(* The outboxes.                                                           *)

LEMMA QuietOK == OutboxOK(Quiet) /\ Quiet.run.of = 0
  BY RoomAssumption, BoundsAssumption DEF OutboxOK, Quiet, NoFrame, NoRun, Outboxes

\* An outbox as Continues is given one: nothing waits, and the next frame is
\* the one behind the last that arrived.
Resting(out) ==
  /\ out \in Outboxes /\ out.held = NoFrame
  /\ out.run.of # 0 => out.run.next = out.run.got + 1

\* What follows is of the same answer, if there is more.
Follows(next, out) == next.run.of # 0 => next.run.of = out.run.of /\ next.run.to = out.run.to

LEMMA ContinuesOK ==
  ASSUME NEW out, Resting(out), NEW to \in Ids, RadioOK, NEW next \in Continues(out, to)
  PROVE  OutboxOK(next) /\ Follows(next, out)
<1> DEFINE run == out.run
           Waits(part) == [held |-> Waiting(to, run.of, part),
                           run |-> IF part = Parts THEN NoRun
                                   ELSE [run EXCEPT !.next = part + 1,
                                                    !.got = IF part = run.next THEN @ ELSE part - 1]]
<1>1. /\ Parts \in Nat \ {0} /\ HoldPasses \in Nat /\ MaxCommands \in Nat
      /\ out \in Outboxes
      /\ run \in [to : Ids, of : 0 .. MaxCommands, next : 0 .. Parts, got : 0 .. Parts]
  BY RoomAssumption, BoundsAssumption DEF Resting, Outboxes, Ids
<1>2. CASE run.of = 0 /\ next = out
  BY <1>2 DEF Resting, OutboxOK, Follows
<1>3. CASE next = [out EXCEPT !.run = NoRun]
  BY <1>1, <1>3 DEF Resting, OutboxOK, Follows, Outboxes, NoRun, Ids
<1>4. ASSUME run.of # 0, to \in central, NEW part \in run.next .. Parts, next = Waits(part)
      PROVE  OutboxOK(next) /\ Follows(next, out)
  <2>1. /\ run.next = run.got + 1 /\ part \in 1 .. Parts
        /\ to \in Sessions /\ to # 0
    BY <1>1, <1>4, SessionsAssumption DEF Resting, RadioOK
  <2>2. /\ next.held = [to |-> to, of |-> run.of, part |-> part, age |-> 0]
        /\ next.run = IF part = Parts THEN NoRun
                      ELSE [run EXCEPT !.next = part + 1,
                                       !.got = IF part = run.next THEN run.got ELSE part - 1]
        /\ next = [held |-> next.held, run |-> next.run]
    BY <1>4 DEF Waiting
  <2>3. next.held \in [to : Ids, of : 0 .. MaxCommands, part : 0 .. Parts, age : 0 .. HoldPasses]
    BY <1>1, <2>1, <2>2 DEF Ids
  <2>4. CASE part = Parts
    BY <1>1, <2>1, <2>2, <2>3, <2>4 DEF OutboxOK, Follows, Outboxes, NoRun, Ids
  <2>5. CASE part # Parts
    <3> HIDE DEF run
    <3>0. next.run = [run EXCEPT !.next = part + 1, !.got = part - 1]
      <4>1. (IF part = run.next THEN run.got ELSE part - 1) = part - 1
        BY <1>1, <2>1
      <4> QED BY <2>2, <2>5, <4>1
    <3>1. /\ next.run.to = run.to /\ next.run.of = run.of /\ next.run.next = part + 1
          /\ next.run.got = part - 1
          /\ next.run \in [to : Ids, of : 0 .. MaxCommands, next : 0 .. Parts, got : 0 .. Parts]
      <4>1. part + 1 \in 0 .. Parts /\ part - 1 \in 0 .. Parts
        BY <1>1, <2>1, <2>5
      <4>2. run \in [to : Ids, of : 0 .. MaxCommands, next : 0 .. Parts, got : 0 .. Parts]
        BY <1>1
      <4> QED BY <3>0, <4>1, <4>2
    <3>2. next \in Outboxes
      BY <2>2, <2>3, <3>1 DEF Outboxes, Ids
    <3>3. OutboxOK(next)
      BY <2>1, <2>2, <3>1, <3>2 DEF OutboxOK
    <3> QED BY <3>1, <3>3 DEF Follows, run
  <2> QED BY <2>4, <2>5
<1>5. \/ run.of = 0 /\ next = out
      \/ next = [out EXCEPT !.run = NoRun]
      \/ /\ run.of # 0 /\ to \in central
         /\ \E part \in run.next .. Parts : next = Waits(part)
  <2>1. out.held.to = 0
    BY DEF Resting, NoFrame
  <2> QED BY <2>1 DEF Continues
<1> QED BY <1>2, <1>3, <1>4, <1>5

LEMMA DeliversOK ==
  ASSUME NEW out, OutboxOK(out), NEW to \in Ids, NEW of \in 0 .. MaxCommands, RadioOK,
         NEW next \in Delivers(out, to, of)
  PROVE  OutboxOK(next) /\ next.run = out.run
<1>1. CASE next = out
  BY <1>1
<1>2. CASE out.held.to = 0 /\ to \in central /\ next = [out EXCEPT !.held = Waiting(to, of, 1)]
  <2>1. /\ Parts \in Nat \ {0} /\ HoldPasses \in Nat /\ MaxCommands \in Nat
        /\ to # 0 /\ out \in Outboxes
    BY <1>2, RoomAssumption, BoundsAssumption, SessionsAssumption DEF RadioOK, OutboxOK
  <2>2. out.run.of = 0
    BY <1>2, <2>1 DEF OutboxOK, NoFrame, Outboxes
  <2>3. /\ next.held = [to |-> to, of |-> of, part |-> 1, age |-> 0]
        /\ next.run = out.run
        /\ next \in Outboxes
    BY <1>2, <2>1 DEF Waiting, Outboxes, Ids
  <2> QED BY <2>1, <2>2, <2>3 DEF OutboxOK
<1> QED BY <1>1, <1>2 DEF Delivers

LEMMA StartsOK ==
  ASSUME NEW out, OutboxOK(out), ~Replying(out), NEW to \in Ids, NEW of \in 0 .. MaxCommands,
         RadioOK, NEW next \in Starts(out, to, of)
  PROVE  OutboxOK(next) /\ (next.run.of # 0 => next.run.to = to)
<1> DEFINE start == [out EXCEPT !.run = [to |-> to, of |-> of, next |-> 1, got |-> 0]]
<1>1. out \in Outboxes /\ out.held = NoFrame /\ Parts \in Nat \ {0} /\ MaxCommands \in Nat
  BY RoomAssumption, BoundsAssumption DEF OutboxOK, Replying
<1>2. Resting(start) /\ start.run.to = to
  BY <1>1 DEF Resting, Outboxes, Ids
<1> HIDE DEF start
<1>3. next \in Continues(start, to)
  BY DEF Starts, start
<1> QED BY <1>2, <1>3, ContinuesOK DEF Follows

LEMMA ResumesOK ==
  ASSUME NEW out, OutboxOK(out), NEW to \in Ids, RadioOK, NEW next \in Resumes(out, to)
  PROVE  OutboxOK(next) /\ Follows(next, out)
<1>1. /\ out \in Outboxes /\ HoldPasses \in Nat /\ Parts \in Nat \ {0}
      /\ out.held \in [to : Ids, of : 0 .. MaxCommands, part : 0 .. Parts, age : 0 .. HoldPasses]
      /\ out.run \in [to : Ids, of : 0 .. MaxCommands, next : 0 .. Parts, got : 0 .. Parts]
  BY RoomAssumption, BoundsAssumption DEF OutboxOK, Outboxes, Ids
<1>2. CASE out.held.to = 0
  <2>1. next \in Continues(out, to)
    BY <1>2 DEF Resumes
  <2>2. Resting(out)
    BY <1>1, <1>2 DEF OutboxOK, Resting, NoFrame
  <2> QED BY <2>1, <2>2, ContinuesOK
<1>3. CASE out.held.to # 0
  <2> DEFINE sent == [out EXCEPT !.held = NoFrame,
                                 !.run.got = IF out.run.of = 0 THEN 0 ELSE out.held.part]
             waits == [out EXCEPT !.held.age = Older(@, HoldPasses)]
  <2>1. next \in Continues(sent, to) \/ next = waits \/ next = Quiet
    BY <1>3 DEF Resumes, Refused
  <2>2. CASE next \in Continues(sent, to)
    <3> DEFINE got == IF out.run.of = 0 THEN 0 ELSE out.held.part
    <3>1. got \in 0 .. Parts
      BY <1>1
    <3>2. sent.held = NoFrame /\ sent.run = [out.run EXCEPT !.got = got]
      BY <1>1
    <3>3. /\ sent.run \in [to : Ids, of : 0 .. MaxCommands, next : 0 .. Parts, got : 0 .. Parts]
          /\ sent.run.to = out.run.to /\ sent.run.of = out.run.of
          /\ sent.run.next = out.run.next /\ sent.run.got = got
      BY <1>1, <3>1, <3>2
    <3>4. sent \in Outboxes
      <4>1. sent = [out EXCEPT !.held = NoFrame, !.run = sent.run]
        OBVIOUS
      <4>2. NoFrame \in [to : Ids, of : 0 .. MaxCommands, part : 0 .. Parts, age : 0 .. HoldPasses]
        BY BoundsAssumption, RoomAssumption DEF NoFrame, Ids
      <4> QED BY <1>1, <3>3, <4>1, <4>2 DEF Outboxes, Ids
    <3>5. Resting(sent)
      BY <1>1, <3>2, <3>3, <3>4 DEF Resting, OutboxOK
    <3> HIDE DEF sent
    <3>6. OutboxOK(next) /\ Follows(next, sent)
      BY <2>2, <3>5, ContinuesOK
    <3> QED BY <3>3, <3>6 DEF Follows
  <2>3. CASE next = waits
    <3>1. Older(out.held.age, HoldPasses) \in 0 .. HoldPasses
      BY <1>1, OlderType
    <3>2. /\ waits \in Outboxes /\ waits.run = out.run
          /\ waits.held.to = out.held.to /\ waits.held.of = out.held.of
          /\ waits.held.part = out.held.part
      BY <1>1, <3>1 DEF Outboxes, Ids
    <3> QED BY <1>3, <2>3, <3>2 DEF OutboxOK, Follows
  <2>4. CASE next = Quiet
    BY <2>4, QuietOK DEF Follows
  <2> QED BY <2>1, <2>2, <2>3, <2>4
<1> QED BY <1>2, <1>3

-----------------------------------------------------------------------------
(* The Bluetooth thread.  What is written grows, and nothing that named a  *)
(* command names another.                                                  *)

USE DEF Ids

LEMMA NumbersAreNat ==
  /\ {Parts, RxRoom, EventRoom, BusRoom, BusEvents} \subseteq Nat \ {0}
  /\ {HoldPasses, PromptPasses, MaxArrivals, MaxCommands} \subseteq Nat
  /\ 0 \notin Sessions /\ Kinds \subseteq AllKinds
  BY SessionsAssumption, KindsAssumption, RoomAssumption, BoundsAssumption

LEMMA NoPromptOK ==
  /\ None \in [kind : PromptKinds, by : Ids, of : 0 .. MaxCommands, age : 0 .. PromptPasses]
  /\ None.kind = "none"
  BY NumbersAreNat DEF None, PromptKinds

LEMMA RaiseType ==
  ASSUME RadioOK, NEW type \in {"up", "down"}, NEW s \in Sessions, Raise(type, s)
  PROVE  raised' \in Seq(Events) /\ Len(raised') <= EventRoom
<1>1. <<[type |-> type, of |-> s]>> \in Seq(Events)
  BY DEF Events
<1> QED BY <1>1, KeptType, NumbersAreNat DEF Raise, RadioOK

\* Who is connected, and what was raised of it, the rest of the link does not
\* remember.
LEMMA ConnectKeeps ==
  ASSUME LinkInv, NEW s \in Sessions, Connect(s) \/ Disconnect(s)
  PROVE  LinkInv'
<1>1. RadioOK'
  <2>1. raised' \in Seq(Events) /\ Len(raised') <= EventRoom
    BY RaiseType DEF LinkInv, Connect, Disconnect
  <2>2. arrivals' \in 0 .. MaxArrivals /\ central' \subseteq Sessions
    BY NumbersAreNat DEF LinkInv, RadioOK, Connect, Disconnect
  <2> QED BY <2>1, <2>2 DEF LinkInv, RadioOK, WrittenFrames, Written, Connect, Disconnect
<1>2. /\ UNCHANGED <<rx, written, bus, configVars, flight, gate, reply, chunks, screen, confirmed>>
      /\ at' = at
  BY DEF Connect, Disconnect
<1> QED BY <1>1, <1>2
        DEF LinkInv, BusOK, ConfigOK, PromptOK, ScreenOK, ConfirmedOK, PassOK, OutboxOK,
            AuthorityHeld, UploadsHaveAHolder, WrittenFrames, Written, configVars

LEMMA WriteKeeps ==
  ASSUME LinkInv, NEW s \in Sessions, NEW kind \in Kinds, Write(s, kind)
  PROVE  LinkInv'
<1>1. /\ written \in Seq(Kinds) /\ Len(written) \in Nat /\ Len(written) < MaxCommands
      /\ written' = Append(written, kind) /\ MaxCommands \in Nat
  BY NumbersAreNat, LenProperties DEF LinkInv, RadioOK, Write
<1>2. /\ written' \in Seq(Kinds) /\ Len(written') = Len(written) + 1
      /\ \A i \in Written : written'[i] = written[i]
  BY <1>1, AppendProperties DEF Written
<1>3. Written \subseteq Written' /\ Len(written') \in Written'
  BY <1>1, <1>2 DEF Written
<1>4. WrittenFrames \subseteq WrittenFrames'
  BY <1>3 DEF WrittenFrames
<1>5. RadioOK'
  <2>1. [from |-> s, of |-> Len(written) + 1] \in WrittenFrames'
    BY <1>2, <1>3 DEF WrittenFrames
  <2>2. rx \in Seq(WrittenFrames') /\ Len(rx) \in Nat /\ Len(rx) < RxRoom
    BY <1>4, SeqMonotonic, LenProperties DEF LinkInv, RadioOK, Write
  <2>3. rx' = Append(rx, [from |-> s, of |-> Len(written) + 1])
    BY DEF Write
  <2>4. rx' \in Seq(WrittenFrames') /\ Len(rx') = Len(rx) + 1
    BY <2>1, <2>2, <2>3, AppendProperties
  <2> QED BY <1>1, <1>2, <2>2, <2>4, NumbersAreNat DEF LinkInv, RadioOK, Write
<1>6. BusOK'
  <2>1. /\ bus.link \in Seq(WrittenFrames') /\ bus.log \in Seq(WrittenFrames')
    BY <1>4, SeqMonotonic DEF LinkInv, BusOK
  <2> QED BY <2>1 DEF LinkInv, BusOK, Write
<1>7. PromptOK' /\ ScreenOK' /\ ConfirmedOK'
  BY <1>2, <1>3 DEF LinkInv, PromptOK, ScreenOK, ConfirmedOK, Write, configVars
<1>8. UNCHANGED <<claim, pending, window, approved, installing, seen, flight, gate, reply,
                  chunks, screen, at>>
  BY DEF Write, configVars
<1> QED BY <1>5, <1>6, <1>7, <1>8
        DEF LinkInv, ConfigOK, PassOK, OutboxOK, AuthorityHeld, UploadsHaveAHolder

LEMMA UploadKeeps ==
  ASSUME LinkInv, Upload
  PROVE  LinkInv'
<1>1. Firmware \subseteq 1 .. MaxCommands
  BY LenProperties, NumbersAreNat DEF LinkInv, RadioOK, Firmware
<1>2. /\ gate' \in [allowed : BOOLEAN, finished : BOOLEAN, image : 0 .. MaxCommands]
      /\ gate'.allowed = gate.allowed
  <2>1. PICK finished \in BOOLEAN, image \in 0 .. MaxCommands :
          gate' = [gate EXCEPT !.finished = finished, !.image = image]
    <3>1. 0 \in 0 .. MaxCommands /\ {0} \cup Firmware \subseteq 0 .. MaxCommands
      BY <1>1, NumbersAreNat
    <3>2. CASE gate' = [gate EXCEPT !.finished = FALSE, !.image = 0]
      BY <3>1, <3>2
    <3>3. CASE \E image \in {0} \cup Firmware :
                 gate' = [gate EXCEPT !.finished = TRUE, !.image = image]
      BY <3>1, <3>3
    <3> QED BY <3>2, <3>3 DEF Upload
  <2> QED BY <2>1 DEF LinkInv, ConfigOK
<1>3. UNCHANGED <<btVars, bus, configVars, flight, reply, chunks, screen, confirmed, at>>
  BY DEF Upload
<1> QED BY <1>2, <1>3
        DEF LinkInv, RadioOK, BusOK, ConfigOK, PromptOK, ScreenOK, ConfirmedOK, PassOK,
            OutboxOK, AuthorityHeld, UploadsHaveAHolder, WrittenFrames, Written,
            btVars, configVars

-----------------------------------------------------------------------------
(* The poll and the events.                                                *)

LEMMA PollEventsKeeps ==
  ASSUME LinkInv, PollEvents
  PROVE  LinkInv'
<1>1. raised' = <<>> /\ raised' \in Seq(Events) /\ Len(raised') = 0
  BY EmptySeq DEF PollEvents
<1>2. /\ Kept(bus.events, raised, BusEvents) \in Seq(Events)
      /\ Len(Kept(bus.events, raised, BusEvents)) <= BusEvents
  BY KeptType, NumbersAreNat DEF LinkInv, RadioOK, BusOK
<1>3. bus' = [bus EXCEPT !.events = Kept(bus.events, raised, BusEvents)]
  BY DEF PollEvents
<1>4. BusOK'
  BY <1>2, <1>3 DEF LinkInv, BusOK, WrittenFrames, Written, PollEvents
<1>5. RadioOK'
  BY <1>1, NumbersAreNat DEF LinkInv, RadioOK, WrittenFrames, Written, PollEvents
<1>6. UNCHANGED <<written, configVars, flight, gate, reply, chunks, screen, confirmed>>
      /\ at' = "frames"
  BY DEF PollEvents
<1> QED BY <1>4, <1>5, <1>6
        DEF LinkInv, ConfigOK, PromptOK, ScreenOK, ConfirmedOK, PassOK, OutboxOK,
            AuthorityHeld, UploadsHaveAHolder, Written, configVars, Steps

LEMMA PollFrameKeeps ==
  ASSUME LinkInv, PollFrame \/ Polled
  PROVE  LinkInv'
<1>1. UNCHANGED <<central, arrivals, raised, written, configVars, flight, gate, reply, chunks, screen,
                  confirmed>>
  BY DEF PollFrame, Polled, btVars
<1>2. UNCHANGED <<Written, WrittenFrames>>
  BY <1>1 DEF Written, WrittenFrames
<1>3. at' \in {"frames", "events"}
  BY DEF PollFrame, Polled
<1>4. RadioOK' /\ BusOK'
  <2>1. CASE Polled
    BY <1>1, <1>2, <2>1 DEF LinkInv, RadioOK, BusOK, Polled, btVars
  <2>2. CASE PollFrame
    <3>1. /\ Head(rx) \in WrittenFrames
          /\ Tail(rx) \in Seq(WrittenFrames) /\ Len(Tail(rx)) = Len(rx) - 1
          /\ Len(rx) \in Nat
      BY <2>2, HeadTailProperties, LenProperties DEF LinkInv, RadioOK, PollFrame
    <3>2. <<Head(rx)>> \in Seq(WrittenFrames)
      BY <3>1
    <3>3. /\ Kept(bus.link, <<Head(rx)>>, BusRoom) \in Seq(WrittenFrames)
          /\ Len(Kept(bus.link, <<Head(rx)>>, BusRoom)) <= BusRoom
          /\ Kept(bus.log, <<Head(rx)>>, BusRoom) \in Seq(WrittenFrames)
          /\ Len(Kept(bus.log, <<Head(rx)>>, BusRoom)) <= BusRoom
      BY <3>2, KeptType, NumbersAreNat DEF LinkInv, BusOK
    <3>4. \/ bus' = [bus EXCEPT !.log = Kept(bus.log, <<Head(rx)>>, BusRoom)]
          \/ bus' = [bus EXCEPT !.link = Kept(bus.link, <<Head(rx)>>, BusRoom)]
      BY <2>2 DEF PollFrame
    <3>5. BusOK'
      BY <1>2, <3>3, <3>4 DEF LinkInv, BusOK
    <3>6. RadioOK'
      BY <1>1, <1>2, <2>2, <3>1, NumbersAreNat DEF LinkInv, RadioOK, PollFrame
    <3> QED BY <3>5, <3>6
  <2> QED BY <2>1, <2>2
<1> QED BY <1>1, <1>3, <1>4
        DEF LinkInv, ConfigOK, PromptOK, ScreenOK, ConfirmedOK, PassOK, OutboxOK,
            AuthorityHeld, UploadsHaveAHolder, Written, configVars, Steps

\* What a disconnect of the holder cancels is all that stood on its word.
LEMMA DrainEventKeeps ==
  ASSUME LinkInv, DrainEvent
  PROVE  LinkInv'
<1>1. /\ Tail(bus.events) \in Seq(Events) /\ Len(Tail(bus.events)) = Len(bus.events) - 1
      /\ Len(bus.events) \in Nat
  BY HeadTailProperties, LenProperties DEF LinkInv, BusOK, DrainEvent
<1>2. /\ UNCHANGED <<btVars, approved, installing, flight, seen, gate, chunks, screen,
                     confirmed, at>>
      /\ at = "events" /\ bus' = [bus EXCEPT !.events = Tail(bus.events)]
      /\ \/ UNCHANGED <<claim, pending, window, reply>>
         \/ claim' = 0 /\ pending' = None /\ window' = 0 /\ reply' = Quiet
  BY DEF DrainEvent, Left
<1>3. UNCHANGED <<Written, WrittenFrames>>
  BY <1>2 DEF Written, WrittenFrames, btVars
<1>4. RadioOK' /\ BusOK'
  <2>1. RadioOK'
    BY <1>2, <1>3 DEF LinkInv, RadioOK, btVars
  <2>2. bus' \in [events : Seq(Events), link : Seq(WrittenFrames), log : Seq(WrittenFrames)]
        /\ bus'.events = Tail(bus.events) /\ bus'.link = bus.link /\ bus'.log = bus.log
    BY <1>1, <1>2 DEF LinkInv, BusOK
  <2> QED BY <1>1, <1>3, <2>1, <2>2, NumbersAreNat DEF LinkInv, BusOK
<1>5. ConfigOK' /\ PromptOK' /\ PassOK' /\ UploadsHaveAHolder' /\ AuthorityHeld'
  <2>1. UploadsHaveAHolder' /\ PassOK'
    BY <1>2 DEF LinkInv, UploadsHaveAHolder, PassOK
  <2>2. CASE UNCHANGED <<claim, pending, window, reply>>
    BY <1>2, <1>3, <2>1, <2>2
    DEF LinkInv, ConfigOK, PromptOK, AuthorityHeld, btVars
  <2>3. CASE claim' = 0 /\ pending' = None /\ window' = 0 /\ reply' = Quiet
    <3>1. ConfigOK'
      BY <1>2, <2>3, NumbersAreNat DEF LinkInv, ConfigOK
    <3> QED BY <1>3, <2>1, <2>3, <3>1, NoPromptOK, QuietOK DEF AuthorityHeld, PromptOK
  <2> QED BY <1>2, <2>2, <2>3
<1>6. OutboxOK(reply)' /\ OutboxOK(chunks)' /\ ScreenOK' /\ ConfirmedOK'
  BY <1>2, <1>3, QuietOK DEF LinkInv, OutboxOK, ScreenOK, ConfirmedOK, btVars
<1> QED BY <1>4, <1>5, <1>6 DEF LinkInv

LEMMA HearFlightKeeps ==
  ASSUME LinkInv, HearFlight
  PROVE  LinkInv'
<1>1. /\ UNCHANGED <<btVars, bus, claim, approved, installing, flight, chunks, screen, confirmed>>
      /\ seen' = flight /\ at' = "resume"
      /\ window' \in {0, window}
      /\ pending' \in {None, pending}
      /\ reply' = reply \/ reply' \in Delivers(reply, claim, pending.of)
      /\ gate' = [gate EXCEPT !.allowed = window' # 0 /\ seen' = "ground"]
  BY DEF HearFlight, Verdict, Acknowledgements
<1>2. UNCHANGED <<Written, WrittenFrames>>
  BY <1>1 DEF Written, WrittenFrames, btVars
<1>3. OutboxOK(reply') /\ reply'.run = reply.run
  BY <1>1, DeliversOK DEF LinkInv, ConfigOK, PromptOK
<1>4. RadioOK' /\ BusOK'
  BY <1>1, <1>2 DEF LinkInv, RadioOK, BusOK, btVars
<1>5. ConfigOK' /\ PromptOK' /\ PassOK'
  <2>1. ConfigOK'
    <3>1. PICK verdict \in BOOLEAN : gate' = [gate EXCEPT !.allowed = verdict]
      BY <1>1, Zenon
    <3> QED BY <1>1, <3>1, NumbersAreNat DEF LinkInv, ConfigOK
  <2>2. PromptOK'
    BY <1>1, <1>2, NoPromptOK DEF LinkInv, PromptOK, btVars
  <2> QED BY <1>1, <2>1, <2>2 DEF PassOK, Steps
<1>6. UploadsHaveAHolder' /\ AuthorityHeld'
  BY <1>1, <1>3 DEF LinkInv, ConfigOK, UploadsHaveAHolder, AuthorityHeld
<1>7. OutboxOK(reply)' /\ OutboxOK(chunks)' /\ ScreenOK' /\ ConfirmedOK'
  BY <1>1, <1>2, <1>3 DEF LinkInv, OutboxOK, ScreenOK, ConfirmedOK, btVars
<1> QED BY <1>4, <1>5, <1>6, <1>7 DEF LinkInv

-----------------------------------------------------------------------------
(* The commands.                                                           *)

LEMMA ResumeKeeps ==
  ASSUME LinkInv, Resume
  PROVE  LinkInv'
<1>1. /\ UNCHANGED <<btVars, bus, configVars, flight, gate, chunks, screen, confirmed>>
      /\ at = "resume" /\ at' = "commands" /\ reply' \in Resumes(reply, claim)
  BY DEF Resume
<1>2. OutboxOK(reply') /\ Follows(reply', reply)
  BY <1>1, ResumesOK DEF LinkInv, ConfigOK
<1>3. UploadsHaveAHolder' /\ AuthorityHeld'
  BY <1>1, <1>2 DEF LinkInv, UploadsHaveAHolder, AuthorityHeld, Follows, configVars
<1> QED BY <1>1, <1>2, <1>3
        DEF LinkInv, RadioOK, BusOK, ConfigOK, PromptOK, ScreenOK, ConfirmedOK, PassOK, OutboxOK,
            WrittenFrames, Written, btVars, configVars, Steps

\* A frame taken off a queue of the bus.
LEMMA FrameTaken ==
  ASSUME RadioOK, NEW queue \in Seq(WrittenFrames), queue # <<>>
  PROVE  /\ Head(queue).from \in Sessions /\ Head(queue).of \in Written
         /\ Head(queue).of \in 0 .. MaxCommands /\ Head(queue).from # 0
         /\ KindOf(Head(queue)) \in Kinds /\ KindOf(Head(queue)) = written[Head(queue).of]
         /\ Tail(queue) \in Seq(WrittenFrames) /\ Len(Tail(queue)) <= Len(queue)
<1>1. /\ Head(queue) \in WrittenFrames /\ Tail(queue) \in Seq(WrittenFrames)
      /\ Len(Tail(queue)) = Len(queue) - 1 /\ Len(queue) \in Nat /\ Len(written) \in Nat
  BY HeadTailProperties, LenProperties DEF RadioOK
<1>2. Head(queue).from \in Sessions /\ Head(queue).of \in Written
  BY <1>1 DEF WrittenFrames
<1>3. written[Head(queue).of] \in Kinds
  BY <1>2, ElementOfSeq DEF RadioOK, Written
<1>4. Head(queue).of \in 0 .. MaxCommands /\ Head(queue).from # 0
  BY <1>1, <1>2, NumbersAreNat DEF Written, RadioOK
<1>5. KindOf(Head(queue)) = written[Head(queue).of]
  BY DEF KindOf
<1> QED BY <1>1, <1>2, <1>3, <1>4, <1>5

\* What a command of the holder, or of the one who becomes the holder, stages.
LEMMA StagedOK ==
  ASSUME LinkInv, UNCHANGED written, NEW s \in Sessions, NEW of \in Written,
         NEW stages \in BOOLEAN, stages => Granted(s) /\ written[of] \in Prompts,
         Grant(s), StagesIf(stages, written[of], s, of)
  PROVE  /\ PromptOK' /\ claim' \in Ids /\ claim' # 0
         /\ pending' # None => pending'.by = claim'
         /\ claim # 0 => claim' = claim
<1>1. claim' \in Ids /\ claim' # 0 /\ (claim # 0 => claim' = claim) /\ (Granted(s) => claim' = s)
  BY NumbersAreNat DEF Grant, Granted, LinkInv, ConfigOK
<1>2. CASE UNCHANGED pending
  BY <1>1, <1>2 DEF LinkInv, PromptOK, AuthorityHeld, Written
<1>3. CASE stages /\ Stage(written[of], s, of)
  <2>1. /\ pending' = [kind |-> written[of], by |-> s, of |-> of, age |-> 0]
        /\ written[of] \in Prompts
    BY <1>3 DEF Stage
  <2>2. of \in 0 .. MaxCommands /\ 0 \in 0 .. PromptPasses
    BY NumbersAreNat, LenProperties DEF LinkInv, RadioOK, Written
  <2>3. /\ pending' \in [kind : PromptKinds, by : Ids, of : 0 .. MaxCommands, age : 0 .. PromptPasses]
        /\ pending'.kind = written[of] /\ pending'.of = of /\ pending'.by = s
    BY <2>1, <2>2 DEF PromptKinds
  <2>4. PromptOK'
    BY <2>1, <2>3 DEF PromptOK, Prompts, Written
  <2> QED BY <1>1, <1>3, <2>3, <2>4
<1> QED BY <1>2, <1>3 DEF StagesIf

LEMMA CommandKeeps ==
  ASSUME LinkInv, Command
  PROVE  LinkInv'
<1> DEFINE frame == Head(bus.link)
           stages == Granted(frame.from) /\ KindOf(frame) \in Prompts
<1>1. /\ UNCHANGED <<btVars, window, installing, flight, seen, gate, chunks, screen, confirmed, at>>
      /\ at = "commands" /\ ~Replying(reply) /\ bus.link # <<>>
      /\ bus' = [bus EXCEPT !.link = Tail(bus.link)]
      /\ Grant(frame.from)
      /\ \/ Granted(frame.from) /\ reply' \in Starts(reply, frame.from, frame.of)
         \/ reply' \in Delivers(reply, frame.from, frame.of)
      /\ StagesIf(stages, KindOf(frame), frame.from, frame.of)
      /\ approved' \in {frame.of, approved}
  BY DEF Command, Approves
<1>2. /\ frame.from \in Sessions /\ frame.of \in Written /\ frame.of \in 0 .. MaxCommands
      /\ frame.from # 0 /\ KindOf(frame) = written[frame.of]
      /\ Tail(bus.link) \in Seq(WrittenFrames) /\ Len(Tail(bus.link)) <= Len(bus.link)
      /\ Len(Tail(bus.link)) \in Nat /\ Len(bus.link) \in Nat
  BY <1>1, FrameTaken, LenProperties DEF LinkInv, BusOK
<1> HIDE DEF frame
<1>3. UNCHANGED <<Written, WrittenFrames>>
  BY <1>1 DEF Written, WrittenFrames, btVars
<1>4. /\ PromptOK' /\ claim' \in Ids /\ claim' # 0
      /\ pending' # None => pending'.by = claim'
      /\ claim # 0 => claim' = claim
  <2>1. stages \in BOOLEAN /\ (stages => Granted(frame.from) /\ written[frame.of] \in Prompts)
    BY <1>2
  <2>2. UNCHANGED written
    BY <1>1 DEF btVars
  <2> HIDE DEF stages
  <2> QED BY <1>1, <1>2, <2>1, <2>2, StagedOK
<1>5. RadioOK' /\ BusOK'
  <2>1. RadioOK'
    BY <1>1, <1>3 DEF LinkInv, RadioOK, btVars
  <2>2. bus' \in [events : Seq(Events), link : Seq(WrittenFrames), log : Seq(WrittenFrames)]
        /\ bus'.events = bus.events /\ bus'.link = Tail(bus.link) /\ bus'.log = bus.log
    BY <1>1, <1>2 DEF LinkInv, BusOK
  <2> QED BY <1>2, <1>3, <2>1, <2>2, NumbersAreNat DEF LinkInv, BusOK
<1>6. /\ OutboxOK(reply') /\ (reply'.run.of # 0 => reply'.run.to = claim')
  <2>1. CASE Granted(frame.from) /\ reply' \in Starts(reply, frame.from, frame.of)
    <3>1. OutboxOK(reply') /\ (reply'.run.of # 0 => reply'.run.to = frame.from)
      BY <1>1, <1>2, <2>1, StartsOK DEF LinkInv
    <3> QED BY <1>1, <2>1, <3>1 DEF Granted, Grant
  <2>2. CASE reply' \in Delivers(reply, frame.from, frame.of)
    BY <1>1, <1>2, <2>2, DeliversOK DEF LinkInv, Replying
  <2> QED BY <1>1, <2>1, <2>2
<1>7. ConfigOK' /\ PassOK'
  BY <1>1, <1>2, <1>4 DEF LinkInv, ConfigOK, PassOK
<1>8. UploadsHaveAHolder' /\ AuthorityHeld'
  BY <1>1, <1>4, <1>6 DEF LinkInv, UploadsHaveAHolder, AuthorityHeld
<1>9. OutboxOK(reply)' /\ OutboxOK(chunks)' /\ ScreenOK' /\ ConfirmedOK'
  BY <1>1, <1>3, <1>6 DEF LinkInv, OutboxOK, ScreenOK, ConfirmedOK, btVars
<1> QED BY <1>4, <1>5, <1>7, <1>8, <1>9 DEF LinkInv

LEMMA TickConfigKeeps ==
  ASSUME LinkInv, TickConfig
  PROVE  LinkInv'
<1>1. PICK closes \in BOOLEAN :
        LET whole == window # 0 /\ ~closes /\ gate.finished
            expires == pending # None /\ Forgotten
            received == IF whole THEN Acknowledgements(window) ELSE {reply}
        IN /\ window' = IF closes \/ whole THEN 0 ELSE window
           /\ Installs(whole)
           /\ IF expires
              THEN /\ pending' = None
                   /\ reply' \in UNION {Delivers(out, claim, pending.of) : out \in received}
              ELSE /\ pending' = IF pending = None THEN None
                                 ELSE [pending EXCEPT !.age = Older(@, PromptPasses)]
                   /\ reply' \in received
  BY DEF TickConfig
<1>2. /\ UNCHANGED <<btVars, bus, claim, approved, flight, seen, gate, chunks, screen, confirmed>>
      /\ at' = "log"
      /\ window' \in {0, window}
      /\ \/ UNCHANGED installing
         \/ installing' = [image |-> gate.image, window |-> window]
  BY <1>1 DEF TickConfig, Installs
<1>3. PICK out \in Acknowledgements(window) \cup {reply} :
        reply' = out \/ reply' \in Delivers(out, claim, pending.of)
  BY <1>1
<1>4. \/ pending' = None
      \/ pending # None /\ pending' = [pending EXCEPT !.age = Older(pending.age, PromptPasses)]
  BY <1>1
<1>5. UNCHANGED <<Written, WrittenFrames>>
  BY <1>2 DEF Written, WrittenFrames, btVars
<1>6. OutboxOK(reply') /\ reply'.run = reply.run
  <2>1. OutboxOK(out) /\ out.run = reply.run
    BY <1>3, DeliversOK DEF LinkInv, ConfigOK, Acknowledgements
  <2> QED BY <1>3, <2>1, DeliversOK DEF LinkInv, ConfigOK, PromptOK
<1>7. PromptOK' /\ (pending' # None => pending # None /\ pending'.by = pending.by)
  <2>1. CASE pending' = None
    BY <2>1, NoPromptOK DEF PromptOK
  <2>2. CASE pending # None /\ pending' = [pending EXCEPT !.age = Older(pending.age, PromptPasses)]
    <3>1. Older(pending.age, PromptPasses) \in 0 .. PromptPasses
      BY OlderType, NumbersAreNat DEF LinkInv, PromptOK
    <3>2. /\ pending' \in [kind : PromptKinds, by : Ids, of : 0 .. MaxCommands, age : 0 .. PromptPasses]
          /\ pending'.kind = pending.kind /\ pending'.of = pending.of /\ pending'.by = pending.by
      BY <2>2, <3>1 DEF LinkInv, PromptOK
    <3> QED BY <1>2, <1>5, <2>2, <3>2 DEF LinkInv, PromptOK, btVars
  <2> QED BY <1>4, <2>1, <2>2
<1>8. RadioOK' /\ BusOK'
  BY <1>2, <1>5 DEF LinkInv, RadioOK, BusOK, btVars
<1>9. ConfigOK' /\ PassOK'
  BY <1>2, NumbersAreNat DEF LinkInv, ConfigOK, PassOK, Steps
<1>10. UploadsHaveAHolder' /\ AuthorityHeld'
  BY <1>2, <1>6, <1>7 DEF LinkInv, UploadsHaveAHolder, AuthorityHeld
<1>11. OutboxOK(reply)' /\ OutboxOK(chunks)' /\ ScreenOK' /\ ConfirmedOK'
  BY <1>2, <1>5, <1>6 DEF LinkInv, OutboxOK, ScreenOK, ConfirmedOK, btVars
<1> QED BY <1>7, <1>8, <1>9, <1>10, <1>11 DEF LinkInv

-----------------------------------------------------------------------------
(* The log and the flight.                                                 *)

LEMMA FlyKeeps ==
  ASSUME LinkInv, Fly
  PROVE  LinkInv'
<1>1. /\ UNCHANGED <<btVars, bus, configVars, gate, reply, chunks, screen, confirmed, at>>
      /\ flight' \in States
  BY DEF Fly, States
<1> QED BY <1>1
        DEF LinkInv, RadioOK, BusOK, ConfigOK, PromptOK, ScreenOK, ConfirmedOK, PassOK, OutboxOK,
            AuthorityHeld, UploadsHaveAHolder, WrittenFrames, Written, btVars, configVars

LEMMA ResumeLogKeeps ==
  ASSUME LinkInv, ResumeLog
  PROVE  LinkInv'
<1>1. /\ UNCHANGED <<btVars, bus, configVars, flight, gate, reply, screen, confirmed>>
      /\ at' = "requests" /\ chunks' \in Resumes(chunks, chunks.run.to)
  BY DEF ResumeLog, ResumesLog
<1>2. OutboxOK(chunks')
  <2>1. chunks.run.to \in Ids
    BY DEF LinkInv, OutboxOK, Outboxes
  <2> QED BY <1>1, <2>1, ResumesOK DEF LinkInv
<1> QED BY <1>1, <1>2
        DEF LinkInv, RadioOK, BusOK, ConfigOK, PromptOK, ScreenOK, ConfirmedOK, PassOK, OutboxOK,
            AuthorityHeld, UploadsHaveAHolder, WrittenFrames, Written, btVars, configVars, Steps

LEMMA RequestKeeps ==
  ASSUME LinkInv, Request
  PROVE  LinkInv'
<1> DEFINE frame == Head(bus.log)
           erase == Granted(frame.from) /\ flight = "ground" /\ KindOf(frame) = "erase"
<1>1. /\ UNCHANGED <<btVars, window, approved, installing, flight, seen, gate, screen, confirmed, at>>
      /\ at = "requests" /\ ~Replying(chunks) /\ bus.log # <<>>
      /\ bus' = [bus EXCEPT !.log = Tail(bus.log)]
      /\ Grant(frame.from)
      /\ \/ reply' \in Delivers(reply, claim', frame.of) /\ UNCHANGED chunks
         \/ /\ UNCHANGED reply
            /\ chunks' \in Starts(chunks, frame.from, frame.of)
                             \cup Delivers(chunks, frame.from, frame.of)
      /\ StagesIf(erase, "erase", claim', frame.of)
  BY DEF Request, RequestErase, Reads
<1>2. /\ frame.from \in Sessions /\ frame.of \in Written /\ frame.of \in 0 .. MaxCommands
      /\ frame.from # 0 /\ KindOf(frame) = written[frame.of]
      /\ Tail(bus.log) \in Seq(WrittenFrames) /\ Len(Tail(bus.log)) <= Len(bus.log)
      /\ Len(Tail(bus.log)) \in Nat /\ Len(bus.log) \in Nat
  BY <1>1, FrameTaken, LenProperties DEF LinkInv, BusOK
<1> HIDE DEF frame
<1>3. UNCHANGED <<Written, WrittenFrames>>
  BY <1>1 DEF Written, WrittenFrames, btVars
<1>4. /\ PromptOK' /\ claim' \in Ids /\ claim' # 0
      /\ pending' # None => pending'.by = claim'
      /\ claim # 0 => claim' = claim
  <2>1. CASE erase
    <3>1. /\ claim' = frame.from /\ written[frame.of] = "erase"
      BY <1>1, <1>2, <2>1 DEF Grant, Granted
    <3>2. /\ UNCHANGED written
          /\ TRUE \in BOOLEAN /\ Granted(frame.from) /\ written[frame.of] \in Prompts
          /\ StagesIf(TRUE, written[frame.of], frame.from, frame.of)
      BY <1>1, <2>1, <3>1 DEF btVars, Prompts, StagesIf
    <3> QED BY <1>1, <1>2, <3>2, StagedOK
  <2>2. CASE ~erase
    <3>1. UNCHANGED pending /\ UNCHANGED written
      BY <1>1, <2>2 DEF StagesIf, btVars
    <3>2. claim' \in Ids /\ claim' # 0 /\ (claim # 0 => claim' = claim)
      BY <1>1, <1>2 DEF Grant, LinkInv, ConfigOK
    <3> QED BY <1>3, <3>1, <3>2 DEF LinkInv, PromptOK, AuthorityHeld
  <2> QED BY <2>1, <2>2
<1>5. RadioOK' /\ BusOK'
  <2>1. RadioOK'
    BY <1>1, <1>3 DEF LinkInv, RadioOK, btVars
  <2>2. bus' \in [events : Seq(Events), link : Seq(WrittenFrames), log : Seq(WrittenFrames)]
        /\ bus'.events = bus.events /\ bus'.link = bus.link /\ bus'.log = Tail(bus.log)
    BY <1>1, <1>2 DEF LinkInv, BusOK
  <2> QED BY <1>2, <1>3, <2>1, <2>2, NumbersAreNat DEF LinkInv, BusOK
<1>6. OutboxOK(reply') /\ reply'.run = reply.run /\ OutboxOK(chunks')
  <2>1. CASE reply' \in Delivers(reply, claim', frame.of) /\ UNCHANGED chunks
    BY <1>2, <1>4, <2>1, DeliversOK DEF LinkInv
  <2>2. CASE UNCHANGED reply /\ chunks' \in Starts(chunks, frame.from, frame.of)
    BY <1>1, <1>2, <2>2, StartsOK DEF LinkInv
  <2>3. CASE UNCHANGED reply /\ chunks' \in Delivers(chunks, frame.from, frame.of)
    BY <1>2, <2>3, DeliversOK DEF LinkInv
  <2> QED BY <1>1, <2>1, <2>2, <2>3
<1>7. ConfigOK' /\ PassOK'
  BY <1>1, <1>4 DEF LinkInv, ConfigOK, PassOK
<1>8. UploadsHaveAHolder' /\ AuthorityHeld'
  BY <1>1, <1>4, <1>6 DEF LinkInv, UploadsHaveAHolder, AuthorityHeld
<1>9. OutboxOK(reply)' /\ OutboxOK(chunks)' /\ ScreenOK' /\ ConfirmedOK'
  BY <1>1, <1>3, <1>6 DEF LinkInv, OutboxOK, ScreenOK, ConfirmedOK, btVars
<1> QED BY <1>4, <1>5, <1>7, <1>8, <1>9 DEF LinkInv

-----------------------------------------------------------------------------
(* The presses.                                                            *)

LEMMA ShownOK ==
  ASSUME LinkInv
  PROVE  /\ Shown \in [prompt : PromptKinds, glass : 0 .. MaxCommands, armed : BOOLEAN, pressed : BOOLEAN]
         /\ Shown.prompt = pending.kind
         /\ Shown.glass # 0 => Shown.glass \in Written /\ written[Shown.glass] = Shown.prompt
         /\ Shown.armed => Shown.prompt # "none" /\ Shown.glass # 0
<1>1. /\ screen \in [prompt : PromptKinds, glass : 0 .. MaxCommands, armed : BOOLEAN, pressed : BOOLEAN]
      /\ pending.kind \in PromptKinds /\ 0 \in 0 .. MaxCommands
  BY NumbersAreNat DEF LinkInv, ScreenOK, PromptOK
<1>2. CASE pending.kind = screen.prompt
  BY <1>1, <1>2 DEF Shown, LinkInv, ScreenOK
<1>3. CASE pending.kind # screen.prompt
  BY <1>1, <1>3 DEF Shown, Answered
<1> QED BY <1>2, <1>3

LEMMA InputKeeps ==
  ASSUME LinkInv, Input
  PROVE  LinkInv'
<1>1. /\ UNCHANGED <<btVars, bus, configVars, flight, gate, reply, chunks, confirmed>>
      /\ at' = "presses"
      /\ \/ screen' = Shown
         \/ /\ Shown.prompt # "none" /\ Shown.glass # 0
            /\ screen' = [Shown EXCEPT !.armed = TRUE, !.pressed = FALSE]
  BY DEF Input
<1>2. UNCHANGED <<Written, WrittenFrames>>
  BY <1>1 DEF Written, WrittenFrames, btVars
<1>3. /\ screen' \in [prompt : PromptKinds, glass : 0 .. MaxCommands, armed : BOOLEAN, pressed : BOOLEAN]
      /\ screen'.prompt = Shown.prompt /\ screen'.glass = Shown.glass
      /\ screen'.armed => Shown.prompt # "none" /\ Shown.glass # 0
  BY <1>1, ShownOK
<1>4. ScreenOK' /\ PassOK'
  BY <1>1, <1>2, <1>3, ShownOK DEF ScreenOK, PassOK, Steps, btVars, configVars
<1> QED BY <1>1, <1>2, <1>4
        DEF LinkInv, RadioOK, BusOK, ConfigOK, PromptOK, ConfirmedOK, OutboxOK,
            AuthorityHeld, UploadsHaveAHolder, btVars, configVars

LEMMA AnsweredOK ==
  ASSUME LinkInv
  PROVE  /\ Answered \in [prompt : PromptKinds, glass : 0 .. MaxCommands, armed : BOOLEAN, pressed : BOOLEAN]
         /\ Answered.prompt = "none" /\ Answered.glass = 0 /\ ~Answered.armed
<1>1. /\ screen \in [prompt : PromptKinds, glass : 0 .. MaxCommands, armed : BOOLEAN, pressed : BOOLEAN]
      /\ "none" \in PromptKinds /\ 0 \in 0 .. MaxCommands
  BY NumbersAreNat DEF LinkInv, ScreenOK, PromptKinds
<1> QED BY <1>1 DEF Answered

\* An armed gesture is about the prompt that stands.
LEMMA ArmedOnPrompt ==
  ASSUME LinkInv, at = "presses", screen.armed
  PROVE  /\ pending # None /\ pending.kind # "none" /\ pending.of \in Written
         /\ screen.glass # 0 /\ screen.glass \in Written
         /\ written[pending.of] = pending.kind /\ written[screen.glass] = pending.kind
         /\ claim # 0
  BY DEF LinkInv, PassOK, ScreenOK, PromptOK, AuthorityHeld, None

LEMMA PressKeeps ==
  ASSUME LinkInv, Press
  PROVE  LinkInv'
<1>1. /\ UNCHANGED <<btVars, bus, claim, approved, installing, flight, seen, chunks, at>>
      /\ at = "presses"
  BY DEF Press
<1>2. UNCHANGED <<written, Written, WrittenFrames>>
  BY <1>1 DEF Written, WrittenFrames, btVars
<1>3. RadioOK' /\ BusOK' /\ OutboxOK(chunks)'
  BY <1>1, <1>2 DEF LinkInv, RadioOK, BusOK, OutboxOK, btVars
<1>4. UploadsHaveAHolder'
  BY <1>1 DEF UploadsHaveAHolder
<1>5. CASE FirstPress /\ screen' = [screen EXCEPT !.pressed = TRUE] /\ Unpressed /\ UNCHANGED confirmed
  <2>1. ScreenOK' /\ PassOK'
    BY <1>1, <1>2, <1>5 DEF LinkInv, ScreenOK, PassOK, Unpressed
  <2>2. PromptOK' /\ ConfirmedOK' /\ ConfigOK' /\ AuthorityHeld' /\ OutboxOK(reply)'
    BY <1>1, <1>2, <1>5 DEF LinkInv, PromptOK, ConfirmedOK, ConfigOK, AuthorityHeld, OutboxOK, Unpressed
  <2> QED BY <1>3, <1>4, <2>1, <2>2 DEF LinkInv
<1>6. CASE SecondPress /\ screen' = Answered /\ Confirm
  <2>1. screen.armed /\ pending' = None /\ reply' \in Delivers(reply, claim, pending.of)
    BY <1>6 DEF SecondPress, Confirm, Acknowledgements
  <2>2. OutboxOK(reply') /\ reply'.run = reply.run
    BY <2>1, DeliversOK DEF LinkInv, ConfigOK, PromptOK
  <2>3. /\ window' \in {0, window, pending.of}
        /\ confirmed' = confirmed \/ confirmed' = [done |-> pending.of, read |-> screen.glass]
        /\ gate' = gate \/ gate' = [gate EXCEPT !.finished = FALSE]
    BY <1>6 DEF Confirm
  <2>4. /\ pending.of \in 0 .. MaxCommands /\ screen.glass \in 0 .. MaxCommands
        /\ 0 \in 0 .. MaxCommands
    BY NumbersAreNat DEF LinkInv, PromptOK, ScreenOK
  <2>5. ScreenOK' /\ PassOK' /\ PromptOK'
    BY <1>1, <1>2, <1>6, <2>1, AnsweredOK, NoPromptOK DEF ScreenOK, PassOK, PromptOK, LinkInv
  <2>6. ConfirmedOK'
    BY <1>1, <1>2, <2>1, <2>3, <2>4, ArmedOnPrompt DEF LinkInv, ConfirmedOK
  <2>7. ConfigOK'
    BY <1>1, <2>3, <2>4 DEF LinkInv, ConfigOK
  <2>8. AuthorityHeld' /\ OutboxOK(reply)'
    BY <1>1, <2>1, <2>2, ArmedOnPrompt DEF LinkInv, AuthorityHeld, OutboxOK
  <2> QED BY <1>3, <1>4, <2>5, <2>6, <2>7, <2>8 DEF LinkInv
<1>7. CASE screen.prompt = "none" /\ window # 0 /\ Cancel /\ UNCHANGED <<screen, confirmed>>
  <2>1. /\ pending' = None /\ window' = 0 /\ UNCHANGED gate
        /\ \E of \in {pending.of, window} : reply' \in Delivers(reply, claim, of)
    BY <1>7 DEF Cancel
  <2>2. OutboxOK(reply') /\ reply'.run = reply.run
    BY <2>1, DeliversOK DEF LinkInv, ConfigOK, PromptOK
  <2>3. ScreenOK' /\ PassOK' /\ PromptOK' /\ ConfirmedOK'
    BY <1>1, <1>2, <1>7, <2>1, NoPromptOK DEF LinkInv, ScreenOK, PassOK, PromptOK, ConfirmedOK
  <2>4. ConfigOK' /\ AuthorityHeld' /\ OutboxOK(reply)'
    BY <1>1, <2>1, <2>2, NumbersAreNat DEF LinkInv, ConfigOK, AuthorityHeld, OutboxOK
  <2> QED BY <1>3, <1>4, <2>3, <2>4 DEF LinkInv
<1> QED BY <1>5, <1>6, <1>7 DEF Press

LEMMA PresentKeeps ==
  ASSUME LinkInv, Present
  PROVE  LinkInv'
<1> DEFINE glass(s) == IF s.prompt = "none" THEN 0 ELSE pending'.of
           DrawnOf(s) == {s, [s EXCEPT !.glass = glass(s)]}
<1>1. /\ UNCHANGED <<btVars, bus, claim, approved, flight, seen, chunks>>
      /\ at = "presses" /\ at' = "poll" /\ confirmed' = Unconfirmed /\ installing' = NoInstall
      /\ \/ Unpressed /\ screen' \in DrawnOf(screen)
         \/ SecondPress /\ Cancel /\ screen' \in DrawnOf(Answered)
  BY DEF Present
<1>2. UNCHANGED <<written, Written, WrittenFrames>>
  BY <1>1 DEF Written, WrittenFrames, btVars
<1>3. RadioOK' /\ BusOK' /\ OutboxOK(chunks)'
  BY <1>1, <1>2 DEF LinkInv, RadioOK, BusOK, OutboxOK, btVars
<1>4. UploadsHaveAHolder' /\ PassOK' /\ ConfirmedOK'
  BY <1>1, NumbersAreNat DEF UploadsHaveAHolder, PassOK, Steps, ConfirmedOK, Unconfirmed
<1>5. installing' \in [image : 0 .. MaxCommands, window : 0 .. MaxCommands]
  BY <1>1, NumbersAreNat DEF NoInstall
<1>6. CASE Unpressed /\ screen' \in DrawnOf(screen)
  <2>1. PromptOK' /\ ConfigOK' /\ AuthorityHeld' /\ OutboxOK(reply)'
    BY <1>1, <1>2, <1>5, <1>6 DEF LinkInv, PromptOK, ConfigOK, AuthorityHeld, OutboxOK, Unpressed
  <2>2. ScreenOK'
    <3>1. CASE screen' = screen
      BY <1>2, <3>1 DEF LinkInv, ScreenOK
    <3>2. CASE screen' = [screen EXCEPT !.glass = glass(screen)]
      <4>1. screen.prompt = pending.kind /\ UNCHANGED pending
        BY <1>1, <1>6 DEF LinkInv, PassOK, Unpressed
      <4>2. /\ glass(screen) \in 0 .. MaxCommands
            /\ screen.prompt # "none" =>
                 /\ glass(screen) # 0 /\ glass(screen) \in Written
                 /\ written[glass(screen)] = screen.prompt
        BY <4>1, NumbersAreNat DEF LinkInv, PromptOK, Written
      <4>3. /\ screen' \in [prompt : PromptKinds, glass : 0 .. MaxCommands,
                            armed : BOOLEAN, pressed : BOOLEAN]
            /\ screen'.prompt = screen.prompt /\ screen'.armed = screen.armed
            /\ screen'.glass = glass(screen)
        BY <3>2, <4>2 DEF LinkInv, ScreenOK
      <4>4. screen.prompt = "none" => glass(screen) = 0
        OBVIOUS
      <4> HIDE DEF glass
      <4> QED BY <1>2, <4>2, <4>3, <4>4 DEF LinkInv, ScreenOK
    <3> QED BY <1>6, <3>1, <3>2
  <2> QED BY <1>3, <1>4, <2>1, <2>2 DEF LinkInv
<1>7. CASE SecondPress /\ Cancel /\ screen' \in DrawnOf(Answered)
  <2>1. /\ pending' = None /\ window' = 0 /\ UNCHANGED gate
        /\ \E of \in {pending.of, window} : reply' \in Delivers(reply, claim, of)
    BY <1>7 DEF Cancel
  <2>2. OutboxOK(reply') /\ reply'.run = reply.run
    BY <2>1, DeliversOK DEF LinkInv, ConfigOK, PromptOK
  <2>3. ConfigOK' /\ AuthorityHeld' /\ OutboxOK(reply)'
    BY <1>1, <1>5, <2>1, <2>2, NumbersAreNat DEF LinkInv, ConfigOK, AuthorityHeld, OutboxOK
  <2>4. PromptOK'
    BY <1>2, <2>1, NoPromptOK DEF PromptOK
  <2>5. glass(Answered) = 0
    BY AnsweredOK
  <2>6. /\ screen' \in [prompt : PromptKinds, glass : 0 .. MaxCommands, armed : BOOLEAN, pressed : BOOLEAN]
        /\ screen'.glass = 0 /\ screen'.armed = Answered.armed
    BY <1>7, <2>5, AnsweredOK
  <2>7. ScreenOK'
    BY <2>6, AnsweredOK DEF ScreenOK
  <2> QED BY <1>3, <1>4, <2>3, <2>4, <2>7 DEF LinkInv
<1> QED BY <1>1, <1>6, <1>7

-----------------------------------------------------------------------------
(* The theorems.                                                           *)

LEMMA LinkInvInit == LinkInit => LinkInv
<1> SUFFICES ASSUME LinkInit PROVE LinkInv
  OBVIOUS
<1>1. /\ <<>> \in Seq(Events) /\ <<>> \in Seq(Kinds) /\ <<>> \in Seq(WrittenFrames)
      /\ Len(<<>>) = 0
  BY EmptySeq
<1>2. RadioOK /\ BusOK
  BY <1>1, NumbersAreNat DEF LinkInit, RadioOK, BusOK
<1>3. ConfigOK
  BY NumbersAreNat DEF LinkInit, ConfigOK, NoInstall, States
<1>4. PromptOK /\ ScreenOK /\ ConfirmedOK /\ PassOK
  BY NumbersAreNat, NoPromptOK
  DEF LinkInit, PromptOK, ScreenOK, ConfirmedOK, PassOK, PromptKinds, Unconfirmed, Steps
<1>5. OutboxOK(reply) /\ OutboxOK(chunks) /\ AuthorityHeld /\ UploadsHaveAHolder
  BY QuietOK DEF LinkInit, AuthorityHeld, UploadsHaveAHolder
<1> QED BY <1>2, <1>3, <1>4, <1>5 DEF LinkInv

LEMMA LinkInvStep ==
  ASSUME LinkInv, [LinkNext]_linkVars
  PROVE  LinkInv'
<1>1. CASE Bluetooth
  BY <1>1, ConnectKeeps, WriteKeeps, UploadKeeps DEF Bluetooth
<1>2. CASE Pass
  BY <1>2, PollEventsKeeps, PollFrameKeeps, DrainEventKeeps, HearFlightKeeps, ResumeKeeps,
     CommandKeeps, TickConfigKeeps, ResumeLogKeeps, RequestKeeps, InputKeeps, PresentKeeps
  DEF Pass
<1>3. CASE UNCHANGED linkVars
  BY <1>3
  DEF LinkInv, RadioOK, BusOK, ConfigOK, PromptOK, ScreenOK, ConfirmedOK, PassOK, OutboxOK,
      AuthorityHeld, UploadsHaveAHolder, WrittenFrames, Written, linkVars, btVars, configVars
<1> QED BY <1>1, <1>2, <1>3, FlyKeeps, PressKeeps DEF LinkNext

LEMMA LinkInvAlways == LinkSpec => []LinkInv
  BY LinkInvInit, LinkInvStep, PTL DEF LinkSpec

\* Every queue keeps within its room, and every session, command, frame and
\* prompt is one there is, whatever overflows and whoever leaves.
THEOREM LinkTypeCorrect == LinkSpec => []LinkTypeOK
<1>1. LinkInv => LinkTypeOK
  <2> SUFFICES ASSUME LinkInv PROVE LinkTypeOK
    OBVIOUS
  <2>1. Len(written) \in Nat /\ Len(written) <= MaxCommands /\ MaxCommands \in Nat
    BY LenProperties, NumbersAreNat DEF LinkInv, RadioOK
  <2>2. WrittenFrames \subseteq Frames
    BY <2>1 DEF WrittenFrames, Written, Frames
  <2>3. rx \in Seq(Frames) /\ bus.link \in Seq(Frames) /\ bus.log \in Seq(Frames)
    BY <2>2, SeqMonotonic DEF LinkInv, RadioOK, BusOK
  <2>4. bus \in [events : Seq(Events), link : Seq(Frames), log : Seq(Frames)]
    BY <2>3 DEF LinkInv, BusOK
  <2> QED BY <2>3, <2>4
          DEF LinkInv, RadioOK, BusOK, ConfigOK, PromptOK, ScreenOK, ConfirmedOK, PassOK, OutboxOK,
              LinkTypeOK, States, PromptKinds
<1> QED BY <1>1, LinkInvAlways, PTL

\* What changes the unit is asked by the claim's holder and goes when it goes.
THEOREM AuthorityAlwaysHeld == LinkSpec => []AuthorityHeld
  BY LinkInvAlways, PTL DEF LinkInv

\* No frame of an answer is skipped or sent twice, whatever the link refuses.
THEOREM AnswersAlwaysWhole == LinkSpec => []AnswersWhole
<1>1. LinkInv => AnswersWhole
  BY DEF LinkInv, OutboxOK, AnswersWhole
<1> QED BY <1>1, LinkInvAlways, PTL

\* No chunk enters the slot without a holder, or off the ground.
THEOREM UploadsAlwaysHaveAHolder == LinkSpec => []UploadsHaveAHolder
  BY LinkInvAlways, PTL DEF LinkInv

\* What the pilot confirms is of the kind the glass showed.
THEOREM KindAlwaysRead == LinkSpec => []KindWasRead
<1>1. LinkInv => KindWasRead
  BY DEF LinkInv, ConfirmedOK, KindWasRead, Written
<1> QED BY <1>1, LinkInvAlways, PTL

===============================================================================
