---------------------------- MODULE RecordStore ----------------------------
(***************************************************************************)
(* The two record stores on the one sector pool: the flight log's and the  *)
(* capture's.  A store claims a sector, erases it, labels it and writes    *)
(* records into its slots; the power may be cut between any two of those   *)
(* operations of the part, or in the middle of one, and the part may       *)
(* refuse one.  One cooperative loop runs both stores, so while one has an *)
(* operation under way the other does nothing.                             *)
(*                                                                         *)
(* Source: products/skyblip_go/services/record_store.{h,cpp} and           *)
(* record_pool.cpp over ports/flash_region.h.                              *)
(***************************************************************************)
EXTENDS SectorAllocator

CONSTANTS
  Slots,     \* slots_per_sector_: the records a sector holds
  Stores,    \* the stores whose service runs
  Refused,   \* the operations the part may refuse: "erase", "header", "slots"
  Requests   \* what is asked of the stores beside writing: "erase", "room"

ASSUME SlotsAssumption == Slots \in Nat \ {0}
ASSUME StoresAssumption == Stores \subseteq Rings
ASSUME RefusedAssumption == Refused \subseteq {"erase", "header", "slots"}
ASSUME RequestsAssumption == Requests \subseteq {"erase", "room"}
ASSUME NamedAssumption == Sessions \subseteq Nat \ {0}

VARIABLES
  slots,     \* the part: what each slot of each sector holds
  store,     \* per ring, the RecordStore's fields
  work,      \* the operation of the part under way
  named,     \* per ring, the last session a service named
  given,     \* per ring, the last session the pilot asked to erase
  written,   \* per ring and session, the records append() answered Ok for
  gone       \* per ring, the sectors the session being written lost unreported

partVars == <<slots, header>>
historyVars == <<named, given, written, gone>>
storeVars == <<label, spare, lost, sequence, newest, claimed, header,
               slots, store, work, named, given, written, gone>>

Places == 0 .. Slots - 1
Erased == [session |-> 0, number |-> 0]
Torn == [session |-> 0, number |-> 1]
Spoiled == [session |-> 0, number |-> 2]  \* programmed twice
Blank == [i \in Places |-> Erased]
Scrap == [i \in Places |-> Torn]

Closed == [sector |-> 0, slot |-> 0, claimed |-> FALSE, owned |-> 0, session |-> 0,
           spareReady |-> FALSE, seen |-> 0, erasing |-> FALSE, next |-> 0]
Idle == [step |-> "idle", ring |-> "flights", sector |-> 0, count |-> 0]

-----------------------------------------------------------------------------
(* Writing records.                                                        *)

Exhausted(r) == store[r].slot >= Slots
ClaimWanted(r) == ~store[r].claimed \/ Exhausted(r)
BaseSession(r) == IF store[r].claimed THEN store[r].owned ELSE store[r].session

\* A claim writes one record; a run stays inside its sector.
RunSlots(r) == IF ClaimWanted(r) THEN 1 ELSE Slots - store[r].slot

\* The session a ring writes loses a sector that is taken from it.
NoteGone(s) ==
  LET owner == label[s].owner
  IN gone' = IF owner \in Rings /\ label[s].session = store[owner].session
             THEN [gone EXCEPT ![owner] = @ + 1]
             ELSE gone

Granted(r) == spare[r].reserved \/ \E s \in Sectors : Chosen(r, s)

\* claim_sector(), up to the first operation of the part.
ClaimSector(r) ==
  /\ store' = [store EXCEPT ![r].claimed = FALSE, ![r].spareReady = FALSE]
  /\ \/ \E s \in Sectors :
          /\ Claim(r, BaseSession(r), s)
          /\ NoteGone(s)
          /\ work' = [step |-> IF spare[r].erased THEN "label" ELSE "erase",
                      ring |-> r, sector |-> s, count |-> 1]
     \/ /\ ~Granted(r)
        /\ UNCHANGED <<label, spare, lost, sequence, newest, claimed, work, gone>>

\* append(): a write the window refuses is deferred, which changes nothing.
AppendRun(r, count) ==
  /\ work = Idle
  /\ ~store[r].erasing
  /\ store[r].session # 0
  /\ count \in 1 .. RunSlots(r)
  /\ \/ ClaimWanted(r) /\ ClaimSector(r)
     \/ /\ ~ClaimWanted(r)
        /\ work' = [step |-> "write", ring |-> r, sector |-> store[r].sector, count |-> count]
        /\ UNCHANGED <<label, spare, lost, sequence, newest, claimed, store, gone>>
  /\ UNCHANGED <<slots, header, named, given, written>>

EraseOnPart(s) ==
  /\ header' = [header EXCEPT ![s] = Free]
  /\ slots' = [slots EXCEPT ![s] = Blank]

EraseClaimed ==
  /\ work.step = "erase"
  /\ \/ EraseOnPart(work.sector) /\ work' = [work EXCEPT !.step = "label"]
     \/ "erase" \in Refused /\ work' = Idle /\ UNCHANGED partVars
  /\ UNCHANGED <<label, spare, lost, sequence, newest, claimed, store, historyVars>>

WriteHeader ==
  /\ work.step = "label"
  /\ LET r == work.ring
         s == work.sector
         placed == [store EXCEPT ![r].sector = s, ![r].slot = 0]
     IN \/ /\ header' = [header EXCEPT ![s] = label[s]]
           /\ store' = [placed EXCEPT ![r].claimed = TRUE, ![r].owned = label[s].session]
           /\ work' = [work EXCEPT !.step = "write"]
        \/ /\ "header" \in Refused
           /\ store' = placed
           /\ work' = Idle
           /\ UNCHANGED header
  /\ UNCHANGED <<label, spare, lost, sequence, newest, claimed, slots, historyVars>>

\* The records the session is owed next, numbered as its service hands them.
Record(r, i) ==
  LET session == store[r].owned
  IN [session |-> session, number |-> written[r][session] + i]

\* Programming clears bits: a slot that is not erased is spoiled.  The first
\* `whole` records land, and the next one in part when `torn`.
Program(r, whole, torn) ==
  [slots EXCEPT ![work.sector] =
     [i \in Places |->
        LET n == i - store[r].slot + 1
            lands == IF n \in 1 .. whole THEN Record(r, n) ELSE Torn
        IN IF n \in 1 .. whole \/ (torn /\ n = whole + 1)
           THEN IF @[i] = Erased THEN lands ELSE Spoiled
           ELSE @[i]]]

\* Mutant of WriteSlots: the cursor is left on the last record written.
WriteSlotsToTheLast ==
  /\ work.step = "write"
  /\ LET r == work.ring
         count == work.count
     IN \/ /\ slots' = Program(r, count, FALSE)
           /\ store' = [store EXCEPT ![r].slot = @ + count - 1]
           /\ written' = [written EXCEPT ![r][store[r].owned] = @ + count]
        \/ /\ "slots" \in Refused
           /\ \E whole \in 0 .. count - 1, torn \in BOOLEAN : slots' = Program(r, whole, torn)
           /\ UNCHANGED <<store, written>>
  /\ work' = Idle
  /\ UNCHANGED <<label, spare, lost, sequence, newest, claimed, header, named, given, gone>>

WriteSlots ==
  /\ work.step = "write"
  /\ LET r == work.ring
         count == work.count
     IN \/ /\ slots' = Program(r, count, FALSE)
           /\ store' = [store EXCEPT ![r].slot = @ + count]
           /\ written' = [written EXCEPT ![r][store[r].owned] = @ + count]
        \/ /\ "slots" \in Refused
           /\ \E whole \in 0 .. count - 1, torn \in BOOLEAN : slots' = Program(r, whole, torn)
           /\ UNCHANGED <<store, written>>
  /\ work' = Idle
  /\ UNCHANGED <<label, spare, lost, sequence, newest, claimed, header, named, given, gone>>

-----------------------------------------------------------------------------
(* Sessions and losses.                                                    *)

\* The services name a session by the clock, so never twice.
BeginSession(r, session) ==
  /\ work = Idle
  /\ ~store[r].erasing
  /\ session > named[r]
  /\ store' = [store EXCEPT ![r].session = session, ![r].claimed = FALSE, ![r].seen = lost[r]]
  /\ named' = [named EXCEPT ![r] = session]
  /\ gone' = [gone EXCEPT ![r] = 0]
  /\ UNCHANGED <<label, spare, lost, sequence, newest, claimed, partVars, work, given, written>>

\* take_lost_records(): the capture alone asks.
TakeLostRecords(r) ==
  /\ r = "diagnostics"
  /\ work = Idle
  /\ store[r].seen # lost[r]
  /\ store' = [store EXCEPT ![r].seen = lost[r]]
  /\ gone' = [gone EXCEPT ![r] = 0]
  /\ UNCHANGED <<label, spare, lost, sequence, newest, claimed, partVars, work, named, given, written>>

-----------------------------------------------------------------------------
(* The prepared spare.                                                     *)

\* The services ask while a session of theirs is open.
PrepareSpare(r) ==
  /\ work = Idle
  /\ ~store[r].erasing
  /\ store[r].session # 0
  /\ ~store[r].spareReady
  /\ \E s \in Sectors :
       /\ Prepare(r, s)
       /\ NoteGone(s)
       /\ work' = [step |-> "spare", ring |-> r, sector |-> s, count |-> 0]
  /\ UNCHANGED <<partVars, store, named, given, written>>

EraseSpare ==
  /\ work.step = "spare"
  /\ \/ /\ EraseOnPart(work.sector)
        /\ NoteErased(work.ring)
        /\ store' = [store EXCEPT ![work.ring].spareReady = TRUE]
     \/ /\ "erase" \in Refused
        /\ UNCHANGED <<label, spare, lost, sequence, newest, claimed, partVars, store>>
  /\ work' = Idle
  /\ UNCHANGED historyVars

\* room_beyond_this_sector(): the capture asks, which names a spare and does
\* not erase it.
RoomBeyondThisSector(r) ==
  /\ "room" \in Requests
  /\ r = "diagnostics"
  /\ work = Idle
  /\ store[r].session # 0
  /\ ~store[r].spareReady
  /\ \E s \in Sectors : Prepare(r, s) /\ NoteGone(s)
  /\ UNCHANGED <<partVars, store, work, named, given, written>>

-----------------------------------------------------------------------------
(* Erasing the flights, a sector at a time: a pass erases eight at most    *)
(* and stops where the window is refused, so the capture may run between   *)
(* any two.                                                                *)

Erasable(r, s) == label[s].owner \in {r, "free"}
ToErase(r) == {s \in Sectors : s >= store[r].next /\ Erasable(r, s)}

BeginErase(r) ==
  /\ "erase" \in Requests
  /\ r = "flights"
  /\ work = Idle
  /\ ~store[r].erasing
  /\ store' = [store EXCEPT ![r].erasing = TRUE, ![r].next = 0]
  /\ given' = [given EXCEPT ![r] = named[r]]
  /\ UNCHANGED <<label, spare, lost, sequence, newest, claimed, partVars, work,
                 named, written, gone>>

StepErase(r) ==
  /\ work = Idle
  /\ store[r].erasing
  /\ \E s \in ToErase(r) :
       /\ \A t \in ToErase(r) : s <= t
       /\ work' = [step |-> "clear", ring |-> r, sector |-> s, count |-> 0]
  /\ UNCHANGED <<label, spare, lost, sequence, newest, claimed, partVars, store, historyVars>>

\* Mutant of EraseStepped: the walk does not move past a sector.
EraseSteppedInPlace ==
  /\ work.step = "clear"
  /\ \/ EraseOnPart(work.sector)
     \/ "erase" \in Refused /\ UNCHANGED partVars
  /\ store' = [store EXCEPT ![work.ring].next = work.sector]
  /\ work' = Idle
  /\ UNCHANGED <<label, spare, lost, sequence, newest, claimed, historyVars>>

EraseStepped ==
  /\ work.step = "clear"
  /\ \/ EraseOnPart(work.sector)
     \/ "erase" \in Refused /\ UNCHANGED partVars
  /\ store' = [store EXCEPT ![work.ring].next = work.sector + 1]
  /\ work' = Idle
  /\ UNCHANGED <<label, spare, lost, sequence, newest, claimed, historyVars>>

FinishErase(r) ==
  /\ work = Idle
  /\ store[r].erasing
  /\ ToErase(r) = {}
  /\ Release(r)
  /\ store' = [store EXCEPT ![r] = [Closed EXCEPT !.owned = store[r].owned, !.seen = store[r].seen,
                                                  !.next = SectorCount]]
  /\ gone' = [gone EXCEPT ![r] = 0]
  /\ UNCHANGED <<partVars, work, named, given, written>>

-----------------------------------------------------------------------------
(* A power cut.                                                            *)

\* What an operation cut in the middle may leave on the part.
CutErase ==
  /\ work.step \in {"erase", "spare", "clear"}
  /\ header' = [header EXCEPT ![work.sector] = Free]
  /\ \E left \in {Scrap, Blank} : slots' = [slots EXCEPT ![work.sector] = left]

CutHeader ==
  /\ work.step = "label"
  /\ header' = [header EXCEPT ![work.sector] = label[work.sector]]
  /\ UNCHANGED slots

CutWrite ==
  /\ work.step = "write"
  /\ \E whole \in 0 .. work.count, torn \in BOOLEAN :
       /\ whole = work.count => ~torn
       /\ slots' = Program(work.ring, whole, torn)
  /\ UNCHANGED header

\* recover(): the cursor waits at the end of the frontier, or at the start.
Recovered(r, labels) ==
  LET owned == {s \in Sectors : labels[s].owner = r}
      last == CHOOSE s \in owned : \A t \in owned : labels[t].sequence <= labels[s].sequence
  IN IF owned = {} THEN Closed ELSE [Closed EXCEPT !.sector = last, !.slot = Slots]

PowerCut ==
  /\ CutErase \/ CutHeader \/ CutWrite \/ UNCHANGED partVars
  /\ Boot(header')
  /\ store' = [r \in Rings |-> Recovered(r, header')]
  /\ work' = Idle
  /\ gone' = [r \in Rings |-> 0]
  /\ UNCHANGED <<named, given, written>>

StoreInit ==
  /\ Init
  /\ slots = [s \in Sectors |-> Blank]
  /\ store = [r \in Rings |-> Closed]
  /\ work = Idle
  /\ named = [r \in Rings |-> 0]
  /\ given = named
  /\ written = [r \in Rings |-> [session \in Sessions |-> 0]]
  /\ gone = [r \in Rings |-> 0]

PartWorks == EraseClaimed \/ WriteHeader \/ WriteSlots \/ EraseSpare \/ EraseStepped

StoreNext ==
  \/ \E r \in Stores, count \in 1 .. Slots : AppendRun(r, count)
  \/ \E r \in Stores, session \in Sessions : BeginSession(r, session)
  \/ \E r \in Stores : TakeLostRecords(r)
  \/ \E r \in Stores : PrepareSpare(r)
  \/ \E r \in Stores : RoomBeyondThisSector(r)
  \/ \E r \in Stores : BeginErase(r)
  \/ \E r \in Stores : StepErase(r)
  \/ \E r \in Stores : FinishErase(r)
  \/ PartWorks
  \/ PowerCut

StoreSpec == StoreInit /\ [][StoreNext]_storeVars

\* Every pass of the loop calls each service, and an operation of the part ends.
StoreFairness ==
  /\ WF_storeVars(PartWorks)
  /\ \A r \in Stores : SF_storeVars(StepErase(r)) /\ SF_storeVars(FinishErase(r))
FairStoreSpec == StoreSpec /\ StoreFairness

-----------------------------------------------------------------------------
(* What a list and a read answer.                                          *)

\* frontier_slot(): the first erased slot, bisected.
FrontierSlot(s) ==
  LET search[bounds \in (0 .. Slots) \X (0 .. Slots)] ==
        LET low == bounds[1]
            high == bounds[2]
            middle == low + (high - low) \div 2
        IN IF low >= high THEN low
           ELSE IF slots[s][middle] = Erased THEN search[<<low, middle>>]
           ELSE search[<<middle + 1, high>>]
  IN search[<<0, Slots>>]

\* tail_of(): a flights slot carries a checksum, a diagnostics one none.
TailOf(r, s) ==
  LET records == FrontierSlot(s)
  IN IF r = "flights" /\ records > 0 /\ slots[s][records - 1] \in {Torn, Spoiled}
     THEN records - 1
     ELSE records

\* rebuild_index(), one run of a session's sectors at a time.
Index(r) ==
  LET entry(run) ==
        [session |-> run.session,
         sectors |-> run.sectors,
         records |-> (run.sectors - 1) * Slots
                     + TailOf(r, SessionSector(r, run.session, run.sectors - 1)),
         truncated |-> ~label[SessionSector(r, run.session, 0)].start]
      walk[walked \in 0 .. MaxSequence] ==
        IF Above(OwnedBy(r), walked) = {} THEN {}
        ELSE LET run == SessionRun(r, walked) IN {entry(run)} \cup walk[run.last]
  IN walk[0]

\* read_records(): the nth record of a session.
ReadRecord(r, session, index) ==
  slots[SessionSector(r, session, index \div Slots)][index % Slots]

-----------------------------------------------------------------------------
(* Properties.                                                             *)

Contents == [session : Sessions \cup {0}, number : Nat]
Fields == [sector : Sectors, slot : 0 .. Slots, claimed : BOOLEAN,
           owned : Sessions \cup {0}, session : Sessions \cup {0},
           spareReady : BOOLEAN, seen : Nat, erasing : BOOLEAN, next : 0 .. SectorCount]
Works == [step : {"idle", "erase", "label", "write", "spare", "clear"}, ring : Rings,
          sector : Sectors, count : 0 .. Slots]

StoreTypeOK ==
  /\ TypeOK
  /\ slots \in [Sectors -> [Places -> Contents]]
  /\ store \in [Rings -> Fields]
  /\ work \in Works
  /\ named \in [Rings -> Nat] /\ given \in [Rings -> Nat] /\ gone \in [Rings -> Nat]
  /\ written \in [Rings -> [Sessions -> Nat]]

\* Every session a list names reads back record by record, in the order
\* written and up to the last record append() answered Ok for; and unless it is
\* listed truncated, from its first record.
ListedIsRead ==
  work = Idle /\ ~store["flights"].erasing =>
    \A r \in Stores : \A entry \in {e \in Index(r) : e.session > given[r]} :
      LET read(i) == ReadRecord(r, entry.session, i)
          last == entry.records - 1
          whole == r = "diagnostics" /\ entry.records > 0 /\ read(last) = Torn
          sound == IF whole THEN last - 1 ELSE last
      IN /\ \A i \in 0 .. sound :
              /\ read(i).session = entry.session
              /\ i > 0 => read(i).number = read(i - 1).number + 1
         /\ ~entry.truncated /\ sound >= 0 => read(0).number = 1
         /\ IF sound >= 0
            THEN read(sound).number >= written[r][entry.session]
            ELSE entry.truncated \/ written[r][entry.session] = 0

\* The start bit goes on the sector a session opened in (core/store/README.md):
\* a session listed truncated has lost its first record.
TruncatedLostStart ==
  work = Idle =>
    \A r \in Stores : \A entry \in Index(r) :
      entry.truncated /\ entry.records > 0 =>
        ReadRecord(r, entry.session, 0) # [session |-> entry.session, number |-> 1]

\* What is listed is what was written, and truncated says the opening is gone
\* and nothing else.  Neither store answers a list while the flights are being
\* erased, and what the pilot asked to erase is no longer promised.
\* Code: RecordStore::append, index and read, SectorAllocator::take.
WholeOrTruncated == ListedIsRead /\ TruncatedLostStart

\* No byte of the part is programmed twice between two erases
\* (ports/flash_region.h).
NoByteTwice == \A s \in Sectors, i \in Places : slots[s][i] # Spoiled

\* A spare said to be erased is: a claim may write its header at once.
SpareBlank ==
  \A r \in Rings : spare[r].erased =>
    header[spare[r].sector] = Free /\ slots[spare[r].sector] = Blank

\* A store writes into its own ring's frontier, under the label the part
\* holds, whatever the other store claims, reserves or erases.
CursorOwned ==
  \A r \in Stores : store[r].claimed /\ ~store[r].erasing =>
    LET s == store[r].sector
    IN /\ label[s].owner = r /\ label[s].session = store[r].owned
       /\ header[s] = label[s]
       /\ s = Frontier(r)

\* A sector lost under the session being written is always counted, so the
\* capture's gap record never says less than went.
LossesReported == \A r \in Stores : lost[r] - store[r].seen >= gone[r]

\* An erase that was asked for ends.
EraseEnds == store["flights"].erasing ~> ~store["flights"].erasing
=============================================================================
