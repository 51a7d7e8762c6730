---------------------------- MODULE DurableSettings ----------------------------
(***************************************************************************)
(* The settings' road to flash and back, across resets and image updates.  *)
(* A change waits for a free stretch of the radio's second and is forced   *)
(* once a bound is spent; a low cell holds it; a deliberate power-off      *)
(* writes it at once.  An update leaves a record and a snapshot behind     *)
(* before it asks the bootloader for a swap, and the image that boots next *)
(* decides from them which settings are its own and what became of the     *)
(* update.                                                                 *)
(*                                                                         *)
(* Source: core/timing/durable_write.{h,cpp}, core/dfu/update.cpp, the     *)
(* settings and image halves of services/config_link.cpp, and the part of  *)
(* product.h that drives a shutdown.  External: MCUboot and Zephyr's NVS,  *)
(* whose records are written whole or not at all.  Image i lays its blob   *)
(* out as layout i and only a newer image is installed, as a release unit  *)
(* requires; images carry hashes.  Left out: the unlock's write, which has *)
(* a window of its own, a store that never mounted, a torn blob, and the   *)
(* capture of what was written.                                            *)
(***************************************************************************)
EXTENDS Naturals, FiniteSets

CONSTANTS
  SettlePasses,    \* kSettleMs, in passes
  CeilingPasses,   \* kDeferCeilingMs, in passes
  Values,          \* what a pilot may set; one of them is the default
  Default,
  MaxImage,        \* the images are 1..MaxImage, newest last
  MaxChanges,      \* bound on the pilot's changes in a behaviour
  MaxBoots,        \* bound on the boots of a behaviour
  MaxRefusals      \* bound on the writes the store refuses in a behaviour

ASSUME SettingsAssumption ==
  /\ {SettlePasses, CeilingPasses, MaxImage, MaxChanges, MaxBoots, MaxRefusals} \subseteq Nat
  /\ SettlePasses < CeilingPasses /\ MaxImage > 0 /\ Default \in Values

VARIABLES
  settings,   \* settings_ and the flag a change raises: [value, dirty]
  window,     \* DurableWriteWindow: [pending, first, last], the two as ages
  link,       \* what ConfigLinkService remembers: [stored, newer, record, state]
  unit,       \* the shutdown and the supply: [phase, install, low, sagging,
              \* warned]
  image,      \* the two slots and the bootloader's mind: [running, staged,
              \* confirmed, swap]
  flash,      \* the three records: [settings, prior, update]
  waited,     \* passes the oldest change not on flash has been placeable for
  owed,       \* what each image put on flash to come back to, or Nothing
  left,       \* what the pilot switched off with, when that could be written
  fate,       \* what really became of the update the record is about
  spent       \* [changes, boots, refusals], of the bounds

settingsVars == <<settings, window, link, unit, image, flash, waited, owed,
                  left, fate, spent>>

Images == 1..MaxImage
Nothing == "nothing"
NoImage == 0
Blobs == [value : Values, layout : Images]
NoBlob == [value |-> Default, layout |-> NoImage]
Records == [from : Images, to : Images]
NoRecord == [from |-> NoImage, to |-> NoImage]
Idle == [pending |-> FALSE, first |-> 0, last |-> 0]

-----------------------------------------------------------------------------
(* The window: when a change may be written.                               *)

\* DurableWriteWindow::request
Request(w) == [pending |-> TRUE, first |-> IF w.pending THEN w.first ELSE 0, last |-> 0]

\* DurableWriteWindow::refused
Refuse(w) == [w EXCEPT !.first = 0, !.last = 0]

\* DurableWriteWindow::decide says Place or Forced: the bound outranks the
\* settle, and then the window.
BoundSpent(w) == w.first >= CeilingPasses
\* Mutant of Due: the bound is measured from the last change.
DueFromTheLast(w, free) == w.pending /\
  (\/ w.last >= CeilingPasses
   \/ w.last >= SettlePasses /\ free)
Due(w, free) == w.pending /\
  (\/ BoundSpent(w)
   \/ w.last >= SettlePasses /\ free)

\* The clock, one pass on; a pending age is counted no further than it is told
\* apart.
Older(age) == IF age < CeilingPasses THEN age + 1 ELSE age
Aged(w) == IF w.pending THEN [w EXCEPT !.first = Older(w.first), !.last = Older(w.last)]
           ELSE w

-----------------------------------------------------------------------------
(* The blob: where it is written, and when it need not be.                 *)

\* settings_key(): an image that found a newer blob leaves it where it is.
\* Mutant of SettingsKey: there is one key.
SettingsKeyAlone(newer) == "settings"
SettingsKey(newer) == IF newer THEN "prior" ELSE "settings"

ToBlob(value, layout) == [value |-> value, layout |-> layout]
Held == ToBlob(settings.value, image.running)

\* adopt(): a layout of this image or an older one.
Adoptable(blob, i) == blob # NoBlob /\ blob.layout <= i

\* PowerService::may_write for the settings: neither a critical cell nor a
\* warned supply.
MayPersist(u) == ~u.low /\ ~u.warned

\* A store that refuses spends one of the behaviour's refusals.
Answers(ok) == ok \/ spent.refusals < MaxRefusals
Charged(s, ok) == IF ok THEN s ELSE [s EXCEPT !.refusals = @ + 1]

\* ConfigLinkService::take_request
Taken(w) == IF settings.dirty THEN Request(w) ELSE w

\* write_settings over persist(), for a window already taken: a blob that is
\* on flash is not written again.  owed follows what was written.
WriteSettings(w, ok) ==
  LET unchanged == link.stored = Held IN
  /\ unchanged => ok
  /\ Answers(ok)
  /\ spent' = Charged(spent, ok)
  /\ IF ok
     THEN /\ flash' = IF unchanged THEN flash
                      ELSE [flash EXCEPT ![SettingsKey(link.newer)] = Held]
          /\ link' = [link EXCEPT !.stored = Held]
          /\ window' = [w EXCEPT !.pending = FALSE]
          /\ owed' = [owed EXCEPT ![image.running] = settings.value]
     ELSE /\ window' = Refuse(w)
          /\ UNCHANGED <<flash, link, owed>>

-----------------------------------------------------------------------------
(* A running unit, from one pass to the next.                              *)

Running == unit.phase = "running"

\* The pilot changes a setting, from the panel or the link, between two
\* passes: a change that came during one waits for the next all the same.
Change ==
  /\ Running /\ spent.changes < MaxChanges
  /\ \E v \in Values \ {settings.value} : settings' = [value |-> v, dirty |-> TRUE]
  /\ spent' = [spent EXCEPT !.changes = @ + 1]
  /\ UNCHANGED <<window, link, unit, image, flash, waited, owed, left, fate>>

\* The cell crosses the warning, either way; the supply comparator fires, at
\* any moment and for as long as the unit is up.
CellMoves ==
  /\ Running
  /\ unit' = [unit EXCEPT !.low = ~@]
  /\ UNCHANGED <<settings, window, link, image, flash, waited, owed, left, fate, spent>>

Sags ==
  /\ unit.phase # "off" /\ ~unit.sagging
  /\ unit' = [unit EXCEPT !.sagging = TRUE]
  /\ UNCHANGED <<settings, window, link, image, flash, waited, owed, left, fate, spent>>

\* What flash would give this image back.
OnFlash ==
  LET blob == flash[SettingsKey(link.newer)]
  IN IF Adoptable(blob, image.running) THEN blob.value ELSE Default

\* One pass more for a change that is not on flash.
Waiting == IF settings.value = OnFlash THEN 0
           ELSE IF waited > CeilingPasses THEN waited ELSE waited + 1

\* run_pass as far as drain_settings: the supply is polled, the cell asked
\* before the change is taken, the window then.
Pass ==
  /\ Running
  /\ unit' = [unit EXCEPT !.warned = unit.sagging]
  /\ LET w == Aged(window) IN
       \/ /\ ~MayPersist(unit')
          /\ window' = w
          /\ UNCHANGED <<settings, link, flash, owed, waited, spent>>
       \/ /\ MayPersist(unit')
          /\ settings' = [settings EXCEPT !.dirty = FALSE]
          /\ \E free, ok \in BOOLEAN :
               \/ /\ Due(Taken(w), free) /\ WriteSettings(Taken(w), ok) /\ waited' = 0
               \/ /\ ~Due(Taken(w), free) /\ ok
                  /\ window' = Taken(w) /\ waited' = Waiting
                  /\ UNCHANGED <<link, flash, owed, spent>>
  /\ UNCHANGED <<image, left, fate>>

\* forget_update: a failed erase leaves the record for the next boot.
Forgotten(f, erased) == IF erased THEN [f EXCEPT !.update = NoRecord] ELSE f

\* confirm_image_once_healthy: the parts a new image must prove have answered.
Confirm ==
  /\ Running /\ ~image.confirmed
  /\ image' = [image EXCEPT !.confirmed = TRUE]
  /\ link' = [link EXCEPT !.state = "confirmed", !.record = NoRecord]
  /\ \E erased \in BOOLEAN :
       /\ Answers(erased)
       /\ flash' = IF link.record = NoRecord THEN flash ELSE Forgotten(flash, erased)
       /\ spent' = Charged(spent, erased)
  /\ UNCHANGED <<settings, window, unit, waited, owed, left, fate>>

\* External: an upload puts another image in the slot, or what there was of
\* it.  The slot a revert needs is refused, and a release unit refuses to ask
\* for an older image.  What the record says can no longer be told from it.
Upload(i) ==
  /\ Running /\ image.confirmed
  /\ i = NoImage \/ i > image.running
  /\ image' = [image EXCEPT !.staged = i]
  /\ fate' = "unknown"
  /\ UNCHANGED <<settings, window, link, unit, flash, waited, owed, left, spent>>

-----------------------------------------------------------------------------
(* Going down.                                                             *)

\* drive_shutdown at Parking: flush_settings, past the window and not past the
\* cell.  An install asks for an image in the slot and for a fair cell.
\* Mutant of Flushed: the flush writes what was taken and takes nothing.
FlushedUntaken == window
Flushed == Taken(window)

Park(install) ==
  /\ Running
  /\ install => image.staged > image.running /\ MayPersist(unit)
  /\ unit' = [unit EXCEPT !.phase = "parking", !.install = install, !.warned = unit.sagging]
  /\ \/ /\ ~MayPersist(unit')
        /\ left' = Nothing
        /\ UNCHANGED <<settings, window, link, flash, owed, spent>>
     \/ /\ MayPersist(unit')
        /\ settings' = [settings EXCEPT !.dirty = FALSE]
        /\ \E ok \in BOOLEAN :
             /\ \/ Flushed.pending /\ WriteSettings(Flushed, ok)
                \/ /\ ~Flushed.pending /\ ok
                   /\ UNCHANGED <<window, link, flash, owed, spent>>
             /\ left' = IF ok THEN settings.value ELSE Nothing
  /\ UNCHANGED <<image, waited, fate>>

\* What is in RAM is gone.
Off == [phase |-> "off", install |-> FALSE, low |-> FALSE, sagging |-> FALSE, warned |-> FALSE]
Blank == [value |-> Default, dirty |-> FALSE]
Unlinked == [stored |-> NoBlob, newer |-> FALSE, record |-> NoRecord, state |-> "confirmed"]
PowersOff ==
  /\ unit' = Off /\ settings' = Blank /\ link' = Unlinked
  /\ window' = Idle /\ waited' = 0

\* Off: a power-off drops the rails.
RailsOff ==
  /\ unit.phase = "parking" /\ ~unit.install
  /\ PowersOff
  /\ UNCHANGED <<image, flash, owed, left, fate, spent>>

\* Off: an install writes the record, then the snapshot, then asks for the
\* swap.  A refused record skips the snapshot and asks all the same.
RecordUpdate ==
  /\ unit.phase = "parking" /\ unit.install
  /\ \E ok \in BOOLEAN :
       LET record == [from |-> image.running, to |-> image.staged] IN
       /\ Answers(ok)
       /\ spent' = Charged(spent, ok)
       /\ flash' = IF ok THEN [flash EXCEPT !.update = record] ELSE flash
       /\ link' = IF ok THEN [link EXCEPT !.record = record] ELSE link
       /\ owed' = IF ok THEN owed ELSE [owed EXCEPT ![image.running] = Nothing]
       /\ fate' = IF ok THEN "recorded" ELSE "unknown"
       /\ unit' = [unit EXCEPT !.phase = IF ok THEN "recorded" ELSE "asking"]
  /\ UNCHANGED <<settings, window, image, waited, left>>

\* keep_settings_for_a_revert.  The snapshot is read only beside a newer blob,
\* so it owes the pilot what the image's own key holds as well.
KeepSettings ==
  /\ unit.phase = "recorded"
  /\ unit' = [unit EXCEPT !.phase = "asking"]
  /\ \E ok \in BOOLEAN :
       /\ Answers(ok)
       /\ spent' = Charged(spent, ok)
       /\ flash' = IF ok THEN [flash EXCEPT !.prior = Held] ELSE flash
       /\ link' = IF ok /\ link.newer THEN [link EXCEPT !.stored = Held] ELSE link
       /\ owed' = [owed EXCEPT ![image.running] =
                     IF ok /\ settings.value = OnFlash THEN settings.value ELSE Nothing]
  /\ UNCHANGED <<settings, window, image, waited, left, fate>>

\* trigger(): the request may fail and nobody asks, the reset follows.
Trigger ==
  /\ unit.phase = "asking"
  /\ \E asked \in BOOLEAN : image' = [image EXCEPT !.swap = asked]
  /\ PowersOff
  /\ UNCHANGED <<flash, owed, left, fate, spent>>

\* A reset, or a cell that dies, at any moment.
Cut ==
  /\ unit.phase # "off"
  /\ PowersOff
  /\ left' = Nothing
  /\ UNCHANGED <<image, flash, owed, fate, spent>>

-----------------------------------------------------------------------------
(* Coming up.                                                              *)

\* External: MCUboot.  A test swap runs an image it trusts and scrambles one
\* it does not; an image nobody confirmed is swapped back.
Bootloader(trusted) ==
  CASE image.swap /\ trusted ->
         [running |-> image.staged, staged |-> image.running, confirmed |-> FALSE, swap |-> FALSE]
    [] image.swap /\ ~trusted -> [image EXCEPT !.staged = NoImage, !.swap = FALSE]
    [] ~image.swap /\ ~image.confirmed ->
         [running |-> image.staged, staged |-> image.running, confirmed |-> TRUE, swap |-> FALSE]
    [] OTHER -> image

BecameOf(trusted) ==
  IF fate # "recorded" /\ fate # "ran" THEN fate
  ELSE IF image.swap THEN IF trusted THEN "ran" ELSE "refused"
  ELSE IF fate = "recorded" THEN "unknown"
  ELSE IF ~image.confirmed THEN "reverted"
  ELSE "landed"

\* dfu::outcome, with hashes: the images are told apart for certain.
Outcome(record, i) ==
  IF i.running = record.to THEN "landed"
  ELSE IF i.running # record.from THEN "unrelated"
  ELSE IF i.staged = record.to THEN "reverted"
  ELSE "refused"

\* load_image_state: whether the record goes.
\* Mutant of ForgetsAtBoot: a record that landed goes at once.
ForgetsAtOnce(record, i) ==
  record # NoRecord /\ Outcome(record, i) \in {"landed", "unrelated"}
ForgetsAtBoot(record, i) ==
  /\ record # NoRecord
  /\ \/ Outcome(record, i) = "unrelated"
     \/ Outcome(record, i) = "landed" /\ i.confirmed

ImageState(record, i) ==
  IF ~i.confirmed THEN "probation"
  ELSE IF record # NoRecord /\ Outcome(record, i) \in {"reverted", "refused"}
  THEN Outcome(record, i) ELSE "confirmed"

\* load(): a newer blob is left where it is, and the prior one read instead.
NewerLayout(i) == flash.settings.layout > i
Loaded(i) ==
  LET blob == IF NewerLayout(i) THEN flash.prior ELSE flash.settings
  IN IF Adoptable(blob, i) THEN blob ELSE NoBlob

Boot ==
  /\ unit.phase = "off" /\ spent.boots < MaxBoots
  /\ \E trusted \in {TRUE, ~image.swap} :
     \E up \in {Bootloader(trusted)} :
       LET forgets == ForgetsAtBoot(flash.update, up)
       IN /\ image' = up
          /\ fate' = BecameOf(trusted)
          /\ settings' = [Blank EXCEPT !.value = Loaded(up.running).value]
          /\ link' = [stored |-> Loaded(up.running),
                      newer |-> NewerLayout(up.running),
                      record |-> IF forgets THEN NoRecord ELSE flash.update,
                      state |-> ImageState(flash.update, up)]
          /\ \E erased \in {TRUE, ~forgets} :
               /\ Answers(erased)
               /\ flash' = IF forgets THEN Forgotten(flash, erased) ELSE flash
               /\ spent' = Charged([spent EXCEPT !.boots = @ + 1], erased)
  /\ \E low \in BOOLEAN : unit' = [Off EXCEPT !.phase = "running", !.low = low]
  /\ UNCHANGED <<window, waited, owed, left>>

Init ==
  /\ settings = Blank
  /\ window = Idle
  /\ link = Unlinked
  /\ unit = [Off EXCEPT !.phase = "running"]
  /\ image = [running |-> 1, staged |-> NoImage, confirmed |-> TRUE, swap |-> FALSE]
  /\ flash = [settings |-> NoBlob, prior |-> NoBlob, update |-> NoRecord]
  /\ waited = 0
  /\ owed = [i \in Images |-> Nothing]
  /\ left = Nothing
  /\ fate = "unknown"
  /\ spent = [changes |-> 0, boots |-> 0, refusals |-> 0]

Next ==
  \/ Change \/ CellMoves \/ Sags \/ Pass \/ Confirm
  \/ \E i \in Images \cup {NoImage} : Upload(i)
  \/ \E install \in BOOLEAN : Park(install)
  \/ RailsOff \/ RecordUpdate \/ KeepSettings \/ Trigger \/ Cut \/ Boot

SettingsSpec == Init /\ [][Next]_settingsVars

-----------------------------------------------------------------------------
(* Properties.                                                             *)

\* Every variable keeps its type.
SettingsTypeOK ==
  /\ settings \in [value : Values, dirty : BOOLEAN]
  /\ window \in [pending : BOOLEAN, first : 0..CeilingPasses, last : 0..CeilingPasses]
  /\ link.stored \in Blobs \cup {NoBlob} /\ link.record \in Records \cup {NoRecord}
  /\ link.state \in {"confirmed", "probation", "reverted", "refused"}
  /\ unit.phase \in {"running", "parking", "recorded", "asking", "off"}
  /\ image.running \in Images /\ image.staged \in Images \cup {NoImage}
  /\ flash.settings \in Blobs \cup {NoBlob} /\ flash.prior \in Blobs \cup {NoBlob}
  /\ flash.update \in Records \cup {NoRecord}
  /\ owed \in [Images -> Values \cup {Nothing}]

\* A pilot who goes on changing settings, under a second that never offers a
\* free stretch and a cell that comes and goes, never keeps a change off flash
\* for longer than the bound the code counts from the first one: the passes
\* that might have written it, since the oldest change flash does not hold or
\* the last write the store refused, are no more than that.
ChangeIsPrompt == waited <= CeilingPasses

\* An image that wrote its settings finds them when it next boots, whatever
\* ran in between: across a swap and a revert the image before it comes back
\* on what the pilot had when the swap began, a newer image installed a second
\* time on the blob it left, and no older one writes over it.
ComesBackAsLeft ==
  [][unit.phase = "off" /\ unit'.phase = "running" /\ owed[image'.running] # Nothing
     => settings'.value = owed[image'.running]]_settingsVars

\* A deliberate power-off keeps the change still in RAM, on a cell that may be
\* written on: the same image comes up on what the pilot switched off with.
SwitchedOffIsSaved ==
  [][unit.phase = "off" /\ unit'.phase = "running" /\ left # Nothing
     /\ image'.running = image.running => settings'.value = left]_settingsVars

\* What became of a recorded update is told as it was, however many resets
\* come before the pilot asks: reverted when it ran and was swapped back,
\* refused when the bootloader threw it away, and neither by an image that
\* runs.
FateTold ==
  unit.phase = "running" =>
    /\ fate \in {"reverted", "refused"} => link.state = fate
    /\ fate \in {"ran", "landed"} => link.state \in {"probation", "confirmed"}
===============================================================================
