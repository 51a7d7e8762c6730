------------------------ MODULE DurableSettingsProofs ------------------------
(***************************************************************************)
(* What DurableSettings promises, proved for every settle and ceiling,     *)
(* every set of values and every bound on changes, boots and refusals; what*)
(* an image comes back to, for the two images of an update.                *)
(*                                                                         *)
(* A change, a snapshot and a record each outlive the RAM that knew of     *)
(* them, so the invariant says, of every phase between a change and the    *)
(* boot after it, what flash already holds: the key an image writes holds  *)
(* what it believes stored, a record stands for the two slots the          *)
(* bootloader will find, and a snapshot was taken before a swap was asked. *)
(***************************************************************************)
EXTENDS DurableSettings, TLAPS

Phases == {"running", "parking", "recorded", "asking", "off"}
States == {"confirmed", "probation", "reverted", "refused"}
Fates == {"unknown", "recorded", "ran", "reverted", "refused", "landed"}
AnyBlob == Blobs \cup {NoBlob}
AnyRecord == Records \cup {NoRecord}
Slots == Images \cup {NoImage}
Windows ==
  [pending : BOOLEAN, first : 0 .. CeilingPasses, last : 0 .. CeilingPasses]

Shape ==
  /\ settings \in [value : Values, dirty : BOOLEAN]
  /\ window \in Windows
  /\ link \in [stored : AnyBlob, newer : BOOLEAN, record : AnyRecord, state : States]
  /\ unit \in [phase : Phases, install : BOOLEAN, low : BOOLEAN, sagging : BOOLEAN,
               warned : BOOLEAN]
  /\ image \in [running : Images, staged : Slots, confirmed : BOOLEAN, swap : BOOLEAN]
  /\ flash \in [settings : AnyBlob, prior : AnyBlob, update : AnyRecord]
  /\ waited \in Nat
  /\ owed \in [Images -> Values \cup {Nothing}]
  /\ left \in Values \cup {Nothing}
  /\ fate \in Fates

\* A unit that is installing, from the parked pass to the request.
Installing ==
  unit.phase \in {"recorded", "asking"} \/ (unit.phase = "parking" /\ unit.install)

\* A swap goes up to a newer image and a trial goes back to an older one.
SlotsKept ==
  /\ image.swap => unit.phase = "off" /\ image.staged > image.running /\ image.confirmed
  /\ ~image.confirmed => image.staged \in Images /\ image.staged < image.running
  /\ Installing => image.staged > image.running /\ image.confirmed

\* The record of flash, as long as somebody may still ask what became of it.
Gone(update, i) == update = NoRecord \/ update.to = i.running
FateKept ==
  /\ unit.phase \in {"recorded", "asking"} \/ image.swap => fate \in {"recorded", "unknown"}
  /\ fate = "recorded" =>
       /\ unit.phase \in {"recorded", "asking", "off"}
       /\ flash.update = [from |-> image.running, to |-> image.staged]
       /\ image.confirmed
  /\ fate = "ran" =>
       /\ image.staged < image.running /\ Gone(flash.update, image)
       /\ ~image.confirmed => flash.update = [from |-> image.staged, to |-> image.running]
  /\ fate = "reverted" =>
       /\ flash.update = [from |-> image.running, to |-> image.staged]
       /\ image.staged \in Images /\ image.staged # image.running /\ image.confirmed
  /\ fate = "refused" =>
       /\ flash.update.from = image.running /\ flash.update # NoRecord
       /\ flash.update.to \notin {image.running, image.staged} /\ image.confirmed
  /\ fate = "landed" => Gone(flash.update, image) /\ image.confirmed

\* What a running image believes of its key is so.
KeyKept ==
  unit.phase # "off" =>
    /\ link.newer <=> flash.settings.layout > image.running
    /\ link.stored # NoBlob => flash[SettingsKey(link.newer)] = link.stored

\* A change that is not on flash is in the window or on its way to it, and the
\* window has counted every pass but the one that took it.
ChangeHeld ==
  /\ unit.phase = "running" /\ ~window.pending /\ ~settings.dirty => settings.value = OnFlash
  /\ unit.phase = "running" /\ waited > 0 => window.pending /\ waited <= window.first + 1
  /\ unit.phase = "off" => ~window.pending /\ waited = 0

\* What the pilot switched off with is what this image would load.
LeftKept ==
  left # Nothing =>
    /\ unit.phase # "running" => Loaded(image.running).value = left
    /\ unit.phase \notin {"running", "off"} => settings.value = left

\* Between two images: the newer one's blob is never written over, and the
\* older one's snapshot is taken before the newer one may run.
Snapped ==
  \/ flash.settings.layout = 2 \/ image.running = 2 \/ image.swap \/ unit.phase = "asking"
OwedKept ==
  /\ flash.prior # NoBlob => flash.prior.layout = 1
  /\ 2 \in Images /\ owed[2] # Nothing =>
       flash.settings.layout = 2 /\ flash.settings.value = owed[2]
  /\ owed[1] # Nothing =>
       /\ flash.settings.layout < 2 => flash.settings.value = owed[1]
       /\ Snapped => flash.prior # NoBlob /\ flash.prior.value = owed[1]

SettingsInv ==
  /\ Shape /\ SlotsKept /\ FateKept /\ KeyKept /\ ChangeHeld /\ LeftKept
  /\ ChangeIsPrompt /\ FateTold

-----------------------------------------------------------------------------
(* What the model is built from.                                           *)

LEMMA Bounds ==
  /\ SettlePasses \in Nat /\ CeilingPasses \in Nat /\ SettlePasses < CeilingPasses
  /\ MaxImage \in Nat /\ 1 \in Images /\ NoImage = 0 /\ NoImage \notin Images
  /\ \A i \in Slots : i \in Nat /\ (i # NoImage => i \in Images /\ i > 0)
  /\ Default \in Values
BY SettingsAssumption DEF SettingsAssumption, Images, Slots, NoImage

LEMMA BlobFacts ==
  ASSUME NEW b \in AnyBlob
  PROVE  /\ b.value \in Values /\ b.layout \in Slots /\ b.layout \in Nat
         /\ b # NoBlob => b \in Blobs /\ b.layout \in Images /\ b.layout > 0
         /\ b = NoBlob => b.value = Default /\ b.layout = 0
BY Bounds DEF AnyBlob, Blobs, NoBlob, Slots

LEMMA RecordFacts ==
  ASSUME NEW r \in AnyRecord
  PROVE  /\ r.from \in Slots /\ r.to \in Slots
         /\ r # NoRecord => r \in Records /\ r.from \in Images /\ r.to \in Images
         /\ r = NoRecord => r.from = NoImage /\ r.to = NoImage
BY Bounds DEF AnyRecord, Records, NoRecord, Slots

LEMMA WindowFacts ==
  ASSUME NEW w \in Windows
  PROVE  /\ Request(w) \in Windows /\ Request(w).pending
         /\ Request(w).first = IF w.pending THEN w.first ELSE 0
         /\ Refuse(w) \in Windows /\ Refuse(w).pending = w.pending
         /\ [w EXCEPT !.pending = FALSE] \in Windows
         /\ Aged(w) \in Windows /\ Aged(w).pending = w.pending
         /\ w.pending => Aged(w).first = Older(w.first)
         /\ ~w.pending => Aged(w) = w
         /\ Idle \in Windows
<1>1. 0 \in 0 .. CeilingPasses /\ \A age \in 0 .. CeilingPasses : Older(age) \in 0 .. CeilingPasses
  BY Bounds DEF Older
<1>2. Request(w) \in Windows /\ Request(w).pending
      /\ Request(w).first = IF w.pending THEN w.first ELSE 0
  BY <1>1 DEF Request, Windows
<1>3. /\ Refuse(w) \in Windows /\ Refuse(w).pending = w.pending
      /\ [w EXCEPT !.pending = FALSE] \in Windows /\ Idle \in Windows
  BY <1>1 DEF Refuse, Windows, Idle
<1>4. Aged(w) \in Windows /\ Aged(w).pending = w.pending
      /\ (w.pending => Aged(w).first = Older(w.first)) /\ (~w.pending => Aged(w) = w)
  BY <1>1 DEF Aged, Windows
<1> QED  BY <1>2, <1>3, <1>4

LEMMA TakenFacts ==
  ASSUME Shape, NEW w \in Windows
  PROVE  /\ Taken(w) \in Windows
         /\ Taken(w).pending <=> w.pending \/ settings.dirty
         /\ Taken(w).pending => Taken(w).first = IF w.pending THEN w.first ELSE 0
<1>1. CASE settings.dirty
  <2>1. Taken(w) = Request(w)
    BY <1>1 DEF Taken
  <2>2. Taken(w) \in Windows /\ Taken(w).pending
        /\ Taken(w).first = IF w.pending THEN w.first ELSE 0
    BY <2>1, WindowFacts
  <2> QED  BY <1>1, <2>2, Zenon
<1>2. CASE ~settings.dirty
  <2>1. Taken(w) = w
    BY <1>2 DEF Taken
  <2> QED  BY <1>2, <2>1
<1> QED  BY <1>1, <1>2

LEMMA HeldType ==
  ASSUME Shape
  PROVE  /\ Held \in AnyBlob /\ Held # NoBlob /\ Held.value = settings.value
         /\ Held.layout = image.running
BY Bounds DEF Shape, Held, ToBlob, AnyBlob, Blobs, NoBlob

LEMMA LoadedFacts ==
  ASSUME Shape, NEW i \in Images
  PROVE  /\ Loaded(i) \in AnyBlob /\ Loaded(i).value \in Values
         /\ flash.settings.layout > i <=> NewerLayout(i)
         /\ Loaded(i).value =
              LET blob == flash[SettingsKey(NewerLayout(i))]
              IN IF Adoptable(blob, i) THEN blob.value ELSE Default
         /\ Loaded(i) # NoBlob => Loaded(i) = flash[SettingsKey(NewerLayout(i))]
<1>1. flash.prior \in AnyBlob /\ flash.settings \in AnyBlob /\ NoBlob \in AnyBlob
  BY DEF Shape, AnyBlob
<1>2. Loaded(i) \in AnyBlob
  BY <1>1 DEF Loaded
<1>3. NoBlob.value = Default
  BY DEF NoBlob
<1> QED  BY <1>1, <1>2, <1>3, BlobFacts DEF Loaded, NewerLayout, SettingsKey

\* What flash would give a running image is what it would load.
LEMMA OnFlashLoads ==
  ASSUME Shape, KeyKept, unit.phase # "off"
  PROVE  /\ OnFlash = Loaded(image.running).value
         /\ link.newer <=> NewerLayout(image.running)
         /\ link.newer = NewerLayout(image.running)
<1>1. image.running \in Images /\ link.newer \in BOOLEAN /\ NewerLayout(image.running) \in BOOLEAN
  BY DEF Shape, NewerLayout
<1>2. link.newer <=> NewerLayout(image.running)
  BY Zenon DEF KeyKept, NewerLayout
<1>3. link.newer = NewerLayout(image.running)
  BY <1>1, <1>2
<1>4. Loaded(image.running).value =
        LET blob == flash[SettingsKey(NewerLayout(image.running))]
        IN IF Adoptable(blob, image.running) THEN blob.value ELSE Default
  BY <1>1, LoadedFacts
<1>5. OnFlash = Loaded(image.running).value
  <2> HIDE DEF NewerLayout, SettingsKey, Adoptable, Loaded
  <2> QED  BY <1>3, <1>4 DEF OnFlash
<1> QED  BY <1>2, <1>3, <1>5

\* A write that took puts the blob under the image's own key and nowhere else;
\* one the store refused, or had no need of, changes nothing of flash.
Wrote(w, ok) ==
  /\ window' \in Windows
  /\ link' \in [stored : AnyBlob, newer : BOOLEAN, record : AnyRecord, state : States]
  /\ link'.newer = link.newer /\ link'.record = link.record /\ link'.state = link.state
  /\ flash' \in [settings : AnyBlob, prior : AnyBlob, update : AnyRecord]
  /\ flash'.update = flash.update
  /\ owed' \in [Images -> Values \cup {Nothing}]
  /\ flash'.settings.layout > image.running <=> flash.settings.layout > image.running
  /\ link.newer => flash'.settings = flash.settings
  /\ ~link.newer => flash'.prior = flash.prior
  /\ ok => /\ ~window'.pending /\ flash'[SettingsKey(link.newer)] = Held /\ link'.stored = Held
           /\ owed' = [owed EXCEPT ![image.running] = settings.value]
  /\ ~ok => /\ window'.pending = w.pending
            /\ flash' = flash /\ link' = link /\ owed' = owed

LEMMA WriteSettingsWrites ==
  ASSUME Shape, KeyKept, unit.phase = "running", NEW w \in Windows, NEW ok \in BOOLEAN,
         WriteSettings(w, ok)
  PROVE  Wrote(w, ok)
<1>1. /\ link \in [stored : AnyBlob, newer : BOOLEAN, record : AnyRecord, state : States]
      /\ flash \in [settings : AnyBlob, prior : AnyBlob, update : AnyRecord]
      /\ owed \in [Images -> Values \cup {Nothing}] /\ image.running \in Images
      /\ settings.value \in Values
  BY DEF Shape
<1>2. PICK held \in AnyBlob : held = Held
  BY HeldType
<1>3. held # NoBlob /\ held.layout = image.running
  BY <1>2, HeldType
<1>4. CASE ~ok
  <2>1. window' = Refuse(w) /\ flash' = flash /\ link' = link /\ owed' = owed
    BY <1>4 DEF WriteSettings
  <2>2. window' \in Windows /\ window'.pending = w.pending
    BY <2>1, WindowFacts
  <2> QED  BY <1>1, <1>4, <2>1, <2>2 DEF Wrote
<1>5. CASE ok
  <2>1. /\ flash' = IF link.stored = held THEN flash
                    ELSE [flash EXCEPT ![SettingsKey(link.newer)] = held]
        /\ link' = [link EXCEPT !.stored = held]
        /\ window' = [w EXCEPT !.pending = FALSE]
        /\ owed' = [owed EXCEPT ![image.running] = settings.value]
    BY <1>2, <1>5 DEF WriteSettings
  <2>2. /\ link' \in [stored : AnyBlob, newer : BOOLEAN, record : AnyRecord, state : States]
        /\ link'.newer = link.newer /\ link'.record = link.record /\ link'.state = link.state
        /\ link'.stored = held
    BY <1>1, <2>1
  <2>3. window' \in Windows /\ ~window'.pending
    BY <2>1, WindowFacts DEF Windows
  <2>4. owed' \in [Images -> Values \cup {Nothing}]
    BY <1>1, <2>1
  <2>5. link.newer <=> flash.settings.layout > image.running
    BY DEF KeyKept
  <2>6. link.stored = held => flash[SettingsKey(link.newer)] = held
    BY <1>3 DEF KeyKept
  <2>7. /\ flash' \in [settings : AnyBlob, prior : AnyBlob, update : AnyRecord]
        /\ flash'.update = flash.update /\ flash'[SettingsKey(link.newer)] = held
        /\ link.newer => flash'.settings = flash.settings
        /\ ~link.newer => flash'.prior = flash.prior
    <3>1. CASE link.stored = held
      BY <1>1, <2>1, <2>6, <3>1
    <3>2. CASE link.stored # held /\ link.newer
      <4>1. flash' = [flash EXCEPT !.prior = held]
        BY <2>1, <3>2 DEF SettingsKey
      <4> QED  BY <1>1, <3>2, <4>1 DEF SettingsKey
    <3>3. CASE link.stored # held /\ ~link.newer
      <4>1. flash' = [flash EXCEPT !.settings = held]
        BY <2>1, <3>3 DEF SettingsKey
      <4> QED  BY <1>1, <3>3, <4>1 DEF SettingsKey
    <3> QED  BY <3>1, <3>2, <3>3
  <2>8. flash'.settings.layout > image.running <=> flash.settings.layout > image.running
    <3>1. CASE link.newer
      BY <2>7, <3>1
    <3>2. CASE ~link.newer
      <4>1. flash'.settings = held
        BY <2>7, <3>2 DEF SettingsKey
      <4>2. image.running \in Nat
        BY <1>1 DEF Images
      <4> QED  BY <1>3, <2>5, <3>2, <4>1, <4>2
    <3> QED  BY <3>1, <3>2
  <2> QED  BY <1>2, <1>5, <2>1, <2>2, <2>3, <2>4, <2>7, <2>8 DEF Wrote
<1> QED  BY <1>4, <1>5

-----------------------------------------------------------------------------
(* The steps of a running unit.                                            *)

LEMMA LoadsSame ==
  ASSUME flash'.settings = flash.settings, flash'.prior = flash.prior
  PROVE  \A i : Loaded(i)' = Loaded(i)
BY DEF Loaded, NewerLayout

LEMMA OnFlashSame ==
  ASSUME flash'.settings = flash.settings, flash'.prior = flash.prior,
         link'.newer = link.newer, image'.running = image.running
  PROVE  OnFlash' = OnFlash
BY DEF OnFlash, SettingsKey

\* The pilot, the cell and the supply touch nothing the invariant relates but
\* the settings, and the flag goes up with them.
LEMMA WorldKeeps ==
  ASSUME SettingsInv, Change \/ CellMoves \/ Sags
  PROVE  SettingsInv'
<1>1. /\ Shape /\ SlotsKept /\ FateKept /\ KeyKept /\ ChangeHeld /\ LeftKept
      /\ ChangeIsPrompt /\ FateTold
  BY DEF SettingsInv
<1>2. /\ UNCHANGED <<window, link, image, flash, waited, owed, left, fate>>
      /\ settings' \in [value : Values, dirty : BOOLEAN]
      /\ unit' \in [phase : Phases, install : BOOLEAN, low : BOOLEAN, sagging : BOOLEAN,
                    warned : BOOLEAN]
      /\ unit'.phase = unit.phase /\ unit'.install = unit.install
      /\ settings' = settings \/ (settings'.dirty /\ unit.phase = "running")
  <2>1. CASE Change
    BY <1>1, <2>1 DEF Change, Running, Shape
  <2>2. CASE CellMoves
    <3>1. PICK low \in BOOLEAN : low = ~unit.low
      OBVIOUS
    <3>2. unit' = [unit EXCEPT !.low = low] /\ UNCHANGED settings
      BY <2>2, <3>1 DEF CellMoves
    <3>3. UNCHANGED <<window, link, image, flash, waited, owed, left, fate>>
      BY <2>2 DEF CellMoves
    <3> QED  BY <1>1, <3>2, <3>3 DEF Shape
  <2>3. CASE Sags
    BY <1>1, <2>3 DEF Sags, Shape
  <2> QED  BY <2>1, <2>2, <2>3
<1>3. OnFlash' = OnFlash /\ \A i : Loaded(i)' = Loaded(i)
  BY <1>2, LoadsSame, OnFlashSame
<1>4. Shape' /\ SlotsKept'
  BY <1>1, <1>2 DEF Shape, SlotsKept, Installing
<1>5. FateKept' /\ KeyKept' /\ ChangeIsPrompt' /\ FateTold'
  BY <1>1, <1>2 DEF FateKept, Gone, KeyKept, ChangeIsPrompt, FateTold
<1>6. ChangeHeld' /\ LeftKept'
  BY <1>1, <1>2, <1>3 DEF ChangeHeld, LeftKept
<1> QED  BY <1>4, <1>5, <1>6 DEF SettingsInv

\* One pass more, for a change that is held back or written.
LEMMA PassChange ==
  ASSUME SettingsInv, Pass
  PROVE  /\ waited' \in Nat /\ window' \in Windows
         /\ ChangeHeld' /\ ChangeIsPrompt'
         /\ settings' \in [value : Values, dirty : BOOLEAN] /\ settings'.value = settings.value
         /\ \/ link' = link /\ flash' = flash /\ owed' = owed
            \/ \E w \in Windows, ok \in BOOLEAN : Wrote(w, ok)
         /\ unit' \in [phase : Phases, install : BOOLEAN, low : BOOLEAN, sagging : BOOLEAN,
                       warned : BOOLEAN]
         /\ unit'.phase = "running" /\ unit.phase = "running"
         /\ UNCHANGED <<image, left, fate>>
<1>1. /\ Shape /\ KeyKept /\ ChangeHeld /\ ChangeIsPrompt /\ unit.phase = "running"
      /\ UNCHANGED <<image, left, fate>>
  BY DEF SettingsInv, Pass, Running
<1>2. /\ settings \in [value : Values, dirty : BOOLEAN] /\ window \in Windows /\ waited \in Nat
      /\ window.first \in 0 .. CeilingPasses /\ window.pending \in BOOLEAN
      /\ CeilingPasses \in Nat /\ CeilingPasses > 0 /\ SettlePasses \in Nat
      /\ waited <= CeilingPasses
  BY <1>1, Bounds DEF Shape, Windows, ChangeIsPrompt
<1>3. unit' \in [phase : Phases, install : BOOLEAN, low : BOOLEAN, sagging : BOOLEAN,
                 warned : BOOLEAN] /\ unit'.phase = "running"
  BY <1>1 DEF Pass, Shape
<1>4. PICK w \in Windows : w = Aged(window)
  BY <1>2, WindowFacts
<1>5. /\ w.pending = window.pending /\ w.first \in 0 .. CeilingPasses
      /\ w.pending => /\ w.first >= window.first
                      /\ w.first = window.first + 1 \/ (w.first = CeilingPasses)
  <2>1. w.pending => w.first = Older(window.first)
    BY <1>2, <1>4, WindowFacts
  <2>2. w.pending = window.pending
    BY <1>2, <1>4, WindowFacts
  <2>3. w.first \in 0 .. CeilingPasses
    BY DEF Windows
  <2> QED  BY <1>2, <2>1, <2>2, <2>3 DEF Older
<1>6. CASE /\ window' = w
           /\ UNCHANGED <<settings, link, flash, owed, waited, spent>>
  <2>1. OnFlash' = OnFlash
    BY <1>1, <1>6, OnFlashSame
  <2>2. ChangeHeld' /\ ChangeIsPrompt'
    BY <1>1, <1>2, <1>3, <1>5, <1>6, <2>1 DEF ChangeHeld, ChangeIsPrompt
  <2> QED  BY <1>1, <1>2, <1>3, <1>6, <2>2
<1>7. CASE /\ settings' = [settings EXCEPT !.dirty = FALSE]
           /\ \E free, ok \in BOOLEAN :
                \/ /\ Due(Taken(w), free) /\ WriteSettings(Taken(w), ok) /\ waited' = 0
                \/ /\ ~Due(Taken(w), free) /\ ok
                   /\ window' = Taken(w) /\ waited' = Waiting
                   /\ UNCHANGED <<link, flash, owed, spent>>
  <2>1. settings' \in [value : Values, dirty : BOOLEAN] /\ settings'.value = settings.value
        /\ ~settings'.dirty
    BY <1>2, <1>7
  <2>2. PICK t \in Windows : t = Taken(w)
    BY <1>1, TakenFacts
  <2>3. /\ t.pending <=> window.pending \/ settings.dirty
        /\ t.pending => t.first = IF window.pending THEN w.first ELSE 0
    <3>1. /\ t.pending <=> w.pending \/ settings.dirty
          /\ t.pending => t.first = IF w.pending THEN w.first ELSE 0
      BY <1>1, <2>2, TakenFacts
    <3> QED  BY <1>5, <3>1
  <2>4. CASE \E free, ok \in BOOLEAN : Due(t, free) /\ WriteSettings(t, ok) /\ waited' = 0
    <3>1. PICK free \in BOOLEAN, ok \in BOOLEAN :
            Due(t, free) /\ WriteSettings(t, ok) /\ waited' = 0
      BY <2>4
    <3>2. Wrote(t, ok)
      BY <1>1, <2>2, <3>1, WriteSettingsWrites
    <3>3. t.pending
      BY <3>1 DEF Due
    <3>4. CASE ok
      <4>1. /\ flash'[SettingsKey(link.newer)] = Held /\ link'.newer = link.newer
            /\ image'.running = image.running
        BY <1>1, <3>2, <3>4 DEF Wrote
      <4>2. Adoptable(Held, image.running) /\ Held.value = settings.value
        <5>1. image.running \in Nat
          BY <1>1 DEF Shape, Images
        <5> QED  BY <1>1, <5>1, HeldType DEF Adoptable
      <4>3. OnFlash' = settings.value
        BY <4>1, <4>2 DEF OnFlash
      <4>4. ChangeHeld' /\ ChangeIsPrompt'
        BY <1>2, <1>3, <2>1, <3>1, <4>3 DEF ChangeHeld, ChangeIsPrompt
      <4> QED  BY <1>1, <1>3, <2>1, <3>1, <3>2, <4>4 DEF Wrote
    <3>5. CASE ~ok
      <4>1. window'.pending
        BY <3>2, <3>3, <3>5 DEF Wrote
      <4>2. ChangeHeld' /\ ChangeIsPrompt'
        BY <1>2, <1>3, <3>1, <4>1 DEF ChangeHeld, ChangeIsPrompt
      <4> QED  BY <1>1, <1>3, <2>1, <3>1, <3>2, <4>2 DEF Wrote
    <3> QED  BY <3>4, <3>5
  <2>5. CASE \E free \in BOOLEAN :
               /\ ~Due(t, free) /\ window' = t /\ waited' = Waiting
               /\ UNCHANGED <<link, flash, owed, spent>>
    <3>1. PICK free \in BOOLEAN :
            /\ ~Due(t, free) /\ window' = t /\ waited' = Waiting
            /\ UNCHANGED <<link, flash, owed, spent>>
      BY <2>5
    <3>2. OnFlash' = OnFlash
      BY <1>1, <3>1, OnFlashSame
    <3>3. ~window'.pending => settings.value = OnFlash
      BY <1>1, <2>3, <3>1 DEF ChangeHeld
    <3>4. waited' = IF settings.value = OnFlash THEN 0
                    ELSE IF waited > CeilingPasses THEN waited ELSE waited + 1
      BY <3>1 DEF Waiting
    <3>5. settings.value # OnFlash => t.pending /\ t.first < CeilingPasses
      <4>1. t.first \in 0 .. CeilingPasses
        BY DEF Windows
      <4> QED  BY <1>2, <3>1, <3>3, <4>1 DEF Due, BoundSpent
    <3>6. settings.value # OnFlash => waited + 1 <= t.first + 1
      <4>1. SUFFICES ASSUME settings.value # OnFlash PROVE waited <= t.first
        BY <1>2, <2>2 DEF Windows
      <4>2. CASE window.pending
        <5>1. t.first = w.first /\ w.pending /\ w.first < CeilingPasses
          BY <1>5, <2>3, <3>5, <4>1, <4>2
        <5>2. waited <= window.first + 1
          BY <1>1, <1>2 DEF ChangeHeld
        <5> QED  BY <1>2, <1>5, <5>1, <5>2
      <4>3. CASE ~window.pending
        <5>1. waited = 0
          BY <1>1, <1>2, <4>3 DEF ChangeHeld
        <5> QED  BY <1>2, <2>2, <5>1 DEF Windows
      <4> QED  BY <4>2, <4>3
    <3>7. /\ waited' \in Nat /\ waited' <= CeilingPasses
          /\ waited' > 0 => window'.pending /\ waited' <= window'.first + 1
      <4>1. t.first \in 0 .. CeilingPasses
        BY DEF Windows
      <4> QED  BY <1>2, <3>1, <3>4, <3>5, <3>6, <4>1
    <3>8. ChangeHeld' /\ ChangeIsPrompt'
      BY <1>3, <2>1, <3>2, <3>3, <3>7 DEF ChangeHeld, ChangeIsPrompt
    <3> QED  BY <1>1, <1>3, <2>1, <3>1, <3>7, <3>8
  <2> QED  BY <1>7, <2>2, <2>4, <2>5
<1> QED  BY <1>4, <1>6, <1>7 DEF Pass

LEMMA WroteKeeps ==
  ASSUME Shape, KeyKept, unit.phase = "running", NEW w, NEW ok \in BOOLEAN, Wrote(w, ok),
         image' = image
  PROVE  KeyKept'
<1>1. /\ link'.newer <=> flash'.settings.layout > image'.running
  BY DEF KeyKept, Wrote
<1>2. link'.stored # NoBlob => flash'[SettingsKey(link'.newer)] = link'.stored
  BY DEF KeyKept, Wrote
<1> QED  BY <1>1, <1>2 DEF KeyKept

LEMMA PassKeeps ==
  ASSUME SettingsInv, Pass
  PROVE  SettingsInv'
<1>1. /\ Shape /\ SlotsKept /\ FateKept /\ KeyKept /\ LeftKept /\ FateTold
  BY DEF SettingsInv
<1>2. /\ waited' \in Nat /\ window' \in Windows
      /\ ChangeHeld' /\ ChangeIsPrompt'
      /\ settings' \in [value : Values, dirty : BOOLEAN] /\ settings'.value = settings.value
      /\ unit' \in [phase : Phases, install : BOOLEAN, low : BOOLEAN, sagging : BOOLEAN,
                    warned : BOOLEAN]
      /\ unit'.phase = "running" /\ unit.phase = "running"
      /\ UNCHANGED <<image, left, fate>>
  BY PassChange
<1>3. \/ link' = link /\ flash' = flash /\ owed' = owed
      \/ \E w \in Windows, ok \in BOOLEAN : Wrote(w, ok)
  BY PassChange
<1>4. /\ link' \in [stored : AnyBlob, newer : BOOLEAN, record : AnyRecord, state : States]
      /\ flash' \in [settings : AnyBlob, prior : AnyBlob, update : AnyRecord]
      /\ owed' \in [Images -> Values \cup {Nothing}]
      /\ link'.state = link.state /\ flash'.update = flash.update
      /\ KeyKept'
  <2>1. CASE link' = link /\ flash' = flash /\ owed' = owed
    BY <1>1, <1>2, <2>1 DEF Shape, KeyKept
  <2>2. CASE \E w \in Windows, ok \in BOOLEAN : Wrote(w, ok)
    <3>1. PICK w \in Windows, ok \in BOOLEAN : Wrote(w, ok)
      BY <2>2
    <3>2. KeyKept'
      BY <1>1, <1>2, <3>1, WroteKeeps
    <3> QED  BY <3>1, <3>2 DEF Wrote
  <2> QED  BY <1>3, <2>1, <2>2
<1>5. Shape'
  BY <1>1, <1>2, <1>4 DEF Shape
<1>6. SlotsKept' /\ LeftKept'
  BY <1>1, <1>2 DEF SlotsKept, LeftKept, Installing
<1>7. FateKept' /\ FateTold'
  BY <1>1, <1>2, <1>4 DEF FateKept, FateTold, Gone
<1> QED  BY <1>2, <1>4, <1>5, <1>6, <1>7 DEF SettingsInv

LEMMA ConfirmKeeps ==
  ASSUME SettingsInv, Confirm
  PROVE  SettingsInv' /\ image'.running = image.running /\ image'.swap = image.swap
         /\ flash'.settings = flash.settings /\ flash'.prior = flash.prior
<1>1. /\ Shape /\ SlotsKept /\ FateKept /\ KeyKept /\ ChangeHeld /\ LeftKept
      /\ ChangeIsPrompt /\ FateTold
  BY DEF SettingsInv
<1>2. /\ unit.phase = "running" /\ ~image.confirmed
      /\ image' = [image EXCEPT !.confirmed = TRUE]
      /\ link' = [link EXCEPT !.state = "confirmed", !.record = NoRecord]
      /\ UNCHANGED <<settings, window, unit, waited, owed, left, fate>>
      /\ flash' = flash \/ flash' = [flash EXCEPT !.update = NoRecord]
  BY DEF Confirm, Running, Forgotten
<1>3. /\ flash' \in [settings : AnyBlob, prior : AnyBlob, update : AnyRecord]
      /\ flash'.settings = flash.settings /\ flash'.prior = flash.prior
      /\ flash'.update \in {NoRecord, flash.update}
      /\ link' \in [stored : AnyBlob, newer : BOOLEAN, record : AnyRecord, state : States]
      /\ link'.stored = link.stored /\ link'.newer = link.newer /\ link'.state = "confirmed"
      /\ image' \in [running : Images, staged : Slots, confirmed : BOOLEAN, swap : BOOLEAN]
      /\ image'.running = image.running /\ image'.staged = image.staged
      /\ image'.swap = image.swap /\ image'.confirmed
  BY <1>1, <1>2 DEF Shape, AnyRecord, States
<1>4. OnFlash' = OnFlash
  BY <1>3, OnFlashSame
<1>5. Shape' /\ SlotsKept' /\ ChangeHeld' /\ LeftKept' /\ ChangeIsPrompt'
  BY <1>1, <1>2, <1>3, <1>4 DEF Shape, SlotsKept, Installing, ChangeHeld, LeftKept, ChangeIsPrompt
<1>6. KeyKept'
  <2>1. flash'[SettingsKey(link.newer)] = flash[SettingsKey(link.newer)]
    BY <1>3 DEF SettingsKey
  <2> QED  BY <1>1, <1>2, <1>3, <2>1 DEF KeyKept
<1>7. FateKept' /\ FateTold'
  BY <1>1, <1>2, <1>3 DEF FateKept, FateTold, Gone
<1> QED  BY <1>3, <1>5, <1>6, <1>7 DEF SettingsInv

LEMMA UploadKeeps ==
  ASSUME SettingsInv, NEW i \in Slots, Upload(i)
  PROVE  SettingsInv' /\ image'.running = image.running /\ image'.swap = image.swap
<1>1. /\ Shape /\ SlotsKept /\ FateKept /\ KeyKept /\ ChangeHeld /\ LeftKept
      /\ ChangeIsPrompt /\ FateTold
  BY DEF SettingsInv
<1>2. /\ unit.phase = "running" /\ image.confirmed
      /\ image' = [image EXCEPT !.staged = i] /\ fate' = "unknown"
      /\ UNCHANGED <<settings, window, link, unit, flash, waited, owed, left>>
  BY DEF Upload, Running
<1>3. /\ image' \in [running : Images, staged : Slots, confirmed : BOOLEAN, swap : BOOLEAN]
      /\ image'.running = image.running /\ image'.confirmed = image.confirmed
      /\ image'.swap = image.swap
  BY <1>1, <1>2 DEF Shape
<1>4. OnFlash' = OnFlash
  BY <1>2, <1>3, OnFlashSame
<1>5. Shape' /\ SlotsKept' /\ FateKept' /\ FateTold' /\ LeftKept' /\ ChangeIsPrompt'
  BY <1>1, <1>2, <1>3 DEF Shape, SlotsKept, Installing, FateKept, FateTold, LeftKept,
                          ChangeIsPrompt, Fates
<1>6. KeyKept' /\ ChangeHeld'
  BY <1>1, <1>2, <1>3, <1>4 DEF KeyKept, ChangeHeld
<1> QED  BY <1>3, <1>5, <1>6 DEF SettingsInv

-----------------------------------------------------------------------------
(* The steps down.                                                         *)

\* A blob of its own layout under its own key is what an image loads.
LEMMA WroteLoads ==
  ASSUME Shape, KeyKept, unit.phase = "running", image' = image, NEW w, Wrote(w, TRUE)
  PROVE  Loaded(image.running)' = Held
<1>1. /\ flash'[SettingsKey(link.newer)] = Held
      /\ link.newer <=> flash'.settings.layout > image.running
  BY DEF Wrote, KeyKept
<1>2. PICK held : held = Held
  OBVIOUS
<1>3. held # NoBlob /\ held.layout = image.running /\ image.running \in Nat
  BY <1>2, HeldType DEF Shape, Images
<1>4. Adoptable(held, image.running)
  BY <1>3 DEF Adoptable
<1>5. CASE link.newer
  <2>1. flash'.prior = held /\ flash'.settings.layout > image.running
    BY <1>1, <1>2, <1>5 DEF SettingsKey
  <2> QED  BY <1>2, <1>4, <2>1 DEF Loaded, NewerLayout
<1>6. CASE ~link.newer
  <2>1. flash'.settings = held /\ ~(flash'.settings.layout > image.running)
    BY <1>1, <1>2, <1>6 DEF SettingsKey
  <2> QED  BY <1>2, <1>4, <2>1 DEF Loaded, NewerLayout
<1> QED  BY <1>5, <1>6

LEMMA ParkKeeps ==
  ASSUME SettingsInv, NEW install \in BOOLEAN, Park(install)
  PROVE  /\ SettingsInv' /\ image' = image
         /\ \/ link' = link /\ flash' = flash /\ owed' = owed
            \/ \E w \in Windows, ok \in BOOLEAN : Wrote(w, ok)
         /\ unit'.phase = "parking"
<1>1. /\ Shape /\ SlotsKept /\ FateKept /\ KeyKept /\ ChangeHeld /\ LeftKept
      /\ ChangeIsPrompt /\ FateTold
  BY DEF SettingsInv
<1>2. /\ unit.phase = "running" /\ UNCHANGED <<image, waited, fate>>
      /\ install => image.staged > image.running
      /\ unit' = [unit EXCEPT !.phase = "parking", !.install = install,
                              !.warned = unit.sagging]
  BY DEF Park, Running
<1>3. /\ unit' \in [phase : Phases, install : BOOLEAN, low : BOOLEAN, sagging : BOOLEAN,
                    warned : BOOLEAN]
      /\ unit'.phase = "parking" /\ unit'.install = install
  BY <1>1, <1>2 DEF Shape, Phases
<1>4. PICK t \in Windows : t = Flushed
  BY <1>1, TakenFacts DEF Flushed, Shape
<1>5. t.pending <=> window.pending \/ settings.dirty
  BY <1>1, <1>4, TakenFacts DEF Flushed, Shape
<1>6. /\ settings' \in [value : Values, dirty : BOOLEAN] /\ settings'.value = settings.value
      /\ left' \in Values \cup {Nothing} /\ window' \in Windows
      /\ \/ link' = link /\ flash' = flash /\ owed' = owed
         \/ \E w \in Windows, ok \in BOOLEAN : Wrote(w, ok)
      /\ left' # Nothing => left' = settings.value
      /\ left' # Nothing => Loaded(image.running).value' = settings.value
  <2>1. CASE left' = Nothing /\ UNCHANGED <<settings, window, link, flash, owed, spent>>
    BY <1>1, <2>1 DEF Shape
  <2>2. CASE /\ settings' = [settings EXCEPT !.dirty = FALSE]
             /\ \E ok \in BOOLEAN :
                  /\ \/ t.pending /\ WriteSettings(t, ok)
                     \/ /\ ~t.pending /\ ok
                        /\ UNCHANGED <<window, link, flash, owed, spent>>
                  /\ left' = IF ok THEN settings.value ELSE Nothing
    <3>1. PICK ok \in BOOLEAN :
            /\ \/ t.pending /\ WriteSettings(t, ok)
               \/ ~t.pending /\ ok /\ UNCHANGED <<window, link, flash, owed, spent>>
            /\ left' = IF ok THEN settings.value ELSE Nothing
      BY <2>2
    <3>2. settings' \in [value : Values, dirty : BOOLEAN] /\ settings'.value = settings.value
      BY <1>1, <2>2 DEF Shape
    <3>3. left' \in Values \cup {Nothing} /\ (left' # Nothing => ok /\ left' = settings.value)
      BY <1>1, <3>1 DEF Shape
    <3>4. CASE t.pending /\ WriteSettings(t, ok)
      <4>1. Wrote(t, ok)
        BY <1>1, <1>2, <3>4, WriteSettingsWrites
      <4>2. ok => Loaded(image.running)' = Held
        BY <1>1, <1>2, <4>1, WroteLoads
      <4>3. ok => Loaded(image.running).value' = settings.value
        BY <1>1, <4>2, HeldType
      <4> QED  BY <3>2, <3>3, <4>1, <4>3 DEF Wrote
    <3>5. CASE ~t.pending /\ ok /\ UNCHANGED <<window, link, flash, owed, spent>>
      <4>1. settings.value = OnFlash
        BY <1>1, <1>2, <1>5, <3>5 DEF ChangeHeld
      <4>2. OnFlash = Loaded(image.running).value
        BY <1>1, <1>2, OnFlashLoads
      <4>3. Loaded(image.running)' = Loaded(image.running)
        BY <1>2, <3>5 DEF Loaded, NewerLayout
      <4> QED  BY <1>1, <3>2, <3>3, <3>5, <4>1, <4>2, <4>3 DEF Shape
    <3> QED  BY <3>1, <3>4, <3>5
  <2> QED  BY <1>4, <2>1, <2>2 DEF Park
<1>7. /\ link' \in [stored : AnyBlob, newer : BOOLEAN, record : AnyRecord, state : States]
      /\ flash' \in [settings : AnyBlob, prior : AnyBlob, update : AnyRecord]
      /\ owed' \in [Images -> Values \cup {Nothing}]
      /\ flash'.update = flash.update
      /\ KeyKept'
  <2>1. CASE link' = link /\ flash' = flash /\ owed' = owed
    BY <1>1, <1>2, <2>1 DEF Shape, KeyKept
  <2>2. CASE \E w \in Windows, ok \in BOOLEAN : Wrote(w, ok)
    <3>1. PICK w \in Windows, ok \in BOOLEAN : Wrote(w, ok)
      BY <2>2
    <3>2. KeyKept'
      BY <1>1, <1>2, <3>1, WroteKeeps
    <3> QED  BY <3>1, <3>2 DEF Wrote
  <2> QED  BY <1>6, <2>1, <2>2
<1>8. Shape'
  BY <1>1, <1>2, <1>3, <1>6, <1>7 DEF Shape
<1>9. SlotsKept'
  <2>1. install => image.confirmed
    <3>1. image.running \in Nat /\ image.staged \in Nat
      BY <1>1, Bounds DEF Shape, Images
    <3> QED  BY <1>1, <1>2, <3>1 DEF SlotsKept
  <2> QED  BY <1>1, <1>2, <1>3, <2>1 DEF SlotsKept, Installing
<1>10. FateKept' /\ FateTold'
  BY <1>1, <1>2, <1>3, <1>7 DEF FateKept, FateTold, Gone
<1>11. ChangeHeld' /\ ChangeIsPrompt'
  BY <1>1, <1>2, <1>3 DEF ChangeHeld, ChangeIsPrompt
<1>12. LeftKept'
  BY <1>2, <1>3, <1>6 DEF LeftKept
<1> QED  BY <1>2, <1>3, <1>6, <1>7, <1>8, <1>9, <1>10, <1>11, <1>12 DEF SettingsInv

\* The rails drop, and flash is what there is.
LEMMA PowersOffKeeps ==
  ASSUME SettingsInv, PowersOff, unit.phase # "off",
         flash' = flash, owed' = owed, fate' = fate,
         left' = Nothing \/ (left' = left /\ unit.phase # "running"),
         NEW asked \in BOOLEAN, image' = [image EXCEPT !.swap = asked],
         asked => unit.phase = "asking"
  PROVE  SettingsInv' /\ image'.running = image.running /\ image'.swap = asked
<1>1. /\ Shape /\ SlotsKept /\ FateKept /\ KeyKept /\ ChangeHeld /\ LeftKept
      /\ ChangeIsPrompt /\ FateTold
  BY DEF SettingsInv
<1>2. /\ unit' = Off /\ settings' = Blank /\ link' = Unlinked /\ window' = Idle /\ waited' = 0
      /\ Off.phase = "off" /\ ~Off.install
  BY DEF PowersOff, Off
<1>3. /\ image' \in [running : Images, staged : Slots, confirmed : BOOLEAN, swap : BOOLEAN]
      /\ image'.running = image.running /\ image'.staged = image.staged
      /\ image'.confirmed = image.confirmed /\ image'.swap = asked
  BY <1>1 DEF Shape
<1>4. /\ Off \in [phase : Phases, install : BOOLEAN, low : BOOLEAN, sagging : BOOLEAN,
                  warned : BOOLEAN]
      /\ Blank \in [value : Values, dirty : BOOLEAN] /\ Idle \in Windows /\ ~Idle.pending
      /\ Unlinked \in [stored : AnyBlob, newer : BOOLEAN, record : AnyRecord, state : States]
  BY Bounds DEF Off, Phases, Blank, Idle, Windows, Unlinked, AnyBlob, AnyRecord, States
<1>5. left' \in Values \cup {Nothing}
  BY <1>1 DEF Shape
<1>6. Shape'
  BY <1>1, <1>2, <1>3, <1>4, <1>5 DEF Shape
<1>7. SlotsKept'
  BY <1>1, <1>2, <1>3 DEF SlotsKept, Installing
<1>8. FateKept' /\ FateTold'
  BY <1>1, <1>2, <1>3 DEF FateKept, FateTold, Gone
<1>9. KeyKept' /\ ChangeHeld' /\ ChangeIsPrompt'
  BY <1>2, <1>4, Bounds DEF KeyKept, ChangeHeld, ChangeIsPrompt
<1>10. LeftKept'
  <2>1. Loaded(image.running)' = Loaded(image.running)
    BY <1>3 DEF Loaded, NewerLayout
  <2> QED  BY <1>1, <1>2, <2>1 DEF LeftKept
<1> QED  BY <1>3, <1>6, <1>7, <1>8, <1>9, <1>10 DEF SettingsInv

LEMMA DownKeeps ==
  ASSUME SettingsInv, RailsOff \/ Trigger \/ Cut
  PROVE  /\ SettingsInv' /\ flash' = flash /\ owed' = owed
         /\ image'.running = image.running
         /\ image'.swap => unit.phase = "asking"
         /\ unit'.phase = "off"
<1>1. PICK asked \in BOOLEAN :
        /\ PowersOff /\ unit.phase # "off" /\ flash' = flash /\ owed' = owed /\ fate' = fate
        /\ left' = Nothing \/ (left' = left /\ unit.phase # "running")
        /\ image' = [image EXCEPT !.swap = asked] /\ (asked => unit.phase = "asking")
  <2>1. image \in [running : Images, staged : Slots, confirmed : BOOLEAN, swap : BOOLEAN]
        /\ (unit.phase # "off" => ~image.swap)
    BY DEF SettingsInv, Shape, SlotsKept
  <2>2. unit.phase # "off" => image = [image EXCEPT !.swap = FALSE]
    BY <2>1
  <2>3. CASE RailsOff \/ Cut
    BY <2>2, <2>3 DEF RailsOff, Cut
  <2>4. CASE Trigger
    BY <2>4 DEF Trigger
  <2> QED  BY <2>3, <2>4
<1>2. SettingsInv' /\ image'.running = image.running /\ image'.swap = asked
  BY <1>1, PowersOffKeeps
<1>3. unit'.phase = "off"
  BY <1>1 DEF PowersOff, Off
<1> QED  BY <1>1, <1>2, <1>3

LEMMA RecordUpdateKeeps ==
  ASSUME SettingsInv, RecordUpdate
  PROVE  /\ SettingsInv' /\ flash'.settings = flash.settings /\ flash'.prior = flash.prior
<1>1. /\ Shape /\ SlotsKept /\ FateKept /\ KeyKept /\ ChangeHeld /\ LeftKept
      /\ ChangeIsPrompt /\ FateTold
  BY DEF SettingsInv
<1>2a. PICK record : record = [from |-> image.running, to |-> image.staged]
  OBVIOUS
<1>2. PICK ok \in BOOLEAN :
        /\ flash' = IF ok THEN [flash EXCEPT !.update = record] ELSE flash
        /\ link' = IF ok THEN [link EXCEPT !.record = record] ELSE link
        /\ owed' = IF ok THEN owed ELSE [owed EXCEPT ![image.running] = Nothing]
        /\ fate' = IF ok THEN "recorded" ELSE "unknown"
        /\ unit' = [unit EXCEPT !.phase = IF ok THEN "recorded" ELSE "asking"]
  BY <1>2a DEF RecordUpdate
<1>3. /\ unit.phase = "parking" /\ unit.install
      /\ UNCHANGED <<settings, window, image, waited, left>>
      /\ image.staged > image.running /\ image.confirmed /\ ~image.swap
  BY <1>1 DEF RecordUpdate, SlotsKept, Installing
<1>4. record \in AnyRecord
  <2>1. image.running \in Images /\ image.staged \in Slots
    BY <1>1 DEF Shape
  <2>2. image.staged # NoImage
    BY <1>3, <2>1, Bounds DEF Images, NoImage
  <2> QED  BY <1>2a, <2>1, <2>2, Bounds DEF AnyRecord, Records
<1>5. /\ flash' \in [settings : AnyBlob, prior : AnyBlob, update : AnyRecord]
      /\ flash'.settings = flash.settings /\ flash'.prior = flash.prior
      /\ ok => flash'.update = record
      /\ link' \in [stored : AnyBlob, newer : BOOLEAN, record : AnyRecord, state : States]
      /\ link'.stored = link.stored /\ link'.newer = link.newer
      /\ owed' \in [Images -> Values \cup {Nothing}]
      /\ fate' = (IF ok THEN "recorded" ELSE "unknown")
  BY <1>1, <1>2, <1>4 DEF Shape
<1>6. /\ unit' \in [phase : Phases, install : BOOLEAN, low : BOOLEAN, sagging : BOOLEAN,
                    warned : BOOLEAN]
      /\ unit'.phase \in {"recorded", "asking"}
  BY <1>1, <1>2 DEF Shape, Phases
<1>7. Shape'
  BY <1>1, <1>3, <1>5, <1>6 DEF Shape, Fates
<1>8. SlotsKept' /\ ChangeHeld' /\ ChangeIsPrompt' /\ FateTold'
  BY <1>1, <1>3, <1>6 DEF SlotsKept, Installing, ChangeHeld, ChangeIsPrompt, FateTold
<1>9. FateKept'
  BY <1>2a, <1>3, <1>5, <1>6 DEF FateKept
<1>10. KeyKept'
  <2>1. flash'[SettingsKey(link.newer)] = flash[SettingsKey(link.newer)]
    BY <1>5 DEF SettingsKey
  <2> QED  BY <1>1, <1>3, <1>5, <1>6, <2>1 DEF KeyKept
<1>11. LeftKept'
  <2>1. Loaded(image.running)' = Loaded(image.running)
    BY <1>3, <1>5 DEF Loaded, NewerLayout
  <2> QED  BY <1>1, <1>3, <2>1 DEF LeftKept
<1> QED  BY <1>5, <1>7, <1>8, <1>9, <1>10, <1>11 DEF SettingsInv

LEMMA KeepSettingsKeeps ==
  ASSUME SettingsInv, KeepSettings
  PROVE  /\ SettingsInv' /\ flash'.settings = flash.settings
<1>1. /\ Shape /\ SlotsKept /\ FateKept /\ KeyKept /\ ChangeHeld /\ LeftKept
      /\ ChangeIsPrompt /\ FateTold
  BY DEF SettingsInv
<1>2. PICK ok \in BOOLEAN :
        /\ flash' = IF ok THEN [flash EXCEPT !.prior = Held] ELSE flash
        /\ link' = IF ok /\ link.newer THEN [link EXCEPT !.stored = Held] ELSE link
        /\ owed' = [owed EXCEPT ![image.running] =
                      IF ok /\ settings.value = OnFlash THEN settings.value ELSE Nothing]
  BY DEF KeepSettings
<1>3. /\ unit.phase = "recorded" /\ UNCHANGED <<settings, window, image, waited, left, fate>>
      /\ image.staged > image.running /\ image.confirmed /\ ~image.swap
      /\ unit' = [unit EXCEPT !.phase = "asking"]
  BY <1>1 DEF KeepSettings, SlotsKept, Installing
<1>4. PICK held \in AnyBlob :
        held = Held /\ held # NoBlob /\ held.value = settings.value /\ held.layout = image.running
  BY <1>1, HeldType
<1>5. /\ flash' \in [settings : AnyBlob, prior : AnyBlob, update : AnyRecord]
      /\ flash'.settings = flash.settings /\ flash'.update = flash.update
      /\ flash'.prior = IF ok THEN held ELSE flash.prior
      /\ link' \in [stored : AnyBlob, newer : BOOLEAN, record : AnyRecord, state : States]
      /\ link'.newer = link.newer
      /\ link'.stored = IF ok /\ link.newer THEN held ELSE link.stored
      /\ owed' \in [Images -> Values \cup {Nothing}]
  BY <1>1, <1>2, <1>4 DEF Shape
<1>6. /\ unit' \in [phase : Phases, install : BOOLEAN, low : BOOLEAN, sagging : BOOLEAN,
                    warned : BOOLEAN]
      /\ unit'.phase = "asking"
  BY <1>1, <1>3 DEF Shape, Phases
<1>7. Shape'
  BY <1>1, <1>3, <1>5, <1>6 DEF Shape
<1>8. SlotsKept' /\ ChangeHeld' /\ ChangeIsPrompt' /\ FateTold'
  BY <1>1, <1>3, <1>6 DEF SlotsKept, Installing, ChangeHeld, ChangeIsPrompt, FateTold
<1>9. FateKept'
  BY <1>1, <1>3, <1>5, <1>6 DEF FateKept, Gone
<1>10. KeyKept'
  BY <1>1, <1>3, <1>5, <1>6 DEF KeyKept, SettingsKey
<1>11. LeftKept'
  <2>1. SUFFICES ASSUME left # Nothing
                 PROVE  Loaded(image.running)'.value = left /\ settings.value = left
    BY <1>3, <1>6 DEF LeftKept
  <2>2. Loaded(image.running).value = left /\ settings.value = left
    BY <1>1, <1>3, <2>1 DEF LeftKept
  <2>3. Adoptable(held, image.running)
    BY <1>1, <1>4, Bounds DEF Adoptable, Shape, Images
  <2>4. Loaded(image.running)' = held \/ Loaded(image.running)' = Loaded(image.running)
    BY <1>3, <1>5, <2>3 DEF Loaded, NewerLayout
  <2> QED  BY <1>4, <2>2, <2>4
<1> QED  BY <1>5, <1>7, <1>8, <1>9, <1>10, <1>11 DEF SettingsInv

-----------------------------------------------------------------------------
(* The boot.                                                               *)

\* What the bootloader makes of the two slots.
LEMMA BootloaderFacts ==
  ASSUME Shape, SlotsKept, NEW trusted \in BOOLEAN, NEW up, up = Bootloader(trusted)
  PROVE  /\ up \in [running : Images, staged : Slots, confirmed : BOOLEAN, swap : BOOLEAN]
         /\ ~up.swap
         /\ ~up.confirmed => up.staged \in Images /\ up.staged < up.running
         /\ image.swap /\ trusted =>
              up.running = image.staged /\ up.staged = image.running /\ ~up.confirmed
         /\ image.swap /\ ~trusted =>
              up.running = image.running /\ up.staged = NoImage /\ up.confirmed
         /\ ~image.swap /\ ~image.confirmed =>
              up.running = image.staged /\ up.staged = image.running /\ up.confirmed
         /\ ~image.swap /\ image.confirmed => up = image
<1>1. image \in [running : Images, staged : Slots, confirmed : BOOLEAN, swap : BOOLEAN]
      /\ image.running \in Nat /\ image.staged \in Nat /\ NoImage \in Slots
  BY Bounds DEF Shape, Slots
<1>2. CASE image.swap /\ trusted
  <2>1. up = [running |-> image.staged, staged |-> image.running, confirmed |-> FALSE,
              swap |-> FALSE]
    BY <1>2 DEF Bootloader
  <2>2. image.staged > image.running /\ image.running > 0
    BY <1>1, <1>2, Bounds DEF SlotsKept, Images
  <2>3. image.staged \in Images /\ image.running \in Slots
    BY <1>1, <2>2, Bounds DEF Slots, NoImage
  <2>4. /\ up \in [running : Images, staged : Slots, confirmed : BOOLEAN, swap : BOOLEAN]
        /\ up.running = image.staged /\ up.staged = image.running /\ up.confirmed = FALSE
        /\ up.swap = FALSE
    BY <2>1, <2>3
  <2> QED  BY <1>1, <1>2, <2>2, <2>4
<1>3. CASE image.swap /\ ~trusted
  <2>1. up = [image EXCEPT !.staged = NoImage, !.swap = FALSE]
    BY <1>3 DEF Bootloader
  <2>2. image.confirmed
    BY <1>3 DEF SlotsKept
  <2> QED  BY <1>1, <1>3, <2>1, <2>2
<1>4. CASE ~image.swap /\ ~image.confirmed
  <2>1. up = [running |-> image.staged, staged |-> image.running, confirmed |-> TRUE,
              swap |-> FALSE]
    BY <1>4 DEF Bootloader
  <2>2. image.staged \in Images /\ image.running \in Slots
    BY <1>1, <1>4 DEF SlotsKept, Slots
  <2> QED  BY <1>1, <1>4, <2>1, <2>2
<1>5. CASE ~image.swap /\ image.confirmed
  <2>1. up = image
    BY <1>5 DEF Bootloader
  <2> QED  BY <1>1, <1>5, <2>1
<1> QED  BY <1>1, <1>2, <1>3, <1>4, <1>5

\* What the boot makes of the record is what became of the update: what was of
\* it, the record kept and the state said.
ToldAt(up, was, kept, said) ==
  /\ was \in Fates /\ was # "recorded" /\ said \in States
  /\ was = "ran" =>
       /\ up.staged < up.running /\ Gone(kept, up)
       /\ ~up.confirmed => kept = [from |-> up.staged, to |-> up.running]
  /\ was = "reverted" =>
       /\ kept = [from |-> up.running, to |-> up.staged]
       /\ up.staged \in Images /\ up.staged # up.running /\ up.confirmed
  /\ was = "refused" =>
       /\ kept.from = up.running /\ kept # NoRecord
       /\ kept.to \notin {up.running, up.staged} /\ up.confirmed
  /\ was = "landed" => Gone(kept, up) /\ up.confirmed
  /\ was \in {"reverted", "refused"} => said = was
  /\ was \in {"ran", "landed"} => said \in {"probation", "confirmed"}

LEMMA BootFate ==
  ASSUME Shape, SlotsKept, FateKept,
         NEW trusted \in BOOLEAN, NEW up, up = Bootloader(trusted),
         NEW was, was = BecameOf(trusted),
         NEW forgets, forgets = ForgetsAtBoot(flash.update, up),
         NEW kept, kept = flash.update \/ (forgets /\ kept = NoRecord),
         NEW said, said = ImageState(flash.update, up)
  PROVE  ToldAt(up, was, kept, said)
<1> USE DEF ToldAt
<1>1. /\ image \in [running : Images, staged : Slots, confirmed : BOOLEAN, swap : BOOLEAN]
      /\ image.running \in Nat /\ image.running > 0 /\ image.staged \in Nat /\ NoImage = 0
      /\ flash.update \in AnyRecord /\ fate \in Fates
      /\ image.running \in Images /\ image.swap \in BOOLEAN /\ image.confirmed \in BOOLEAN
  BY Bounds DEF Shape, Slots
<1>2. /\ ~up.swap
      /\ image.swap /\ trusted =>
           up.running = image.staged /\ up.staged = image.running /\ ~up.confirmed
      /\ image.swap /\ ~trusted =>
           up.running = image.running /\ up.staged = NoImage /\ up.confirmed
      /\ ~image.swap /\ ~image.confirmed =>
           up.running = image.staged /\ up.staged = image.running /\ up.confirmed
      /\ ~image.swap /\ image.confirmed => up = image
  BY BootloaderFacts
<1>3. /\ said \in States
      /\ ~up.confirmed => said = "probation"
      /\ said \in {"probation", "confirmed", "reverted", "refused"}
  BY DEF ImageState, Outcome, States
<1>4. CASE fate = "recorded" /\ image.swap /\ trusted
  <2>1. /\ was = "ran" /\ image.staged > image.running
        /\ flash.update = [from |-> image.running, to |-> image.staged]
    BY <1>4 DEF BecameOf, FateKept, SlotsKept
  <2>2. /\ up.running = image.staged /\ up.staged = image.running /\ ~up.confirmed
    BY <1>2, <1>4
  <2>3. Outcome(flash.update, up) = "landed"
    BY <2>1, <2>2 DEF Outcome
  <2>4. kept = flash.update /\ said = "probation"
    BY <1>3, <2>2, <2>3 DEF ForgetsAtBoot
  <2> QED  BY <1>1, <1>3, <2>1, <2>2, <2>4 DEF Fates, Gone
<1>5. CASE fate = "recorded" /\ image.swap /\ ~trusted
  <2>1. /\ was = "refused" /\ image.staged > image.running
        /\ flash.update = [from |-> image.running, to |-> image.staged]
    BY <1>5 DEF BecameOf, FateKept, SlotsKept
  <2>2. /\ up.running = image.running /\ up.staged = NoImage /\ up.confirmed
    BY <1>2, <1>5
  <2>3. flash.update.to = image.staged /\ flash.update.from = image.running /\ flash.update # NoRecord
    BY <1>1, <2>1 DEF NoRecord
  <2>4. Outcome(flash.update, up) = "refused"
    BY <1>1, <2>1, <2>2, <2>3 DEF Outcome
  <2>5. kept = flash.update /\ said = "refused"
    BY <2>2, <2>3, <2>4 DEF ForgetsAtBoot, ImageState
  <2> QED  BY <1>1, <1>3, <2>1, <2>2, <2>3, <2>5 DEF Fates
<1>6. CASE fate = "recorded" /\ ~image.swap
  <2>1. was = "unknown"
    BY <1>6 DEF BecameOf
  <2> QED  BY <1>3, <2>1 DEF Fates
<1>7. CASE fate = "ran" /\ ~image.confirmed
  <2>1. /\ was = "reverted" /\ ~image.swap /\ image.staged \in Images
        /\ image.staged < image.running
        /\ flash.update = [from |-> image.staged, to |-> image.running]
    BY <1>7 DEF BecameOf, FateKept, SlotsKept
  <2>2. /\ up.running = image.staged /\ up.staged = image.running /\ up.confirmed
    BY <1>2, <1>7, <2>1
  <2>3. flash.update.to = up.staged /\ flash.update.from = up.running /\ flash.update # NoRecord
    BY <1>1, <2>1, <2>2 DEF NoRecord
  <2>4. Outcome(flash.update, up) = "reverted"
    BY <1>1, <2>1, <2>2, <2>3 DEF Outcome
  <2>5. kept = flash.update /\ said = "reverted"
    BY <2>2, <2>3, <2>4 DEF ForgetsAtBoot, ImageState
  <2> QED  BY <1>1, <1>3, <2>1, <2>2, <2>5 DEF Fates
<1>8. CASE fate \in {"ran", "landed"} /\ image.confirmed
  <2>1. ~image.swap /\ Gone(flash.update, image)
    BY <1>8 DEF FateKept
  <2>2. was = "landed" /\ up = image
    BY <1>2, <1>8, <2>1 DEF BecameOf
  <2>3. flash.update # NoRecord => Outcome(flash.update, up) = "landed"
    BY <2>1, <2>2 DEF Gone, Outcome
  <2>4. said = "confirmed" /\ Gone(kept, up)
    BY <1>8, <2>1, <2>2, <2>3 DEF ImageState, Gone
  <2> QED  BY <1>3, <1>8, <2>2, <2>4 DEF Fates
<1>9. CASE fate = "reverted"
  <2>1. /\ ~image.swap /\ image.confirmed /\ was = "reverted"
        /\ flash.update = [from |-> image.running, to |-> image.staged]
        /\ image.staged \in Images /\ image.staged # image.running
    BY <1>9 DEF FateKept, BecameOf
  <2>2. up = image
    BY <1>2, <2>1
  <2>3. flash.update.to = up.staged /\ flash.update.from = up.running /\ flash.update # NoRecord
    BY <1>1, <2>1, <2>2 DEF NoRecord
  <2>4. Outcome(flash.update, up) = "reverted"
    BY <1>1, <2>1, <2>2, <2>3 DEF Outcome
  <2>5. kept = flash.update /\ said = "reverted"
    BY <2>1, <2>2, <2>3, <2>4 DEF ForgetsAtBoot, ImageState
  <2> QED  BY <1>1, <1>3, <2>1, <2>2, <2>5 DEF Fates
<1>10. CASE fate = "refused"
  <2>1. /\ ~image.swap /\ image.confirmed /\ was = "refused"
        /\ flash.update.from = image.running /\ flash.update # NoRecord
        /\ flash.update.to \notin {image.running, image.staged}
    BY <1>10 DEF FateKept, BecameOf
  <2>2. up = image
    BY <1>2, <2>1
  <2>3. Outcome(flash.update, up) = "refused"
    BY <1>1, <2>1, <2>2 DEF Outcome
  <2>4. kept = flash.update /\ said = "refused"
    BY <2>1, <2>2, <2>3 DEF ForgetsAtBoot, ImageState
  <2> QED  BY <1>1, <1>3, <2>1, <2>2, <2>4 DEF Fates
<1>11. CASE fate = "unknown"
  <2>1. was = "unknown"
    BY <1>11 DEF BecameOf
  <2> QED  BY <1>3, <2>1 DEF Fates
<1>12. fate = "landed" => image.confirmed
  BY DEF FateKept
<1> QED  BY <1>1, <1>4, <1>5, <1>6, <1>7, <1>8, <1>9, <1>10, <1>11, <1>12 DEF Fates

\* A boot, as the slots, the record and the settings live it.
Booting(trusted, up, forgets) ==
  /\ unit.phase = "off" /\ (trusted \/ image.swap)
  /\ up = Bootloader(trusted) /\ forgets = ForgetsAtBoot(flash.update, up)
  /\ image' = up /\ fate' = BecameOf(trusted)
  /\ settings' = [Blank EXCEPT !.value = Loaded(up.running).value]
  /\ link' = [stored |-> Loaded(up.running), newer |-> NewerLayout(up.running),
              record |-> IF forgets THEN NoRecord ELSE flash.update,
              state |-> ImageState(flash.update, up)]
  /\ flash' = flash \/ (forgets /\ flash' = [flash EXCEPT !.update = NoRecord])
  /\ \E low \in BOOLEAN : unit' = [Off EXCEPT !.phase = "running", !.low = low]
  /\ UNCHANGED <<window, waited, owed, left>>

LEMMA BootIs ==
  ASSUME Shape, Boot
  PROVE  \E trusted \in BOOLEAN : \E up, forgets : Booting(trusted, up, forgets)
<1>1. image.swap \in BOOLEAN
  BY DEF Shape
<1>2. PICK trusted \in {TRUE, ~image.swap} :
        \E up \in {Bootloader(trusted)} :
          LET forgets == ForgetsAtBoot(flash.update, up)
          IN /\ image' = up
             /\ fate' = BecameOf(trusted)
             /\ settings' = [Blank EXCEPT !.value = Loaded(up.running).value]
             /\ link' = [stored |-> Loaded(up.running),
                         newer |-> NewerLayout(up.running),
                         record |-> IF forgets THEN NoRecord ELSE flash.update,
                         state |-> ImageState(flash.update, up)]
             /\ \E erased \in {TRUE, ~forgets} :
                  /\ Answers(erased)
                  /\ flash' = IF forgets THEN Forgotten(flash, erased) ELSE flash
                  /\ spent' = Charged([spent EXCEPT !.boots = @ + 1], erased)
  BY DEF Boot
<1>3. trusted \in BOOLEAN /\ (trusted \/ image.swap)
  BY <1>1, <1>2
<1>4. PICK up, forgets : up = Bootloader(trusted) /\ forgets = ForgetsAtBoot(flash.update, up)
  OBVIOUS
<1>5. /\ image' = up /\ fate' = BecameOf(trusted)
      /\ settings' = [Blank EXCEPT !.value = Loaded(up.running).value]
      /\ link' = [stored |-> Loaded(up.running), newer |-> NewerLayout(up.running),
                  record |-> IF forgets THEN NoRecord ELSE flash.update,
                  state |-> ImageState(flash.update, up)]
      /\ \E erased : flash' = IF forgets THEN Forgotten(flash, erased) ELSE flash
  BY <1>2, <1>4
<1>6. flash' = flash \/ (forgets /\ flash' = [flash EXCEPT !.update = NoRecord])
  BY <1>5 DEF Forgotten
<1>7. /\ unit.phase = "off" /\ UNCHANGED <<window, waited, owed, left>>
      /\ \E low \in BOOLEAN : unit' = [Off EXCEPT !.phase = "running", !.low = low]
  BY DEF Boot
<1>8. Booting(trusted, up, forgets)
  BY <1>3, <1>4, <1>5, <1>6, <1>7 DEF Booting
<1> QED  BY <1>3, <1>8

\* The image that boots loads what its key holds, and says of the record what
\* became of it.
LEMMA BootKeeps ==
  ASSUME SettingsInv, Boot
  PROVE  /\ SettingsInv' /\ image'.running \in Images
         /\ settings'.value = Loaded(image'.running).value
         /\ flash'.settings = flash.settings /\ flash'.prior = flash.prior /\ owed' = owed
         /\ ~image'.swap /\ unit'.phase = "running"
         /\ image'.running # image.running => image.swap \/ ~image.confirmed
         /\ image.swap /\ image'.running # image.running => image'.running = image.staged
         /\ ~image.swap /\ ~image.confirmed => image'.running = image.staged
         /\ ~image.swap /\ image.confirmed => image'.running = image.running
<1>1. /\ Shape /\ SlotsKept /\ FateKept /\ KeyKept /\ ChangeHeld /\ LeftKept
      /\ ChangeIsPrompt /\ FateTold
  BY DEF SettingsInv
<1>2a. PICK trusted \in BOOLEAN : \E up, forgets : Booting(trusted, up, forgets)
  BY <1>1, BootIs
<1>2. PICK up, forgets : Booting(trusted, up, forgets)
  BY <1>2a
<1>3. /\ unit.phase = "off" /\ (trusted \/ image.swap)
      /\ up = Bootloader(trusted) /\ forgets = ForgetsAtBoot(flash.update, up)
      /\ image' = up /\ fate' = BecameOf(trusted)
      /\ settings' = [Blank EXCEPT !.value = Loaded(up.running).value]
      /\ link' = [stored |-> Loaded(up.running), newer |-> NewerLayout(up.running),
                  record |-> IF forgets THEN NoRecord ELSE flash.update,
                  state |-> ImageState(flash.update, up)]
      /\ flash' = flash \/ (forgets /\ flash' = [flash EXCEPT !.update = NoRecord])
      /\ \E low \in BOOLEAN : unit' = [Off EXCEPT !.phase = "running", !.low = low]
      /\ UNCHANGED <<window, waited, owed, left>>
  BY <1>2 DEF Booting
<1>4. /\ up \in [running : Images, staged : Slots, confirmed : BOOLEAN, swap : BOOLEAN]
      /\ ~up.swap
      /\ ~up.confirmed => up.staged \in Images /\ up.staged < up.running
      /\ image.swap /\ trusted => up.running = image.staged
      /\ image.swap /\ ~trusted => up.running = image.running
      /\ ~image.swap /\ ~image.confirmed => up.running = image.staged
      /\ ~image.swap /\ image.confirmed => up = image
  BY <1>1, <1>3, BootloaderFacts
<1>5. PICK was, said :
        was = BecameOf(trusted) /\ said = ImageState(flash.update, up)
  OBVIOUS
<1>6. /\ flash' \in [settings : AnyBlob, prior : AnyBlob, update : AnyRecord]
      /\ flash'.settings = flash.settings /\ flash'.prior = flash.prior
      /\ flash'.update = flash.update \/ (forgets /\ flash'.update = NoRecord)
  BY <1>1, <1>3 DEF Shape, AnyRecord
<1>7. PICK kept : kept = flash'.update
  OBVIOUS
<1>8. ToldAt(up, was, kept, said)
  <2>1. kept = flash.update \/ (forgets /\ kept = NoRecord)
    BY <1>6, <1>7
  <2> QED  BY <1>1, <1>3, <1>5, <2>1, BootFate
<1>8a. said \in States /\ was \in Fates
  BY <1>8 DEF ToldAt
<1>9. PICK blob : blob = Loaded(up.running)
  OBVIOUS
<1>10. /\ blob \in AnyBlob /\ blob.value \in Values
       /\ blob # NoBlob => blob = flash[SettingsKey(NewerLayout(up.running))]
  BY <1>1, <1>4, <1>9, LoadedFacts
<1>11. /\ link' \in [stored : AnyBlob, newer : BOOLEAN, record : AnyRecord, state : States]
       /\ link'.stored = blob /\ link'.newer = NewerLayout(up.running) /\ link'.state = said
  <2>1. PICK record : record = IF forgets THEN NoRecord ELSE flash.update
    OBVIOUS
  <2>2. record \in AnyRecord
    BY <1>1, <2>1 DEF Shape, AnyRecord
  <2>3. PICK newer \in BOOLEAN : newer = NewerLayout(up.running)
    <3>1. NewerLayout(up.running) \in BOOLEAN
      BY DEF NewerLayout
    <3> QED  BY <3>1
  <2>4. link' = [stored |-> blob, newer |-> newer, record |-> record, state |-> said]
    BY <1>3, <1>5, <1>9, <2>1, <2>3
  <2> QED  BY <1>8a, <1>10, <2>2, <2>3, <2>4
<1>12. /\ settings' \in [value : Values, dirty : BOOLEAN]
       /\ settings'.value = blob.value /\ ~settings'.dirty
  <2>1. settings' = [value |-> blob.value, dirty |-> FALSE]
    BY <1>3, <1>9 DEF Blank
  <2> QED  BY <1>10, <2>1
<1>13. unit' \in [phase : Phases, install : BOOLEAN, low : BOOLEAN, sagging : BOOLEAN,
                  warned : BOOLEAN]
       /\ unit'.phase = "running"
  BY <1>3 DEF Off, Phases
<1>14. Shape'
  BY <1>1, <1>3, <1>4, <1>5, <1>6, <1>8a, <1>11, <1>12, <1>13 DEF Shape
<1>15. SlotsKept'
  BY <1>3, <1>4, <1>13 DEF SlotsKept, Installing
<1>16. FateKept' /\ FateTold'
  BY <1>3, <1>4, <1>5, <1>7, <1>8, <1>11, <1>13 DEF FateKept, FateTold, Gone, ToldAt
<1>17. KeyKept'
  <2>1. link'.newer <=> flash'.settings.layout > image'.running
    BY <1>3, <1>6, <1>11, Zenon DEF NewerLayout
  <2>2. blob # NoBlob => flash'[SettingsKey(link'.newer)] = blob
    BY <1>6, <1>10, <1>11 DEF SettingsKey
  <2> QED  BY <1>11, <2>1, <2>2 DEF KeyKept
<1>18. OnFlash' = blob.value
  <2>1. PICK newer \in BOOLEAN : newer = NewerLayout(up.running)
    <3>1. NewerLayout(up.running) \in BOOLEAN
      BY DEF NewerLayout
    <3> QED  BY <3>1
  <2>2. blob.value = LET b == flash[SettingsKey(newer)]
                     IN IF Adoptable(b, up.running) THEN b.value ELSE Default
    BY <1>1, <1>4, <1>9, <2>1, LoadedFacts
  <2>3. flash'[SettingsKey(newer)] = flash[SettingsKey(newer)]
    BY <1>6 DEF SettingsKey
  <2>4. link'.newer = newer /\ image'.running = up.running
    BY <1>3, <1>11, <2>1
  <2> QED  BY <2>2, <2>3, <2>4 DEF OnFlash
<1>19. ChangeHeld' /\ ChangeIsPrompt'
  <2>1. waited' = 0 /\ unit'.phase = "running" /\ settings'.value = OnFlash'
    BY <1>1, <1>3, <1>12, <1>13, <1>18 DEF ChangeHeld
  <2>2. 0 <= CeilingPasses /\ ~(0 > 0)
    BY Bounds
  <2> QED  BY <2>1, <2>2 DEF ChangeHeld, ChangeIsPrompt
<1>20. LeftKept'
  BY <1>13 DEF LeftKept
<1>21. SettingsInv'
  BY <1>14, <1>15, <1>16, <1>17, <1>19, <1>20 DEF SettingsInv
<1> QED  BY <1>3, <1>4, <1>6, <1>9, <1>12, <1>13, <1>21

LEMMA InitHolds == Init => SettingsInv /\ OwedKept
<1> SUFFICES ASSUME Init PROVE SettingsInv /\ OwedKept
  OBVIOUS
<1>1. /\ settings = Blank /\ window = Idle /\ link = Unlinked
      /\ unit = [Off EXCEPT !.phase = "running"]
      /\ image = [running |-> 1, staged |-> NoImage, confirmed |-> TRUE, swap |-> FALSE]
      /\ flash = [settings |-> NoBlob, prior |-> NoBlob, update |-> NoRecord]
      /\ waited = 0 /\ owed = [i \in Images |-> Nothing] /\ left = Nothing /\ fate = "unknown"
  BY DEF Init
<1>2. /\ Blank \in [value : Values, dirty : BOOLEAN] /\ Idle \in Windows /\ ~Idle.pending
      /\ Unlinked \in [stored : AnyBlob, newer : BOOLEAN, record : AnyRecord, state : States]
      /\ Unlinked.stored = NoBlob /\ Unlinked.newer = FALSE /\ NoBlob.layout = 0
      /\ NoBlob.value = Default /\ Blank.value = Default
  BY Bounds DEF Blank, Idle, Windows, Unlinked, AnyBlob, AnyRecord, States, NoBlob, NoImage
<1>3. /\ unit \in [phase : Phases, install : BOOLEAN, low : BOOLEAN, sagging : BOOLEAN,
                   warned : BOOLEAN]
      /\ unit.phase = "running"
  BY <1>1 DEF Off, Phases
<1>4. /\ image \in [running : Images, staged : Slots, confirmed : BOOLEAN, swap : BOOLEAN]
      /\ flash \in [settings : AnyBlob, prior : AnyBlob, update : AnyRecord]
      /\ owed \in [Images -> Values \cup {Nothing}]
  BY <1>1, Bounds DEF Slots, AnyBlob, AnyRecord
<1>5. Shape
  BY <1>1, <1>2, <1>3, <1>4 DEF Shape, Fates
<1>6. SlotsKept /\ FateKept /\ LeftKept /\ FateTold
  BY <1>1, <1>3 DEF SlotsKept, Installing, FateKept, LeftKept, FateTold
<1>7. KeyKept
  BY <1>1, <1>2, Bounds DEF KeyKept
<1>8. OnFlash = Default
  BY <1>1, <1>2 DEF OnFlash, Adoptable, SettingsKey
<1>9. ChangeHeld /\ ChangeIsPrompt
  <2>1. settings.value = Default
    BY <1>1, <1>2
  <2>2. 0 <= CeilingPasses /\ ~(0 > 0)
    BY Bounds
  <2> QED  BY <1>1, <1>3, <1>8, <2>1, <2>2 DEF ChangeHeld, ChangeIsPrompt
<1>10. OwedKept
  BY <1>1, <1>2, Bounds DEF OwedKept
<1> QED  BY <1>5, <1>6, <1>7, <1>9, <1>10 DEF SettingsInv

LEMMA StepKeeps ==
  ASSUME SettingsInv, [Next]_settingsVars
  PROVE  SettingsInv'
<1>1. CASE Change \/ CellMoves \/ Sags
  BY <1>1, WorldKeeps
<1>2. CASE Pass
  BY <1>2, PassKeeps
<1>3. CASE Confirm
  BY <1>3, ConfirmKeeps
<1>4. CASE \E i \in Images \cup {NoImage} : Upload(i)
  BY <1>4, UploadKeeps DEF Slots
<1>5. CASE \E install \in BOOLEAN : Park(install)
  BY <1>5, ParkKeeps
<1>6. CASE RailsOff \/ Trigger \/ Cut
  BY <1>6, DownKeeps
<1>7. CASE RecordUpdate
  BY <1>7, RecordUpdateKeeps
<1>8. CASE KeepSettings
  BY <1>8, KeepSettingsKeeps
<1>9. CASE Boot
  BY <1>9, BootKeeps
<1>10. CASE UNCHANGED settingsVars
  <2>1. /\ UNCHANGED <<settings, window, link, unit, image, flash, waited, owed, left, fate>>
    BY <1>10 DEF settingsVars
  <2>2. OnFlash' = OnFlash /\ \A i : Loaded(i)' = Loaded(i)
    BY <2>1, LoadsSame, OnFlashSame
  <2>3. Shape' /\ SlotsKept' /\ FateKept' /\ KeyKept'
    BY <2>1 DEF SettingsInv, Shape, SlotsKept, Installing, FateKept, Gone, KeyKept
  <2>4. ChangeHeld' /\ LeftKept' /\ ChangeIsPrompt' /\ FateTold'
    BY <2>1, <2>2 DEF SettingsInv, ChangeHeld, LeftKept, ChangeIsPrompt, FateTold
  <2> QED  BY <2>3, <2>4 DEF SettingsInv
<1> QED  BY <1>1, <1>2, <1>3, <1>4, <1>5, <1>6, <1>7, <1>8, <1>9, <1>10 DEF Next

\* A unit comes up by a boot and by nothing else.
LEMMA OnlyBoots ==
  ASSUME SettingsInv, [Next]_settingsVars, unit.phase = "off", unit'.phase = "running"
  PROVE  Boot
<1>1. ~(Change \/ CellMoves \/ Sags \/ Pass \/ Confirm)
  BY DEF Change, CellMoves, Sags, Pass, Confirm, Running, SettingsInv, Shape
<1>2. ~(\E i \in Images \cup {NoImage} : Upload(i)) /\ ~(\E install \in BOOLEAN : Park(install))
  BY DEF Upload, Park, Running
<1>3. ~(RailsOff \/ RecordUpdate \/ KeepSettings \/ Trigger \/ Cut)
  BY DEF RailsOff, RecordUpdate, KeepSettings, Trigger, Cut
<1>4. unit' # unit
  OBVIOUS
<1> QED  BY <1>1, <1>2, <1>3, <1>4 DEF Next, settingsVars

-----------------------------------------------------------------------------
(* Between the two images of an update.                                    *)

LEMMA TwoImages ==
  ASSUME Shape, MaxImage <= 2
  PROVE  /\ \A i \in Images : i = 1 \/ i = 2
         /\ image.running \in {1, 2} /\ image.running \in Images
         /\ image.running = 2 => 2 \in Images
         /\ flash.settings.layout \in {0, 1, 2} /\ flash.prior.layout \in {0, 1, 2}
         /\ image.staged \in {0, 1, 2}
<1>1. \A i \in Images : i = 1 \/ i = 2
  BY SettingsAssumption DEF SettingsAssumption, Images
<1>2. \A i \in Slots : i \in {0, 1, 2}
  BY <1>1 DEF Slots, NoImage
<1>3. image.running \in Images /\ image.staged \in Slots /\ flash.settings \in AnyBlob
      /\ flash.prior \in AnyBlob
  BY DEF Shape
<1> QED  BY <1>1, <1>2, <1>3, BlobFacts

\* A write moves what its image has to come back to, and no other's.
LEMMA WroteOwes ==
  ASSUME SettingsInv, OwedKept, MaxImage <= 2, unit.phase = "running",
         NEW w, NEW ok \in BOOLEAN, Wrote(w, ok),
         image'.running = image.running, ~image'.swap, unit'.phase # "asking"
  PROVE  OwedKept'
<1>1. /\ Shape /\ KeyKept /\ ~image.swap
  BY DEF SettingsInv, SlotsKept
<1>2. PICK held : held = Held
  OBVIOUS
<1>3. held # NoBlob /\ held.value = settings.value /\ held.layout = image.running
  BY <1>1, <1>2, HeldType
<1>4. CASE ~ok
  BY <1>1, <1>4 DEF Wrote, OwedKept, Snapped
<1>5. CASE ok
  <2>1. /\ flash'[SettingsKey(link.newer)] = held
        /\ owed' = [owed EXCEPT ![image.running] = settings.value]
        /\ link.newer => flash'.settings = flash.settings
        /\ ~link.newer => flash'.prior = flash.prior
        /\ link.newer <=> flash.settings.layout > image.running
        /\ owed \in [Images -> Values \cup {Nothing}]
    BY <1>1, <1>2, <1>5 DEF Wrote, KeyKept, Shape
  <2>2. CASE image.running = 1 /\ link.newer
    <3>1. flash'.prior = held /\ flash'.settings = flash.settings
      BY <2>1, <2>2 DEF SettingsKey
    <3>2. flash.settings.layout = 2
      BY <1>1, <2>1, <2>2, TwoImages
    <3>3. owed'[1] = settings.value /\ (2 \in Images => owed'[2] = owed[2])
      BY <1>1, <2>1, <2>2, Bounds
    <3> QED  BY <1>3, <2>2, <3>1, <3>2, <3>3 DEF OwedKept
  <2>3. CASE image.running = 1 /\ ~link.newer
    <3>1. flash'.settings = held /\ flash'.prior = flash.prior
      BY <2>1, <2>3 DEF SettingsKey
    <3>2. flash.settings.layout # 2
      BY <1>1, <2>1, <2>3, TwoImages
    <3>3. owed'[1] = settings.value /\ (2 \in Images => owed'[2] = owed[2])
      BY <1>1, <2>1, <2>3, Bounds
    <3>4. ~Snapped'
      BY <1>3, <2>3, <3>1 DEF Snapped
    <3> QED  BY <1>3, <2>3, <3>1, <3>2, <3>3, <3>4 DEF OwedKept
  <2>4. CASE image.running = 2
    <3>1. ~link.newer
      BY <1>1, <2>1, <2>4, TwoImages
    <3>2. flash'.settings = held /\ flash'.prior = flash.prior
      BY <2>1, <3>1 DEF SettingsKey
    <3>3. owed'[2] = settings.value /\ owed'[1] = owed[1]
      BY <1>1, <2>1, <2>4, Bounds, TwoImages
    <3>4. Snapped
      BY <2>4 DEF Snapped
    <3> QED  BY <1>3, <2>4, <3>2, <3>3, <3>4 DEF OwedKept
  <2> QED  BY <1>1, <2>2, <2>3, <2>4, TwoImages
<1> QED  BY <1>4, <1>5

\* A step that leaves the blobs and what is owed leaves the promise, unless it
\* opens the way to the newer image.
LEMMA StillOwes ==
  ASSUME OwedKept, flash'.settings = flash.settings, flash'.prior = flash.prior,
         owed' = owed, Snapped' => Snapped
  PROVE  OwedKept'
BY DEF OwedKept

LEMMA OwedKeeps ==
  ASSUME SettingsInv, OwedKept, MaxImage <= 2, [Next]_settingsVars
  PROVE  OwedKept'
<1>1. Shape /\ SlotsKept /\ KeyKept
  BY DEF SettingsInv
<1>2. CASE Change \/ CellMoves \/ Sags \/ UNCHANGED settingsVars
  <2>1. unit'.phase = unit.phase /\ UNCHANGED <<image, flash, owed>>
    BY <1>1, <1>2 DEF Change, CellMoves, Sags, settingsVars, Shape
  <2> QED  BY <2>1, StillOwes DEF Snapped
<1>3. CASE Pass
  <2>1. /\ \/ link' = link /\ flash' = flash /\ owed' = owed
           \/ \E w \in Windows, ok \in BOOLEAN : Wrote(w, ok)
        /\ unit'.phase = "running" /\ unit.phase = "running" /\ image' = image
    BY <1>3, PassChange
  <2>2. ~image.swap
    BY <1>1, <2>1 DEF SlotsKept
  <2>3. CASE flash' = flash /\ owed' = owed
    BY <2>1, <2>3, StillOwes DEF Snapped
  <2>4. CASE \E w \in Windows, ok \in BOOLEAN : Wrote(w, ok)
    BY <2>1, <2>2, <2>4, WroteOwes
  <2> QED  BY <2>1, <2>3, <2>4
<1>4. CASE \E install \in BOOLEAN : Park(install)
  <2>1. /\ \/ link' = link /\ flash' = flash /\ owed' = owed
           \/ \E w \in Windows, ok \in BOOLEAN : Wrote(w, ok)
        /\ unit'.phase = "parking" /\ image' = image
    BY <1>4, ParkKeeps
  <2>2. unit.phase = "running" /\ ~image.swap
    BY <1>1, <1>4 DEF SlotsKept, Park, Running
  <2>3. CASE flash' = flash /\ owed' = owed
    BY <2>1, <2>3, StillOwes DEF Snapped
  <2>4. CASE \E w \in Windows, ok \in BOOLEAN : Wrote(w, ok)
    BY <2>1, <2>2, <2>4, WroteOwes
  <2> QED  BY <2>1, <2>3, <2>4
<1>5. CASE Confirm
  <2>1. /\ image'.running = image.running /\ image'.swap = image.swap
        /\ flash'.settings = flash.settings /\ flash'.prior = flash.prior
    BY <1>5, ConfirmKeeps
  <2>2. owed' = owed /\ unit' = unit
    BY <1>5 DEF Confirm
  <2> QED  BY <2>1, <2>2, StillOwes DEF Snapped
<1>6. CASE \E i \in Images \cup {NoImage} : Upload(i)
  <2>1. image'.running = image.running /\ image'.swap = image.swap
    BY <1>6, UploadKeeps DEF Slots
  <2>2. owed' = owed /\ unit' = unit /\ flash' = flash
    BY <1>6 DEF Upload
  <2> QED  BY <2>1, <2>2, StillOwes DEF Snapped
<1>7. CASE RailsOff \/ Trigger \/ Cut
  <2>1. /\ flash' = flash /\ owed' = owed /\ image'.running = image.running
        /\ image'.swap => unit.phase = "asking"
        /\ unit'.phase = "off"
    BY <1>7, DownKeeps
  <2> QED  BY <2>1, StillOwes DEF Snapped
<1>8. CASE RecordUpdate \/ KeepSettings
  <2>1. /\ Installing /\ image' = image /\ image.staged > image.running /\ ~image.swap
        /\ unit.phase # "off" /\ unit.phase # "asking"
    BY <1>1, <1>8 DEF RecordUpdate, KeepSettings, Installing, SlotsKept
  <2>2. image.running = 1 /\ 1 \in Images /\ owed \in [Images -> Values \cup {Nothing}]
    BY <1>1, <2>1, Bounds, TwoImages DEF Shape
  <2>3. flash'.settings = flash.settings
    BY <1>8, RecordUpdateKeeps, KeepSettingsKeeps
  <2>4. CASE RecordUpdate
    <3>1. flash'.prior = flash.prior
      BY <2>4, RecordUpdateKeeps
    <3>2. CASE owed' = owed /\ unit'.phase = "recorded"
      BY <2>1, <2>3, <3>1, <3>2, StillOwes DEF Snapped
    <3>3. CASE owed' = [owed EXCEPT ![image.running] = Nothing]
      <4>1. owed'[1] = Nothing /\ (2 \in Images => owed'[2] = owed[2])
        BY <2>2, <3>3
      <4> QED  BY <2>3, <3>1, <4>1 DEF OwedKept
    <3> QED  BY <1>1, <2>4, <3>2, <3>3 DEF RecordUpdate, Shape
  <2>5. CASE KeepSettings
    <3>1. PICK ok \in BOOLEAN :
            /\ flash' = IF ok THEN [flash EXCEPT !.prior = Held] ELSE flash
            /\ owed' = [owed EXCEPT ![image.running] =
                          IF ok /\ settings.value = OnFlash THEN settings.value ELSE Nothing]
      BY <2>5 DEF KeepSettings
    <3>2. PICK held : held = Held
      OBVIOUS
    <3>3. held # NoBlob /\ held.value = settings.value /\ held.layout = 1
      BY <1>1, <2>2, <3>2, HeldType
    <3>4. flash'.prior = IF ok THEN held ELSE flash.prior
      BY <1>1, <3>1, <3>2 DEF Shape
    <3>5. 2 \in Images => owed'[2] = owed[2]
      BY <2>2, <3>1
    <3>6. CASE ok /\ settings.value = OnFlash
      <4>1. owed'[1] = settings.value
        BY <2>2, <3>1, <3>6
      <4>2. flash.settings.layout < 2 => OnFlash = flash.settings.value
        <5>1. SUFFICES ASSUME flash.settings.layout < 2 PROVE OnFlash = flash.settings.value
          OBVIOUS
        <5>2. flash.settings.layout \in {0, 1} /\ flash.settings \in AnyBlob
          BY <1>1, <5>1, TwoImages DEF Shape
        <5>3. ~link.newer
          BY <1>1, <2>1, <2>2, <5>2 DEF KeyKept
        <5>4. OnFlash = IF Adoptable(flash.settings, 1) THEN flash.settings.value ELSE Default
          BY <2>2, <5>3 DEF OnFlash, SettingsKey
        <5> QED  BY <5>2, <5>4, BlobFacts DEF Adoptable
      <4> QED  BY <2>3, <3>3, <3>4, <3>5, <3>6, <4>1, <4>2 DEF OwedKept
    <3>7. CASE ~(ok /\ settings.value = OnFlash)
      <4>1. owed'[1] = Nothing
        BY <2>2, <3>1, <3>7
      <4> QED  BY <2>3, <3>3, <3>4, <3>5, <4>1 DEF OwedKept
    <3> QED  BY <3>6, <3>7
  <2> QED  BY <1>8, <2>4, <2>5
<1>9. CASE Boot
  <2>1. /\ image'.running \in Images
        /\ flash'.settings = flash.settings /\ flash'.prior = flash.prior /\ owed' = owed
        /\ ~image'.swap /\ unit'.phase = "running"
        /\ image'.running # image.running => image.swap \/ ~image.confirmed
        /\ ~image.swap /\ ~image.confirmed => image'.running = image.staged
    BY <1>9, BootKeeps
  <2>2. image'.running = 2 => image.running = 2 \/ image.swap
    <3>1. SUFFICES ASSUME image'.running = 2, image.running # 2, ~image.swap PROVE FALSE
      OBVIOUS
    <3>2. image.running = 1 /\ ~image.confirmed /\ image.staged = 2
      BY <1>1, <2>1, <3>1, TwoImages
    <3> QED  BY <1>1, <3>2 DEF SlotsKept
  <2> QED  BY <2>1, <2>2, StillOwes DEF Snapped
<1> QED  BY <1>2, <1>3, <1>4, <1>5, <1>6, <1>7, <1>8, <1>9 DEF Next

\* What is owed is what the image that boots loads.
LEMMA LoadsOwed ==
  ASSUME Shape, OwedKept, MaxImage <= 2, NEW i \in Images, owed[i] # Nothing
  PROVE  Loaded(i).value = owed[i]
<1>1. flash.settings \in AnyBlob /\ flash.prior \in AnyBlob
  BY DEF Shape
<1>2. CASE i = 2
  <2>1. flash.settings.layout = 2 /\ flash.settings.value = owed[2] /\ flash.settings # NoBlob
    BY <1>1, <1>2, BlobFacts DEF OwedKept
  <2> QED  BY <1>2, <2>1 DEF Loaded, NewerLayout, Adoptable
<1>3. CASE i = 1 /\ flash.settings.layout < 2
  <2>1. flash.settings.layout \in {0, 1} /\ flash.settings.value = owed[1]
    BY <1>3, TwoImages DEF OwedKept
  <2>2. NoBlob.value = Default /\ (flash.settings = NoBlob => flash.settings.value = Default)
    BY <1>1, BlobFacts DEF NoBlob
  <2> QED  BY <1>3, <2>1, <2>2 DEF Loaded, NewerLayout, Adoptable
<1>4. CASE i = 1 /\ flash.settings.layout = 2
  <2>1. flash.prior # NoBlob /\ flash.prior.value = owed[1] /\ flash.prior.layout = 1
    BY <1>4 DEF OwedKept, Snapped
  <2> QED  BY <1>4, <2>1 DEF Loaded, NewerLayout, Adoptable
<1> QED  BY <1>2, <1>3, <1>4, TwoImages

-----------------------------------------------------------------------------
(* What a key holds, what a record stands for and what a window has counted*)
(* agree in every state, for any number of images.                         *)
THEOREM SettingsInvariant == SettingsSpec => []SettingsInv
<1>1. SettingsInv /\ [Next]_settingsVars => SettingsInv'
  BY StepKeeps
<1> QED  BY <1>1, InitHolds, PTL DEF SettingsSpec

(* Every variable keeps its type: no image that was never there runs, and  *)
(* no window counts past its ceiling.                                      *)
THEOREM SettingsTypeCorrect == SettingsSpec => []SettingsTypeOK
<1>1. SettingsInv => SettingsTypeOK
  BY DEF SettingsInv, Shape, SettingsTypeOK, Windows, Slots, AnyBlob, AnyRecord, States, Phases
<1> QED  BY <1>1, SettingsInvariant, PTL

(* No change waits longer for flash than the bound counted from the first, *)
(* whatever changes follow it and however often the second, the cell or    *)
(* the store says no.                                                      *)
THEOREM ChangeAlwaysPrompt == SettingsSpec => []ChangeIsPrompt
<1>1. SettingsInv => ChangeIsPrompt
  BY DEF SettingsInv
<1> QED  BY <1>1, SettingsInvariant, PTL

(* What became of an update is told as it was, by whichever image runs and *)
(* after any number of resets and failed erases.                           *)
THEOREM FateAlwaysTold == SettingsSpec => []FateTold
<1>1. SettingsInv => FateTold
  BY DEF SettingsInv
<1> QED  BY <1>1, SettingsInvariant, PTL

(* The same image comes up on what the pilot switched off with.            *)
THEOREM SwitchedOffAlwaysSaved == SettingsSpec => SwitchedOffIsSaved
<1>1. SettingsInv /\ [Next]_settingsVars =>
        [unit.phase = "off" /\ unit'.phase = "running" /\ left # Nothing
           /\ image'.running = image.running => settings'.value = left]_settingsVars
  <2>1. SUFFICES ASSUME SettingsInv, [Next]_settingsVars, unit.phase = "off",
                        unit'.phase = "running", left # Nothing,
                        image'.running = image.running
                 PROVE  settings'.value = left
    OBVIOUS
  <2>2. settings'.value = Loaded(image'.running).value
    BY <2>1, OnlyBoots, BootKeeps
  <2>3. Loaded(image.running).value = left
    BY <2>1 DEF SettingsInv, LeftKept
  <2> QED  BY <2>1, <2>2, <2>3
<1> QED  BY <1>1, SettingsInvariant, PTL DEF SettingsSpec, SwitchedOffIsSaved

(* Between two images an image that boots finds what it put on flash: the  *)
(* older one across a swap and a revert, the newer one when it is          *)
(* installed again.  A third image breaks this (see the found run), so     *)
(* the bound on the images is a hypothesis.                                *)
THEOREM AlwaysComesBackAsLeft == MaxImage <= 2 /\ SettingsSpec => ComesBackAsLeft
<1>1. MaxImage <= 2 /\ SettingsInv /\ OwedKept /\ [Next]_settingsVars => OwedKept'
  BY OwedKeeps
<1>2. MaxImage <= 2 /\ SettingsInv /\ OwedKept /\ [Next]_settingsVars =>
        [unit.phase = "off" /\ unit'.phase = "running" /\ owed[image'.running] # Nothing
           => settings'.value = owed[image'.running]]_settingsVars
  <2>1. SUFFICES ASSUME MaxImage <= 2, SettingsInv, OwedKept, [Next]_settingsVars,
                        unit.phase = "off", unit'.phase = "running",
                        owed[image'.running] # Nothing
                 PROVE  settings'.value = owed[image'.running]
    OBVIOUS
  <2>2. PICK i : i = image'.running
    OBVIOUS
  <2>3. i \in Images /\ settings'.value = Loaded(i).value
    BY <2>1, <2>2, OnlyBoots, BootKeeps
  <2>4. Loaded(i).value = owed[i]
    BY <2>1, <2>2, <2>3, LoadsOwed DEF SettingsInv
  <2> QED  BY <2>2, <2>3, <2>4
<1>3. MaxImage <= 2 => [](MaxImage <= 2)
  <2> DEFINE two == MaxImage <= 2
  <2>1. two => two'
    OBVIOUS
  <2> QED  BY <2>1, PTL
<1> QED  BY <1>1, <1>2, <1>3, InitHolds, SettingsInvariant, PTL DEF SettingsSpec, ComesBackAsLeft

==============================================================================
