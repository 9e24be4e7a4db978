------------------------------ MODULE Controls ------------------------------
(***************************************************************************)
(* The models behind the pages -- app/CompressorModel, ReverbModel,        *)
(* EffectsModel, OutputModel and AppController's graphic curve and chain   *)
(* -- and the two places their values are kept: params.bin, which is also  *)
(* the session store, and a full preset (core/DreamPreset).                *)
(*                                                                         *)
(* One impulse response, one graphic curve, one preset; the equaliser runs *)
(* in this program; what the publisher and the controller do when a write  *)
(* fails or the program crashes is AppController's business.               *)
(***************************************************************************)
EXTENDS Stages, Settings

CONSTANTS
  OldFiles,     \* the params.bin an older version may have left
  NoFile, NoFullPreset,
  Volumes,      \* the readings of the endpoint's volume, in hundredths of a dB
  Pages,        \* where a user may be: a stage or the chain, and its controls
  Rows,         \* the rows of the chain page that are dragged and dropped on
  MaxEdits,     \* what is moved or switched in one behaviour
  MaxStarts

VARIABLES
  setting,      \* the models' numbers
  on,           \* the models' switches
  order,        \* m_order
  curve,        \* the graphic equaliser has a curve
  impulse,      \* an impulse response was published
  volume,       \* what pollVolume last read, or Unknown
  timer,        \* the publisher's
  params,       \* params.bin
  session,      \* eqEnabled in QSettings
  preset,       \* the full preset on disk
  kept,         \* what the pages showed when it was saved
  up, edits, starts,
  page          \* where the user is

settings == <<setting, on, order, curve, impulse, volume>>
disk == <<params, session, preset, kept>>
controlVars == <<settings, timer, disk, up, edits, starts, page>>

Current == 7
Unknown == 100   \* pollVolume's 1.0: a volume is an attenuation

ControlsInit ==
  /\ setting = Start /\ on = [s \in Stage |-> s = "equalizer"]
  /\ order = DefaultOrder /\ curve = FALSE /\ impulse = FALSE /\ volume = Unknown
  /\ timer = FALSE /\ params \in OldFiles \cup {NoFile} /\ session = TRUE
  /\ preset = NoFullPreset /\ kept = NoFullPreset
  /\ up = FALSE /\ edits = 0 /\ starts = 0
  /\ page \in Pages

----------------------------------------------------------------------------
(* The block. *)

\* OutputModel::enableBits and blockFromModels: what is switched on and has
\* something to do.
HasWork(s, set, hasImpulse) ==
  /\ s = "matrix" => set["matrix"] # 0
  /\ s = "delay" => set["delay"] > 0
  /\ s = "convolution" => hasImpulse
Bits(set, switches, hasImpulse) ==
  [s \in Stage |-> switches[s] /\ HasWork(s, set, hasImpulse)]

\* A file of an older version was published by it: its numbers had been through
\* sanitise(), its switches through enableBits.
ASSUME OldFilesAssumption ==
  \A f \in OldFiles :
    /\ f.version \in 2..6 /\ f.value \in [Setting -> Int] /\ Sanitised(f.value) = f.value
    /\ f.on \in [Stage -> BOOLEAN] /\ f.curve \in BOOLEAN /\ f.impulse \in BOOLEAN
    /\ Bits(f.value, f.on, f.impulse) = f.on
    /\ \A s \in Stage : f.on[s] => s \in Known(f.version)
    /\ f.version = 5 => f.order \in Seq(Known(5)) /\ IsOrderOf(Known(5), f.order)
    /\ f.version = 6 => f.order \in Seq(Stage) /\ IsOrder(f.order)

\* The endpoint reports numbers, and a page shows the settings and the rows there are.
ASSUME PageAssumption ==
  /\ Volumes \subseteq Int
  /\ \A p \in Pages : p.settings \subseteq Setting
  /\ Rows \subseteq 1..Cardinality(Stage)

\* loudnessParams: a volume that is not known is the reference itself.
VolumeSent == IF volume = Unknown THEN setting["loudnessReference"] ELSE volume

Block ==
  [version |-> Current, value |-> Sanitised(setting), on |-> Bits(setting, on, impulse),
   order |-> order, curve |-> curve, impulse |-> impulse, volume |-> VolumeSent]
Publishing == params' = Block'

Edit ==
  /\ up /\ edits < MaxEdits /\ edits' = edits + 1
  /\ UNCHANGED <<up, starts, page>>
Click ==
  /\ up /\ UNCHANGED <<up, edits, starts, page>>
Scheduled == timer' = TRUE /\ UNCHANGED disk

----------------------------------------------------------------------------
(* The pages. *)

\* A setter: clamped, and nothing at all if that moves nothing.
SetTo(s, v) ==
  /\ Edit /\ HasControl(s) /\ Clamped(s, v) # setting[s]
  /\ setting' = [setting EXCEPT ![s] = Clamped(s, v)]
  /\ Scheduled
  /\ UNCHANGED <<on, order, curve, impulse, volume>>

\* setLoudnessOn pins a reference nobody has set to the volume of the moment.
Pinned(s, value) ==
  IF s = "loudness" /\ value /\ volume # Unknown /\ volume < 0
     /\ setting["loudnessReference"] = 0
  THEN [setting EXCEPT !["loudnessReference"] = volume]
  ELSE setting

\* setStageEnabled, and the same switch on the stage's own page; the graphic
\* equaliser is not switched on without a curve.
SetStageEnabled(s) ==
  /\ Edit /\ (s = "graphic" /\ ~on[s] => curve)
  /\ on' = [on EXCEPT ![s] = ~@]
  /\ setting' = Pinned(s, ~on[s])
  /\ Scheduled
  /\ UNCHANGED <<order, curve, impulse, volume>>

UseCurrentVolume == volume # Unknown /\ SetTo("loudnessReference", volume)

\* pollVolume's timer, which runs while the loudness correction is on.
PollVolume(v) ==
  /\ Edit /\ on["loudness"] /\ v # volume
  /\ volume' = v /\ Scheduled
  /\ UNCHANGED <<setting, on, order, curve, impulse>>

\* importGraphicEq, of a text with two points or more.
ImportGraphicEq ==
  /\ Edit /\ curve' = TRUE /\ on' = [on EXCEPT !["graphic"] = TRUE]
  /\ setting' = [setting EXCEPT !["graphicAmount"] = IF @ <= 0 THEN 100 ELSE @]
  /\ Scheduled /\ UNCHANGED <<order, impulse, volume>>

ClearGraphicEq ==
  /\ Edit /\ curve' = FALSE /\ on' = [on EXCEPT !["graphic"] = FALSE]
  /\ Scheduled /\ UNCHANGED <<setting, order, impulse, volume>>

MoveStage(from, to) ==
  /\ Edit /\ from # to /\ order' = Moved(order, from, to)
  /\ Scheduled /\ UNCHANGED <<setting, on, curve, impulse, volume>>

ResetChainOrder ==
  /\ Edit /\ order # DefaultOrder /\ order' = DefaultOrder
  /\ Scheduled /\ UNCHANGED <<setting, on, curve, impulse, volume>>

\* publishImpulse and clearImpulse write at once.
SelectImpulse ==
  /\ Edit /\ impulse' = TRUE /\ on' = [on EXCEPT !["convolution"] = TRUE]
  /\ timer' = FALSE /\ UNCHANGED <<setting, order, curve, volume, session, preset, kept>>
  /\ Publishing
ClearImpulse ==
  /\ Edit /\ impulse /\ impulse' = FALSE /\ on' = [on EXCEPT !["convolution"] = FALSE]
  /\ timer' = FALSE /\ UNCHANGED <<setting, order, curve, volume, session, preset, kept>>
  /\ Publishing

\* What resetAll hands to each model: the dsp layer's defaults for the stages it
\* lists, a zeroed block for the other effects, the transparent block for the
\* output stage.
Zeroed == {"dynBass", "transient", "clipper", "autoGain", "nightMode"}
Reset ==
  [s \in Setting |->
     IF All[s].stage \in Zeroed THEN 0
     ELSE IF All[s].stage \in {"graphic", "convolution"} THEN setting[s]
     ELSE IF s \in DOMAIN Outputs
     THEN Restored([Sanitised(Nothing) EXCEPT !["loudnessAmount"] = 100])[s]
     ELSE Plain[s]]

ResetAll ==
  /\ Edit /\ setting' = Reset
  /\ on' = [s \in Stage |-> s \in {"equalizer", "convolution"} /\ on[s]]
  /\ curve' = FALSE /\ order' = DefaultOrder
  /\ Scheduled /\ UNCHANGED <<impulse, volume>>

----------------------------------------------------------------------------
(* Full presets. *)

\* saveDreamPreset names every field it writes; these it does not.
NotWritten ==
  Of("limiter") \cup Of("dynBass") \cup Of("transient") \cup Of("clipper")
    \cup Of("autoGain") \cup Of("nightMode") \cup Of("graphic")
    \cup {"exciterThreshold", "widthPhase"}
Written == Setting \ NotWritten

\* Mutant of Read: a number that was saved as nothing is left at its default.
ReadNonzero(value) ==
  LET read == [s \in Setting |-> IF s \in Written /\ value[s] # 0 THEN value[s] ELSE Plain[s]] IN
  Sanitised(read)

\* loadDreamPreset: what is not in the file is what a transparent block has.
Read(value) ==
  Sanitised([s \in Setting |-> IF s \in Written THEN value[s] ELSE Sanitised(Nothing)[s]])

\* saveFullPreset, once in a behaviour: the sanitised block without the equaliser, the curve and the
\* order; the equaliser's switch goes beside it.
SaveFullPreset ==
  /\ Click /\ preset = NoFullPreset
  /\ preset' = [value |-> Sanitised(setting), impulse |-> impulse,
                on |-> [Bits(setting, on, impulse) EXCEPT !["graphic"] = FALSE,
                                                          !["equalizer"] = on["equalizer"]]]
  /\ kept' = [setting |-> setting, on |-> on]
  /\ UNCHANGED <<settings, timer, params, session>>

\* loadFullPreset, written out at once and again by the timer.  The impulse
\* response is a path, and the file may have gone (here).
LoadFullPreset(here) ==
  /\ Click /\ preset # NoFullPreset
  /\ LET value == Restored(Read(preset.value)) IN
     setting' = [s \in Setting |-> IF s = "graphicAmount" THEN setting[s] ELSE value[s]]
  /\ on' = [s \in Stage |->
       IF s = "graphic" \/ (s = "convolution" /\ ~(preset.impulse /\ here))
       THEN on[s] ELSE preset.on[s]]
  /\ impulse' = (impulse \/ (preset.impulse /\ here))
  /\ timer' = TRUE
  /\ UNCHANGED <<order, curve, volume, session, preset, kept>>
  /\ Publishing

----------------------------------------------------------------------------
(* The timer, the way out and the way in. *)

PublishNow ==
  /\ up /\ timer /\ timer' = FALSE
  /\ UNCHANGED <<settings, session, preset, kept, up, edits, starts, page>>
  /\ Publishing

\* The destructor: flushParams and saveSession.
Quit ==
  /\ up /\ up' = FALSE /\ timer' = FALSE /\ session' = on["equalizer"]
  /\ UNCHANGED <<settings, preset, kept, edits, starts, page>>
  /\ Publishing

\* load(), member by member: the fields the writing version did not have get
\* the interface's defaults, or what means nothing.
Newer(version) ==
  (IF version < 6 THEN (UNION {Of(s) : s \in Since6})
     \cup {"exciterThreshold", "widthPhase", "limiterTruePeak"} ELSE {})
    \cup (IF version < 5 THEN Of("limiter") \cup Of("dynBass") ELSE {})
Loaded(f) ==
  Sanitised([s \in Setting |->
     IF s \in Newer(f.version) THEN Plain[s]
     ELSE IF All[s].stage \in {"matrix", "delay", "loudness"} /\ f.version < 4 THEN 0
     ELSE IF s = "graphicAmount" /\ f.version < 5 THEN 100
     ELSE f.value[s]])
LoadedOrder(f) ==
  IF f.version >= 6 THEN f.order
  ELSE IF f.version = 5 THEN Upgraded(f.order) ELSE DefaultOrder

\* enableMask &= keep
LoadedBits(f) == [s \in Stage |-> f.on[s] /\ s \in Known(f.version)]

\* Mutant of Switches: one effect is forgotten.
SwitchesButDynBass(f) ==
  [s \in Stage |-> IF s = "equalizer" THEN session
                   ELSE IF s = "dynBass" THEN FALSE ELSE LoadedBits(f)[s]]

\* The models' restore(), and the switches the controller keeps: the
\* equaliser's comes from the session.
Switches(f) == [s \in Stage |-> IF s = "equalizer" THEN session ELSE LoadedBits(f)[s]]

\* The constructor: load, one reading of the volume, then a first publication.
StartProgram(v) ==
  /\ ~up /\ starts < MaxStarts /\ up' = TRUE /\ starts' = starts + 1
  /\ volume' = v /\ timer' = FALSE
  /\ IF params = NoFile
     THEN /\ setting' = Start /\ order' = DefaultOrder /\ curve' = FALSE /\ impulse' = FALSE
          /\ on' = [s \in Stage |-> s = "equalizer" /\ session]
     ELSE /\ setting' = Restored(Loaded(params)) /\ order' = LoadedOrder(params)
          /\ curve' = params.curve /\ impulse' = params.impulse
          /\ on' = Switches(params)
  /\ UNCHANGED <<session, preset, kept, edits, page>>
  /\ Publishing

\* A slider's two ends, overshot, and a place near its beginning.
Asked(s) == {All[s].lo - 1, All[s].lo + (All[s].hi - All[s].lo) \div 40, All[s].hi + 1}

At(place) == page.stage = place

ControlsNext ==
  \/ \E s \in page.settings : \E v \in Asked(s) : SetTo(s, v)
  \/ \E s \in Stage : At(s) /\ SetStageEnabled(s)
  \/ At("loudness") /\ (UseCurrentVolume \/ \E v \in Volumes \cup {Unknown} : PollVolume(v))
  \/ At("graphic") /\ (ImportGraphicEq \/ ClearGraphicEq)
  \/ At("convolution") /\ (SelectImpulse \/ ClearImpulse)
  \/ At("chain") /\ (ResetChainOrder \/ \E from, to \in Rows : MoveStage(from, to))
  \/ ResetAll
  \/ SaveFullPreset \/ \E here \in BOOLEAN : LoadFullPreset(here)
  \/ PublishNow \/ Quit
  \/ \E v \in {Unknown} \cup IF At("loudness") THEN Volumes ELSE {} : StartProgram(v)

----------------------------------------------------------------------------
(* Properties. *)

\* An interface that shows one thing while the chain runs another: once the
\* publisher is idle, whatever a control can show is what the block says, and a
\* stage the chain page counts as working runs.  The exceptions are the ones
\* the code knows: a mono crossover under 20 Hz is off, the crossovers keep
\* their distance, an identity matrix, an alignment of 0 ms and a convolution
\* without a response do nothing.
ShownIsWhatRuns ==
  up /\ ~timer =>
    /\ \A s \in Setting :
         InRange(s, setting[s]) =>
           \/ params.value[s] = setting[s]
           \/ s = "monoBelow" /\ setting[s] < 2000
           \/ s = "highCross" /\ 2 * setting[s] < 3 * setting["lowCross"]
    /\ \A s \in Stage :
         params.on[s] # on[s] =>
           \/ s \in {"matrix", "delay"} /\ setting[s] = 0
           \/ s = "convolution" /\ ~impulse
    /\ params.order = order /\ IsOrder(order)

Amounts == {"loudnessAmount", "graphicAmount"}

\* Settings, switches and the order outlive the program: after a good quit the
\* first block of the next run is the last of this one, except for an amount of
\* nothing, which comes back as all of it.
RestartKeeps ==
  [][~up /\ up' /\ params # NoFile /\ params.version >= 6 =>
       /\ params'.on = [params.on EXCEPT !["equalizer"] = session]
       /\ params'.order = params.order
       /\ params'.curve = params.curve /\ params'.impulse = params.impulse
       /\ \A s \in Setting :
            \/ params'.value[s] = params.value[s]
            \/ s \in Amounts /\ params.value[s] = 0]_controlVars

Neighbours(seq, a, b) == Place(seq, b) = Place(seq, a) + 1

\* An older file is brought forward, not reset: what was on stays on, every
\* number the old version had is kept (but for the amounts of nothing), its
\* arrangement too, and the stages it did not know are off and stand where they
\* belong.
UpgradeKeeps ==
  [][~up /\ up' /\ params # NoFile /\ params.version < 6 =>
       /\ \A s \in Stage \ {"equalizer"} : params'.on[s] = params.on[s]
       /\ \A s \in Setting : All[s].stage \in Known(params.version) =>
            \/ params'.value[s] = params.value[s]
            \/ s \in Newer(params.version)
            \/ s \in Amounts /\ params.value[s] = 0
       /\ IsOrder(params'.order)
       /\ params.version = 5 =>
            /\ \A a, b \in Known(5) : Place(params.order, a) < Place(params.order, b)
                 => Place(params'.order, a) < Place(params'.order, b)
            /\ params'.order[1] = "autoGain"
            /\ Neighbours(params'.order, "transient", "comp")
            /\ Neighbours(params'.order, "multiband", "nightMode")
            /\ Neighbours(params'.order, "clipper", "limiter")]_controlVars

\* What is in params.bin is never less after a start than before it, whatever
\* version wrote it.
StartsKeep == RestartKeeps /\ UpgradeKeeps

BroughtBack(carried) ==
  /\ \A s \in carried :
       InRange(s, kept.setting[s]) =>
         \/ setting'[s] = kept.setting[s]
         \/ s = "monoBelow" /\ kept.setting[s] < 2000
         \/ s = "highCross" /\ 2 * kept.setting[s] < 3 * kept.setting["lowCross"]
         \/ s = "loudnessAmount" /\ kept.setting[s] = 0
  /\ \A s \in Stage \ {"graphic", "convolution"} :
       \/ on'[s] = kept.on[s]
       \/ s \in {"matrix", "delay"} /\ kept.setting[s] = 0

\* A full preset brings back the switches, and the numbers it has a field for,
\* as they were on the pages when it was saved.
PresetBringsBack == [][\A here \in BOOLEAN : LoadFullPreset(here) => BroughtBack(Written)]_controlVars

\* "Saving a 'preset' that silently dropped all of that would be worse than not
\* offering one": core/DreamPreset.h of the whole rack.  The graphic equaliser
\* is the controller's and was never meant.
FullPresetKeeps ==
  [][\A here \in BOOLEAN : LoadFullPreset(here) => BroughtBack(Setting \ Of("graphic"))]_controlVars

=============================================================================
