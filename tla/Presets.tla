------------------------------ MODULE Presets ------------------------------
(***************************************************************************)
(* Curve presets: app/PresetStore, the bar that shows them                 *)
(* (qml/components/PresetBar), AppController's loadPreset, savePreset,     *)
(* deletePreset and importAutoEq, and the session that restores the curve. *)
(*                                                                         *)
(* Peace keeps its own .peace files in Equalizer APO's directory, where    *)
(* they are only read.  The bar finds the preset that is loaded by its     *)
(* name.                                                                   *)
(***************************************************************************)
EXTENDS Bands

CONSTANTS
  FileNames,    \* base names a file may have, in the order of the directory
  Typed,        \* names a user may type: [raw, clean], what sanitise makes of it
  Noise,        \* "Last Configuration"
  NoName, NoPreset,
  PeaceFiles,   \* what Peace may write under a name of its own
  PeaceStarts,  \* its directory at first
  Database,     \* the AutoEQ files, in the order they are searched
  Values,       \* the bands a control may be dragged to
  MaxChanges    \* curves changed and files written in one behaviour

VARIABLES
  running,
  bands, preamp,  \* EqBandModel and m_preamp
  named, dirty,   \* m_currentPreset and m_dirty
  user, peace,    \* the two directories
  entries,        \* PresetStore's list
  selected,       \* the row of the bar, 0 for none
  autoEq,         \* AutoEqDatabase's entries
  stored,         \* session.peace and currentPreset in QSettings
  from,           \* where the curve was loaded from or saved to last
  saved,          \* what the models held when a file was saved
  touched,        \* the files Peace has written since they were loaded
  fresh,          \* the curve has not come back from a session
  changes

presetVars == <<running, bands, preamp, named, dirty, user, peace, entries, selected,
                autoEq, stored, from, saved, touched, fresh, changes>>
curveVars == <<bands, preamp>>
files == <<user, peace, saved, touched>>

\* What may be in the directories before the program meets them.  Neither what
\* Peace writes nor the gains of a record's fixed bands are bounded when they are
\* read: that they are within what the block may hold is Peace's and AutoEQ's doing.
Sensible(gain) == gain \in Int /\ -40000 <= gain /\ gain <= 40000
SensibleFile(f) ==
  /\ f.preamp \in Int /\ f.frequencies \in Seq(Int)
  /\ \A i \in DOMAIN f.gains : Sensible(f.gains[i])
  /\ \A i \in DOMAIN f.qualities : f.qualities[i] \in Int /\ f.qualities[i] <= 100000
SensibleLine(l) ==
  l.tag = "A" =>
    /\ l.preamp \in Int /\ l.filters \in Seq(ToSet(l.filters))
    /\ \A f \in ToSet(l.filters) :
         /\ f.freq \in Int /\ f.gain \in Int /\ f.q \in Int
         /\ f.tag = "F" => Sensible(f.gain)

ASSUME PresetsAssumption ==
  /\ FileNames \in Seq(ToSet(FileNames))
  /\ \A name \in Typed : name.clean \in ToSet(FileNames)
  /\ \A f \in PeaceFiles : SensibleFile(f)
  /\ PeaceStarts \subseteq [ToSet(FileNames) -> PeaceFiles \cup {NoPreset}]
  /\ \A b \in Values :
       /\ b = Band(b.freq, b.gain, b.q, b.type, b.on)
       /\ b.freq \in Int /\ b.gain \in Int /\ b.q \in Int /\ b.on \in BOOLEAN
  /\ Database \in Seq(ToSet(Database))
  /\ \A d \in ToSet(Database) :
       d.lines \in Seq(ToSet(d.lines)) /\ \A l \in ToSet(d.lines) : SensibleLine(l)

Nowhere == [name |-> NoName, at |-> "nowhere", imported |-> FALSE]

File(e) == IF e.at = "peace" THEN peace[e.name] ELSE user[e.name]
\* A file without [Frequencies] is no preset.
Readable(file) == file # NoPreset /\ file.frequencies # <<>>

\* scan() of one directory; Peace's scratch file is not shown.
Listing(directory, at, imported) ==
  LET names == LeavingOut(FileNames,
                 {n \in ToSet(FileNames) : ~Readable(directory[n]) \/ (imported /\ n = Noise)}) IN
  [i \in DOMAIN names |-> [name |-> names[i], at |-> at, imported |-> imported]]

\* Mutant of Scanned: Peace's presets are listed like the user's own.
ScannedAsOwn(mine, theirs) == Listing(mine, "user", FALSE) \o Listing(theirs, "peace", FALSE)

\* refresh()
Scanned(mine, theirs) == Listing(mine, "user", FALSE) \o Listing(theirs, "peace", TRUE)

\* syncSelection: the first entry of that name.
Match(list, name) == SelectInSeq(list, LAMBDA e : e.name = name)

PresetsInit ==
  /\ running = TRUE /\ bands = Defaults /\ preamp = 0 /\ named = NoName /\ dirty = FALSE
  /\ user = [n \in ToSet(FileNames) |-> NoPreset]
  /\ peace \in PeaceStarts
  /\ entries = Scanned(user, peace) /\ selected = 0
  /\ autoEq = <<>> /\ stored = [name |-> NoName, file |-> NoPreset]
  /\ from = Nowhere /\ touched = {}
  /\ saved = [n \in ToSet(FileNames) |-> NoPreset]
  /\ fresh = TRUE /\ changes = 0

----------------------------------------------------------------------------
(* The curve. *)

\* bandsChanged: whatever moves a band marks the curve.
Changed(becomes) ==
  /\ running /\ changes < MaxChanges /\ changes' = changes + 1
  /\ becomes # bands /\ bands' = becomes /\ dirty' = TRUE
  /\ UNCHANGED <<running, preamp, named, entries, selected, autoEq, stored, from, fresh, files>>

SetBand(row, b) == row \in DOMAIN bands /\ Changed([bands EXCEPT ![row] = Legal(b)])
ZeroGains == Changed([i \in DOMAIN bands |-> [bands[i] EXCEPT !.gain = 0]])
InsertBandAfter(row) == Len(bands) < kMaxBands /\ row \in 0..Len(bands) /\ Changed(Inserted(bands, row))
RemoveBand(row) == Len(bands) > 1 /\ row \in DOMAIN bands /\ Changed(RemoveAt(bands, row))

SetPreamp(v) ==
  /\ running /\ changes < MaxChanges /\ changes' = changes + 1
  /\ Bound(v, -30000, 30000) # preamp /\ preamp' = Bound(v, -30000, 30000) /\ dirty' = TRUE
  /\ UNCHANGED <<running, bands, named, entries, selected, autoEq, stored, from, fresh, files>>

\* A curve is taken over with m_restoring set, so that nothing it does marks it.
Take(curve, gain, name) ==
  /\ bands' = SetBands(bands, curve) /\ preamp' = Bound(gain, -30000, 30000)
  /\ named' = name
\* currentPresetChanged, if it did.
Followed(row) == selected' = IF named' # named THEN Match(entries, named') ELSE row

----------------------------------------------------------------------------
(* The bar. *)

LoadPreset(row) ==
  /\ running /\ row \in DOMAIN entries
  /\ LET file == File(entries[row]) IN
     IF Readable(file)
     THEN /\ Take(ReadBands(file), file.preamp, entries[row].name) /\ Followed(row)
          /\ dirty' = FALSE /\ from' = entries[row] /\ fresh' = TRUE
          /\ touched' = touched \ {<<entries[row].at, entries[row].name>>}
     ELSE selected' = row /\ UNCHANGED <<curveVars, named, dirty, from, fresh, touched>>
  /\ UNCHANGED <<running, user, peace, entries, autoEq, stored, saved, changes>>

\* savePreset: the name as it was typed is shown, the file has the clean one.  An
\* empty name, or a write that fails, is an error and nothing else.
SavePreset(raw, clean) ==
  /\ user' = [user EXCEPT ![clean] = WriteFile(preamp, bands)]
  /\ saved' = [saved EXCEPT ![clean] = [preamp |-> preamp, bands |-> bands]]
  /\ entries' = Scanned(user', peace)
  /\ named' = raw /\ dirty' = FALSE /\ selected' = Match(entries', raw)
  /\ from' = [name |-> clean, at |-> "user", imported |-> FALSE] /\ fresh' = TRUE
  /\ changes < MaxChanges /\ changes' = changes + 1
  /\ UNCHANGED <<running, curveVars, peace, autoEq, stored, touched>>

SaveAs(name) == running /\ SavePreset(name.raw, name.clean)

\* The button is there for a preset of the user's that is selected and changed.
SaveOver ==
  /\ running /\ selected # 0 /\ ~entries[selected].imported /\ dirty
  /\ \E name \in Typed : name.raw = named /\ SavePreset(named, name.clean)

\* remove(): where the entry says the file is, if it is still there.
DeletePreset ==
  /\ running /\ selected # 0 /\ ~entries[selected].imported
  /\ LET e == entries[selected] IN
     /\ File(e) # NoPreset
     /\ IF e.at = "peace" THEN peace' = [peace EXCEPT ![e.name] = NoPreset] /\ UNCHANGED user
                          ELSE user' = [user EXCEPT ![e.name] = NoPreset] /\ UNCHANGED peace
     /\ saved' = [saved EXCEPT ![e.name] = NoPreset]
  /\ entries' = Scanned(user', peace') /\ selected' = Match(entries', named)
  /\ UNCHANGED <<running, curveVars, named, dirty, autoEq, stored, from, touched, fresh, changes>>

LoadAutoEq ==
  /\ running /\ autoEq = <<>> /\ autoEq' = LoadDatabase(Database)
  /\ UNCHANGED <<running, curveVars, named, dirty, entries, selected, stored, from, fresh, changes, files>>

\* Mutant of ImportAutoEq: marked before m_restoring is put back.
ImportAutoEqRestoring(i, fixed) ==
  /\ running /\ changes < MaxChanges /\ changes' = changes + 1 /\ i \in DOMAIN autoEq
  /\ LET record == IF fixed THEN autoEq[i].fixed ELSE autoEq[i].parametric IN
     /\ record # <<>> /\ ToBands(record[1]) # <<>>
     /\ Take(ToBands(record[1]), record[1].preamp, autoEq[i].device)
  /\ Followed(selected)
  /\ UNCHANGED <<running, dirty, entries, autoEq, stored, from, fresh, files>>

ImportAutoEq(i, fixed) ==
  /\ running /\ changes < MaxChanges /\ changes' = changes + 1 /\ i \in DOMAIN autoEq
  /\ LET record == IF fixed THEN autoEq[i].fixed ELSE autoEq[i].parametric IN
     /\ record # <<>> /\ ToBands(record[1]) # <<>>
     /\ Take(ToBands(record[1]), record[1].preamp, autoEq[i].device)
  /\ Followed(selected) /\ dirty' = TRUE
  /\ from' = Nowhere
  /\ UNCHANGED <<running, entries, autoEq, stored, fresh, files>>

----------------------------------------------------------------------------
(* Peace, and the end and the beginning of the program. *)

PeaceWrites(name, file) ==
  /\ changes < MaxChanges /\ changes' = changes + 1 /\ peace[name] # file
  /\ peace' = [peace EXCEPT ![name] = file] /\ touched' = touched \cup {<<"peace", name>>}
  /\ UNCHANGED <<running, curveVars, named, dirty, user, entries, selected, autoEq, stored,
                 from, saved, fresh>>

QuitProgram ==
  /\ running /\ running' = FALSE
  /\ stored' = [name |-> named, file |-> WriteFile(preamp, bands)]
  /\ UNCHANGED <<curveVars, named, dirty, entries, selected, autoEq, from, fresh, changes, files>>

\* restoreSession: the curve and the name come back, the mark does not.
RestoreSession ==
  /\ ~running /\ running' = TRUE /\ bands' = SetBands(Defaults, ReadBands(stored.file))
  /\ preamp' = stored.file.preamp /\ named' = stored.name /\ dirty' = FALSE
  /\ entries' = Scanned(user, peace) /\ selected' = Match(entries', named')
  /\ autoEq' = <<>> /\ fresh' = FALSE
  /\ UNCHANGED <<stored, from, changes, files>>

PresetsNext ==
  \/ \E row \in DOMAIN bands, b \in Values : SetBand(row, b)
  \/ \E row \in 0..kMaxBands : InsertBandAfter(row) \/ RemoveBand(row)
  \/ ZeroGains \/ SetPreamp(-6004)
  \/ \E row \in DOMAIN entries : LoadPreset(row)
  \/ SaveOver \/ \E name \in Typed : SaveAs(name)
  \/ DeletePreset \/ LoadAutoEq
  \/ \E i \in DOMAIN autoEq, fixed \in BOOLEAN : ImportAutoEq(i, fixed)
  \/ \E name \in ToSet(FileNames), file \in PeaceFiles \cup {NoPreset} : PeaceWrites(name, file)
  \/ QuitProgram \/ RestoreSession

----------------------------------------------------------------------------
(* Properties. *)

\* "the bands on screen are the bands being applied": whatever way a curve came in
\* -- a preset of 40 bands, a corrupt AutoEQ record -- the block holds all of it as
\* it is shown, save what the page's own ranges allow and the wire does not.
ShownBandsAreApplied ==
  /\ Len(EqParams(bands)) = Len(bands) /\ bands # <<>>
  /\ \A i \in DOMAIN bands :
       \/ Wire(bands[i]) = bands[i]
       \/ bands[i].freq < Hz10 \/ bands[i].q < 50

Curve(list) == [i \in DOMAIN list |-> Rounded(list[i])]

\* An unmarked curve is on disk: as long as the program runs, what the page shows
\* without the mark is, to two decimals and within the preamp's range, what is in
\* the file it was loaded from or saved to last -- or that file was deleted,
\* rewritten by Peace, or is longer than the model.
UnmarkedIsOnDisk ==
  running /\ fresh /\ ~dirty =>
    IF from = Nowhere THEN named = NoName /\ bands = Defaults /\ preamp = 0
    ELSE \/ <<from.at, from.name>> \in touched \/ File(from) = NoPreset
         \/ LET held == ReadBands(File(from)) IN
            /\ Curve(bands) = Curve(SetBands(<<>>, held))
            /\ Decimals(preamp) = Decimals(Bound(File(from).preamp, -30000, 30000))

\* A preset of the user's that is loaded comes back as it was saved, to two
\* decimals: every band, its type and its switch, whatever the file leaves out.
SavedComesBack ==
  [][\A row \in DOMAIN entries :
       LoadPreset(row) /\ entries[row].at = "user" /\ Readable(File(entries[row])) =>
         LET was == saved[entries[row].name] IN
         bands' = Curve(was.bands) /\ preamp' = Decimals(was.preamp)]_presetVars

\* "Never delete out of Equalizer APO's own directory": whatever is selected, saved
\* or deleted, only Peace writes Peace's files.
PeaceKeepsItsFiles ==
  [][(\E name \in ToSet(FileNames), file \in PeaceFiles \cup {NoPreset} : PeaceWrites(name, file))
       \/ peace' = peace]_presetVars

\* "Over the loaded preset only, and never over a Peace one": qml/PresetBar of the
\* button that saves without asking for a name.
SavesOverTheLoaded ==
  [][SaveOver => from.at = "user" /\ from.name = named]_presetVars

=============================================================================
