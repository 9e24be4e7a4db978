------------------------------ MODULE MCPages ------------------------------
(***************************************************************************)
(* The pages of the application and the files they keep things in: the     *)
(* models and the full preset (Controls), the curve presets (Presets) and  *)
(* config.txt (ApoConfig).  Each behaviour follows one of the three and    *)
(* leaves the others where they started.                                   *)
(***************************************************************************)
EXTENDS Controls, Presets, ApoConfig, TLC

VARIABLE focus

SixteenOf(o) == SelectSeq(o, LAMBDA s : s \in Known(5))

\* Arrangements of version 5's sixteen stages: its own, one with the limiter
\* first and the compressor after everything, and the chain backwards.
Arrangements ==
  {SixteenOf(DefaultOrder), Reverse(SixteenOf(DefaultOrder)),
   <<"limiter", "multiband">> \o
     SelectSeq(SixteenOf(DefaultOrder), LAMBDA s : s \notin {"limiter", "multiband", "comp"}) \o <<"comp">>}

\* Everything the version has, at the top of its range, and on or off.
OldFile(version, arrangement, all) ==
  [version |-> version, order |-> arrangement, curve |-> version >= 5, impulse |-> TRUE,
   value |-> [s \in Setting |-> All[s].whi], volume |-> 0,
   on |-> [s \in Stage |-> all /\ s \in Known(version)]]

MCOldFiles ==
  {OldFile(v, <<>>, all) : v \in 2..4, all \in BOOLEAN}
    \cup {OldFile(5, a, all) : a \in Arrangements, all \in BOOLEAN}
    \cup {OldFile(6, DefaultOrder, TRUE)}
MCVolumes == {-3000, 0}

\* A control at a time, and the two crossovers together.
Page(stage, controls) == [stage |-> stage, settings |-> controls]
MCPages ==
  {Page(All[s].stage, {s}) : s \in {x \in Setting : HasControl(x)}}
    \cup {Page("multiband", {"lowCross", "highCross"})}
    \cup {Page(stage, {}) : stage \in {"equalizer", "chain"}}


----------------------------------------------------------------------------

MCDefaultFrequencies == <<10, 20>>
MCFixedFrequencies == <<10, 14>>
MCNames == <<"bass", "dt880", "Last Configuration">>
MCTyped == {[raw |-> "bass", clean |-> "bass"], [raw |-> "dt880", clean |-> "dt880"],
            [raw |-> "dt/880", clean |-> "dt880"]}

\* Peace's: four bands, one of them low shelving and one off; and no preset.
MCPeaceFiles ==
  {[preamp |-> -3000, frequencies |-> <<8, 12, 16, 20>>, qualities |-> <<>>,
    gains |-> <<3000, 0, -2000, 1000>>, filters |-> 3 :> "LS", disabled |-> {2}],
   [preamp |-> 0, frequencies |-> <<>>, qualities |-> <<>>, gains |-> <<>>,
    filters |-> <<>>, disabled |-> {}]}

MCPeaceStarts ==
  {[n \in ToSet(MCNames) |-> IF n = "bass" THEN NoPreset ELSE CHOOSE f \in MCPeaceFiles : f.disabled # {}]}

Filter(tag, freq, gain, q) == [tag |-> tag, freq |-> freq, gain |-> gain, q |-> q]
A(gain, filters) == [tag |-> "A", preamp |-> gain, filters |-> filters]
Named(tag, name) == [tag |-> tag, name |-> name]
\* The second directory has another copy of the first database.  The last number of
\* the first record ran into the next one.
MCDatabase ==
  <<[source |-> 1, lines |->
      <<Named("M", "crinacle"), Named("W", "harman"), Named("D", "dt880"), [tag |-> "R"],
        A(-6500, <<Filter("P", 12, 45000, -1), Filter("?", 0, 0, 0), Filter("H", 20, -2000, 615000)>>),
        A(-5000, <<Filter("F", 0, 2000, 0), Filter("F", 0, -1000, 0), Filter("F", 0, 500, 0)>>),
        Named("D", "k701"),
        A(-5000, <<Filter("F", 0, 2000, 0)>>)>>],
    [source |-> 1, lines |-> <<Named("D", "dt880"), A(0, <<Filter("P", 12, 1000, 1000)>>)>>]>>

MCValues == {Band(30, 31000, 5, "PK", TRUE), Band(0, 1234, 1410, "HS", FALSE)}

----------------------------------------------------------------------------

Own == Line("Include", "dreamdsp.txt")
MCOtherTexts ==
  {<<>>, <<Blank>>, <<Line("Include", "peace.txt"), Line("Preamp", ""), Blank, Blank>>,
   <<Line("Preamp", ""), Own, Line("Include", "peace.txt"), Own, Blank>>}

pagesVars == <<controlVars, presetVars, configVars, focus>>

\* An older file is met by a user who goes to the chain page; the others start
\* with no file at all.
PagesInit ==
  /\ focus \in {"controls", "presets", "config"}
  /\ ControlsInit /\ PresetsInit /\ ConfigInit
  /\ params # NoFile => page.stage = "chain"
  /\ focus # "controls" => params = NoFile /\ page = Page("chain", {})
  /\ focus # "config" => configTxt = <<>>

PagesNext ==
  /\ UNCHANGED focus
  /\ \/ focus = "controls" /\ ControlsNext /\ UNCHANGED <<presetVars, configVars>>
     \/ focus = "presets" /\ PresetsNext /\ UNCHANGED <<controlVars, configVars>>
     \/ focus = "config" /\ ConfigNext /\ UNCHANGED <<controlVars, presetVars>>

PagesSpec == PagesInit /\ [][PagesNext]_pagesVars

----------------------------------------------------------------------------
(* Properties of two parts, side by side.                                  *)

\* The pages show what the block says: the controls of the effects, and the
\* bands of the curve.
ShownIsApplied == ShownIsWhatRuns /\ ShownBandsAreApplied

\* What was saved comes back when it is loaded, be it the whole rack or a curve.
LoadedIsAsSaved == PresetBringsBack /\ SavedComesBack

\* What other programs wrote stays as they wrote it: Peace's presets, and the
\* lines of config.txt that are not ours.
OthersKeepTheirs == PeaceKeepsItsFiles /\ OthersLinesKept
=============================================================================
