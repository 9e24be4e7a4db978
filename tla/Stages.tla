------------------------------- MODULE Stages -------------------------------
(***************************************************************************)
(* dsp/ParamBlock.h's stages and the order they run in: the default order, *)
(* the chain page's moves, and how an order written before v6 is brought   *)
(* forward.  A stage is named after its kStage id.                         *)
(***************************************************************************)
EXTENDS Integers, Sequences, SequencesExt

\* kDefaultOrder
DefaultOrder ==
  <<"autoGain", "equalizer", "graphic", "loudness", "dynBass", "bass", "exciter",
    "tube", "transient", "comp", "multiband", "nightMode", "reverb", "width",
    "crossfeed", "matrix", "convolution", "delay", "clipper", "limiter">>

Stage == ToSet(DefaultOrder)

\* isPermutation, for an order of kStageCount entries that name stages.
IsOrderOf(stages, order) == Len(order) = Cardinality(stages) /\ ToSet(order) = stages
IsOrder(order) == IsOrderOf(Stage, order)

\* moveStage's two memmoves.
Moved(order, from, to) == InsertAt(RemoveAt(order, from), to, order[from])

Place(order, stage) == CHOOSE i \in DOMAIN order : order[i] = stage

\* The stages a file of a version knows: the bits its enable mask may hold.
Since3 == {"equalizer"}
Since4 == {"matrix", "delay", "loudness"}
Since5 == {"limiter", "dynBass", "graphic"}
Since6 == {"transient", "clipper", "autoGain", "nightMode"}
Added(version) ==
  (IF version < 3 THEN Since3 ELSE {}) \cup (IF version < 4 THEN Since4 ELSE {})
    \cup (IF version < 5 THEN Since5 ELSE {}) \cup (IF version < 6 THEN Since6 ELSE {})
Known(version) == Stage \ Added(version)

\* kPlace: where each of v6's stages goes in an order that lacks it.
Beside(order, stage, anchor, after) ==
  InsertAt(order, Place(order, anchor) + after, stage)

\* Mutant of Upgraded: the new stages go on the end.
UpgradedAtEnd(order) == order \o <<"autoGain", "transient", "nightMode", "clipper">>

\* load(): the leveller first, the transient shaper before the compressor, night
\* mode after the multiband, the clipper before the limiter.
Upgraded(order) ==
  Beside(Beside(Beside(<<"autoGain">> \o order,
    "transient", "comp", 0), "nightMode", "multiband", 1), "clipper", "limiter", 0)

=============================================================================
