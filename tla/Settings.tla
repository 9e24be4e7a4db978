------------------------------ MODULE Settings ------------------------------
(***************************************************************************)
(* The numbers behind the controls: what the models' setters clamp to      *)
(* (lo..hi), what sanitise() lets over the wire (wlo..whi), what the model *)
(* is constructed with (start), and what the dsp layer's Params{} holds    *)
(* (plain).  In hundredths of the code's unit; a switch is 0 or 1.  A      *)
(* setting without a control has hi < lo.                                  *)
(*                                                                         *)
(* Stages repeated in the code (the bands of the multiband compressor, the *)
(* speakers of the delay) have one representative; the routing matrix is   *)
(* the number of its preset, -1 for any other, 0 the identity.             *)
(***************************************************************************)
EXTENDS Integers

S(stage, lo, hi, wlo, whi, start, plain) ==
  [stage |-> stage, lo |-> lo, hi |-> hi, wlo |-> wlo, whi |-> whi,
   start |-> start, plain |-> plain]

Compressors ==
  [compThreshold |-> S("comp", -6000, 0, -9600, 2400, -1800, 0),
   compRatio |-> S("comp", 100, 10000, 100, 10000, 400, 100),
   compKnee |-> S("comp", 0, 2400, 0, 2400, 600, 0),
   compAttack |-> S("comp", 10, 20000, 10, 20000, 500, 500),
   compRelease |-> S("comp", 500, 200000, 100, 200000, 8000, 5000),
   compMakeup |-> S("comp", -1200, 2400, -2400, 2400, 0, 0),
   compAutoKnee |-> S("comp", 0, 1, 0, 1, 0, 0)]

Reverbs ==
  [reverbRoom |-> S("reverb", 0, 100, 0, 100, 60, 50),
   reverbDamping |-> S("reverb", 0, 100, 0, 100, 50, 50),
   reverbDensity |-> S("reverb", 0, 100, 0, 100, 50, 50),
   reverbBandwidth |-> S("reverb", 0, 100, 0, 100, 85, 100),
   reverbPreDelay |-> S("reverb", 0, 20000, 0, 20000, 2000, 0),
   reverbWidth |-> S("reverb", 0, 100, 0, 100, 100, 100),
   reverbWet |-> S("reverb", 0, 100, 0, 100, 25, 30),
   reverbDry |-> S("reverb", 0, 100, 0, 100, 100, 100)]

Effects ==
  [tubeDrive |-> S("tube", 100, 2000, 10, 3200, 200, 200),
   tubeBias |-> S("tube", 0, 80, 0, 200, 20, 20),
   tubeMix |-> S("tube", 0, 100, 0, 100, 50, 50),
   tubeOutput |-> S("tube", 0, -1, -2400, 1200, 0, 0),
   bassCutoff |-> S("bass", 4000, 25000, 2000, 40000, 9000, 9000),
   bassAmount |-> S("bass", 0, 100, 0, 100, 50, 50),
   bassDrive |-> S("bass", 100, 1200, 10, 3200, 400, 400),
   bassRemoveOriginal |-> S("bass", 0, 1, 0, 1, 0, 0),
   dynBassMaxGain |-> S("dynBass", 0, 2400, 0, 2400, 600, 600),
   dynBassCutoff |-> S("dynBass", 3000, 25000, 3000, 25000, 10000, 10000),
   dynBassRelease |-> S("dynBass", 1000, 200000, 1000, 200000, 25000, 25000),
   exciterFreq |-> S("exciter", 100000, 1200000, 2000, 2000000, 350000, 350000),
   exciterDrive |-> S("exciter", 100, 1500, 100, 3200, 300, 300),
   exciterAmount |-> S("exciter", 0, 100, 0, 100, 30, 30),
   exciterThreshold |-> S("exciter", -12000, -1200, -12000, -1200, -4500, -4500),
   stereoWidth |-> S("width", 0, 200, 0, 200, 100, 100),
   monoBelow |-> S("width", 0, 40000, 0, 50000, 12000, 0),
   widthPhase |-> S("width", 0, 100, 0, 100, 0, 0),
   crossfeedCutoff |-> S("crossfeed", 30000, 150000, 2000, 400000, 70000, 70000),
   crossfeedLevel |-> S("crossfeed", -1800, 0, -6000, 0, -450, -450),
   lowCross |-> S("multiband", 6000, 80000, 2000, 200000, 25000, 25000),
   highCross |-> S("multiband", 100000, 1200000, 20000, 2000000, 300000, 300000),
   bandThreshold |-> S("multiband", 0, -1, -9600, 2400, -1800, 0)]

LaterEffects ==
  [transientAttack |-> S("transient", -100, 100, -100, 100, 0, 0),
   transientSustain |-> S("transient", -100, 100, -100, 100, 0, 0),
   transientAttackMs |-> S("transient", 100, 50000, 100, 50000, 3000, 3000),
   transientReleaseMs |-> S("transient", 100, 500000, 100, 500000, 30000, 30000),
   transientThreshold |-> S("transient", 0, -1, -9000, -2000, -6000, -6000),
   clipperDrive |-> S("clipper", 0, 2400, 0, 2400, 0, 0),
   clipperCeiling |-> S("clipper", -2400, 0, -2400, 0, -30, -30),
   clipperKnee |-> S("clipper", 0, 600, 0, 600, 100, 100),
   clipperOversample |-> S("clipper", 0, 1, 0, 1, 1, 1),
   autoGainTarget |-> S("autoGain", -4000, -1000, -4000, -1000, -2000, -2000),
   autoGainMax |-> S("autoGain", 0, 2500, 0, 2500, 1200, 1200),
   autoGainRate |-> S("autoGain", 25, 2000, 25, 2000, 300, 300),
   autoGainWindow |-> S("autoGain", 0, 1200, 0, 1200, 300, 300),
   autoGainGate |-> S("autoGain", 0, -1, -7000, -2000, -5000, -5000),
   nightProfile |-> S("nightMode", 0, 5, 0, 5, 1, 1),
   nightBoost |-> S("nightMode", 0, 100, 0, 100, 100, 100),
   nightCut |-> S("nightMode", 0, 100, 0, 100, 100, 100),
   nightReference |-> S("nightMode", -4000, -1000, -4000, -1000, -2400, -2400)]

Outputs ==
  [matrix |-> S("matrix", -1, 4, -1, 4, 0, 0),
   delay |-> S("delay", 0, 10000, 0, 10000, 0, 0),
   loudnessReference |-> S("loudness", -12000, 0, -12000, 0, 0, 0),
   loudnessAmount |-> S("loudness", 0, 100, 0, 100, 100, 0),
   limiterGain |-> S("limiter", -2400, 2400, -2400, 2400, 0, 0),
   limiterThreshold |-> S("limiter", -3000, 0, -3000, 0, -30, -30),
   limiterRelease |-> S("limiter", 100, 100000, 100, 100000, 10000, 10000),
   limiterLookahead |-> S("limiter", 0, 1000, 0, 1000, 150, 150),
   limiterTruePeak |-> S("limiter", 0, 1, 0, 1, 1, 1),
   graphicAmount |-> S("graphic", 0, 100, 0, 100, 100, 0),
   convolutionMix |-> S("convolution", 0, 100, 0, 100, 100, 100),
   convolutionTrim |-> S("convolution", -2400, 1200, -2400, 1200, 0, 0)]

\* Every setting, whichever model keeps it.
Merge(f, g) == [x \in DOMAIN f \cup DOMAIN g |-> IF x \in DOMAIN f THEN f[x] ELSE g[x]]
All == Merge(Merge(Merge(Compressors, Reverbs), Merge(Effects, LaterEffects)), Outputs)
Setting == DOMAIN All
Of(stage) == {s \in Setting : All[s].stage = stage}
Start == [s \in Setting |-> All[s].start]
Plain == [s \in Setting |-> All[s].plain]
Nothing == [s \in Setting |-> 0]

Within(v, lo, hi) == IF v < lo THEN lo ELSE IF v > hi THEN hi ELSE v

\* What a setter makes of the number it is given.
HasControl(s) == All[s].lo <= All[s].hi
Clamped(s, v) == Within(v, All[s].lo, All[s].hi)
InRange(s, v) == HasControl(s) /\ v = Clamped(s, v)

\* sanF
SanF(value, s) == Within(value[s], All[s].wlo, All[s].whi)

\* sanitise(): every number within the wire's bounds; a mono crossover below
\* 20 Hz is off; the high crossover stays half as high again as the low one; a
\* profile out of range is none.
Sanitised(value) ==
  LET bounded == [s \in Setting |-> SanF(value, s)] IN
  [bounded EXCEPT
     !["monoBelow"] = IF @ < 2000 THEN 0 ELSE @,
     !["highCross"] = IF 2 * @ < 3 * bounded["lowCross"] THEN (3 * bounded["lowCross"]) \div 2 ELSE @,
     !["nightProfile"] = IF value["nightProfile"] \in 0..5 THEN @ ELSE 0]

\* The models' restore(): the block's numbers, but a limiter that never
\* releases is no limiter and an amount of nothing is all of it.
Restored(value) ==
  [s \in Setting |->
     IF s \in {"loudnessAmount", "graphicAmount"} /\ value[s] <= 0 THEN 100
     ELSE IF All[s].stage = "limiter" /\ value["limiterRelease"] <= 0 THEN Plain[s]
     ELSE value[s]]

=============================================================================
