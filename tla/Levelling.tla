----------------------------- MODULE Levelling -----------------------------
(***************************************************************************)
(* dsp/AutoGain and the dsp/LoudnessMeter under it: auto volume, which     *)
(* holds the loudness of a programme at a target with one slow gain, and   *)
(* night mode, which follows a published curve from level to gain.         *)
(*                                                                         *)
(* A programme is the energy each channel carries through one buffer, after*)
(* the K-weighting filter.  Loudness and gains are in whole decibels; the  *)
(* curves are in Fines-ths of one, which make their slopes whole numbers.  *)
(***************************************************************************)
EXTENDS Samples, Integers, Sequences, FiniteSetsExt, SequencesExt

CONSTANTS
  Programmes,      \* what may be playing: [1..n -> energy], n the stream's channels
  Lufs(_),         \* -0.691 + 10 log10 of the window's sum
  LevellerParams,  \* [target, max, up, down, creep, zone, gate]
  BlockBuffers,    \* buffers in a meter block of 100 ms
  WindowBlocks,    \* blocks in the window
  Enough,          \* buffers after which a steady programme is to be level
  NightParams,     \* [profile, boost, cut], the scalars in tenths
  NightLevels,     \* levels a tick may have, relative to the reference
  Retained,        \* quarters of the old value a tick keeps, for each time constant
  EnoughTicks

VARIABLES
  leveller,               \* m_p
  acc, accCount,          \* the block being filled
  ring, head, filled, sum,  \* the window
  lufs,
  gainDb, targetDb,
  playing, steady,        \* the last programme, and for how many buffers it has been on
  night, levelDb, nightDb, level, ticks  \* DynamicRange: m_p, m_levelDb, m_gainDb; the
                                         \* last level, and for how many ticks

levellerVars == <<leveller, acc, accCount, ring, head, filled, sum, lufs, gainDb, targetDb,
                  playing, steady>>
nightVars == <<night, levelDb, nightDb, level, ticks>>
levelVars == <<levellerVars, nightVars>>

Unknown == -200
Distance(a, b) == IF a < b THEN b - a ELSE a - b

LevellerInit ==
  /\ leveller \in LevellerParams
  /\ acc = 0 /\ accCount = 0
  /\ ring = [i \in 0..WindowBlocks - 1 |-> 0] /\ head = 0 /\ filled = 0 /\ sum = 0
  /\ lufs = Unknown /\ gainDb = 0 /\ targetDb = 0
  /\ playing \in Programmes /\ steady = 0

----------------------------------------------------------------------------
(* The meter.                                                               *)

\* weightFor, in hundredths: no LFE in one or two channels; in more it is the fourth
\* and counts nothing, and the surrounds count 1.41.
WeightFor(c, channels) ==
  IF channels <= 2 THEN 100 ELSE IF c = 4 THEN 0 ELSE IF c <= 3 THEN 100 ELSE 141

Energy(p) == MapThenSumSet(LAMBDA c : WeightFor(c, Len(p)) * p[c], DOMAIN p)

\* A window has blocks and a block buffers; the programmes are energies, and the loudest
\* one's are as loud as they get; the settings are clamped (AutoGain.cpp:42, 52, 60,
\* 73: a rate and a creep that are not nothing, a gate between -70 and -20); and Enough
\* leaves time for a window, for what is left of a block and, a decibel a buffer, for
\* the way from the one setting's bound to the other's.
ASSUME LevellerAssumption ==
  /\ BlockBuffers \in Nat \ {0} /\ WindowBlocks \in Nat \ {0} /\ Enough \in Nat
  /\ Programmes \subseteq Seq(Nat)
  /\ \E p \in Programmes :
       /\ \A q \in Programmes : Energy(q) <= Energy(p)
       /\ \A s \in 0..WindowBlocks * Energy(p) : Lufs(s) \in Int
  /\ LevellerParams \subseteq
       [target : Int, max : Nat, up : Nat \ {0}, down : Nat \ {0}, creep : Nat \ {0},
        zone : Nat, gate : {g \in Int : g > Unknown}]
  /\ \A p, q \in LevellerParams :
       Enough >= (WindowBlocks + 1) * BlockBuffers + p.max + q.max

Crossed == accCount + 1 >= BlockBuffers

\* A block into the ring: the sum is kept by difference, and made anew each time the
\* ring has gone round.
Block(mean) ==
  /\ ring' = [ring EXCEPT ![head] = mean]
  /\ head' = (head + 1) % WindowBlocks
  /\ filled' = IF filled < WindowBlocks THEN filled + 1 ELSE filled
  /\ sum' = IF head' = 0 THEN MapThenSumSet(LAMBDA i : ring'[i], DOMAIN ring)
            ELSE sum - ring[head] + mean
  /\ lufs' = IF filled' >= WindowBlocks /\ sum' > 0 THEN Lufs(sum') ELSE Unknown

Meter(p) ==
  IF Crossed THEN Block((acc + Energy(p)) \div BlockBuffers) /\ acc' = 0 /\ accCount' = 0
  ELSE acc' = acc + Energy(p) /\ accCount' = accCount + 1
       /\ UNCHANGED <<ring, head, filled, sum, lufs>>

----------------------------------------------------------------------------
(* Auto volume.                                                             *)

\* Not yet a whole window, or below the gate.
Gated(ready, loudness) == ~ready \/ loudness < leveller.gate

Wanted(loudness) == Clamp(leveller.target - loudness, -leveller.max, leveller.max)

\* Mutant of UpdateTarget: the meter hears what the stage puts out.
UpdateTargetClosed(ready, loudness) ==
  IF Gated(ready, loudness) THEN gainDb ELSE Wanted(loudness + gainDb)

\* updateTarget(): behind the gate the gain stays where it is.
UpdateTarget(ready, loudness) == IF Gated(ready, loudness) THEN gainDb ELSE Wanted(loudness)

\* One step towards the target: a creep inside the zone, and outside it slower up than
\* down.
Moved(target) ==
  LET step == IF Distance(target, gainDb) <= leveller.zone THEN leveller.creep
              ELSE IF target > gainDb THEN leveller.up ELSE leveller.down IN
  gainDb + Clamp(target - gainDb, -step, step)

Level(p) ==
  /\ Meter(p)
  /\ targetDb' = IF Crossed THEN UpdateTarget(filled' >= WindowBlocks, lufs') ELSE targetDb
  /\ gainDb' = Moved(targetDb')
  /\ playing' = p
  /\ steady' = IF p # playing THEN 1 ELSE IF steady < Enough THEN steady + 1 ELSE steady
  /\ UNCHANGED leveller

SetLeveller(p) ==
  /\ leveller' = p /\ steady' = 0
  /\ UNCHANGED <<acc, accCount, ring, head, filled, sum, lufs, gainDb, targetDb, playing>>

LevellerNext ==
  \/ \E p \in Programmes : Level(p)
  \/ \E p \in LevellerParams : p # leveller /\ SetLeveller(p)

----------------------------------------------------------------------------
(* Night mode.                                                              *)

Fines == 2280

\* kProfiles: the knots of a curve, [level, gain], and how far a level has to jump for
\* the fast time constants.
Knot(l, g) == [level |-> l, gain |-> g * Fines]
Profile(knots, attack, release) == [knots |-> knots, attack |-> attack, release |-> release]
Profiles ==
  << Profile(<<Knot(-12, 6), Knot(0, 0), Knot(5, 0), Knot(15, -5), Knot(35, -24)>>, 15, 20),
     Profile(<<Knot(-22, 6), Knot(-10, 0), Knot(10, 0), Knot(20, -5), Knot(40, -24)>>, 15, 20),
     Profile(<<Knot(-24, 12), Knot(0, 0), Knot(5, 0), Knot(15, -5), Knot(35, -24)>>, 15, 20),
     Profile(<<Knot(-34, 12), Knot(-10, 0), Knot(10, 0), Knot(10, 0), Knot(40, -15)>>, 15, 20),
     Profile(<<Knot(-19, 15), Knot(0, 0), Knot(5, 0), Knot(15, -5), Knot(35, -24)>>, 10, 10) >>

Lerp(a, b, l) == a.gain + ((b.gain - a.gain) * (l - a.level)) \div (b.level - a.level)

\* curveGainDb: flat before the first knot and after the last, straight in between.
CurveGain(profile, l) ==
  LET k == Profiles[profile].knots IN
  IF l <= k[1].level THEN k[1].gain
  ELSE IF l >= k[5].level THEN k[5].gain
  ELSE LET i == Max({j \in 1..4 : k[j].level <= l}) IN Lerp(k[i], k[i + 1], l)

\* Which of the four time constants a jump of the level calls for.
Constant(profile, delta) ==
  IF delta > Profiles[profile].attack THEN "fastAttack"
  ELSE IF delta > 0 THEN "attack"
  ELSE IF -delta <= Profiles[profile].release THEN "release" ELSE "fastRelease"

Smoothed(old, new, quarters) == (quarters * old + (4 - quarters) * new) \div 4

\* The curve, the lift and the cut scaled each on its own.
Scaled(g) == (g * (IF g > 0 THEN night.boost ELSE night.cut)) \div (10 * Fines)

\* The scalars are clamped (AutoGain.cpp:206, 207), and of the profiles "none" never gets
\* here.  The time constants are half-lives, and a tick of the model is one of the
\* slowest: no constant keeps more than half of what was.
ASSUME NightAssumption ==
  /\ NightParams \subseteq [profile : DOMAIN Profiles, boost : 0..10, cut : 0..10]
  /\ NightLevels \subseteq Int
  /\ Retained \in [{"fastAttack", "attack", "release", "fastRelease"} -> 0..2]
  /\ EnoughTicks \in Nat /\ EnoughTicks >= 6

NightInit ==
  /\ night \in NightParams
  /\ levelDb = -60 /\ nightDb = 0
  /\ level \in NightLevels /\ ticks = 0

NightTick(l) ==
  LET kept == Retained[Constant(night.profile, l - levelDb)] IN
  /\ levelDb' = Smoothed(levelDb, l, kept)
  /\ nightDb' = Smoothed(nightDb, Scaled(CurveGain(night.profile, l)), kept)
  /\ level' = l
  /\ ticks' = IF l # level THEN 1 ELSE IF ticks < EnoughTicks THEN ticks + 1 ELSE ticks
  /\ UNCHANGED night

SetNight(p) == night' = p /\ ticks' = 0 /\ UNCHANGED <<levelDb, nightDb, level>>

NightNext ==
  \/ \E l \in NightLevels : NightTick(l)
  \/ \E p \in NightParams : p # night /\ SetNight(p)

----------------------------------------------------------------------------

\* A programme that stays the same ends at the target, whatever was played before it
\* and whatever the settings were, and nothing moves the gain any more; one behind the
\* gate leaves it where it was (dsp/AutoGain.h:31-33).
ProgrammeEndsLevel ==
  steady = Enough =>
    LET loudness == Lufs(WindowBlocks * Energy(playing)) IN
    IF Energy(playing) = 0 \/ loudness < leveller.gate THEN targetDb = gainDb
    ELSE gainDb = Wanted(loudness)

\* Night mode comes to within a decibel of the curve's gain for a steady level, each of
\* the two halves of the curve scaled by its own control.
NightFollowsTheCurve ==
  ticks = EnoughTicks =>
    Distance(nightDb, Scaled(CurveGain(night.profile, level))) <= 1

\* On every curve what is louder stays louder: no slope of the gain is steeper than
\* the level, and none turns up (dsp/AutoGain.h:94-97).
CurvesKeepTheOrder ==
  \A p \in DOMAIN Profiles : \A l \in -45..45 :
    LET rise == CurveGain(p, l + 1) - CurveGain(p, l) IN rise \in -Fines..0

\* All three: auto volume comes to rest where its settings say, night mode's gain follows
\* its curve, and the curve never makes the louder of two levels the quieter one.
GainsAreFollowed == ProgrammeEndsLevel /\ NightFollowsTheCurve /\ CurvesKeepTheOrder
=============================================================================
