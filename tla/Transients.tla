----------------------------- MODULE Transients -----------------------------
(***************************************************************************)
(* dsp/Transient: the shaper that sharpens onsets and lengthens decays by  *)
(* the difference of two envelopes, in decibels.                           *)
(*                                                                         *)
(* Two of them run side by side on the same hits, the second one hearing   *)
(* everything Quieter decibels below the first.  Levels and gains are in   *)
(* whole decibels, a knob in halves of its travel, and a follower's rate in*)
(* quarters.                                                               *)
(***************************************************************************)
EXTENDS Samples

CONSTANTS
  Hits,             \* peaks a sample may have
  Silent,           \* and a sample with no peak at all
  Quieter,
  TransientParams,  \* [attack, sustain, gate]
  Rates,            \* of the four followers: [up, down]
  MaxStepDb,        \* m_maxStepDb
  kMaxGainDb,
  Relative,         \* how far under the envelope the floor is
  kHardFloorDb,
  MaxHits, MaxKnobs  \* bounds: samples, settings changed

\* No level is under linToDb's own bottom, kHardFloorDb, and the gate, which setParams
\* keeps above -90, is over it by more than the relative floor.
ASSUME ShaperAssumption ==
  /\ Quieter \in Nat /\ Relative \in Nat /\ MaxStepDb \in Nat /\ kMaxGainDb \in Nat
  /\ kHardFloorDb \in Int
  /\ \A i \in 1..4 : Rates[i].up \in Nat /\ Rates[i].down \in Nat
  /\ Silent \notin Int
  /\ \A peak \in Hits : peak \in Int /\ peak - Quieter >= kHardFloorDb
  /\ \A p \in TransientParams :
       /\ p.attack \in Int /\ p.sustain \in Int /\ p.gate \in Int
       /\ p.gate + 1 >= kHardFloorDb + Relative

VARIABLES
  knobs,    \* m_p
  shapers,  \* the two: [primed, env, gain]
  shut,     \* one of them has been gated since the last reset
  hits, knobTurns

transientVars == <<knobs, shapers, shut, hits, knobTurns>>

Idle == [primed |-> FALSE, env |-> [i \in 1..4 |-> 0], gain |-> 0]

TransientInit ==
  /\ knobs \in TransientParams
  /\ shapers = [t \in 1..2 |-> Idle] /\ shut = FALSE
  /\ hits = 0 /\ knobTurns = 0

----------------------------------------------------------------------------

Higher(x, y) == IF x > y THEN x ELSE y

\* A follower rises and falls at rates of its own.
Followed(env, x) ==
  [i \in 1..4 |-> env[i] + ((x - env[i]) * (IF x > env[i] THEN Rates[i].up ELSE Rates[i].down)) \div 4]

\* Mutant of Floor: the fixed floor the comment warns of.
FloorFixed(e4) == kHardFloorDb \div 2

\* The floor goes with the envelope that holds the peaks.
Floor(e4) == Higher(e4 - Relative, kHardFloorDb)

\* Each of the two differences counts one way only.
Wished(env) ==
  Clamp((3 * (knobs.attack * Higher(0, env[1] - env[2])
              + knobs.sustain * Higher(0, env[4] - env[3]))) \div 4, -kMaxGainDb, kMaxGainDb)

Open(env) == env[4] > knobs.gate + 1

\* Both knobs in the middle: nothing is followed.  And nothing before the first peak.
Still(s, peak) == (knobs.attack = 0 /\ knobs.sustain = 0) \/ (~s.primed /\ peak = Silent)

Shaped(s, peak) ==
  IF Still(s, peak) THEN s
  ELSE LET seeded == IF s.primed THEN s.env ELSE [i \in 1..4 |-> peak]
           env == Followed(seeded, Higher(IF peak = Silent THEN kHardFloorDb ELSE peak, Floor(seeded[4])))
           target == IF Open(env) THEN Wished(env) ELSE 0 IN
       [primed |-> TRUE, env |-> env, gain |-> s.gain + Clamp(target - s.gain, -MaxStepDb, MaxStepDb)]

Heard(peak, t) == IF peak = Silent \/ t = 1 THEN peak ELSE peak - Quieter

TransientSample(peak) ==
  /\ hits < MaxHits /\ hits' = hits + 1
  /\ shapers' = [t \in 1..2 |-> Shaped(shapers[t], Heard(peak, t))]
  /\ shut' = (shut \/ \E t \in 1..2 : shapers'[t].primed /\ ~Open(shapers'[t].env))
  /\ UNCHANGED <<knobs, knobTurns>>

SetTransient(p) ==
  /\ knobTurns < MaxKnobs /\ knobTurns' = knobTurns + 1
  /\ knobs' = p /\ UNCHANGED <<shapers, shut, hits>>

ResetTransient ==
  /\ knobTurns < MaxKnobs /\ knobTurns' = knobTurns + 1
  /\ shapers' = [t \in 1..2 |-> Idle] /\ shut' = FALSE
  /\ UNCHANGED <<knobs, hits>>

TransientNext ==
  \/ \E peak \in Hits \cup {Silent} : TransientSample(peak)
  \/ \E p \in TransientParams : p # knobs /\ SetTransient(p)
  \/ ResetTransient

----------------------------------------------------------------------------

\* "Pianissimo and fortissimo get identical treatment" (dsp/Transient.h:13): the same
\* hits at another level draw the same gain, sample for sample, from the first one after
\* a reset on, through pauses and changes of the knobs, until the gate shuts one of them
\* out; and neither gain ever leaves its range.
LevelIndependent ==
  /\ ~shut => shapers[1].gain = shapers[2].gain
  /\ \A t \in 1..2 : shapers[t].gain \in -kMaxGainDb..kMaxGainDb
=============================================================================
