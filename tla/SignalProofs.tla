---------------------------- MODULE SignalProofs ----------------------------
(***************************************************************************)
(* Proofs about what runs in the audio engine: the references of the COM   *)
(* object, the two envelopes of the transient shaper, the equaliser's list *)
(* of sections, the delay lines of the routing, the limiter's window, the  *)
(* partitions of the convolution, the gains of auto volume and night mode  *)
(* and, apart from those, the handing over of a kernel between its builder *)
(* and the audio thread.                                                   *)
(*                                                                         *)
(* A behaviour of SignalSpec follows one part and leaves the others where  *)
(* they started, so a part's invariant needs its own actions only.         *)
(***************************************************************************)
EXTENDS MCSignal, KernelHandoff, SequenceTheorems, FiniteSetTheorems, WellFoundedInduction, TLAPS

----------------------------------------------------------------------------
(* The object.                                                              *)

\* Who is counted where.  Stand-alone, the object counts what it handed out; within an
\* outer object, that one counts everything the clients hold and keeps one reference
\* of its own on the inner object as long as it is there.
CountsAgree ==
  /\ refs["factory"] = factoryRef
  /\ ~aggregated => /\ outerCount = 0 /\ refs["outer"] = 0
                    /\ count = refs["inner"] + refs["apo"]
  /\ aggregated => /\ refs["inner"] = 0
                   /\ outerCount = refs["outer"] + refs["apo"]
                   /\ count = IF outerCount > 0 THEN 1 ELSE 0
  /\ exists <=> count > 0

ComTypes ==
  /\ count \in Nat /\ outerCount \in Nat /\ factoryRef \in Nat
  /\ refs \in [Pointers -> Nat]

ComInv == ComTypes /\ CountsAgree

LEMMA ComStarts == ComInit => ComInv
BY SMT DEF ComInit, ComInv, ComTypes, CountsAgree, Pointers

LEMMA ComFrame == ComInv /\ UNCHANGED comVars => ComInv'
BY DEF comVars, ComInv, ComTypes, CountsAgree

\* What a client gains or gives back it holds one more or one less of.
LEMMA Gaining ==
  ASSUME refs \in [Pointers -> Nat], NEW p \in Pointers, Gained(p)
  PROVE  /\ refs' \in [Pointers -> Nat]
         /\ refs'[p] = refs[p] + 1
         /\ \A q \in Pointers \ {p} : refs'[q] = refs[q]
BY SMT DEF Pointers, Gained

LEMMA Losing ==
  ASSUME refs \in [Pointers -> Nat], NEW p \in Pointers, Lost(p), refs[p] > 0
  PROVE  /\ refs' \in [Pointers -> Nat]
         /\ refs'[p] = refs[p] - 1
         /\ \A q \in Pointers \ {p} : refs'[q] = refs[q]
BY SMT DEF Pointers, Lost

\* The APO interfaces are counted by the outer object when there is one.
LEMMA WhoCounts ==
  ASSUME NEW p \in Pointers \ {"factory"}, p = "inner" => ~aggregated, p = "outer" => aggregated
  PROVE  /\ CountedBy(p) \in {"inner", "outer"}
         /\ CountedBy(p) = "inner" => p \in {"inner", "apo"} /\ ~aggregated
         /\ CountedBy(p) = "outer" => p \in {"outer", "apo"} /\ aggregated
<1>1. /\ CountedBy("inner") = "inner" /\ CountedBy("outer") = "outer"
      /\ aggregated => CountedBy("apo") = "outer"
      /\ ~aggregated => CountedBy("apo") = "inner"
  BY Zenon DEF CountedBy
<1> QED BY <1>1 DEF Pointers

\* Counting a reference of p keeps the counts right when the clients' holdings change
\* by as much.
LEMMA Counting ==
  ASSUME ComInv, NEW p \in Pointers \ {"factory"}, NEW d \in {-1, 1},
         refs[p] + d >= 0, exists, p = "inner" => ~aggregated, p = "outer" => aggregated,
         Counts(CountedBy(p), d), refs' \in [Pointers -> Nat], refs'[p] = refs[p] + d,
         \A q \in Pointers \ {p} : refs'[q] = refs[q],
         UNCHANGED <<aggregated, factoryRef>>
  PROVE  ComInv'
<1> USE DEF ComInv, ComTypes, CountsAgree, Pointers
<1>0. /\ refs["inner"] \in Nat /\ refs["apo"] \in Nat /\ refs["outer"] \in Nat
      /\ refs["factory"] \in Nat /\ refs' \in [Pointers -> Nat]
      /\ count \in Nat /\ outerCount \in Nat /\ factoryRef' = factoryRef
      /\ factoryRef \in Nat /\ refs["factory"] = factoryRef
  BY SMT
<1>1. aggregated' <=> aggregated
  OBVIOUS
<1>2. exists' <=> count' > 0
  <2>1. exists' <=> exists /\ count' > 0
    BY DEF Counts
  <2> QED BY <2>1
<1>3. CASE CountedBy(p) = "inner"
  <2>1. p \in {"inner", "apo"} /\ ~aggregated
    BY <1>3, WhoCounts
  <2>2. outerCount = 0 /\ refs["outer"] = 0 /\ count = refs["inner"] + refs["apo"]
    BY <2>1
  <2>3. outerCount' = 0 /\ count' = count + d
    BY <1>3, <2>1, <2>2 DEF Counts, Settled
  <2>4. refs'["outer"] = 0 /\ count' = refs'["inner"] + refs'["apo"] /\ count' \in Nat
        /\ refs'["factory"] = factoryRef
    BY <1>0, <2>1, <2>2, <2>3, SMT
  <2> QED BY <1>0, <1>1, <1>2, <2>1, <2>3, <2>4
<1>4. CASE CountedBy(p) = "outer"
  <2>1. p \in {"outer", "apo"} /\ aggregated
    BY <1>4, WhoCounts
  <2>2. refs["inner"] = 0 /\ outerCount = refs["outer"] + refs["apo"]
        /\ count = IF outerCount > 0 THEN 1 ELSE 0
    BY <2>1
  <2>3. count > 0
    OBVIOUS
  <2>4. outerCount' = outerCount + d
        /\ count' = IF outerCount > 0 /\ outerCount + d = 0 THEN count - 1 ELSE count
    BY <1>0, <1>4, <2>1, SMT DEF Counts, Settled
  <2>5. refs'["inner"] = 0 /\ outerCount' = refs'["outer"] + refs'["apo"]
        /\ outerCount' \in Nat /\ refs'["factory"] = factoryRef
    BY <1>0, <2>1, <2>2, <2>4, SMT
  <2>6. count' \in Nat /\ count' = IF outerCount' > 0 THEN 1 ELSE 0
    BY <1>0, <2>2, <2>3, <2>4, <2>5, SMT
  <2> QED BY <1>0, <1>1, <1>2, <2>1, <2>5, <2>6
<1> QED BY <1>3, <1>4, WhoCounts

\* A pointer that a client holds points into something that is there.
LEMMA HeldIsThere ==
  ASSUME ComInv, NEW p \in Pointers \ {"factory"}, refs[p] > 0
  PROVE  exists /\ (p = "inner" => ~aggregated) /\ (p = "outer" => aggregated)
BY SMT DEF ComInv, ComTypes, CountsAgree, Pointers

LEMMA ComStep == ComInv /\ ComNext => ComInv'
<1> SUFFICES ASSUME ComInv, ComNext PROVE ComInv'
  OBVIOUS
<1>0. /\ refs \in [Pointers -> Nat]
      /\ refs["inner"] \in Nat /\ refs["apo"] \in Nat /\ refs["outer"] \in Nat
      /\ refs["factory"] \in Nat
  BY DEF ComInv, ComTypes, Pointers
<1>1. CASE GetClassObject
  <2>1. /\ refs' \in [Pointers -> Nat] /\ refs'["factory"] = refs["factory"] + 1
        /\ \A q \in Pointers \ {"factory"} : refs'[q] = refs[q]
    BY <1>0, <1>1, Gaining DEF GetClassObject, Pointers
  <2> QED BY <1>0, <1>1, <2>1, SMT DEF GetClassObject, ComInv, ComTypes, CountsAgree, Pointers
<1>2. ASSUME NEW p \in {"inner", "apo"}, CreateAlone(p) PROVE ComInv'
  <2>1. /\ refs' \in [Pointers -> Nat] /\ refs'[p] = refs[p] + 1
        /\ \A q \in Pointers \ {p} : refs'[q] = refs[q]
    BY <1>0, <1>2, Gaining DEF CreateAlone, Pointers
  <2>2. refs["inner"] = 0 /\ refs["apo"] = 0 /\ refs["outer"] = 0
    BY <1>0, <1>2, SMT DEF CreateAlone, ComInv, ComTypes, CountsAgree
  <2> QED BY <1>0, <1>2, <2>1, <2>2, SMT
    DEF CreateAlone, ComInv, ComTypes, CountsAgree, Pointers
<1>3. CASE CreateAggregated
  <2>1. /\ refs' \in [Pointers -> Nat] /\ refs'["outer"] = refs["outer"] + 1
        /\ \A q \in Pointers \ {"outer"} : refs'[q] = refs[q]
    BY <1>0, <1>3, Gaining DEF CreateAggregated, Pointers
  <2>2. refs["inner"] = 0 /\ refs["apo"] = 0 /\ refs["outer"] = 0
    BY <1>0, <1>3, SMT DEF CreateAggregated, ComInv, ComTypes, CountsAgree
  <2> QED BY <1>0, <1>3, <2>1, <2>2, SMT
    DEF CreateAggregated, ComInv, ComTypes, CountsAgree, Pointers
<1>4. ASSUME NEW from \in Pointers \ {"factory"}, NEW p \in Pointers \ {"factory"}, Query(from, p)
      PROVE ComInv'
  <2>1. /\ refs' \in [Pointers -> Nat] /\ refs'[p] = refs[p] + 1
        /\ \A q \in Pointers \ {p} : refs'[q] = refs[q]
    BY <1>0, <1>4, Gaining DEF Query
  <2>2. exists /\ (from = "outer" => aggregated)
    BY <1>4, HeldIsThere DEF Query
  <2>3. p = "inner" => ~aggregated
    BY <1>4 DEF Query
  <2>4. p = "outer" => aggregated
    <3>1. from = "inner" => ~aggregated
      BY <1>4, HeldIsThere DEF Query
    <3>2. p = "outer" => CountedBy(from) = "outer"
      BY <1>4 DEF Query
    <3> QED BY <2>2, <3>1, <3>2, WhoCounts
  <2>5. Counts(CountedBy(p), 1)
    <3>1. p = "outer" => CountedBy(p) = "outer"
      BY Zenon DEF CountedBy
    <3> QED BY <1>4, <3>1 DEF Query, CountedFor
  <2> QED
    <3>1. refs[p] + 1 >= 0 /\ UNCHANGED <<aggregated, factoryRef>>
      BY <1>0, <1>4 DEF Query, Pointers
    <3> QED BY <2>1, <2>2, <2>3, <2>4, <2>5, <3>1, Counting
<1>5. ASSUME NEW p \in Pointers, AddReference(p) PROVE ComInv'
  <2>1. /\ refs' \in [Pointers -> Nat] /\ refs'[p] = refs[p] + 1
        /\ \A q \in Pointers \ {p} : refs'[q] = refs[q]
    BY <1>0, <1>5, Gaining DEF AddReference
  <2>2. CASE p = "factory"
    BY <1>0, <1>5, <2>1, <2>2, SMT DEF AddReference, ComInv, ComTypes, CountsAgree, Pointers
  <2>3. CASE p # "factory"
    <3>1. exists /\ (p = "inner" => ~aggregated) /\ (p = "outer" => aggregated)
      BY <1>5, <2>3, HeldIsThere DEF AddReference
    <3>2. refs[p] + 1 >= 0 /\ Counts(CountedBy(p), 1) /\ UNCHANGED <<aggregated, factoryRef>>
      BY <1>0, <1>5, <2>3 DEF AddReference, Pointers
    <3> QED BY <2>1, <2>3, <3>1, <3>2, Counting
  <2> QED BY <2>2, <2>3
<1>6. ASSUME NEW p \in Pointers, Release(p) PROVE ComInv'
  <2>1. /\ refs' \in [Pointers -> Nat] /\ refs'[p] = refs[p] - 1
        /\ \A q \in Pointers \ {p} : refs'[q] = refs[q]
    BY <1>0, <1>6, Losing DEF Release
  <2>2. CASE p = "factory"
    BY <1>0, <1>6, <2>1, <2>2, SMT DEF Release, ComInv, ComTypes, CountsAgree, Pointers
  <2>3. CASE p # "factory"
    <3>1. exists /\ (p = "inner" => ~aggregated) /\ (p = "outer" => aggregated)
      BY <1>6, <2>3, HeldIsThere DEF Release
    <3>2. refs[p] + (-1) >= 0 /\ Counts(CountedBy(p), -1) /\ UNCHANGED <<aggregated, factoryRef>>
      BY <1>0, <1>6, <2>3, SMT DEF Release, Pointers
    <3>3. refs'[p] = refs[p] + (-1)
      BY <1>0, <2>1, SMT DEF Pointers
    <3> QED BY <2>1, <2>3, <3>1, <3>2, <3>3, Counting
  <2> QED BY <2>2, <2>3
<1>7. ASSUME NEW lock \in BOOLEAN, LockServer(lock) PROVE ComInv'
  BY <1>7 DEF LockServer, ComInv, ComTypes, CountsAgree
<1> QED BY <1>1, <1>2, <1>3, <1>4, <1>5, <1>6, <1>7 DEF ComNext

\* One part's step of the composition.
LEMMA ObjectPart ==
  /\ SignalInit => ComInit
  /\ [SignalNext]_signalVars => ComNext \/ UNCHANGED comVars
<1>1. SignalInit => ComInit
  BY DEF SignalInit
<1>2. ASSUME SignalNext PROVE ComNext \/ UNCHANGED comVars
  BY <1>2 DEF SignalNext
<1>3. ASSUME UNCHANGED signalVars PROVE UNCHANGED comVars
  BY <1>3 DEF signalVars
<1> QED BY <1>1, <1>2, <1>3

\* apo/DllMain and DreamApo: however the engine creates the object and its clients query,
\* share and give back pointers, for any number of them, whoever holds a pointer holds
\* one to something that is there, and what nobody holds any more is gone.
THEOREM PointersStayGood == SignalSpec => []PointersAreGood
<1>1. SignalInit => ComInv
  BY ObjectPart, ComStarts
<1>2. ComInv /\ [SignalNext]_signalVars => ComInv'
  BY ObjectPart, ComStep, ComFrame
<1>3. ComInv => PointersAreGood
  <2> SUFFICES ASSUME ComInv PROVE PointersAreGood
    OBVIOUS
  <2>1. /\ refs["inner"] \in Nat /\ refs["apo"] \in Nat /\ refs["outer"] \in Nat
    BY DEF ComInv, ComTypes, Pointers
  <2> QED BY <2>1, SMT DEF ComInv, ComTypes, CountsAgree, PointersAreGood
<1> QED BY <1>1, <1>2, <1>3, PTL DEF SignalSpec

----------------------------------------------------------------------------
(* The transient shaper.                                                    *)

Envelopes == [1..4 -> Int]
Gains == -kMaxGainDb..kMaxGainDb

\* A shaper has numbers in it, its gain in range.
IsShaper(s) == /\ s = [primed |-> s.primed, env |-> s.env, gain |-> s.gain]
               /\ s.primed \in BOOLEAN /\ s.env \in Envelopes /\ s.gain \in Gains

\* One envelope follows the other, everywhere Quieter decibels below it.
Below(lower, upper) == \A i \in 1..4 : lower[i] = upper[i] - Quieter

\* So far above the hard floor that this floor is not what the next sample meets.
AboveFloor(env) == env[4] >= kHardFloorDb + Relative

\* Until the gate has shut one of them out the two shapers differ by Quieter in their
\* levels and in nothing else.
Alike == /\ shapers[1].primed <=> shapers[2].primed
         /\ shapers[1].gain = shapers[2].gain
         /\ shapers[1].primed => /\ Below(shapers[2].env, shapers[1].env)
                                 /\ \A t \in 1..2 : AboveFloor(shapers[t].env)

ShaperTypes == /\ knobs \in TransientParams
               /\ shapers = [t \in 1..2 |-> shapers[t]]
               /\ \A t \in 1..2 : IsShaper(shapers[t])

ShaperInv == ShaperTypes /\ (~shut => Alike)

LEMMA HigherType ==
  ASSUME NEW x \in Int, NEW y \in Int
  PROVE  Higher(x, y) \in Int /\ Higher(x, y) >= x /\ Higher(x, y) >= y
BY SMT DEF Higher

LEMMA ClampType ==
  ASSUME NEW x \in Int, NEW m \in Nat
  PROVE  Clamp(x, -m, m) \in -m..m
BY SMT DEF Clamp

\* A part of the way from one number of a range to another stays in it.
LEMMA TowardsType ==
  ASSUME NEW g \in Gains, NEW target \in Gains
  PROVE  g + Clamp(target - g, -MaxStepDb, MaxStepDb) \in Gains
BY ShaperAssumption, SMT DEF Gains, Clamp

\* How far an envelope moves depends on how far the input is from it.
LEMMA StepType ==
  ASSUME NEW e \in Int, NEW x \in Int, NEW i \in 1..4
  PROVE  ((x - e) * (IF x > e THEN Rates[i].up ELSE Rates[i].down)) \div 4 \in Int
<1> DEFINE r == IF x > e THEN Rates[i].up ELSE Rates[i].down
<1>1. r \in Int
  BY ShaperAssumption
<1>2. (x - e) * r \in Int
  BY <1>1, SMT
<1> HIDE DEF r
<1>3. ((x - e) * r) \div 4 \in Int
  BY <1>2, SMT
<1> QED BY <1>3 DEF r

LEMMA FollowedType ==
  ASSUME NEW env \in Envelopes, NEW x \in Int
  PROVE  Followed(env, x) \in Envelopes
<1>1. ASSUME NEW i \in 1..4
      PROVE env[i] + ((x - env[i]) * (IF x > env[i] THEN Rates[i].up ELSE Rates[i].down)) \div 4 \in Int
  <2>1. env[i] \in Int
    BY DEF Envelopes
  <2>2. ((x - env[i]) * (IF x > env[i] THEN Rates[i].up ELSE Rates[i].down)) \div 4 \in Int
    BY <2>1, StepType
  <2> QED BY <2>1, <2>2, SMT
<1> QED BY <1>1 DEF Followed, Envelopes

\* Everything lower by the same, the followers end lower by the same.
LEMMA FollowedBelow ==
  ASSUME NEW upper \in Envelopes, NEW lower \in Envelopes, Below(lower, upper), NEW x \in Int
  PROVE  Below(Followed(lower, x - Quieter), Followed(upper, x))
<1> SUFFICES ASSUME NEW i \in 1..4
             PROVE  Followed(lower, x - Quieter)[i] = Followed(upper, x)[i] - Quieter
  BY DEF Below
<1> DEFINE e == upper[i]
           r == IF x > e THEN Rates[i].up ELSE Rates[i].down
           moved == ((x - e) * r) \div 4
<1>1. e \in Int /\ Quieter \in Int /\ lower[i] = e - Quieter
  BY ShaperAssumption DEF Envelopes, Below
<1>2. Followed(upper, x)[i] = e + moved
  BY DEF Followed
<1>3. moved \in Int
  BY <1>1, StepType
<1>4. (x - Quieter) - lower[i] = x - e /\ (x - Quieter > lower[i] <=> x > e)
  BY <1>1, SMT
<1>5. Followed(lower, x - Quieter)[i] = lower[i] + moved
  <2>1. Followed(lower, x - Quieter)[i]
          = lower[i] + (((x - Quieter) - lower[i])
                        * (IF x - Quieter > lower[i] THEN Rates[i].up ELSE Rates[i].down)) \div 4
    BY DEF Followed
  <2> QED BY <1>4, <2>1
<1> HIDE DEF moved
<1> QED BY <1>1, <1>2, <1>3, <1>5, SMT

LEMMA WishedType ==
  ASSUME NEW env \in Envelopes, knobs \in TransientParams
  PROVE  Wished(env) \in Gains
<1> DEFINE a == Higher(0, env[1] - env[2])
           s == Higher(0, env[4] - env[3])
           n == knobs.attack * a + knobs.sustain * s
<1>1. a \in Int /\ s \in Int
  <2>1. env[1] - env[2] \in Int /\ env[4] - env[3] \in Int
    BY SMT DEF Envelopes
  <2>2. \A x \in Int : Higher(0, x) \in Int
    BY HigherType
  <2> QED BY <2>1, <2>2
<1>2. knobs.attack \in Int /\ knobs.sustain \in Int /\ kMaxGainDb \in Nat
  BY ShaperAssumption
<1> HIDE DEF a, s
<1>3. n \in Int
  BY <1>1, <1>2, SMT
<1> HIDE DEF n
<1>4. (3 * n) \div 4 \in Int
  BY <1>3, SMT
<1>5. Clamp((3 * n) \div 4, -kMaxGainDb, kMaxGainDb) \in Gains
  BY <1>2, <1>4, ClampType DEF Gains
<1> QED BY <1>5 DEF Wished, n, a, s

\* The gain asked for hears differences of envelopes only.
LEMMA WishedAlike ==
  ASSUME NEW upper \in Envelopes, NEW lower \in Envelopes, Below(lower, upper)
  PROVE  Wished(lower) = Wished(upper)
<1>1. lower[1] - lower[2] = upper[1] - upper[2] /\ lower[4] - lower[3] = upper[4] - upper[3]
  BY ShaperAssumption, SMT DEF Below, Envelopes
<1> QED BY <1>1 DEF Wished

----------------------------------------------------------------------------

\* The parts of a sample's work.
Peak(peak) == IF peak = Silent THEN kHardFloorDb ELSE peak
Seeded(s, peak) == IF s.primed THEN s.env ELSE [i \in 1..4 |-> peak]
Next4(s, peak) ==
  LET seeded == Seeded(s, peak) IN Followed(seeded, Higher(Peak(peak), Floor(seeded[4])))
TargetOf(env) == IF Open(env) THEN Wished(env) ELSE 0

LEMMA ShapedParts ==
  ASSUME NEW s, NEW peak, ~Still(s, peak)
  PROVE  Shaped(s, peak) =
           [primed |-> TRUE, env |-> Next4(s, peak),
            gain |-> s.gain + Clamp(TargetOf(Next4(s, peak)) - s.gain, -MaxStepDb, MaxStepDb)]
BY DEF Shaped, Next4, Seeded, Peak, TargetOf

LEMMA HeardType ==
  ASSUME NEW peak \in Hits \cup {Silent}, NEW t \in 1..2
  PROVE  /\ Heard(peak, t) = Silent <=> peak = Silent
         /\ Heard(peak, t) # Silent => Heard(peak, t) \in Int /\ Heard(peak, t) >= kHardFloorDb
         /\ peak # Silent => Heard(peak, 1) = peak /\ Heard(peak, 2) = peak - Quieter
<1>1. CASE peak = Silent
  BY <1>1 DEF Heard
<1>2. CASE peak # Silent
  <2>1. peak \in Int /\ peak - Quieter >= kHardFloorDb /\ Quieter \in Nat /\ kHardFloorDb \in Int
        /\ Silent \notin Int
    BY <1>2, ShaperAssumption
  <2>2. peak - Quieter \in Int /\ peak >= kHardFloorDb
    BY <2>1, SMT
  <2>3. Heard(peak, 1) = peak /\ Heard(peak, 2) = peak - Quieter
    BY <1>2 DEF Heard
  <2> QED BY <1>2, <2>1, <2>2, <2>3
<1> QED BY <1>1, <1>2

\* What is worked on is a number.
LEMMA SeededType ==
  ASSUME NEW s, IsShaper(s), NEW peak, peak # Silent => peak \in Int, ~Still(s, peak)
  PROVE  /\ Seeded(s, peak) \in Envelopes /\ Peak(peak) \in Int
         /\ Floor(Seeded(s, peak)[4]) \in Int
<1>1. s.primed \/ peak # Silent
  BY DEF Still
<1>2. Seeded(s, peak) \in Envelopes
  BY <1>1 DEF Seeded, IsShaper, Envelopes
<1>3. Peak(peak) \in Int
  BY ShaperAssumption DEF Peak
<1>4. Seeded(s, peak)[4] - Relative \in Int /\ kHardFloorDb \in Int
  BY <1>2, ShaperAssumption, SMT DEF Envelopes
<1> QED BY <1>2, <1>3, <1>4, HigherType DEF Floor

LEMMA Next4Type ==
  ASSUME NEW s, IsShaper(s), NEW peak, peak # Silent => peak \in Int, ~Still(s, peak)
  PROVE  Next4(s, peak) \in Envelopes
<1>1. Higher(Peak(peak), Floor(Seeded(s, peak)[4])) \in Int
  BY SeededType, HigherType
<1> QED BY <1>1, SeededType, FollowedType DEF Next4

LEMMA ShapedType ==
  ASSUME NEW s, IsShaper(s), NEW peak, peak # Silent => peak \in Int, knobs \in TransientParams
  PROVE  IsShaper(Shaped(s, peak))
<1>1. CASE Still(s, peak)
  BY <1>1 DEF Shaped
<1>2. CASE ~Still(s, peak)
  <2> DEFINE e == Next4(s, peak)
  <2>1. e \in Envelopes
    BY <1>2, Next4Type
  <2>2. TargetOf(e) \in Gains
    <3>1. 0 \in Gains
      BY ShaperAssumption, SMT DEF Gains
    <3> QED BY <2>1, <3>1, WishedType DEF TargetOf
  <2>3. s.gain + Clamp(TargetOf(e) - s.gain, -MaxStepDb, MaxStepDb) \in Gains
    BY <2>2, TowardsType DEF IsShaper
  <2>4. Shaped(s, peak) = [primed |-> TRUE, env |-> e,
                           gain |-> s.gain + Clamp(TargetOf(e) - s.gain, -MaxStepDb, MaxStepDb)]
    BY <1>2, ShapedParts
  <2> HIDE DEF e
  <2> QED BY <2>1, <2>3, <2>4 DEF IsShaper
<1> QED BY <1>1, <1>2

\* Two shapers that differ by Quieter only, one of which hears the same Quieter decibels
\* below the other, still differ by that only.
LEMMA ShapedAlike ==
  ASSUME NEW s1, NEW s2, IsShaper(s1), IsShaper(s2), s1.primed <=> s2.primed,
         s1.primed => Below(s2.env, s1.env) /\ AboveFloor(s1.env) /\ AboveFloor(s2.env),
         NEW peak \in Hits \cup {Silent}, ~Still(s1, Heard(peak, 1))
  PROVE  /\ ~Still(s2, Heard(peak, 2))
         /\ Below(Next4(s2, Heard(peak, 2)), Next4(s1, Heard(peak, 1)))
<1> DEFINE p1 == Heard(peak, 1)
           p2 == Heard(peak, 2)
           u == Seeded(s1, p1)
           l == Seeded(s2, p2)
<1>1. /\ p1 = Silent <=> peak = Silent
      /\ p2 = Silent <=> peak = Silent
      /\ p1 # Silent => p1 \in Int /\ p1 >= kHardFloorDb
      /\ p2 # Silent => p2 \in Int /\ p2 >= kHardFloorDb
      /\ peak # Silent => p2 = p1 - Quieter
  BY HeardType
<1>2. ~Still(s2, p2)
  BY <1>1 DEF Still
<1>3. s1.primed \/ peak # Silent
  BY <1>1 DEF Still
<1> HIDE DEF p1, p2
<1>4. u \in Envelopes /\ l \in Envelopes /\ Peak(p1) \in Int /\ Peak(p2) \in Int
      /\ Floor(u[4]) \in Int /\ Floor(l[4]) \in Int
  BY <1>1, <1>2, SeededType DEF p1
<1>5. Below(l, u)
  <2>1. CASE s1.primed
    BY <2>1 DEF Seeded
  <2>2. CASE ~s1.primed
    BY <1>1, <1>3, <2>2 DEF Seeded, Below
  <2> QED BY <2>1, <2>2
<1>6. Higher(Peak(p2), Floor(l[4])) = Higher(Peak(p1), Floor(u[4])) - Quieter
  <2>0. /\ u[4] \in Int /\ l[4] = u[4] - Quieter /\ Quieter \in Nat /\ Relative \in Nat
        /\ kHardFloorDb \in Int
    BY <1>4, <1>5, ShaperAssumption DEF Envelopes, Below
  <2>1. CASE s1.primed
    <3>1. u[4] >= kHardFloorDb + Relative /\ l[4] >= kHardFloorDb + Relative
      BY <2>1 DEF Seeded, AboveFloor
    <3>2. Floor(u[4]) = u[4] - Relative /\ Floor(l[4]) = l[4] - Relative
      BY <2>0, <3>1, SMT DEF Floor, Higher
    <3>3. CASE peak = Silent
      <4>1. Peak(p1) = kHardFloorDb /\ Peak(p2) = kHardFloorDb
        BY <1>1, <3>3 DEF Peak
      <4> QED BY <2>0, <3>1, <3>2, <4>1, SMT DEF Higher
    <3>4. CASE peak # Silent
      <4>1. Peak(p1) = p1 /\ Peak(p2) = p1 - Quieter /\ p1 \in Int
        BY <1>1, <3>4 DEF Peak
      <4> QED BY <2>0, <3>1, <3>2, <4>1, SMT DEF Higher
    <3> QED BY <3>3, <3>4
  <2>2. CASE ~s1.primed
    <3>1. u[4] = p1 /\ l[4] = p2 /\ Peak(p1) = p1 /\ Peak(p2) = p2
      BY <1>1, <1>3, <2>2 DEF Seeded, Peak
    <3>2. p1 \in Int /\ p2 \in Int /\ p1 >= kHardFloorDb /\ p2 >= kHardFloorDb /\ p2 = p1 - Quieter
      BY <1>1, <1>3, <2>2
    <3> QED BY <2>0, <3>1, <3>2, SMT DEF Floor, Higher
  <2> QED BY <2>1, <2>2
<1>7. Higher(Peak(p1), Floor(u[4])) \in Int
  BY <1>4, HigherType
<1> HIDE DEF u, l
<1>8. Below(Followed(l, Higher(Peak(p2), Floor(l[4]))), Followed(u, Higher(Peak(p1), Floor(u[4]))))
  BY <1>4, <1>5, <1>6, <1>7, FollowedBelow
<1> QED BY <1>2, <1>8 DEF Next4, p1, p2, u, l

----------------------------------------------------------------------------

LEMMA ShapersStart == TransientInit => ShaperInv
<1> SUFFICES ASSUME TransientInit PROVE ShaperInv
  OBVIOUS
<1>1. shapers = [t \in 1..2 |-> Idle] /\ knobs \in TransientParams
  BY DEF TransientInit
<1>2. IsShaper(Idle)
  BY ShaperAssumption, SMT DEF IsShaper, Idle, Envelopes, Gains
<1>3. ~Idle.primed
  BY DEF Idle
<1> QED BY <1>1, <1>2, <1>3 DEF ShaperInv, ShaperTypes, Alike

LEMMA ShaperFrame == ShaperInv /\ UNCHANGED transientVars => ShaperInv'
BY DEF transientVars, ShaperInv, ShaperTypes, Alike, IsShaper, AboveFloor, Below

LEMMA SampleKeepsShapers ==
  ASSUME ShaperInv, NEW peak \in Hits \cup {Silent}, TransientSample(peak)
  PROVE  ShaperInv'
<1>0. /\ knobs \in TransientParams /\ knobs' = knobs
      /\ IsShaper(shapers[1]) /\ IsShaper(shapers[2])
      /\ shapers' = [t \in 1..2 |-> Shaped(shapers[t], Heard(peak, t))]
  BY DEF ShaperInv, ShaperTypes, TransientSample
<1> DEFINE s1 == shapers[1]
           s2 == shapers[2]
           p1 == Heard(peak, 1)
           p2 == Heard(peak, 2)
<1>1. /\ p1 = Silent <=> peak = Silent
      /\ p2 = Silent <=> peak = Silent
      /\ p1 # Silent => p1 \in Int
      /\ p2 # Silent => p2 \in Int
  BY HeardType
<1>2. shapers'[1] = Shaped(s1, p1) /\ shapers'[2] = Shaped(s2, p2)
  BY <1>0
<1>3. IsShaper(Shaped(s1, p1)) /\ IsShaper(Shaped(s2, p2))
  BY <1>0, <1>1, ShapedType
<1>4. ShaperTypes'
  <2>1. \A t \in 1..2 : IsShaper(shapers'[t])
    BY <1>2, <1>3
  <2>2. shapers' = [t \in 1..2 |-> shapers'[t]]
    BY <1>0
  <2> QED BY <1>0, <2>1, <2>2 DEF ShaperTypes, IsShaper
<1>5. ASSUME ~shut' PROVE Alike'
  <2>1. /\ ~shut
        /\ \A t \in 1..2 : shapers'[t].primed => Open(shapers'[t].env)
    BY <1>0, <1>5 DEF TransientSample, Open
  <2>2. Alike
    BY <2>1 DEF ShaperInv
  <2>3. CASE Still(s1, p1)
    <3>1. Still(s2, p2)
      BY <1>1, <2>2, <2>3 DEF Still, Alike
    <3>2. shapers'[1] = s1 /\ shapers'[2] = s2
      BY <1>2, <2>3, <3>1 DEF Shaped
    <3>3. \A t \in 1..2 : shapers'[t] = shapers[t]
      BY <3>2
    <3> QED BY <2>2, <3>3 DEF Alike, AboveFloor, Below
  <2>4. CASE ~Still(s1, p1)
    <3> DEFINE e1 == Next4(s1, p1)
               e2 == Next4(s2, p2)
    <3>1. ~Still(s2, p2) /\ Below(e2, e1)
      BY <1>0, <2>2, <2>4, ShapedAlike DEF Alike
    <3>2. e1 \in Envelopes /\ e2 \in Envelopes
      BY <1>0, <1>1, <2>4, <3>1, Next4Type
    <3>3. /\ shapers'[1] = [primed |-> TRUE, env |-> e1, gain |->
               s1.gain + Clamp(TargetOf(e1) - s1.gain, -MaxStepDb, MaxStepDb)]
          /\ shapers'[2] = [primed |-> TRUE, env |-> e2, gain |->
               s2.gain + Clamp(TargetOf(e2) - s2.gain, -MaxStepDb, MaxStepDb)]
      BY <1>2, <2>4, <3>1, ShapedParts
    <3> HIDE DEF e1, e2
    <3>4. /\ shapers'[1].primed /\ shapers'[2].primed
          /\ shapers'[1].env = e1 /\ shapers'[2].env = e2
      BY <3>3
    <3>5. Open(e1) /\ Open(e2)
      BY <1>0, <2>1, <3>4 DEF Open
    <3>6. AboveFloor(e1) /\ AboveFloor(e2)
      <4>1. e1[4] > knobs.gate + 1 /\ e2[4] > knobs.gate + 1
        BY <3>5 DEF Open
      <4>2. /\ knobs.gate \in Int /\ knobs.gate + 1 >= kHardFloorDb + Relative
            /\ kHardFloorDb \in Int /\ Relative \in Nat
        BY <1>0, ShaperAssumption
      <4>3. e1[4] \in Int /\ e2[4] \in Int
        BY <3>2 DEF Envelopes
      <4> QED BY <4>1, <4>2, <4>3, SMT DEF AboveFloor
    <3>7. TargetOf(e1) = TargetOf(e2)
      BY <3>1, <3>2, <3>5, WishedAlike DEF TargetOf
    <3>8. shapers'[1].gain = shapers'[2].gain
      BY <2>2, <3>3, <3>7 DEF Alike
    <3>9. \A t \in 1..2 : AboveFloor(shapers'[t].env)
      BY <3>4, <3>6
    <3> QED BY <3>1, <3>4, <3>8, <3>9 DEF Alike, AboveFloor, Below
  <2> QED BY <2>3, <2>4
<1> QED BY <1>4, <1>5 DEF ShaperInv

LEMMA ShaperStep == ShaperInv /\ TransientNext => ShaperInv'
<1> SUFFICES ASSUME ShaperInv, TransientNext PROVE ShaperInv'
  OBVIOUS
<1>1. ASSUME NEW peak \in Hits \cup {Silent}, TransientSample(peak) PROVE ShaperInv'
  BY <1>1, SampleKeepsShapers
<1>2. ASSUME NEW p \in TransientParams, SetTransient(p) PROVE ShaperInv'
  BY <1>2 DEF SetTransient, ShaperInv, ShaperTypes, Alike, IsShaper, AboveFloor, Below
<1>3. CASE ResetTransient
  <2>1. shapers' = [t \in 1..2 |-> Idle] /\ knobs' \in TransientParams
    BY <1>3 DEF ResetTransient, ShaperInv, ShaperTypes
  <2>2. IsShaper(Idle)
    BY ShaperAssumption, SMT DEF IsShaper, Idle, Envelopes, Gains
  <2>3. ~Idle.primed
    BY DEF Idle
  <2> QED BY <2>1, <2>2, <2>3 DEF ShaperInv, ShaperTypes, Alike, IsShaper
<1> QED BY <1>1, <1>2, <1>3 DEF TransientNext

\* dsp/Transient: at any two levels, however far apart, and for any settings, rates and
\* sequence of hits, pauses, resets and turns of the knobs, the same hits draw the same
\* gain until the gate shuts one of them out, and no gain leaves its range.
THEOREM SameGainAtAnyLevel == SignalSpec => []LevelIndependent
<1>1. SignalInit => ShaperInv
  BY ShapersStart DEF SignalInit
<1>2. ShaperInv /\ [SignalNext]_signalVars => ShaperInv'
  <2>1. ASSUME ShaperInv, SignalNext PROVE ShaperInv'
    <3>1. TransientNext \/ UNCHANGED transientVars
      BY <2>1 DEF SignalNext
    <3> QED BY <2>1, <3>1, ShaperStep, ShaperFrame
  <2>2. ASSUME ShaperInv, UNCHANGED signalVars PROVE ShaperInv'
    <3>1. UNCHANGED transientVars
      BY <2>2 DEF signalVars
    <3> QED BY <2>2, <3>1, ShaperFrame
  <2> QED BY <2>1, <2>2
<1>3. ShaperInv => LevelIndependent
  BY DEF ShaperInv, ShaperTypes, IsShaper, Gains, Alike, LevelIndependent
<1> QED BY <1>1, <1>2, <1>3, PTL DEF SignalSpec

----------------------------------------------------------------------------
(* Lists put end to end.  What a recursive function is has to be shown by   *)
(* induction, and the induction is over a set of natural numbers.           *)

\* A set that has 0, and the successor of whatever it has below n, has 0 to n.
LEMMA Induction ==
  ASSUME NEW n \in Nat, NEW T, 0 \in T, \A i \in 0..(n - 1) : i \in T => i + 1 \in T
  PROVE  0..n \subseteq T
<1> DEFINE U == {i \in 0..n : i \notin T}
<1>1. SUFFICES ASSUME U # {} PROVE FALSE
  OBVIOUS
<1>2. PICK R : R = OpToRel(<, Nat)
  OBVIOUS
<1>3. IsWellFoundedOn(R, Nat)
  BY <1>2, NatLessThanWellFounded
<1>4. R = {ss \in Nat \X Nat : ss[1] < ss[2]}
  BY <1>2 DEF OpToRel
<1>5. U \subseteq Nat
  OBVIOUS
<1>6. \E x \in U : \A y \in U : ~(<<y, x>> \in R)
  <2> HIDE DEF U
  <2> QED BY <1>1, <1>3, <1>5, WFMin
<1>7. PICK m \in U : \A k \in U : ~(<<k, m>> \in R)
  BY <1>6
<1>8. m \in 0..n /\ m # 0 /\ m \notin T
  BY <1>7
<1>9. m - 1 \in 0..(n - 1) /\ m - 1 \in 0..n /\ m - 1 + 1 = m /\ m - 1 < m
  BY <1>8
<1>10. m - 1 \notin U
  <2>1. <<m - 1, m>> \in R
    BY <1>4, <1>8, <1>9
  <2> HIDE DEF U
  <2> QED BY <1>7, <2>1
<1> QED BY <1>8, <1>9, <1>10

\* FlattenSeq's function: the first i lists of ss, end to end.
Parts(ss) ==
  CHOOSE f : f = [i \in 1..Len(ss) |-> IF i = 1 THEN ss[i] ELSE f[i - 1] \o ss[i]]

LEMMA FlattenIs ==
  ASSUME NEW ss
  PROVE  FlattenSeq(ss) = IF Len(ss) = 0 THEN ss ELSE Parts(ss)[Len(ss)]
BY Zenon DEF FlattenSeq, Parts

LEMMA PartsDefined ==
  ASSUME NEW ss, Len(ss) \in Nat
  PROVE  Parts(ss) = [i \in 1..Len(ss) |->
                        IF i = 1 THEN ss[i] ELSE Parts(ss)[i - 1] \o ss[i]]
<1> DEFINE Is(f, n) == f = [i \in 1..n |-> IF i = 1 THEN ss[i] ELSE f[i - 1] \o ss[i]]
           T == {n \in Nat : \E f : Is(f, n)}
<1>1. 0 \in T
  <2>1. Is([i \in 1..0 |-> <<>>], 0)
    OBVIOUS
  <2> QED BY <2>1
<1>2. ASSUME NEW n \in 0..(Len(ss) - 1), n \in T
      PROVE  n + 1 \in T
  <2>1. PICK f : Is(f, n)
    BY <1>2
  <2> DEFINE last == IF n + 1 = 1 THEN ss[n + 1] ELSE f[n] \o ss[n + 1]
             g == [i \in 1..(n + 1) |-> IF i = n + 1 THEN last ELSE f[i]]
  <2>2. n \in Nat
    OBVIOUS
  <2> HIDE DEF last
  <2>3. \A i \in 1..n : g[i] = f[i]
    BY <2>2
  <2>4. \A i \in 1..n : f[i] = IF i = 1 THEN ss[i] ELSE f[i - 1] \o ss[i]
    BY <2>1
  <2>5. \A i \in 1..(n + 1) : g[i] = IF i = 1 THEN ss[i] ELSE g[i - 1] \o ss[i]
    <3> TAKE i \in 1..(n + 1)
    <3>1. CASE i = n + 1
      <4>1. g[i] = last /\ (i # 1 => g[i - 1] = f[n])
        BY <2>2, <2>3, <3>1
      <4> HIDE DEF g
      <4> QED BY <3>1, <4>1 DEF last
    <3>2. CASE i \in 1..n
      <4>1. g[i] = f[i] /\ (i # 1 => g[i - 1] = f[i - 1])
        BY <2>2, <2>3, <3>2
      <4> HIDE DEF g
      <4> QED BY <2>4, <3>2, <4>1
    <3> QED BY <2>2, <3>1, <3>2
  <2>6. DOMAIN g = 1..(n + 1) /\ g = [i \in 1..(n + 1) |-> g[i]]
    OBVIOUS
  <2> HIDE DEF g
  <2>7. Is(g, n + 1)
    BY <2>5, <2>6
  <2> HIDE DEF Is
  <2> QED BY <2>2, <2>7
<1>3. Len(ss) \in T
  <2> HIDE DEF T
  <2>1. 0..Len(ss) \subseteq T
    BY <1>1, <1>2, Induction
  <2> QED BY <2>1
<1>4. PICK f : Is(f, Len(ss))
  BY <1>3
<1>5. f = [i \in 1..Len(ss) |-> IF i = 1 THEN ss[i] ELSE f[i - 1] \o ss[i]]
  BY <1>4
<1>6. Parts(ss) = CHOOSE g : g = [i \in 1..Len(ss) |-> IF i = 1 THEN ss[i] ELSE g[i - 1] \o ss[i]]
  BY Zenon DEF Parts
<1> HIDE DEF T
<1> QED BY <1>5, <1>6, Zenon

\* The first list, and the next one after those before it.
LEMMA PartsStep ==
  ASSUME NEW S, NEW ss \in Seq(Seq(S))
  PROVE  /\ Len(ss) \in Nat
         /\ \A i \in 1..Len(ss) : ss[i] \in Seq(S) /\ Parts(ss)[i] \in Seq(S)
         /\ Len(ss) > 0 => Parts(ss)[1] = ss[1]
         /\ \A i \in 1..(Len(ss) - 1) : Parts(ss)[i + 1] = Parts(ss)[i] \o ss[i + 1]
<1> DEFINE f == Parts(ss)
           n == Len(ss)
           T == {i \in 0..n : i # 0 => f[i] \in Seq(S)}
<1>1. n \in Nat
  BY LenProperties
<1>2. f = [i \in 1..n |-> IF i = 1 THEN ss[i] ELSE f[i - 1] \o ss[i]]
  BY <1>1, PartsDefined, Zenon
<1>3. \A i \in 1..n : ss[i] \in Seq(S)
  BY ElementOfSeq
<1> HIDE DEF f, n
<1>4. n > 0 => f[1] = ss[1]
  BY <1>1, <1>2
<1>5. ASSUME NEW i \in 1..(n - 1) PROVE f[i + 1] = f[i] \o ss[i + 1]
  <2> DEFINE k == i + 1
  <2>1. k \in 1..n /\ k # 1 /\ k - 1 = i
    BY <1>1
  <2> HIDE DEF k
  <2>2. f[k] = IF k = 1 THEN ss[k] ELSE f[k - 1] \o ss[k]
    BY <1>2, <2>1
  <2>3. f[k] = f[i] \o ss[k]
    BY <2>1, <2>2
  <2> QED BY <2>3 DEF k
<1>6. 0 \in T
  BY <1>1
<1>7. ASSUME NEW i \in 0..(n - 1), i \in T PROVE i + 1 \in T
  <2>1. CASE i = 0
    <3>1. f[1] \in Seq(S) /\ 1 \in 0..n /\ i + 1 = 1
      BY <1>1, <1>3, <1>4, <2>1
    <3> QED BY <3>1
  <2>2. CASE i # 0
    <3>1. i \in 1..(n - 1) /\ i + 1 \in 1..n /\ i + 1 \in 0..n
      BY <1>1, <2>2
    <3>2. f[i + 1] = f[i] \o ss[i + 1] /\ f[i] \in Seq(S) /\ ss[i + 1] \in Seq(S)
      BY <1>3, <1>5, <1>7, <2>2, <3>1
    <3>3. f[i + 1] \in Seq(S)
      BY <3>2, ConcatProperties
    <3> QED BY <3>1, <3>3
  <2> QED BY <2>1, <2>2
<1>8. \A i \in 1..n : f[i] \in Seq(S)
  <2>1. 0..n \subseteq T
    <3> HIDE DEF T
    <3> QED BY <1>1, <1>6, <1>7, Induction
  <2> QED BY <1>1, <2>1
<1> QED BY <1>1, <1>3, <1>4, <1>5, <1>8 DEF f, n

LEMMA FlattenType ==
  ASSUME NEW S, NEW ss \in Seq(Seq(S))
  PROVE  FlattenSeq(ss) \in Seq(S)
<1>1. Len(ss) \in Nat /\ \A i \in 1..Len(ss) : Parts(ss)[i] \in Seq(S)
  BY PartsStep
<1>2. CASE Len(ss) = 0
  <2>1. ss = <<>>
    BY <1>2, EmptySeq
  <2> QED BY <1>2, <2>1, EmptySeq, FlattenIs
<1>3. CASE Len(ss) # 0
  BY <1>1, <1>3, FlattenIs
<1> QED BY <1>2, <1>3

\* The lists of rr are what g makes of those of ss, entry by entry.
Image(g, ss, rr) ==
  /\ Len(rr) = Len(ss)
  /\ \A i \in 1..Len(ss) :
       Len(rr[i]) = Len(ss[i]) /\ \A k \in 1..Len(ss[i]) : rr[i][k] = g[ss[i][k]]

\* And so they are end to end.
LEMMA FlattenMap ==
  ASSUME NEW S, NEW ss \in Seq(Seq(S)), NEW R, NEW rr \in Seq(Seq(R)), NEW g, Image(g, ss, rr)
  PROVE  /\ Len(FlattenSeq(rr)) = Len(FlattenSeq(ss))
         /\ \A k \in 1..Len(FlattenSeq(ss)) : FlattenSeq(rr)[k] = g[FlattenSeq(ss)[k]]
<1> DEFINE n == Len(ss)
           p == Parts(ss)
           q == Parts(rr)
           Same(a, b) == Len(b) = Len(a) /\ \A k \in 1..Len(a) : b[k] = g[a[k]]
           T == {i \in 0..n : i # 0 => Same(p[i], q[i])}
<1>1. /\ n \in Nat
      /\ \A i \in 1..n : ss[i] \in Seq(S) /\ p[i] \in Seq(S)
      /\ n > 0 => p[1] = ss[1]
      /\ \A i \in 1..(n - 1) : p[i + 1] = p[i] \o ss[i + 1]
  BY PartsStep, Zenon
<1>2. /\ \A i \in 1..n : rr[i] \in Seq(R) /\ q[i] \in Seq(R)
      /\ n > 0 => q[1] = rr[1]
      /\ \A i \in 1..(n - 1) : q[i + 1] = q[i] \o rr[i + 1]
  <2>1. Len(rr) = n
    BY DEF Image
  <2> QED BY <2>1, PartsStep, Zenon
<1>3. \A i \in 1..n : Same(ss[i], rr[i])
  BY DEF Image
<1>4. Len(rr) = n
  BY DEF Image
<1>5. FlattenSeq(ss) = (IF n = 0 THEN ss ELSE p[n]) /\ FlattenSeq(rr) = (IF n = 0 THEN rr ELSE q[n])
  BY <1>4, FlattenIs
<1> HIDE DEF n, p, q
<1>6. 0 \in T
  BY <1>1
<1>7. ASSUME NEW a \in Seq(S), NEW b \in Seq(R), Same(a, b),
             NEW c \in Seq(S), NEW d \in Seq(R), Same(c, d)
      PROVE  Same(a \o c, b \o d)
  <2>1. Len(a) \in Nat /\ Len(c) \in Nat
    BY LenProperties
  <2>2. Len(b) = Len(a) /\ Len(d) = Len(c)
    BY <1>7
  <2>3. /\ Len(a \o c) = Len(a) + Len(c)
        /\ \A k \in 1..(Len(a) + Len(c)) :
             (a \o c)[k] = IF k <= Len(a) THEN a[k] ELSE c[k - Len(a)]
    BY ConcatProperties
  <2>4. /\ Len(b \o d) = Len(b) + Len(d)
        /\ \A k \in 1..(Len(b) + Len(d)) :
             (b \o d)[k] = IF k <= Len(b) THEN b[k] ELSE d[k - Len(b)]
    BY ConcatProperties
  <2>5. /\ Len(a \o c) = Len(a) + Len(c) /\ Len(b \o d) = Len(a) + Len(c)
        /\ \A k \in 1..(Len(a) + Len(c)) :
             (a \o c)[k] = IF k <= Len(a) THEN a[k] ELSE c[k - Len(a)]
        /\ \A k \in 1..(Len(a) + Len(c)) :
             (b \o d)[k] = IF k <= Len(a) THEN b[k] ELSE d[k - Len(a)]
    BY <2>2, <2>3, <2>4
  <2>6. ASSUME NEW k \in 1..(Len(a) + Len(c)) PROVE (b \o d)[k] = g[(a \o c)[k]]
    <3>1. CASE k <= Len(a)
      <4>1. k \in 1..Len(a)
        BY <2>1, <3>1
      <4> QED BY <1>7, <2>5, <3>1, <4>1
    <3>2. CASE ~(k <= Len(a))
      <4>1. k - Len(a) \in 1..Len(c)
        BY <2>1, <3>2
      <4> QED BY <1>7, <2>5, <3>2, <4>1
    <3> QED BY <3>1, <3>2
  <2> QED BY <2>5, <2>6
<1>8. ASSUME NEW i \in 0..(n - 1), i \in T PROVE i + 1 \in T
  <2>1. CASE i = 0
    <3>1. 1 \in 0..n /\ 1 \in 1..n /\ i + 1 = 1 /\ n > 0
      BY <1>1, <2>1
    <3>2. Same(p[1], q[1])
      BY <1>1, <1>2, <1>3, <3>1
    <3> QED BY <3>1, <3>2
  <2>2. CASE i # 0
    <3>1. i \in 1..(n - 1) /\ i \in 1..n /\ i + 1 \in 1..n /\ i + 1 \in 0..n
      BY <1>1, <2>2
    <3>2. Same(p[i], q[i]) /\ Same(ss[i + 1], rr[i + 1])
      BY <1>3, <1>8, <2>2, <3>1
    <3>3. /\ p[i] \in Seq(S) /\ q[i] \in Seq(R) /\ ss[i + 1] \in Seq(S) /\ rr[i + 1] \in Seq(R)
          /\ p[i + 1] = p[i] \o ss[i + 1] /\ q[i + 1] = q[i] \o rr[i + 1]
      BY <1>1, <1>2, <3>1
    <3> HIDE DEF Same
    <3>4. Same(p[i + 1], q[i + 1])
      BY <1>7, <3>2, <3>3
    <3> QED BY <3>1, <3>4
  <2> QED BY <2>1, <2>2
<1>9. 0..n \subseteq T
  <2> HIDE DEF T
  <2> QED BY <1>1, <1>6, <1>8, Induction
<1>10. CASE n = 0
  <2>1. Len(ss) = 0
    BY <1>10 DEF n
  <2> QED BY <1>5, <1>4, <1>10, <2>1
<1>11. CASE n # 0
  <2>1. n \in 0..n
    BY <1>1
  <2>2. Same(p[n], q[n])
    BY <1>9, <1>11, <2>1
  <2> QED BY <1>5, <1>11, <2>2
<1> QED BY <1>10, <1>11

\* Every entry of a list is there end to end.
LEMMA FlattenHas ==
  ASSUME NEW S, NEW ss \in Seq(Seq(S)), NEW j \in 1..Len(ss), NEW k \in 1..Len(ss[j])
  PROVE  \E m \in 1..Len(FlattenSeq(ss)) : FlattenSeq(ss)[m] = ss[j][k]
<1> DEFINE n == Len(ss)
           p == Parts(ss)
           x == ss[j][k]
           In(a) == \E m \in 1..Len(a) : a[m] = x
           T == {i \in 0..n : j <= i => In(p[i])}
<1>1. /\ n \in Nat
      /\ \A i \in 1..n : ss[i] \in Seq(S) /\ p[i] \in Seq(S)
      /\ n > 0 => p[1] = ss[1]
      /\ \A i \in 1..(n - 1) : p[i + 1] = p[i] \o ss[i + 1]
  BY PartsStep, Zenon
<1>2. FlattenSeq(ss) = IF n = 0 THEN ss ELSE p[n]
  BY FlattenIs
<1>3. j \in 1..n /\ In(ss[j])
  OBVIOUS
<1> HIDE DEF n, p, x
<1>4. 0 \in T
  BY <1>1, <1>3
<1>5. ASSUME NEW a \in Seq(S), NEW b \in Seq(S), In(a) \/ In(b)
      PROVE  In(a \o b)
  <2>1. Len(a) \in Nat /\ Len(b) \in Nat
    BY LenProperties
  <2>2. /\ Len(a \o b) = Len(a) + Len(b)
        /\ \A m \in 1..(Len(a) + Len(b)) :
             (a \o b)[m] = IF m <= Len(a) THEN a[m] ELSE b[m - Len(a)]
    BY ConcatProperties
  <2>3. CASE In(a)
    <3>1. PICK m \in 1..Len(a) : a[m] = x
      BY <2>3
    <3>2. m \in 1..(Len(a) + Len(b)) /\ m <= Len(a)
      BY <2>1
    <3> QED BY <2>2, <3>1, <3>2
  <2>4. CASE In(b)
    <3>1. PICK m \in 1..Len(b) : b[m] = x
      BY <2>4
    <3>2. Len(a) + m \in 1..(Len(a) + Len(b)) /\ ~(Len(a) + m <= Len(a)) /\ Len(a) + m - Len(a) = m
      BY <2>1
    <3>3. (a \o b)[Len(a) + m] = x
      BY <2>2, <3>1, <3>2
    <3> QED BY <2>2, <3>2, <3>3
  <2> QED BY <1>5, <2>3, <2>4
<1>6. ASSUME NEW i \in 0..(n - 1), i \in T PROVE i + 1 \in T
  <2>0. i + 1 \in 0..n /\ i + 1 \in 1..n /\ n > 0
    BY <1>1
  <2>1. CASE j <= i
    <3>1. i \in 1..(n - 1) /\ i \in 1..n /\ In(p[i])
      BY <1>1, <1>3, <1>6, <2>1
    <3>2. p[i] \in Seq(S) /\ ss[i + 1] \in Seq(S) /\ p[i + 1] = p[i] \o ss[i + 1]
      BY <1>1, <2>0, <3>1
    <3> HIDE DEF In
    <3>3. In(p[i + 1])
      BY <1>5, <3>1, <3>2
    <3> QED BY <2>0, <3>3
  <2>2. CASE j = i + 1 /\ i = 0
    <3>1. p[1] = ss[1] /\ j = 1
      BY <1>1, <2>0, <2>2
    <3>2. In(p[i + 1])
      BY <1>3, <2>2, <3>1
    <3> QED BY <2>0, <3>2
  <2>3. CASE j = i + 1 /\ i # 0
    <3>1. i \in 1..(n - 1) /\ i \in 1..n
      BY <1>1, <2>3
    <3>2. p[i] \in Seq(S) /\ ss[i + 1] \in Seq(S) /\ p[i + 1] = p[i] \o ss[i + 1]
      BY <1>1, <2>0, <3>1
    <3>3. In(ss[i + 1])
      BY <1>3, <2>3
    <3> HIDE DEF In
    <3>4. In(p[i + 1])
      BY <1>5, <3>2, <3>3
    <3> QED BY <2>0, <3>4
  <2>4. CASE j > i + 1
    <3>1. ~(j <= i + 1)
      BY <1>1, <1>3, <2>4
    <3> QED BY <2>0, <3>1
  <2> QED BY <1>1, <1>3, <2>1, <2>2, <2>3, <2>4
<1>7. 0..n \subseteq T
  <2> HIDE DEF T
  <2> QED BY <1>1, <1>4, <1>6, Induction
<1>8. n \in 0..n /\ j <= n /\ n # 0
  BY <1>1, <1>3
<1>9. In(p[n])
  BY <1>7, <1>8
<1> QED BY <1>2, <1>8, <1>9 DEF x

----------------------------------------------------------------------------
(* The equaliser.                                                           *)

BandValues == EqBands \cup {Unused}

\* The two sections of the kinds that have two, the one of the others, and none without
\* a frequency.
Order(b) == IF b.freq <= 0 THEN 0 ELSE IF b.type \in FourthOrder THEN 2 ELSE 1

\* What is installed fills the slots up to the count, and no others.
InstalledInv ==
  /\ eqCount \in 0..kMaxEqBands
  /\ installed = [i \in Slots |-> installed[i]]
  /\ \A i \in Slots : IF i <= eqCount THEN installed[i] \in EqBands ELSE installed[i] = Unused

\* Every slot up to the count is designed, for the stream's rate, and the list is the
\* one that rebuildActive would make now.
DesignedInv ==
  /\ sections = [i \in Slots |-> sections[i]] /\ coeff = [s \in Section |-> coeff[s]]
  /\ \A i \in 1..eqCount :
       /\ sections[i] = Order(installed[i])
       /\ \A s \in 1..Order(installed[i]) : coeff[<<i, s>>] = Designed(installed[i], eqRate)[s]
  /\ active = Rebuilt(installed, eqCount, sections)

\* Delay elements that are a filter's own.
Own(d, b) == d = Clear \/ (~d.missed /\ d.by = b.type)

HistoryInv ==
  /\ delays = [s \in Section |-> delays[s]]
  /\ \A i \in 1..eqCount : installed[i].enabled =>
       \A s \in 1..Order(installed[i]) : Own(delays[<<i, s>>], installed[i])

FiltersInv == InstalledInv /\ DesignedInv /\ HistoryInv

LEMMA DesignedIs ==
  ASSUME NEW b, NEW rate
  PROVE  /\ Order(b) \in {0, 1, 2} /\ Order(b) \in Nat
         /\ DOMAIN Designed(b, rate) = 1..Order(b) /\ Len(Designed(b, rate)) = Order(b)
         /\ Designed(b, rate) = [s \in 1..Order(b) |-> Designed(b, rate)[s]]
<1>0. Order(b) \in {0, 1, 2} /\ Order(b) \in Nat
  BY DEF Order
<1>1. CASE b.freq <= 0
  <2>1. Designed(b, rate) = <<>> /\ Order(b) = 0
    BY <1>1 DEF Designed, Order
  <2> QED BY <1>0, <2>1
<1>2. CASE ~(b.freq <= 0) /\ b.type \in FourthOrder
  <2>1. /\ Order(b) = 2
        /\ \E e1, e2 : Designed(b, rate) = <<e1, e2>>
    <3> DEFINE section(width) ==
             [shape |-> ShapeOf(b.type), freq |-> Corner(b.freq, rate), rate |-> rate,
              gain |-> IF HasGain(b.type) THEN b.gain ELSE 0, width |-> width,
              moved |-> IsCornerShelf(b.type)]
    <3>1. Designed(b, rate) = [i \in 1..2 |-> section(Cascade(b.type)[i])]
      BY <1>2 DEF Designed
    <3>2. Order(b) = 2
      BY <1>2 DEF Order
    <3> HIDE DEF section
    <3>3. [i \in 1..2 |-> section(Cascade(b.type)[i])]
            = <<section(Cascade(b.type)[1]), section(Cascade(b.type)[2])>>
      OBVIOUS
    <3> QED BY <3>1, <3>2, <3>3
  <2> QED BY <1>0, <2>1
<1>3. CASE ~(b.freq <= 0) /\ b.type \notin FourthOrder
  <2>1. Order(b) = 1 /\ \E e : Designed(b, rate) = <<e>>
    <3> DEFINE section(width) ==
             [shape |-> ShapeOf(b.type), freq |-> Corner(b.freq, rate), rate |-> rate,
              gain |-> IF HasGain(b.type) THEN b.gain ELSE 0, width |-> width,
              moved |-> IsCornerShelf(b.type)]
    <3>1. Designed(b, rate) = <<section(Width(b))>>
      BY <1>3 DEF Designed
    <3>2. Order(b) = 1
      BY <1>3 DEF Order
    <3> HIDE DEF section
    <3> QED BY <3>1, <3>2
  <2> QED BY <1>0, <2>1
<1> QED BY <1>1, <1>2, <1>3

\* Same type and both with a frequency: as many sections.
LEMMA SameOrder ==
  ASSUME NEW a \in EqBands, NEW b \in EqBands, a.type = b.type
  PROVE  Order(a) = Order(b)
BY BandsAssumption DEF Order

\* The list of the sections to run, as lists to put end to end.
Runs(bands, counts, n) ==
  [i \in 1..n |-> IF bands[i].enabled THEN [s \in 1..counts[i] |-> <<i, s>>] ELSE <<>>]

\* The sections of the bands that are installed and on.
Running == {s \in Section : /\ s[1] <= eqCount /\ installed[s[1]].enabled
                            /\ s[2] <= Order(installed[s[1]])}

\* The list has the sections of the bands that are on and no others.
LEMMA RunsType ==
  ASSUME FiltersInv
  PROVE  /\ eqCount \in Nat /\ 1..eqCount \subseteq Slots
         /\ Runs(installed, sections, eqCount) \in Seq(Seq(Running))
         /\ Len(Runs(installed, sections, eqCount)) = eqCount
         /\ active = FlattenSeq(Runs(installed, sections, eqCount))
         /\ active \in Seq(Running)
<1> DEFINE rs == Runs(installed, sections, eqCount)
<1>1. eqCount \in Nat /\ 1..eqCount \subseteq Slots
  BY BandsAssumption DEF FiltersInv, InstalledInv, Slots
<1>2. ASSUME NEW i \in 1..eqCount PROVE rs[i] \in Seq(Running)
  <2>1. sections[i] = Order(installed[i]) /\ i \in Slots
    BY <1>1 DEF FiltersInv, DesignedInv
  <2>2. Order(installed[i]) \in {0, 1, 2}
    BY DesignedIs
  <2>3. CASE installed[i].enabled
    <3>1. ASSUME NEW s \in 1..sections[i] PROVE <<i, s>> \in Running
      <4>1. <<i, s>> \in Section /\ s <= Order(installed[i]) /\ i <= eqCount
        BY <1>1, <2>1, <2>2 DEF Section
      <4>2. <<i, s>>[1] = i /\ <<i, s>>[2] = s
        OBVIOUS
      <4> QED BY <2>3, <4>1, <4>2 DEF Running
    <3>2. [s \in 1..sections[i] |-> <<i, s>>] \in [1..sections[i] -> Running]
      BY <3>1
    <3>3. [s \in 1..sections[i] |-> <<i, s>>] \in Seq(Running)
      BY <2>1, <2>2, <3>2, SeqDef
    <3> QED BY <2>3, <3>3 DEF Runs
  <2>4. CASE ~installed[i].enabled
    BY <2>4, EmptySeq DEF Runs
  <2> QED BY <2>3, <2>4
<1>3. rs \in [1..eqCount -> Seq(Running)]
  BY <1>2 DEF Runs
<1> HIDE DEF rs
<1>4. rs \in Seq(Seq(Running))
  BY <1>1, <1>3, SeqDef
<1>5. Len(rs) = eqCount
  BY <1>1, <1>3, <1>4, LenProperties
<1>6. active = FlattenSeq(Runs(installed, sections, eqCount))
  BY DEF FiltersInv, DesignedInv, Rebuilt, Runs
<1>7. active \in Seq(Running)
  BY <1>4, <1>6, FlattenType DEF rs
<1> QED BY <1>1, <1>4, <1>5, <1>6, <1>7 DEF rs

LEMMA ActiveHas ==
  ASSUME FiltersInv, NEW i \in 1..eqCount, installed[i].enabled,
         NEW s \in 1..Order(installed[i])
  PROVE  <<i, s>> \in ToSet(active)
<1> DEFINE rs == Runs(installed, sections, eqCount)
<1>1. /\ rs \in Seq(Seq(Running)) /\ Len(rs) = eqCount /\ active = FlattenSeq(rs)
      /\ active \in Seq(Running)
  BY RunsType
<1>2. sections[i] = Order(installed[i]) /\ Order(installed[i]) \in Nat
  BY DesignedIs DEF FiltersInv, DesignedInv
<1>3. rs[i] = [t \in 1..sections[i] |-> <<i, t>>]
  BY DEF Runs
<1>4. Len(rs[i]) = Order(installed[i]) /\ rs[i][s] = <<i, s>>
  BY <1>2, <1>3
<1>5. i \in 1..Len(rs) /\ s \in 1..Len(rs[i])
  BY <1>1, <1>4
<1> HIDE DEF rs
<1>6. PICK m \in 1..Len(FlattenSeq(rs)) : FlattenSeq(rs)[m] = rs[i][s]
  BY <1>1, <1>5, FlattenHas
<1>7. m \in DOMAIN active /\ active[m] = <<i, s>>
  BY <1>1, <1>4, <1>6, LenProperties
<1> QED BY <1>7 DEF ToSet

LEMMA InstalledRuns ==
  ASSUME FiltersInv
  PROVE  RunsWhatIsInstalled
<1> DEFINE rs == Runs(installed, sections, eqCount)
           ds == [i \in 1..eqCount |->
                    IF installed[i].enabled THEN Designed(installed[i], eqRate) ELSE <<>>]
           R == {coeff[s] : s \in Running}
<1>1. /\ rs \in Seq(Seq(Running)) /\ Len(rs) = eqCount /\ active = FlattenSeq(rs)
      /\ active \in Seq(Running) /\ eqCount \in Nat /\ 1..eqCount \subseteq Slots
  BY RunsType
<1>2. ASSUME NEW i \in 1..eqCount
      PROVE  /\ ds[i] \in Seq(R)
             /\ Len(ds[i]) = Len(rs[i]) /\ \A k \in 1..Len(rs[i]) : ds[i][k] = coeff[rs[i][k]]
  <2>1. /\ sections[i] = Order(installed[i])
        /\ \A s \in 1..Order(installed[i]) : coeff[<<i, s>>] = Designed(installed[i], eqRate)[s]
    BY DEF FiltersInv, DesignedInv
  <2> DEFINE d == Designed(installed[i], eqRate)
             n == Order(installed[i])
  <2>2. /\ n \in Nat /\ n \in {0, 1, 2} /\ d = [s \in 1..n |-> d[s]] /\ Len(d) = n
    BY DesignedIs
  <2>3. CASE installed[i].enabled
    <3>1. ds[i] = d /\ rs[i] = [s \in 1..n |-> <<i, s>>]
      BY <2>1, <2>3 DEF Runs
    <3>2. Len(rs[i]) = n /\ \A k \in 1..n : rs[i][k] = <<i, k>>
      BY <2>2, <3>1
    <3>3. \A k \in 1..n : d[k] = coeff[<<i, k>>]
      BY <2>1
    <3>4. ASSUME NEW k \in 1..n PROVE d[k] \in R
      <4>1. rs[i] \in Seq(Running)
        BY <1>1, ElementOfSeq
      <4>2. <<i, k>> \in Running
        BY <3>2, <4>1, ElementOfSeq
      <4> QED BY <3>3, <4>2
    <3> HIDE DEF d, n, ds, rs, R
    <3>5. d \in [1..n -> R]
      BY <2>2, <3>4
    <3>6. d \in Seq(R)
      BY <2>2, <3>5, SeqDef
    <3> QED BY <2>2, <3>1, <3>2, <3>3, <3>6
  <2>4. CASE ~installed[i].enabled
    <3>1. ds[i] = <<>> /\ rs[i] = <<>>
      BY <2>4 DEF Runs
    <3> HIDE DEF d, n, ds, rs, R
    <3> QED BY <3>1, EmptySeq
  <2> QED BY <2>3, <2>4
<1>3. ds \in [1..eqCount -> Seq(R)]
  <2>1. \A i \in 1..eqCount : ds[i] \in Seq(R)
    BY <1>2
  <2>2. DOMAIN ds = 1..eqCount /\ ds = [i \in 1..eqCount |-> ds[i]]
    OBVIOUS
  <2> HIDE DEF ds, R
  <2> QED BY <2>1, <2>2
<1>4. RunsWhatIsInstalled <=> [i \in DOMAIN active |-> coeff[active[i]]] = FlattenSeq(ds)
  BY DEF RunsWhatIsInstalled
<1> HIDE DEF rs, ds, R
<1>5. ds \in Seq(Seq(R))
  BY <1>1, <1>3, SeqDef
<1>6. Len(ds) = Len(rs)
  BY <1>1, <1>3, <1>5, LenProperties
<1>7. /\ Len(FlattenSeq(ds)) = Len(active)
      /\ \A k \in 1..Len(active) : FlattenSeq(ds)[k] = coeff[active[k]]
  <2>1. \A i \in 1..Len(rs) :
          Len(ds[i]) = Len(rs[i]) /\ \A k \in 1..Len(rs[i]) : ds[i][k] = coeff[rs[i][k]]
    BY <1>1, <1>2
  <2>2. rs \in Seq(Seq(Running)) /\ Image(coeff, rs, ds)
    BY <1>1, <1>6, <2>1 DEF Image
  <2>3. /\ Len(FlattenSeq(ds)) = Len(FlattenSeq(rs))
        /\ \A k \in 1..Len(FlattenSeq(rs)) : FlattenSeq(ds)[k] = coeff[FlattenSeq(rs)[k]]
    BY <1>5, <2>2, FlattenMap
  <2> QED BY <1>1, <2>3
<1>8. FlattenSeq(ds) \in Seq(R)
  BY <1>5, FlattenType
<1>9. /\ DOMAIN active = 1..Len(active) /\ DOMAIN FlattenSeq(ds) = 1..Len(active)
      /\ FlattenSeq(ds) = [k \in 1..Len(active) |-> FlattenSeq(ds)[k]]
  BY <1>1, <1>7, <1>8, LenProperties
<1> QED BY <1>4, <1>7, <1>9

LEMMA HistoryOwned ==
  ASSUME FiltersInv
  PROVE  NoOldHistory
<1> SUFFICES ASSUME NEW m \in DOMAIN active
             PROVE  Own(delays[active[m]], installed[active[m][1]])
  BY DEF NoOldHistory, Own
<1>1. active \in Seq(Running) /\ eqCount \in Nat
  BY RunsType
<1>2. active[m] \in Running
  BY <1>1, LenProperties, ElementOfSeq
<1>3. PICK i \in Slots, s \in {1, 2} : active[m] = <<i, s>>
  BY <1>2 DEF Running, Section
<1>4. i <= eqCount /\ installed[i].enabled /\ s <= Order(installed[i])
  BY <1>2, <1>3 DEF Running
<1>5. i \in 1..eqCount /\ s \in 1..Order(installed[i])
  BY <1>1, <1>3, <1>4, DesignedIs DEF Slots
<1>6. Own(delays[<<i, s>>], installed[i])
  BY <1>4, <1>5 DEF FiltersInv, HistoryInv
<1>7. active[m][1] = i
  BY <1>3
<1>8. delays[active[m]] = delays[<<i, s>>] /\ installed[active[m][1]] = installed[i]
  BY <1>3, <1>7
<1> QED BY <1>6, <1>8, Zenon

----------------------------------------------------------------------------

LEMMA NothingRuns == \A bands, counts : Rebuilt(bands, 0, counts) = <<>>
<1> TAKE bands, counts
<1>1. Rebuilt(bands, 0, counts) = FlattenSeq(Runs(bands, counts, 0))
  BY DEF Rebuilt, Runs
<1>2. Runs(bands, counts, 0) = <<>>
  BY DEF Runs
<1>3. FlattenSeq(<<>>) = <<>>
  BY FlattenIs, EmptySeq
<1> QED BY <1>1, <1>2, <1>3

LEMMA FiltersStart == FiltersInit => FiltersInv
<1> SUFFICES ASSUME FiltersInit PROVE FiltersInv
  OBVIOUS
<1>1. /\ installed = [i \in Slots |-> Unused] /\ eqCount = 0
      /\ sections = [i \in Slots |-> 0] /\ coeff = [s \in Section |-> Wire]
      /\ active = <<>> /\ delays = [s \in Section |-> Clear]
  BY DEF FiltersInit
<1>2. kMaxEqBands \in Nat /\ 1..eqCount = {} /\ \A i \in Slots : ~(i <= eqCount)
  BY <1>1, BandsAssumption DEF Slots
<1>3. InstalledInv
  BY <1>1, <1>2 DEF InstalledInv
<1>4. Rebuilt(installed, eqCount, sections) = <<>>
  BY <1>1, NothingRuns
<1>5. DesignedInv
  BY <1>1, <1>2, <1>4 DEF DesignedInv
<1>6. HistoryInv
  BY <1>1, <1>2 DEF HistoryInv
<1> QED BY <1>3, <1>5, <1>6 DEF FiltersInv

LEMMA FiltersFrame == FiltersInv /\ UNCHANGED filterVars => FiltersInv'
<1> SUFFICES ASSUME FiltersInv, UNCHANGED filterVars PROVE FiltersInv'
  OBVIOUS
<1>1. UNCHANGED <<eqRate, installed, eqCount, sections, coeff, active, delays>>
  BY DEF filterVars
<1> QED BY <1>1 DEF FiltersInv, InstalledInv, DesignedInv, HistoryInv

LEMMA PrepareKeeps == ASSUME NEW rate, PrepareFilters(rate) PROVE FiltersInv'
<1>1. /\ installed' = [i \in Slots |-> Unused] /\ eqCount' = 0
      /\ sections' = [i \in Slots |-> 0] /\ coeff' = [s \in Section |-> Wire]
      /\ active' = <<>> /\ delays' = [s \in Section |-> Clear]
  BY DEF PrepareFilters
<1>2. kMaxEqBands \in Nat /\ 1..eqCount' = {} /\ \A i \in Slots : ~(i <= eqCount')
  BY <1>1, BandsAssumption DEF Slots
<1>3. InstalledInv'
  BY <1>1, <1>2 DEF InstalledInv
<1>4. Rebuilt(installed', eqCount', sections') = <<>>
  BY <1>1, NothingRuns
<1>5. DesignedInv'
  BY <1>1, <1>2, <1>4 DEF DesignedInv
<1>6. HistoryInv'
  BY <1>1, <1>2 DEF HistoryInv
<1> QED BY <1>3, <1>5, <1>6 DEF FiltersInv

LEMMA RunKeeps == ASSUME FiltersInv, RunFilters PROVE FiltersInv'
<1>1. UNCHANGED <<eqRate, installed, eqCount, sections, coeff, active>>
  BY DEF RunFilters
<1>2. InstalledInv' /\ DesignedInv'
  BY <1>1 DEF FiltersInv, InstalledInv, DesignedInv
<1>3. /\ delays' = [s \in Section |-> delays'[s]]
      /\ \A s \in Section : s \in ToSet(active) =>
           delays'[s] = [by |-> installed[s[1]].type, missed |-> delays[s].missed]
  BY DEF RunFilters
<1>4. ASSUME NEW i \in 1..eqCount, installed[i].enabled, NEW s \in 1..Order(installed[i])
      PROVE Own(delays'[<<i, s>>], installed[i])
  <2>1. <<i, s>> \in ToSet(active)
    BY <1>4, ActiveHas
  <2>2. <<i, s>> \in Section /\ <<i, s>>[1] = i
    <3>1. Order(installed[i]) \in {0, 1, 2} /\ i \in Slots
      BY RunsType, DesignedIs
    <3> QED BY <3>1 DEF Section
  <2>3. delays'[<<i, s>>] = [by |-> installed[i].type, missed |-> delays[<<i, s>>].missed]
    BY <1>3, <2>1, <2>2
  <2>4. ~delays[<<i, s>>].missed
    <3>1. Own(delays[<<i, s>>], installed[i])
      BY <1>4 DEF FiltersInv, HistoryInv
    <3>2. ~Clear.missed
      BY DEF Clear
    <3> QED BY <3>1, <3>2 DEF Own
  <2>5. delays'[<<i, s>>].by = installed[i].type /\ ~delays'[<<i, s>>].missed
    BY <2>3, <2>4
  <2> QED BY <2>5 DEF Own
<1>5. HistoryInv'
  BY <1>1, <1>3, <1>4 DEF HistoryInv
<1> QED BY <1>2, <1>5 DEF FiltersInv

LEMMA BadKeeps == ASSUME FiltersInv, RunFiltersBad PROVE FiltersInv'
<1>1. UNCHANGED <<eqRate, installed, eqCount, sections, coeff, active>>
      /\ delays' = [s \in Section |-> Clear]
  BY DEF RunFiltersBad
<1>2. InstalledInv' /\ DesignedInv'
  BY <1>1 DEF FiltersInv, InstalledInv, DesignedInv
<1>3. ASSUME NEW i \in 1..eqCount, NEW s \in 1..Order(installed[i])
      PROVE Own(delays'[<<i, s>>], installed[i])
  <2>1. <<i, s>> \in Section
    <3>1. Order(installed[i]) \in {0, 1, 2} /\ i \in Slots
      BY RunsType, DesignedIs
    <3> QED BY <3>1 DEF Section
  <2> QED BY <1>1, <2>1 DEF Own
<1>4. HistoryInv'
  BY <1>1, <1>3 DEF HistoryInv
<1> QED BY <1>2, <1>4 DEF FiltersInv

LEMMA SetKeeps ==
  ASSUME FiltersInv, NEW bands \in BoundedSeq(EqBands, kMaxEqBands), SetFilters(bands)
  PROVE  FiltersInv'
<1> DEFINE new == [i \in Slots |-> IF i \in DOMAIN bands THEN bands[i] ELSE Unused]
           many == Len(bands)
           changed == {i \in Slots : i <= (IF eqCount > many THEN eqCount ELSE many)
                                     /\ new[i] # installed[i]}
           design(i) == Designed(new[i], eqRate)
<1>0. /\ eqCount \in Nat /\ 1..eqCount \subseteq Slots /\ eqCount <= kMaxEqBands
      /\ kMaxEqBands \in Nat
  BY RunsType, BandsAssumption DEF FiltersInv, InstalledInv
<1>1. /\ many \in 0..kMaxEqBands /\ DOMAIN bands = 1..many
      /\ \A i \in 1..many : bands[i] \in EqBands
  <2>1. PICK m \in 0..kMaxEqBands : bands \in [1..m -> EqBands]
    BY DEF BoundedSeq, SeqOf
  <2>2. bands \in Seq(EqBands)
    BY <1>0, <2>1, SeqDef
  <2>3. Len(bands) = m
    BY <1>0, <2>1, <2>2, LenProperties
  <2> QED BY <2>1, <2>3
<1>2. /\ installed' = [i \in Slots |-> IF i \in changed THEN new[i] ELSE installed[i]]
      /\ eqCount' = many /\ eqRate' = eqRate
      /\ sections' = [i \in Slots |-> IF i \notin changed THEN sections[i]
                                      ELSE IF i <= many THEN Len(design(i)) ELSE 0]
      /\ coeff' = [s \in Section |->
                     IF s[1] \in changed /\ s[1] <= many
                     THEN IF s[2] \in DOMAIN design(s[1]) THEN design(s[1])[s[2]] ELSE Wire
                     ELSE coeff[s]]
      /\ delays' = [s \in Section |-> IF s[1] \in changed /\ Clears(installed[s[1]], new[s[1]])
                                      THEN Clear ELSE delays[s]]
      /\ active' = IF changed # {} \/ many # eqCount
                   THEN Rebuilt(installed', many, sections') ELSE active
  BY DEF SetFilters
<1>3. \A i \in Slots : IF i <= many THEN new[i] \in EqBands /\ new[i] = bands[i]
                       ELSE new[i] = Unused
  BY <1>0, <1>1 DEF Slots
<1>4. \A i \in Slots : i \notin changed => installed[i] = new[i]
  <2>1. ASSUME NEW i \in Slots, i \notin changed, new[i] # installed[i] PROVE FALSE
    <3>1. ~(i <= (IF eqCount > many THEN eqCount ELSE many)) /\ i \in Nat
      BY <2>1 DEF Slots
    <3>2. ~(i <= eqCount) /\ ~(i <= many)
      BY <1>0, <1>1, <3>1
    <3>3. installed[i] = Unused /\ new[i] = Unused
      BY <1>3, <3>2 DEF FiltersInv, InstalledInv
    <3> QED BY <2>1, <3>3
  <2> QED BY <2>1
<1> HIDE DEF new, many, changed
<1>5. installed' = [i \in Slots |-> installed'[i]] /\ \A i \in Slots : installed'[i] = new[i]
  BY <1>2, <1>4
<1>6. InstalledInv'
  BY <1>1, <1>2, <1>3, <1>5 DEF InstalledInv
<1>7. sections' = [i \in Slots |-> sections'[i]] /\ coeff' = [s \in Section |-> coeff'[s]]
      /\ delays' = [s \in Section |-> delays'[s]]
  BY <1>2
<1>8. ASSUME NEW i \in 1..many
      PROVE  /\ i \in Slots /\ installed'[i] = new[i] /\ new[i] \in EqBands
             /\ sections'[i] = Order(new[i])
             /\ \A s \in 1..Order(new[i]) : <<i, s>> \in Section
                  /\ coeff'[<<i, s>>] = Designed(new[i], eqRate)[s]
  <2>1. i \in Slots /\ i <= many /\ i \in Nat
    BY <1>0, <1>1 DEF Slots
  <2>2. installed'[i] = new[i] /\ new[i] \in EqBands
    BY <1>3, <1>5, <2>1
  <2>3. /\ Order(new[i]) \in {0, 1, 2} /\ Len(design(i)) = Order(new[i])
        /\ DOMAIN design(i) = 1..Order(new[i])
    BY DesignedIs
  <2>4. \A s \in 1..Order(new[i]) : <<i, s>> \in Section /\ <<i, s>>[1] = i /\ <<i, s>>[2] = s
    BY <2>1, <2>3 DEF Section
  <2>5. CASE i \in changed
    <3>1. sections'[i] = Len(design(i))
      BY <1>2, <2>1, <2>5
    <3>2. \A s \in 1..Order(new[i]) : coeff'[<<i, s>>] = design(i)[s]
      <4> TAKE s \in 1..Order(new[i])
      <4> DEFINE x == <<i, s>>
      <4>1. x \in Section /\ x[1] = i /\ x[2] = s
        BY <2>4
      <4> HIDE DEF x
      <4>2. coeff'[x] = design(i)[s]
        BY <1>2, <2>1, <2>3, <2>5, <4>1
      <4> QED BY <4>2 DEF x
    <3> QED BY <2>1, <2>2, <2>3, <2>4, <3>1, <3>2
  <2>6. CASE i \notin changed
    <3>1. installed[i] = new[i] /\ sections'[i] = sections[i]
      BY <1>2, <1>4, <2>1, <2>6
    <3>2. i \in 1..eqCount
      <4>1. CASE ~(i <= eqCount)
        <5>1. installed[i] = Unused
          BY <2>1, <4>1 DEF FiltersInv, InstalledInv
        <5>2. Unused.freq = 0
          BY DEF Unused
        <5> QED BY <2>2, <3>1, <5>1, <5>2, BandsAssumption
      <4> QED BY <1>0, <2>1, <4>1
    <3>3. \A s \in 1..Order(new[i]) : coeff'[<<i, s>>] = coeff[<<i, s>>]
      <4> TAKE s \in 1..Order(new[i])
      <4> DEFINE x == <<i, s>>
      <4>1. x \in Section /\ x[1] = i
        BY <2>4
      <4> HIDE DEF x
      <4>2. coeff'[x] = coeff[x]
        BY <1>2, <2>6, <4>1
      <4> QED BY <4>2 DEF x
    <3>4. /\ sections[i] = Order(new[i])
          /\ \A s \in 1..Order(new[i]) : coeff[<<i, s>>] = Designed(new[i], eqRate)[s]
      BY <3>1, <3>2 DEF FiltersInv, DesignedInv
    <3> QED BY <2>1, <2>2, <2>4, <3>1, <3>3, <3>4
  <2> QED BY <2>5, <2>6
<1>9. active' = Rebuilt(installed', many, sections')
  <2>1. CASE changed # {} \/ many # eqCount
    BY <1>2, <2>1
  <2>2. CASE changed = {} /\ many = eqCount
    <3>1. installed' = installed
      BY <1>2, <2>2 DEF FiltersInv, InstalledInv
    <3>2. sections' = sections
      BY <1>2, <2>2 DEF FiltersInv, DesignedInv
    <3>3. active' = active /\ active = Rebuilt(installed, eqCount, sections)
      BY <1>2, <2>2 DEF FiltersInv, DesignedInv
    <3> QED BY <2>2, <3>1, <3>2, <3>3
  <2> QED BY <2>1, <2>2
<1>10. DesignedInv'
  <2>1. eqCount' = many /\ eqRate' = eqRate
    BY <1>2
  <2>2. ASSUME NEW i \in 1..many
        PROVE  /\ sections'[i] = Order(installed'[i])
               /\ \A s \in 1..Order(installed'[i]) :
                    coeff'[<<i, s>>] = Designed(installed'[i], eqRate)[s]
    <3>1. installed'[i] = new[i]
      BY <1>8
    <3>2. /\ sections'[i] = Order(new[i])
          /\ \A s \in 1..Order(new[i]) : coeff'[<<i, s>>] = Designed(new[i], eqRate)[s]
      BY <1>8
    <3> QED BY <3>1, <3>2
  <2> QED BY <1>7, <1>9, <2>1, <2>2, Zenon DEF DesignedInv
<1>11. ASSUME NEW i \in 1..many, new[i].enabled, NEW s \in 1..Order(new[i])
       PROVE  Own(delays'[<<i, s>>], new[i])
  <2>1. i \in Slots /\ new[i] \in EqBands /\ <<i, s>> \in Section
    BY <1>8
  <2> DEFINE x == <<i, s>>
  <2>2. x \in Section /\ x[1] = i
    BY <2>1
  <2> HIDE DEF x
  <2>3. delays'[x] = IF i \in changed /\ Clears(installed[i], new[i]) THEN Clear ELSE delays[x]
    BY <1>2, <2>2
  <2>4. CASE i \in changed /\ Clears(installed[i], new[i])
    BY <2>3, <2>4 DEF Own, x
  <2>5. CASE ~(i \in changed /\ Clears(installed[i], new[i]))
    <3>1. installed[i].enabled /\ installed[i].type = new[i].type
      <4>1. CASE i \notin changed
        BY <1>4, <1>11, <2>1, <4>1
      <4>2. CASE ~Clears(installed[i], new[i])
        BY <1>11, <4>2 DEF Clears
      <4> QED BY <2>5, <4>1, <4>2
    <3>2. i \in 1..eqCount /\ installed[i] \in EqBands
      <4>1. i <= eqCount
        <5>1. CASE ~(i <= eqCount)
          <6>1. installed[i] = Unused
            BY <2>1, <5>1 DEF FiltersInv, InstalledInv
          <6>2. ~Unused.enabled
            BY DEF Unused
          <6> QED BY <3>1, <6>1, <6>2
        <5> QED BY <5>1
      <4>2. installed[i] \in EqBands
        BY <2>1, <4>1 DEF FiltersInv, InstalledInv
      <4> QED BY <1>0, <2>1, <4>1, <4>2 DEF Slots
    <3>3. Order(installed[i]) = Order(new[i])
      BY <2>1, <3>1, <3>2, SameOrder
    <3>4. Own(delays[<<i, s>>], installed[i])
      BY <3>1, <3>2, <3>3 DEF FiltersInv, HistoryInv
    <3> QED BY <2>3, <2>5, <3>1, <3>4 DEF Own, x
  <2> QED BY <2>4, <2>5
<1>12. HistoryInv'
  BY <1>2, <1>7, <1>8, <1>11 DEF HistoryInv
<1> QED BY <1>6, <1>10, <1>12 DEF FiltersInv

LEMMA FiltersStep == FiltersInv /\ FiltersNext => FiltersInv'
<1> SUFFICES ASSUME FiltersInv, FiltersNext PROVE FiltersInv'
  OBVIOUS
<1>1. ASSUME NEW r \in SampleRates, PrepareFilters(r) PROVE FiltersInv'
  BY <1>1, PrepareKeeps
<1>2. ASSUME NEW bands \in BoundedSeq(EqBands, kMaxEqBands), SetFilters(bands) PROVE FiltersInv'
  BY <1>2, SetKeeps
<1>3. CASE RunFilters
  BY <1>3, RunKeeps
<1>4. CASE RunFiltersBad
  BY <1>4, BadKeeps
<1> QED BY <1>1, <1>2, <1>3, <1>4 DEF FiltersNext

\* dsp/Equalizer: over any sequence of settings, rates, buffers and resets, for any bands
\* and number of slots, the sections that run are those of the bands installed last,
\* designed for the stream's rate, although only what changed was designed again; and
\* none of them starts from delay elements that another filter left.
THEOREM EqualiserIsCurrent == SignalSpec => []FiltersAreCurrent
<1>1. SignalInit => FiltersInv
  BY FiltersStart DEF SignalInit
<1>2. FiltersInv /\ [SignalNext]_signalVars => FiltersInv'
  <2>1. ASSUME FiltersInv, SignalNext PROVE FiltersInv'
    <3>1. FiltersNext \/ UNCHANGED filterVars
      BY <2>1 DEF SignalNext
    <3> QED BY <2>1, <3>1, FiltersStep, FiltersFrame
  <2>2. ASSUME FiltersInv, UNCHANGED signalVars PROVE FiltersInv'
    <3>1. UNCHANGED filterVars
      BY <2>2 DEF signalVars
    <3> QED BY <2>2, <3>1, FiltersFrame
  <2> QED BY <2>1, <2>2
<1>3. FiltersInv => FiltersAreCurrent
  BY InstalledRuns, HistoryOwned DEF FiltersAreCurrent
<1> QED BY <1>1, <1>2, <1>3, PTL DEF SignalSpec


----------------------------------------------------------------------------
(* The channel matrix and the delay lines.                                  *)

\* What a list has at i, and silence before its beginning.
Old(s, i) == IF i \in 1..Len(s) THEN s[i] ELSE 0

\* How long ago place r of a ring was written whose next place is w: the youngest is 1.
Age(w, r) == IF r < w THEN w - r ELSE w - r + delayLength

\* The ring that has been fed s.
Tape(w, s) == [r \in 0..(delayLength - 1) |-> Old(s, Len(s) + 1 - Age(w, r))]

Turned(w) == IF w + 1 = delayLength THEN 0 ELSE w + 1

Listed(s) == s \in Seq({s[i] : i \in DOMAIN s})

\* A line holds the end of what its channel was fed.
TapesHoldThePast == delayLine = [c \in Wires |-> Tape(cursor, past[c])]

RoutingTypes ==
  /\ ms \in Delays /\ cursor \in 0..(delayLength - 1)
  /\ DOMAIN past = Wires
  /\ \A c \in Wires : Listed(past[c]) /\ Len(past[c]) = Total

LEMMA RingLength == delayLength \in Nat /\ delayLength = kMaxDelay + 4 /\ delayLength > 4
BY RoutingAssumption DEF delayLength

\* A remainder is the only one.
LEMMA Remainder ==
  ASSUME NEW n \in Nat, NEW b \in Nat \ {0}, NEW q \in Int, NEW r \in 0..(b - 1), n = b * q + r
  PROVE  n % b = r
<1> DEFINE p == n \div b
           t == n % b
<1>1. p \in Int /\ t \in 0..(b - 1) /\ n = b * p + t
  OBVIOUS
<1> HIDE DEF p, t
<1> DEFINE k == p - q
<1>2. k \in Int /\ p = q + k
  BY <1>1
<1> HIDE DEF k
<1>3. b * p = b * q + b * k /\ b * q \in Int /\ b * k \in Int
  BY <1>1, <1>2
<1>4. b * k = r - t
  BY <1>1, <1>3
<1>5. k >= 1 => b * k >= b
  BY <1>2
<1>6. k <= -1 => b * k <= -b
  BY <1>2
<1>7. k = 0
  BY <1>1, <1>2, <1>3, <1>4, <1>5, <1>6
<1>8. b * k = 0
  BY <1>7
<1> QED BY <1>1, <1>4, <1>8 DEF t

\* The next place of a ring.
LEMMA NextPlace ==
  ASSUME NEW b \in Nat, b > 1, NEW w \in Nat
  PROVE  /\ w % b \in 0..(b - 1)
         /\ (w + 1) % b = IF (w % b) + 1 = b THEN 0 ELSE (w % b) + 1
<1> DEFINE q == w \div b
           r == w % b
<1>1. b \in Nat \ {0}
  OBVIOUS
<1>2. q \in Int /\ r \in 0..(b - 1) /\ w = b * q + r
  BY <1>1
<1> HIDE DEF q, r
<1>3. CASE r + 1 < b
  <2>1. w + 1 = b * q + (r + 1) /\ r + 1 \in 0..(b - 1) /\ w + 1 \in Nat
    BY <1>1, <1>2, <1>3
  <2>2. (w + 1) % b = r + 1
    BY <1>1, <1>2, <2>1, Remainder
  <2> QED BY <1>2, <1>3, <2>2 DEF r
<1>4. CASE r + 1 = b
  <2>1. w + 1 = b * (q + 1) + 0 /\ 0 \in 0..(b - 1) /\ w + 1 \in Nat /\ q + 1 \in Int
    BY <1>1, <1>2, <1>4
  <2>2. (w + 1) % b = 0
    BY <1>1, <2>1, Remainder
  <2> QED BY <1>2, <1>4, <2>2 DEF r
<1> QED BY <1>1, <1>2, <1>3, <1>4

\* A place that has gone round once at most.
LEMMA OneTurn ==
  ASSUME NEW b \in Nat \ {0}, NEW x \in 0..(2 * b - 1)
  PROVE  x % b = IF x < b THEN x ELSE x - b
<1>1. CASE x < b
  <2>1. x = b * 0 + x /\ x \in 0..(b - 1) /\ x \in Nat
    BY <1>1
  <2> QED BY <1>1, <2>1, Remainder
<1>2. CASE x >= b
  <2>1. x = b * 1 + (x - b) /\ x - b \in 0..(b - 1) /\ x \in Nat
    BY <1>2
  <2>2. x % b = x - b
    BY <2>1, Remainder
  <2> QED BY <1>2, <2>2
<1> QED BY <1>1, <1>2

LEMMA TurnIs ==
  ASSUME NEW w \in Nat
  PROVE  /\ w % delayLength \in 0..(delayLength - 1)
         /\ (w + 1) % delayLength = Turned(w % delayLength)
<1> DEFINE b == delayLength
<1>1. b \in Nat /\ b > 1
  BY RingLength
<1> HIDE DEF b
<1>2. /\ w % b \in 0..(b - 1)
      /\ (w + 1) % b = IF (w % b) + 1 = b THEN 0 ELSE (w % b) + 1
  BY <1>1, NextPlace
<1> QED BY <1>2 DEF Turned, b

\* What is written to the ring is the youngest of it.
LEMMA TapeWritten ==
  ASSUME NEW S, NEW s \in Seq(S), NEW v \in S, NEW w \in 0..(delayLength - 1)
  PROVE  [Tape(w, s) EXCEPT ![w] = v] = Tape(Turned(w), Append(s, v))
<1> DEFINE a == Append(s, v)
<1>1. /\ Len(s) \in Nat /\ Len(a) = Len(s) + 1 /\ a[Len(s) + 1] = v
      /\ \A i \in 1..Len(s) : a[i] = s[i]
  BY AppendProperties
<1>2. \A r \in 0..(delayLength - 1) :
        Age(Turned(w), r) = IF r = w THEN 1 ELSE Age(w, r) + 1
  BY RingLength DEF Age, Turned
<1>3. \A r \in 0..(delayLength - 1) : Age(w, r) \in 1..delayLength
  BY RingLength DEF Age
<1> HIDE DEF a
<1>4. ASSUME NEW r \in 0..(delayLength - 1), r # w
      PROVE  Old(a, Len(a) + 1 - Age(Turned(w), r)) = Old(s, Len(s) + 1 - Age(w, r))
  <2>1. Len(a) + 1 - Age(Turned(w), r) = Len(s) + 1 - Age(w, r)
        /\ Len(s) + 1 - Age(w, r) \in Int /\ Len(s) + 1 - Age(w, r) <= Len(s)
    BY <1>1, <1>2, <1>3, <1>4
  <2> QED BY <1>1, <2>1 DEF Old
<1>5. Old(a, Len(a) + 1 - Age(Turned(w), w)) = v
  BY <1>1, <1>2 DEF Old
<1> QED BY <1>4, <1>5 DEF Tape, a

\* What is read d - 2 + j behind the place just written is as long ago.
LEMMA TapeRead ==
  ASSUME NEW S, NEW s \in Seq(S), NEW w \in 0..(delayLength - 1),
         NEW d \in 1..kMaxDelay, NEW j \in 1..4
  PROVE  Tape(Turned(w), s)[Around(w - d + 2 - j)] = Old(s, Len(s) - d + 2 - j)
<1>1. /\ Around(w - d + 2 - j) \in 0..(delayLength - 1)
      /\ Age(Turned(w), Around(w - d + 2 - j)) = d - 1 + j
  <2>1. d \in Nat /\ d <= delayLength - 4 /\ d >= 1
    BY RingLength, RoutingAssumption
  <2> DEFINE e == w - d + 2 - j
  <2>2. /\ e \in Int /\ e < delayLength /\ e >= -delayLength /\ w \in Nat /\ j \in Nat
        /\ (e < 0 => e + delayLength > w) /\ e = w - d + 2 - j /\ (j >= 1)
        /\ delayLength \in Nat /\ w < delayLength
    BY <2>1, RingLength
  <2> HIDE DEF e
  <2>3. /\ Around(e) \in 0..(delayLength - 1)
        /\ Age(Turned(w), Around(e)) = d - 1 + j
    BY <2>1, <2>2, SMTT(30) DEF Around, Age, Turned
  <2> QED BY <2>3 DEF e
<1>2. Len(s) \in Nat /\ d \in Nat
  BY RoutingAssumption
<1>3. Len(s) + 1 - (d - 1 + j) = Len(s) - d + 2 - j
  BY <1>2
<1> QED BY <1>1, <1>3 DEF Tape

\* Two sums over the taps are one when each of their terms is: the function the sum is
\* made of is the same.
Terms(h) ==
  CHOOSE f : f = [s \in SUBSET (1..4) |->
                    IF s = {} THEN 0 ELSE h[CHOOSE x \in s : TRUE] + f[s \ {CHOOSE x \in s : TRUE}]]

LEMMA SumOfTaps ==
  ASSUME NEW u, NEW v
  PROVE  MapThenSumSet(LAMBDA j : u[j] * v[j], 1..4) = Terms([j \in 1..4 |-> u[j] * v[j]])[1..4]
<1> DEFINE h == [j \in 1..4 |-> u[j] * v[j]]
           Is(f) == f = [s \in SUBSET (1..4) |->
                           IF s = {} THEN 0
                           ELSE u[CHOOSE x \in s : TRUE] * v[CHOOSE x \in s : TRUE]
                                + f[s \ {CHOOSE x \in s : TRUE}]]
           IsTerms(f) == f = [s \in SUBSET (1..4) |->
                    IF s = {} THEN 0 ELSE h[CHOOSE x \in s : TRUE] + f[s \ {CHOOSE x \in s : TRUE}]]
<1>1. MapThenSumSet(LAMBDA j : u[j] * v[j], 1..4) = (CHOOSE f : Is(f))[1..4]
  BY Zenon DEF MapThenSumSet, MapThenFoldSet
<1>2. \A s \in SUBSET (1..4) : s # {} =>
        h[CHOOSE x \in s : TRUE] = u[CHOOSE x \in s : TRUE] * v[CHOOSE x \in s : TRUE]
  OBVIOUS
<1> HIDE DEF h
<1>3. \A f : Is(f) <=> IsTerms(f)
  BY <1>2
<1>4. (CHOOSE f : Is(f)) = (CHOOSE f : IsTerms(f))
  <2> HIDE DEF Is, IsTerms
  <2> QED BY <1>3, Zenon
<1> QED BY <1>1, <1>4, Zenon DEF Terms, h


\* Due(f, c), with the sum as a function's value.
DueTerms(f, c) ==
  Terms([j \in 1..4 |-> Taps(c)[j] * Ago(c, Total - Len(heard) + f - Whole(c) + 2 - j)])[1..4]

HeardIsDue ==
  \A f \in DOMAIN heard, c \in Wires :
    (\A g \in DOMAIN heard : asked[g][c] # NaN) =>
      \/ past[c] = [i \in DOMAIN past[c] |-> 0]
      \/ heard[f][c] = IF ms[c] = 0 THEN 16 * asked[f][c] ELSE DueTerms(f, c)

RoutingInv == RoutingTypes /\ TapesHoldThePast /\ HeardIsDue

LEMMA SumOfPast ==
  ASSUME NEW f, NEW c
  PROVE  Due(f, c) = DueTerms(f, c)
<1> DEFINE term(j) == Taps(c)[j] * Ago(c, Total - Len(heard) + f - Whole(c) + 2 - j)
           h == [j \in 1..4 |-> term(j)]
           Is(g) == g = [s \in SUBSET (1..4) |->
                           IF s = {} THEN 0
                           ELSE term(CHOOSE x \in s : TRUE) + g[s \ {CHOOSE x \in s : TRUE}]]
           IsTerms(g) == g = [s \in SUBSET (1..4) |->
                    IF s = {} THEN 0 ELSE h[CHOOSE x \in s : TRUE] + g[s \ {CHOOSE x \in s : TRUE}]]
<1>1. Due(f, c) = (CHOOSE g : Is(g))[1..4]
  BY Zenon DEF Due, MapThenSumSet, MapThenFoldSet
<1>2. \A s \in SUBSET (1..4) : s # {} => h[CHOOSE x \in s : TRUE] = term(CHOOSE x \in s : TRUE)
  <2> HIDE DEF term
  <2> QED OBVIOUS
<1>3. h = [j \in 1..4 |-> Taps(c)[j] * Ago(c, Total - Len(heard) + f - Whole(c) + 2 - j)]
  OBVIOUS
<1> HIDE DEF h, term
<1>4. \A g : Is(g) <=> IsTerms(g)
  BY <1>2
<1>5. (CHOOSE g : Is(g)) = (CHOOSE g : IsTerms(g))
  <2> HIDE DEF Is, IsTerms
  <2> QED BY <1>4, Zenon
<1>6. Terms(h)[1..4] = (CHOOSE g : IsTerms(g))[1..4]
  BY Zenon DEF Terms
<1> QED BY <1>1, <1>3, <1>5, <1>6, Zenon DEF DueTerms

LEMMA DueIsWired == HeardIsDue => WiredAsAsked
BY SumOfPast, Zenon DEF HeardIsDue, WiredAsAsked, Story

LEMMA ListIsListed ==
  ASSUME NEW S, NEW s \in Seq(S)
  PROVE  Listed(s) /\ Len(s) \in Nat /\ DOMAIN s = 1..Len(s)
<1>1. Len(s) \in Nat /\ DOMAIN s = 1..Len(s) /\ s = [i \in 1..Len(s) |-> s[i]]
  OBVIOUS
<1>2. s \in [1..Len(s) -> {s[i] : i \in DOMAIN s}]
  BY <1>1
<1> QED BY <1>1, <1>2 DEF Listed

LEMMA ListedIn ==
  ASSUME NEW s, Listed(s), NEW S, \A i \in DOMAIN s : s[i] \in S
  PROVE  s \in Seq(S)
<1>1. Len(s) \in Nat /\ DOMAIN s = 1..Len(s) /\ s = [i \in 1..Len(s) |-> s[i]]
  BY DEF Listed
<1>2. s \in [1..Len(s) -> S]
  BY <1>1
<1> QED BY <1>1, <1>2

\* The channel's line before each frame of a block and after the last.
Lines(c, block) ==
  CHOOSE g : g = [f \in 0..Len(block) |->
                    IF f = 0 THEN delayLine[c]
                    ELSE [g[f - 1] EXCEPT ![(cursor + f - 1) % delayLength] = block[f][c]]]

\* What the channel has been fed with f frames of the block.
Fed(c, block, f) == past[c] \o [i \in 1..f |-> block[i][c]]

LEMMA FedIs ==
  ASSUME NEW c \in Wires, RoutingTypes, NEW block, NEW f \in Nat
  PROVE  /\ Listed(Fed(c, block, f)) /\ Len(Fed(c, block, f)) = Total + f /\ Total \in Nat
         /\ \A i \in 1..Total : Fed(c, block, f)[i] = past[c][i]
         /\ \A i \in 1..f : Fed(c, block, f)[Total + i] = block[i][c]
<1> DEFINE s == past[c]
           t == [i \in 1..f |-> block[i][c]]
           S == {s[i] : i \in DOMAIN s} \cup {t[i] : i \in 1..f}
<1>1. s \in Seq(S) /\ Len(s) = Total
  <2>1. Listed(s) /\ Len(s) = Total /\ \A i \in DOMAIN s : s[i] \in S
    BY DEF RoutingTypes
  <2> HIDE DEF s, S
  <2> QED BY <2>1, ListedIn
<1>2. t \in Seq(S) /\ Len(t) = f
  OBVIOUS
<1>3. /\ Len(s) \in Nat /\ Len(s \o t) = Len(s) + Len(t) /\ s \o t \in Seq(S)
      /\ \A i \in 1..(Len(s) + Len(t)) :
           (s \o t)[i] = IF i <= Len(s) THEN s[i] ELSE t[i - Len(s)]
  <2> HIDE DEF s, t, S
  <2>1. s \in Seq(S) /\ t \in Seq(S)
    BY <1>1, <1>2
  <2>2. Len(s) \in Nat
    BY <2>1
  <2> QED BY <2>1, <2>2, ConcatProperties
<1>4. /\ \A i \in 1..Total : (s \o t)[i] = s[i]
      /\ \A i \in 1..f : (s \o t)[Total + i] = t[i]
  <2> HIDE DEF s, t, S
  <2>1. ASSUME NEW i \in 1..Total PROVE (s \o t)[i] = s[i]
    <3>1. i \in 1..(Len(s) + Len(t)) /\ i <= Len(s)
      BY <1>1, <1>2, <1>3
    <3> QED BY <1>3, <3>1
  <2>2. ASSUME NEW i \in 1..f PROVE (s \o t)[Total + i] = t[i]
    <3> DEFINE k == Total + i
    <3>1. k \in 1..(Len(s) + Len(t)) /\ ~(k <= Len(s)) /\ k - Len(s) = i
      BY <1>1, <1>2, <1>3
    <3> HIDE DEF k
    <3>2. (s \o t)[k] = t[i]
      BY <1>3, <3>1
    <3> QED BY <3>2 DEF k
  <2> QED BY <2>1, <2>2
<1>5. Listed(s \o t)
  <2> HIDE DEF s, t, S
  <2> QED BY <1>3, ListIsListed
<1> QED BY <1>1, <1>2, <1>3, <1>4, <1>5 DEF Fed

\* One frame more.
LEMMA FedNext ==
  ASSUME NEW c \in Wires, RoutingTypes, NEW block, NEW f \in Nat
  PROVE  Fed(c, block, f + 1) = Append(Fed(c, block, f), block[f + 1][c])
<1> DEFINE s == Fed(c, block, f)
           t == Fed(c, block, f + 1)
           v == block[f + 1][c]
           S == {s[i] : i \in DOMAIN s} \cup {t[i] : i \in DOMAIN t} \cup {v}
<1>0. /\ \A i \in DOMAIN s : s[i] \in S
      /\ \A i \in DOMAIN t : t[i] \in S
      /\ v \in S
  OBVIOUS
<1>1. /\ s \in Seq(S) /\ Len(s) = Total + f /\ Total \in Nat
      /\ \A i \in 1..Total : s[i] = past[c][i]
      /\ \A i \in 1..f : s[Total + i] = block[i][c]
  <2> HIDE DEF S
  <2> QED BY <1>0, FedIs, ListedIn
<1>2. /\ t \in Seq(S) /\ Len(t) = Total + f + 1
      /\ \A i \in 1..Total : t[i] = past[c][i]
      /\ \A i \in 1..(f + 1) : t[Total + i] = block[i][c]
  <2>1. f + 1 \in Nat
    OBVIOUS
  <2> HIDE DEF s, S
  <2> QED BY <1>0, <1>1, <2>1, FedIs, ListedIn
<1>3. v \in S
  BY <1>0
<1> HIDE DEF s, t, S, v
<1>4. /\ Append(s, v) \in Seq(S) /\ Len(Append(s, v)) = Len(s) + 1
      /\ \A i \in 1..Len(s) : Append(s, v)[i] = s[i]
      /\ Append(s, v)[Len(s) + 1] = v
  BY <1>1, <1>3, AppendProperties
<1>5. ASSUME NEW i \in 1..(Total + f + 1)
      PROVE  t[i] = Append(s, v)[i]
  <2>1. CASE i \in 1..Total
    BY <1>1, <1>2, <1>4, <2>1
  <2>2. CASE i \in (Total + 1)..(Total + f)
    <3>1. i - Total \in 1..f /\ i = Total + (i - Total) /\ i \in 1..Len(s)
      BY <1>1, <2>2
    <3> DEFINE k == i - Total
    <3>2. k \in 1..f /\ i = Total + k /\ k \in 1..(f + 1)
      BY <1>1, <3>1
    <3> HIDE DEF k
    <3>3. t[i] = block[k][c]
      BY <1>2, <3>2
    <3>4. s[i] = block[k][c]
      BY <1>1, <3>2
    <3> QED BY <1>4, <3>1, <3>3, <3>4
  <2>3. CASE i = Total + f + 1
    BY <1>1, <1>2, <1>4, <2>3 DEF v
  <2> QED BY <1>1, <2>1, <2>2, <2>3
<1> QED BY <1>1, <1>2, <1>4, <1>5, SeqEqual DEF s, t, v

LEMMA FedNothing ==
  ASSUME NEW c \in Wires, RoutingTypes, NEW block
  PROVE  Fed(c, block, 0) = past[c]
<1> DEFINE s == Fed(c, block, 0)
           t == past[c]
           S == {s[i] : i \in DOMAIN s} \cup {t[i] : i \in DOMAIN t}
<1>1. /\ \A i \in DOMAIN s : s[i] \in S
      /\ \A i \in DOMAIN t : t[i] \in S
  OBVIOUS
<1>2. /\ Listed(s) /\ Listed(t) /\ Len(s) = Total + 0 /\ Len(t) = Total /\ Total \in Nat
      /\ \A i \in 1..Total : s[i] = t[i]
  <2>1. 0 \in Nat
    OBVIOUS
  <2> QED BY <2>1, FedIs DEF RoutingTypes
<1> HIDE DEF s, t, S
<1>3. s \in Seq(S) /\ t \in Seq(S)
  BY <1>1, <1>2, ListedIn
<1>4. s = t
  BY <1>2, <1>3, SeqEqual
<1> QED BY <1>4 DEF s, t

\* Before each frame and after the last, the line holds the end of what it was fed.
LEMMA LinesAre ==
  ASSUME RoutingTypes, TapesHoldThePast, NEW c \in Wires, NEW block, Len(block) \in Nat
  PROVE  \A f \in 0..Len(block) :
           Lines(c, block)[f] = Tape((cursor + f) % delayLength, Fed(c, block, f))
<1> DEFINE n == Len(block)
           place(f) == (cursor + f) % delayLength
           g == [f \in 0..n |-> Tape(place(f), Fed(c, block, f))]
           h == Lines(c, block)
           T == {f \in 0..n : h[f] = g[f]}
           next(k, f) == [k[f - 1] EXCEPT ![(cursor + f - 1) % delayLength] = block[f][c]]
           Is(k) == k = [f \in 0..n |-> IF f = 0 THEN delayLine[c] ELSE next(k, f)]
<1>1. cursor \in 0..(delayLength - 1) /\ cursor \in Nat /\ delayLength \in Nat /\ n \in Nat
  BY RingLength DEF RoutingTypes
<1>2. place(0) = cursor
  BY <1>1, Remainder, RingLength
<1>3. \A f \in Nat : /\ place(f) \in 0..(delayLength - 1) /\ place(f + 1) = Turned(place(f))
  <2> TAKE f \in Nat
  <2>1. cursor + f \in Nat /\ cursor + (f + 1) = cursor + f + 1
    BY <1>1
  <2> QED BY <2>1, TurnIs
<1>4. g[0] = delayLine[c]
  <2>1. g[0] = Tape(place(0), Fed(c, block, 0))
    BY <1>1
  <2> QED BY <1>2, <2>1, FedNothing DEF TapesHoldThePast
<1>5. ASSUME NEW f \in 1..n
      PROVE  g[f] = next(g, f)
  <2> DEFINE e == f - 1
             s == Fed(c, block, e)
             v == block[f][c]
             S == {s[i] : i \in DOMAIN s} \cup {v}
  <2>1. e \in Nat /\ e + 1 = f /\ cursor + f - 1 = cursor + e /\ e \in 0..n /\ f \in 0..n
    BY <1>1
  <2>2. g[f] = Tape(place(f), Fed(c, block, f)) /\ g[e] = Tape(place(e), s)
    BY <2>1
  <2>3. \A i \in DOMAIN s : s[i] \in S
    OBVIOUS
  <2>4. v \in S
    OBVIOUS
  <2> HIDE DEF S, e, place, g
  <2>5. Fed(c, block, f) = Append(s, v)
    BY <2>1, FedNext
  <2>6. Listed(s)
    BY <2>1, FedIs
  <2>7. place(f) = Turned(place(e)) /\ place(e) \in 0..(delayLength - 1)
    BY <1>3, <2>1
  <2> HIDE DEF s, v
  <2>8. s \in Seq(S)
    BY <2>3, <2>6, ListedIn
  <2>9. [Tape(place(e), s) EXCEPT ![place(e)] = v] = Tape(Turned(place(e)), Append(s, v))
    BY <2>4, <2>7, <2>8, TapeWritten
  <2>10. g[f] = [g[e] EXCEPT ![place(e)] = v]
    BY <2>2, <2>5, <2>7, <2>9
  <2> QED BY <2>1, <2>10 DEF e, place, v
<1>6. g = [f \in 0..n |-> g[f]]
  OBVIOUS
<1> HIDE DEF g, n, h
<1>7. Is(g)
  <2>1. \A f \in 0..n : g[f] = IF f = 0 THEN delayLine[c] ELSE next(g, f)
    <3> TAKE f \in 0..n
    <3>1. f = 0 \/ f \in 1..n
      BY <1>1
    <3> HIDE DEF next
    <3> QED BY <1>4, <1>5, <3>1
  <2> HIDE DEF next
  <2> QED BY <1>6, <2>1
<1>8. h = CHOOSE k : Is(k)
  BY Zenon DEF Lines, h, n
<1>9. Is(h)
  <2> HIDE DEF Is
  <2> QED BY <1>7, <1>8, Zenon
<1>10. 0 \in T
  BY <1>1, <1>4, <1>9
<1>11. ASSUME NEW i \in 0..(n - 1), i \in T PROVE i + 1 \in T
  <2>1. i + 1 \in 1..n /\ i + 1 \in 0..n /\ i + 1 - 1 = i /\ i + 1 # 0
    BY <1>1
  <2>2. h[i] = g[i]
    BY <1>11
  <2>3. next(h, i + 1) = next(g, i + 1)
    BY <2>1, <2>2
  <2> HIDE DEF next
  <2>4. h[i + 1] = next(h, i + 1)
    BY <1>9, <2>1
  <2>5. g[i + 1] = next(g, i + 1)
    BY <1>5, <2>1
  <2> QED BY <2>1, <2>3, <2>4, <2>5
<1>12. 0..n \subseteq T
  <2> HIDE DEF T
  <2> QED BY <1>1, <1>10, <1>11, Induction
<1>13. \A f \in 0..n : h[f] = g[f]
  BY <1>12
<1>14. \A f \in 0..n : g[f] = Tape(place(f), Fed(c, block, f))
  BY DEF g
<1> QED BY <1>13, <1>14 DEF h, n

\* A read in terms of the tape: what the taps weigh is as old as the delay says.
LEMMA ReadIs ==
  ASSUME NEW c, NEW l, NEW w,
         NEW u, u = [j \in 1..4 |-> l[Around(w - Whole(c) + 2 - j)]],
         Read(c, l, w) # NaN
  PROVE  Read(c, l, w) = Terms([j \in 1..4 |-> Taps(c)[j] * u[j]])[1..4]
<1> DEFINE tap == [j \in 1..4 |-> l[Around(w - Whole(c) + 2 - j)]]
           total == MapThenSumSet(LAMBDA j : Taps(c)[j] * tap[j], 1..4)
<1>1. total = Terms([j \in 1..4 |-> Taps(c)[j] * tap[j]])[1..4]
  <2> HIDE DEF tap
  <2> QED BY SumOfTaps, Zenon
<1>2. Read(c, l, w) = IF \E j \in 1..4 : tap[j] = NaN THEN NaN ELSE total
  BY Zenon DEF Read
<1>3. tap = u
  OBVIOUS
<1> HIDE DEF tap, total
<1> QED BY <1>1, <1>2, <1>3, Zenon

LEMMA WholeIs ==
  ASSUME RoutingTypes, NEW c \in Wires
  PROVE  ms[c] \in Nat /\ Whole(c) \in 1..kMaxDelay /\ (Delayed(c) <=> ms[c] # 0)
<1>1. ms[c] \in Nat
  BY RoutingAssumption DEF RoutingTypes
<1>2. /\ Snapped(ms[c]) \in Nat /\ Snapped(ms[c]) >= 2 /\ Snapped(ms[c]) <= 2 * kMaxDelay
  BY <1>1, RoutingAssumption DEF Snapped
<1> QED BY <1>1, <1>2, RoutingAssumption DEF Whole, Delayed

LEMMA ChannelIs ==
  ASSUME NEW c, NEW block
  PROVE  LET read == [f \in 1..Len(block) |->
                        IF Delayed(c) THEN Read(c, Lines(c, block)[f], (cursor + f - 1) % delayLength)
                        ELSE IF block[f][c] = NaN THEN NaN ELSE 16 * block[f][c]]
             bad == Delayed(c) /\ \E f \in 1..Len(block) : read[f] = NaN IN
         Channel(c, block) =
           [line |-> IF bad THEN Quiet[c] ELSE Lines(c, block)[Len(block)],
            sound |-> [f \in 1..Len(block) |-> IF Delayed(c) THEN Sound(read[f]) ELSE read[f]],
            bad |-> bad]
BY Zenon DEF Channel, Lines

\* One channel over one block: unless a sound was not a number, the line holds what it
\* was fed and each sound is due.
LEMMA ChannelPlays ==
  ASSUME RoutingTypes, TapesHoldThePast, NEW c \in Wires, NEW block, Len(block) \in Nat,
         ~Channel(c, block).bad
  PROVE  /\ Channel(c, block).line = Tape((cursor + Len(block)) % delayLength, Fed(c, block, Len(block)))
         /\ \A f \in 1..Len(block) :
              ms[c] = 0 /\ block[f][c] # NaN => Channel(c, block).sound[f] = 16 * block[f][c]
         /\ \A f \in 1..Len(block) :
              ms[c] # 0 => Channel(c, block).sound[f] =
                             Terms([j \in 1..4 |-> Taps(c)[j] *
                                      Old(Fed(c, block, f), Total + f - Whole(c) + 2 - j)])[1..4]
<1> DEFINE n == Len(block)
           at(f) == (cursor + f - 1) % delayLength
           read == [f \in 1..n |->
                      IF Delayed(c) THEN Read(c, Lines(c, block)[f], at(f))
                      ELSE IF block[f][c] = NaN THEN NaN ELSE 16 * block[f][c]]
           bad == Delayed(c) /\ \E f \in 1..n : read[f] = NaN
           sound == [f \in 1..n |-> IF Delayed(c) THEN Sound(read[f]) ELSE read[f]]
<1>1. Channel(c, block) = [line |-> IF bad THEN Quiet[c] ELSE Lines(c, block)[n],
                           sound |-> sound, bad |-> bad]
  BY ChannelIs, Zenon
<1>2. Channel(c, block).line = Lines(c, block)[n] /\ Channel(c, block).sound = sound /\ ~bad
  <2> HIDE DEF bad, sound, n
  <2> QED BY <1>1
<1>3. n \in Nat /\ n \in 0..n
  OBVIOUS
<1>4. \A f \in 0..n : Lines(c, block)[f] = Tape((cursor + f) % delayLength, Fed(c, block, f))
  BY LinesAre
<1>5. ASSUME NEW f \in 1..n, ms[c] = 0, block[f][c] # NaN
      PROVE  sound[f] = 16 * block[f][c]
  BY <1>5, WholeIs
<1>6. ASSUME NEW f \in 1..n, ms[c] # 0
      PROVE  sound[f] = Terms([j \in 1..4 |-> Taps(c)[j] *
                              Old(Fed(c, block, f), Total + f - Whole(c) + 2 - j)])[1..4]
  <2> DEFINE s == Fed(c, block, f)
             S == {s[i] : i \in DOMAIN s}
             w == at(f)
             l == Lines(c, block)[f]
             u == [j \in 1..4 |-> Old(s, Total + f - Whole(c) + 2 - j)]
  <2>1. Delayed(c) /\ Whole(c) \in 1..kMaxDelay
    BY <1>6, WholeIs
  <2>2. read[f] = Read(c, l, w)
    BY <2>1
  <2>3. read[f] # NaN /\ sound[f] = read[f]
    BY <1>2, <2>1 DEF Sound, IsNumber
  <2>4. f \in Nat /\ f \in 0..n
    BY <1>3
  <2>5. s \in Seq(S) /\ Len(s) = Total + f /\ Total \in Nat
    <3>1. Listed(s) /\ Len(s) = Total + f /\ Total \in Nat
      BY <1>3, <2>4, FedIs
    <3>2. \A i \in DOMAIN s : s[i] \in S
      OBVIOUS
    <3> HIDE DEF s, S
    <3> QED BY <3>1, <3>2, ListedIn
  <2>6. w \in 0..(delayLength - 1) /\ (cursor + f) % delayLength = Turned(w)
    <3>1. f - 1 \in Nat /\ cursor \in Nat /\ cursor + (f - 1) \in Nat
          /\ cursor + (f - 1) = cursor + f - 1 /\ cursor + (f - 1) + 1 = cursor + f
      BY <1>3, RingLength DEF RoutingTypes
    <3> QED BY <3>1, TurnIs
  <2>7. l = Tape(Turned(w), s)
    BY <1>4, <2>4, <2>6
  <2> HIDE DEF s, S, w, l
  <2>8. \A j \in 1..4 : l[Around(w - Whole(c) + 2 - j)] = Old(s, Total + f - Whole(c) + 2 - j)
    <3> DEFINE d == Whole(c)
    <3>1. d \in 1..kMaxDelay
      BY <2>1
    <3> HIDE DEF d
    <3>2. ASSUME NEW j \in 1..4
          PROVE  Tape(Turned(w), s)[Around(w - d + 2 - j)] = Old(s, Len(s) - d + 2 - j)
      <4>1. s \in Seq(S) /\ w \in 0..(delayLength - 1)
        BY <2>5, <2>6
      <4> QED BY <3>1, <4>1, TapeRead
    <3>3. ASSUME NEW j \in 1..4
          PROVE  l[Around(w - d + 2 - j)] = Old(s, Total + f - d + 2 - j)
      <4>1. Len(s) - d + 2 - j = Total + f - d + 2 - j
        BY <2>4, <2>5, <3>1
      <4> QED BY <2>7, <3>2, <4>1, Zenon
    <3> QED BY <3>3 DEF d
  <2>9. u = [j \in 1..4 |-> l[Around(w - Whole(c) + 2 - j)]]
    BY <2>8
  <2>10. \A j \in 1..4 : u[j] = Old(s, Total + f - Whole(c) + 2 - j)
    OBVIOUS
  <2>11. [j \in 1..4 |-> Taps(c)[j] * u[j]]
         = [j \in 1..4 |-> Taps(c)[j] * Old(s, Total + f - Whole(c) + 2 - j)]
    BY <2>10
  <2> HIDE DEF u, read, sound
  <2>12. Read(c, l, w) = Terms([j \in 1..4 |-> Taps(c)[j] * u[j]])[1..4]
    BY <2>2, <2>3, <2>9, ReadIs
  <2> QED BY <2>2, <2>3, <2>11, <2>12, Zenon DEF s
<1> HIDE DEF sound
<1> QED BY <1>2, <1>3, <1>4, <1>5, <1>6

\* With a sound that was not a number the line is silence.
LEMMA ChannelCleared ==
  ASSUME NEW c \in Wires, NEW block, Channel(c, block).bad
  PROVE  Channel(c, block).line = [i \in 0..(delayLength - 1) |-> 0]
<1> DEFINE read == [f \in 1..Len(block) |->
                      IF Delayed(c) THEN Read(c, Lines(c, block)[f], (cursor + f - 1) % delayLength)
                      ELSE IF block[f][c] = NaN THEN NaN ELSE 16 * block[f][c]]
           bad == Delayed(c) /\ \E f \in 1..Len(block) : read[f] = NaN
           sound == [f \in 1..Len(block) |-> IF Delayed(c) THEN Sound(read[f]) ELSE read[f]]
           end == Lines(c, block)[Len(block)]
<1>1. Channel(c, block) = [line |-> IF bad THEN Quiet[c] ELSE end, sound |-> sound, bad |-> bad]
  BY ChannelIs, Zenon
<1> HIDE DEF bad, sound, end
<1>2. Channel(c, block).line = Quiet[c]
  BY <1>1
<1> QED BY <1>2 DEF Quiet

\* A list that was fed silence only, and the ring that was.
LEMMA SilentTape ==
  ASSUME NEW m \in Nat, NEW w
  PROVE  LET s == [i \in 1..m |-> 0] IN
         /\ Listed(s) /\ Len(s) = m /\ s = [i \in DOMAIN s |-> 0]
         /\ Tape(w, s) = [i \in 0..(delayLength - 1) |-> 0]
<1> DEFINE s == [i \in 1..m |-> 0]
<1>1. s \in Seq({0}) /\ Len(s) = m /\ s = [i \in DOMAIN s |-> 0] /\ \A i \in 1..m : s[i] = 0
  OBVIOUS
<1>2. Listed(s)
  <2> HIDE DEF s
  <2> QED BY <1>1, ListIsListed
<1>3. \A i : Old(s, i) = 0
  <2> HIDE DEF s
  <2> QED BY <1>1 DEF Old
<1>4. Tape(w, s) = [i \in 0..(delayLength - 1) |-> 0]
  <2> HIDE DEF s
  <2> QED BY <1>3 DEF Tape
<1> QED BY <1>1, <1>2, <1>4

\* Frames that come later change nothing of what was fed.
LEMMA FedPrefix ==
  ASSUME RoutingTypes, NEW c \in Wires, NEW block, NEW n \in Nat, NEW f \in 0..n,
         NEW i \in Int, i <= Total + f
  PROVE  Old(Fed(c, block, f), i) = Old(Fed(c, block, n), i)
<1> DEFINE s == Fed(c, block, f)
           t == Fed(c, block, n)
<1>1. /\ Len(s) = Total + f /\ Total \in Nat
      /\ \A k \in 1..Total : s[k] = past[c][k]
      /\ \A k \in 1..f : s[Total + k] = block[k][c]
  BY FedIs
<1>2. /\ Len(t) = Total + n
      /\ \A k \in 1..Total : t[k] = past[c][k]
      /\ \A k \in 1..n : t[Total + k] = block[k][c]
  BY FedIs
<1> HIDE DEF s, t
<1>0. f \in Nat /\ f <= n
  OBVIOUS
<1>6. ASSUME i >= 1, s[i] = t[i] PROVE Old(s, i) = Old(t, i)
  <2>1. i \in 1..Len(s) /\ i \in 1..Len(t)
    BY <1>0, <1>1, <1>2, <1>6
  <2> QED BY <1>6, <2>1, Zenon DEF Old
<1>3. CASE i < 1
  BY <1>0, <1>1, <1>2, <1>3 DEF Old
<1>4. CASE i \in 1..Total
  <2>1. s[i] = t[i] /\ i >= 1
    BY <1>1, <1>2, <1>4
  <2> QED BY <1>6, <2>1 DEF s, t
<1>5. CASE i > Total
  <2> DEFINE k == i - Total
  <2>1. k \in 1..f /\ k \in 1..n /\ i = Total + k /\ i >= 1
    BY <1>0, <1>1, <1>5
  <2> HIDE DEF k
  <2>2. s[i] = t[i]
    BY <1>1, <1>2, <2>1
  <2> QED BY <1>6, <2>1, <2>2 DEF s, t
<1> QED BY <1>1, <1>3, <1>4, <1>5 DEF s, t

LEMMA RoutingStarts == RoutingInit => RoutingInv
<1> SUFFICES ASSUME RoutingInit PROVE RoutingInv
  OBVIOUS
<1>1. ms \in Delays /\ cursor = 0 /\ heard = <<>> /\ past = [c \in Wires |-> <<>>]
      /\ delayLine = Quiet
  BY DEF RoutingInit
<1>2. cursor \in 0..(delayLength - 1)
  BY <1>1, RingLength
<1>3. Listed(<<>>) /\ Len(<<>>) = 0
  BY DEF Listed
<1>4. Total = 0
  BY <1>1, <1>3, RoutingAssumption DEF Total
<1>5. RoutingTypes
  BY <1>1, <1>2, <1>3, <1>4 DEF RoutingTypes
<1>6. Tape(cursor, <<>>) = [i \in 0..(delayLength - 1) |-> 0]
  BY <1>3 DEF Tape, Old
<1>7. TapesHoldThePast
  BY <1>1, <1>6 DEF TapesHoldThePast, Quiet
<1>8. HeardIsDue
  BY <1>1 DEF HeardIsDue
<1> QED BY <1>5, <1>7, <1>8 DEF RoutingInv

LEMMA RoutingFrame == RoutingInv /\ UNCHANGED routingVars => RoutingInv'
<1> SUFFICES ASSUME RoutingInv, UNCHANGED routingVars PROVE RoutingInv'
  OBVIOUS
<1>1. RoutingTypes'
  BY DEF routingVars, RoutingInv, RoutingTypes, Total, Listed
<1>2. TapesHoldThePast'
  BY DEF routingVars, RoutingInv, TapesHoldThePast, Tape, Old
<1>3. HeardIsDue'
  <2>1. \A f, c : DueTerms(f, c)' = DueTerms(f, c)
    BY DEF routingVars, DueTerms, Taps, Whole, Snapped, Ago, Story, Total
  <2> QED BY <2>1 DEF routingVars, RoutingInv, HeardIsDue
<1> QED BY <1>1, <1>2, <1>3 DEF RoutingInv

LEMMA SwitchKeeps ==
  ASSUME RoutingInv, NEW m, NEW d \in Delays, SetRouting(m, d)
  PROVE  RoutingInv'
<1>1. RoutingTypes'
  BY DEF SetRouting, RoutingInv, RoutingTypes, Total, Listed
<1>2. TapesHoldThePast'
  BY DEF SetRouting, RoutingInv, TapesHoldThePast, Tape, Old
<1>3. HeardIsDue'
  BY DEF SetRouting, HeardIsDue
<1> QED BY <1>1, <1>2, <1>3 DEF RoutingInv

LEMMA BlockKeeps ==
  ASSUME RoutingInv, NEW n \in Nat, NEW input \in [1..n -> Inputs], RoutingBlock(input)
  PROVE  RoutingInv'
<1> DEFINE mixed == [f \in 1..n |-> Mixed(weights, input[f])]
           exact == [f \in 1..n |->
                       [o \in Wires |-> IF Identity(weights) THEN input[f][o]
                                        ELSE Sound(Row(weights, o, input[f]))]]
           done == [c \in Wires |-> Channel(c, mixed)]
           zeros == [i \in 1..(Total + n) |-> 0]
           later == (cursor + n) % delayLength
<1>1. Len(input) = n
  OBVIOUS
<1>2. /\ delayLine' = [c \in Wires |-> done[c].line]
      /\ heard' = [f \in 1..n |-> [c \in Wires |-> done[c].sound[f]]]
      /\ asked' = exact
      /\ past' = [c \in Wires |-> IF done[c].bad THEN zeros
                                  ELSE past[c] \o [f \in 1..n |-> exact[f][c]]]
      /\ cursor' = later /\ ms' = ms
  BY <1>1, Zenon DEF RoutingBlock
<1>3. Len(mixed) = n /\ n \in Nat /\ RoutingTypes /\ TapesHoldThePast
  BY DEF RoutingInv
<1>4. \A c \in Wires, f \in 1..n : mixed[f][c] = exact[f][c]
  BY DEF Mixed
<1>5. \A c \in Wires : done[c] = Channel(c, mixed)
  OBVIOUS
<1>6. \A c \in Wires : Fed(c, mixed, n) = past[c] \o [f \in 1..n |-> exact[f][c]]
  <2> TAKE c \in Wires
  <2>1. [f \in 1..n |-> exact[f][c]] = [i \in 1..n |-> mixed[i][c]]
    <3> HIDE DEF exact, mixed
    <3> QED BY <1>4
  <2> HIDE DEF exact, mixed
  <2> QED BY <2>1 DEF Fed
<1> HIDE DEF mixed, exact, done, zeros
<1>7. \A c \in Wires : past'[c] = IF Channel(c, mixed).bad THEN zeros ELSE Fed(c, mixed, n)
  BY <1>2, <1>5, <1>6
<1>8. /\ Total \in Nat /\ Total + n \in Nat
      /\ Listed(zeros) /\ Len(zeros) = Total + n /\ zeros = [i \in DOMAIN zeros |-> 0]
      /\ Tape(later, zeros) = [i \in 0..(delayLength - 1) |-> 0]
  <2>1. PICK c \in Wires : TRUE
    BY RoutingAssumption
  <2>2. Total \in Nat /\ Total + n \in Nat
    BY <1>3, <2>1, FedIs
  <2> QED BY <2>2, SilentTape DEF zeros
<1>9. \A c \in Wires : Listed(past'[c]) /\ Len(past'[c]) = Total + n
  BY <1>3, <1>7, <1>8, FedIs
<1>10. Total' = Total + n
  BY <1>9, RoutingAssumption DEF Total
<1>11. later \in 0..(delayLength - 1)
  <2>1. cursor + n \in Nat
    BY <1>3, RingLength DEF RoutingTypes
  <2> QED BY <2>1, TurnIs
<1>12. RoutingTypes'
  BY <1>2, <1>3, <1>9, <1>10, <1>11 DEF RoutingTypes, Listed
<1>13. ASSUME NEW c \in Wires, ~Channel(c, mixed).bad
       PROVE  /\ Channel(c, mixed).line = Tape(later, Fed(c, mixed, n))
              /\ \A f \in 1..n :
                   ms[c] = 0 /\ mixed[f][c] # NaN => Channel(c, mixed).sound[f] = 16 * mixed[f][c]
              /\ \A f \in 1..n :
                   ms[c] # 0 => Channel(c, mixed).sound[f] =
                                  Terms([j \in 1..4 |-> Taps(c)[j] *
                                     Old(Fed(c, mixed, f), Total + f - Whole(c) + 2 - j)])[1..4]
  <2>1. Len(mixed) \in Nat
    BY <1>3
  <2>2. /\ Channel(c, mixed).line
             = Tape((cursor + Len(mixed)) % delayLength, Fed(c, mixed, Len(mixed)))
        /\ \A f \in 1..Len(mixed) :
             ms[c] = 0 /\ mixed[f][c] # NaN => Channel(c, mixed).sound[f] = 16 * mixed[f][c]
        /\ \A f \in 1..Len(mixed) :
             ms[c] # 0 => Channel(c, mixed).sound[f] =
                            Terms([j \in 1..4 |-> Taps(c)[j] *
                               Old(Fed(c, mixed, f), Total + f - Whole(c) + 2 - j)])[1..4]
    <3>1. RoutingTypes /\ TapesHoldThePast
      BY <1>3
    <3> QED BY <1>13, <2>1, <3>1, ChannelPlays
  <2>3. Len(mixed) = n
    BY <1>3
  <2> HIDE DEF later
  <2>4. (cursor + Len(mixed)) % delayLength = later
    BY <2>3 DEF later
  <2> QED BY <2>2, <2>3, <2>4
<1>14. TapesHoldThePast'
  <2>1. \A c \in Wires : delayLine'[c] = Tape(later, past'[c])
    <3> TAKE c \in Wires
    <3>1. delayLine'[c] = Channel(c, mixed).line
      BY <1>2, <1>5
    <3> QED BY <1>7, <1>8, <1>13, <3>1, ChannelCleared
  <2>2. delayLine' = [c \in Wires |-> delayLine'[c]]
    BY <1>2
  <2> HIDE DEF later
  <2>3. delayLine' = [c \in Wires |-> Tape(later, past'[c])]
    BY <2>1, <2>2
  <2> QED BY <1>2, <2>3 DEF TapesHoldThePast, Tape, Old
<1>15. HeardIsDue'
  <2>1. DOMAIN heard' = 1..n /\ Len(heard') = n
    BY <1>2
  <2>10. \A c \in Wires : Channel(c, mixed).bad => past'[c] = [i \in DOMAIN past'[c] |-> 0]
    BY <1>7, <1>8
  <2>11. SUFFICES ASSUME NEW f \in 1..n, NEW c \in Wires, \A g \in 1..n : asked'[g][c] # NaN
                  PROVE  \/ past'[c] = [i \in DOMAIN past'[c] |-> 0]
                         \/ heard'[f][c] = IF ms'[c] = 0 THEN 16 * asked'[f][c] ELSE DueTerms(f, c)'
    BY <2>1, Zenon DEF HeardIsDue
  <2>2. SUFFICES ASSUME asked'[f][c] # NaN, ~Channel(c, mixed).bad
                 PROVE  heard'[f][c] = IF ms[c] = 0 THEN 16 * asked'[f][c] ELSE DueTerms(f, c)'
    BY <1>2, <2>10, <2>11, Zenon
  <2>3. heard'[f][c] = Channel(c, mixed).sound[f] /\ asked'[f][c] = mixed[f][c]
    BY <1>2, <1>4, <1>5
  <2>4. CASE ms[c] = 0
    BY <1>13, <2>2, <2>3, <2>4
  <2>5. CASE ms[c] # 0
    <3>1. past'[c] = Fed(c, mixed, n) /\ Len(past'[c]) = Total + n
          /\ DOMAIN past'[c] = 1..Len(past'[c])
      <4>1. past'[c] = Fed(c, mixed, n)
        BY <1>7, <2>2
      <4>2. Listed(Fed(c, mixed, n)) /\ Len(Fed(c, mixed, n)) = Total + n
        BY <1>3, FedIs
      <4> QED BY <4>1, <4>2 DEF Listed
    <3>2. Whole(c) \in 1..kMaxDelay /\ Whole(c) \in Nat
      BY <1>3, WholeIs
    <3>3. ASSUME NEW j \in 1..4
          PROVE  Old(Fed(c, mixed, f), Total + f - Whole(c) + 2 - j)
                 = Ago(c, Total - Len(heard) + f - Whole(c) + 2 - j)'
      <4> DEFINE i == Total + f - Whole(c) + 2 - j
      <4>1. i \in Int /\ i <= Total + f /\ f \in 0..n
        BY <1>8, <3>2
      <4>2. Total' - Len(heard') + f - Whole(c) + 2 - j = i
        BY <1>8, <1>10, <2>1, <3>2
      <4>3. Whole(c)' = Whole(c)
        BY <1>2 DEF Whole, Snapped
      <4> HIDE DEF i
      <4>4. Old(Fed(c, mixed, f), i) = Old(Fed(c, mixed, n), i)
        BY <1>3, <4>1, FedPrefix
      <4>5. Ago(c, Total - Len(heard) + f - Whole(c) + 2 - j)' = Old(Fed(c, mixed, n), i)
        BY <3>1, <4>2, <4>3 DEF Ago, Story, Old
      <4> QED BY <4>4, <4>5 DEF i
    <3>4. Taps(c)' = Taps(c)
      BY <1>2 DEF Taps, Snapped
    <3>5. DueTerms(f, c)'
          = Terms([j \in 1..4 |-> Taps(c)[j] *
                     Old(Fed(c, mixed, f), Total + f - Whole(c) + 2 - j)])[1..4]
      BY <3>3, <3>4 DEF DueTerms
    <3>6. Channel(c, mixed).sound[f]
          = Terms([j \in 1..4 |-> Taps(c)[j] *
                     Old(Fed(c, mixed, f), Total + f - Whole(c) + 2 - j)])[1..4]
      BY <1>13, <2>2, <2>5, Zenon
    <3> QED BY <2>3, <2>5, <3>5, <3>6, Zenon
  <2> QED BY <2>4, <2>5
<1> QED BY <1>12, <1>14, <1>15 DEF RoutingInv

LEMMA RoutingStep == RoutingInv /\ RoutingNext => RoutingInv'
<1> SUFFICES ASSUME RoutingInv, RoutingNext PROVE RoutingInv'
  OBVIOUS
<1>1. CASE \E n \in BlockSizes : \E input \in [1..n -> Inputs] : RoutingBlock(input)
  BY <1>1, BlockKeeps, RoutingAssumption
<1>2. CASE \E m \in Matrices, d \in Delays : <<m, d>> # <<weights, ms>> /\ SetRouting(m, d)
  BY <1>2, SwitchKeeps
<1> QED BY <1>1, <1>2 DEF RoutingNext

LEMMA RoutingPart ==
  /\ SignalInit => RoutingInit
  /\ [SignalNext]_signalVars => RoutingNext \/ UNCHANGED routingVars
<1>1. SignalInit => RoutingInit
  BY DEF SignalInit
<1>2. ASSUME SignalNext PROVE RoutingNext \/ UNCHANGED routingVars
  BY <1>2 DEF SignalNext
<1>3. ASSUME UNCHANGED signalVars PROVE UNCHANGED routingVars
  BY <1>3 DEF signalVars
<1> QED BY <1>1, <1>2, <1>3

\* dsp/Routing: for any number of channels, any matrices, delays and buffers, what is
\* heard of a frame is what the matrix makes of the frame that came in as long ago as
\* the channel's delay says, over the edges of buffers and of the ring.
THEOREM RoutesAsAsked == SignalSpec => []WiredAsAsked
<1>1. SignalInit => RoutingInv
  BY RoutingPart, RoutingStarts
<1>2. RoutingInv /\ [SignalNext]_signalVars => RoutingInv'
  BY RoutingPart, RoutingStep, RoutingFrame
<1>3. RoutingInv => WiredAsAsked
  BY DueIsWired DEF RoutingInv
<1> QED BY <1>1, <1>2, <1>3, PTL DEF SignalSpec

----------------------------------------------------------------------------
(* The limiter.                                                             *)

\* Products and quotients of levels.
LEMMA Louder ==
  ASSUME NEW x \in Nat, NEW y \in Nat, NEW g \in Nat, x <= y
  PROVE  x * g <= y * g /\ x * g \in Nat /\ y * g \in Nat
<1>1. y = x + (y - x) /\ y - x \in Nat
  OBVIOUS
<1>2. y * g = x * g + (y - x) * g /\ (y - x) * g \in Nat /\ x * g \in Nat
  BY <1>1
<1> QED BY <1>2

LEMMA Quotient ==
  ASSUME NEW x \in Nat, NEW p \in Nat \ {0}
  PROVE  x \div p \in Nat /\ p * (x \div p) <= x
<1> DEFINE q == x \div p
           r == x % p
<1>1. q \in Int /\ r \in 0..(p - 1) /\ x = p * q + r
  OBVIOUS
<1> HIDE DEF q, r
<1>2. q >= 0
  <2>1. SUFFICES ASSUME q <= -1 PROVE FALSE
    BY <1>1
  <2>2. p * q <= -p
    BY <1>1, <2>1
  <2> QED BY <1>1, <2>2
<1>3. p * q \in Int /\ p * q <= x
  BY <1>1
<1> QED BY <1>1, <1>2, <1>3 DEF q

\* A quotient by more than the divisor gave is less.
LEMMA QuotientBelow ==
  ASSUME NEW x \in Nat, NEW p \in Nat \ {0}, NEW u \in Nat, x <= p * u
  PROVE  x \div p <= u
<1> DEFINE q == x \div p
<1>1. q \in Nat /\ p * q <= x
  BY Quotient
<1> HIDE DEF q
<1>2. SUFFICES ASSUME q >= u + 1 PROVE FALSE
  BY <1>1 DEF q
<1>3. p * q >= p * (u + 1) 
  <2>1. (u + 1) * p <= q * p
    BY <1>1, <1>2, Louder
  <2>2. (u + 1) * p = p * (u + 1) /\ q * p = p * q
    BY <1>1
  <2> QED BY <1>1, <2>1, <2>2
<1>4. p * (u + 1) = p * u + p
  OBVIOUS
<1> QED BY <1>1, <1>3, <1>4

\* The greatest of a set that has one, and a set of numbers up to n has one.
LEMMA GreatestIs ==
  ASSUME NEW S, S \subseteq Int, NEW m \in S, \A y \in S : y <= m
  PROVE  Max(S) = m
<1>1. \E x \in S : \A y \in S : x >= y
  BY SMT
<1>2. Max(S) \in S /\ \A y \in S : Max(S) >= y
  BY <1>1, Zenon DEF Max
<1> DEFINE k == Max(S)
<1>3. k \in S /\ k >= m
  BY <1>2
<1> HIDE DEF k
<1>4. k = m
  <2>1. k \in Int /\ m \in Int /\ k <= m
    BY <1>3
  <2> QED BY <1>3, <2>1
<1> QED BY <1>4 DEF k

LEMMA GreatestExists ==
  ASSUME NEW n \in Nat, NEW S, S \subseteq 0..n, S # {}
  PROVE  Max(S) \in S /\ \A y \in S : y <= Max(S)
<1> DEFINE T == {k \in 0..n : (\E y \in S : y <= k) => \E m \in S : m <= k /\ \A y \in S : y <= k => y <= m}
<1>1. 0 \in T
  <2>1. ASSUME NEW y \in S, y <= 0
        PROVE  \E m \in S : m <= 0 /\ \A z \in S : z <= 0 => z <= m
    BY <2>1
  <2> QED BY <2>1
<1>2. ASSUME NEW i \in 0..(n - 1), i \in T PROVE i + 1 \in T
  <2>1. i + 1 \in 0..n
    OBVIOUS
  <2>2. CASE i + 1 \in S
    <3>1. \A y \in S : y <= i + 1 => y <= i + 1
      OBVIOUS
    <3> QED BY <2>1, <2>2, <3>1
  <2>3. CASE i + 1 \notin S
    <3>1. \A y \in S : y <= i + 1 <=> y <= i
      BY <2>3
    <3>2. ASSUME NEW y \in S, y <= i + 1
          PROVE  \E m \in S : m <= i + 1 /\ \A z \in S : z <= i + 1 => z <= m
      <4>1. PICK m \in S : m <= i /\ \A z \in S : z <= i => z <= m
        BY <1>2, <3>1, <3>2
      <4> QED BY <3>1, <4>1
    <3> QED BY <2>1, <3>2
  <2> QED BY <2>2, <2>3
<1>3. n \in T
  <2> HIDE DEF T
  <2>1. 0..n \subseteq T
    BY <1>1, <1>2, Induction
  <2> QED BY <2>1
<1>4. PICK m \in S : \A y \in S : y <= m
  <2>1. \A y \in S : y <= n
    OBVIOUS
  <2>2. \E y \in S : y <= n
    BY <2>1
  <2> QED BY <1>3, <2>1, <2>2
<1>5. S \subseteq Int
  OBVIOUS
<1>6. Max(S) = m
  BY <1>4, <1>5, GreatestIs
<1> QED BY <1>4, <1>6

Levels == [Lanes -> Nat \cup {NaN}]

\* The loudest channel is as loud as each.
LEMMA LoudestIs ==
  ASSUME NEW x \in Levels
  PROVE  LoudestOf(x) \in Nat /\ \A c \in Lanes : x[c] # NaN => x[c] <= LoudestOf(x)
<1>1. PICK n \in Nat : Lanes = 1..n
  BY LimiterAssumption
<1> DEFINE S == {x[c] : c \in {y \in Lanes : IsNumber(x[y])}} \cup {0}
           T == {k \in 0..n : \E m \in S : \A c \in 1..k : x[c] # NaN => x[c] <= m}
<1>2. S \subseteq Nat /\ 0 \in S
  BY DEF IsNumber, Levels
<1>3. \A c \in Lanes : x[c] # NaN => x[c] \in S
  BY DEF IsNumber
<1>4. \A c \in Lanes : x[c] # NaN => x[c] \in Nat
  BY DEF Levels
<1>5. 0 \in T
  BY <1>2
<1>6. ASSUME NEW i \in 0..(n - 1), i \in T PROVE i + 1 \in T
  <2>1. i + 1 \in Lanes /\ i + 1 \in 0..n /\ i \in Nat /\ \A c \in 1..i : c \in Lanes
    BY <1>1
  <2>2. PICK m \in S : \A c \in 1..i : x[c] # NaN => x[c] <= m
    BY <1>6
  <2>3. \E w \in S : \A c \in 1..(i + 1) : x[c] # NaN => x[c] <= w
    <3> HIDE DEF S
    <3>1. CASE x[i + 1] = NaN
      BY <2>1, <2>2, <3>1
    <3>2. CASE x[i + 1] # NaN /\ x[i + 1] <= m
      BY <2>1, <2>2, <3>2
    <3>3. CASE x[i + 1] # NaN /\ ~(x[i + 1] <= m)
      <4>1. x[i + 1] \in S /\ x[i + 1] \in Nat /\ m \in Nat
        BY <1>2, <1>3, <1>4, <2>1, <3>3
      <4>2. \A c \in 1..(i + 1) : x[c] # NaN => x[c] <= x[i + 1]
        BY <1>4, <2>1, <2>2, <3>3, <4>1
      <4> QED BY <4>1, <4>2
    <3> QED BY <3>1, <3>2, <3>3
  <2> QED BY <2>1, <2>3
<1>7. n \in T
  <2> HIDE DEF T
  <2>1. 0..n \subseteq T
    BY <1>5, <1>6, Induction
  <2> QED BY <2>1
<1>8. PICK m \in S : \A c \in Lanes : x[c] # NaN => x[c] <= m
  BY <1>1, <1>7
<1>9. \A y \in S : y <= m
  BY <1>2, <1>8 DEF IsNumber
<1>10. LoudestOf(x) = Max(S)
  BY Zenon DEF LoudestOf
<1> HIDE DEF S
<1>11. Max(S) = m
  <2>1. S \subseteq Int
    BY <1>2
  <2> QED BY <1>9, <2>1, GreatestIs
<1> QED BY <1>2, <1>8, <1>10, <1>11

LEMMA SettingsAre ==
  ASSUME limiter \in LimiterParams
  PROVE  /\ limiter.gain \in Nat /\ limiter.threshold \in Nat
         /\ limiter.look \in 0..kMaxLookahead /\ limiter.look \in Nat
         /\ Unity \in Nat /\ limiter.threshold * Unity \in Nat
<1>1. limiter \in [gain : Nat, threshold : Nat, look : 0..kMaxLookahead, truePeak : BOOLEAN]
      /\ Unity \in Nat /\ kMaxLookahead \in Nat
  BY LimiterAssumption
<1>2. limiter.threshold \in Nat
  BY <1>1
<1>3. limiter.threshold * Unity \in Nat
  BY <1>1, <1>2
<1> QED BY <1>1, <1>2, <1>3

LEMMA LinkedIs ==
  ASSUME limiter \in LimiterParams, NEW x \in Levels, NEW frame \in Frames, NEW listening
  PROVE  /\ LinkedPeak(x, frame, listening) \in Nat
         /\ \A c \in Lanes : x[c] # NaN => x[c] <= LinkedPeak(x, frame, listening)
<1> DEFINE k == LoudestOf(x)
           p == frame.peak * limiter.gain
           S == {k} \cup (IF limiter.truePeak /\ listening # {} THEN {p} ELSE {})
           m == IF limiter.truePeak /\ listening # {} /\ k <= p THEN p ELSE k
<1>1. k \in Nat /\ \A c \in Lanes : x[c] # NaN => x[c] <= k
  BY LoudestIs
<1>2. p \in Nat
  BY SettingsAre, LimiterAssumption
<1>3. LinkedPeak(x, frame, listening) = Max(S)
  BY Zenon DEF LinkedPeak
<1> HIDE DEF k, p
<1>4. S \subseteq Int /\ m \in S /\ \A y \in S : y <= m
  BY <1>1, <1>2
<1>5. m \in Nat /\ k <= m
  BY <1>1, <1>2
<1> HIDE DEF S, m
<1>6. Max(S) = m
  BY <1>4, GreatestIs
<1> QED BY <1>1, <1>3, <1>5, <1>6 DEF Levels

LEMMA TargetIs ==
  ASSUME limiter \in LimiterParams, NEW p \in Nat
  PROVE  Target(p) \in 0..Unity /\ p * Target(p) <= limiter.threshold * Unity
<1> DEFINE t == limiter.threshold
           x == t * Unity
<1>1. t \in Nat /\ Unity \in Nat /\ x \in Nat
  BY SettingsAre
<1>2. CASE p > t
  <2>1. Target(p) = x \div p
    BY <1>2 DEF Target
  <2>2. p \in Nat \ {0} /\ t * Unity <= p * Unity
    BY <1>1, <1>2, Louder
  <2> HIDE DEF t
  <2>3. x \div p \in Nat /\ p * (x \div p) <= x /\ x \div p <= Unity
    <3> HIDE DEF x
    <3> QED BY <1>1, <2>2, Quotient, QuotientBelow DEF x
  <2> QED BY <1>1, <2>1, <2>3 DEF t
<1>3. CASE ~(p > t)
  <2>1. Target(p) = Unity
    BY <1>3 DEF Target
  <2>2. p * Unity <= t * Unity
    BY <1>1, <1>3, Louder
  <2> QED BY <1>1, <2>1, <2>2
<1> QED BY <1>2, <1>3

LEMMA EnvelopeIs ==
  ASSUME NEW w \in 0..Unity, gain \in 0..Unity
  PROVE  Enveloped(w) \in 0..Unity /\ Enveloped(w) <= w
<1>1. Unity \in Nat
  BY LimiterAssumption
<1>2. CASE w < gain
  BY <1>1, <1>2 DEF Enveloped
<1>3. CASE w >= gain
  <2>1. w - gain \in Nat /\ (w - gain) \div 2 \in Nat /\ (w - gain) \div 2 <= w - gain
    BY <1>1, <1>3
  <2> QED BY <1>1, <1>3, <2>1 DEF Enveloped
<1> QED BY <1>1, <1>2, <1>3

LEMMA ClampIs ==
  ASSUME limiter \in LimiterParams, NEW p \in Nat, NEW g \in 0..Unity
  PROVE  Clamped(p, g) \in 0..Unity /\ p * Clamped(p, g) <= limiter.threshold * Unity
<1> DEFINE x == limiter.threshold * Unity
<1>1. Unity \in Nat /\ x \in Nat /\ g \in Nat
  BY SettingsAre
<1>2. CASE p * g > x
  <2>1. Clamped(p, g) = x \div p
    BY <1>2 DEF Clamped
  <2> HIDE DEF x
  <2>2. p # 0
    BY <1>1, <1>2
  <2>3. x \div p \in Nat /\ p * (x \div p) <= x /\ x \div p <= g
    <3>1. p \in Nat \ {0} /\ x <= p * g
      BY <1>1, <1>2, <2>2
    <3> QED BY <1>1, <3>1, Quotient, QuotientBelow
  <2> QED BY <1>1, <2>1, <2>3 DEF x
<1>3. CASE ~(p * g > x)
  <2>1. Clamped(p, g) = g
    BY <1>3 DEF Clamped
  <2>2. p * g \in Nat
    BY <1>1
  <2> QED BY <1>1, <1>3, <2>1, <2>2
<1> QED BY <1>2, <1>3

LEMMA RingSizes ==
  /\ kMaxLookahead \in Nat /\ IntMax \in Nat
  /\ lineLength \in Nat /\ lineLength = kMaxLookahead + 2
  /\ capacity \in Nat /\ capacity = kMaxLookahead + 4
BY LimiterAssumption DEF lineLength, capacity

\* How many frames ago place r of a line was written whose next place is w.
Since(w, r) == IF r < w THEN w - r ELSE w - r + lineLength

Onward(w) == IF w + 1 = lineLength THEN 0 ELSE w + 1

LEMMA SinceIs ==
  ASSUME NEW w \in 0..(lineLength - 1), NEW r \in 0..(lineLength - 1)
  PROVE  /\ Since(w, r) \in 1..lineLength
         /\ Onward(w) \in 0..(lineLength - 1) /\ (w + 1) % lineLength = Onward(w)
         /\ Since(Onward(w), r) = IF r = w THEN 1 ELSE Since(w, r) + 1
<1>1. w \in Nat /\ w \in 0..(2 * lineLength - 1) /\ lineLength \in Nat \ {0} /\ lineLength > 1
  BY RingSizes
<1>2. w % lineLength = w
  BY <1>1, OneTurn
<1>3. (w + 1) % lineLength = Onward(w)
  <2>1. (w + 1) % lineLength = IF (w % lineLength) + 1 = lineLength THEN 0 ELSE (w % lineLength) + 1
    BY <1>1, NextPlace
  <2> QED BY <1>2, <2>1 DEF Onward
<1>4. lineLength \in Nat /\ w < lineLength
  BY <1>1
<1> QED BY <1>3, <1>4 DEF Since, Onward

\* The frame that comes out went in k frames ago.
LEMMA LateIs ==
  ASSUME NEW w \in 0..(lineLength - 1), NEW k \in 0..kMaxLookahead
  PROVE  LET r == (w - k + lineLength) % lineLength IN
         r \in 0..(lineLength - 1) /\ Since(Onward(w), r) = k + 1
<1> DEFINE x == w - k + lineLength
           b == lineLength
<1>1. b \in Nat \ {0} /\ x \in 0..(2 * b - 1) /\ k \in Nat /\ k < b - 1 /\ w \in Nat /\ w < b
      /\ x = w - k + b
  BY RingSizes
<1> HIDE DEF x, b
<1>2. x % b = IF x < b THEN x ELSE x - b
  BY <1>1, OneTurn
<1>3. x % b \in 0..(b - 1) /\ Since(Onward(w), x % b) = k + 1
  BY <1>1, <1>2 DEF Since, Onward, b
<1> QED BY <1>3 DEF x, b

----------------------------------------------------------------------------
(* SlidingMin.                                                              *)

Deques ==
  [value : [0..(capacity - 1) -> 0..Unity], index : [0..(capacity - 1) -> Int],
   head : 0..(capacity - 1), tail : 0..(capacity - 1), n : (-IntMax - 1)..IntMax]

LEMMA HeldIs ==
  ASSUME NEW d, d.head \in 0..(capacity - 1), d.tail \in 0..(capacity - 1)
  PROVE  /\ Held(d) = IF d.tail >= d.head THEN d.tail - d.head ELSE d.tail - d.head + capacity
         /\ Held(d) \in 0..(capacity - 1)
<1> DEFINE x == d.tail - d.head + capacity
<1>1. capacity \in Nat \ {0} /\ x \in 0..(2 * capacity - 1)
  BY RingSizes
<1> HIDE DEF x
<1>2. x % capacity = IF x < capacity THEN x ELSE x - capacity
  BY <1>1, OneTurn
<1> QED BY <1>1, <1>2 DEF x, Held

LEMMA AtIs ==
  ASSUME NEW d, d.head \in 0..(capacity - 1), NEW k \in 0..(capacity - 1)
  PROVE  /\ At(d, k) = IF d.head + k < capacity THEN d.head + k ELSE d.head + k - capacity
         /\ At(d, k) \in 0..(capacity - 1)
<1> DEFINE x == d.head + k
<1>1. capacity \in Nat \ {0} /\ x \in 0..(2 * capacity - 1)
  BY RingSizes
<1> HIDE DEF x
<1>2. x % capacity = IF x < capacity THEN x ELSE x - capacity
  BY <1>1, OneTurn
<1> QED BY <1>1, <1>2 DEF x, At

LEMMA AtDiffers ==
  ASSUME NEW d, d.head \in 0..(capacity - 1),
         NEW j \in 0..(capacity - 1), NEW k \in 0..(capacity - 1), j # k
  PROVE  At(d, j) # At(d, k)
<1>1. /\ At(d, j) = IF d.head + j < capacity THEN d.head + j ELSE d.head + j - capacity
      /\ At(d, k) = IF d.head + k < capacity THEN d.head + k ELSE d.head + k - capacity
  BY AtIs
<1> QED BY <1>1, RingSizes

\* Those before the place of the new target are smaller, those from it on are not.
LEMMA KeptIs ==
  ASSUME NEW d \in Deques, NEW v \in 0..Unity,
         \A j, k \in 0..(Held(d) - 1) : j < k => d.value[At(d, j)] < d.value[At(d, k)]
  PROVE  /\ Kept(d, v) \in 0..Held(d)
         /\ \A k \in 0..(Kept(d, v) - 1) : d.value[At(d, k)] < v
         /\ \A k \in Kept(d, v)..(Held(d) - 1) : d.value[At(d, k)] >= v
<1> DEFINE h == Held(d)
           val(k) == d.value[At(d, k)]
           S == {k \in 0..(h - 1) : val(k) < v}
<1>0. /\ d.value \in [0..(capacity - 1) -> 0..Unity]
      /\ d.head \in 0..(capacity - 1) /\ d.tail \in 0..(capacity - 1)
  BY DEF Deques
<1>1. h \in Nat /\ h <= capacity - 1 /\ \A k \in 0..(h - 1) : val(k) \in 0..Unity
  <2>1. h \in 0..(capacity - 1)
    BY <1>0, HeldIs
  <2>2. \A k \in 0..(capacity - 1) : d.value[At(d, k)] \in 0..Unity
    BY <1>0, AtIs
  <2> HIDE DEF h
  <2>3. \A k \in 0..(h - 1) : k \in 0..(capacity - 1)
    BY <2>1, RingSizes
  <2> QED BY <2>1, <2>2, <2>3, RingSizes
<1>2. Kept(d, v) = IF S = {} THEN 0 ELSE Max(S) + 1
  BY Zenon DEF Kept
<1>3. \A j, k \in 0..(h - 1) : j < k => val(j) < val(k)
  OBVIOUS
<1>4. Unity \in Nat
  BY LimiterAssumption
<1> HIDE DEF h, val
<1>5. CASE S = {}
  BY <1>1, <1>2, <1>4, <1>5 DEF h, val
<1>6. CASE S # {}
  <2>1. S \subseteq 0..h
    BY <1>1
  <2> DEFINE m == Max(S)
  <2>2. m \in S /\ \A y \in S : y <= m
    BY <1>1, <1>6, <2>1, GreatestExists
  <2>3. Kept(d, v) = m + 1
    BY <1>2, <1>6
  <2> HIDE DEF m
  <2>4. m \in 0..(h - 1) /\ val(m) < v
    BY <2>2
  <2>5. \A k \in 0..m : val(k) < v
    <3> TAKE k \in 0..m
    <3>1. k \in 0..(h - 1) /\ (k < m \/ k = m)
      BY <1>1, <2>4
    <3>2. val(k) <= val(m) /\ val(k) \in 0..Unity /\ val(m) \in 0..Unity
      BY <1>1, <1>3, <2>4, <3>1
    <3> QED BY <1>4, <2>4, <3>2
  <2>6. \A k \in (m + 1)..(h - 1) : ~(val(k) < v)
    BY <1>1, <2>2, <2>4
  <2>7. \A k \in (m + 1)..(h - 1) : val(k) >= v
    <3> TAKE k \in (m + 1)..(h - 1)
    <3>1. val(k) \in 0..Unity
      BY <1>1, <2>4
    <3> QED BY <1>4, <2>6, <3>1
  <2> QED BY <1>1, <2>3, <2>4, <2>5, <2>7 DEF h, val
<1> QED BY <1>5, <1>6

\* The arithmetic of a ring of b places from hd on, one of them written.
LEMMA AppendPlaces ==
  ASSUME NEW b \in Nat, b > 3, NEW hd \in 0..(b - 1), NEW k \in 0..(b - 1),
         NEW t, t = (IF hd + k < b THEN hd + k ELSE hd + k - b),
         NEW nx, nx = (IF t + 1 = b THEN 0 ELSE t + 1),
         NEW h, h = (IF nx = hd THEN (IF hd + 1 = b THEN 0 ELSE hd + 1) ELSE hd),
         NEW e, e = (IF nx = hd THEN 1 ELSE 0)
  PROVE  /\ t \in 0..(b - 1) /\ nx \in 0..(b - 1) /\ h \in 0..(b - 1)
         /\ e \in {0, 1} /\ (e = 1 => k = b - 1)
         /\ (IF nx >= h THEN nx - h ELSE nx - h + b) = k + 1 - e
         /\ \A i \in 0..(k - e) : (IF h + i < b THEN h + i ELSE h + i - b)
                                  = (IF hd + (i + e) < b THEN hd + (i + e) ELSE hd + (i + e) - b)
<1>1. CASE k = b - 1
  BY <1>1
<1>2. CASE k < b - 1
  BY <1>2
<1> QED BY <1>1, <1>2

\* ... and m of them dropped.
LEMMA DropPlaces ==
  ASSUME NEW b \in Nat, b > 3, NEW hd \in 0..(b - 1), NEW tl \in 0..(b - 1),
         NEW n, n = (IF tl >= hd THEN tl - hd ELSE tl - hd + b), NEW m \in 0..n,
         NEW h, h = (IF hd + m < b THEN hd + m ELSE hd + m - b)
  PROVE  /\ h \in 0..(b - 1) /\ n \in 0..(b - 1)
         /\ (IF tl >= h THEN tl - h ELSE tl - h + b) = n - m
         /\ \A i \in 0..(n - m) :
              /\ i \in 0..(b - 1) /\ i + m \in 0..(b - 1)
              /\ (IF h + i < b THEN h + i ELSE h + i - b)
                 = (IF hd + (i + m) < b THEN hd + (i + m) ELSE hd + (i + m) - b)
OBVIOUS

\* One step round the ring.
LEMMA NextRound ==
  ASSUME NEW b \in Nat, b > 1, NEW t \in 0..(b - 1)
  PROVE  (t + 1) % b = (IF t + 1 = b THEN 0 ELSE t + 1)
<1>1. t \in Nat /\ b \in Nat \ {0} /\ t \in 0..(2 * b - 1)
  OBVIOUS
<1>2. t % b = t
  BY <1>1, OneTurn
<1>3. (t + 1) % b = IF (t % b) + 1 = b THEN 0 ELSE (t % b) + 1
  BY <1>1, NextPlace
<1> QED BY <1>2, <1>3

Grown(d, a, v, k, e) ==
  /\ a \in Deques /\ a.n = d.n
  /\ a.value = [d.value EXCEPT ![At(d, k)] = v]
  /\ a.index = [d.index EXCEPT ![At(d, k)] = d.n]
  /\ Held(a) = k + 1 - e
  /\ \A i \in 0..(k - e) : At(a, i) = At(d, i + e)
  /\ e = 1 => k = capacity - 1

\* The new target takes the place after those kept; the oldest makes room when there
\* is none.
LEMMA AppendedIs ==
  ASSUME NEW d \in Deques, NEW v \in 0..Unity, NEW k \in 0..Held(d), k = Kept(d, v)
  PROVE  \E e \in {0, 1} : Grown(d, Appended(d, v), v, k, e)
<1> DEFINE t == At(d, k)
           nx == (t + 1) % capacity
           h == IF nx = d.head THEN (d.head + 1) % capacity ELSE d.head
           e == IF nx = d.head THEN 1 ELSE 0
           a == Appended(d, v)
<1>0. d \in [value : [0..(capacity - 1) -> 0..Unity], index : [0..(capacity - 1) -> Int],
             head : 0..(capacity - 1), tail : 0..(capacity - 1), n : (-IntMax - 1)..IntMax]
  BY DEF Deques
<1>1. /\ d.head \in 0..(capacity - 1) /\ d.tail \in 0..(capacity - 1)
      /\ capacity \in Nat /\ capacity > 3
  BY <1>0, RingSizes
<1>2. k \in 0..(capacity - 1)
  <2>1. Held(d) \in 0..(capacity - 1)
    BY <1>1, HeldIs
  <2> QED BY <1>1, <2>1
<1>3. t = (IF d.head + k < capacity THEN d.head + k ELSE d.head + k - capacity)
      /\ t \in 0..(capacity - 1)
  BY <1>1, <1>2, AtIs
<1> HIDE DEF t
<1>4. nx = (IF t + 1 = capacity THEN 0 ELSE t + 1)
  BY <1>1, <1>3, NextRound
<1> HIDE DEF nx
<1>5. h = (IF nx = d.head THEN (IF d.head + 1 = capacity THEN 0 ELSE d.head + 1) ELSE d.head)
  BY <1>1, NextRound
<1>6. e = (IF nx = d.head THEN 1 ELSE 0)
  OBVIOUS
<1> HIDE DEF h, e
<1> DEFINE hd == d.head
           b == capacity
<1>65. /\ b \in Nat /\ b > 3 /\ hd \in 0..(b - 1) /\ k \in 0..(b - 1)
       /\ t = (IF hd + k < b THEN hd + k ELSE hd + k - b)
       /\ nx = (IF t + 1 = b THEN 0 ELSE t + 1)
       /\ h = (IF nx = hd THEN (IF hd + 1 = b THEN 0 ELSE hd + 1) ELSE hd)
       /\ e = (IF nx = hd THEN 1 ELSE 0)
  BY <1>1, <1>2, <1>3, <1>4, <1>5, <1>6
<1> HIDE DEF hd, b
<1>66. /\ t \in 0..(b - 1) /\ nx \in 0..(b - 1) /\ h \in 0..(b - 1)
       /\ e \in {0, 1} /\ (e = 1 => k = b - 1)
       /\ (IF nx >= h THEN nx - h ELSE nx - h + b) = k + 1 - e
       /\ \A i \in 0..(k - e) :
            (IF h + i < b THEN h + i ELSE h + i - b)
            = (IF hd + (i + e) < b THEN hd + (i + e) ELSE hd + (i + e) - b)
  BY <1>65, AppendPlaces, SMTT(60)
<1> USE DEF hd, b
<1>7. /\ t \in 0..(capacity - 1) /\ nx \in 0..(capacity - 1) /\ h \in 0..(capacity - 1)
      /\ e \in {0, 1} /\ (e = 1 => k = capacity - 1)
      /\ (IF nx >= h THEN nx - h ELSE nx - h + capacity) = k + 1 - e
      /\ \A i \in 0..(k - e) :
           (IF h + i < capacity THEN h + i ELSE h + i - capacity)
           = (IF d.head + (i + e) < capacity THEN d.head + (i + e) ELSE d.head + (i + e) - capacity)
  BY <1>66
<1>8. a = [d EXCEPT !.value[t] = v, !.index[t] = d.n, !.tail = nx, !.head = h]
  BY Zenon DEF Appended, t, nx, h
<1> HIDE DEF a
<1>9. /\ a = [value |-> [d.value EXCEPT ![t] = v], index |-> [d.index EXCEPT ![t] = d.n],
              head |-> h, tail |-> nx, n |-> d.n]
  BY <1>0, <1>8
<1>10. a \in Deques
  <2>1. [d.value EXCEPT ![t] = v] \in [0..(capacity - 1) -> 0..Unity]
    BY <1>0
  <2>2. d.n \in Int /\ d.n \in (-IntMax - 1)..IntMax
    BY <1>0, RingSizes
  <2>3. [d.index EXCEPT ![t] = d.n] \in [0..(capacity - 1) -> Int]
    BY <1>0, <2>2
  <2> QED BY <1>7, <1>9, <2>1, <2>2, <2>3 DEF Deques
<1>11. Held(a) = k + 1 - e
  <2>1. a.head = h /\ a.tail = nx
    BY <1>9
  <2>2. Held(a) = IF nx >= h THEN nx - h ELSE nx - h + capacity
    BY <1>7, <2>1, HeldIs
  <2> QED BY <1>7, <2>2
<1>12. ASSUME NEW i \in 0..(k - e) PROVE At(a, i) = At(d, i + e)
  <2>1. i \in 0..(capacity - 1) /\ i + e \in 0..(capacity - 1)
    BY <1>1, <1>2, <1>7
  <2>2. a.head = h
    BY <1>9
  <2>3. At(a, i) = IF h + i < capacity THEN h + i ELSE h + i - capacity
    BY <1>7, <2>1, <2>2, AtIs
  <2>4. At(d, i + e) = IF d.head + (i + e) < capacity THEN d.head + (i + e)
                       ELSE d.head + (i + e) - capacity
    BY <1>1, <2>1, AtIs
  <2> QED BY <1>7, <2>3, <2>4
<1>13. /\ a.value = [d.value EXCEPT ![t] = v] /\ a.index = [d.index EXCEPT ![t] = d.n]
       /\ a.n = d.n
  BY <1>9
<1>14. Grown(d, a, v, k, e)
  BY <1>7, <1>10, <1>11, <1>12, <1>13 DEF t, Grown
<1> QED BY <1>7, <1>14 DEF a

\* The counter is an int's.
LEMMA WrappedIs ==
  ASSUME NEW i \in (-IntMax - 1)..(IntMax + 1)
  PROVE  /\ Wrapped(i) = IF i = IntMax + 1 THEN -IntMax - 1 ELSE i
         /\ Wrapped(i) \in (-IntMax - 1)..IntMax
<1> DEFINE b == 2 * IntMax + 2
           x == i + IntMax + 1
<1>1. b \in Nat \ {0} /\ x \in 0..(2 * b - 1) /\ x = i + (IntMax + 1) /\ IntMax \in Nat
      /\ b = IntMax + IntMax + 2
  BY RingSizes
<1>2. Wrapped(i) = (x % b) - IntMax - 1
  BY DEF Wrapped
<1> HIDE DEF x, b
<1>3. x % b = IF x < b THEN x ELSE x - b
  BY <1>1, OneTurn
<1> QED BY <1>1, <1>2, <1>3

Shed(a, p, window, m) ==
  /\ p \in Deques /\ p.value = a.value /\ p.index = a.index /\ p.n = Wrapped(a.n + 1)
  /\ Held(p) = Held(a) - m
  /\ \A i \in 0..(Held(a) - m) : At(p, i) = At(a, i + m)
  /\ \A j \in 0..(m - 1) : a.index[At(a, j)] <= Wrapped(a.n - window)

\* Those at the head that are due are dropped.
LEMMA ExpiredIs ==
  ASSUME NEW a \in Deques, NEW window
  PROVE  \E m \in 0..Held(a) : Shed(a, Expired(a, window), window, m)
<1> DEFINE p == Expired(a, window)
           due == {k \in 0..Held(a) : \A j \in 0..k - 1 : a.index[At(a, j)] <= Wrapped(a.n - window)}
           m == Max(due)
<1>0. a \in [value : [0..(capacity - 1) -> 0..Unity], index : [0..(capacity - 1) -> Int],
             head : 0..(capacity - 1), tail : 0..(capacity - 1), n : (-IntMax - 1)..IntMax]
  BY DEF Deques
<1>1. /\ a.head \in 0..(capacity - 1) /\ a.tail \in 0..(capacity - 1)
      /\ capacity \in Nat /\ capacity > 3
  BY <1>0, RingSizes
<1>2. /\ Held(a) = (IF a.tail >= a.head THEN a.tail - a.head ELSE a.tail - a.head + capacity)
      /\ Held(a) \in 0..(capacity - 1) /\ Held(a) \in Nat
  <2>1. /\ Held(a) = (IF a.tail >= a.head THEN a.tail - a.head ELSE a.tail - a.head + capacity)
        /\ Held(a) \in 0..(capacity - 1)
    BY <1>1, HeldIs
  <2> QED BY <1>1, <2>1
<1>3. 0 \in due /\ due \subseteq 0..Held(a)
  BY <1>2
<1>4. m \in due
  <2> HIDE DEF due
  <2> QED BY <1>2, <1>3, GreatestExists
<1>5. m \in 0..Held(a) /\ \A j \in 0..(m - 1) : a.index[At(a, j)] <= Wrapped(a.n - window)
  <2> HIDE DEF m
  <2> QED BY <1>4
<1>6. p = [a EXCEPT !.head = At(a, m), !.n = Wrapped(a.n + 1)]
  BY Zenon DEF Expired
<1> HIDE DEF m, due, p
<1>7. /\ p.value = a.value /\ p.index = a.index /\ p.n = Wrapped(a.n + 1)
      /\ p.head = At(a, m) /\ p.tail = a.tail
  BY <1>0, <1>6
<1>8. m \in 0..(capacity - 1)
  BY <1>1, <1>2, <1>5
<1> DEFINE h == At(a, m)
           n == Held(a)
<1>9. h = (IF a.head + m < capacity THEN a.head + m ELSE a.head + m - capacity)
  BY <1>1, <1>8, AtIs
<1> HIDE DEF h, n
<1>10. /\ h \in 0..(capacity - 1) /\ n \in 0..(capacity - 1)
       /\ (IF a.tail >= h THEN a.tail - h ELSE a.tail - h + capacity) = n - m
       /\ \A i \in 0..(n - m) :
            /\ i \in 0..(capacity - 1) /\ i + m \in 0..(capacity - 1)
            /\ (IF h + i < capacity THEN h + i ELSE h + i - capacity)
               = (IF a.head + (i + m) < capacity THEN a.head + (i + m)
                  ELSE a.head + (i + m) - capacity)
  <2>1. n = (IF a.tail >= a.head THEN a.tail - a.head ELSE a.tail - a.head + capacity)
        /\ m \in 0..n
    BY <1>2, <1>5 DEF n
  <2> QED BY <1>1, <1>9, <2>1, DropPlaces
<1>11. Held(p) = n - m
  <2>1. p.head = h /\ p.tail = a.tail
    BY <1>7 DEF h
  <2>2. Held(p) = IF a.tail >= h THEN a.tail - h ELSE a.tail - h + capacity
    BY <1>1, <1>10, <2>1, HeldIs
  <2> QED BY <1>10, <2>2
<1>12. ASSUME NEW i \in 0..(n - m) PROVE At(p, i) = At(a, i + m)
  <2>1. i \in 0..(capacity - 1) /\ i + m \in 0..(capacity - 1) /\ p.head = h
    BY <1>7, <1>10 DEF h
  <2>2. At(p, i) = IF h + i < capacity THEN h + i ELSE h + i - capacity
    BY <1>10, <2>1, AtIs
  <2>3. At(a, i + m) = IF a.head + (i + m) < capacity THEN a.head + (i + m)
                       ELSE a.head + (i + m) - capacity
    BY <1>1, <2>1, AtIs
  <2> QED BY <1>10, <2>2, <2>3
<1>13. p \in Deques
  <2>1. Wrapped(a.n + 1) \in (-IntMax - 1)..IntMax
    <3>1. a.n + 1 \in (-IntMax - 1)..(IntMax + 1)
      <4> DEFINE N == a.n
      <4>1. N \in (-IntMax - 1)..IntMax
        BY <1>0
      <4> HIDE DEF N
      <4>2. N + 1 \in (-IntMax - 1)..(IntMax + 1)
        BY <4>1, RingSizes
      <4> QED BY <4>2 DEF N
    <3> QED BY <3>1, WrappedIs
  <2>2. p = [value |-> a.value, index |-> a.index, head |-> h, tail |-> a.tail,
             n |-> Wrapped(a.n + 1)]
    BY <1>0, <1>6 DEF h
  <2>3. /\ a.value \in [0..(capacity - 1) -> 0..Unity] /\ a.index \in [0..(capacity - 1) -> Int]
        /\ a.tail \in 0..(capacity - 1)
    BY <1>0
  <2> QED BY <1>10, <2>1, <2>2, <2>3 DEF Deques
<1>14. Shed(a, p, window, m)
  BY <1>5, <1>7, <1>11, <1>12, <1>13 DEF n, Shed
<1> QED BY <1>5, <1>14 DEF p

\* What a push does to the entries: those from k on give way to the new one, and q are
\* dropped at the head, one for want of room or because their time is over.
PushedTo(d, p, v, window, k, q) ==
  /\ p \in Deques /\ p.n = Wrapped(d.n + 1)
  /\ k \in 0..(capacity - 1) /\ k <= Held(d) /\ q \in 0..(k + 1)
  /\ \A j \in 0..(k - 1) : d.value[At(d, j)] < v
  /\ \A j \in k..(Held(d) - 1) : d.value[At(d, j)] >= v
  /\ Held(p) = k + 1 - q
  /\ p.value = [d.value EXCEPT ![At(d, k)] = v]
  /\ p.index = [d.index EXCEPT ![At(d, k)] = d.n]
  /\ \A i \in 0..(k - q) : At(p, i) = At(d, i + q)
  /\ \A j \in 0..(q - 1) : \/ j = 0 /\ k = capacity - 1
                           \/ p.index[At(d, j)] <= Wrapped(d.n - window)

Rising(d) == \A j, k \in 0..(Held(d) - 1) : j < k => d.value[At(d, j)] < d.value[At(d, k)]

LEMMA PushedIs ==
  ASSUME NEW d \in Deques, NEW v \in 0..Unity, NEW window, Rising(d)
  PROVE  \E k, q \in Nat : PushedTo(d, Pushed(d, v, window), v, window, k, q)
<1> DEFINE k == Kept(d, v)
           a == Appended(d, v)
           p == Pushed(d, v, window)
<1>1. /\ k \in 0..Held(d)
      /\ \A j \in 0..(k - 1) : d.value[At(d, j)] < v
      /\ \A j \in k..(Held(d) - 1) : d.value[At(d, j)] >= v
  BY KeptIs DEF Rising
<1>2. Held(d) \in 0..(capacity - 1) /\ capacity \in Nat
  <2>1. d.head \in 0..(capacity - 1) /\ d.tail \in 0..(capacity - 1)
    BY DEF Deques
  <2> QED BY <2>1, HeldIs, RingSizes
<1>3. k \in 0..(capacity - 1) /\ k <= Held(d) /\ k \in Nat
  BY <1>1, <1>2
<1>4. p = Expired(a, window)
  BY DEF Pushed
<1> HIDE DEF k
<1>5. PICK e \in {0, 1} : Grown(d, a, v, k, e)
  <2>1. k = Kept(d, v)
    BY DEF k
  <2> QED BY <1>1, <2>1, AppendedIs
<1> HIDE DEF a
<1>50. /\ a \in Deques /\ a.n = d.n
       /\ a.value = [d.value EXCEPT ![At(d, k)] = v]
       /\ a.index = [d.index EXCEPT ![At(d, k)] = d.n]
       /\ Held(a) = k + 1 - e
       /\ \A i \in 0..(k - e) : At(a, i) = At(d, i + e)
       /\ e = 1 => k = capacity - 1
  BY <1>5 DEF Grown
<1>6. PICK m \in 0..Held(a) : Shed(a, p, window, m)
  BY <1>4, <1>50, ExpiredIs
<1> HIDE DEF p
<1>60. /\ p \in Deques /\ p.value = a.value /\ p.index = a.index /\ p.n = Wrapped(a.n + 1)
       /\ Held(p) = Held(a) - m
       /\ \A i \in 0..(Held(a) - m) : At(p, i) = At(a, i + m)
       /\ \A j \in 0..(m - 1) : a.index[At(a, j)] <= Wrapped(a.n - window)
  BY <1>6 DEF Shed
<1> DEFINE q == e + m
<1>7. q \in 0..(k + 1) /\ Held(p) = k + 1 - q /\ q \in Nat /\ m \in 0..(k + 1 - e)
  BY <1>3, <1>50, <1>60
<1>8. ASSUME NEW i \in 0..(k - q) PROVE At(p, i) = At(d, i + q)
  <2>1. /\ i \in 0..(Held(a) - m) /\ i + m \in 0..(k - e) /\ (i + m) + e = i + q
    BY <1>3, <1>50, <1>7
  <2>2. At(p, i) = At(a, i + m)
    BY <1>60, <2>1
  <2> HIDE DEF q
  <2> QED BY <1>50, <2>1, <2>2
<1>9. ASSUME NEW j \in 0..(q - 1), ~(j = 0 /\ k = capacity - 1)
      PROVE  p.index[At(d, j)] <= Wrapped(d.n - window)
  <2>1. /\ j - e \in 0..(m - 1) /\ j - e \in 0..(k - e) /\ (j - e) + e = j
    BY <1>3, <1>50, <1>7, <1>9
  <2>2. At(a, j - e) = At(d, j)
    BY <1>50, <2>1
  <2> QED BY <1>50, <1>60, <2>1, <2>2
<1>10. p.n = Wrapped(d.n + 1) /\ p.value = [d.value EXCEPT ![At(d, k)] = v]
       /\ p.index = [d.index EXCEPT ![At(d, k)] = d.n] /\ p \in Deques
  BY <1>50, <1>60
<1>11. /\ \A j \in 0..(k - 1) : d.value[At(d, j)] < v
       /\ \A j \in k..(Held(d) - 1) : d.value[At(d, j)] >= v
  BY <1>1 DEF k
<1> HIDE DEF q
<1>12. PushedTo(d, p, v, window, k, q)
  BY <1>3, <1>7, <1>8, <1>9, <1>10, <1>11 DEF PushedTo
<1> QED BY <1>3, <1>7, <1>12 DEF p

----------------------------------------------------------------------------
(* The frame.                                                               *)

LimiterTypes ==
  /\ limiter \in LimiterParams
  /\ line \in [Lanes -> [0..(lineLength - 1) -> Nat \cup {NaN}]]
  /\ peakLine \in [0..(lineLength - 1) -> Nat] /\ write \in 0..(lineLength - 1)
  /\ gain \in 0..Unity /\ deque \in Deques
  /\ fed \in Seq(Levels) /\ settled \in Nat

Out(k) == (write - k + lineLength) % lineLength
Written(x) == [c \in Lanes |-> [line[c] EXCEPT ![write] = x[c]]]
Late(x) == [c \in Lanes |-> Written(x)[c][Out(limiter.look)]]
Peaks(p) == [peakLine EXCEPT ![write] = p]
Advanced(p) == Pushed(deque, Target(p), limiter.look + 1)
Envelope(p) == Enveloped(Minimum(Advanced(p), Target(p)))

\* What a frame of levels x and linked peak p does.
Taken(x, p) ==
  /\ \A c \in Lanes : x[c] # NaN => x[c] <= p
  /\ deque' = Advanced(p) /\ peakLine' = Peaks(p) /\ write' = Onward(write)
  /\ applied' = Peaks(p)[Out(limiter.look)] * Envelope(p)
  /\ limiter' = limiter
  /\ \/ /\ FirstBad(Late(x)) # {} /\ gain' = Unity /\ line' = Silence
        /\ fed' = [i \in 1..(Len(fed) + 1) |-> [c \in Lanes |-> 0]] /\ settled' = 0
     \/ /\ FirstBad(Late(x)) = {} /\ gain' = Envelope(p) /\ line' = Written(x)
        /\ fed' = Append(fed, x)
        /\ out' = Railed(Late(x), Clamped(Peaks(p)[Out(limiter.look)], Envelope(p)))
        /\ \/ settled' = 0
           \/ settled' = settled + 1 /\ ~(deque.n - limiter.look - 1 < -IntMax - 1)

LEMMA FrameIs ==
  ASSUME LimiterTypes, NEW f \in Frames, LimiterFrame(f)
  PROVE  \E x \in Levels, p \in Nat : Taken(x, p)
<1> DEFINE levels == [c \in Lanes |-> IF IsNumber(f.level[c]) THEN f.level[c] * limiter.gain ELSE NaN]
           deaf2 == IF limiter.truePeak THEN deaf \cup {c \in Lanes : ~IsNumber(levels[c])} ELSE deaf
           peak == LinkedPeak(levels, f, Lanes \ deaf2)
<1>0. limiter \in LimiterParams /\ write \in 0..(lineLength - 1)
  BY DEF LimiterTypes
<1>1. levels \in Levels
  <2>1. f.level \in [Lanes -> Nat \cup {NaN}] /\ limiter.gain \in Nat
    BY <1>0, SettingsAre, LimiterAssumption
  <2>2. ASSUME NEW c \in Lanes
        PROVE  (IF IsNumber(f.level[c]) THEN f.level[c] * limiter.gain ELSE NaN) \in Nat \cup {NaN}
    BY <2>1 DEF IsNumber
  <2> QED BY <2>2 DEF Levels
<1> HIDE DEF levels
<1>2. peak \in Nat /\ \A c \in Lanes : levels[c] # NaN => levels[c] <= peak
  <2> HIDE DEF deaf2
  <2> QED BY <1>0, <1>1, LinkedIs
<1>3. /\ deque' = Advanced(peak) /\ peakLine' = Peaks(peak) /\ write' = (write + 1) % lineLength
      /\ applied' = Peaks(peak)[Out(limiter.look)] * Envelope(peak)
      /\ limiter' = limiter
      /\ gain' = IF FirstBad(Late(levels)) # {} THEN Unity ELSE Envelope(peak)
      /\ line' = IF FirstBad(Late(levels)) # {} THEN Silence ELSE Written(levels)
      /\ fed' = IF FirstBad(Late(levels)) # {} THEN [i \in 1..(Len(fed) + 1) |-> [c \in Lanes |-> 0]]
                ELSE Append(fed, levels)
      /\ out' = Railed(Late(levels), Clamped(Peaks(peak)[Out(limiter.look)], Envelope(peak)))
      /\ settled' = IF FirstBad(Late(levels)) # {} \/ deque.n - limiter.look - 1 < -IntMax - 1 THEN 0
                    ELSE settled + 1
  BY Zenon DEF LimiterFrame, Advanced, Peaks, Out, Envelope, Late, Written, levels
<1> HIDE DEF peak
<1>4. write' = Onward(write)
  BY <1>0, <1>3, SinceIs
<1>5. Taken(levels, peak)
  <2>1. CASE FirstBad(Late(levels)) # {}
    BY <1>2, <1>3, <1>4, <2>1, Zenon DEF Taken
  <2>2. CASE FirstBad(Late(levels)) = {}
    <3>1. /\ gain' = Envelope(peak) /\ line' = Written(levels) /\ fed' = Append(fed, levels)
          /\ settled' = IF deque.n - limiter.look - 1 < -IntMax - 1 THEN 0 ELSE settled + 1
      BY <1>3, <2>2, Zenon
    <3>2. settled' = 0 \/ (settled' = settled + 1 /\ ~(deque.n - limiter.look - 1 < -IntMax - 1))
      BY <3>1, Zenon
    <3> QED BY <1>2, <1>3, <1>4, <2>2, <3>1, <3>2, Zenon DEF Taken
  <2> QED BY <2>1, <2>2
<1> QED BY <1>1, <1>2, <1>5

\* The peak of a frame is not under its levels, and the line is what came in.
PeaksCover ==
  \A c \in Lanes, r \in 0..(lineLength - 1) : line[c][r] # NaN => line[c][r] <= peakLine[r]

LineHoldsTheFed ==
  \A c \in Lanes, r \in 0..(lineLength - 1) :
    LET i == Len(fed) + 1 - Since(write, r) IN line[c][r] = IF i >= 1 THEN fed[i][c] ELSE 0

\* The frames written now.
LEMMA WrittenIs ==
  ASSUME LimiterTypes, PeaksCover, LineHoldsTheFed, NEW x \in Levels, NEW p \in Nat,
         \A c \in Lanes : x[c] # NaN => x[c] <= p
  PROVE  /\ Written(x) \in [Lanes -> [0..(lineLength - 1) -> Nat \cup {NaN}]]
         /\ Peaks(p) \in [0..(lineLength - 1) -> Nat]
         /\ \A c \in Lanes, r \in 0..(lineLength - 1) :
              /\ Written(x)[c][r] # NaN => Written(x)[c][r] <= Peaks(p)[r]
              /\ LET i == Len(fed) + 2 - Since(Onward(write), r) IN
                 Written(x)[c][r] = IF i >= 1 THEN Append(fed, x)[i][c] ELSE 0
<1>1. /\ line \in [Lanes -> [0..(lineLength - 1) -> Nat \cup {NaN}]]
      /\ peakLine \in [0..(lineLength - 1) -> Nat] /\ write \in 0..(lineLength - 1)
      /\ x \in [Lanes -> Nat \cup {NaN}]
  BY DEF LimiterTypes, Levels
<1>2. fed \in Seq(Levels) /\ Len(fed) \in Nat
  BY DEF LimiterTypes
<1>3. \A c \in Lanes, r \in 0..(lineLength - 1) :
        Written(x)[c][r] = IF r = write THEN x[c] ELSE line[c][r]
  BY <1>1 DEF Written
<1>4. \A r \in 0..(lineLength - 1) : Peaks(p)[r] = IF r = write THEN p ELSE peakLine[r]
  BY <1>1 DEF Peaks
<1>5. Written(x) \in [Lanes -> [0..(lineLength - 1) -> Nat \cup {NaN}]]
  BY <1>1 DEF Written
<1>6. Peaks(p) \in [0..(lineLength - 1) -> Nat]
  BY <1>1 DEF Peaks
<1>7. ASSUME NEW c \in Lanes, NEW r \in 0..(lineLength - 1), Written(x)[c][r] # NaN
      PROVE  Written(x)[c][r] <= Peaks(p)[r]
  BY <1>3, <1>4, <1>7 DEF PeaksCover
<1>8. ASSUME NEW c \in Lanes, NEW r \in 0..(lineLength - 1)
      PROVE  Written(x)[c][r] = IF Len(fed) + 2 - Since(Onward(write), r) >= 1
                                THEN Append(fed, x)[Len(fed) + 2 - Since(Onward(write), r)][c] ELSE 0
  <2> DEFINE s == Since(write, r)
             s2 == Since(Onward(write), r)
             n == Len(fed)
  <2>1. s \in 1..lineLength /\ s2 = IF r = write THEN 1 ELSE s + 1
    BY <1>1, SinceIs
  <2>2. lineLength \in Nat /\ n \in Nat
    BY RingSizes, <1>2
  <2>3. line[c][r] = IF n + 1 - s >= 1 THEN fed[n + 1 - s][c] ELSE 0
    BY DEF LineHoldsTheFed
  <2>4. \A i \in 1..n : Append(fed, x)[i] = fed[i]
    BY <1>2
  <2>5. Append(fed, x)[n + 1] = x
    BY <1>2
  <2> HIDE DEF s, s2, n
  <2>6. CASE r = write
    <3>1. n + 2 - s2 = n + 1 /\ n + 1 >= 1
      BY <2>1, <2>2, <2>6
    <3>2. Written(x)[c][r] = x[c]
      BY <1>3, <2>6
    <3>3. Written(x)[c][r] = IF n + 2 - s2 >= 1 THEN Append(fed, x)[n + 2 - s2][c] ELSE 0
      BY <2>5, <3>1, <3>2
    <3> QED BY <3>3 DEF n, s2
  <2>7. CASE r # write
    <3>1. n + 2 - s2 = n + 1 - s /\ (n + 1 - s >= 1 => n + 1 - s \in 1..n)
      BY <2>1, <2>2, <2>7
    <3>2. Written(x)[c][r] = line[c][r]
      BY <1>3, <2>7
    <3>3. Written(x)[c][r] = IF n + 2 - s2 >= 1 THEN Append(fed, x)[n + 2 - s2][c] ELSE 0
      BY <2>3, <2>4, <3>1, <3>2
    <3> QED BY <3>3 DEF n, s2
  <2> QED BY <2>6, <2>7
<1> QED BY <1>5, <1>6, <1>7, <1>8

----------------------------------------------------------------------------
(* The window.                                                              *)

\* Each entry of d was pushed when born[its place] frames had come, of the F there are;
\* their values rise, none was pushed before another and after it, the index of those
\* younger than the settings is their age before the count; and for each of the last
\* frames, as far as the settings and the window reach, there is an entry as young and
\* no higher than its target.
Windowed(born, d, F, w, want, st, look) ==
  /\ born \in [0..(capacity - 1) -> Nat]
  /\ Rising(d)
  /\ \A k \in 0..(Held(d) - 1) : born[At(d, k)] + (Held(d) - k) <= F
  /\ d.n # -IntMax - 1 =>
       \A k \in 0..(Held(d) - 1) :
         born[At(d, k)] >= F - st => d.index[At(d, k)] = d.n - (F - born[At(d, k)])
  /\ \A r \in 0..(lineLength - 1) :
       Since(w, r) <= st /\ Since(w, r) <= look + 1 =>
         \E k \in 0..(Held(d) - 1) :
           born[At(d, k)] >= F - Since(w, r) /\ d.value[At(d, k)] <= want[r]

LEMMA WindowStep ==
  ASSUME NEW d \in Deques, NEW F \in Nat, NEW w \in 0..(lineLength - 1),
         NEW want \in [0..(lineLength - 1) -> 0..Unity], NEW st \in Nat, NEW st2 \in Nat,
         NEW look \in 0..kMaxLookahead, NEW v \in 0..Unity, NEW p, p = Pushed(d, v, look + 1),
         NEW born, Windowed(born, d, F, w, want, st, look),
         st2 = 0 \/ (st2 = st + 1 /\ ~(d.n - look - 1 < -IntMax - 1))
  PROVE  /\ p \in Deques
         /\ \E b : Windowed(b, p, F + 1, Onward(w), [want EXCEPT ![w] = v], st2, look)
<1>1. /\ born \in [0..(capacity - 1) -> Nat]
      /\ Rising(d)
      /\ \A k \in 0..(Held(d) - 1) : born[At(d, k)] + (Held(d) - k) <= F
      /\ d.n # -IntMax - 1 =>
           \A k \in 0..(Held(d) - 1) :
             born[At(d, k)] >= F - st => d.index[At(d, k)] = d.n - (F - born[At(d, k)])
      /\ \A r \in 0..(lineLength - 1) :
           Since(w, r) <= st /\ Since(w, r) <= look + 1 =>
             \E k \in 0..(Held(d) - 1) :
               born[At(d, k)] >= F - Since(w, r) /\ d.value[At(d, k)] <= want[r]
  BY DEF Windowed
<1>2. PICK k \in Nat, q \in Nat : PushedTo(d, p, v, look + 1, k, q)
  BY <1>1, PushedIs
<1>3. /\ p \in Deques /\ p.n = Wrapped(d.n + 1)
      /\ k \in 0..(capacity - 1) /\ k <= Held(d) /\ q \in 0..(k + 1)
      /\ \A j \in 0..(k - 1) : d.value[At(d, j)] < v
      /\ \A j \in k..(Held(d) - 1) : d.value[At(d, j)] >= v
      /\ Held(p) = k + 1 - q
      /\ p.value = [d.value EXCEPT ![At(d, k)] = v]
      /\ p.index = [d.index EXCEPT ![At(d, k)] = d.n]
      /\ \A i \in 0..(k - q) : At(p, i) = At(d, i + q)
      /\ \A j \in 0..(q - 1) : \/ j = 0 /\ k = capacity - 1
                               \/ p.index[At(d, j)] <= Wrapped(d.n - (look + 1))
  BY <1>2 DEF PushedTo
<1>4. /\ d.value \in [0..(capacity - 1) -> 0..Unity] /\ d.index \in [0..(capacity - 1) -> Int]
      /\ d.head \in 0..(capacity - 1) /\ d.tail \in 0..(capacity - 1)
      /\ d.n \in (-IntMax - 1)..IntMax
  BY DEF Deques
<1>5. /\ capacity \in Nat /\ capacity = kMaxLookahead + 4 /\ kMaxLookahead \in Nat /\ IntMax \in Nat
      /\ lineLength \in Nat /\ Unity \in Nat /\ look \in Nat /\ look <= kMaxLookahead
  BY RingSizes, LimiterAssumption
<1> DEFINE h == Held(d)
           val(j) == d.value[At(d, j)]
           idx(j) == d.index[At(d, j)]
           bor(j) == born[At(d, j)]
           b == [born EXCEPT ![At(d, k)] = F]
<1>6. h \in 0..(capacity - 1) /\ h \in Nat
  <2>1. Held(d) \in 0..(capacity - 1)
    BY <1>4, HeldIs
  <2> QED BY <2>1, <1>5
<1>7. \A j \in 0..(capacity - 1) :
        At(d, j) \in 0..(capacity - 1) /\ val(j) \in 0..Unity /\ idx(j) \in Int /\ bor(j) \in Nat
  <2> TAKE j \in 0..(capacity - 1)
  <2>1. At(d, j) \in 0..(capacity - 1)
    BY <1>4, AtIs
  <2> QED BY <1>1, <1>4, <2>1
<1>61. d.head \in 0..(capacity - 1) /\ k \in 0..(capacity - 1)
  BY <1>3, <1>4
<1>62. \A j \in 0..(capacity - 1) : j # k => At(d, j) # At(d, k)
  BY <1>61, AtDiffers
<1> DEFINE N == d.n
<1>64. /\ N \in (-IntMax - 1)..IntMax
       /\ st2 = 0 \/ (st2 = st + 1 /\ ~(N - look - 1 < -IntMax - 1))
  BY <1>4
<1> HIDE DEF N
<1>63. /\ N \in Int /\ N >= -IntMax - 1 /\ N <= IntMax
       /\ N + 1 \in (-IntMax - 1)..(IntMax + 1)
  BY <1>5, <1>64
\* The entries after the push.
<1>8. ASSUME NEW i \in 0..(k - q)
      PROVE  /\ p.value[At(p, i)] = IF i + q = k THEN v ELSE val(i + q)
             /\ p.index[At(p, i)] = IF i + q = k THEN N ELSE idx(i + q)
             /\ b[At(p, i)] = IF i + q = k THEN F ELSE bor(i + q)
  <2>1. i + q \in 0..(capacity - 1) /\ At(p, i) = At(d, i + q)
    <3>1. k \in 0..(capacity - 1) /\ q \in 0..(k + 1)
      BY <1>3
    <3>2. i + q \in 0..(capacity - 1)
      BY <1>5, <3>1
    <3>3. At(p, i) = At(d, i + q)
      BY <1>3
    <3> QED BY <3>2, <3>3
  <2>2. At(d, i + q) \in 0..(capacity - 1)
    BY <1>7, <2>1
  <2>3. i + q # k => At(d, i + q) # At(d, k)
    BY <1>62, <2>1
  <2> QED BY <1>1, <1>3, <1>4, <2>1, <2>2, <2>3 DEF N
<1>9. \A j \in 0..(k - 1) : p.index[At(d, j)] = idx(j)
  <2> TAKE j \in 0..(k - 1)
  <2>1. j \in 0..(capacity - 1) /\ j # k
    BY <1>3, <1>5
  <2>2. At(d, j) # At(d, k) /\ At(d, j) \in 0..(capacity - 1)
    BY <1>62, <1>7, <2>1
  <2> QED BY <1>3, <1>4, <2>2
<1>10. p.index[At(d, k)] = N
  <2>1. At(d, k) \in 0..(capacity - 1)
    BY <1>3, <1>7
  <2> QED BY <1>3, <1>4, <2>1 DEF N
<1>11. b \in [0..(capacity - 1) -> Nat]
  BY <1>1
<1>12. \A i, j \in 0..(h - 1) : i < j => val(i) < val(j)
  BY <1>1 DEF Rising
<1>13. \A i \in 0..(h - 1) : i \in 0..(capacity - 1) /\ bor(i) + (h - i) <= F
  <2>1. \A i \in 0..(h - 1) : bor(i) + (h - i) <= F
    BY <1>1
  <2> HIDE DEF h, bor
  <2>2. \A i \in 0..(h - 1) : i \in 0..(capacity - 1)
    BY <1>5, <1>6
  <2> QED BY <2>1, <2>2
<1>14. /\ k \in Nat /\ k <= h /\ k <= capacity - 1 /\ q \in Nat /\ q <= k + 1
       /\ Held(p) = k + 1 - q /\ Held(p) - 1 = k - q
  BY <1>3, <1>5, <1>6
<1>15. /\ \A j \in 0..(k - 1) : val(j) < v
       /\ \A j \in k..(h - 1) : val(j) >= v
  BY <1>3
<1>16. N # -IntMax - 1 =>
         \A j \in 0..(h - 1) : bor(j) >= F - st => idx(j) = N - (F - bor(j))
  BY <1>1 DEF N
<1>17. \A r \in 0..(lineLength - 1) :
         Since(w, r) <= st /\ Since(w, r) <= look + 1 =>
           \E j \in 0..(h - 1) : bor(j) >= F - Since(w, r) /\ val(j) <= want[r]
  BY <1>1
<1> HIDE DEF h, val, idx, bor, b
<1>20. Rising(p)
  <2>1. ASSUME NEW i \in 0..(k - q), NEW j \in 0..(k - q), i < j
        PROVE  p.value[At(p, i)] < p.value[At(p, j)]
    <3>1. i + q \in 0..(k - 1) /\ i + q < j + q /\ i + q # k /\ i + q \in 0..(h - 1)
      BY <1>6, <1>14, <2>1
    <3>2. p.value[At(p, i)] = val(i + q)
      BY <1>8, <3>1
    <3>3. CASE j + q = k
      <4>1. p.value[At(p, j)] = v
        BY <1>8, <3>3
      <4> QED BY <1>15, <3>1, <3>2, <4>1
    <3>4. CASE j + q # k
      <4>1. p.value[At(p, j)] = val(j + q) /\ j + q \in 0..(h - 1)
        <5>1. p.value[At(p, j)] = val(j + q)
          BY <1>8, <3>4
        <5>2. j + q \in 0..(h - 1)
          BY <1>6, <1>14, <3>4
        <5> QED BY <5>1, <5>2
      <4> QED BY <1>12, <3>1, <3>2, <4>1
    <3> QED BY <3>3, <3>4
  <2> QED BY <1>14, <2>1 DEF Rising
<1>21. ASSUME NEW i \in 0..(Held(p) - 1) PROVE b[At(p, i)] + (Held(p) - i) <= F + 1
  <2>1. i \in 0..(k - q)
    BY <1>14
  <2>2. CASE i + q = k
    <3>1. b[At(p, i)] = F
      BY <1>8, <2>1, <2>2
    <3> QED BY <1>14, <2>2, <3>1
  <2>3. CASE i + q # k
    <3>1. b[At(p, i)] = bor(i + q)
      BY <1>8, <2>1, <2>3
    <3>2. i + q \in 0..(h - 1)
      BY <1>6, <1>14, <2>1, <2>3
    <3>3. bor(i + q) + (h - (i + q)) <= F /\ bor(i + q) \in Nat
      BY <1>7, <1>13, <3>2
    <3> QED BY <1>6, <1>14, <2>1, <3>1, <3>3
  <2> QED BY <2>2, <2>3
<1>22. ASSUME p.n # -IntMax - 1, NEW i \in 0..(Held(p) - 1), b[At(p, i)] >= (F + 1) - st2
       PROVE  p.index[At(p, i)] = p.n - ((F + 1) - b[At(p, i)])
  <2>1. i \in 0..(k - q)
    BY <1>14
  <2>2. p.n = N + 1
    <3>1. Wrapped(N + 1) = IF N + 1 = IntMax + 1 THEN -IntMax - 1 ELSE N + 1
      BY <1>63, WrappedIs
    <3> QED BY <1>3, <1>22, <3>1 DEF N
  <2>3. CASE i + q = k
    <3>1. b[At(p, i)] = F /\ p.index[At(p, i)] = N
      BY <1>8, <2>1, <2>3
    <3>2. N \in Int
      BY <1>63
    <3> QED BY <2>2, <3>1, <3>2
  <2>4. CASE i + q # k
    <3>1. b[At(p, i)] = bor(i + q) /\ p.index[At(p, i)] = idx(i + q)
      BY <1>8, <2>1, <2>4
    <3>2. i + q \in 0..(h - 1)
      BY <1>6, <1>14, <2>1, <2>4
    <3>3. bor(i + q) + (h - (i + q)) <= F /\ bor(i + q) \in Nat
      BY <1>7, <1>13, <3>2
    <3>4. bor(i + q) < F
      BY <1>6, <3>2, <3>3
    <3>5. st2 = st + 1 /\ ~(N - look - 1 < -IntMax - 1)
      BY <1>64, <1>22, <3>1, <3>3, <3>4
    <3>6. N # -IntMax - 1 /\ N \in Int
      BY <1>63, <1>5, <3>5
    <3>7. bor(i + q) >= F - st
      BY <1>22, <3>1, <3>3, <3>5
    <3>8. idx(i + q) = N - (F - bor(i + q))
      BY <1>16, <3>2, <3>6, <3>7
    <3> QED BY <2>2, <3>1, <3>3, <3>6, <3>8
  <2> QED BY <2>3, <2>4
<1>23. ASSUME NEW r \in 0..(lineLength - 1),
              Since(Onward(w), r) <= st2, Since(Onward(w), r) <= look + 1
       PROVE  \E i \in 0..(Held(p) - 1) : /\ b[At(p, i)] >= (F + 1) - Since(Onward(w), r)
                                          /\ p.value[At(p, i)] <= [want EXCEPT ![w] = v][r]
  <2> DEFINE s == Since(w, r)
             s2 == Since(Onward(w), r)
  <2>1. s \in 1..lineLength /\ s2 = IF r = w THEN 1 ELSE s + 1
    BY SinceIs
  <2>2. s2 <= st2 /\ s2 <= look + 1
    BY <1>23
  <2>3. s <= st /\ s <= look + 1 => \E j \in 0..(h - 1) : bor(j) >= F - s /\ val(j) <= want[r]
    BY <1>17
  <2>4. [want EXCEPT ![w] = v][r] = IF r = w THEN v ELSE want[r]
    OBVIOUS
  <2>5. want[r] \in 0..Unity
    OBVIOUS
  <2> SUFFICES \E i \in 0..(k - q) : /\ b[At(p, i)] >= (F + 1) - s2
                                     /\ p.value[At(p, i)] <= IF r = w THEN v ELSE want[r]
    BY <1>14, <2>4
  <2> HIDE DEF s, s2
  <2>6. st2 = st + 1 /\ ~(N - look - 1 < -IntMax - 1)
    BY <1>64, <1>5, <2>1, <2>2
  <2>7. /\ N - (look + 1) \in (-IntMax - 1)..(IntMax + 1) /\ N - (look + 1) # IntMax + 1
        /\ N \in Int /\ N # -IntMax - 1
    BY <1>63, <1>5, <2>6
  <2>8. Wrapped(N - (look + 1)) = N - (look + 1)
    BY <2>7, WrappedIs
  <2>9. q <= k
    <3>1. SUFFICES ASSUME k \in 0..(q - 1) PROVE FALSE
      BY <1>14
    <3>2. \/ k = 0 /\ k = capacity - 1
          \/ N <= N - (look + 1)
      BY <1>3, <1>10, <2>8, <3>1 DEF N
    <3> QED BY <1>5, <2>7, <3>2
  <2>10. k - q \in 0..(k - q) /\ b[At(p, k - q)] = F /\ p.value[At(p, k - q)] = v
    <3>1. k - q \in 0..(k - q) /\ (k - q) + q = k
      BY <1>14, <2>9
    <3> QED BY <1>8, <3>1
  <2>11. CASE r = w
    <3>1. F >= (F + 1) - s2 /\ v <= v
      BY <1>5, <2>1, <2>11
    <3> QED BY <2>10, <2>11, <3>1
  <2>12. CASE r # w
    <3>1. s <= st /\ s <= look /\ s2 = s + 1 /\ s \in Nat
      BY <1>5, <2>1, <2>2, <2>6, <2>12
    <3>2. PICK j \in 0..(h - 1) : bor(j) >= F - s /\ val(j) <= want[r]
      BY <1>5, <2>3, <3>1
    <3>3. bor(j) \in Nat /\ bor(j) + (h - j) <= F /\ j \in 0..(capacity - 1) /\ val(j) \in 0..Unity
      BY <1>7, <1>13
    <3>4. (F + 1) - s2 = F - s
      BY <3>1
    <3>5. CASE j >= k
      <4>1. v <= val(j)
        BY <1>14, <1>15, <3>5
      <4>2. v <= want[r] /\ F >= (F + 1) - s2
        BY <1>5, <2>5, <3>1, <3>2, <3>3, <3>4, <4>1
      <4> QED BY <2>10, <2>12, <4>2
    <3>6. CASE j < k
      <4>1. j >= q
        <5>1. SUFFICES ASSUME j \in 0..(q - 1) PROVE FALSE
          BY <1>14
        <5>2. j \in 0..(k - 1)
          BY <1>14, <3>6
        <5>3. CASE j = 0 /\ k = capacity - 1
          <6>1. bor(j) + h <= F /\ h >= kMaxLookahead + 3
            BY <1>5, <1>6, <1>14, <3>3, <5>3
          <6> QED BY <1>5, <1>6, <3>1, <3>2, <3>3, <5>3, <6>1
        <5>4. CASE p.index[At(d, j)] <= Wrapped(N - (look + 1))
          <6>1. idx(j) <= N - (look + 1)
            BY <1>9, <2>8, <5>2, <5>4 DEF N
          <6>2. bor(j) >= F - st
            BY <3>1, <3>2, <3>3
          <6>3. idx(j) = N - (F - bor(j))
            BY <1>16, <2>7, <6>2
          <6>4. N - (F - bor(j)) <= N - (look + 1)
            BY <6>1, <6>3
          <6>5. F - bor(j) >= look + 1
            BY <1>5, <2>7, <3>3, <6>4
          <6> QED BY <1>5, <3>1, <3>2, <3>3, <6>5
        <5> QED BY <1>3, <5>1, <5>3, <5>4 DEF N
      <4>2. j - q \in 0..(k - q) /\ (j - q) + q = j /\ j # k
        BY <1>14, <3>6, <4>1
      <4>3. b[At(p, j - q)] = bor(j) /\ p.value[At(p, j - q)] = val(j)
        BY <1>8, <4>2
      <4> QED BY <2>12, <3>2, <3>4, <4>2, <4>3
    <3> QED BY <1>5, <1>14, <3>5, <3>6
  <2> QED BY <2>11, <2>12
<1>231. \A i \in 0..(Held(p) - 1) : b[At(p, i)] + (Held(p) - i) <= F + 1
  BY <1>21
<1>232. p.n # -IntMax - 1 =>
          \A i \in 0..(Held(p) - 1) :
            b[At(p, i)] >= (F + 1) - st2 => p.index[At(p, i)] = p.n - ((F + 1) - b[At(p, i)])
  BY <1>22
<1>233. \A r \in 0..(lineLength - 1) :
          Since(Onward(w), r) <= st2 /\ Since(Onward(w), r) <= look + 1 =>
            \E i \in 0..(Held(p) - 1) : /\ b[At(p, i)] >= (F + 1) - Since(Onward(w), r)
                                        /\ p.value[At(p, i)] <= [want EXCEPT ![w] = v][r]
  BY <1>23
<1>24. Windowed(b, p, F + 1, Onward(w), [want EXCEPT ![w] = v], st2, look)
  BY <1>11, <1>20, <1>231, <1>232, <1>233 DEF Windowed, N
<1> QED BY <1>3, <1>24

----------------------------------------------------------------------------
(* The invariant.                                                           *)

Aims == [r \in 0..(lineLength - 1) |-> Target(peakLine[r])]

\* The window covers what is still to come out.
WindowCovers ==
  \E born : Windowed(born, deque, Len(fed), write, Aims, settled, limiter.look)

LimiterInv ==
  LimiterTypes /\ PeaksCover /\ LineHoldsTheFed /\ WindowCovers /\ LimiterKeepsItsWord

LEMMA LimiterStarts == LimiterInit => LimiterInv
<1> SUFFICES ASSUME LimiterInit PROVE LimiterInv
  OBVIOUS
<1>1. /\ limiter \in LimiterParams /\ line = Silence
      /\ peakLine = [i \in 0..(lineLength - 1) |-> 0] /\ write = 0
      /\ gain = Unity /\ fed = <<>> /\ settled = 0
      /\ deque = [value |-> [i \in 0..(capacity - 1) |-> 0], index |-> [i \in 0..(capacity - 1) |-> 0],
                  head |-> 0, tail |-> 0, n |-> 0]
  BY Zenon DEF LimiterInit, Ring
<1>2. /\ lineLength \in Nat /\ lineLength > 1 /\ capacity \in Nat /\ capacity > 3 /\ Unity \in Nat
      /\ IntMax \in Nat
  BY RingSizes, LimiterAssumption
<1>3. Silence = [c \in Lanes |-> [i \in 0..(lineLength - 1) |-> 0]]
  BY DEF Silence, Ring
<1>4. deque \in Deques
  BY <1>1, <1>2 DEF Deques
<1>5. LimiterTypes
  BY <1>1, <1>2, <1>3, <1>4 DEF LimiterTypes
<1>6. PeaksCover
  BY <1>1, <1>3 DEF PeaksCover
<1>7. \A r \in 0..(lineLength - 1) : Since(write, r) \in 1..lineLength
  BY <1>5, SinceIs DEF LimiterTypes
<1>8. LineHoldsTheFed
  BY <1>1, <1>2, <1>3, <1>7 DEF LineHoldsTheFed
<1>9. Held(deque) = 0
  <2>1. deque.head = 0 /\ deque.tail = 0
    BY <1>1
  <2> QED BY <1>2, <2>1, HeldIs
<1>10. Windowed([i \in 0..(capacity - 1) |-> 0], deque, Len(fed), write, Aims, settled, limiter.look)
  <2>1. \A k \in 0..(Held(deque) - 1) : FALSE
    BY <1>9
  <2>2. \A r \in 0..(lineLength - 1) : ~(Since(write, r) <= settled)
    BY <1>1, <1>2, <1>7
  <2>3. [i \in 0..(capacity - 1) |-> 0] \in [0..(capacity - 1) -> Nat]
    OBVIOUS
  <2>4. Rising(deque)
    BY <2>1 DEF Rising
  <2> QED BY <2>1, <2>2, <2>3, <2>4, Zenon DEF Windowed
<1>11. WindowCovers
  BY <1>10 DEF WindowCovers
<1>12. limiter.look \in Nat
  BY <1>1, SettingsAre
<1>13. LimiterKeepsItsWord
  BY <1>1, <1>12 DEF LimiterKeepsItsWord, CeilingHolds, DownBeforeThePeak
<1> QED BY <1>5, <1>6, <1>8, <1>11, <1>13 DEF LimiterInv

\* Nothing has been promised yet of the settings that are new.
LEMMA WindowAnew ==
  ASSUME NEW d \in Deques, NEW F \in Nat, NEW w \in 0..(lineLength - 1), NEW want, NEW st,
         NEW look, NEW want2, NEW look2, NEW born, Windowed(born, d, F, w, want, st, look)
  PROVE  Windowed(born, d, F, w, want2, 0, look2)
<1>1. /\ born \in [0..(capacity - 1) -> Nat]
      /\ Rising(d)
      /\ \A k \in 0..(Held(d) - 1) : born[At(d, k)] + (Held(d) - k) <= F
  BY DEF Windowed
<1>2. \A r \in 0..(lineLength - 1) : Since(w, r) \in 1..lineLength /\ lineLength \in Nat
  BY SinceIs, RingSizes
<1>3. Held(d) \in 0..(capacity - 1) /\ d.head \in 0..(capacity - 1) /\ capacity \in Nat
  <2>1. d.head \in 0..(capacity - 1) /\ d.tail \in 0..(capacity - 1)
    BY DEF Deques
  <2> QED BY <2>1, HeldIs, RingSizes
<1>4. ASSUME NEW k \in 0..(Held(d) - 1) PROVE ~(born[At(d, k)] >= F - 0)
  <2>1. k \in 0..(capacity - 1) /\ Held(d) \in Nat /\ k \in Nat /\ k < Held(d)
    BY <1>3
  <2>2. At(d, k) \in 0..(capacity - 1)
    BY <1>3, <2>1, AtIs
  <2>3. born[At(d, k)] \in Nat /\ born[At(d, k)] + (Held(d) - k) <= F
    BY <1>1, <2>2
  <2> QED BY <2>1, <2>3
<1>5. \A r \in 0..(lineLength - 1) : ~(Since(w, r) <= 0)
  BY <1>2
<1> QED BY <1>1, <1>4, <1>5 DEF Windowed

\* The least of a window that covers a place is not above its target.
LEMMA MinimumIs ==
  ASSUME NEW d \in Deques, NEW v \in 0..Unity
  PROVE  /\ Minimum(d, v) \in 0..Unity
         /\ Rising(d) => \A k \in 0..(Held(d) - 1) : Minimum(d, v) <= d.value[At(d, k)]
<1>1. /\ d.value \in [0..(capacity - 1) -> 0..Unity]
      /\ d.head \in 0..(capacity - 1) /\ d.tail \in 0..(capacity - 1)
  BY DEF Deques
<1>2. Held(d) \in 0..(capacity - 1) /\ capacity \in Nat /\ Unity \in Nat
  BY <1>1, HeldIs, RingSizes, LimiterAssumption
<1>3. At(d, 0) = d.head
  <2>1. 0 \in 0..(capacity - 1)
    BY <1>1, <1>2
  <2>2. At(d, 0) = IF d.head + 0 < capacity THEN d.head + 0 ELSE d.head + 0 - capacity
    BY <1>1, <2>1, AtIs
  <2> QED BY <1>1, <1>2, <2>2
<1>4. Minimum(d, v) = IF Held(d) = 0 THEN v ELSE d.value[At(d, 0)]
  BY <1>3 DEF Minimum
<1>5. \A k \in 0..(Held(d) - 1) : d.value[At(d, k)] \in 0..Unity
  <2> TAKE k \in 0..(Held(d) - 1)
  <2>1. k \in 0..(capacity - 1)
    BY <1>2
  <2> QED BY <1>1, <2>1, AtIs
<1>6. ASSUME Rising(d), NEW k \in 0..(Held(d) - 1) PROVE Minimum(d, v) <= d.value[At(d, k)]
  <2>1. 0 \in 0..(Held(d) - 1) /\ Held(d) # 0
    BY <1>2
  <2>2. Minimum(d, v) = d.value[At(d, 0)]
    BY <1>4, <2>1
  <2>3. k = 0 \/ 0 < k
    BY <1>2
  <2>4. k = 0 \/ d.value[At(d, 0)] < d.value[At(d, k)]
    BY <1>6, <2>1, <2>3 DEF Rising
  <2> QED BY <1>2, <1>5, <2>1, <2>2, <2>4
<1>7. Minimum(d, v) \in 0..Unity
  BY <1>1, <1>4, <1>3
<1> QED BY <1>6, <1>7

LEMMA SetLimiterKeeps ==
  ASSUME LimiterInv, NEW p \in LimiterParams, SetLimiter(p) PROVE LimiterInv'
<1>1. /\ limiter' \in LimiterParams /\ settled' = 0
      /\ UNCHANGED <<line, peakLine, write, gain, deque, fed>>
  BY DEF SetLimiter
<1>2. LimiterTypes /\ PeaksCover /\ LineHoldsTheFed
  BY DEF LimiterInv
<1>3. LimiterTypes'
  BY <1>1, <1>2 DEF LimiterTypes
<1>4. PeaksCover' /\ LineHoldsTheFed'
  BY <1>1, <1>2 DEF PeaksCover, LineHoldsTheFed
<1>5. WindowCovers'
  <2>1. PICK born : Windowed(born, deque, Len(fed), write, Aims, settled, limiter.look)
    BY DEF LimiterInv, WindowCovers
  <2>2. deque \in Deques /\ Len(fed) \in Nat /\ write \in 0..(lineLength - 1)
    BY <1>2 DEF LimiterTypes
  <2>3. Windowed(born, deque, Len(fed), write, Aims', 0, limiter'.look)
    BY <2>1, <2>2, WindowAnew
  <2>4. Windowed(born, deque', Len(fed'), write', Aims', settled', limiter'.look)
    BY <1>1, <2>3, Zenon
  <2> QED BY <2>4 DEF WindowCovers
<1>6. LimiterKeepsItsWord'
  <2>1. (limiter.look \in Nat)'
    BY <1>1, LimiterAssumption
  <2> QED BY <1>1, <2>1 DEF LimiterKeepsItsWord, CeilingHolds, DownBeforeThePeak
<1> QED BY <1>3, <1>4, <1>5, <1>6 DEF LimiterInv

\* What may come out of the line, and what the envelope has for it.
LEMMA FrameKeeps ==
  ASSUME LimiterInv, NEW x \in Levels, NEW p \in Nat, Taken(x, p) PROVE LimiterInv'
<1> DEFINE r == Out(limiter.look)
           T == limiter.threshold * Unity
           v == Target(p)
<1>1. LimiterTypes /\ PeaksCover /\ LineHoldsTheFed
  BY DEF LimiterInv
<1>2. /\ limiter \in LimiterParams /\ write \in 0..(lineLength - 1) /\ gain \in 0..Unity
      /\ deque \in Deques /\ fed \in Seq(Levels) /\ Len(fed) \in Nat /\ settled \in Nat
      /\ peakLine \in [0..(lineLength - 1) -> Nat]
  BY <1>1 DEF LimiterTypes
<1>3. /\ \A c \in Lanes : x[c] # NaN => x[c] <= p
      /\ deque' = Advanced(p) /\ peakLine' = Peaks(p) /\ write' = Onward(write)
      /\ applied' = Peaks(p)[r] * Envelope(p)
      /\ limiter' = limiter
  BY Zenon DEF Taken
<1>4. /\ limiter.threshold \in Nat /\ limiter.look \in 0..kMaxLookahead /\ limiter.look \in Nat
      /\ T \in Nat /\ Unity \in Nat /\ lineLength \in Nat
  BY <1>2, SettingsAre, RingSizes
<1>5. r \in 0..(lineLength - 1) /\ Since(Onward(write), r) = limiter.look + 1
      /\ Onward(write) \in 0..(lineLength - 1)
  BY <1>2, <1>4, LateIs, SinceIs DEF Out
<1>6. /\ Written(x) \in [Lanes -> [0..(lineLength - 1) -> Nat \cup {NaN}]]
      /\ Peaks(p) \in [0..(lineLength - 1) -> Nat]
      /\ \A c \in Lanes, q \in 0..(lineLength - 1) :
           /\ Written(x)[c][q] # NaN => Written(x)[c][q] <= Peaks(p)[q]
           /\ LET i == Len(fed) + 2 - Since(Onward(write), q) IN
              Written(x)[c][q] = IF i >= 1 THEN Append(fed, x)[i][c] ELSE 0
  BY <1>1, <1>3, WrittenIs
<1>7. v \in 0..Unity
  BY <1>2, TargetIs
<1>8. PICK born : Windowed(born, deque, Len(fed), write, Aims, settled, limiter.look)
  BY DEF LimiterInv, WindowCovers
<1>9. Rising(deque) /\ Advanced(p) = Pushed(deque, v, limiter.look + 1)
  BY <1>8 DEF Windowed, Advanced
<1>10. Aims \in [0..(lineLength - 1) -> 0..Unity]
  <2>1. \A q \in 0..(lineLength - 1) : Target(peakLine[q]) \in 0..Unity
    BY <1>2, TargetIs
  <2> QED BY <2>1 DEF Aims
<1>11. Aims' = [Aims EXCEPT ![write] = v]
  <2>1. \A y : Target(y)' = Target(y)
    BY <1>3 DEF Target
  <2>2. Aims' = [q \in 0..(lineLength - 1) |-> Target(Peaks(p)[q])]
    BY <1>3 DEF Aims, Target
  <2>3. \A q \in 0..(lineLength - 1) : Peaks(p)[q] = IF q = write THEN p ELSE peakLine[q]
    BY <1>2 DEF Peaks
  <2>4. \A q \in 0..(lineLength - 1) :
          Target(Peaks(p)[q]) = [Aims EXCEPT ![write] = v][q]
    BY <1>2, <2>3 DEF Aims
  <2> HIDE DEF v
  <2>5. [Aims EXCEPT ![write] = v] = [q \in 0..(lineLength - 1) |-> [Aims EXCEPT ![write] = v][q]]
    BY DEF Aims
  <2> QED BY <2>2, <2>4, <2>5
<1> HIDE DEF v
<1>12. \/ settled' = 0
       \/ /\ settled' = settled + 1 /\ ~(deque.n - limiter.look - 1 < -IntMax - 1)
          /\ FirstBad(Late(x)) = {}
  BY DEF Taken
<1>13. settled' \in Nat
  BY <1>2, <1>12
<1>14. /\ Advanced(p) \in Deques
       /\ \E b : Windowed(b, Advanced(p), Len(fed) + 1, Onward(write), Aims', settled', limiter.look)
  <2>1. settled' = 0 \/ (settled' = settled + 1 /\ ~(deque.n - limiter.look - 1 < -IntMax - 1))
    BY <1>12
  <2>2. \A st2 \in Nat :
          (st2 = 0 \/ (st2 = settled + 1 /\ ~(deque.n - limiter.look - 1 < -IntMax - 1))) =>
          /\ Advanced(p) \in Deques
          /\ \E b : Windowed(b, Advanced(p), Len(fed) + 1, Onward(write), [Aims EXCEPT ![write] = v],
                             st2, limiter.look)
    BY <1>2, <1>4, <1>7, <1>8, <1>9, <1>10, WindowStep
  <2> QED BY <1>11, <1>13, <2>1, <2>2
<1>15. Envelope(p) \in 0..Unity /\ Envelope(p) <= Minimum(Advanced(p), v) /\ Minimum(Advanced(p), v) \in 0..Unity
  <2>1. Minimum(Advanced(p), v) \in 0..Unity
    BY <1>7, <1>14, MinimumIs
  <2> QED BY <1>2, <2>1, EnvelopeIs DEF Envelope, v
<1>16. Peaks(p)[r] \in Nat
  BY <1>5, <1>6
\* The envelope is down in time.
<1>17. ASSUME settled' > limiter.look PROVE applied' <= T
  <2>1. PICK b : Windowed(b, Advanced(p), Len(fed) + 1, Onward(write), Aims', settled', limiter.look)
    BY <1>14
  <2>2. /\ Rising(Advanced(p))
        /\ \E k \in 0..(Held(Advanced(p)) - 1) : Advanced(p).value[At(Advanced(p), k)] <= Aims'[r]
    <3>1. Since(Onward(write), r) <= settled' /\ Since(Onward(write), r) <= limiter.look + 1
      BY <1>4, <1>5, <1>13, <1>17
    <3> QED BY <1>5, <2>1, <3>1, Zenon DEF Windowed
  <2>3. PICK k \in 0..(Held(Advanced(p)) - 1) : Advanced(p).value[At(Advanced(p), k)] <= Aims'[r]
    BY <2>2
  <2>4. Minimum(Advanced(p), v) <= Advanced(p).value[At(Advanced(p), k)]
    BY <1>7, <1>14, <2>2, MinimumIs
  <2>5. Advanced(p).value[At(Advanced(p), k)] \in 0..Unity
    <3>1. /\ Advanced(p).value \in [0..(capacity - 1) -> 0..Unity]
          /\ Advanced(p).head \in 0..(capacity - 1) /\ Advanced(p).tail \in 0..(capacity - 1)
      BY <1>14 DEF Deques
    <3>2. Held(Advanced(p)) \in 0..(capacity - 1) /\ capacity \in Nat
      BY <3>1, HeldIs, RingSizes
    <3>3. k \in 0..(capacity - 1)
      BY <3>2
    <3> QED BY <3>1, <3>3, AtIs
  <2>6. Aims'[r] = Target(Peaks(p)[r])
    BY <1>3, <1>5 DEF Aims, Target
  <2> DEFINE y == Peaks(p)[r]
             e == Envelope(p)
             u == Target(y)
             a == Advanced(p).value[At(Advanced(p), k)]
             m == Minimum(Advanced(p), v)
  <2>7. u \in 0..Unity /\ y * u <= T
    BY <1>2, <1>16, TargetIs
  <2>8. y \in Nat /\ e \in 0..Unity /\ e <= m /\ m <= a /\ a <= u /\ m \in 0..Unity /\ a \in 0..Unity
    BY <1>15, <1>16, <2>3, <2>4, <2>5, <2>6
  <2>9. applied' = y * e
    BY <1>3
  <2> HIDE DEF y, e, u, a, m, T
  <2>10. e \in Nat /\ u \in Nat /\ e <= u
    BY <1>4, <2>7, <2>8
  <2>11. e * y <= u * y
    BY <2>8, <2>10, Louder
  <2>12. e * y = y * e /\ u * y = y * u
    BY <2>8, <2>10
  <2>13. y * e \in Int /\ y * u \in Int
    BY <2>8, <2>10
  <2> QED BY <1>4, <2>7, <2>9, <2>11, <2>12, <2>13
<1>18. DownBeforeThePeak'
  <2>1. settled' > limiter'.look => applied' <= limiter'.threshold * Unity
    BY <1>3, <1>17
  <2> QED BY <2>1 DEF DownBeforeThePeak
<1>19. ASSUME FirstBad(Late(x)) # {}
       PROVE  LimiterTypes' /\ PeaksCover' /\ LineHoldsTheFed' /\ CeilingHolds' /\ Len(fed') = Len(fed) + 1
  <2>1. /\ gain' = Unity /\ line' = Silence /\ settled' = 0
        /\ fed' = [i \in 1..(Len(fed) + 1) |-> [c \in Lanes |-> 0]]
    BY <1>19, Zenon DEF Taken
  <2>2. Silence = [c \in Lanes |-> [i \in 0..(lineLength - 1) |-> 0]]
    BY DEF Silence, Ring
  <2>3. [c \in Lanes |-> 0] \in Levels
    BY DEF Levels
  <2>4. fed' \in Seq(Levels) /\ Len(fed') = Len(fed) + 1
        /\ \A i \in 1..(Len(fed) + 1) : fed'[i] = [c \in Lanes |-> 0]
    <3> DEFINE n == Len(fed) + 1
               z == [c \in Lanes |-> 0]
    <3>1. n \in Nat /\ z \in Levels
      BY <1>2, <2>3
    <3> HIDE DEF n, z
    <3>2. LET f == [i \in 1..n |-> z] IN f \in Seq(Levels) /\ Len(f) = n /\ \A i \in 1..n : f[i] = z
      BY <3>1
    <3> QED BY <2>1, <3>2 DEF n, z
  <2>5. LimiterTypes'
    <3>1. gain' \in 0..Unity
      BY <1>4, <2>1
    <3>2. line' \in [Lanes -> [0..(lineLength - 1) -> Nat \cup {NaN}]]
      BY <2>1, <2>2
    <3>3. settled' \in Nat
      BY <2>1
    <3> QED BY <1>2, <1>3, <1>5, <1>6, <1>14, <2>4, <3>1, <3>2, <3>3 DEF LimiterTypes
  <2>6. \A c \in Lanes, q \in 0..(lineLength - 1) : line'[c][q] = 0
    BY <2>1, <2>2
  <2>7. PeaksCover'
    <3>1. \A q \in 0..(lineLength - 1) : peakLine'[q] \in Nat
      BY <1>3, <1>6
    <3> QED BY <2>6, <3>1 DEF PeaksCover
  <2>8. LineHoldsTheFed'
    <3>1. ASSUME NEW c \in Lanes, NEW q \in 0..(lineLength - 1), Len(fed') + 1 - Since(write', q) >= 1
          PROVE  fed'[Len(fed') + 1 - Since(write', q)][c] = 0
      <4>1. Since(write', q) \in 1..lineLength
        BY <1>3, <1>5, SinceIs
      <4>2. Len(fed') + 1 - Since(write', q) \in 1..(Len(fed) + 1)
        <5> DEFINE n == Len(fed)
                   n2 == Len(fed')
                   s == Since(write', q)
        <5>1. n \in Nat /\ n2 = n + 1 /\ n2 + 1 - s >= 1 /\ s \in 1..lineLength
          BY <1>2, <2>4, <3>1, <4>1
        <5> HIDE DEF n, n2, s
        <5>2. n2 + 1 - s \in 1..(n + 1)
          BY <1>4, <5>1
        <5> QED BY <5>2 DEF n, n2, s
      <4> QED BY <2>4, <4>2
    <3> QED BY <2>6, <3>1 DEF LineHoldsTheFed
  <2>9. CeilingHolds'
    BY <2>1 DEF CeilingHolds
  <2> QED BY <2>4, <2>5, <2>7, <2>8, <2>9
<1>191. ASSUME FirstBad(Late(x)) = {}
        PROVE  LimiterTypes' /\ PeaksCover' /\ LineHoldsTheFed' /\ CeilingHolds' /\ Len(fed') = Len(fed) + 1
  <2>1. /\ gain' = Envelope(p) /\ line' = Written(x) /\ fed' = Append(fed, x)
        /\ out' = Railed(Late(x), Clamped(Peaks(p)[r], Envelope(p)))
    BY <1>191, Zenon DEF Taken
  <2>2. fed' \in Seq(Levels) /\ Len(fed') = Len(fed) + 1
    BY <1>2, <2>1
  <2>3. LimiterTypes'
    <3>1. gain' \in 0..Unity
      BY <1>15, <2>1
    <3>2. line' \in [Lanes -> [0..(lineLength - 1) -> Nat \cup {NaN}]]
      BY <1>6, <2>1
    <3> QED BY <1>2, <1>3, <1>5, <1>6, <1>13, <1>14, <2>2, <3>1, <3>2 DEF LimiterTypes
  <2>4. PeaksCover'
    BY <1>3, <1>6, <2>1 DEF PeaksCover
  <2>5. LineHoldsTheFed'
    <3>1. ASSUME NEW c \in Lanes, NEW q \in 0..(lineLength - 1)
          PROVE  LET i == Len(fed') + 1 - Since(write', q) IN
                 line'[c][q] = IF i >= 1 THEN fed'[i][c] ELSE 0
      <4>1. Since(Onward(write), q) \in 1..lineLength
        BY <1>5, SinceIs
      <4>2. Len(fed') + 1 - Since(write', q) = Len(fed) + 2 - Since(Onward(write), q)
        BY <1>2, <1>3, <1>4, <2>2, <4>1
      <4>3. Written(x)[c][q] = IF Len(fed) + 2 - Since(Onward(write), q) >= 1
                               THEN Append(fed, x)[Len(fed) + 2 - Since(Onward(write), q)][c] ELSE 0
        BY <1>6
      <4> QED BY <2>1, <4>2, <4>3
    <3> QED BY <3>1 DEF LineHoldsTheFed
  <2>6. ASSUME NEW c \in Lanes
        PROVE  Late(x)[c] \in Nat /\ Late(x)[c] <= Peaks(p)[r] /\ Late(x)[c] = Written(x)[c][r]
    <3>1. Late(x)[c] = Written(x)[c][r]
      BY DEF Late
    <3>2. c \in 1..c
      BY LimiterAssumption
    <3>3. Late(x)[c] # NaN
      BY <1>191, <3>2 DEF FirstBad, IsNumber
    <3>4. Written(x)[c] \in [0..(lineLength - 1) -> Nat \cup {NaN}]
      BY <1>6
    <3> HIDE DEF r
    <3>5. Written(x)[c][r] \in Nat \cup {NaN}
      BY <1>5, <3>4
    <3>6. Written(x)[c][r] # NaN => Written(x)[c][r] <= Peaks(p)[r]
      BY <1>5, <1>6
    <3>7. Written(x)[c][r] \in Nat /\ Written(x)[c][r] <= Peaks(p)[r]
      BY <3>1, <3>3, <3>5, <3>6
    <3> QED BY <3>1, <3>7
  <2> DEFINE g == Clamped(Peaks(p)[r], Envelope(p))
  <2>7. g \in 0..Unity /\ Peaks(p)[r] * g <= T
    BY <1>2, <1>15, <1>16, ClampIs
  <2>8. \A c \in Lanes : out'[c] = Late(x)[c] * g
    BY <1>191, <2>1 DEF Railed
  <2> HIDE DEF g
  <2>9. ASSUME NEW c \in Lanes PROVE out'[c] <= T
    <3> DEFINE l == Late(x)[c]
               y == Peaks(p)[r]
    <3>1. l \in Nat /\ y \in Nat /\ l <= y /\ g \in Nat
      BY <1>4, <1>16, <2>6, <2>7
    <3>2. out'[c] = l * g /\ y * g <= T
      BY <2>7, <2>8
    <3> HIDE DEF l, y, T
    <3>3. l * g <= y * g /\ l * g \in Nat /\ y * g \in Nat
      BY <3>1, Louder
    <3> QED BY <1>4, <3>2, <3>3
  <2>10. ASSUME Len(fed') - limiter.look \in DOMAIN fed', NEW c \in Lanes
         PROVE  out'[c] = fed'[Len(fed') - limiter.look][c] * g
    <3>1. Len(fed) + 2 - Since(Onward(write), r) = Len(fed') - limiter.look
      <4> DEFINE n == Len(fed)
                 n2 == Len(fed')
                 s == Since(Onward(write), r)
                 k == limiter.look
      <4>1. n \in Nat /\ n2 = n + 1 /\ s = k + 1 /\ k \in Nat
        BY <1>2, <1>4, <1>5, <2>2
      <4> HIDE DEF n, n2, s, k
      <4>2. n + 2 - s = n2 - k
        BY <4>1
      <4> QED BY <4>2 DEF n, n2, s, k
    <3>2. Len(fed') - limiter.look >= 1
      BY <2>2, <2>10
    <3>3. Written(x)[c][r] = fed'[Len(fed') - limiter.look][c]
      BY <1>5, <1>6, <2>1, <3>1, <3>2
    <3> QED BY <2>6, <2>8, <3>3
  <2>11. CeilingHolds'
    <3>1. \A c \in Lanes : out'[c] <= limiter'.threshold * Unity
      BY <1>3, <2>9
    <3>2. Len(fed') - limiter'.look \in DOMAIN fed' =>
            \E e \in 0..Unity : \A c \in Lanes : out'[c] = fed'[Len(fed') - limiter'.look][c] * e
      BY <1>3, <2>7, <2>10
    <3> QED BY <3>1, <3>2 DEF CeilingHolds, Came
  <2> QED BY <2>2, <2>3, <2>4, <2>5, <2>11
<1>192. LimiterTypes' /\ PeaksCover' /\ LineHoldsTheFed' /\ CeilingHolds' /\ Len(fed') = Len(fed) + 1
  BY <1>19, <1>191
<1>20. WindowCovers'
  <2>1. Len(fed') = Len(fed) + 1
    BY <1>192
  <2>2. \E b : Windowed(b, deque', Len(fed'), write', Aims', settled', limiter'.look)
    BY <1>3, <1>14, <2>1, Zenon
  <2> QED BY <2>2 DEF WindowCovers
<1> QED BY <1>18, <1>192, <1>20 DEF LimiterInv, LimiterKeepsItsWord

LEMMA LimiterSteps == LimiterInv /\ [LimiterNext]_limiterVars => LimiterInv'
<1> SUFFICES ASSUME LimiterInv, [LimiterNext]_limiterVars PROVE LimiterInv'
  OBVIOUS
<1>1. CASE \E f \in Frames : LimiterFrame(f)
  <2>1. PICK f \in Frames : LimiterFrame(f)
    BY <1>1
  <2>2. PICK x \in Levels, p \in Nat : Taken(x, p)
    BY <2>1, FrameIs DEF LimiterInv
  <2> QED BY <2>2, FrameKeeps
<1>2. CASE \E p \in LimiterParams : p # limiter /\ SetLimiter(p)
  BY <1>2, SetLimiterKeeps
<1>3. CASE UNCHANGED limiterVars
  <2>1. UNCHANGED <<limiter, line, peakLine, write, gain, deque, out, applied, fed, settled>>
    BY <1>3 DEF limiterVars
  <2>2. LimiterTypes' /\ PeaksCover' /\ LineHoldsTheFed'
    BY <2>1 DEF LimiterInv, LimiterTypes, PeaksCover, LineHoldsTheFed
  <2>3. Aims' = Aims
    BY <2>1 DEF Aims, Target
  <2>4. WindowCovers'
    BY <2>1, <2>3, Zenon DEF LimiterInv, WindowCovers
  <2>5. LimiterKeepsItsWord'
    BY <2>1 DEF LimiterInv, LimiterKeepsItsWord, CeilingHolds, DownBeforeThePeak, Came
  <2> QED BY <2>2, <2>4, <2>5 DEF LimiterInv
<1> QED BY <1>1, <1>2, <1>3 DEF LimiterNext

LEMMA LimiterPart ==
  /\ SignalInit => LimiterInit
  /\ [SignalNext]_signalVars => [LimiterNext]_limiterVars
<1>1. SignalInit => LimiterInit
  BY DEF SignalInit
<1>2. ASSUME SignalNext PROVE LimiterNext \/ UNCHANGED limiterVars
  BY <1>2 DEF SignalNext
<1>3. ASSUME UNCHANGED signalVars PROVE UNCHANGED limiterVars
  BY <1>3 DEF signalVars
<1> QED BY <1>1, <1>2, <1>3

\* dsp/Limiter: for any number of channels, any look-ahead and any settings, whatever
\* comes in, the frame that comes out is the one fed a look-ahead before, every channel
\* of it by the same gain and none above the threshold; and once the settings have
\* been the same for a look-ahead it is the envelope that brings it there.  The count
\* that stamps the entries wraps, and the promise of the envelope starts again there.
THEOREM LimiterHolds == SignalSpec => []LimiterKeepsItsWord
<1>1. SignalInit => LimiterInv
  BY LimiterPart, LimiterStarts
<1>2. LimiterInv /\ [SignalNext]_signalVars => LimiterInv'
  BY LimiterPart, LimiterSteps
<1>3. LimiterInv => LimiterKeepsItsWord
  BY DEF LimiterInv
<1> QED BY <1>1, <1>2, <1>3, PTL DEF SignalSpec

----------------------------------------------------------------------------
(* Sums.  A sum over a set is a recursion over its subsets, in an order that *)
(* CHOOSE gives; it is shown not to depend on it.                           *)

\* What a sum over 0..n-1 is made of, the terms those of h.
IsFold(f, h, n) ==
  f = [s \in SUBSET (0..n - 1) |->
         IF s = {} THEN 0 ELSE h[CHOOSE x \in s : TRUE] + f[s \ {CHOOSE x \in s : TRUE}]]

Sum(h, n) == (CHOOSE f : IsFold(f, h, n))[0..n - 1]

\* A table of the sums over subsets, in which any element may be taken out.
Adds(g, h, n) ==
  /\ g \in [SUBSET (0..n - 1) -> Int] /\ g[{}] = 0
  /\ \A s \in SUBSET (0..n - 1) : \A x \in s : g[s] = h[x] + g[s \ {x}]

LEMMA AddsMore ==
  ASSUME NEW n \in Nat, NEW h, \A i \in 0..n : h[i] \in Int, NEW g, Adds(g, h, n)
  PROVE  \E f : Adds(f, h, n + 1)
<1> DEFINE D == SUBSET (0..n)
           f == [s \in D |-> IF n \in s THEN h[n] + g[s \ {n}] ELSE g[s]]
<1>1. 0..(n + 1) - 1 = 0..n /\ \A s \in D : s \ {n} \in SUBSET (0..n - 1) /\ (n \notin s => s \in SUBSET (0..n - 1))
  OBVIOUS
<1>2. \A s \in SUBSET (0..n - 1) : g[s] \in Int
  BY DEF Adds
<1>3. h[n] \in Int
  OBVIOUS
<1>4. f \in [D -> Int]
  BY <1>1, <1>2, <1>3
<1>5. f[{}] = 0
  <2>1. {} \in D /\ n \notin {}
    OBVIOUS
  <2> QED BY <2>1 DEF Adds
<1>6. ASSUME NEW s \in D, NEW x \in s
      PROVE  f[s] = h[x] + f[s \ {x}]
  <2>1. s \ {x} \in D /\ x \in 0..n /\ h[x] \in Int
    OBVIOUS
  <2>2. CASE x = n
    <3>1. f[s] = h[n] + g[s \ {n}]
      BY <2>2
    <3>2. f[s \ {x}] = g[s \ {n}]
      BY <2>1, <2>2
    <3> HIDE DEF f
    <3> QED BY <2>2, <3>1, <3>2
  <2>3. CASE x # n /\ n \notin s
    <3>1. f[s] = g[s] /\ f[s \ {x}] = g[s \ {x}]
      BY <2>1, <2>3
    <3>2. s \in SUBSET (0..n - 1)
      BY <1>1, <2>3
    <3> HIDE DEF f
    <3> QED BY <3>1, <3>2 DEF Adds
  <2>4. CASE x # n /\ n \in s
    <3> DEFINE t == s \ {n}
    <3>1. f[s] = h[n] + g[t] /\ f[s \ {x}] = h[n] + g[(s \ {x}) \ {n}]
      BY <2>1, <2>4
    <3>2. (s \ {x}) \ {n} = t \ {x} /\ t \in SUBSET (0..n - 1) /\ x \in t /\ t \ {x} \in SUBSET (0..n - 1)
      BY <1>1, <2>4
    <3>3. g[t] = h[x] + g[t \ {x}]
      <4> HIDE DEF t
      <4> QED BY <3>2 DEF Adds
    <3>4. g[t] \in Int /\ g[t \ {x}] \in Int
      BY <1>2, <3>2
    <3> HIDE DEF f, t
    <3>5. f[s \ {x}] = h[n] + g[t \ {x}]
      BY <3>1, <3>2
    <3> DEFINE a == g[t]
               b == g[t \ {x}]
               u == h[n]
               v == h[x]
               p == f[s]
               q == f[s \ {x}]
    <3>6. a \in Int /\ b \in Int /\ u \in Int /\ v \in Int /\ p = u + a /\ q = u + b /\ a = v + b
      BY <1>3, <2>1, <3>1, <3>3, <3>4, <3>5
    <3> HIDE DEF a, b, u, v, p, q
    <3>7. p = v + q
      BY <3>6
    <3> QED BY <3>7 DEF p, v, q
  <2> QED BY <2>2, <2>3, <2>4
<1> HIDE DEF f
<1>7. Adds(f, h, n + 1)
  BY <1>1, <1>4, <1>5, <1>6 DEF Adds
<1> QED BY <1>7

LEMMA AddsExist ==
  ASSUME NEW n \in Nat, NEW h, \A i \in 0..n - 1 : h[i] \in Int
  PROVE  \E f : Adds(f, h, n)
<1> DEFINE T == {i \in 0..n : \E f : Adds(f, h, i)}
<1>1. 0 \in T
  <2> DEFINE z == [s \in SUBSET (0..0 - 1) |-> 0]
  <2>1. 0..0 - 1 = {} /\ z \in [SUBSET (0..0 - 1) -> Int] /\ z[{}] = 0
    OBVIOUS
  <2>2. \A s \in SUBSET (0..0 - 1) : s = {}
    BY <2>1
  <2> HIDE DEF z
  <2>3. Adds(z, h, 0)
    BY <2>1, <2>2 DEF Adds
  <2> QED BY <2>3
<1>2. ASSUME NEW i \in 0..(n - 1), i \in T PROVE i + 1 \in T
  <2>1. i \in Nat /\ i + 1 \in 0..n /\ \A j \in 0..i : h[j] \in Int
    OBVIOUS
  <2>2. PICK g : Adds(g, h, i)
    BY <1>2
  <2>3. \E f : Adds(f, h, i + 1)
    BY <2>1, <2>2, AddsMore
  <2> QED BY <2>1, <2>3
<1>3. 0..n \subseteq T
  <2> HIDE DEF T
  <2> QED BY <1>1, <1>2, Induction
<1> QED BY <1>3

\* A function that takes an element of its own choice out is such a table.
LEMMA FoldIsTable ==
  ASSUME NEW n \in Nat, NEW h, NEW g, Adds(g, h, n), NEW f, IsFold(f, h, n)
  PROVE  f = g
<1> DEFINE D == SUBSET (0..n - 1)
           T == {k \in 0..n : \A s \in D : Cardinality(s) <= k => f[s] = g[s]}
<1>1. DOMAIN f = D /\ f = [s \in D |-> f[s]] /\ g = [s \in D |-> g[s]]
  <2>1. f = [s \in D |-> IF s = {} THEN 0
                         ELSE h[CHOOSE x \in s : TRUE] + f[s \ {CHOOSE x \in s : TRUE}]]
    BY DEF IsFold
  <2> HIDE DEF D
  <2>2. DOMAIN f = D /\ f = [s \in D |-> f[s]]
    BY <2>1
  <2> QED BY <2>2 DEF Adds, D
<1>2. \A s \in D : f[s] = IF s = {} THEN 0
                          ELSE h[CHOOSE x \in s : TRUE] + f[s \ {CHOOSE x \in s : TRUE}]
  BY DEF IsFold
<1>3. IsFiniteSet(0..n - 1) /\ Cardinality(0..n - 1) = n
  BY FS_Interval
<1>4. \A s \in D : IsFiniteSet(s) /\ Cardinality(s) \in 0..n /\ (Cardinality(s) = 0 <=> s = {})
                   /\ \A x \in s : Cardinality(s \ {x}) = Cardinality(s) - 1
  <2> TAKE s \in D
  <2>1. IsFiniteSet(s) /\ Cardinality(s) <= n
    BY <1>3, FS_Subset
  <2>2. Cardinality(s) \in Nat /\ (Cardinality(s) = 0 <=> s = {})
    BY <2>1, FS_CardinalityType, FS_EmptySet
  <2>3. \A x \in s : Cardinality(s \ {x}) = Cardinality(s) - 1
    BY <2>1, FS_RemoveElement
  <2> QED BY <2>1, <2>2, <2>3
<1>5. 0 \in T
  <2>1. ASSUME NEW s \in D, Cardinality(s) <= 0 PROVE f[s] = g[s]
    <3>1. s = {}
      BY <1>4, <2>1
    <3>2. f[s] = 0
      BY <1>2, <3>1
    <3> QED BY <3>1, <3>2 DEF Adds
  <2> QED BY <2>1
<1>6. ASSUME NEW k \in 0..(n - 1), k \in T PROVE k + 1 \in T
  <2>1. ASSUME NEW s \in D, Cardinality(s) <= k + 1 PROVE f[s] = g[s]
    <3>1. CASE s = {}
      <4>1. f[s] = 0
        BY <1>2, <3>1
      <4> QED BY <3>1, <4>1 DEF Adds
    <3>2. CASE s # {}
      <4> DEFINE x == CHOOSE x \in s : TRUE
      <4>1. x \in s
        BY <3>2
      <4>2. f[s] = h[x] + f[s \ {x}]
        BY <1>2, <3>2
      <4> HIDE DEF x
      <4>3. s \ {x} \in D /\ Cardinality(s \ {x}) <= k
        BY <1>4, <2>1, <4>1
      <4>4. f[s \ {x}] = g[s \ {x}]
        BY <1>6, <4>3
      <4>5. g[s] = h[x] + g[s \ {x}]
        BY <4>1 DEF Adds
      <4> QED BY <4>2, <4>4, <4>5
    <3> QED BY <3>1, <3>2
  <2> QED BY <2>1
<1>7. n \in T
  <2> HIDE DEF T
  <2>1. 0..n \subseteq T
    BY <1>5, <1>6, Induction
  <2> QED BY <2>1
<1>8. \A s \in D : f[s] = g[s]
  BY <1>4, <1>7
<1> HIDE DEF D
<1> QED BY <1>1, <1>8

\* And such a table is such a function.
LEMMA TableIsFold ==
  ASSUME NEW n \in Nat, NEW h, NEW g, Adds(g, h, n)
  PROVE  IsFold(g, h, n)
<1> DEFINE D == SUBSET (0..n - 1)
<1>1. g = [s \in D |-> g[s]]
  BY DEF Adds
<1>2. ASSUME NEW s \in D
      PROVE  g[s] = IF s = {} THEN 0 ELSE h[CHOOSE x \in s : TRUE] + g[s \ {CHOOSE x \in s : TRUE}]
  <2>1. CASE s = {}
    BY <2>1 DEF Adds
  <2>2. CASE s # {}
    <3> DEFINE x == CHOOSE x \in s : TRUE
    <3>1. x \in s
      BY <2>2
    <3> HIDE DEF x
    <3>2. g[s] = h[x] + g[s \ {x}]
      BY <3>1 DEF Adds
    <3> QED BY <2>2, <3>2 DEF x
  <2> QED BY <2>1, <2>2
<1>3. [s \in D |-> g[s]] =
        [s \in D |-> IF s = {} THEN 0
                     ELSE h[CHOOSE x \in s : TRUE] + g[s \ {CHOOSE x \in s : TRUE}]]
  <2> HIDE DEF D
  <2> QED BY <1>2, Zenon
<1> QED BY <1>1, <1>3, Zenon DEF IsFold

LEMMA SumIsTable ==
  ASSUME NEW n \in Nat, NEW h, NEW g, Adds(g, h, n)
  PROVE  Sum(h, n) = g[0..n - 1]
<1>1. IsFold(g, h, n)
  BY TableIsFold
<1> DEFINE f == CHOOSE f : IsFold(f, h, n)
<1>2. IsFold(f, h, n)
  BY <1>1, Zenon
<1> HIDE DEF f
<1>3. f = g
  BY <1>2, FoldIsTable
<1> QED BY <1>3, Zenon DEF Sum, f

\* The sum, one term after the other.
LEMMA SumSteps ==
  ASSUME NEW h, NEW n \in Nat, \A i \in 0..n - 1 : h[i] \in Int
  PROVE  /\ Sum(h, n) \in Int
         /\ n = 0 => Sum(h, n) = 0
         /\ \A k \in 0..n - 1 : Sum(h, k) \in Int /\ Sum(h, k + 1) = Sum(h, k) + h[k]
<1>1. PICK g : Adds(g, h, n)
  BY AddsExist
<1>2. 0..n - 1 \in SUBSET (0..n - 1) /\ (n = 0 => 0..n - 1 = {})
  OBVIOUS
<1>3. Sum(h, n) = g[0..n - 1]
  BY <1>1, SumIsTable
<1>4. Sum(h, n) \in Int /\ (n = 0 => Sum(h, n) = 0)
  BY <1>1, <1>2, <1>3 DEF Adds
<1>5. ASSUME NEW k \in 0..n PROVE Sum(h, k) = g[0..k - 1]
  <2> DEFINE D == SUBSET (0..k - 1)
             r == [s \in D |-> g[s]]
  <2>1. k \in Nat /\ D \subseteq SUBSET (0..n - 1) /\ 0..k - 1 \in D /\ {} \in D
        /\ \A s \in D : \A x \in s : s \ {x} \in D
    OBVIOUS
  <2>2. \A s \in D : r[s] = g[s]
    OBVIOUS
  <2>3. \A s \in D : g[s] \in Int
    BY <1>1, <2>1 DEF Adds
  <2>4. r \in [D -> Int]
    BY <2>3
  <2>5. \A s \in D : \A x \in s : g[s] = h[x] + g[s \ {x}]
    BY <1>1, <2>1 DEF Adds
  <2>6. g[{}] = 0
    BY <1>1 DEF Adds
  <2> HIDE DEF r
  <2>7. \A s \in D : \A x \in s : r[s] = h[x] + r[s \ {x}]
    BY <2>1, <2>2, <2>5
  <2>8. Adds(r, h, k)
    BY <2>1, <2>2, <2>4, <2>6, <2>7 DEF Adds
  <2>9. Sum(h, k) = r[0..k - 1]
    BY <2>1, <2>8, SumIsTable
  <2> QED BY <2>1, <2>2, <2>9
<1>6. ASSUME NEW k \in 0..n - 1 PROVE Sum(h, k) \in Int /\ Sum(h, k + 1) = Sum(h, k) + h[k]
  <2> DEFINE s == 0..k
  <2>1. k \in 0..n /\ k + 1 \in 0..n /\ 0..(k + 1) - 1 = s /\ s \in SUBSET (0..n - 1) /\ k \in s
        /\ s \ {k} = 0..k - 1 /\ 0..k - 1 \in SUBSET (0..n - 1)
    OBVIOUS
  <2> HIDE DEF s
  <2>2. Sum(h, k + 1) = g[s] /\ Sum(h, k) = g[s \ {k}]
    BY <1>5, <2>1
  <2>3. g[s] = h[k] + g[s \ {k}] /\ g[s \ {k}] \in Int
    BY <1>1, <2>1 DEF Adds
  <2>4. h[k] \in Int
    OBVIOUS
  <2> QED BY <2>2, <2>3, <2>4
<1> QED BY <1>4, <1>6

\* Only the terms matter.
LEMMA SumSame ==
  ASSUME NEW n, NEW h, NEW k, \A i \in 0..n - 1 : h[i] = k[i]
  PROVE  Sum(h, n) = Sum(k, n)
<1>1. \A s \in SUBSET (0..n - 1) : s # {} => h[CHOOSE x \in s : TRUE] = k[CHOOSE x \in s : TRUE]
  OBVIOUS
<1>2. ASSUME NEW f PROVE IsFold(f, h, n) <=> IsFold(f, k, n)
  <2> DEFINE u(s) == IF s = {} THEN 0 ELSE h[CHOOSE x \in s : TRUE] + f[s \ {CHOOSE x \in s : TRUE}]
             v(s) == IF s = {} THEN 0 ELSE k[CHOOSE x \in s : TRUE] + f[s \ {CHOOSE x \in s : TRUE}]
  <2>1. \A s \in SUBSET (0..n - 1) : u(s) = v(s)
    BY <1>1
  <2>2. [s \in SUBSET (0..n - 1) |-> u(s)] = [s \in SUBSET (0..n - 1) |-> v(s)]
    <3> HIDE DEF u, v
    <3> QED BY <2>1, Zenon
  <2> QED BY <2>2, Zenon DEF IsFold
<1>3. (CHOOSE f : IsFold(f, h, n)) = (CHOOSE f : IsFold(f, k, n))
  BY <1>2, Zenon
<1> QED BY <1>3, Zenon DEF Sum

\* Terms that are nothing add nothing.
LEMMA SumPadded ==
  ASSUME NEW n \in Nat, NEW t \in 0..n, NEW h, \A i \in 0..n - 1 : h[i] \in Int,
         \A i \in t..n - 1 : h[i] = 0
  PROVE  Sum(h, n) = Sum(h, t)
<1> DEFINE T == {i \in 0..(n - t) : Sum(h, t + i) = Sum(h, t)}
<1>1. t \in Nat /\ n - t \in Nat
  OBVIOUS
<1>2. 0 \in T
  BY <1>1
<1>3. ASSUME NEW i \in 0..((n - t) - 1), i \in T PROVE i + 1 \in T
  <2> DEFINE k == t + i
  <2>1. k \in 0..n - 1 /\ k \in t..n - 1 /\ t + (i + 1) = k + 1 /\ i + 1 \in 0..(n - t)
    BY <1>1
  <2>2. Sum(h, k) = Sum(h, t)
    BY <1>3
  <2> HIDE DEF k
  <2>3. Sum(h, k) \in Int /\ Sum(h, k + 1) = Sum(h, k) + h[k] /\ h[k] = 0
    BY <2>1, SumSteps
  <2>4. Sum(h, k + 1) = Sum(h, t)
    BY <2>2, <2>3
  <2> QED BY <2>1, <2>4
<1>4. 0..(n - t) \subseteq T
  <2> HIDE DEF T
  <2> QED BY <1>1, <1>2, <1>3, Induction
<1>5. Sum(h, t + (n - t)) = Sum(h, t)
  BY <1>1, <1>4
<1>6. t + (n - t) = n
  BY <1>1
<1> QED BY <1>5, <1>6

\* A sum goes on with the sum of what follows.
LEMMA SumGoesOn ==
  ASSUME NEW m \in Nat, NEW b \in Nat, NEW h, \A i \in 0..(m + b) - 1 : h[i] \in Int
  PROVE  /\ Sum(h, m) \in Int /\ Sum([j \in 0..b - 1 |-> h[m + j]], b) \in Int
         /\ Sum(h, m + b) = Sum(h, m) + Sum([j \in 0..b - 1 |-> h[m + j]], b)
<1> DEFINE k == [j \in 0..b - 1 |-> h[m + j]]
           T == {i \in 0..b : Sum(h, m + i) = Sum(h, m) + Sum(k, i)}
<1>1. \A j \in 0..b - 1 : k[j] = h[m + j] /\ m + j \in 0..(m + b) - 1 /\ h[m + j] \in Int
  OBVIOUS
<1> HIDE DEF k
<1>2. \A i \in 0..b : Sum(k, i) \in Int
  <2>1. Sum(k, b) \in Int /\ \A i \in 0..b - 1 : Sum(k, i) \in Int
    BY <1>1, SumSteps
  <2>2. \A i \in 0..b : i = b \/ i \in 0..b - 1
    OBVIOUS
  <2> QED BY <2>1, <2>2
<1>3. m + b \in Nat /\ (m \in 0..(m + b) - 1 \/ m = m + b)
  OBVIOUS
<1>4. Sum(h, m) \in Int
  BY <1>3, SumSteps
<1>5. Sum(k, 0) = 0
  <2>1. \A i \in 0..0 - 1 : k[i] \in Int
    OBVIOUS
  <2> QED BY <2>1, SumSteps
<1>6. 0 \in T
  BY <1>4, <1>5
<1>7. ASSUME NEW i \in 0..(b - 1), i \in T PROVE i + 1 \in T
  <2> DEFINE l == m + i
  <2>1. l \in 0..(m + b) - 1 /\ m + (i + 1) = l + 1 /\ i + 1 \in 0..b /\ i \in 0..b /\ i \in 0..b - 1
    OBVIOUS
  <2>2. Sum(h, l) = Sum(h, m) + Sum(k, i) /\ h[l] = k[i]
    BY <1>1, <1>7, <2>1
  <2> HIDE DEF l
  <2>3. Sum(h, l + 1) = Sum(h, l) + h[l] /\ h[l] \in Int
    BY <1>3, <2>1, SumSteps
  <2>4. Sum(k, i + 1) = Sum(k, i) + k[i]
    BY <1>1, <2>1, SumSteps
  <2> DEFINE p == Sum(h, m)
             q == Sum(k, i)
             r == h[l]
  <2>5. p \in Int /\ q \in Int /\ r \in Int /\ Sum(h, l + 1) = (p + q) + r /\ Sum(k, i + 1) = q + r
    BY <1>2, <1>4, <2>1, <2>2, <2>3, <2>4
  <2> HIDE DEF p, q, r
  <2>6. Sum(h, l + 1) = p + Sum(k, i + 1)
    BY <2>5
  <2> QED BY <2>1, <2>6 DEF p
<1>8. 0..b \subseteq T
  <2> HIDE DEF T
  <2> QED BY <1>6, <1>7, Induction
<1>9. Sum(h, m + b) = Sum(h, m) + Sum(k, b) /\ Sum(k, b) \in Int
  BY <1>2, <1>8
<1> QED BY <1>4, <1>9 DEF k

\* A sum cut into blocks is the sum of the blocks' sums.
Blocks(h, b, p) == [q \in 0..p - 1 |-> Sum([j \in 0..b - 1 |-> h[b * q + j]], b)]

LEMMA SumOfBlocks ==
  ASSUME NEW b \in Nat, NEW p \in Nat, NEW h, \A i \in 0..b * p - 1 : h[i] \in Int
  PROVE  Sum(h, b * p) = Sum(Blocks(h, b, p), p)
<1> DEFINE k == Blocks(h, b, p)
           T == {q \in 0..p : Sum(h, b * q) = Sum(k, q)}
<1>1. ASSUME NEW q \in 0..p - 1
      PROVE  /\ b * q \in Nat /\ b * (q + 1) = b * q + b /\ b * q + b <= b * p
  <2>1. q \in Nat /\ q + 1 <= p /\ p - (q + 1) \in Nat
    OBVIOUS
  <2> DEFINE d == p - (q + 1)
  <2>2. d \in Nat /\ p = (q + 1) + d
    BY <2>1
  <2> HIDE DEF d
  <2>3. b * p = b * q + b + b * d /\ b * d \in Nat /\ b * q \in Nat /\ b * (q + 1) = b * q + b
    BY <2>1, <2>2
  <2> QED BY <2>3
<1>2. ASSUME NEW q \in 0..p - 1
      PROVE  /\ k[q] = Sum([j \in 0..b - 1 |-> h[b * q + j]], b) /\ k[q] \in Int
             /\ Sum(h, b * q) \in Int
             /\ Sum(h, b * (q + 1)) = Sum(h, b * q) + k[q]
  <2>1. k[q] = Sum([j \in 0..b - 1 |-> h[b * q + j]], b)
    BY DEF Blocks
  <2> DEFINE m == b * q
             n == b * p
  <2>2. m \in Nat /\ m + b <= n /\ b * (q + 1) = m + b /\ n \in Nat
    BY <1>1
  <2>3. \A i \in 0..n - 1 : h[i] \in Int
    OBVIOUS
  <2>4. k[q] = Sum([j \in 0..b - 1 |-> h[m + j]], b)
    BY <2>1
  <2> HIDE DEF m, n, k
  <2>5. \A i \in 0..(m + b) - 1 : h[i] \in Int
    BY <2>2, <2>3
  <2>6. /\ Sum(h, m) \in Int /\ Sum([j \in 0..b - 1 |-> h[m + j]], b) \in Int
        /\ Sum(h, m + b) = Sum(h, m) + Sum([j \in 0..b - 1 |-> h[m + j]], b)
    BY <2>2, <2>5, SumGoesOn
  <2>7. Sum(h, b * (q + 1)) = Sum(h, m) + k[q] /\ k[q] \in Int /\ Sum(h, m) \in Int
    BY <2>2, <2>4, <2>6
  <2> QED BY <2>1, <2>7 DEF m
<1> HIDE DEF k
<1>3. 0 \in T
  <2>1. b * 0 = 0 /\ (\A i \in 0..0 - 1 : h[i] \in Int) /\ (\A i \in 0..0 - 1 : k[i] \in Int)
    OBVIOUS
  <2>2. Sum(h, 0) = 0 /\ Sum(k, 0) = 0
    BY <2>1, SumSteps
  <2> QED BY <2>1, <2>2
<1>4. ASSUME NEW q \in 0..(p - 1), q \in T PROVE q + 1 \in T
  <2>1. q \in 0..p - 1 /\ q + 1 \in 0..p /\ Sum(h, b * q) = Sum(k, q)
    BY <1>4
  <2>2. Sum(k, q + 1) = Sum(k, q) + k[q]
    BY <1>2, <2>1, SumSteps
  <2>3. Sum(h, b * (q + 1)) = Sum(h, b * q) + k[q]
    BY <1>2, <2>1
  <2> QED BY <2>1, <2>2, <2>3
<1>5. 0..p \subseteq T
  <2> HIDE DEF T
  <2> QED BY <1>3, <1>4, Induction
<1> QED BY <1>5 DEF k

----------------------------------------------------------------------------
(* The convolution.                                                         *)

\* What a channel of a list of samples has at n, with silence before and after.
Past(st, c, n) == IF n \in DOMAIN st THEN st[n][c] ELSE 0

\* The window that ends with the e-th sample.
WindowTo(st, c, e) == [i \in 0..2 * ConvBlock - 1 |-> Past(st, c, ((e - 2 * ConvBlock) + 1) + i)]

\* A block that is being written after the e-th sample, and has been as far as q.
Filled(st, c, e, q) ==
  [i \in 0..ConvBlock - 1 |->
     Past(st, c, IF i < q THEN (e + 1) + i ELSE ((e + 1) + i) - ConvBlock)]

\* What the response r says is to be heard at n through its channel s.
Reply(r, st, s, c, n) ==
  Sum([k \in 0..TapCount(r) - 1 |-> Sound(r.ir[s][k + 1]) * Past(st, c, n - k)], TapCount(r))

\* And through the kernel k made of it.
Answer(k, r, st, c, n) ==
  IF k = NoResponse \/ RouteOf(r, c) = Bypass THEN 0 ELSE Reply(r, st, RouteOf(r, c), c, n)

Stories == Seq([Channels -> Int])

LEMMA RequestIs ==
  ASSUME NEW r \in Requests
  PROVE  /\ \A c \in Channels : c \in Nat /\ c >= 1
         /\ r.mask \in Seq(STRING) /\ DOMAIN r.mask = Channels
         /\ Len(r.ir) \in Nat /\ Len(r.ir) >= 1 /\ DOMAIN r.ir = 1..Len(r.ir)
         /\ TapCount(r) \in Nat
         /\ \A s \in 1..Len(r.ir) : Len(r.ir[s]) = TapCount(r) /\ \A k \in 1..TapCount(r) : Sound(r.ir[s][k]) \in Int
<1>1. \A c \in Channels : c \in Nat /\ c >= 1
  <2> DEFINE q == CHOOSE q \in Requests : TRUE
             n == Len(q.mask)
  <2>1. q \in Requests
    OBVIOUS
  <2>2. Channels = 1..n
    BY DEF Channels
  <2>3. q.mask \in Seq(STRING)
    BY <2>1, ConvAssumption
  <2>4. n \in Nat
    BY <2>3, LenProperties
  <2> HIDE DEF n
  <2> QED BY <2>2, <2>4
<1>2. /\ r.mask \in Seq(STRING) /\ DOMAIN r.mask = Channels
      /\ r.ir \in Seq(Seq(Int \cup {NaN})) /\ r.ir # <<>>
      /\ \A s \in DOMAIN r.ir : Len(r.ir[s]) = Len(r.ir[1])
  BY ConvAssumption
<1> DEFINE ir == r.ir
           V == Int \cup {NaN}
<1>3. ir \in Seq(Seq(V)) /\ ir # <<>> /\ \A s \in DOMAIN ir : Len(ir[s]) = Len(ir[1])
  BY <1>2
<1>4. \A v \in V : Sound(v) \in Int
  BY DEF Sound, IsNumber
<1> HIDE DEF ir, V
<1>5. Len(ir) \in Nat /\ Len(ir) >= 1 /\ DOMAIN ir = 1..Len(ir)
  BY <1>3, LenProperties, EmptySeq
<1>6. \A s \in 1..Len(ir) : ir[s] \in Seq(V)
  BY <1>3, <1>5, ElementOfSeq
<1>7. Len(ir[1]) \in Nat
  BY <1>5, <1>6, LenProperties
<1>8. ASSUME NEW s \in 1..Len(ir), NEW k \in 1..Len(ir[1])
      PROVE  Sound(ir[s][k]) \in Int
  <2>1. ir[s] \in Seq(V) /\ k \in 1..Len(ir[s])
    BY <1>3, <1>5, <1>6
  <2>2. ir[s][k] \in V
    BY <2>1, ElementOfSeq
  <2> QED BY <1>4, <2>2
<1> QED BY <1>1, <1>2, <1>3, <1>5, <1>7, <1>8 DEF ir, TapCount

LEMMA TwoAtMost == ASSUME NEW n \in Nat, n >= 2 PROVE Min({2, n}) = 2
<1>1. Min({2, n}) = CHOOSE x \in {2, n} : \A y \in {2, n} : x <= y
  BY Zenon DEF Min
<1>2. ASSUME NEW x \in {2, n}, \A y \in {2, n} : x <= y PROVE x = 2
  BY <1>2
<1>3. \A y \in {2, n} : 2 <= y
  OBVIOUS
<1> QED BY <1>1, <1>2, <1>3

LEMMA RouteIs ==
  ASSUME NEW r \in Requests, NEW c \in Channels
  PROVE  RouteOf(r, c) \in 0..Len(r.ir)
<1> DEFINE n == Len(r.ir)
           lfe == c = Lfe(r)
           apart == r.convolveLfe
           mono == r.forceMono
<1>1. c \in Nat /\ c >= 1 /\ n \in Nat /\ n >= 1
  BY RequestIs
<1>2. n >= 2 => Min({2, n}) = 2
  BY <1>1, TwoAtMost
<1>3. RouteOf(r, c) =
        IF lfe /\ ~apart THEN 0
        ELSE IF mono \/ n = 1 THEN 1
        ELSE IF c <= n THEN c ELSE IF c % 2 = 1 THEN 1 ELSE Min({2, n})
  BY Zenon DEF RouteOf, Bypass
<1> HIDE DEF n, lfe, apart, mono
<1>4. RouteOf(r, c) \in 0..n
  BY <1>1, <1>2, <1>3
<1> QED BY <1>4 DEF n

\* The listener's account of which response is heard is the kernel's.
LEMMA SameResponse ==
  ASSUME request \in Requests, NEW c \in Channels
  PROVE  RouteOf(request, c) = HeardThrough(c)
<1> DEFINE r == request
           mask == r.mask
           I == {i \in 1..Len(mask) : mask[i] = "LFE"}
           n == Len(r.ir)
<1>1. /\ c \in Nat /\ c >= 1 /\ mask \in Seq(STRING) /\ DOMAIN mask = Channels
      /\ n \in Nat /\ n >= 1
  BY RequestIs
<1>2. \A e, d \in Channels : mask[e] = "LFE" /\ mask[d] = "LFE" => e = d
  BY ConvAssumption
<1>3. 1..Len(mask) = Channels
  BY <1>1
<1>4. Lfe(r) = IF I # {} THEN Min(I) ELSE 0
  BY Zenon DEF Lfe, SelectInSeq
<1>5. c = Lfe(r) <=> mask[c] = "LFE"
  <2>1. CASE I = {}
    <3>1. mask[c] # "LFE" /\ c # 0
      BY <1>1, <1>3, <2>1
    <3> QED BY <1>4, <2>1, <3>1
  <2>2. CASE I # {}
    <3>1. PICK i \in I : TRUE
      BY <2>2
    <3>2. I = {i} /\ i \in Channels /\ i \in Int
      BY <1>2, <1>3, <3>1
    <3>3. Min(I) = i
      <4>1. Min({i}) = CHOOSE x \in {i} : \A y \in {i} : x <= y
        BY Zenon DEF Min
      <4>2. i <= i
        BY <3>2
      <4> QED BY <3>2, <4>1, <4>2
    <3>4. c = i <=> mask[c] = "LFE"
      BY <1>2, <1>3, <3>1
    <3> QED BY <1>4, <2>2, <3>3, <3>4
  <2> QED BY <2>1, <2>2
<1>6. n >= 2 => Min({2, n}) = 2
  BY <1>1, TwoAtMost
<1> DEFINE lfe == c = Lfe(request)
           apart == request.convolveLfe
           mono == request.forceMono
<1>7. RouteOf(request, c) =
        IF lfe /\ ~apart THEN 0
        ELSE IF mono \/ n = 1 THEN 1
        ELSE IF c <= n THEN c ELSE IF c % 2 = 1 THEN 1 ELSE Min({2, n})
  BY Zenon DEF RouteOf, Bypass
<1>8. HeardThrough(c) =
        IF lfe /\ ~apart THEN 0
        ELSE IF mono THEN 1
        ELSE IF c <= n THEN c ELSE IF c % 2 = 1 \/ n = 1 THEN 1 ELSE 2
  BY <1>5, Zenon DEF HeardThrough
<1> HIDE DEF n, lfe, apart, mono
<1> QED BY <1>1, <1>6, <1>7, <1>8

LEMMA PastIs ==
  ASSUME NEW st \in Stories, NEW c \in Channels
  PROVE  /\ Len(st) \in Nat /\ \A n \in Int : Past(st, c, n) \in Int
         /\ \A n \in Int : n <= 0 \/ n > Len(st) => Past(st, c, n) = 0
<1>1. Len(st) \in Nat /\ DOMAIN st = 1..Len(st) /\ \A n \in 1..Len(st) : st[n] \in [Channels -> Int]
  BY LenProperties, ElementOfSeq DEF Stories
<1> QED BY <1>1 DEF Past

LEMMA StoryGrows ==
  ASSUME NEW st \in Stories, NEW x \in [Channels -> Int]
  PROVE  Append(st, x) \in Stories /\ Len(Append(st, x)) = Len(st) + 1
BY AppendProperties DEF Stories

LEMMA PastKept ==
  ASSUME NEW st \in Stories, NEW x \in [Channels -> Int], NEW c \in Channels
  PROVE  /\ Append(st, x) \in Stories /\ Len(Append(st, x)) = Len(st) + 1
         /\ \A n \in Int : n <= Len(st) => Past(Append(st, x), c, n) = Past(st, c, n)
         /\ Past(Append(st, x), c, Len(st) + 1) = x[c]
<1>1. /\ Len(st) \in Nat /\ DOMAIN st = 1..Len(st)
      /\ Append(st, x) \in Stories /\ Len(Append(st, x)) = Len(st) + 1
      /\ DOMAIN Append(st, x) = 1..(Len(st) + 1)
      /\ Append(st, x)[Len(st) + 1] = x /\ \A n \in 1..Len(st) : Append(st, x)[n] = st[n]
  BY AppendProperties, LenProperties DEF Stories
<1> QED BY <1>1 DEF Past

LEMMA AnswerKept ==
  ASSUME NEW st \in Stories, NEW x \in [Channels -> Int], NEW c \in Channels,
         NEW n \in Int, n <= Len(st), NEW k, NEW r \in Requests
  PROVE  Answer(k, r, Append(st, x), c, n) = Answer(k, r, st, c, n)
<1> DEFINE s == RouteOf(r, c)
           T == TapCount(r)
           f == [j \in 0..T - 1 |-> Sound(r.ir[s][j + 1]) * Past(Append(st, x), c, n - j)]
           g == [j \in 0..T - 1 |-> Sound(r.ir[s][j + 1]) * Past(st, c, n - j)]
<1>1. T \in Nat /\ Len(st) \in Nat
  BY RequestIs, PastIs
<1> HIDE DEF T
<1>2. \A j \in 0..T - 1 : Past(Append(st, x), c, n - j) = Past(st, c, n - j)
  <2> TAKE j \in 0..T - 1
  <2>1. n - j \in Int /\ n - j <= Len(st)
    BY <1>1
  <2> QED BY <2>1, PastKept
<1>3. \A j \in 0..T - 1 : f[j] = g[j]
  BY <1>2
<1>4. Sum(f, T) = Sum(g, T)
  <2> HIDE DEF f, g
  <2> QED BY <1>3, SumSame
<1> QED BY <1>4 DEF Answer, Reply, T

\* The sums that the code and the property make.
LEMMA ProductIs ==
  ASSUME NEW window, NEW part, NEW i \in 0..ConvBlock - 1
  PROVE  Product(window, part)[i] =
           Sum([j \in 0..ConvBlock - 1 |-> part[j] * window[(ConvBlock + i - j) % (2 * ConvBlock)]], ConvBlock)
<1> DEFINE term(j) == part[j] * window[(ConvBlock + i - j) % (2 * ConvBlock)]
           h == [j \in 0..ConvBlock - 1 |-> term(j)]
           Is(f) == f = [s \in SUBSET (0..ConvBlock - 1) |->
                           IF s = {} THEN 0
                           ELSE term(CHOOSE x \in s : TRUE) + f[s \ {CHOOSE x \in s : TRUE}]]
<1>1. Product(window, part)[i] = (CHOOSE f : Is(f))[0..ConvBlock - 1]
  BY Zenon DEF Product, MapThenSumSet, MapThenFoldSet
<1>2. \A s \in SUBSET (0..ConvBlock - 1) : s # {} =>
        h[CHOOSE x \in s : TRUE] = term(CHOOSE x \in s : TRUE)
  <2> HIDE DEF term
  <2> QED OBVIOUS
<1>3. h = [j \in 0..ConvBlock - 1 |-> part[j] * window[(ConvBlock + i - j) % (2 * ConvBlock)]]
  OBVIOUS
<1> HIDE DEF h, term
<1>4. \A f : Is(f) <=> IsFold(f, h, ConvBlock)
  BY <1>2 DEF IsFold
<1>5. (CHOOSE f : Is(f)) = (CHOOSE f : IsFold(f, h, ConvBlock))
  <2> HIDE DEF Is
  <2> QED BY <1>4, Zenon
<1>6. Sum(h, ConvBlock) = (CHOOSE f : IsFold(f, h, ConvBlock))[0..ConvBlock - 1]
  BY Zenon DEF Sum
<1> QED BY <1>1, <1>3, <1>5, <1>6, Zenon

SumOfProducts(k, lines, youngest, c, i) ==
  Sum([p \in 0..k.partitions - 1 |->
         Product(lines[c][Slot(youngest, p)], k.spec[k.route[c]][p])[i]], k.partitions)

LEMMA AccumulatedIs ==
  ASSUME NEW k, NEW lines, NEW youngest, NEW c, NEW i \in 0..ConvBlock - 1
  PROVE  Accumulated(k, lines, youngest, c)[i] = SumOfProducts(k, lines, youngest, c, i)
<1> DEFINE term(p) == Product(lines[c][Slot(youngest, p)], k.spec[k.route[c]][p])[i]
           n == k.partitions
           h == [p \in 0..n - 1 |-> term(p)]
           Is(f) == f = [s \in SUBSET (0..n - 1) |->
                           IF s = {} THEN 0
                           ELSE term(CHOOSE x \in s : TRUE) + f[s \ {CHOOSE x \in s : TRUE}]]
<1>1. Accumulated(k, lines, youngest, c)[i] = (CHOOSE f : Is(f))[0..n - 1]
  BY Zenon DEF Accumulated, MapThenSumSet, MapThenFoldSet
<1>2. \A s \in SUBSET (0..n - 1) : s # {} => h[CHOOSE x \in s : TRUE] = term(CHOOSE x \in s : TRUE)
  <2> HIDE DEF term, n
  <2> QED OBVIOUS
<1>3. h = [p \in 0..k.partitions - 1 |->
             Product(lines[c][Slot(youngest, p)], k.spec[k.route[c]][p])[i]]
  OBVIOUS
<1> HIDE DEF h, term
<1>4. \A f : Is(f) <=> IsFold(f, h, n)
  <2> HIDE DEF n
  <2> QED BY <1>2 DEF IsFold
<1>5. (CHOOSE f : Is(f)) = (CHOOSE f : IsFold(f, h, n))
  <2> HIDE DEF Is
  <2> QED BY <1>4, Zenon
<1>6. Sum(h, n) = (CHOOSE f : IsFold(f, h, n))[0..n - 1]
  BY Zenon DEF Sum
<1> QED BY <1>1, <1>3, <1>5, <1>6, Zenon DEF SumOfProducts

\* ConvolvesExactly, with the sum as Sum makes it.
WetIsReply ==
  LET n == Len(story) - ConvBlock IN
  \A c \in Channels :
    /\ dry[c] = Past(story, c, n)
    /\ kernel # NoResponse /\ pos # 0 =>
         wet[c] = IF HeardThrough(c) = 0 THEN 0 ELSE Reply(request, story, HeardThrough(c), c, n)

LEMMA ReplyIs ==
  ASSUME NEW s, NEW c, NEW n
  PROVE  MapThenSumSet(LAMBDA k : Sound(request.ir[s][k + 1]) * Played(c, n - k),
                       0..TapCount(request) - 1) = Reply(request, story, s, c, n)
<1> DEFINE term(k) == Sound(request.ir[s][k + 1]) * Played(c, n - k)
           T == TapCount(request)
           h == [k \in 0..T - 1 |-> term(k)]
           Is(f) == f = [S \in SUBSET (0..T - 1) |->
                           IF S = {} THEN 0
                           ELSE term(CHOOSE x \in S : TRUE) + f[S \ {CHOOSE x \in S : TRUE}]]
<1>1. MapThenSumSet(LAMBDA k : Sound(request.ir[s][k + 1]) * Played(c, n - k), 0..T - 1)
        = (CHOOSE f : Is(f))[0..T - 1]
  BY Zenon DEF MapThenSumSet, MapThenFoldSet
<1>2. \A S \in SUBSET (0..T - 1) : S # {} => h[CHOOSE x \in S : TRUE] = term(CHOOSE x \in S : TRUE)
  <2> HIDE DEF term, T
  <2> QED OBVIOUS
<1>3. h = [k \in 0..T - 1 |-> Sound(request.ir[s][k + 1]) * Past(story, c, n - k)]
  BY DEF Past, Played
<1> HIDE DEF h, term
<1>4. \A f : Is(f) <=> IsFold(f, h, T)
  <2> HIDE DEF T
  <2> QED BY <1>2 DEF IsFold
<1>5. (CHOOSE f : Is(f)) = (CHOOSE f : IsFold(f, h, T))
  <2> HIDE DEF Is
  <2> QED BY <1>4, Zenon
<1>6. Sum(h, T) = (CHOOSE f : IsFold(f, h, T))[0..T - 1]
  BY Zenon DEF Sum
<1> QED BY <1>1, <1>3, <1>5, <1>6, Zenon DEF Reply

LEMMA WetIsConvolved == WetIsReply => ConvolvesExactly
<1> SUFFICES ASSUME WetIsReply PROVE ConvolvesExactly
  OBVIOUS
<1> DEFINE n == Len(story) - ConvBlock
<1>1. ASSUME NEW c \in Channels
      PROVE  /\ dry[c] = Played(c, n)
             /\ kernel # NoResponse /\ pos # 0 =>
                  wet[c] = IF HeardThrough(c) = 0 THEN 0
                           ELSE MapThenSumSet(LAMBDA k : Sound(request.ir[HeardThrough(c)][k + 1]) * Played(c, n - k),
                                              0..TapCount(request) - 1)
  <2>1. Past(story, c, n) = Played(c, n)
    BY Zenon DEF Past, Played
  <2>2. MapThenSumSet(LAMBDA k : Sound(request.ir[HeardThrough(c)][k + 1]) * Played(c, n - k),
                      0..TapCount(request) - 1) = Reply(request, story, HeardThrough(c), c, n)
    BY ReplyIs
  <2>3. /\ dry[c] = Past(story, c, n)
        /\ kernel # NoResponse /\ pos # 0 =>
             wet[c] = IF HeardThrough(c) = 0 THEN 0 ELSE Reply(request, story, HeardThrough(c), c, n)
    BY Zenon DEF WetIsReply
  <2> QED BY <2>1, <2>2, <2>3, Zenon
<1> QED BY <1>1, Zenon DEF ConvolvesExactly

\* The partitions of a kernel hold all the response.
LEMMA PartitionsCover ==
  ASSUME NEW r \in Requests, BuiltKernel(r) # NoResponse
  PROVE  /\ PartitionsOf(r) \in 1..Depth
         /\ BuiltKernel(r) =
              [route |-> [c \in Channels |-> RouteOf(r, c)], partitions |-> PartitionsOf(r),
               spec |-> [s \in DOMAIN r.ir |-> [p \in 0..PartitionsOf(r) - 1 |-> Partition(r.ir[s], p)]]]
         /\ ConvBlock * PartitionsOf(r) \in Nat /\ TapCount(r) <= ConvBlock * PartitionsOf(r)
<1>1. PartitionsOf(r) \in 1..Depth
      /\ BuiltKernel(r) =
              [route |-> [c \in Channels |-> RouteOf(r, c)], partitions |-> PartitionsOf(r),
               spec |-> [s \in DOMAIN r.ir |-> [p \in 0..PartitionsOf(r) - 1 |-> Partition(r.ir[s], p)]]]
  BY Zenon DEF BuiltKernel
<1> DEFINE T == TapCount(r)
           b == ConvBlock
           n == T + b - 1
           q == n \div b
           t == n % b
<1>2. T \in Nat /\ b \in Nat \ {0} /\ Depth \in Nat
  BY RequestIs, ConvAssumption
<1>3. PartitionsOf(r) = q
  BY Zenon DEF PartitionsOf
<1> HIDE DEF T, b
<1>4. n \in Nat /\ n = T + b - 1
  BY <1>2
<1> HIDE DEF n
<1>5. q \in Int /\ t \in 0..(b - 1) /\ n = b * q + t
  BY <1>2, <1>4
<1> HIDE DEF q, t
<1>6. b * q \in Int /\ T <= b * q
  BY <1>2, <1>4, <1>5
<1> QED BY <1>1, <1>2, <1>3, <1>6 DEF T, b

\* What the partitions make of the windows at place i of a block that ends with the
\* e-th sample.
BlockTerms(f, r, st, c, s, e, i) ==
  \A p \in 0..PartitionsOf(r) - 1 :
    f[p] = Product(WindowTo(st, c, e - ConvBlock * p), Partition(r.ir[s], p))[i]

\* A block of the response's convolution is the products of the partitions with the
\* windows, each a block older than the one before.
LEMMA BlockIs ==
  ASSUME NEW r \in Requests, BuiltKernel(r) # NoResponse, NEW st \in Stories, NEW c \in Channels,
         NEW s \in 1..Len(r.ir), NEW e \in Int, NEW i \in 0..ConvBlock - 1, NEW f,
         BlockTerms(f, r, st, c, s, e, i)
  PROVE  Sum(f, PartitionsOf(r)) = Reply(r, st, s, c, ((e - ConvBlock) + 1) + i)
<1> DEFINE b == ConvBlock
           P == PartitionsOf(r)
           T == TapCount(r)
           n == ((e - b) + 1) + i
           tap == [k \in 0..T - 1 |-> Sound(r.ir[s][k + 1])]
           h == [k \in 0..b * P - 1 |-> IF k < T THEN tap[k] * Past(st, c, n - k) ELSE 0]
           g == [k \in 0..T - 1 |-> Sound(r.ir[s][k + 1]) * Past(st, c, n - k)]
<1>1. /\ b \in Nat \ {0} /\ P \in Nat /\ P >= 1 /\ T \in Nat /\ b * P \in Nat /\ T <= b * P
      /\ n \in Int /\ i \in 0..b - 1
  BY RequestIs, ConvAssumption, PartitionsCover
<1>2. \A k \in 0..T - 1 : tap[k] \in Int /\ tap[k] = Sound(r.ir[s][k + 1])
  <2> TAKE k \in 0..T - 1
  <2>1. k + 1 \in 1..T
    BY <1>1
  <2> QED BY <2>1, RequestIs
<1>3. \A m \in Int : Past(st, c, m) \in Int
  BY PastIs
<1>4. /\ \A k \in 0..b * P - 1 : h[k] = IF k < T THEN tap[k] * Past(st, c, n - k) ELSE 0
      /\ \A k \in 0..T - 1 : g[k] = Sound(r.ir[s][k + 1]) * Past(st, c, n - k)
  OBVIOUS
<1>5. Reply(r, st, s, c, n) = Sum(g, T)
  BY Zenon DEF Reply
<1> HIDE DEF h, g, tap, n
<1> HIDE DEF T, P
<1>6. \A k \in 0..b * P - 1 : h[k] \in Int
  <2> TAKE k \in 0..b * P - 1
  <2>1. k \in Nat /\ n - k \in Int /\ T \in Nat
    BY <1>1
  <2>2. CASE k < T
    <3>0. k \in 0..T - 1
      BY <2>1, <2>2
    <3>1. tap[k] \in Int /\ Past(st, c, n - k) \in Int
      BY <1>2, <1>3, <2>1, <3>0
    <3>2. tap[k] * Past(st, c, n - k) \in Int
      BY <3>1
    <3> QED BY <1>4, <2>2, <3>2
  <2>3. CASE ~(k < T)
    BY <1>4, <2>3
  <2> QED BY <2>2, <2>3
<1>7. Sum(h, b * P) = Sum(g, T)
  <2> DEFINE N == b * P
  <2>1. N \in Nat /\ T \in 0..N /\ \A k \in 0..N - 1 : h[k] \in Int
    BY <1>1, <1>6
  <2>2. \A k \in 0..N - 1 : h[k] = IF k < T THEN tap[k] * Past(st, c, n - k) ELSE 0
    BY <1>4
  <2> HIDE DEF N
  <2>3. \A k \in T..N - 1 : h[k] = 0
    BY <1>1, <2>1, <2>2
  <2>4. Sum(h, N) = Sum(h, T)
    BY <2>1, <2>3, SumPadded
  <2>5. ASSUME NEW k \in 0..T - 1 PROVE h[k] = g[k]
    <3>1. k \in 0..N - 1 /\ k < T
      BY <1>1, <2>1
    <3>2. h[k] = tap[k] * Past(st, c, n - k) /\ tap[k] = Sound(r.ir[s][k + 1])
      BY <1>2, <2>2, <3>1
    <3> QED BY <1>4, <3>2
  <2>6. Sum(h, T) = Sum(g, T)
    BY <2>5, SumSame
  <2> QED BY <2>4, <2>6 DEF N
<1>8. Sum(h, b * P) = Sum(Blocks(h, b, P), P)
  BY <1>1, <1>6, SumOfBlocks
<1>9. ASSUME NEW p \in 0..P - 1
      PROVE  Blocks(h, b, P)[p] = f[p]
  <2> DEFINE u == [j \in 0..b - 1 |-> h[b * p + j]]
             part == Partition(r.ir[s], p)
             window == WindowTo(st, c, e - b * p)
             v == [j \in 0..b - 1 |-> part[j] * window[(b + i - j) % (2 * b)]]
  <2>1. Blocks(h, b, P)[p] = Sum(u, b)
    BY DEF Blocks
  <2>2. f[p] = Sum(v, b)
    BY ProductIs DEF P, BlockTerms
  <2> DEFINE m == b * p
  <2>3. m \in Nat /\ m + b <= b * P /\ p \in Nat /\ p * b = m
    <3>1. p \in Nat /\ p + 1 <= P /\ P - (p + 1) \in Nat
      BY <1>1
    <3> DEFINE d == P - (p + 1)
    <3>2. d \in Nat /\ P = (p + 1) + d
      BY <1>1, <3>1
    <3> HIDE DEF d
    <3>3. b * P = (m + b) + b * d /\ b * d \in Nat /\ m \in Nat /\ p * b = m
      BY <1>1, <3>1, <3>2
    <3> DEFINE x == b * d
               N == b * P
    <3>4. N = (m + b) + x /\ x \in Nat /\ N \in Nat
      BY <1>1, <3>3
    <3> HIDE DEF m, x, N
    <3>5. m + b <= N
      BY <1>1, <3>3, <3>4
    <3> QED BY <3>1, <3>3, <3>5 DEF N
  <2>4. ASSUME NEW j \in 0..b - 1
        PROVE  u[j] = v[j]
    <3>1. /\ j \in Nat /\ m + j \in 0..b * P - 1 /\ j < b
          /\ (b + i) - j \in 1..2 * b - 1 /\ (b + i) - j \in 0..2 * b - 1 /\ 2 * b \in Nat \ {0}
      BY <1>1, <2>3
    <3>2. ((b + i) - j) % (2 * b) = (b + i) - j
      <4> DEFINE x == (b + i) - j
                 B == 2 * b
      <4>1. x \in Nat /\ B \in Nat \ {0} /\ x = B * 0 + x /\ x \in 0..(B - 1)
        BY <3>1
      <4> HIDE DEF x, B
      <4>2. x % B = x
        BY <4>1, Remainder
      <4> QED BY <4>2 DEF x, B
    <3>3. window[(b + i) - j] = Past(st, c, n - (m + j))
      <4>1. window[(b + i) - j] = Past(st, c, (((e - m) - 2 * b) + 1) + ((b + i) - j))
        BY <3>1 DEF WindowTo
      <4>2. (((e - m) - 2 * b) + 1) + ((b + i) - j) = n - (m + j)
        BY <1>1, <2>3, <3>1 DEF n
      <4> QED BY <4>1, <4>2
    <3>4. part[j] = IF m + j < T THEN tap[m + j] ELSE 0
      <4>1. part[j] = IF p * b + j < Len(r.ir[s]) THEN Sound(r.ir[s][p * b + j + 1]) ELSE 0
        BY DEF Partition
      <4>2. Len(r.ir[s]) = T
        BY RequestIs DEF T
      <4>3. part[j] = IF m + j < T THEN Sound(r.ir[s][(m + j) + 1]) ELSE 0
        BY <2>3, <4>1, <4>2
      <4> DEFINE k == m + j
      <4>4. k \in Nat /\ part[j] = IF k < T THEN Sound(r.ir[s][k + 1]) ELSE 0
        BY <2>3, <3>1, <4>3
      <4> HIDE DEF k, part
      <4>5. k < T => tap[k] = Sound(r.ir[s][k + 1])
        BY <1>1, <1>2, <4>4
      <4>6. part[j] = IF k < T THEN tap[k] ELSE 0
        BY <4>4, <4>5
      <4> QED BY <4>6 DEF k
    <3>5. v[j] = part[j] * window[(b + i) - j]
      <4>1. v[j] = part[j] * window[(b + i - j) % (2 * b)]
        OBVIOUS
      <4>2. b + i - j = (b + i) - j
        BY <1>1, <3>1
      <4> HIDE DEF v, part, window
      <4> QED BY <3>2, <4>1, <4>2, Zenon
    <3>6. u[j] = h[m + j]
      OBVIOUS
    <3> DEFINE k == m + j
    <3>7. k \in 0..b * P - 1 /\ n - k \in Int /\ u[j] = h[k] /\ v[j] = part[j] * Past(st, c, n - k)
          /\ part[j] = IF k < T THEN tap[k] ELSE 0
      BY <1>1, <3>1, <3>3, <3>4, <3>5, <3>6
    <3> HIDE DEF k, u, v, part, window
    <3>8. Past(st, c, n - k) \in Int
      BY <1>3, <3>7
    <3>9. h[k] = IF k < T THEN tap[k] * Past(st, c, n - k) ELSE 0
      BY <1>4, <3>7
    <3> QED BY <3>7, <3>8, <3>9
  <2>5. Sum(u, b) = Sum(v, b)
    <3> HIDE DEF u, v, b
    <3> QED BY <2>4, SumSame
  <2> QED BY <2>1, <2>2, <2>5
<1>10. Sum(Blocks(h, b, P), P) = Sum(f, P)
  BY <1>9, SumSame
<1> QED BY <1>5, <1>7, <1>8, <1>10 DEF n, P, b

\* How many blocks ago a slot was written when the youngest is y.
BlocksAgo(y, s) == IF s >= y THEN s - y ELSE (s - y) + Depth

\* The last sample of the last tick.
LastTick == Len(story) - pos

ConvTypes ==
  /\ pos \in 0..ConvBlock - 1 /\ slotIndex \in 0..Depth - 1
  /\ story \in Stories /\ request \in Requests
  /\ kernel = NoResponse \/ kernel = BuiltKernel(request)

\* What is stored is the past, each part of it as old as its place says.
StoredIsPast ==
  /\ inAccum = [c \in Channels |-> Filled(story, c, LastTick, pos)]
  /\ dryDelay = [c \in Channels |-> Filled(story, c, LastTick, pos)]
  /\ win = [c \in Channels |-> WindowTo(story, c, LastTick)]
  /\ fdl = [c \in Channels |-> [s \in 0..Depth - 1 |->
              WindowTo(story, c, LastTick - ConvBlock * BlocksAgo(slotIndex, s))]]

\* What has been made of it is the answer of the kernel that is installed.
MadeIsAnswer ==
  /\ outBuf = [c \in Channels |-> [i \in 0..ConvBlock - 1 |->
                 Answer(kernel, request, story, c, ((LastTick - ConvBlock) + 1) + i)]]
  /\ dry = [c \in Channels |-> Past(story, c, Len(story) - ConvBlock)]
  /\ kernel # NoResponse /\ pos # 0 =>
       wet = [c \in Channels |-> Answer(kernel, request, story, c, Len(story) - ConvBlock)]

ConvInv == ConvTypes /\ StoredIsPast /\ MadeIsAnswer

LEMMA AnsweredIsReplied == ConvInv => WetIsReply
<1> SUFFICES ASSUME ConvInv PROVE WetIsReply
  OBVIOUS
<1> DEFINE n == Len(story) - ConvBlock
<1>1. ASSUME NEW c \in Channels
      PROVE  /\ dry[c] = Past(story, c, n)
             /\ kernel # NoResponse /\ pos # 0 =>
                  wet[c] = IF HeardThrough(c) = 0 THEN 0 ELSE Reply(request, story, HeardThrough(c), c, n)
  <2>1. RouteOf(request, c) = HeardThrough(c)
    BY SameResponse DEF ConvInv, ConvTypes
  <2>2. dry[c] = Past(story, c, n)
    BY DEF ConvInv, MadeIsAnswer
  <2>3. kernel # NoResponse /\ pos # 0 => wet[c] = Answer(kernel, request, story, c, n)
    BY DEF ConvInv, MadeIsAnswer
  <2> QED BY <2>1, <2>2, <2>3, Zenon DEF Answer, Bypass
<1> QED BY <1>1, Zenon DEF WetIsReply

LEMMA BlockSize == ConvBlock \in Nat /\ ConvBlock >= 1 /\ Depth \in Nat /\ Depth >= 1
BY ConvAssumption

LEMMA ConvStarts == ConvInit => ConvInv
<1> SUFFICES ASSUME ConvInit PROVE ConvInv
  OBVIOUS
<1>1. /\ pos = 0 /\ slotIndex = 0 /\ story = <<>> /\ request \in Requests /\ kernel = NoResponse
      /\ inAccum = [c \in Channels |-> Zeros(ConvBlock)]
      /\ dryDelay = [c \in Channels |-> Zeros(ConvBlock)]
      /\ outBuf = [c \in Channels |-> Zeros(ConvBlock)]
      /\ win = [c \in Channels |-> Zeros(2 * ConvBlock)]
      /\ fdl = [c \in Channels |-> [s \in 0..Depth - 1 |-> Zeros(2 * ConvBlock)]]
      /\ dry = [c \in Channels |-> 0]
  BY Zenon DEF ConvInit
<1>2. <<>> \in Stories /\ DOMAIN <<>> = {} /\ Len(<<>>) = 0
  BY EmptySeq DEF Stories
<1>3. \A c, n : Past(<<>>, c, n) = 0
  BY <1>2 DEF Past
<1>4. \A c, e, q : Filled(<<>>, c, e, q) = Zeros(ConvBlock)
  BY <1>3 DEF Filled, Zeros
<1>5. \A c, e : WindowTo(<<>>, c, e) = Zeros(2 * ConvBlock)
  BY <1>3 DEF WindowTo, Zeros
<1>6. ConvTypes
  BY <1>1, <1>2, BlockSize DEF ConvTypes
<1>7. StoredIsPast
  BY <1>1, <1>4, <1>5, Zenon DEF StoredIsPast
<1>8. \A r, c, n : Answer(NoResponse, r, <<>>, c, n) = 0
  BY Zenon DEF Answer
<1>9. MadeIsAnswer
  BY <1>1, <1>3, <1>8, Zenon DEF MadeIsAnswer, Zeros
<1> QED BY <1>6, <1>7, <1>9 DEF ConvInv

LEMMA ConvFrame == ConvInv /\ UNCHANGED convVars => ConvInv'
<1> SUFFICES ASSUME ConvInv, UNCHANGED convVars PROVE ConvInv'
  OBVIOUS
<1>1. /\ kernel' = kernel /\ request' = request /\ inAccum' = inAccum /\ dryDelay' = dryDelay
      /\ outBuf' = outBuf /\ win' = win /\ fdl' = fdl /\ pos' = pos /\ slotIndex' = slotIndex
      /\ dry' = dry /\ wet' = wet /\ story' = story
  BY DEF convVars
<1> QED BY <1>1, Zenon DEF ConvInv, ConvTypes, StoredIsPast, MadeIsAnswer, LastTick

\* One sample more in a block.
LEMMA FilledNext ==
  ASSUME NEW st \in Stories, NEW x \in [Channels -> Int], NEW c \in Channels,
         NEW q \in 0..ConvBlock - 1, NEW e \in Int, Len(st) = e + q
  PROVE  [Filled(st, c, e, q) EXCEPT ![q] = x[c]] = Filled(Append(st, x), c, e, q + 1)
<1> DEFINE b == ConvBlock
           at(i, p) == IF i < p THEN (e + 1) + i ELSE ((e + 1) + i) - b
<1>1. b \in Nat /\ Len(st) \in Nat /\ q \in Nat
  BY BlockSize, PastIs
<1>2. ASSUME NEW i \in 0..b - 1, i # q
      PROVE  Past(Append(st, x), c, at(i, q + 1)) = Past(st, c, at(i, q))
  <2>1. at(i, q + 1) = at(i, q) /\ at(i, q) \in Int /\ at(i, q) <= Len(st)
    BY <1>1, <1>2
  <2> HIDE DEF at
  <2> QED BY <2>1, PastKept
<1>3. Past(Append(st, x), c, at(q, q + 1)) = x[c]
  <2>1. at(q, q + 1) = Len(st) + 1
    BY <1>1
  <2> HIDE DEF at
  <2> QED BY <2>1, PastKept
<1>4. /\ Filled(st, c, e, q) = [i \in 0..b - 1 |-> Past(st, c, at(i, q))]
      /\ Filled(Append(st, x), c, e, q + 1) = [i \in 0..b - 1 |-> Past(Append(st, x), c, at(i, q + 1))]
  BY Zenon DEF Filled
<1> HIDE DEF at, b
<1> QED BY <1>2, <1>3, <1>4 DEF b

\* A whole block is one that is about to be overwritten.
LEMMA FilledTurn ==
  ASSUME NEW st, NEW c, NEW e \in Int
  PROVE  Filled(st, c, e, ConvBlock) = Filled(st, c, e + ConvBlock, 0)
<1>1. \A i \in 0..ConvBlock - 1 :
        (IF i < ConvBlock THEN (e + 1) + i ELSE ((e + 1) + i) - ConvBlock)
          = IF i < 0 THEN ((e + ConvBlock) + 1) + i ELSE (((e + ConvBlock) + 1) + i) - ConvBlock
  BY BlockSize
<1> QED BY <1>1 DEF Filled

LEMMA WindowKept ==
  ASSUME NEW st \in Stories, NEW x \in [Channels -> Int], NEW c \in Channels,
         NEW e \in Int, e <= Len(st)
  PROVE  WindowTo(Append(st, x), c, e) = WindowTo(st, c, e)
<1>1. ASSUME NEW i \in 0..2 * ConvBlock - 1
      PROVE  Past(Append(st, x), c, ((e - 2 * ConvBlock) + 1) + i) = Past(st, c, ((e - 2 * ConvBlock) + 1) + i)
  <2> DEFINE n == ((e - 2 * ConvBlock) + 1) + i
  <2>1. n \in Int /\ n <= Len(st)
    BY BlockSize, PastIs
  <2> HIDE DEF n
  <2>2. Past(Append(st, x), c, n) = Past(st, c, n)
    BY <2>1, PastKept
  <2> QED BY <2>2 DEF n
<1> QED BY <1>1 DEF WindowTo

\* The window slides by a block.
LEMMA WindowSlides ==
  ASSUME NEW st, NEW c, NEW e \in Int
  PROVE  [i \in 0..2 * ConvBlock - 1 |->
            IF i < ConvBlock THEN WindowTo(st, c, e)[i + ConvBlock]
            ELSE Filled(st, c, e, ConvBlock)[i - ConvBlock]] = WindowTo(st, c, e + ConvBlock)
<1> DEFINE b == ConvBlock
<1>1. b \in Nat /\ b >= 1
  BY BlockSize
<1>2. ASSUME NEW i \in 0..2 * b - 1
      PROVE  (IF i < b THEN WindowTo(st, c, e)[i + b] ELSE Filled(st, c, e, b)[i - b])
               = Past(st, c, (((e + b) - 2 * b) + 1) + i)
  <2>1. CASE i < b
    <3>1. i + b \in 0..2 * b - 1 /\ ((e - 2 * b) + 1) + (i + b) = (((e + b) - 2 * b) + 1) + i
      BY <1>1, <2>1
    <3>2. WindowTo(st, c, e)[i + b] = Past(st, c, ((e - 2 * b) + 1) + (i + b))
      BY <3>1 DEF WindowTo
    <3> QED BY <2>1, <3>1, <3>2
  <2>2. CASE ~(i < b)
    <3>1. i - b \in 0..b - 1 /\ i - b < b /\ (e + 1) + (i - b) = (((e + b) - 2 * b) + 1) + i
      BY <1>1, <2>2
    <3>2. Filled(st, c, e, b)[i - b] = Past(st, c, (e + 1) + (i - b))
      BY <3>1 DEF Filled
    <3> QED BY <2>2, <3>1, <3>2
  <2> QED BY <2>1, <2>2
<1> QED BY <1>2 DEF WindowTo

\* The ring after a tick: the slot before the youngest becomes the youngest, and every
\* other is a block older.
LEMMA SlotsAge ==
  ASSUME NEW y \in 0..Depth - 1
  PROVE  LET z == (y + Depth - 1) % Depth IN
         /\ z \in 0..Depth - 1 /\ BlocksAgo(z, z) = 0
         /\ \A s \in 0..Depth - 1 : /\ BlocksAgo(y, s) \in 0..Depth - 1
                                    /\ s # z => BlocksAgo(z, s) = BlocksAgo(y, s) + 1
         /\ \A p \in 0..Depth - 1 : /\ Slot(z, p) \in 0..Depth - 1
                                    /\ BlocksAgo(z, Slot(z, p)) = p
<1> DEFINE z == (y + Depth - 1) % Depth
<1>1. Depth \in Nat /\ Depth >= 1 /\ y \in Nat
  BY BlockSize
<1>2. z = IF y = 0 THEN Depth - 1 ELSE y - 1
  <2> DEFINE x == y + Depth - 1
  <2>1. x \in 0..(2 * Depth - 1) /\ Depth \in Nat \ {0} /\ x = (y + Depth) - 1
    BY <1>1
  <2> HIDE DEF x
  <2>2. x % Depth = IF x < Depth THEN x ELSE x - Depth
    BY <2>1, OneTurn
  <2>3. x % Depth = IF y = 0 THEN Depth - 1 ELSE y - 1
    BY <1>1, <2>1, <2>2
  <2> QED BY <2>3 DEF x
<1> HIDE DEF z
<1>3. z \in 0..Depth - 1
  BY <1>1, <1>2
<1>4. BlocksAgo(z, z) = 0
  BY <1>1, <1>3 DEF BlocksAgo
<1>5. \A s \in 0..Depth - 1 : /\ BlocksAgo(y, s) \in 0..Depth - 1
                              /\ s # z => BlocksAgo(z, s) = BlocksAgo(y, s) + 1
  BY <1>1, <1>2 DEF BlocksAgo
<1>6. ASSUME NEW p \in 0..Depth - 1
      PROVE  Slot(z, p) \in 0..Depth - 1 /\ BlocksAgo(z, Slot(z, p)) = p
  <2> DEFINE x == z + p
  <2>1. x \in 0..(2 * Depth - 1) /\ Depth \in Nat \ {0}
    BY <1>1, <1>3
  <2> HIDE DEF x
  <2>2. x % Depth = IF x < Depth THEN x ELSE x - Depth
    BY <2>1, OneTurn
  <2>3. Slot(z, p) = IF z + p < Depth THEN z + p ELSE (z + p) - Depth
    BY <2>2 DEF x, Slot
  <2> QED BY <1>1, <1>3, <2>3 DEF BlocksAgo
<1> QED BY <1>3, <1>4, <1>5, <1>6 DEF z

LEMMA TickIs ==
  ASSUME slotIndex \in 0..Depth - 1, NEW st \in Stories, NEW e \in Int, NEW accum,
         accum = [c \in Channels |-> Filled(st, c, e, ConvBlock)],
         win = [c \in Channels |-> WindowTo(st, c, e)],
         fdl = [c \in Channels |-> [s \in 0..Depth - 1 |->
                  WindowTo(st, c, e - ConvBlock * BlocksAgo(slotIndex, s))]],
         NEW r \in Requests, NEW k, k = NoResponse \/ k = BuiltKernel(r), Ticked(k, accum)
  PROVE  /\ slotIndex' \in 0..Depth - 1
         /\ win' = [c \in Channels |-> WindowTo(st, c, e + ConvBlock)]
         /\ fdl' = [c \in Channels |-> [s \in 0..Depth - 1 |->
                      WindowTo(st, c, (e + ConvBlock) - ConvBlock * BlocksAgo(slotIndex', s))]]
         /\ outBuf' = [c \in Channels |-> [i \in 0..ConvBlock - 1 |->
                         Answer(k, r, st, c, (((e + ConvBlock) - ConvBlock) + 1) + i)]]
<1> DEFINE b == ConvBlock
           y == slotIndex
           z == (slotIndex + Depth - 1) % Depth
           slid == [c \in Channels |-> [i \in 0..2 * ConvBlock - 1 |->
                      IF i < ConvBlock THEN win[c][i + ConvBlock] ELSE accum[c][i - ConvBlock]]]
           lines == [c \in Channels |-> [fdl[c] EXCEPT ![z] = slid[c]]]
           g == e + b
<1>1. /\ slotIndex' = z /\ win' = slid /\ fdl' = lines
      /\ outBuf' = [c \in Channels |->
                      IF k = NoResponse THEN Zeros(ConvBlock)
                      ELSE IF k.route[c] = Bypass THEN Zeros(ConvBlock)
                      ELSE Accumulated(k, lines, z, c)]
  BY Zenon DEF Ticked
<1>2. b \in Nat /\ b >= 1 /\ g \in Int
  BY BlockSize
<1>3. /\ z \in 0..Depth - 1 /\ BlocksAgo(z, z) = 0
      /\ \A s \in 0..Depth - 1 : /\ BlocksAgo(y, s) \in 0..Depth - 1
                                 /\ s # z => BlocksAgo(z, s) = BlocksAgo(y, s) + 1
      /\ \A p \in 0..Depth - 1 : Slot(z, p) \in 0..Depth - 1 /\ BlocksAgo(z, Slot(z, p)) = p
  BY SlotsAge
<1> HIDE DEF z
<1>4. \A c \in Channels : slid[c] = WindowTo(st, c, g)
  <2> TAKE c \in Channels
  <2>1. win[c] = WindowTo(st, c, e) /\ accum[c] = Filled(st, c, e, ConvBlock)
    BY Zenon
  <2>2. slid[c] = [i \in 0..2 * ConvBlock - 1 |->
                     IF i < ConvBlock THEN WindowTo(st, c, e)[i + ConvBlock]
                     ELSE Filled(st, c, e, ConvBlock)[i - ConvBlock]]
    BY <2>1, Zenon
  <2> QED BY <2>2, WindowSlides
<1>5. win' = [c \in Channels |-> WindowTo(st, c, g)]
  <2>1. slid = [c \in Channels |-> slid[c]]
    OBVIOUS
  <2> HIDE DEF slid, g
  <2> QED BY <1>1, <1>4, <2>1, Zenon
<1> DEFINE Line(c) == [s \in 0..Depth - 1 |-> WindowTo(st, c, g - b * BlocksAgo(z, s))]
<1>6. ASSUME NEW c \in Channels
      PROVE  lines[c] = Line(c)
  <2> DEFINE old == [s \in 0..Depth - 1 |-> WindowTo(st, c, e - b * BlocksAgo(y, s))]
  <2>1. fdl[c] = old
    BY Zenon
  <2>2. lines[c] = [old EXCEPT ![z] = WindowTo(st, c, g)]
    BY <1>4, <2>1, Zenon
  <2>3. b * BlocksAgo(z, z) = 0 /\ g - 0 = g
    BY <1>2, <1>3
  <2>4. ASSUME NEW s \in 0..Depth - 1, s # z
        PROVE  e - b * BlocksAgo(y, s) = g - b * BlocksAgo(z, s)
    <3> DEFINE a == BlocksAgo(y, s)
    <3>1. BlocksAgo(z, s) = a + 1 /\ a \in Int
      BY <1>3, <2>4
    <3> HIDE DEF a
    <3>2. b * (a + 1) = b * a + b /\ b * a \in Int
      BY <1>2, <3>1
    <3>3. e - b * a = (e + b) - (b * a + b)
      BY <1>2, <3>2
    <3> QED BY <3>1, <3>2, <3>3 DEF a
  <2>5. \A s \in 0..Depth - 1 : s # z => old[s] = WindowTo(st, c, g - b * BlocksAgo(z, s))
    BY <2>4
  <2>6. DOMAIN old = 0..Depth - 1
    OBVIOUS
  <2>7. WindowTo(st, c, g - b * BlocksAgo(z, z)) = WindowTo(st, c, g)
    BY <2>3
  <2> HIDE DEF old, g, b
  <2>8. [old EXCEPT ![z] = WindowTo(st, c, g)] =
          [s \in 0..Depth - 1 |-> IF s = z THEN WindowTo(st, c, g) ELSE old[s]]
    BY <1>3, <2>6
  <2>9. [s \in 0..Depth - 1 |-> IF s = z THEN WindowTo(st, c, g) ELSE old[s]] = Line(c)
    BY <2>5, <2>7
  <2> QED BY <2>2, <2>8, <2>9
<1>7. fdl' = [c \in Channels |-> Line(c)]
  <2>1. lines = [c \in Channels |-> lines[c]]
    OBVIOUS
  <2> HIDE DEF lines, Line
  <2> QED BY <1>1, <1>6, <2>1, Zenon
<1> DEFINE made(c) == [i \in 0..b - 1 |-> Answer(k, r, st, c, ((g - b) + 1) + i)]
<1>8. ASSUME NEW c \in Channels
      PROVE  (IF k = NoResponse THEN Zeros(ConvBlock)
              ELSE IF k.route[c] = Bypass THEN Zeros(ConvBlock)
              ELSE Accumulated(k, lines, z, c)) = made(c)
  <2>1. CASE k = NoResponse
    BY <2>1, Zenon DEF Answer, Zeros
  <2>2. CASE k # NoResponse
    <3> DEFINE P == PartitionsOf(r)
               s == RouteOf(r, c)
    <3>1. k = BuiltKernel(r) /\ BuiltKernel(r) # NoResponse
      BY <2>2
    <3>2. /\ P \in 1..Depth
          /\ k = [route |-> [d \in Channels |-> RouteOf(r, d)], partitions |-> P,
               spec |-> [q \in DOMAIN r.ir |-> [p \in 0..P - 1 |-> Partition(r.ir[q], p)]]]
      BY <3>1, PartitionsCover
    <3>3. k.route[c] = s /\ k.partitions = P
      <4> HIDE DEF P
      <4> QED BY <3>2
    <3>4. k.spec = [q \in DOMAIN r.ir |-> [p \in 0..P - 1 |-> Partition(r.ir[q], p)]]
      <4> HIDE DEF P
      <4> QED BY <3>2
    <3>5. s \in 0..Len(r.ir) /\ DOMAIN r.ir = 1..Len(r.ir) /\ Len(r.ir) \in Nat
      BY RouteIs, RequestIs
    <3>6. CASE s = Bypass
      BY <2>2, <3>3, <3>6, Zenon DEF Answer, Zeros
    <3>7. CASE s # Bypass
      <4>1. s \in 1..Len(r.ir)
        <5> HIDE DEF s
        <5> QED BY <3>5, <3>7 DEF Bypass
      <4>2. \A p \in 0..P - 1 : k.spec[s][p] = Partition(r.ir[s], p)
        <5> HIDE DEF P, s
        <5> QED BY <3>4, <3>5, <4>1
      <4>3. ASSUME NEW i \in 0..b - 1
            PROVE  Accumulated(k, lines, z, c)[i] = Answer(k, r, st, c, ((g - b) + 1) + i)
        <5> DEFINE f == [p \in 0..P - 1 |->
                           Product(lines[c][Slot(z, p)], k.spec[k.route[c]][p])[i]]
        <5>1. Accumulated(k, lines, z, c)[i] = Sum(f, P)
          <6>1. Accumulated(k, lines, z, c)[i] = SumOfProducts(k, lines, z, c, i)
            <7>1. i \in 0..ConvBlock - 1
              OBVIOUS
            <7> HIDE DEF lines
            <7> QED BY <7>1, AccumulatedIs
          <6>2. SumOfProducts(k, lines, z, c, i) = Sum(f, P)
            <7> HIDE DEF lines, P
            <7> QED BY <3>3, Zenon DEF SumOfProducts
          <6> QED BY <6>1, <6>2, Zenon
        <5>2. ASSUME NEW p \in 0..P - 1
              PROVE  f[p] = Product(WindowTo(st, c, g - b * p), Partition(r.ir[s], p))[i]
          <6>1. p \in 0..Depth - 1
            <7> HIDE DEF P
            <7> QED BY <3>2, BlockSize
          <6>2. Slot(z, p) \in 0..Depth - 1 /\ BlocksAgo(z, Slot(z, p)) = p
            BY <1>3, <6>1
          <6>3. lines[c][Slot(z, p)] = WindowTo(st, c, g - b * p)
            <7>1. lines[c][Slot(z, p)] = WindowTo(st, c, g - b * BlocksAgo(z, Slot(z, p)))
              <8> HIDE DEF lines, g, b
              <8> QED BY <1>6, <6>2
            <7> HIDE DEF lines, g, b
            <7> QED BY <6>2, <7>1
          <6>4. k.spec[k.route[c]][p] = Partition(r.ir[s], p)
            BY <3>3, <4>2
          <6>5. f[p] = Product(lines[c][Slot(z, p)], k.spec[k.route[c]][p])[i]
            BY Zenon
          <6> HIDE DEF f, lines, g, b, P, s
          <6> QED BY <6>3, <6>4, <6>5
        <5>3. Sum(f, P) = Reply(r, st, s, c, ((g - b) + 1) + i)
          <6>1. i \in 0..ConvBlock - 1
            OBVIOUS
          <6> HIDE DEF f, g, s
          <6>2. BlockTerms(f, r, st, c, s, g, i)
            BY <5>2, Zenon DEF BlockTerms
          <6> QED BY <1>2, <3>1, <4>1, <6>1, <6>2, BlockIs
        <5>4. Answer(k, r, st, c, ((g - b) + 1) + i) = Reply(r, st, s, c, ((g - b) + 1) + i)
          BY <2>2, <3>7, Zenon DEF Answer
        <5> QED BY <5>1, <5>3, <5>4, Zenon
      <4>4. \E body : Accumulated(k, lines, z, c) = [i \in 0..b - 1 |-> body[i]]
        <5>1. DOMAIN Accumulated(k, lines, z, c) = 0..b - 1
              /\ Accumulated(k, lines, z, c) = [i \in 0..b - 1 |-> Accumulated(k, lines, z, c)[i]]
          BY Zenon DEF Accumulated
        <5> QED BY <5>1, Zenon
      <4>5. Accumulated(k, lines, z, c) = made(c)
        <5> DEFINE u == Accumulated(k, lines, z, c)
        <5>1. u = [i \in 0..b - 1 |-> u[i]]
          BY <4>4, Zenon
        <5> HIDE DEF u
        <5>2. \A i \in 0..b - 1 : u[i] = Answer(k, r, st, c, ((g - b) + 1) + i)
          BY <4>3 DEF u
        <5>3. u = made(c)
          <6> HIDE DEF g, b
          <6> QED BY <5>1, <5>2, Zenon
        <5> QED BY <5>3 DEF u
      <4> HIDE DEF lines, made
      <4> QED BY <2>2, <3>3, <3>7, <4>5, Zenon
    <3> QED BY <3>6, <3>7
  <2> QED BY <2>1, <2>2
<1>9. outBuf' = [c \in Channels |-> made(c)]
  <2> HIDE DEF lines, made
  <2> QED BY <1>1, <1>8, Zenon
<1>10. slotIndex' \in 0..Depth - 1
  BY <1>1, <1>3, Zenon
<1>11. win' = [c \in Channels |-> WindowTo(st, c, e + ConvBlock)]
  BY <1>5
<1>12. fdl' = [c \in Channels |-> [s \in 0..Depth - 1 |->
                 WindowTo(st, c, (e + ConvBlock) - ConvBlock * BlocksAgo(slotIndex', s))]]
  BY <1>1, <1>7, Zenon
<1>13. outBuf' = [c \in Channels |-> [i \in 0..ConvBlock - 1 |->
                    Answer(k, r, st, c, (((e + ConvBlock) - ConvBlock) + 1) + i)]]
  BY <1>9, Zenon
<1> QED BY <1>10, <1>11, <1>12, <1>13, Zenon

LEMMA SampleKeeps ==
  ASSUME ConvInv, NEW x \in ConvSamples, ConvSample(x)
  PROVE  ConvInv'
<1> DEFINE clean == [c \in Channels |-> Sound(x[c])]
           accum == [c \in Channels |-> [inAccum[c] EXCEPT ![pos] = clean[c]]]
           b == ConvBlock
           e == LastTick
           st == Append(story, clean)
<1>1. /\ inAccum' = accum
      /\ dry' = [c \in Channels |-> dryDelay[c][pos]]
      /\ dryDelay' = [c \in Channels |-> [dryDelay[c] EXCEPT ![pos] = clean[c]]]
      /\ wet' = [c \in Channels |-> IF kernel = NoResponse THEN 0 ELSE outBuf[c][pos]]
      /\ story' = st
      /\ pos' = (pos + 1) % ConvBlock
      /\ IF pos + 1 < ConvBlock
         THEN UNCHANGED <<kernel, request, win, fdl, slotIndex, outBuf, swaps>>
         ELSE \/ Ticked(kernel, accum) /\ UNCHANGED <<kernel, request, swaps>>
              \/ \E r \in Requests :
                   /\ BuiltKernel(r) # NoResponse /\ swaps < MaxSwaps /\ swaps' = swaps + 1
                   /\ kernel' = BuiltKernel(r) /\ request' = r
                   /\ Ticked(BuiltKernel(r), accum)
  BY Zenon DEF ConvSample
<1>2. /\ pos \in 0..b - 1 /\ slotIndex \in 0..Depth - 1
      /\ story \in Stories /\ request \in Requests
      /\ kernel = NoResponse \/ kernel = BuiltKernel(request)
  BY DEF ConvInv, ConvTypes
<1>3. /\ inAccum = [c \in Channels |-> Filled(story, c, e, pos)]
      /\ dryDelay = [c \in Channels |-> Filled(story, c, e, pos)]
      /\ win = [c \in Channels |-> WindowTo(story, c, e)]
      /\ fdl = [c \in Channels |-> [s \in 0..Depth - 1 |->
                  WindowTo(story, c, e - b * BlocksAgo(slotIndex, s))]]
  BY Zenon DEF ConvInv, StoredIsPast
<1>4. outBuf = [c \in Channels |-> [i \in 0..b - 1 |->
                  Answer(kernel, request, story, c, ((e - b) + 1) + i)]]
  BY Zenon DEF ConvInv, MadeIsAnswer
<1>5. b \in Nat /\ b >= 1 /\ Len(story) \in Nat /\ e \in Int /\ Len(story) = e + pos /\ pos \in Nat
  <2>1. b \in Nat /\ b >= 1 /\ Len(story) \in Nat
    BY <1>2, BlockSize DEF Stories
  <2> QED BY <1>2, <2>1 DEF LastTick
<1>6. clean \in [Channels -> Int]
  <2>1. \A c \in Channels : x[c] \in Int \cup {NaN}
    BY ConvAssumption
  <2> QED BY <2>1 DEF Sound, IsNumber
<1> HIDE DEF clean, e
<1>7. /\ st \in Stories /\ Len(st) = Len(story) + 1
      /\ \A c \in Channels : /\ \A n \in Int : n <= Len(story) => Past(st, c, n) = Past(story, c, n)
                             /\ Past(st, c, Len(story) + 1) = clean[c]
  BY <1>2, <1>6, PastKept, StoryGrows
<1>8. \A c \in Channels : [Filled(story, c, e, pos) EXCEPT ![pos] = clean[c]] = Filled(st, c, e, pos + 1)
  BY <1>2, <1>5, <1>6, FilledNext
<1>9. \A c \in Channels, n \in Int : n <= Len(story) => WindowTo(st, c, n) = WindowTo(story, c, n)
  BY <1>2, <1>6, WindowKept
<1>10. \A k : \A c \in Channels, n \in Int, r \in Requests :
         n <= Len(story) => Answer(k, r, st, c, n) = Answer(k, r, story, c, n)
  BY <1>2, <1>6, AnswerKept
<1> HIDE DEF st, accum
<1>11. inAccum' = [c \in Channels |-> Filled(st, c, e, pos + 1)]
  BY <1>1, <1>3, <1>8, Zenon DEF accum
<1>12. dryDelay' = [c \in Channels |-> Filled(st, c, e, pos + 1)]
  BY <1>1, <1>3, <1>8, Zenon
<1>13. win = [c \in Channels |-> WindowTo(st, c, e)]
  <2>1. e <= Len(story)
    BY <1>5
  <2> QED BY <1>3, <1>5, <1>9, <2>1, Zenon
<1>14. fdl = [c \in Channels |-> [s \in 0..Depth - 1 |-> WindowTo(st, c, e - b * BlocksAgo(slotIndex, s))]]
  <2>1. \A s \in 0..Depth - 1 : e - b * BlocksAgo(slotIndex, s) \in Int
                                /\ e - b * BlocksAgo(slotIndex, s) <= Len(story)
    <3> TAKE s \in 0..Depth - 1
    <3> DEFINE a == BlocksAgo(slotIndex, s)
    <3>1. a \in Nat
      BY <1>2, SlotsAge
    <3> HIDE DEF a
    <3>2. b * a \in Nat
      BY <1>5, <3>1
    <3>3. e - b * a \in Int /\ e - b * a <= Len(story)
      BY <1>5, <3>2
    <3> QED BY <3>3 DEF a
  <2>2. \A c \in Channels, s \in 0..Depth - 1 :
          WindowTo(story, c, e - b * BlocksAgo(slotIndex, s)) = WindowTo(st, c, e - b * BlocksAgo(slotIndex, s))
    BY <1>9, <2>1, Zenon
  <2> HIDE DEF b
  <2> QED BY <1>3, <2>2, Zenon
<1>15. outBuf = [c \in Channels |-> [i \in 0..b - 1 |-> Answer(kernel, request, st, c, ((e - b) + 1) + i)]]
  <2>1. \A i \in 0..b - 1 : ((e - b) + 1) + i \in Int /\ ((e - b) + 1) + i <= Len(story)
    BY <1>5
  <2>2. \A c \in Channels, i \in 0..b - 1 :
          Answer(kernel, request, story, c, ((e - b) + 1) + i) = Answer(kernel, request, st, c, ((e - b) + 1) + i)
    <3> TAKE c \in Channels, i \in 0..b - 1
    <3> DEFINE n == ((e - b) + 1) + i
    <3>1. n \in Int /\ n <= Len(story)
      BY <2>1
    <3> HIDE DEF n
    <3>2. Answer(kernel, request, st, c, n) = Answer(kernel, request, story, c, n)
      BY <1>2, <1>10, <3>1, Zenon
    <3> QED BY <3>2 DEF n
  <2> HIDE DEF b
  <2> QED BY <1>4, <2>2, Zenon
<1>16. /\ Len(st) - b = ((e - b) + 1) + pos
       /\ Len(st) - b = ((e + 1) + pos) - b
  BY <1>5, <1>7
<1>17. dry' = [c \in Channels |-> Past(st, c, Len(st) - b)]
  <2>1. ASSUME NEW c \in Channels PROVE dryDelay[c][pos] = Past(st, c, Len(st) - b)
    <3>1. dryDelay[c] = Filled(story, c, e, pos)
      BY <1>3, Zenon
    <3>2. ~(pos < pos)
      BY <1>5
    <3>3. dryDelay[c][pos] = Past(story, c, ((e + 1) + pos) - b)
      BY <1>2, <3>1, <3>2 DEF Filled
    <3>4. ((e + 1) + pos) - b \in Int /\ ((e + 1) + pos) - b <= Len(story)
      BY <1>5
    <3>5. Past(st, c, ((e + 1) + pos) - b) = Past(story, c, ((e + 1) + pos) - b)
      BY <1>7, <3>4
    <3> QED BY <1>16, <3>3, <3>5
  <2> HIDE DEF b
  <2> QED BY <1>1, <2>1, Zenon
<1>18. kernel # NoResponse => wet' = [c \in Channels |-> Answer(kernel, request, st, c, Len(st) - b)]
  <2>1. \A c \in Channels : outBuf[c][pos] = Answer(kernel, request, st, c, Len(st) - b)
    <3>1. \A c \in Channels : outBuf[c][pos] = Answer(kernel, request, st, c, ((e - b) + 1) + pos)
      <4> HIDE DEF b
      <4> QED BY <1>2, <1>15
    <3> QED BY <1>16, <3>1
  <2> HIDE DEF b
  <2> QED BY <1>1, <2>1, Zenon
<1>19. CASE pos + 1 < b
  <2>1. /\ kernel' = kernel /\ request' = request /\ win' = win /\ fdl' = fdl
        /\ slotIndex' = slotIndex /\ outBuf' = outBuf
    BY <1>1, <1>19
  <2>2. pos' = pos + 1 /\ pos' \in 0..b - 1
    <3>1. pos + 1 \in 0..(b - 1) /\ pos + 1 = b * 0 + (pos + 1) /\ b \in Nat \ {0} /\ pos + 1 \in Nat
      BY <1>5, <1>19
    <3>2. (pos + 1) % b = pos + 1
      BY <3>1, Remainder
    <3> QED BY <1>1, <3>1, <3>2
  <2>3. LastTick' = e /\ story' = st
    <3>1. LastTick' = Len(st) - (pos + 1)
      BY <1>1, <2>2 DEF LastTick
    <3> QED BY <1>1, <1>5, <1>7, <3>1
  <2>4. ConvTypes'
    BY <1>2, <1>7, <2>1, <2>2, <2>3 DEF ConvTypes
  <2>5. StoredIsPast'
    BY <1>11, <1>12, <1>13, <1>14, <2>1, <2>2, <2>3, Zenon DEF StoredIsPast
  <2>6. MadeIsAnswer'
    BY <1>15, <1>17, <1>18, <2>1, <2>3, Zenon DEF MadeIsAnswer
  <2> QED BY <2>4, <2>5, <2>6 DEF ConvInv
<1>20. CASE ~(pos + 1 < b)
  <2>1. pos + 1 = b /\ pos' = 0
    <3>1. pos + 1 = b
      BY <1>2, <1>5, <1>20
    <3>2. b = b * 1 + 0 /\ b \in Nat \ {0} /\ 0 \in 0..(b - 1)
      BY <1>5
    <3>3. b % b = 0
      BY <3>2, Remainder
    <3> QED BY <1>1, <3>1, <3>3
  <2>2. PICK k, r : /\ r \in Requests /\ (k = NoResponse \/ k = BuiltKernel(r))
                    /\ kernel' = k /\ request' = r /\ Ticked(k, accum)
    <3>1. CASE Ticked(kernel, accum) /\ UNCHANGED <<kernel, request, swaps>>
      <4>1. /\ kernel = NoResponse \/ kernel = BuiltKernel(request)
            /\ kernel' = kernel /\ request' = request /\ Ticked(kernel, accum) /\ request \in Requests
        BY <1>2, <3>1, Zenon
      <4> QED BY <4>1, Zenon
    <3>2. CASE \E r \in Requests :
                   /\ BuiltKernel(r) # NoResponse /\ swaps < MaxSwaps /\ swaps' = swaps + 1
                   /\ kernel' = BuiltKernel(r) /\ request' = r
                   /\ Ticked(BuiltKernel(r), accum)
      BY <3>2, Zenon
    <3> QED BY <1>1, <1>20, <3>1, <3>2, Zenon
  <2>3. accum = [c \in Channels |-> Filled(st, c, e, ConvBlock)]
    BY <1>1, <1>11, <2>1, Zenon
  <2> DEFINE g == e + ConvBlock
  <2>4. /\ slotIndex' \in 0..Depth - 1
        /\ win' = [c \in Channels |-> WindowTo(st, c, g)]
        /\ fdl' = [c \in Channels |-> [s \in 0..Depth - 1 |->
                     WindowTo(st, c, g - ConvBlock * BlocksAgo(slotIndex', s))]]
        /\ outBuf' = [c \in Channels |-> [i \in 0..ConvBlock - 1 |->
                        Answer(k, r, st, c, ((g - ConvBlock) + 1) + i)]]
    BY <1>2, <1>5, <1>7, <1>13, <1>14, <2>2, <2>3, TickIs
  <2>5. LastTick' = g /\ story' = st
    <3>1. LastTick' = Len(st) - 0
      BY <1>1, <2>1 DEF LastTick
    <3>2. Len(st) = e + b
      BY <1>5, <1>7, <2>1
    <3>3. LastTick' = e + b
      BY <1>5, <3>1, <3>2
    <3> QED BY <1>1, <3>3, Zenon
  <2>6. \A c \in Channels : Filled(st, c, e, pos + 1) = Filled(st, c, g, 0)
    BY <1>5, <2>1, FilledTurn
  <2> HIDE DEF g
  <2>7. ConvTypes'
    BY <1>5, <1>7, <2>1, <2>2, <2>4, <2>5 DEF ConvTypes
  <2>8. StoredIsPast'
    BY <1>11, <1>12, <2>1, <2>4, <2>5, <2>6, Zenon DEF StoredIsPast
  <2>9. MadeIsAnswer'
    BY <1>17, <2>1, <2>2, <2>4, <2>5, Zenon DEF MadeIsAnswer
  <2> QED BY <2>7, <2>8, <2>9 DEF ConvInv
<1> QED BY <1>19, <1>20

LEMMA ConvPart ==
  /\ SignalInit => ConvInit
  /\ [SignalNext]_signalVars => ConvNext \/ UNCHANGED convVars
<1>1. SignalInit => ConvInit
  BY DEF SignalInit
<1>2. ASSUME SignalNext PROVE ConvNext \/ UNCHANGED convVars
  BY <1>2 DEF SignalNext
<1>3. ASSUME UNCHANGED signalVars PROVE UNCHANGED convVars
  BY <1>3 DEF signalVars
<1> QED BY <1>1, <1>2, <1>3

\* dsp/Convolver: for every block size, every depth of the ring, any responses and any
\* sound, with kernels installed at any tick, the wet signal is the convolution of all
\* that was played with the response the kernel was built from, and the dry one the
\* input, both a block late.
THEOREM ConvolutionIsExact == SignalSpec => []ConvolvesExactly
<1>1. SignalInit => ConvInv
  BY ConvPart, ConvStarts
<1>2. ConvInv /\ [SignalNext]_signalVars => ConvInv'
  BY ConvPart, SampleKeeps, ConvFrame DEF ConvNext
<1>3. ConvInv => ConvolvesExactly
  BY AnsweredIsReplied, WetIsConvolved
<1> QED BY <1>1, <1>2, <1>3, PTL DEF SignalSpec

----------------------------------------------------------------------------
(* Night mode.  Each curve is a list of straight pieces whose slopes are    *)
(* whole numbers of Fines-ths; what the smoothing leaves of the way to the  *)
(* curve's gain is halved tick by tick.                                     *)

\* The piece of a curve a level falls on.
LEMMA PieceFound ==
  ASSUME NEW knots, NEW l \in Int, \A j \in 1..4 : knots[j].level \in Int,
         NEW i \in 1..4, knots[i].level <= l, \A j \in 1..4 : j > i => knots[j].level > l
  PROVE  Max({j \in 1..4 : knots[j].level <= l}) = i
<1> DEFINE found == {j \in 1..4 : knots[j].level <= l}
<1>1. i \in found /\ \A j \in found : i >= j
  <2>1. ASSUME NEW j \in found PROVE i >= j
    <3>1. j \in 1..4 /\ knots[j].level <= l /\ knots[j].level \in Int
      OBVIOUS
    <3>2. ~(j > i)
      BY <3>1
    <3> QED BY <3>1, <3>2
  <2> QED BY <2>1
<1>2. found \subseteq Int
  OBVIOUS
<1> HIDE DEF found
<1>3. \A m \in found : (\A j \in found : m >= j) => m = i
  BY <1>1, <1>2
<1>4. (CHOOSE m \in found : \A j \in found : m >= j) = i
  BY <1>1, <1>3, Zenon
<1> QED BY <1>4 DEF Max, found

\* What the five curves are, in Fines-ths of a decibel.
Falling(g, slope, from, l) == g - slope * (l - from)

Drawn(p, l) ==
  IF p = 1 THEN
    IF l <= -12 THEN 13680 ELSE IF l < 0 THEN Falling(13680, 1140, -12, l) ELSE IF l < 5 THEN 0
    ELSE IF l < 15 THEN Falling(0, 1140, 5, l) ELSE IF l < 35 THEN Falling(-11400, 2166, 15, l)
    ELSE -54720
  ELSE IF p = 2 THEN
    IF l <= -22 THEN 13680 ELSE IF l < -10 THEN Falling(13680, 1140, -22, l) ELSE IF l < 10 THEN 0
    ELSE IF l < 20 THEN Falling(0, 1140, 10, l) ELSE IF l < 40 THEN Falling(-11400, 2166, 20, l)
    ELSE -54720
  ELSE IF p = 3 THEN
    IF l <= -24 THEN 27360 ELSE IF l < 0 THEN Falling(27360, 1140, -24, l) ELSE IF l < 5 THEN 0
    ELSE IF l < 15 THEN Falling(0, 1140, 5, l) ELSE IF l < 35 THEN Falling(-11400, 2166, 15, l)
    ELSE -54720
  ELSE IF p = 4 THEN
    IF l <= -34 THEN 27360 ELSE IF l < -10 THEN Falling(27360, 1140, -34, l) ELSE IF l < 10 THEN 0
    ELSE IF l < 40 THEN Falling(0, 1140, 10, l) ELSE -34200
  ELSE
    IF l <= -19 THEN 34200 ELSE IF l < 0 THEN Falling(34200, 1800, -19, l) ELSE IF l < 5 THEN 0
    ELSE IF l < 15 THEN Falling(0, 1140, 5, l) ELSE IF l < 35 THEN Falling(-11400, 2166, 15, l)
    ELSE -54720

\* What CurveGain does with the knots of a profile.
LEMMA CurveIs ==
  ASSUME NEW p \in 1..5, NEW l \in Int, NEW k, k = Profiles[p].knots,
         \A j \in 1..5 : k[j].level \in Int
  PROVE  /\ l <= k[1].level => CurveGain(p, l) = k[1].gain
         /\ l > k[1].level /\ l >= k[5].level => CurveGain(p, l) = k[5].gain
         /\ \A i \in 1..4 :
              l > k[1].level /\ l < k[5].level /\ k[i].level <= l /\ (\A j \in 1..4 : j > i => k[j].level > l)
              => CurveGain(p, l) = Lerp(k[i], k[i + 1], l)
<1> DEFINE piece == Max({j \in 1..4 : k[j].level <= l})
<1>1. CurveGain(p, l) = IF l <= k[1].level THEN k[1].gain
                        ELSE IF l >= k[5].level THEN k[5].gain
                        ELSE Lerp(k[piece], k[piece + 1], l)
  BY Zenon DEF CurveGain
<1>2. ASSUME NEW i \in 1..4, k[i].level <= l, \A j \in 1..4 : j > i => k[j].level > l
      PROVE  piece = i
  <2>1. \A j \in 1..4 : k[j].level \in Int
    OBVIOUS
  <2> QED BY <1>2, <2>1, PieceFound
<1>3. (l <= k[1].level => CurveGain(p, l) = k[1].gain)
      /\ (l > k[1].level /\ l >= k[5].level => CurveGain(p, l) = k[5].gain)
  <2> HIDE DEF piece
  <2>1. k[1].level \in Int /\ k[5].level \in Int
    OBVIOUS
  <2> QED BY <1>1, <2>1
<1>4. ASSUME NEW i \in 1..4, l > k[1].level, l < k[5].level, k[i].level <= l,
             \A j \in 1..4 : j > i => k[j].level > l
      PROVE  CurveGain(p, l) = Lerp(k[i], k[i + 1], l)
  <2>1. piece = i
    BY <1>2, <1>4
  <2> HIDE DEF piece
  <2>2. ~(l <= k[1].level) /\ ~(l >= k[5].level)
    <3>1. k[1].level \in Int /\ k[5].level \in Int
      OBVIOUS
    <3> QED BY <1>4, <3>1
  <2> QED BY <1>1, <2>1, <2>2, Zenon
<1> QED BY <1>3, <1>4

LEMMA CurveIsDrawn ==
  ASSUME NEW p \in 1..5, NEW l \in Int
  PROVE  CurveGain(p, l) = Drawn(p, l)
<1> DEFINE k == Profiles[p].knots
<1>1. CASE p = 1
  <2>1. k[1].level = -12 /\ k[2].level = 0 /\ k[3].level = 5 /\ k[4].level = 15 /\ k[5].level = 35
        /\ k[1].gain = 13680 /\ k[2].gain = 0 /\ k[3].gain = 0 /\ k[4].gain = -11400 /\ k[5].gain = -54720
    BY <1>1, SMT DEF Profiles, Profile, Knot, Fines
  <2> HIDE DEF k
  <2>2. \A j \in 1..5 : k[j].level \in Int
    BY <2>1
  <2>3. l <= k[1].level => CurveGain(p, l) = k[1].gain
    BY <2>2, CurveIs DEF k
  <2>4. l > k[1].level /\ l >= k[5].level => CurveGain(p, l) = k[5].gain
    BY <2>2, CurveIs DEF k
  <2>5. -12 <= l /\ l > -12 /\ l < 0 => CurveGain(p, l) = Falling(13680, 1140, -12, l)
    <3> SUFFICES ASSUME -12 <= l, l > -12, l < 0 PROVE CurveGain(p, l) = Falling(13680, 1140, -12, l)
      OBVIOUS
    <3>1. \A j \in 1..4 : j > 1 => k[j].level > l
      BY <2>1, SMT
    <3>2. l > k[1].level /\ l < k[5].level /\ k[1].level <= l /\ 1 \in 1..4
      BY <2>1, SMT
    <3>3. CurveGain(p, l) = Lerp(k[1], k[1 + 1], l)
      BY <2>2, <3>1, <3>2, CurveIs DEF k
    <3>4. Lerp(k[1], k[1 + 1], l) = Falling(13680, 1140, -12, l)
      BY <2>1, SMT DEF Lerp, Falling
    <3> QED BY <3>3, <3>4
  <2>6. 0 <= l /\ l > -12 /\ l < 5 => CurveGain(p, l) = Falling(0, 0, 0, l)
    <3> SUFFICES ASSUME 0 <= l, l > -12, l < 5 PROVE CurveGain(p, l) = Falling(0, 0, 0, l)
      OBVIOUS
    <3>1. \A j \in 1..4 : j > 2 => k[j].level > l
      BY <2>1, SMT
    <3>2. l > k[1].level /\ l < k[5].level /\ k[2].level <= l /\ 2 \in 1..4
      BY <2>1, SMT
    <3>3. CurveGain(p, l) = Lerp(k[2], k[2 + 1], l)
      BY <2>2, <3>1, <3>2, CurveIs DEF k
    <3>4. Lerp(k[2], k[2 + 1], l) = Falling(0, 0, 0, l)
      BY <2>1, SMT DEF Lerp, Falling
    <3> QED BY <3>3, <3>4
  <2>7. 5 <= l /\ l > -12 /\ l < 15 => CurveGain(p, l) = Falling(0, 1140, 5, l)
    <3> SUFFICES ASSUME 5 <= l, l > -12, l < 15 PROVE CurveGain(p, l) = Falling(0, 1140, 5, l)
      OBVIOUS
    <3>1. \A j \in 1..4 : j > 3 => k[j].level > l
      BY <2>1, SMT
    <3>2. l > k[1].level /\ l < k[5].level /\ k[3].level <= l /\ 3 \in 1..4
      BY <2>1, SMT
    <3>3. CurveGain(p, l) = Lerp(k[3], k[3 + 1], l)
      BY <2>2, <3>1, <3>2, CurveIs DEF k
    <3>4. Lerp(k[3], k[3 + 1], l) = Falling(0, 1140, 5, l)
      BY <2>1, SMT DEF Lerp, Falling
    <3> QED BY <3>3, <3>4
  <2>8. 15 <= l /\ l > -12 /\ l < 35 => CurveGain(p, l) = Falling(-11400, 2166, 15, l)
    <3> SUFFICES ASSUME 15 <= l, l > -12, l < 35 PROVE CurveGain(p, l) = Falling(-11400, 2166, 15, l)
      OBVIOUS
    <3>1. \A j \in 1..4 : j > 4 => k[j].level > l
      BY <2>1, SMT
    <3>2. l > k[1].level /\ l < k[5].level /\ k[4].level <= l /\ 4 \in 1..4
      BY <2>1, SMT
    <3>3. CurveGain(p, l) = Lerp(k[4], k[4 + 1], l)
      BY <2>2, <3>1, <3>2, CurveIs DEF k
    <3>4. Lerp(k[4], k[4 + 1], l) = Falling(-11400, 2166, 15, l)
      BY <2>1, SMT DEF Lerp, Falling
    <3> QED BY <3>3, <3>4
  <2> QED BY <1>1, <2>1, <2>3, <2>4, <2>5, <2>6, <2>7, <2>8, SMT DEF Drawn, Falling
<1>2. CASE p = 2
  <2>1. k[1].level = -22 /\ k[2].level = -10 /\ k[3].level = 10 /\ k[4].level = 20 /\ k[5].level = 40
        /\ k[1].gain = 13680 /\ k[2].gain = 0 /\ k[3].gain = 0 /\ k[4].gain = -11400 /\ k[5].gain = -54720
    BY <1>2, SMT DEF Profiles, Profile, Knot, Fines
  <2> HIDE DEF k
  <2>2. \A j \in 1..5 : k[j].level \in Int
    BY <2>1
  <2>3. l <= k[1].level => CurveGain(p, l) = k[1].gain
    BY <2>2, CurveIs DEF k
  <2>4. l > k[1].level /\ l >= k[5].level => CurveGain(p, l) = k[5].gain
    BY <2>2, CurveIs DEF k
  <2>5. -22 <= l /\ l > -22 /\ l < -10 => CurveGain(p, l) = Falling(13680, 1140, -22, l)
    <3> SUFFICES ASSUME -22 <= l, l > -22, l < -10 PROVE CurveGain(p, l) = Falling(13680, 1140, -22, l)
      OBVIOUS
    <3>1. \A j \in 1..4 : j > 1 => k[j].level > l
      BY <2>1, SMT
    <3>2. l > k[1].level /\ l < k[5].level /\ k[1].level <= l /\ 1 \in 1..4
      BY <2>1, SMT
    <3>3. CurveGain(p, l) = Lerp(k[1], k[1 + 1], l)
      BY <2>2, <3>1, <3>2, CurveIs DEF k
    <3>4. Lerp(k[1], k[1 + 1], l) = Falling(13680, 1140, -22, l)
      BY <2>1, SMT DEF Lerp, Falling
    <3> QED BY <3>3, <3>4
  <2>6. -10 <= l /\ l > -22 /\ l < 10 => CurveGain(p, l) = Falling(0, 0, -10, l)
    <3> SUFFICES ASSUME -10 <= l, l > -22, l < 10 PROVE CurveGain(p, l) = Falling(0, 0, -10, l)
      OBVIOUS
    <3>1. \A j \in 1..4 : j > 2 => k[j].level > l
      BY <2>1, SMT
    <3>2. l > k[1].level /\ l < k[5].level /\ k[2].level <= l /\ 2 \in 1..4
      BY <2>1, SMT
    <3>3. CurveGain(p, l) = Lerp(k[2], k[2 + 1], l)
      BY <2>2, <3>1, <3>2, CurveIs DEF k
    <3>4. Lerp(k[2], k[2 + 1], l) = Falling(0, 0, -10, l)
      BY <2>1, SMT DEF Lerp, Falling
    <3> QED BY <3>3, <3>4
  <2>7. 10 <= l /\ l > -22 /\ l < 20 => CurveGain(p, l) = Falling(0, 1140, 10, l)
    <3> SUFFICES ASSUME 10 <= l, l > -22, l < 20 PROVE CurveGain(p, l) = Falling(0, 1140, 10, l)
      OBVIOUS
    <3>1. \A j \in 1..4 : j > 3 => k[j].level > l
      BY <2>1, SMT
    <3>2. l > k[1].level /\ l < k[5].level /\ k[3].level <= l /\ 3 \in 1..4
      BY <2>1, SMT
    <3>3. CurveGain(p, l) = Lerp(k[3], k[3 + 1], l)
      BY <2>2, <3>1, <3>2, CurveIs DEF k
    <3>4. Lerp(k[3], k[3 + 1], l) = Falling(0, 1140, 10, l)
      BY <2>1, SMT DEF Lerp, Falling
    <3> QED BY <3>3, <3>4
  <2>8. 20 <= l /\ l > -22 /\ l < 40 => CurveGain(p, l) = Falling(-11400, 2166, 20, l)
    <3> SUFFICES ASSUME 20 <= l, l > -22, l < 40 PROVE CurveGain(p, l) = Falling(-11400, 2166, 20, l)
      OBVIOUS
    <3>1. \A j \in 1..4 : j > 4 => k[j].level > l
      BY <2>1, SMT
    <3>2. l > k[1].level /\ l < k[5].level /\ k[4].level <= l /\ 4 \in 1..4
      BY <2>1, SMT
    <3>3. CurveGain(p, l) = Lerp(k[4], k[4 + 1], l)
      BY <2>2, <3>1, <3>2, CurveIs DEF k
    <3>4. Lerp(k[4], k[4 + 1], l) = Falling(-11400, 2166, 20, l)
      BY <2>1, SMT DEF Lerp, Falling
    <3> QED BY <3>3, <3>4
  <2> QED BY <1>2, <2>1, <2>3, <2>4, <2>5, <2>6, <2>7, <2>8, SMT DEF Drawn, Falling
<1>3. CASE p = 3
  <2>1. k[1].level = -24 /\ k[2].level = 0 /\ k[3].level = 5 /\ k[4].level = 15 /\ k[5].level = 35
        /\ k[1].gain = 27360 /\ k[2].gain = 0 /\ k[3].gain = 0 /\ k[4].gain = -11400 /\ k[5].gain = -54720
    BY <1>3, SMT DEF Profiles, Profile, Knot, Fines
  <2> HIDE DEF k
  <2>2. \A j \in 1..5 : k[j].level \in Int
    BY <2>1
  <2>3. l <= k[1].level => CurveGain(p, l) = k[1].gain
    BY <2>2, CurveIs DEF k
  <2>4. l > k[1].level /\ l >= k[5].level => CurveGain(p, l) = k[5].gain
    BY <2>2, CurveIs DEF k
  <2>5. -24 <= l /\ l > -24 /\ l < 0 => CurveGain(p, l) = Falling(27360, 1140, -24, l)
    <3> SUFFICES ASSUME -24 <= l, l > -24, l < 0 PROVE CurveGain(p, l) = Falling(27360, 1140, -24, l)
      OBVIOUS
    <3>1. \A j \in 1..4 : j > 1 => k[j].level > l
      BY <2>1, SMT
    <3>2. l > k[1].level /\ l < k[5].level /\ k[1].level <= l /\ 1 \in 1..4
      BY <2>1, SMT
    <3>3. CurveGain(p, l) = Lerp(k[1], k[1 + 1], l)
      BY <2>2, <3>1, <3>2, CurveIs DEF k
    <3>4. Lerp(k[1], k[1 + 1], l) = Falling(27360, 1140, -24, l)
      BY <2>1, SMT DEF Lerp, Falling
    <3> QED BY <3>3, <3>4
  <2>6. 0 <= l /\ l > -24 /\ l < 5 => CurveGain(p, l) = Falling(0, 0, 0, l)
    <3> SUFFICES ASSUME 0 <= l, l > -24, l < 5 PROVE CurveGain(p, l) = Falling(0, 0, 0, l)
      OBVIOUS
    <3>1. \A j \in 1..4 : j > 2 => k[j].level > l
      BY <2>1, SMT
    <3>2. l > k[1].level /\ l < k[5].level /\ k[2].level <= l /\ 2 \in 1..4
      BY <2>1, SMT
    <3>3. CurveGain(p, l) = Lerp(k[2], k[2 + 1], l)
      BY <2>2, <3>1, <3>2, CurveIs DEF k
    <3>4. Lerp(k[2], k[2 + 1], l) = Falling(0, 0, 0, l)
      BY <2>1, SMT DEF Lerp, Falling
    <3> QED BY <3>3, <3>4
  <2>7. 5 <= l /\ l > -24 /\ l < 15 => CurveGain(p, l) = Falling(0, 1140, 5, l)
    <3> SUFFICES ASSUME 5 <= l, l > -24, l < 15 PROVE CurveGain(p, l) = Falling(0, 1140, 5, l)
      OBVIOUS
    <3>1. \A j \in 1..4 : j > 3 => k[j].level > l
      BY <2>1, SMT
    <3>2. l > k[1].level /\ l < k[5].level /\ k[3].level <= l /\ 3 \in 1..4
      BY <2>1, SMT
    <3>3. CurveGain(p, l) = Lerp(k[3], k[3 + 1], l)
      BY <2>2, <3>1, <3>2, CurveIs DEF k
    <3>4. Lerp(k[3], k[3 + 1], l) = Falling(0, 1140, 5, l)
      BY <2>1, SMT DEF Lerp, Falling
    <3> QED BY <3>3, <3>4
  <2>8. 15 <= l /\ l > -24 /\ l < 35 => CurveGain(p, l) = Falling(-11400, 2166, 15, l)
    <3> SUFFICES ASSUME 15 <= l, l > -24, l < 35 PROVE CurveGain(p, l) = Falling(-11400, 2166, 15, l)
      OBVIOUS
    <3>1. \A j \in 1..4 : j > 4 => k[j].level > l
      BY <2>1, SMT
    <3>2. l > k[1].level /\ l < k[5].level /\ k[4].level <= l /\ 4 \in 1..4
      BY <2>1, SMT
    <3>3. CurveGain(p, l) = Lerp(k[4], k[4 + 1], l)
      BY <2>2, <3>1, <3>2, CurveIs DEF k
    <3>4. Lerp(k[4], k[4 + 1], l) = Falling(-11400, 2166, 15, l)
      BY <2>1, SMT DEF Lerp, Falling
    <3> QED BY <3>3, <3>4
  <2> QED BY <1>3, <2>1, <2>3, <2>4, <2>5, <2>6, <2>7, <2>8, SMT DEF Drawn, Falling
<1>4. CASE p = 4
  <2>1. k[1].level = -34 /\ k[2].level = -10 /\ k[3].level = 10 /\ k[4].level = 10 /\ k[5].level = 40
        /\ k[1].gain = 27360 /\ k[2].gain = 0 /\ k[3].gain = 0 /\ k[4].gain = 0 /\ k[5].gain = -34200
    BY <1>4, SMT DEF Profiles, Profile, Knot, Fines
  <2> HIDE DEF k
  <2>2. \A j \in 1..5 : k[j].level \in Int
    BY <2>1
  <2>3. l <= k[1].level => CurveGain(p, l) = k[1].gain
    BY <2>2, CurveIs DEF k
  <2>4. l > k[1].level /\ l >= k[5].level => CurveGain(p, l) = k[5].gain
    BY <2>2, CurveIs DEF k
  <2>5. -34 <= l /\ l > -34 /\ l < -10 => CurveGain(p, l) = Falling(27360, 1140, -34, l)
    <3> SUFFICES ASSUME -34 <= l, l > -34, l < -10 PROVE CurveGain(p, l) = Falling(27360, 1140, -34, l)
      OBVIOUS
    <3>1. \A j \in 1..4 : j > 1 => k[j].level > l
      BY <2>1, SMT
    <3>2. l > k[1].level /\ l < k[5].level /\ k[1].level <= l /\ 1 \in 1..4
      BY <2>1, SMT
    <3>3. CurveGain(p, l) = Lerp(k[1], k[1 + 1], l)
      BY <2>2, <3>1, <3>2, CurveIs DEF k
    <3>4. Lerp(k[1], k[1 + 1], l) = Falling(27360, 1140, -34, l)
      BY <2>1, SMT DEF Lerp, Falling
    <3> QED BY <3>3, <3>4
  <2>6. -10 <= l /\ l > -34 /\ l < 10 => CurveGain(p, l) = Falling(0, 0, -10, l)
    <3> SUFFICES ASSUME -10 <= l, l > -34, l < 10 PROVE CurveGain(p, l) = Falling(0, 0, -10, l)
      OBVIOUS
    <3>1. \A j \in 1..4 : j > 2 => k[j].level > l
      BY <2>1, SMT
    <3>2. l > k[1].level /\ l < k[5].level /\ k[2].level <= l /\ 2 \in 1..4
      BY <2>1, SMT
    <3>3. CurveGain(p, l) = Lerp(k[2], k[2 + 1], l)
      BY <2>2, <3>1, <3>2, CurveIs DEF k
    <3>4. Lerp(k[2], k[2 + 1], l) = Falling(0, 0, -10, l)
      BY <2>1, SMT DEF Lerp, Falling
    <3> QED BY <3>3, <3>4
  <2>7. 10 <= l /\ l > -34 /\ l < 40 => CurveGain(p, l) = Falling(0, 1140, 10, l)
    <3> SUFFICES ASSUME 10 <= l, l > -34, l < 40 PROVE CurveGain(p, l) = Falling(0, 1140, 10, l)
      OBVIOUS
    <3>1. \A j \in 1..4 : j > 4 => k[j].level > l
      BY <2>1, SMT
    <3>2. l > k[1].level /\ l < k[5].level /\ k[4].level <= l /\ 4 \in 1..4
      BY <2>1, SMT
    <3>3. CurveGain(p, l) = Lerp(k[4], k[4 + 1], l)
      BY <2>2, <3>1, <3>2, CurveIs DEF k
    <3>4. Lerp(k[4], k[4 + 1], l) = Falling(0, 1140, 10, l)
      BY <2>1, SMT DEF Lerp, Falling
    <3> QED BY <3>3, <3>4
  <2> QED BY <1>4, <2>1, <2>3, <2>4, <2>5, <2>6, <2>7, SMT DEF Drawn, Falling
<1>5. CASE p = 5
  <2>1. k[1].level = -19 /\ k[2].level = 0 /\ k[3].level = 5 /\ k[4].level = 15 /\ k[5].level = 35
        /\ k[1].gain = 34200 /\ k[2].gain = 0 /\ k[3].gain = 0 /\ k[4].gain = -11400 /\ k[5].gain = -54720
    BY <1>5, SMT DEF Profiles, Profile, Knot, Fines
  <2> HIDE DEF k
  <2>2. \A j \in 1..5 : k[j].level \in Int
    BY <2>1
  <2>3. l <= k[1].level => CurveGain(p, l) = k[1].gain
    BY <2>2, CurveIs DEF k
  <2>4. l > k[1].level /\ l >= k[5].level => CurveGain(p, l) = k[5].gain
    BY <2>2, CurveIs DEF k
  <2>5. -19 <= l /\ l > -19 /\ l < 0 => CurveGain(p, l) = Falling(34200, 1800, -19, l)
    <3> SUFFICES ASSUME -19 <= l, l > -19, l < 0 PROVE CurveGain(p, l) = Falling(34200, 1800, -19, l)
      OBVIOUS
    <3>1. \A j \in 1..4 : j > 1 => k[j].level > l
      BY <2>1, SMT
    <3>2. l > k[1].level /\ l < k[5].level /\ k[1].level <= l /\ 1 \in 1..4
      BY <2>1, SMT
    <3>3. CurveGain(p, l) = Lerp(k[1], k[1 + 1], l)
      BY <2>2, <3>1, <3>2, CurveIs DEF k
    <3>4. Lerp(k[1], k[1 + 1], l) = Falling(34200, 1800, -19, l)
      BY <2>1, SMT DEF Lerp, Falling
    <3> QED BY <3>3, <3>4
  <2>6. 0 <= l /\ l > -19 /\ l < 5 => CurveGain(p, l) = Falling(0, 0, 0, l)
    <3> SUFFICES ASSUME 0 <= l, l > -19, l < 5 PROVE CurveGain(p, l) = Falling(0, 0, 0, l)
      OBVIOUS
    <3>1. \A j \in 1..4 : j > 2 => k[j].level > l
      BY <2>1, SMT
    <3>2. l > k[1].level /\ l < k[5].level /\ k[2].level <= l /\ 2 \in 1..4
      BY <2>1, SMT
    <3>3. CurveGain(p, l) = Lerp(k[2], k[2 + 1], l)
      BY <2>2, <3>1, <3>2, CurveIs DEF k
    <3>4. Lerp(k[2], k[2 + 1], l) = Falling(0, 0, 0, l)
      BY <2>1, SMT DEF Lerp, Falling
    <3> QED BY <3>3, <3>4
  <2>7. 5 <= l /\ l > -19 /\ l < 15 => CurveGain(p, l) = Falling(0, 1140, 5, l)
    <3> SUFFICES ASSUME 5 <= l, l > -19, l < 15 PROVE CurveGain(p, l) = Falling(0, 1140, 5, l)
      OBVIOUS
    <3>1. \A j \in 1..4 : j > 3 => k[j].level > l
      BY <2>1, SMT
    <3>2. l > k[1].level /\ l < k[5].level /\ k[3].level <= l /\ 3 \in 1..4
      BY <2>1, SMT
    <3>3. CurveGain(p, l) = Lerp(k[3], k[3 + 1], l)
      BY <2>2, <3>1, <3>2, CurveIs DEF k
    <3>4. Lerp(k[3], k[3 + 1], l) = Falling(0, 1140, 5, l)
      BY <2>1, SMT DEF Lerp, Falling
    <3> QED BY <3>3, <3>4
  <2>8. 15 <= l /\ l > -19 /\ l < 35 => CurveGain(p, l) = Falling(-11400, 2166, 15, l)
    <3> SUFFICES ASSUME 15 <= l, l > -19, l < 35 PROVE CurveGain(p, l) = Falling(-11400, 2166, 15, l)
      OBVIOUS
    <3>1. \A j \in 1..4 : j > 4 => k[j].level > l
      BY <2>1, SMT
    <3>2. l > k[1].level /\ l < k[5].level /\ k[4].level <= l /\ 4 \in 1..4
      BY <2>1, SMT
    <3>3. CurveGain(p, l) = Lerp(k[4], k[4 + 1], l)
      BY <2>2, <3>1, <3>2, CurveIs DEF k
    <3>4. Lerp(k[4], k[4 + 1], l) = Falling(-11400, 2166, 15, l)
      BY <2>1, SMT DEF Lerp, Falling
    <3> QED BY <3>3, <3>4
  <2> QED BY <1>5, <2>1, <2>3, <2>4, <2>5, <2>6, <2>7, <2>8, SMT DEF Drawn, Falling
<1> QED BY <1>1, <1>2, <1>3, <1>4, <1>5

\* A curve falls, and never faster than the level rises; and its gains are bounded.
Lies(p, l) ==
  /\ Drawn(p, l) \in Int /\ -54720 <= Drawn(p, l) /\ Drawn(p, l) <= 34200
  /\ -2280 <= Drawn(p, l + 1) - Drawn(p, l) /\ Drawn(p, l + 1) - Drawn(p, l) <= 0

Falls(p, l) == CurveGain(p, l + 1) - CurveGain(p, l) \in -Fines..0

\* Between the deepest cut of all curves and the highest lift.
Bearable(g) == g \in Int /\ -54720 <= g /\ g <= 34200

LEMMA CurveFalls ==
  ASSUME NEW p \in 1..5, NEW l \in Int
  PROVE  Bearable(CurveGain(p, l)) /\ Falls(p, l)
<1>1. l + 1 \in Int /\ CurveGain(p, l) = Drawn(p, l) /\ CurveGain(p, l + 1) = Drawn(p, l + 1)
      /\ Drawn(p, l + 1) \in Int
  <2>1. l + 1 \in Int
    OBVIOUS
  <2>2. Drawn(p, l + 1) \in Int
    BY <2>1, SMT DEF Drawn, Falling
  <2> QED BY <2>1, <2>2, CurveIsDrawn
<1>2. p = 1 \/ p = 2 \/ p = 3 \/ p = 4 \/ p = 5
  OBVIOUS
<1>3. Lies(1, l)
  BY SMTT(30) DEF Lies, Drawn, Falling
<1>4. Lies(2, l)
  BY SMTT(30) DEF Lies, Drawn, Falling
<1>5. Lies(3, l)
  BY SMTT(30) DEF Lies, Drawn, Falling
<1>6. Lies(4, l)
  BY SMTT(30) DEF Lies, Drawn, Falling
<1>7. Lies(5, l)
  BY SMTT(30) DEF Lies, Drawn, Falling
<1>8. Lies(p, l)
  BY <1>2, <1>3, <1>4, <1>5, <1>6, <1>7
<1> DEFINE a == Drawn(p, l)
           b == Drawn(p, l + 1)
<1>9. a \in Int /\ b \in Int /\ -54720 <= a /\ a <= 34200 /\ -2280 <= b - a /\ b - a <= 0
  BY <1>1, <1>8 DEF Lies
<1>10. Fines \in Int /\ -Fines = -2280
  BY SMT DEF Fines
<1> HIDE DEF a, b
<1>11. b - a \in -Fines..0
  BY <1>9, <1>10
<1>12. Falls(p, l)
  BY <1>1, <1>11, Zenon DEF Falls, a, b
<1>13. Bearable(a)
  BY <1>9, SMT DEF Bearable
<1> QED BY <1>1, <1>12, <1>13, Zenon DEF a, b

LEMMA FiveProfiles == DOMAIN Profiles = 1..5
BY SMT DEF Profiles

\* On every curve of night mode what is louder stays louder, from any level to the next: the
\* gain falls no faster than the level rises, and never rises with it (kProfiles and
\* curveGainDb, dsp/AutoGain.h:94-97).
THEOREM LouderStaysLouder ==
  \A p \in DOMAIN Profiles : \A l \in Int :
    LET rise == CurveGain(p, l + 1) - CurveGain(p, l) IN rise \in -Fines..0
<1>1. \A p \in DOMAIN Profiles : \A l \in Int : Falls(p, l)
  BY CurveFalls, FiveProfiles
<1> QED BY <1>1, Zenon DEF Falls

LEMMA OrderIsKept == CurvesKeepTheOrder
<1> DEFINE fromTo == -45..45
<1>1. fromTo \subseteq Int
  OBVIOUS
<1> HIDE DEF fromTo
<1> QED BY <1>1, LouderStaysLouder, Zenon DEF CurvesKeepTheOrder, fromTo

----------------------------------------------------------------------------

Goal == Scaled(CurveGain(night.profile, level))

Halved == <<20, 10, 5, 3, 2, 1>>

NightInv ==
  /\ night \in NightParams /\ level \in Int /\ levelDb \in Int /\ nightDb \in -24..15
  /\ ticks \in Nat
  /\ \A k \in 1..6 : ticks >= k => Distance(nightDb, Goal) <= Halved[k]

LEMMA NightParamsAre ==
  ASSUME NEW p \in NightParams
  PROVE  p.profile \in 1..5 /\ p.boost \in 0..10 /\ p.cut \in 0..10
BY NightAssumption, FiveProfiles

LEMMA TensOf ==
  ASSUME NEW g \in Int, -54720 <= g, g <= 34200, NEW s \in 0..10
  PROVE  /\ g >= 0 => 0 <= g * s /\ g * s <= 342000
         /\ g < 0 => g * s <= 0 /\ g * s >= -547200
<1>1. s = 0 \/ s = 1 \/ s = 2 \/ s = 3 \/ s = 4 \/ s = 5 \/ s = 6 \/ s = 7 \/ s = 8 \/ s = 9 \/ s = 10
  OBVIOUS
<1> QED BY <1>1, SMTT(30)

\* What the controls leave of a gain is no more than it was.
LEMMA ScaledIs ==
  ASSUME night \in NightParams, NEW l \in Int
  PROVE  Scaled(CurveGain(night.profile, l)) \in -24..15
<1>1. night.profile \in 1..5 /\ night.boost \in 0..10 /\ night.cut \in 0..10
  BY NightParamsAre
<1> DEFINE g == CurveGain(night.profile, l)
<1>0. Bearable(g)
  BY <1>1, CurveFalls, Zenon
<1>2. g \in Int /\ -54720 <= g /\ g <= 34200
  <2> HIDE DEF g
  <2> QED BY <1>0, SMT DEF Bearable
<1> HIDE DEF g
<1>3. ASSUME NEW s \in 0..10 PROVE (g * s) \div 22800 \in -24..15
  <2>1. CASE g >= 0
    <3>1. 0 <= g * s /\ g * s <= 342000
      BY <1>2, <1>3, <2>1, TensOf
    <3>2. g * s \in Int
      BY <1>2
    <3> QED BY <3>1, <3>2, SMT
  <2>2. CASE g < 0
    <3>1. g * s <= 0 /\ g * s >= -547200
      BY <1>2, <1>3, <2>2, TensOf
    <3>2. g * s \in Int
      BY <1>2
    <3> QED BY <3>1, <3>2, SMT
  <2> QED BY <1>2, <2>1, <2>2
<1>4. 10 * Fines = 22800
  BY SMT DEF Fines
<1>5. Scaled(g) = (g * (IF g > 0 THEN night.boost ELSE night.cut)) \div 22800
  BY <1>4 DEF Scaled
<1> QED BY <1>1, <1>3, <1>5 DEF g

\* A tick leaves at most half of the way, rounded up.
LEMMA SmoothedIs ==
  ASSUME NEW a \in -24..15, NEW b \in -24..15, NEW q \in 0..2
  PROVE  /\ Smoothed(a, b, q) \in -24..15
         /\ 2 * Distance(Smoothed(a, b, q), b) <= Distance(a, b) + 1
<1>1. q = 0 \/ q = 1 \/ q = 2
  OBVIOUS
<1>2. (0 * a + (4 - 0) * b) \div 4 = b /\ (1 * a + (4 - 1) * b) \div 4 = (a + 3 * b) \div 4
      /\ (2 * a + (4 - 2) * b) \div 4 = (2 * a + 2 * b) \div 4
  BY SMT
<1>3. CASE q = 0
  BY <1>2, <1>3, SMT DEF Smoothed, Distance
<1>4. CASE q = 1
  BY <1>2, <1>4, SMT DEF Smoothed, Distance
<1>5. CASE q = 2
  BY <1>2, <1>5, SMT DEF Smoothed, Distance
<1> QED BY <1>1, <1>3, <1>4, <1>5

LEMMA DistanceIs ==
  ASSUME NEW a \in -24..15, NEW b \in -24..15
  PROVE  Distance(a, b) \in 0..39 /\ Distance(a, b) \in Nat
BY DEF Distance

LEMMA SmoothedType ==
  ASSUME NEW a \in Int, NEW b \in Int, NEW q \in 0..2
  PROVE  Smoothed(a, b, q) \in Int
BY SMT DEF Smoothed

LEMMA RetainedIs ==
  ASSUME NEW p, NEW d
  PROVE  Retained[Constant(p, d)] \in 0..2
<1>1. Retained \in [{"fastAttack", "attack", "release", "fastRelease"} -> 0..2]
  BY NightAssumption
<1>2. Constant(p, d) \in {"fastAttack", "attack", "release", "fastRelease"}
  BY Zenon DEF Constant
<1> QED BY <1>1, <1>2

LEMMA HalvedIs ==
  /\ \A k \in 1..6 : Halved[k] \in Nat
  /\ \A d \in 0..39 : \A e \in Nat : 2 * e <= d + 1 => e <= Halved[1]
  /\ \A k \in 2..6 : \A d, e \in Nat : d <= Halved[k - 1] /\ 2 * e <= d + 1 => e <= Halved[k]
BY SMT DEF Halved

LEMMA NightStarts == NightInit => NightInv
BY NightAssumption, SMT DEF NightInit, NightInv

LEMMA NightFrame == NightInv /\ UNCHANGED nightVars => NightInv'
BY DEF NightInv, nightVars, Goal, Scaled

LEMMA TickKeepsNight ==
  ASSUME NightInv, NEW l \in NightLevels, NightTick(l)
  PROVE  NightInv'
<1> DEFINE goal == Scaled(CurveGain(night.profile, l))
<1>1. PICK q \in 0..2 : q = Retained[Constant(night.profile, l - levelDb)]
  BY RetainedIs
<1>2. l \in Int /\ night \in NightParams /\ levelDb \in Int /\ nightDb \in -24..15 /\ level \in Int
      /\ ticks \in Nat
  BY NightAssumption DEF NightInv
<1>3. goal \in -24..15
  BY <1>2, ScaledIs
<1>4. levelDb' = Smoothed(levelDb, l, q) /\ nightDb' = Smoothed(nightDb, goal, q) /\ level' = l
      /\ ticks' = (IF l # level THEN 1 ELSE IF ticks < EnoughTicks THEN ticks + 1 ELSE ticks)
      /\ night' = night
  BY <1>1 DEF NightTick
<1>5. Goal' = goal
  BY <1>4 DEF Goal, Scaled
<1>6. l = level => goal = Goal
  BY DEF Goal
<1> HIDE DEF goal
<1>7. nightDb' \in -24..15 /\ 2 * Distance(nightDb', goal) <= Distance(nightDb, goal) + 1
  BY <1>1, <1>2, <1>3, <1>4, SmoothedIs
<1>8. levelDb' \in Int /\ ticks' \in Nat
  <2>1. levelDb' \in Int
    BY <1>1, <1>2, <1>4, SmoothedType
  <2>2. ticks' \in Nat
    BY <1>2, <1>4
  <2> QED BY <2>1, <2>2
<1>9. Distance(nightDb, goal) \in 0..39 /\ Distance(nightDb', goal) \in Nat
  BY <1>2, <1>3, <1>7, DistanceIs, Zenon
<1>10. ASSUME NEW k \in 1..6, ticks' >= k PROVE Distance(nightDb', goal) <= Halved[k]
  <2>1. CASE k = 1
    BY <1>7, <1>9, <2>1, HalvedIs
  <2>2. CASE k # 1
    <3>1. l = level /\ ticks >= k - 1 /\ k - 1 \in 1..6 /\ k \in 2..6
      BY <1>2, <1>4, <1>10, <2>2, NightAssumption
    <3>2. Distance(nightDb, goal) <= Halved[k - 1]
      BY <1>6, <3>1 DEF NightInv
    <3> QED BY <1>7, <1>9, <3>1, <3>2, HalvedIs
  <2> QED BY <2>1, <2>2
<1> QED BY <1>2, <1>4, <1>5, <1>7, <1>8, <1>10 DEF NightInv

LEMMA SetNightKeeps ==
  ASSUME NightInv, NEW p \in NightParams, SetNight(p)
  PROVE  NightInv'
BY DEF NightInv, SetNight

LEMMA NightIsFollowed == NightInv => NightFollowsTheCurve
<1> SUFFICES ASSUME NightInv, ticks = EnoughTicks PROVE Distance(nightDb, Goal) <= 1
  BY DEF NightFollowsTheCurve, Goal
<1>1. ticks >= 6 /\ 6 \in 1..6
  BY NightAssumption
<1>2. Distance(nightDb, Goal) <= Halved[6]
  BY <1>1 DEF NightInv
<1>3. Halved[6] = 1
  BY SMT DEF Halved
<1> QED BY <1>2, <1>3

----------------------------------------------------------------------------
(* Auto volume.  The window is a ring of block means, its sum kept by       *)
(* difference; a programme that has been on for n buffers is all there is   *)
(* in the newest of its blocks.                                             *)

\* A programme's energy is a natural number, though its sum runs over 1..n.
LEMMA EnergyIs ==
  ASSUME NEW p \in Seq(Nat)
  PROVE  Energy(p) \in Nat
<1> DEFINE n == Len(p)
           term(c) == WeightFor(c, Len(p)) * p[c]
           h == [i \in 0..n |-> IF i = 0 THEN 0 ELSE term(i)]
           D == SUBSET (DOMAIN p)
           Is(f) == f = [s \in D |->
                           IF s = {} THEN 0
                           ELSE term(CHOOSE x \in s : TRUE) + f[s \ {CHOOSE x \in s : TRUE}]]
<1>1. Energy(p) = (CHOOSE f : Is(f))[DOMAIN p]
  BY Zenon DEF Energy, MapThenSumSet, MapThenFoldSet
<1>2. n \in Nat /\ DOMAIN p = 1..n
  OBVIOUS
<1>3. \A i \in DOMAIN p : term(i) \in Nat
  <2>1. \A i \in DOMAIN p : p[i] \in Nat
    OBVIOUS
  <2>2. \A i : WeightFor(i, Len(p)) \in {100, 0, 141}
    BY Zenon DEF WeightFor
  <2>3. \A i : WeightFor(i, Len(p)) \in Nat
    BY <2>2
  <2>4. ASSUME NEW i \in DOMAIN p PROVE term(i) \in Nat
    <3> DEFINE a == WeightFor(i, Len(p))
               b == p[i]
    <3>1. a \in Nat /\ b \in Nat
      BY <2>1, <2>3
    <3> HIDE DEF a, b
    <3>2. a * b \in Nat
      BY <3>1
    <3> QED BY <3>2 DEF a, b
  <2> QED BY <2>4
<1> HIDE DEF term, n
<1>4. \A i \in DOMAIN p : i \in 0..n /\ h[i] = term(i) /\ h[i] \in Nat
  BY <1>2, <1>3
<1>5. \A i \in 0..(n + 1) - 1 : h[i] \in Int
  <2>1. h[0] = 0 /\ \A i \in 0..(n + 1) - 1 : i = 0 \/ i \in DOMAIN p
    BY <1>2
  <2> QED BY <1>4, <2>1
<1> HIDE DEF h
<1>6. PICK g : Adds(g, h, n + 1)
  BY <1>2, <1>5, AddsExist
<1>7. \A s \in D : s \in SUBSET (0..(n + 1) - 1) /\ \A x \in s : s \ {x} \in D
  BY <1>2, <1>4
<1>8. \E f : Is(f)
  <2> DEFINE f == [s \in D |-> g[s]]
  <2>1. ASSUME NEW s \in D
        PROVE  g[s] = IF s = {} THEN 0
                      ELSE term(CHOOSE x \in s : TRUE) + f[s \ {CHOOSE x \in s : TRUE}]
    <3>1. CASE s = {}
      BY <1>6, <3>1 DEF Adds
    <3>2. CASE s # {}
      <4> DEFINE x == CHOOSE x \in s : TRUE
      <4>1. x \in s
        BY <3>2
      <4> HIDE DEF x
      <4>2. g[s] = h[x] + g[s \ {x}]
        BY <1>6, <1>7, <4>1 DEF Adds
      <4>3. h[x] = term(x) /\ f[s \ {x}] = g[s \ {x}]
        BY <1>4, <1>7, <4>1
      <4> HIDE DEF f
      <4>4. g[s] = term(x) + f[s \ {x}]
        BY <4>2, <4>3
      <4> QED BY <3>2, <4>4, Zenon DEF x
    <3> QED BY <3>1, <3>2
  <2>2. f = [s \in D |-> g[s]]
    OBVIOUS
  <2> HIDE DEF f, D
  <2>3. Is(f)
    BY <2>1, <2>2, Zenon
  <2> HIDE DEF Is
  <2> QED BY <2>3
<1> DEFINE f == CHOOSE f : Is(f)
<1>9. Is(f)
  <2> HIDE DEF Is
  <2> QED BY <1>8, Zenon
<1> HIDE DEF f
<1>10. \A s \in D : f[s] = IF s = {} THEN 0
                           ELSE term(CHOOSE x \in s : TRUE) + f[s \ {CHOOSE x \in s : TRUE}]
  BY <1>9
<1>17. \A s \in D : s = {} => f[s] = 0
  <2> HIDE DEF D
  <2> QED BY <1>10, Zenon
<1>11. IsFiniteSet(DOMAIN p) /\ Cardinality(DOMAIN p) = n
  BY <1>2, FS_Interval
<1>12. \A s \in D : IsFiniteSet(s) /\ Cardinality(s) \in 0..n /\ (Cardinality(s) = 0 <=> s = {})
                    /\ \A x \in s : Cardinality(s \ {x}) = Cardinality(s) - 1
  <2> TAKE s \in D
  <2>1. IsFiniteSet(s) /\ Cardinality(s) <= n
    BY <1>11, FS_Subset
  <2>2. Cardinality(s) \in Nat /\ (Cardinality(s) = 0 <=> s = {})
    BY <2>1, FS_CardinalityType, FS_EmptySet
  <2>3. \A x \in s : Cardinality(s \ {x}) = Cardinality(s) - 1
    BY <2>1, FS_RemoveElement
  <2>4. Cardinality(s) \in 0..n
    BY <1>2, <2>1, <2>2
  <2> QED BY <2>1, <2>2, <2>3, <2>4
<1> DEFINE T == {k \in 0..n : \A s \in D : Cardinality(s) <= k => f[s] \in Nat}
<1>13. 0 \in T
  <2>1. ASSUME NEW s \in D, Cardinality(s) <= 0 PROVE f[s] \in Nat
    <3>1. s = {}
      BY <1>12, <2>1
    <3> QED BY <1>17, <3>1
  <2> QED BY <1>2, <2>1
<1>14. ASSUME NEW k \in 0..(n - 1), k \in T PROVE k + 1 \in T
  <2>1. ASSUME NEW s \in D, Cardinality(s) <= k + 1 PROVE f[s] \in Nat
    <3>1. CASE s = {}
      BY <1>17, <3>1
    <3>2. CASE s # {}
      <4> DEFINE x == CHOOSE x \in s : TRUE
      <4>1. x \in s
        BY <3>2
      <4>2. f[s] = term(x) + f[s \ {x}]
        BY <1>10, <3>2
      <4> HIDE DEF x
      <4>3. s \ {x} \in D /\ Cardinality(s \ {x}) <= k
        BY <1>2, <1>12, <2>1, <4>1
      <4>4. f[s \ {x}] \in Nat
        BY <1>14, <4>3
      <4>5. term(x) \in Nat
        BY <1>3, <4>1
      <4> QED BY <4>2, <4>4, <4>5
    <3> QED BY <3>1, <3>2
  <2> QED BY <1>2, <2>1
<1>15. n \in T
  <2> HIDE DEF T
  <2>1. 0..n \subseteq T
    BY <1>2, <1>13, <1>14, Induction
  <2> QED BY <1>2, <2>1
<1>16. f[DOMAIN p] \in Nat
  <2>1. DOMAIN p \in D /\ Cardinality(DOMAIN p) <= n
    BY <1>2, <1>11
  <2> QED BY <1>15, <2>1
<1> QED BY <1>1, <1>16 DEF f

\* A sum of which one term changes.
OneChanged(h, k, n, c, v) ==
  /\ n \in Nat /\ c \in 0..n - 1 /\ v \in Int /\ k[c] = v
  /\ \A i \in 0..n - 1 : h[i] \in Int /\ (i # c => k[i] = h[i])

LEMMA SumChanged ==
  ASSUME NEW h, NEW k, NEW n, NEW c, NEW v, OneChanged(h, k, n, c, v)
  PROVE  Sum(k, n) = (Sum(h, n) - h[c]) + v
<1> USE DEF OneChanged
<1> DEFINE T == {i \in 0..n : Sum(k, i) = IF i <= c THEN Sum(h, i) ELSE (Sum(h, i) - h[c]) + v}
<1>1. \A i \in 0..n - 1 : k[i] \in Int
  OBVIOUS
<1>2. Sum(h, 0) = 0 /\ Sum(k, 0) = 0
  <2>1. 0 \in Nat /\ (\A i \in 0..0 - 1 : h[i] \in Int) /\ (\A i \in 0..0 - 1 : k[i] \in Int)
    OBVIOUS
  <2> QED BY <2>1, SumSteps
<1>3. 0 \in T
  BY <1>2
<1>4. ASSUME NEW i \in 0..(n - 1), i \in T PROVE i + 1 \in T
  <2>1. i \in 0..n - 1 /\ i + 1 \in 0..n
    OBVIOUS
  <2>2. Sum(h, i) \in Int /\ Sum(h, i + 1) = Sum(h, i) + h[i]
    BY <2>1, SumSteps
  <2>3. Sum(k, i) \in Int /\ Sum(k, i + 1) = Sum(k, i) + k[i]
    BY <1>1, <2>1, SumSteps
  <2>4. Sum(k, i) = IF i <= c THEN Sum(h, i) ELSE (Sum(h, i) - h[c]) + v
    BY <1>4
  <2>5. h[i] \in Int /\ h[c] \in Int /\ k[i] = IF i = c THEN v ELSE h[i]
    OBVIOUS
  <2>6. Sum(k, i + 1) = IF i + 1 <= c THEN Sum(h, i + 1) ELSE (Sum(h, i + 1) - h[c]) + v
    <3> DEFINE a == Sum(h, i)
               b == Sum(k, i)
               x == h[i]
               y == h[c]
    <3>1. a \in Int /\ b \in Int /\ x \in Int /\ y \in Int /\ Sum(h, i + 1) = a + x
          /\ Sum(k, i + 1) = b + (IF i = c THEN v ELSE x) /\ (i = c => x = y)
          /\ b = (IF i <= c THEN a ELSE (a - y) + v)
      BY <2>2, <2>3, <2>4, <2>5
    <3> HIDE DEF a, b, x, y
    <3>2. Sum(k, i + 1) = IF i + 1 <= c THEN a + x ELSE ((a + x) - y) + v
      BY <3>1
    <3> QED BY <3>1, <3>2 DEF y
  <2> QED BY <2>1, <2>6
<1>5. 0..n \subseteq T
  <2> HIDE DEF T
  <2> QED BY <1>3, <1>4, Induction
<1>6. n \in T /\ ~(n <= c)
  BY <1>5
<1> QED BY <1>6

LEMMA SumOfEqual ==
  ASSUME NEW n \in Nat, NEW h, NEW e \in Int, \A i \in 0..n - 1 : h[i] = e
  PROVE  Sum(h, n) = n * e
<1> DEFINE T == {i \in 0..n : Sum(h, i) = i * e}
<1>1. 0 \in T
  <2>1. 0 \in Nat /\ (\A i \in 0..0 - 1 : h[i] \in Int)
    OBVIOUS
  <2> QED BY <2>1, SumSteps
<1>2. ASSUME NEW i \in 0..(n - 1), i \in T PROVE i + 1 \in T
  <2>1. i \in 0..n - 1 /\ i + 1 \in 0..n /\ i \in Int /\ h[i] = e
    OBVIOUS
  <2>2. \A j \in 0..n - 1 : h[j] \in Int
    OBVIOUS
  <2>3. Sum(h, i) \in Int /\ Sum(h, i + 1) = Sum(h, i) + h[i]
    BY <2>1, <2>2, SumSteps
  <2>4. (i + 1) * e = i * e + e
    BY <2>1
  <2>5. Sum(h, i) = i * e
    BY <1>2
  <2>6. Sum(h, i + 1) = (i + 1) * e
    BY <2>1, <2>3, <2>4, <2>5
  <2> QED BY <2>1, <2>6
<1>3. 0..n \subseteq T
  <2> HIDE DEF T
  <2> QED BY <1>1, <1>2, Induction
<1> QED BY <1>3

LEMMA SumBounded ==
  ASSUME NEW n \in Nat, NEW h, NEW m \in Nat, \A i \in 0..n - 1 : h[i] \in Nat /\ h[i] <= m
  PROVE  Sum(h, n) \in Nat /\ Sum(h, n) <= n * m
<1> DEFINE T == {i \in 0..n : Sum(h, i) \in Nat /\ Sum(h, i) <= i * m}
<1>1. 0 \in T
  <2>1. 0 \in Nat /\ (\A i \in 0..0 - 1 : h[i] \in Int)
    OBVIOUS
  <2> QED BY <2>1, SumSteps
<1>2. ASSUME NEW i \in 0..(n - 1), i \in T PROVE i + 1 \in T
  <2>1. i \in 0..n - 1 /\ i + 1 \in 0..n /\ i \in Int /\ h[i] \in Nat /\ h[i] <= m
    OBVIOUS
  <2>2. \A j \in 0..n - 1 : h[j] \in Int
    OBVIOUS
  <2>3. Sum(h, i) \in Int /\ Sum(h, i + 1) = Sum(h, i) + h[i]
    BY <2>1, <2>2, SumSteps
  <2> DEFINE x == i * m
  <2>4. (i + 1) * m = x + m /\ x \in Int
    BY <2>1
  <2>5. Sum(h, i) \in Nat /\ Sum(h, i) <= x
    BY <1>2
  <2> HIDE DEF x
  <2>6. Sum(h, i + 1) \in Nat /\ Sum(h, i + 1) <= x + m
    BY <2>1, <2>3, <2>4, <2>5
  <2> QED BY <2>1, <2>4, <2>6
<1>3. 0..n \subseteq T
  <2> HIDE DEF T
  <2> QED BY <1>1, <1>2, Induction
<1> QED BY <1>3

----------------------------------------------------------------------------

LEMMA LevellersAre ==
  /\ BlockBuffers \in Nat \ {0} /\ WindowBlocks \in Nat \ {0} /\ Enough \in Nat
  /\ \A q \in LevellerParams :
       /\ q.target \in Int /\ q.max \in Nat /\ q.zone \in Nat
       /\ q.up \in Nat \ {0} /\ q.down \in Nat \ {0} /\ q.creep \in Nat \ {0}
       /\ q.gate \in Int /\ q.gate > Unknown
<1>1. LevellerParams \subseteq
        [target : Int, max : Nat, up : Nat \ {0}, down : Nat \ {0}, creep : Nat \ {0},
         zone : Nat, gate : {g \in Int : g > Unknown}]
  BY LevellerAssumption
<1>2. ASSUME NEW q \in LevellerParams
      PROVE  /\ q.target \in Int /\ q.max \in Nat /\ q.zone \in Nat
             /\ q.up \in Nat \ {0} /\ q.down \in Nat \ {0} /\ q.creep \in Nat \ {0}
             /\ q.gate \in Int /\ q.gate > Unknown
  <2> DEFINE gates == {g \in Int : g > Unknown}
  <2>1. \A g \in gates : g \in Int /\ g > Unknown
    OBVIOUS
  <2>2. LevellerParams \subseteq
          [target : Int, max : Nat, up : Nat \ {0}, down : Nat \ {0}, creep : Nat \ {0},
           zone : Nat, gate : gates]
    BY <1>1
  <2> HIDE DEF gates
  <2>3. q \in [target : Int, max : Nat, up : Nat \ {0}, down : Nat \ {0}, creep : Nat \ {0},
               zone : Nat, gate : gates]
    BY <2>2
  <2>4. q.gate \in gates
    BY <2>3
  <2> QED BY <2>1, <2>3, <2>4
<1>3. BlockBuffers \in Nat \ {0} /\ WindowBlocks \in Nat \ {0} /\ Enough \in Nat
  BY LevellerAssumption
<1> QED BY <1>2, <1>3

\* How loud it gets.
Loud(m) ==
  /\ m \in Nat
  /\ \A q \in Programmes : Energy(q) \in Nat /\ Energy(q) <= m
  /\ \A s \in 0..WindowBlocks * m : Lufs(s) \in Int

LEMMA HowLoud == \E m : Loud(m)
<1>1. PICK p \in Programmes : /\ \A q \in Programmes : Energy(q) <= Energy(p)
                              /\ \A s \in 0..WindowBlocks * Energy(p) : Lufs(s) \in Int
  BY LevellerAssumption
<1>2. \A q \in Programmes : Energy(q) \in Nat
  <2>1. \A q \in Programmes : q \in Seq(Nat)
    BY LevellerAssumption
  <2> QED BY <2>1, EnergyIs
<1> DEFINE m == Energy(p)
<1>3. m \in Nat /\ (\A q \in Programmes : Energy(q) <= m) /\ \A s \in 0..WindowBlocks * m : Lufs(s) \in Int
  BY <1>1, <1>2
<1> HIDE DEF m
<1>4. Loud(m)
  BY <1>2, <1>3 DEF Loud
<1> QED BY <1>4

\* The buffers of j blocks.
Span(j) == j * BlockBuffers

LEMMA SpanIs ==
  ASSUME NEW j \in Nat
  PROVE  /\ Span(j) \in Nat /\ Span(j + 1) = Span(j) + BlockBuffers
         /\ Span(1) = BlockBuffers
         /\ \A k \in 0..j : Span(k) \in Nat /\ Span(k) <= Span(j)
<1> DEFINE b == BlockBuffers
<1>1. b \in Nat
  BY LevellersAre
<1> HIDE DEF b
<1>2. j * b \in Nat /\ (j + 1) * b = j * b + b /\ 1 * b = b
  BY <1>1
<1>3. ASSUME NEW k \in 0..j PROVE k * b \in Nat /\ k * b <= j * b
  <2> DEFINE d == j - k
  <2>1. d \in Nat /\ j = k + d /\ k \in Nat
    OBVIOUS
  <2> HIDE DEF d
  <2>2. j * b = k * b + d * b /\ d * b \in Nat /\ k * b \in Nat
    BY <1>1, <2>1
  <2> QED BY <2>2
<1> QED BY <1>2, <1>3 DEF Span, b

\* The place of the block j back from where the next one goes.
Behind(h, j) == IF j <= h THEN h - j ELSE (h - j) + WindowBlocks

LEMMA BehindIs ==
  ASSUME NEW h \in 0..WindowBlocks - 1, NEW to, to = (h + 1) % WindowBlocks
  PROVE  /\ to \in 0..WindowBlocks - 1 /\ Behind(to, 1) = h
         /\ \A j \in 1..WindowBlocks : Behind(h, j) \in 0..WindowBlocks - 1
         /\ \A j \in 2..WindowBlocks : Behind(to, j) = Behind(h, j - 1) /\ Behind(h, j - 1) # h
         /\ \A i \in 0..WindowBlocks - 1 : \E j \in 1..WindowBlocks : Behind(to, j) = i
<1> DEFINE w == WindowBlocks
<1>1. w \in Nat \ {0} /\ h \in Nat /\ h < w
  BY LevellersAre
<1>2. to = IF h + 1 = w THEN 0 ELSE h + 1
  <2> HIDE DEF w
  <2>1. CASE h + 1 = w
    <3>1. w % w = 0
      BY <1>1
    <3> QED BY <2>1, <3>1 DEF w
  <2>2. CASE h + 1 # w
    <3>1. h + 1 \in Nat /\ h + 1 < w
      BY <1>1, <2>2
    <3>2. \A x \in Nat : x < w => x % w = x
      BY <1>1
    <3>3. (h + 1) % w = h + 1
      BY <3>1, <3>2
    <3> QED BY <2>2, <3>3 DEF w
  <2> QED BY <2>1, <2>2
<1> HIDE DEF w
<1>3. to \in 0..w - 1 /\ Behind(to, 1) = h
  BY <1>1, <1>2 DEF Behind, w
<1>4. \A j \in 1..w : Behind(h, j) \in 0..w - 1
  BY <1>1 DEF Behind, w
<1>5. \A j \in 2..w : Behind(to, j) = Behind(h, j - 1) /\ Behind(h, j - 1) # h
  BY <1>1, <1>2 DEF Behind, w
<1>6. ASSUME NEW i \in 0..w - 1 PROVE \E j \in 1..w : Behind(to, j) = i
  <2> DEFINE j == IF i < to THEN to - i ELSE (to - i) + w
  <2>1. j \in 1..w /\ Behind(to, j) = i
    BY <1>1, <1>3 DEF Behind, w
  <2> QED BY <2>1
<1> QED BY <1>3, <1>4, <1>5, <1>6 DEF w

\* A block's mean.
LEMMA MeanIs ==
  ASSUME NEW b \in Nat \ {0}, NEW x \in Nat, NEW e \in Nat
  PROVE  /\ x \div b \in Nat
         /\ x = b * e => x \div b = e
         /\ x <= b * e => x \div b <= e
<1> DEFINE q == x \div b
           r == x % b
<1>1. q \in Int /\ r \in 0..b - 1 /\ x = b * q + r
  OBVIOUS
<1> HIDE DEF q, r
<1>2. q >= 0
  <2>1. SUFFICES ASSUME q <= -1 PROVE FALSE
    BY <1>1
  <2> DEFINE d == -1 - q
  <2>2. d \in Nat /\ q = -1 - d
    BY <1>1, <2>1
  <2> HIDE DEF d
  <2>3. b * q = -b - b * d /\ b * d \in Nat
    BY <1>1, <2>2
  <2> QED BY <1>1, <2>3
<1>3. ASSUME x <= b * e PROVE q <= e
  <2>1. SUFFICES ASSUME q >= e + 1 PROVE FALSE
    BY <1>1
  <2> DEFINE d == q - (e + 1)
  <2>2. d \in Nat /\ q = (e + 1) + d
    BY <1>1, <2>1
  <2> HIDE DEF d
  <2>3. b * q = b * e + b + b * d /\ b * d \in Nat /\ b * e \in Nat
    BY <1>1, <2>2
  <2> QED BY <1>1, <1>3, <2>3
<1>4. ASSUME x = b * e PROVE q = e
  <2>1. q <= e
    <3>1. b * e \in Nat /\ x <= b * e
      BY <1>4
    <3> QED BY <1>3, <3>1
  <2>2. CASE q = e
    BY <2>2
  <2>3. CASE q # e
    <3> DEFINE d == e - (q + 1)
    <3>1. d \in Nat /\ e = (q + 1) + d
      BY <1>1, <1>2, <2>1, <2>3
    <3> HIDE DEF d
    <3>2. b * e = b * q + b + b * d /\ b * d \in Nat /\ b * q \in Int
      BY <1>1, <3>1
    <3> QED BY <1>1, <1>4, <3>2
  <2> QED BY <2>2, <2>3
<1>5. q \in Nat
  BY <1>1, <1>2
<1> QED BY <1>3, <1>4, <1>5 DEF q

\* The gain moves towards the target, and no further.
LEMMA MovedIs ==
  ASSUME leveller \in LevellerParams, gainDb \in Int, NEW t \in Int
  PROVE  /\ Moved(t) \in Int
         /\ t = gainDb => Moved(t) = gainDb
         /\ \/ gainDb <= Moved(t) /\ Moved(t) <= t
            \/ t <= Moved(t) /\ Moved(t) <= gainDb
         /\ Moved(t) = t \/ Distance(t, Moved(t)) + 1 <= Distance(t, gainDb)
         /\ Distance(t, Moved(t)) <= Distance(t, gainDb)
<1> DEFINE step == IF Distance(t, gainDb) <= leveller.zone THEN leveller.creep
                   ELSE IF t > gainDb THEN leveller.up ELSE leveller.down
<1>1. step \in Nat \ {0}
  BY LevellersAre
<1>2. Moved(t) = gainDb + Clamp(t - gainDb, -step, step)
  BY DEF Moved
<1> HIDE DEF step
<1> QED BY <1>1, <1>2 DEF Clamp, Distance

----------------------------------------------------------------------------

Measured(p) == Lufs(WindowBlocks * Energy(p))

\* What a programme that has been on for a window leads to.
AtRest(p, n) ==
  IF Energy(p) = 0 \/ Measured(p) < leveller.gate THEN targetDb = gainDb
  ELSE /\ targetDb = Wanted(Measured(p))
       /\ \/ gainDb = targetDb
          \/ \E q, r \in LevellerParams :
               Distance(targetDb, gainDb) + n < (Span(WindowBlocks) + BlockBuffers) + (q.max + r.max)

\* The programme p has been on for the last n buffers.
HeardSo(p, n) ==
  /\ n >= accCount => acc = accCount * Energy(p)
  /\ \A j \in 1..WindowBlocks :
       n >= accCount + Span(j) => filled >= j /\ ring[Behind(head, j)] = Energy(p)

Within(x) == \E q \in LevellerParams : -q.max <= x /\ x <= q.max

Bounded(m) ==
  /\ acc <= accCount * m
  /\ \A i \in 0..WindowBlocks - 1 : ring[i] <= m

MeterTypes ==
  /\ accCount \in 0..BlockBuffers - 1 /\ acc \in Nat /\ (accCount = 0 => acc = 0)
  /\ ring \in [0..WindowBlocks - 1 -> Nat] /\ head \in 0..WindowBlocks - 1
  /\ filled \in 0..WindowBlocks /\ sum = Sum(ring, WindowBlocks)

LevellerTypes ==
  /\ leveller \in LevellerParams /\ playing \in Programmes /\ steady \in Nat
  /\ gainDb \in Int /\ targetDb \in Int /\ Within(gainDb) /\ Within(targetDb)

LevellerInv ==
  /\ LevellerTypes /\ MeterTypes /\ \E m : Loud(m) /\ Bounded(m)
  /\ HeardSo(playing, steady)
  /\ steady >= accCount + Span(WindowBlocks) => AtRest(playing, steady)

\* The meter's sum is that of the ring.
LEMMA RingSum ==
  MapThenSumSet(LAMBDA i : ring'[i], 0..WindowBlocks - 1) = Sum(ring', WindowBlocks)
<1> DEFINE D == SUBSET (0..WindowBlocks - 1)
           Is(f) == f = [s \in D |->
                           IF s = {} THEN 0
                           ELSE ring'[CHOOSE x \in s : TRUE] + f[s \ {CHOOSE x \in s : TRUE}]]
<1>1. MapThenSumSet(LAMBDA i : ring'[i], 0..WindowBlocks - 1) = (CHOOSE f : Is(f))[0..WindowBlocks - 1]
  BY Zenon DEF MapThenSumSet, MapThenFoldSet
<1>2. \A f : Is(f) <=> IsFold(f, ring', WindowBlocks)
  BY Zenon DEF IsFold
<1> HIDE DEF Is
<1>3. (CHOOSE f : Is(f)) = (CHOOSE f : IsFold(f, ring', WindowBlocks))
  BY <1>2, Zenon
<1> QED BY <1>1, <1>3, Zenon DEF Sum

\* One buffer in the meter, the block it may finish put in its place.
MeterStep(e) ==
  \/ /\ accCount + 1 < BlockBuffers
     /\ accCount' = accCount + 1 /\ acc' = acc + e
     /\ UNCHANGED <<ring, head, filled, sum, lufs>>
  \/ /\ accCount + 1 = BlockBuffers
     /\ accCount' = 0 /\ acc' = 0
     /\ ring' = [ring EXCEPT ![head] = (acc + e) \div BlockBuffers]
     /\ head' = (head + 1) % WindowBlocks
     /\ filled' = (IF filled < WindowBlocks THEN filled + 1 ELSE filled)
     /\ lufs' = (IF filled' >= WindowBlocks /\ sum' > 0 THEN Lufs(sum') ELSE Unknown)

LEMMA MeterIs ==
  ASSUME MeterTypes, NEW p \in Programmes, Energy(p) \in Nat, Meter(p)
  PROVE  MeterTypes' /\ MeterStep(Energy(p))
<1> DEFINE e == Energy(p)
           b == BlockBuffers
           mean == (acc + e) \div b
<1>1. b \in Nat \ {0} /\ WindowBlocks \in Nat \ {0} /\ e \in Nat
  BY LevellersAre
<1>2. /\ accCount \in 0..b - 1 /\ acc \in Nat /\ (accCount = 0 => acc = 0)
      /\ ring \in [0..WindowBlocks - 1 -> Nat] /\ head \in 0..WindowBlocks - 1
      /\ filled \in 0..WindowBlocks /\ sum = Sum(ring, WindowBlocks)
  BY DEF MeterTypes
<1>3. CASE ~Crossed
  <2>1. accCount + 1 < b
    BY <1>1, <1>2, <1>3 DEF Crossed
  <2>2. acc' = acc + e /\ accCount' = accCount + 1 /\ UNCHANGED <<ring, head, filled, sum, lufs>>
    BY <1>3 DEF Meter
  <2> HIDE DEF e, b
  <2>3. accCount' \in 0..b - 1 /\ acc' \in Nat /\ accCount' # 0
    BY <1>1, <1>2, <2>1, <2>2
  <2>4. MeterTypes'
    BY <1>2, <2>2, <2>3 DEF MeterTypes, b
  <2> QED BY <2>1, <2>2, <2>4 DEF MeterStep, b, e
<1>4. CASE Crossed
  <2>1. accCount + 1 = b
    BY <1>1, <1>2, <1>4 DEF Crossed
  <2>2. Block(mean) /\ acc' = 0 /\ accCount' = 0
    BY <1>4 DEF Meter
  <2>3. /\ ring' = [ring EXCEPT ![head] = mean]
        /\ head' = (head + 1) % WindowBlocks
        /\ filled' = (IF filled < WindowBlocks THEN filled + 1 ELSE filled)
        /\ sum' = (IF head' = 0 THEN MapThenSumSet(LAMBDA i : ring'[i], DOMAIN ring)
                   ELSE sum - ring[head] + mean)
        /\ lufs' = (IF filled' >= WindowBlocks /\ sum' > 0 THEN Lufs(sum') ELSE Unknown)
    BY <2>2 DEF Block
  <2>4. mean \in Nat
    <3>1. acc + e \in Nat
      BY <1>1, <1>2
    <3> QED BY <1>1, <3>1, MeanIs
  <2>5. MeterStep(e)
    BY <2>1, <2>2, <2>3 DEF MeterStep
  <2> HIDE DEF mean, e, b
  <2>6. ring' \in [0..WindowBlocks - 1 -> Nat] /\ ring'[head] = mean
        /\ \A i \in 0..WindowBlocks - 1 : i # head => ring'[i] = ring[i]
    BY <1>2, <2>3, <2>4
  <2>7. head' \in 0..WindowBlocks - 1
    BY <1>2, <2>3, BehindIs
  <2>8. filled' \in 0..WindowBlocks
    BY <1>1, <1>2, <2>3
  <2>9. sum' = Sum(ring', WindowBlocks)
    <3>1. CASE head' = 0
      <4>1. DOMAIN ring = 0..WindowBlocks - 1
        BY <1>2
      <4>2. sum' = MapThenSumSet(LAMBDA i : ring'[i], DOMAIN ring)
        BY <2>3, <3>1, Zenon
      <4>3. sum' = MapThenSumSet(LAMBDA i : ring'[i], 0..WindowBlocks - 1)
        BY <4>1, <4>2, Zenon
      <4> QED BY <4>3, RingSum, Zenon
    <3>2. CASE head' # 0
      <4>1. sum' = (sum - ring[head]) + mean
        BY <2>3, <3>2, Zenon
      <4>2. \A i \in 0..WindowBlocks - 1 : ring[i] \in Int /\ (i # head => ring'[i] = ring[i])
        BY <1>2, <2>6
      <4>3. mean \in Int /\ WindowBlocks \in Nat /\ head \in 0..WindowBlocks - 1
        BY <1>1, <1>2, <2>4
      <4>4. Sum(ring', WindowBlocks) = (Sum(ring, WindowBlocks) - ring[head]) + mean
        <5>1. WindowBlocks \in Nat /\ mean \in Int /\ head \in 0..WindowBlocks - 1 /\ ring'[head] = mean
          BY <2>6, <4>3
        <5>2. OneChanged(ring, ring', WindowBlocks, head, mean)
          BY <4>2, <5>1 DEF OneChanged
        <5> QED BY <5>2, SumChanged
      <4>5. sum = Sum(ring, WindowBlocks)
        BY <1>2
      <4> QED BY <4>1, <4>4, <4>5, Zenon
    <3> QED BY <3>1, <3>2
  <2>10. accCount' \in 0..b - 1 /\ acc' \in Nat /\ (accCount' = 0 => acc' = 0)
    BY <1>1, <2>2
  <2>11. MeterTypes'
    BY <2>6, <2>7, <2>8, <2>9, <2>10 DEF MeterTypes, b
  <2> QED BY <2>5, <2>11 DEF e
<1> QED BY <1>3, <1>4

\* It stays below the loudest.
LEMMA StaysBounded ==
  ASSUME MeterTypes, NEW m, Loud(m), Bounded(m), NEW e \in Nat, e <= m, MeterStep(e), MeterTypes'
  PROVE  /\ Bounded(m)'
         /\ sum' \in 0..WindowBlocks * m
<1> DEFINE b == BlockBuffers
           mean == (acc + e) \div b
<1>1. b \in Nat \ {0} /\ WindowBlocks \in Nat \ {0} /\ m \in Nat
  BY LevellersAre DEF Loud
<1>2. /\ accCount \in 0..b - 1 /\ acc \in Nat /\ acc <= accCount * m
      /\ ring \in [0..WindowBlocks - 1 -> Nat] /\ head \in 0..WindowBlocks - 1
      /\ \A i \in 0..WindowBlocks - 1 : ring[i] <= m
  BY DEF MeterTypes, Bounded
<1>3. (accCount + 1) * m = accCount * m + m /\ accCount * m \in Nat
  BY <1>1, <1>2
<1>4. acc + e \in Nat /\ acc + e <= (accCount + 1) * m
  BY <1>1, <1>2, <1>3
<1>5. Bounded(m)'
  <2>1. CASE accCount + 1 < b
    <3>1. accCount' = accCount + 1 /\ acc' = acc + e /\ ring' = ring
      BY <1>2, <2>1 DEF MeterStep
    <3> QED BY <1>2, <1>4, <3>1 DEF Bounded
  <2>2. CASE accCount + 1 = b
    <3>1. acc' = 0 /\ accCount' = 0 /\ ring' = [ring EXCEPT ![head] = mean]
      BY <1>2, <2>2 DEF MeterStep
    <3>2. mean <= m /\ mean \in Nat
      <4>1. acc + e <= b * m
        BY <1>4, <2>2
      <4> QED BY <1>1, <1>4, <4>1, MeanIs
    <3> HIDE DEF mean
    <3>3. \A i \in 0..WindowBlocks - 1 : ring'[i] <= m
      BY <1>2, <3>1, <3>2
    <3>4. acc' <= accCount' * m
      BY <1>1, <3>1
    <3> QED BY <3>3, <3>4 DEF Bounded
  <2> QED BY <1>2, <2>1, <2>2 DEF MeterStep
<1>6. sum' \in 0..WindowBlocks * m
  <2>1. ring' \in [0..WindowBlocks - 1 -> Nat] /\ sum' = Sum(ring', WindowBlocks)
    BY DEF MeterTypes
  <2>2. \A i \in 0..WindowBlocks - 1 : ring'[i] \in Nat /\ ring'[i] <= m
    BY <1>5, <2>1 DEF Bounded
  <2>3. Sum(ring', WindowBlocks) \in Nat /\ Sum(ring', WindowBlocks) <= WindowBlocks * m
    BY <1>1, <2>2, SumBounded
  <2> DEFINE x == WindowBlocks * m
             y == Sum(ring', WindowBlocks)
  <2>4. x \in Nat /\ y \in Nat /\ y <= x
    BY <1>1, <2>3
  <2> HIDE DEF x, y
  <2>5. y \in 0..x
    BY <2>4
  <2> QED BY <2>1, <2>5 DEF x, y
<1> QED BY <1>5, <1>6

\* One buffer more of the same programme.
LEMMA HeardSoStill ==
  ASSUME MeterTypes, NEW p \in Programmes, Energy(p) \in Nat, MeterStep(Energy(p)),
         NEW n \in Nat, HeardSo(p, n), NEW k \in Nat, k <= n + 1
  PROVE  HeardSo(p, k)'
<1> DEFINE e == Energy(p)
           b == BlockBuffers
           mean == (acc + e) \div b
<1>1. b \in Nat \ {0} /\ WindowBlocks \in Nat \ {0} /\ e \in Nat
  BY LevellersAre
<1>2. /\ accCount \in 0..b - 1 /\ acc \in Nat
      /\ ring \in [0..WindowBlocks - 1 -> Nat] /\ head \in 0..WindowBlocks - 1
      /\ filled \in 0..WindowBlocks
  BY DEF MeterTypes
<1>3. n >= accCount => acc = accCount * e
  BY DEF HeardSo
<1>4. \A j \in 1..WindowBlocks :
        n >= accCount + Span(j) => filled >= j /\ ring[Behind(head, j)] = e
  BY DEF HeardSo
<1>5. \A j \in Nat : Span(j) \in Nat /\ Span(j + 1) = Span(j) + b /\ Span(1) = b
  BY SpanIs
<1> HIDE DEF mean, e, b
<1>6. CASE accCount + 1 < b
  <2>1. /\ accCount' = accCount + 1 /\ acc' = acc + e
        /\ UNCHANGED <<ring, head, filled>>
    BY <1>2, <1>6 DEF MeterStep, e, b
  <2>2. ASSUME k >= accCount' PROVE acc' = accCount' * e
    <3>1. n >= accCount
      BY <1>2, <2>1, <2>2
    <3>2. (accCount + 1) * e = accCount * e + e
      BY <1>1, <1>2
    <3> QED BY <1>3, <2>1, <3>1, <3>2
  <2>3. ASSUME NEW j \in 1..WindowBlocks, k >= accCount' + Span(j)
        PROVE  filled' >= j /\ ring'[Behind(head', j)] = e
    <3>1. n >= accCount + Span(j)
      <4>1. j \in Nat
        OBVIOUS
      <4>2. Span(j) \in Nat
        BY <1>5, <4>1
      <4> QED BY <1>2, <2>1, <2>3, <4>2
    <3> QED BY <1>4, <2>1, <3>1
  <2> QED BY <2>1, <2>2, <2>3 DEF HeardSo, e
<1>7. CASE accCount + 1 = b
  <2>1. /\ accCount' = 0 /\ acc' = 0 /\ ring' = [ring EXCEPT ![head] = mean]
        /\ head' = (head + 1) % WindowBlocks
        /\ filled' = (IF filled < WindowBlocks THEN filled + 1 ELSE filled)
    BY <1>2, <1>7 DEF MeterStep, e, b, mean
  <2>2. acc' = accCount' * e
    BY <1>1, <2>1
  <2>3. ring'[head] = mean /\ \A i \in 0..WindowBlocks - 1 : i # head => ring'[i] = ring[i]
    BY <1>2, <2>1
  <2>4. ASSUME NEW j \in 1..WindowBlocks, k >= accCount' + Span(j)
        PROVE  filled' >= j /\ ring'[Behind(head', j)] = e
    <3>1. n + 1 >= Span(j)
      BY <1>5, <2>1, <2>4
    <3>2. CASE j = 1
      <4>1. n >= accCount
        BY <1>1, <1>2, <1>5, <1>7, <3>1, <3>2
      <4>2. acc + e = b * e
        <5>1. (accCount + 1) * e = accCount * e + e
          BY <1>1, <1>2
        <5> QED BY <1>3, <1>7, <4>1, <5>1
      <4>3. mean = e
        <5>1. acc + e \in Nat
          BY <1>1, <1>2
        <5> QED BY <1>1, <4>2, <5>1, MeanIs DEF mean
      <4>4. Behind(head', 1) = head
        BY <1>2, <2>1, BehindIs
      <4>5. filled' >= 1
        BY <1>1, <1>2, <2>1
      <4> QED BY <2>3, <3>2, <4>3, <4>4, <4>5
    <3>3. CASE j # 1
      <4>1. j \in 2..WindowBlocks /\ j - 1 \in 1..WindowBlocks /\ j - 1 \in Nat /\ (j - 1) + 1 = j
        BY <1>1, <3>3
      <4>2. Span(j) = Span(j - 1) + b /\ Span(j - 1) \in Nat
        BY <1>5, <4>1
      <4>3. n >= accCount + Span(j - 1)
        BY <1>1, <1>2, <1>7, <3>1, <4>2
      <4>4. filled >= j - 1 /\ ring[Behind(head, j - 1)] = e
        BY <1>4, <4>1, <4>3
      <4>5. Behind(head', j) = Behind(head, j - 1) /\ Behind(head, j - 1) # head
        BY <1>2, <2>1, <4>1, BehindIs
      <4>6. Behind(head, j - 1) \in 0..WindowBlocks - 1
        BY <1>2, <2>1, <4>1, BehindIs
      <4>7. filled' >= j
        BY <1>1, <1>2, <2>1, <4>4
      <4> QED BY <2>3, <4>4, <4>5, <4>6, <4>7
    <3> QED BY <3>2, <3>3
  <2> QED BY <2>1, <2>2, <2>4 DEF HeardSo, e
<1> QED BY <1>2, <1>6, <1>7 DEF MeterStep, b

\* When all the window has heard is one programme, the sum is that one's.
LEMMA WholeWindow ==
  ASSUME MeterTypes, NEW p \in Programmes, Energy(p) \in Nat, MeterStep(Energy(p)),
         MeterTypes', NEW n \in Nat, HeardSo(p, n)', accCount + 1 = BlockBuffers,
         n >= Span(WindowBlocks)
  PROVE  /\ filled' = WindowBlocks /\ sum' = WindowBlocks * Energy(p)
         /\ lufs' = IF Energy(p) = 0 THEN Unknown ELSE Measured(p)
<1> DEFINE e == Energy(p)
           w == WindowBlocks
<1>1. w \in Nat \ {0} /\ e \in Nat /\ accCount \in Nat
  BY LevellersAre DEF MeterTypes
<1>2. accCount' = 0 /\ head' = (head + 1) % w /\ head \in 0..w - 1
      /\ lufs' = (IF filled' >= w /\ sum' > 0 THEN Lufs(sum') ELSE Unknown)
  BY LevellersAre DEF MeterStep, MeterTypes
<1>3. \A j \in 1..w : n >= Span(j)
  <2>1. Span(w) \in Nat /\ \A j \in 0..w : Span(j) \in Nat /\ Span(j) <= Span(w)
    BY <1>1, SpanIs
  <2> QED BY <1>1, <2>1
<1>4. \A j \in 1..w : filled' >= j /\ ring'[Behind(head', j)] = e
  <2>1. \A j \in 1..w : n >= accCount' + Span(j) => filled' >= j /\ ring'[Behind(head', j)] = e
    BY DEF HeardSo
  <2>2. \A j \in 1..w : Span(j) \in Nat
    <3>1. \A j \in 1..w : j \in Nat
      OBVIOUS
    <3> QED BY <3>1, SpanIs
  <2>3. \A j \in 1..w : n >= accCount' + Span(j)
    BY <1>2, <1>3, <2>2
  <2> QED BY <2>1, <2>3
<1>5. \A i \in 0..w - 1 : ring'[i] = e
  <2>1. \A i \in 0..w - 1 : \E j \in 1..w : Behind(head', j) = i
    BY <1>2, BehindIs
  <2> QED BY <1>4, <2>1
<1>6. filled' = w
  <2>1. filled' \in 0..w /\ w \in 1..w
    BY <1>1 DEF MeterTypes
  <2> QED BY <1>4, <2>1
<1>7. sum' = w * e
  <2>1. sum' = Sum(ring', w)
    BY DEF MeterTypes
  <2> HIDE DEF e, w
  <2>2. Sum(ring', w) = w * e
    BY <1>1, <1>5, SumOfEqual
  <2> QED BY <2>1, <2>2
<1>8. sum' > 0 <=> e # 0
  <2> HIDE DEF e, w
  <2>1. CASE e = 0
    BY <1>1, <1>7, <2>1
  <2>2. CASE e # 0
    <3>1. w * e > 0
      <4> DEFINE a == w - 1
      <4>1. a \in Nat /\ w = 1 + a /\ e > 0
        BY <1>1, <2>2
      <4> HIDE DEF a
      <4>2. w * e = e + a * e /\ a * e \in Nat
        BY <1>1, <4>1
      <4> QED BY <1>1, <4>1, <4>2
    <3> QED BY <1>7, <2>2, <3>1
  <2> QED BY <2>1, <2>2
<1>9. w >= w
  BY <1>1
<1>10. lufs' = IF e = 0 THEN Unknown ELSE Lufs(sum')
  BY <1>2, <1>6, <1>8, <1>9
<1>11. Lufs(sum') = Measured(p)
  BY <1>7, Zenon DEF Measured
<1> QED BY <1>6, <1>7, <1>10, <1>11, Zenon

\* Behind the gate, nothing but the gain as it is; in front of it what the settings want,
\* which they bound.
LEMMA WantedIs ==
  ASSUME leveller \in LevellerParams, NEW x \in Int
  PROVE  /\ Wanted(x) \in Int /\ -leveller.max <= Wanted(x) /\ Wanted(x) <= leveller.max
BY LevellersAre DEF Wanted, Clamp

\* The gain on its way to a target that stays where it is.
LEMMA RestKept ==
  ASSUME LevellerTypes, NEW p \in Programmes, NEW n \in Nat, AtRest(p, n),
         targetDb' = targetDb, gainDb' = Moved(targetDb'), leveller' = leveller,
         NEW k \in Nat, k <= n + 1
  PROVE  AtRest(p, k)'
<1>1. leveller \in LevellerParams /\ gainDb \in Int /\ targetDb \in Int
  BY DEF LevellerTypes
<1>2. /\ targetDb = gainDb => gainDb' = targetDb'
      /\ gainDb' \in Int
      /\ gainDb' = targetDb' \/ Distance(targetDb', gainDb') + 1 <= Distance(targetDb, gainDb)
  BY <1>1, MovedIs
<1>3. /\ Energy(p)' = Energy(p) /\ Measured(p)' = Measured(p)
      /\ Wanted(Measured(p))' = Wanted(Measured(p))
  <2>1. Energy(p)' = Energy(p) /\ Measured(p)' = Measured(p)
    OBVIOUS
  <2>2. Wanted(Measured(p))' = Wanted(Measured(p))
    BY DEF Wanted
  <2> QED BY <2>1, <2>2
<1>4. CASE Energy(p) = 0 \/ Measured(p) < leveller.gate
  <2>1. targetDb = gainDb
    BY <1>4, Zenon DEF AtRest
  <2> QED BY <1>2, <1>3, <1>4, <2>1, Zenon DEF AtRest
<1>5. CASE ~(Energy(p) = 0 \/ Measured(p) < leveller.gate)
  <2>1. /\ targetDb = Wanted(Measured(p))
        /\ \/ gainDb = targetDb
           \/ \E q, r \in LevellerParams :
                Distance(targetDb, gainDb) + n < (Span(WindowBlocks) + BlockBuffers) + (q.max + r.max)
    BY <1>5, Zenon DEF AtRest
  <2>2. gainDb' = targetDb' \/
          \E q, r \in LevellerParams :
            Distance(targetDb', gainDb') + k < (Span(WindowBlocks) + BlockBuffers) + (q.max + r.max)
    <3>1. CASE gainDb = targetDb
      BY <1>2, <3>1
    <3>2. CASE gainDb' = targetDb'
      BY <3>2
    <3>3. CASE gainDb # targetDb /\ gainDb' # targetDb'
      <4>1. PICK q, r \in LevellerParams :
              Distance(targetDb, gainDb) + n < (Span(WindowBlocks) + BlockBuffers) + (q.max + r.max)
        BY <2>1, <3>3
      <4> DEFINE bound == (Span(WindowBlocks) + BlockBuffers) + (q.max + r.max)
                 far == Distance(targetDb, gainDb)
                 near == Distance(targetDb', gainDb')
      <4>2. far \in Nat /\ near \in Nat /\ bound \in Int
        <5>1. Span(WindowBlocks) \in Nat /\ BlockBuffers \in Nat /\ q.max \in Nat /\ r.max \in Nat
          BY LevellersAre, SpanIs
        <5> QED BY <1>1, <1>2, <5>1 DEF Distance
      <4>3. far + n < bound /\ near + 1 <= far
        BY <1>2, <3>3, <4>1
      <4> HIDE DEF bound, far, near
      <4>4. near + k < bound
        BY <4>2, <4>3
      <4> QED BY <4>4 DEF bound, near
    <3> QED BY <3>1, <3>2, <3>3
  <2> QED BY <1>3, <1>5, <2>1, <2>2, Zenon DEF AtRest
<1> QED BY <1>4, <1>5

\* The bounds of the gain.
LEMMA GainStaysWithin ==
  ASSUME LevellerTypes, NEW t \in Int, Within(t)
  PROVE  Within(Moved(t)) /\ Moved(t) \in Int
<1>1. leveller \in LevellerParams /\ gainDb \in Int
  BY DEF LevellerTypes
<1>2. PICK q \in LevellerParams : -q.max <= gainDb /\ gainDb <= q.max
  BY DEF LevellerTypes, Within
<1>3. PICK r \in LevellerParams : -r.max <= t /\ t <= r.max
  BY DEF Within
<1>4. q.max \in Nat /\ r.max \in Nat
  BY LevellersAre
<1>5. /\ Moved(t) \in Int
      /\ \/ gainDb <= Moved(t) /\ Moved(t) <= t
         \/ t <= Moved(t) /\ Moved(t) <= gainDb
  BY <1>1, MovedIs
<1>6. CASE q.max >= r.max
  <2>1. -q.max <= Moved(t) /\ Moved(t) <= q.max
    BY <1>1, <1>2, <1>3, <1>4, <1>5, <1>6
  <2> QED BY <1>5, <2>1 DEF Within
<1>7. CASE r.max >= q.max
  <2>1. -r.max <= Moved(t) /\ Moved(t) <= r.max
    BY <1>1, <1>2, <1>3, <1>4, <1>5, <1>7
  <2> QED BY <1>5, <2>1 DEF Within
<1> QED BY <1>4, <1>6, <1>7

\* The end of a block is where a target is set, and with a whole window of one programme
\* it is set where that one belongs.
LEMMA RestReached ==
  ASSUME LevellerTypes, LevellerTypes', NEW p \in Programmes, NEW k \in Nat,
         Energy(p) \in Nat, Measured(p) \in Int, filled' = WindowBlocks,
         lufs' = IF Energy(p) = 0 THEN Unknown ELSE Measured(p),
         targetDb' = UpdateTarget(filled' >= WindowBlocks, lufs'),
         gainDb' = Moved(targetDb'), leveller' = leveller,
         k < Span(WindowBlocks) + BlockBuffers
  PROVE  AtRest(p, k)'
<1>1. leveller \in LevellerParams /\ gainDb \in Int /\ targetDb' \in Int /\ gainDb' \in Int
  BY DEF LevellerTypes
<1>2. /\ Energy(p)' = Energy(p) /\ Measured(p)' = Measured(p)
      /\ Wanted(Measured(p))' = Wanted(Measured(p))
  <2>1. Energy(p)' = Energy(p) /\ Measured(p)' = Measured(p)
    OBVIOUS
  <2>2. Wanted(Measured(p))' = Wanted(Measured(p))
    BY DEF Wanted
  <2> QED BY <2>1, <2>2
<1>3. filled' >= WindowBlocks
  BY LevellersAre
<1>4. targetDb' = IF lufs' < leveller.gate THEN gainDb ELSE Wanted(lufs')
  BY <1>3 DEF UpdateTarget, Gated
<1>5. leveller.gate \in Int /\ leveller.gate > Unknown /\ Unknown \in Int
  BY <1>1, LevellersAre DEF Unknown
<1>6. /\ targetDb' = gainDb => gainDb' = gainDb
      /\ Distance(targetDb', gainDb') <= Distance(targetDb', gainDb)
  BY <1>1, MovedIs
<1>7. CASE Energy(p) = 0 \/ Measured(p) < leveller.gate
  <2>1. lufs' < leveller.gate
    BY <1>5, <1>7
  <2>2. targetDb' = gainDb'
    BY <1>4, <1>6, <2>1
  <2> QED BY <1>2, <1>7, <2>2, Zenon DEF AtRest
<1>8. CASE ~(Energy(p) = 0 \/ Measured(p) < leveller.gate)
  <2>1. targetDb' = Wanted(Measured(p))
    BY <1>4, <1>5, <1>8, Zenon
  <2>2. PICK q \in LevellerParams : -q.max <= gainDb /\ gainDb <= q.max
    BY DEF LevellerTypes, Within
  <2>3. /\ q.max \in Nat /\ leveller.max \in Nat
        /\ -leveller.max <= targetDb' /\ targetDb' <= leveller.max
    BY <1>1, <2>1, LevellersAre, WantedIs
  <2>4. Distance(targetDb', gainDb) <= q.max + leveller.max
        /\ Distance(targetDb', gainDb) \in Nat /\ Distance(targetDb', gainDb') \in Nat
    BY <1>1, <2>2, <2>3 DEF Distance
  <2>5. Span(WindowBlocks) + BlockBuffers \in Nat
    BY LevellersAre, SpanIs
  <2>6. Distance(targetDb', gainDb') + k < (Span(WindowBlocks) + BlockBuffers) + (q.max + leveller.max)
    <3> DEFINE far == Distance(targetDb', gainDb)
               near == Distance(targetDb', gainDb')
               span == Span(WindowBlocks) + BlockBuffers
    <3>1. far \in Nat /\ near \in Nat /\ span \in Nat /\ near <= far /\ far <= q.max + leveller.max
          /\ k < span
      BY <1>6, <2>4, <2>5
    <3> HIDE DEF far, near, span
    <3>2. near + k < span + (q.max + leveller.max)
      BY <2>3, <3>1
    <3> QED BY <3>2 DEF near, span
  <2>7. \E a, r \in LevellerParams :
          Distance(targetDb', gainDb') + k < (Span(WindowBlocks) + BlockBuffers) + (a.max + r.max)
    BY <1>1, <2>6
  <2> QED BY <1>2, <1>8, <2>1, <2>7, Zenon DEF AtRest
<1> QED BY <1>7, <1>8

\* A programme that has just come on.
LEMMA Afresh ==
  ASSUME MeterTypes, NEW p \in Programmes, Energy(p) \in Nat
  PROVE  HeardSo(p, 0) /\ ~(0 >= accCount + Span(WindowBlocks))
<1>1. accCount \in Nat /\ (accCount = 0 => acc = 0) /\ Energy(p) \in Nat
  BY LevellersAre DEF MeterTypes
<1>2. \A j \in 1..WindowBlocks : Span(j) \in Nat /\ Span(j) > 0
  <2> TAKE j \in 1..WindowBlocks
  <2>1. j \in Nat /\ 1 \in 0..j
    OBVIOUS
  <2>2. Span(j) \in Nat /\ Span(1) = BlockBuffers /\ \A k \in 0..j : Span(k) <= Span(j)
    BY <2>1, SpanIs
  <2>3. Span(1) <= Span(j)
    BY <2>1, <2>2
  <2> QED BY <2>2, <2>3, LevellersAre
<1>3. WindowBlocks \in 1..WindowBlocks
  BY LevellersAre
<1>4. 0 >= accCount => acc = accCount * Energy(p)
  <2>1. SUFFICES ASSUME accCount = 0 PROVE acc = accCount * Energy(p)
    BY <1>1
  <2>2. 0 * Energy(p) = 0
    BY <1>1
  <2> QED BY <1>1, <2>1, <2>2
<1> QED BY <1>1, <1>2, <1>3, <1>4 DEF HeardSo

LEMMA LevellerStarts == LevellerInit => LevellerInv
<1> SUFFICES ASSUME LevellerInit PROVE LevellerInv
  OBVIOUS
<1>1. /\ leveller \in LevellerParams /\ acc = 0 /\ accCount = 0 /\ head = 0 /\ filled = 0
      /\ sum = 0 /\ lufs = Unknown /\ gainDb = 0 /\ targetDb = 0
      /\ playing \in Programmes /\ steady = 0
      /\ ring = [i \in 0..WindowBlocks - 1 |-> 0]
  BY DEF LevellerInit
<1>2. PICK m : Loud(m)
  BY HowLoud
<1>3. Energy(playing) \in Nat /\ m \in Nat
  BY <1>1, <1>2 DEF Loud
<1>4. Within(0)
  <2>1. leveller.max \in Nat
    BY <1>1, LevellersAre
  <2>2. -leveller.max <= 0 /\ 0 <= leveller.max
    BY <2>1
  <2> QED BY <1>1, <2>2 DEF Within
<1>5. LevellerTypes
  BY <1>1, <1>4 DEF LevellerTypes
<1>6. \A i \in 0..WindowBlocks - 1 : ring[i] = 0
  BY <1>1
<1>7. MeterTypes
  <2>1. WindowBlocks \in Nat /\ WindowBlocks # 0 /\ BlockBuffers \in Nat /\ BlockBuffers # 0
    BY LevellersAre
  <2>2. Sum(ring, WindowBlocks) = WindowBlocks * 0
    BY <1>6, <2>1, SumOfEqual
  <2>3. sum = Sum(ring, WindowBlocks)
    BY <1>1, <2>1, <2>2
  <2>4. ring \in [0..WindowBlocks - 1 -> Nat]
    BY <1>1
  <2> QED BY <1>1, <2>1, <2>3, <2>4 DEF MeterTypes
<1>8. Bounded(m)
  <2>1. 0 <= 0 * m
    BY <1>3
  <2> QED BY <1>1, <1>3, <1>6, <2>1 DEF Bounded
<1>9. HeardSo(playing, 0) /\ ~(0 >= accCount + Span(WindowBlocks))
  BY <1>1, <1>3, <1>7, Afresh
<1> QED BY <1>1, <1>2, <1>5, <1>7, <1>8, <1>9 DEF LevellerInv

\* What a target is set to is within the bounds of a setting.
LEMMA TargetWithin ==
  ASSUME LevellerTypes, NEW r \in BOOLEAN, NEW x \in Int
  PROVE  UpdateTarget(r, x) \in Int /\ Within(UpdateTarget(r, x))
<1>1. leveller \in LevellerParams /\ gainDb \in Int /\ Within(gainDb)
  BY DEF LevellerTypes
<1>2. /\ Wanted(x) \in Int /\ -leveller.max <= Wanted(x) /\ Wanted(x) <= leveller.max
  BY <1>1, WantedIs
<1>3. Within(Wanted(x))
  BY <1>1, <1>2 DEF Within
<1> QED BY <1>1, <1>2, <1>3 DEF UpdateTarget

LEMMA LevelKeeps == ASSUME LevellerInv, NEW p \in Programmes, Level(p) PROVE LevellerInv'
<1> DEFINE n == IF p # playing THEN 0 ELSE steady
           whole == Span(WindowBlocks)
<1>1. /\ LevellerTypes /\ MeterTypes
      /\ HeardSo(playing, steady)
      /\ steady >= accCount + whole => AtRest(playing, steady)
  BY DEF LevellerInv
<1>2. PICK m : Loud(m) /\ Bounded(m)
  BY DEF LevellerInv
<1>3. /\ Meter(p)
      /\ targetDb' = IF Crossed THEN UpdateTarget(filled' >= WindowBlocks, lufs') ELSE targetDb
      /\ gainDb' = Moved(targetDb')
      /\ playing' = p
      /\ steady' = (IF p # playing THEN 1 ELSE IF steady < Enough THEN steady + 1 ELSE steady)
      /\ leveller' = leveller
  BY DEF Level
<1>4. Energy(p) \in Nat /\ Energy(p) <= m /\ m \in Nat
  BY <1>2 DEF Loud
<1>5. leveller \in LevellerParams /\ playing \in Programmes /\ steady \in Nat
      /\ gainDb \in Int /\ targetDb \in Int /\ Within(gainDb) /\ Within(targetDb)
  BY <1>1 DEF LevellerTypes
<1>6. accCount \in 0..BlockBuffers - 1 /\ BlockBuffers \in Nat \ {0} /\ whole \in Nat
      /\ WindowBlocks \in Nat \ {0}
  BY <1>1, LevellersAre, SpanIs DEF MeterTypes
<1>7. MeterTypes' /\ MeterStep(Energy(p))
  BY <1>1, <1>3, <1>4, MeterIs
<1>8. Bounded(m)' /\ sum' \in 0..WindowBlocks * m
  BY <1>1, <1>2, <1>4, <1>7, StaysBounded
<1>9. /\ n \in Nat /\ HeardSo(p, n)
      /\ n >= accCount + whole => AtRest(p, n)
  <2>1. CASE p # playing
    <3>1. HeardSo(p, 0) /\ ~(0 >= accCount + whole)
      BY <1>1, <1>4, Afresh
    <3> QED BY <2>1, <3>1
  <2>2. CASE p = playing
    BY <1>1, <1>5, <2>2
  <2> QED BY <2>1, <2>2
<1>10. steady' \in Nat /\ steady' <= n + 1
  BY <1>3, <1>5, LevellersAre
<1> HIDE DEF n, whole
<1>11. PICK k \in Nat : k = steady' /\ k <= n + 1
  BY <1>10
<1>12. HeardSo(p, k)'
  BY <1>1, <1>4, <1>7, <1>9, <1>11, HeardSoStill
<1>13. targetDb' \in Int /\ Within(targetDb')
  <2>1. CASE ~Crossed
    BY <1>3, <1>5, <2>1
  <2>2. CASE Crossed
    <3>1. lufs' = Lufs(sum') \/ lufs' = Unknown
      BY <1>6, <1>7, <2>2 DEF MeterStep, Crossed
    <3>2. Lufs(sum') \in Int
      BY <1>2, <1>8 DEF Loud
    <3>3. lufs' \in Int
      BY <3>1, <3>2 DEF Unknown
    <3>4. (filled' >= WindowBlocks) \in BOOLEAN
      OBVIOUS
    <3>5. UpdateTarget(filled' >= WindowBlocks, lufs') \in Int
          /\ Within(UpdateTarget(filled' >= WindowBlocks, lufs'))
      BY <1>1, <3>3, <3>4, TargetWithin
    <3> QED BY <1>3, <2>2, <3>5, Zenon
  <2> QED BY <2>1, <2>2
<1>14. gainDb' \in Int /\ Within(gainDb')
  BY <1>1, <1>3, <1>13, GainStaysWithin
<1>15. LevellerTypes'
  <2>1. Within(gainDb)' /\ Within(targetDb)'
    BY <1>13, <1>14 DEF Within
  <2> QED BY <1>3, <1>5, <1>10, <1>13, <1>14, <2>1 DEF LevellerTypes
<1>16. ASSUME k >= accCount' + whole PROVE AtRest(p, k)'
  <2>1. ASSUME targetDb' = targetDb, n >= accCount + whole PROVE AtRest(p, k)'
    BY <1>1, <1>3, <1>9, <1>11, <2>1, RestKept
  <2>2. CASE ~Crossed
    <3>1. accCount' = accCount + 1 /\ targetDb' = targetDb
      BY <1>3, <1>6, <1>7, <2>2 DEF MeterStep, Crossed
    <3>2. n >= accCount + whole
      BY <1>6, <1>9, <1>11, <1>16, <3>1
    <3> QED BY <2>1, <3>1, <3>2
  <2>3. CASE Crossed
    <3>1. accCount + 1 = BlockBuffers /\ accCount' = 0
      BY <1>6, <1>7, <2>3 DEF MeterStep, Crossed
    <3>2. k >= Span(WindowBlocks)
      BY <1>6, <1>16, <3>1 DEF whole
    <3>3. /\ filled' = WindowBlocks /\ sum' = WindowBlocks * Energy(p)
          /\ lufs' = IF Energy(p) = 0 THEN Unknown ELSE Measured(p)
      BY <1>1, <1>4, <1>7, <1>11, <1>12, <3>1, <3>2, WholeWindow
    <3>4. Measured(p) \in Int
      <4>1. Lufs(sum') \in Int
        BY <1>2, <1>8 DEF Loud
      <4> QED BY <3>3, <4>1 DEF Measured
    <3>5. targetDb' = UpdateTarget(filled' >= WindowBlocks, lufs')
      BY <1>3, <2>3
    <3>6. CASE n >= accCount + whole
      <4>1. AtRest(p, n)
        BY <1>9, <3>6
      <4>2. (filled' >= WindowBlocks) /\ leveller.gate \in Int /\ leveller.gate > Unknown
        BY <1>5, <1>6, <3>3, LevellersAre
      <4>3. targetDb' = IF lufs' < leveller.gate THEN gainDb ELSE Wanted(lufs')
        BY <3>5, <4>2 DEF UpdateTarget, Gated
      <4>4. CASE Energy(p) = 0 \/ Measured(p) < leveller.gate
        <5>1. lufs' < leveller.gate
          BY <3>3, <4>2, <4>4 DEF Unknown
        <5>2. targetDb = gainDb
          BY <4>1, <4>4, Zenon DEF AtRest
        <5> QED BY <2>1, <3>6, <4>3, <5>1, <5>2
      <4>5. CASE ~(Energy(p) = 0 \/ Measured(p) < leveller.gate)
        <5>1. lufs' = Measured(p) /\ ~(lufs' < leveller.gate)
          BY <3>3, <4>5
        <5>2. targetDb = Wanted(Measured(p))
          BY <4>1, <4>5, Zenon DEF AtRest
        <5>3. targetDb' = targetDb
          BY <4>3, <5>1, <5>2
        <5> QED BY <2>1, <3>6, <5>3
      <4> QED BY <4>4, <4>5
    <3>7. CASE ~(n >= accCount + whole)
      <4>1. k < Span(WindowBlocks) + BlockBuffers
        BY <1>6, <1>9, <1>11, <3>1, <3>7 DEF whole
      <4> QED BY <1>1, <1>3, <1>4, <1>11, <1>15, <3>3, <3>4, <3>5, <4>1, RestReached
    <3> QED BY <3>6, <3>7
  <2> QED BY <2>2, <2>3
<1>17. (\E x : Loud(x) /\ Bounded(x))'
  BY <1>2, <1>8 DEF Loud
<1>18. HeardSo(playing, steady)'
  BY <1>3, <1>11, <1>12 DEF HeardSo
<1>19. (steady >= accCount + Span(WindowBlocks) => AtRest(playing, steady))'
  BY <1>3, <1>11, <1>16 DEF whole, AtRest
<1> QED BY <1>7, <1>15, <1>17, <1>18, <1>19 DEF LevellerInv

LEMMA SetLevellerKeeps ==
  ASSUME LevellerInv, NEW p \in LevellerParams, SetLeveller(p) PROVE LevellerInv'
<1>1. /\ leveller' = p /\ steady' = 0
      /\ UNCHANGED <<acc, accCount, ring, head, filled, sum, lufs, gainDb, targetDb, playing>>
  BY DEF SetLeveller
<1>2. LevellerTypes /\ MeterTypes
  BY DEF LevellerInv
<1>3. PICK m : Loud(m) /\ Bounded(m)
  BY DEF LevellerInv
<1>4. playing \in Programmes /\ Energy(playing) \in Nat
  BY <1>2, <1>3 DEF LevellerTypes, Loud
<1>5. HeardSo(playing, 0) /\ ~(0 >= accCount + Span(WindowBlocks))
  BY <1>2, <1>4, Afresh
<1>6. LevellerTypes'
  BY <1>1, <1>2 DEF LevellerTypes, Within
<1>7. MeterTypes'
  BY <1>1, <1>2 DEF MeterTypes
<1>8. (\E x : Loud(x) /\ Bounded(x))'
  BY <1>1, <1>3 DEF Loud, Bounded
<1>9. HeardSo(playing, steady)'
  BY <1>1, <1>5 DEF HeardSo
<1>10. ~(steady >= accCount + Span(WindowBlocks))'
  BY <1>1, <1>5
<1> QED BY <1>6, <1>7, <1>8, <1>9, <1>10 DEF LevellerInv

LEMMA LevellerFrame == LevellerInv /\ UNCHANGED levellerVars => LevellerInv'
<1> SUFFICES ASSUME LevellerInv, UNCHANGED levellerVars PROVE LevellerInv'
  OBVIOUS
<1>1. UNCHANGED <<leveller, acc, accCount, ring, head, filled, sum, lufs, gainDb, targetDb,
                  playing, steady>>
  BY DEF levellerVars
<1>2. LevellerTypes' /\ MeterTypes'
  BY <1>1 DEF LevellerInv, LevellerTypes, MeterTypes, Within
<1>3. (\E x : Loud(x) /\ Bounded(x))'
  BY <1>1 DEF LevellerInv, Loud, Bounded
<1>4. HeardSo(playing, steady)'
  BY <1>1 DEF LevellerInv, HeardSo
<1>5. (steady >= accCount + Span(WindowBlocks) => AtRest(playing, steady))'
  BY <1>1 DEF LevellerInv, AtRest, Wanted
<1> QED BY <1>2, <1>3, <1>4, <1>5 DEF LevellerInv

\* Enough is time enough to have come to rest.
LEMMA LevellerRests == LevellerInv => ProgrammeEndsLevel
<1> SUFFICES ASSUME LevellerInv, steady = Enough
             PROVE  LET loudness == Lufs(WindowBlocks * Energy(playing)) IN
                    IF Energy(playing) = 0 \/ loudness < leveller.gate THEN targetDb = gainDb
                    ELSE gainDb = Wanted(loudness)
  BY DEF ProgrammeEndsLevel
<1>1. /\ leveller \in LevellerParams /\ gainDb \in Int /\ targetDb \in Int
      /\ accCount \in 0..BlockBuffers - 1
      /\ steady >= accCount + Span(WindowBlocks) => AtRest(playing, steady)
  BY DEF LevellerInv, LevellerTypes, MeterTypes
<1>2. /\ BlockBuffers \in Nat \ {0} /\ Span(WindowBlocks) \in Nat /\ Enough \in Nat
      /\ \A q \in LevellerParams : q.max \in Nat
  BY LevellersAre, SpanIs
<1>3. \A q, r \in LevellerParams :
        Enough >= (Span(WindowBlocks) + BlockBuffers) + (q.max + r.max)
  <2>1. (WindowBlocks + 1) * BlockBuffers = Span(WindowBlocks) + BlockBuffers
    BY LevellersAre, SpanIs DEF Span
  <2>2. \A q, r \in LevellerParams :
          Enough >= ((WindowBlocks + 1) * BlockBuffers + q.max) + r.max
    BY LevellerAssumption
  <2> DEFINE a == (WindowBlocks + 1) * BlockBuffers
             c == Span(WindowBlocks) + BlockBuffers
  <2>3. a = c /\ c \in Nat
    BY <1>2, <2>1
  <2> HIDE DEF a, c
  <2>4. \A q, r \in LevellerParams : Enough >= (a + q.max) + r.max
    BY <2>2 DEF a
  <2>5. \A q, r \in LevellerParams : Enough >= c + (q.max + r.max)
    BY <1>2, <2>3, <2>4
  <2> QED BY <2>5 DEF c
<1>4. AtRest(playing, Enough)
  <2>1. Enough >= (Span(WindowBlocks) + BlockBuffers) + (leveller.max + leveller.max)
    BY <1>1, <1>3
  <2> QED BY <1>1, <1>2, <2>1
<1>5. CASE Energy(playing) = 0 \/ Measured(playing) < leveller.gate
  BY <1>4, <1>5, Zenon DEF AtRest, Measured
<1>6. CASE ~(Energy(playing) = 0 \/ Measured(playing) < leveller.gate)
  <2>1. /\ targetDb = Wanted(Measured(playing))
        /\ \/ gainDb = targetDb
           \/ \E q, r \in LevellerParams :
                Distance(targetDb, gainDb) + Enough < (Span(WindowBlocks) + BlockBuffers) + (q.max + r.max)
    BY <1>4, <1>6, Zenon DEF AtRest
  <2>2. Distance(targetDb, gainDb) \in Nat
    BY <1>1 DEF Distance
  <2>3. gainDb = targetDb
    <3>1. SUFFICES ASSUME NEW q \in LevellerParams, NEW r \in LevellerParams,
              Distance(targetDb, gainDb) + Enough < (Span(WindowBlocks) + BlockBuffers) + (q.max + r.max)
                   PROVE FALSE
      BY <2>1
    <3>2. Enough >= (Span(WindowBlocks) + BlockBuffers) + (q.max + r.max)
      BY <1>3
    <3>3. q.max \in Nat /\ r.max \in Nat
      BY <1>2
    <3> QED BY <1>2, <2>2, <3>1, <3>2, <3>3
  <2> QED BY <1>6, <2>1, <2>3, Zenon DEF Measured
<1> QED BY <1>5, <1>6

LEMMA LevelPart ==
  /\ SignalInit => LevellerInit /\ NightInit
  /\ [SignalNext]_signalVars => /\ LevellerNext \/ UNCHANGED levellerVars
                                /\ NightNext \/ UNCHANGED nightVars
<1>1. SignalInit => LevellerInit /\ NightInit
  BY DEF SignalInit
<1>2. ASSUME SignalNext PROVE (LevellerNext \/ UNCHANGED levellerVars) /\ (NightNext \/ UNCHANGED nightVars)
  BY <1>2 DEF SignalNext, levelVars
<1>3. ASSUME UNCHANGED signalVars PROVE UNCHANGED levellerVars /\ UNCHANGED nightVars
  BY <1>3 DEF signalVars, levelVars
<1> QED BY <1>1, <1>2, <1>3

LEMMA LevellerLasts == LevellerInv /\ [SignalNext]_signalVars => LevellerInv'
<1>1. ASSUME LevellerInv, LevellerNext PROVE LevellerInv'
  BY <1>1, LevelKeeps, SetLevellerKeeps DEF LevellerNext
<1> QED BY <1>1, LevelPart, LevellerFrame

\* Auto volume comes to rest on the target of a programme that stays on, whatever was on
\* before it, night mode within a decibel of its curve, and no curve turns two levels
\* round (dsp/AutoGain.cpp's process and updateTarget, LoudnessMeter's ring, DynamicRange).
THEOREM GainsFollow == SignalSpec => []GainsAreFollowed
<1>1. SignalInit => LevellerInv /\ NightInv
  BY LevelPart, LevellerStarts, NightStarts
<1>2. LevellerInv /\ [SignalNext]_signalVars => LevellerInv'
  BY LevellerLasts
<1>3. NightInv /\ [SignalNext]_signalVars => NightInv'
  <2>1. ASSUME NightInv, NightNext PROVE NightInv'
    BY <2>1, TickKeepsNight, SetNightKeeps DEF NightNext
  <2> QED BY <2>1, LevelPart, NightFrame
<1>4. LevellerInv /\ NightInv => GainsAreFollowed
  BY LevellerRests, NightIsFollowed, OrderIsKept DEF GainsAreFollowed
<1> QED BY <1>1, <1>2, <1>3, <1>4, PTL DEF SignalSpec

\* Auto volume never lifts or cuts by more than one of the settings it has had allows,
\* also on the way from one setting's target to another's (AutoGain.cpp's process).
THEOREM GainIsBounded ==
  SignalSpec => [](\E q \in LevellerParams : -q.max <= gainDb /\ gainDb <= q.max)
<1>1. SignalInit => LevellerInv
  BY LevelPart, LevellerStarts
<1>2. LevellerInv /\ [SignalNext]_signalVars => LevellerInv'
  BY LevellerLasts
<1>3. LevellerInv => \E q \in LevellerParams : -q.max <= gainDb /\ gainDb <= q.max
  BY DEF LevellerInv, LevellerTypes, Within
<1> QED BY <1>1, <1>2, <1>3, PTL DEF SignalSpec

----------------------------------------------------------------------------
(* KernelHandoff, for every set of kernels, every set of stream geometries  *)
(* and every length of the crossfade.  Ownership alone is not inductive:    *)
(* that the locals of tick() and of the builder hold a kernel exactly while *)
(* those are in the middle of handing it over is what keeps Build from      *)
(* dropping one, and the ends of a stream from catching tick() half way.    *)

\* Move keeps single ownership, and frees nothing that is still held: what the
\* exchange of two pointers has to guarantee.
LEMMA MoveKeepsOwnership ==
  ASSUME held \in [Places -> Kernels \union {NoKernel}], Ownership,
         NEW from \in Places, NEW to \in Places, from # to,
         Move(from, to), live' = live
  PROVE  /\ held' \in [Places -> Kernels \union {NoKernel}]
         /\ Ownership'
         /\ held'[from] = NoKernel
         /\ held'[to] = held[from]
         /\ \A p \in Places \ {from, to} : held'[p] = held[p]
<1>1. held' = [held EXCEPT ![to] = held[from], ![from] = NoKernel]
  BY DEF Move
<1>2. /\ held' \in [Places -> Kernels \union {NoKernel}]
      /\ held'[from] = NoKernel
      /\ held'[to] = held[from]
      /\ \A p \in Places \ {from, to} : held'[p] = held[p]
  BY <1>1
<1>3. OneOwner'
  BY <1>2 DEF Ownership, OneOwner
<1>4. NothingFreed'
  BY <1>2 DEF Ownership, NothingFreed
<1> QED
  BY <1>2, <1>3, <1>4 DEF Ownership

\* Destroying the kernel of one pointer and clearing that pointer leaves the
\* kernels of all others alive: what makes the builder's delete safe.
LEMMA DestroyKeepsOwnership ==
  ASSUME held \in [Places -> Kernels \union {NoKernel}], Ownership,
         NEW place \in Places,
         held' = [held EXCEPT ![place] = NoKernel],
         live' = live \ {held[place]}
  PROVE  /\ held' \in [Places -> Kernels \union {NoKernel}]
         /\ Ownership'
         /\ held'[place] = NoKernel
         /\ \A p \in Places \ {place} : held'[p] = held[p]
<1>1. /\ held' \in [Places -> Kernels \union {NoKernel}]
      /\ held'[place] = NoKernel
      /\ \A p \in Places \ {place} : held'[p] = held[p]
  OBVIOUS
<1>2. OneOwner'
  BY <1>1 DEF Ownership, OneOwner
<1>3. NothingFreed'
  <2>1. SUFFICES ASSUME NEW p \in Places, held'[p] # NoKernel
                 PROVE  held'[p] \in live'
    BY DEF NothingFreed
  <2>2. p # place /\ held[p] # held[place]
    BY <1>1, <2>1 DEF Ownership, OneOwner
  <2> QED
    BY <1>1, <2>1, <2>2 DEF Ownership, NothingFreed
<1> QED
  BY <1>1, <1>2, <1>3 DEF Ownership

----------------------------------------------------------------------------
(* The initial states                                                      *)

LEMMA InitHandoffInv == Init => HandoffInv
<1> SUFFICES ASSUME Init PROVE HandoffInv
  OBVIOUS
<1>1. TypeOK
  <2>1. PICK g \in Geometries : /\ builtFor = [k \in Kernels |-> g]
                                /\ geometry = g /\ seenRate = g
    BY DEF Init
  <2>2. /\ builtFor \in [Kernels -> Geometries]
        /\ geometry \in Geometries /\ seenRate \in Geometries
    BY <2>1
  <2>3. /\ held \in [Places -> Kernels \union {NoKernel}]
        /\ live \subseteq Kernels
    BY DEF Init
  <2>4. 0 \in 0..FadeSteps
    BY FadeAssumption
  <2> QED
    BY <2>2, <2>3, <2>4 DEF Init, TypeOK
<1>2. Ownership
  BY DEF Init, Ownership, OneOwner, NothingFreed
<1>3. FadeConverges
  BY FadeAssumption DEF Init, FadeConverges
<1>4. ControlInv
  BY DEF Init, ControlInv, Places
<1> QED
  BY <1>1, <1>2, <1>3, <1>4 DEF HandoffInv

----------------------------------------------------------------------------
(* The builder: it touches m_incoming, m_retired and its own local.        *)

LEMMA BuilderKeepsInv ==
  ASSUME HandoffInv, Builder
  PROVE  HandoffInv'
<1> USE DEF HandoffInv
<1>1. CASE Reclaim
  <2>1. /\ held' = [held EXCEPT !["retired"] = NoKernel]
        /\ live' = live \ {held["retired"]}
        /\ bpc = "idle" /\ bpc' = "decide" /\ tpc' = tpc /\ locked' = locked
    BY <1>1 DEF Reclaim, lockVars
  <2>2. /\ held' \in [Places -> Kernels \union {NoKernel}]
        /\ Ownership'
        /\ \A p \in Places \ {"retired"} : held'[p] = held[p]
    BY <2>1, DestroyKeepsOwnership DEF TypeOK, Places
  <2>3. TypeOK'
    BY <1>1, <2>1, <2>2 DEF Reclaim, TypeOK, lockVars, fadeVars, appliedVars
  <2>4. FadeConverges'
    BY <1>1, <2>2 DEF Reclaim, FadeConverges, lockVars, fadeVars, appliedVars,
                      Places
  <2>5. ControlInv'
    BY <2>1, <2>2 DEF ControlInv, Places
  <2> QED
    BY <2>2, <2>3, <2>4, <2>5
<1>2. CASE SkipBuild \/ ReadRate
  <2> USE <1>2 DEF SkipBuild, ReadRate, lockVars, fadeVars, appliedVars
  <2>1. TypeOK'
    BY DEF TypeOK
  <2>2. Ownership'
    BY DEF Ownership, OneOwner, NothingFreed
  <2>3. FadeConverges'
    BY DEF FadeConverges
  <2>4. ControlInv'
    BY DEF ControlInv
  <2> QED
    BY <2>1, <2>2, <2>3, <2>4
<1>3. CASE Build
  <2>1. CASE UNCHANGED <<held, live, builtFor>> /\ bpc' = "idle"
    <3> USE <1>3, <2>1 DEF Build, lockVars, fadeVars, appliedVars
    <3>1. TypeOK'
      BY DEF TypeOK
    <3>2. Ownership'
      BY DEF Ownership, OneOwner, NothingFreed
    <3>3. FadeConverges'
      BY DEF FadeConverges
    <3>4. ControlInv'
      BY DEF ControlInv
    <3> QED
      BY <3>1, <3>2, <3>3, <3>4
  <2>2. ASSUME NEW k \in Kernels \ live,
               live' = live \union {k},
               builtFor' = [builtFor EXCEPT ![k] = seenRate],
               held' = [held EXCEPT !["building"] = k],
               bpc' = "offer"
        PROVE  HandoffInv'
    <3>1. /\ held' \in [Places -> Kernels \union {NoKernel}]
          /\ held'["building"] = k
          /\ \A p \in Places \ {"building"} : held'[p] = held[p]
          /\ k # NoKernel
      BY <2>2, NoKernelAssumption DEF TypeOK, Places
    <3>2. TypeOK'
      BY <1>3, <2>2, <3>1 DEF Build, TypeOK, lockVars, fadeVars, appliedVars
    \* No pointer holds a kernel that was not yet allocated.
    <3>3. \A p \in Places : held[p] # k
      BY <3>1 DEF Ownership, NothingFreed
    <3>4. OneOwner'
      BY <3>1, <3>3 DEF Ownership, OneOwner
    <3>5. NothingFreed'
      BY <2>2, <3>1 DEF Ownership, NothingFreed
    <3>6. FadeConverges'
      BY <1>3, <3>1 DEF Build, FadeConverges, lockVars, fadeVars, appliedVars,
                        Places
    <3>7. ControlInv'
      BY <1>3, <2>2, <3>1 DEF Build, ControlInv, Places, lockVars
    <3> QED
      BY <3>2, <3>4, <3>5, <3>6, <3>7 DEF Ownership
  <2> QED
    BY <1>3, <2>1, <2>2 DEF Build
<1>4. CASE Offer
  <2>1. /\ bpc = "offer" /\ bpc' = "idle" /\ tpc' = tpc /\ locked' = locked
        /\ UNCHANGED <<builtFor, seenRate, geometry, armed, enabled, bypass,
                       fade, fadeTarget, fadeStep>>
    BY <1>4 DEF Offer, lockVars, fadeVars, appliedVars
  <2>2. /\ held' \in [Places -> Kernels \union {NoKernel}]
        /\ Ownership'
        /\ held'["building"] = NoKernel
        /\ \A p \in Places \ {"building", "incoming"} : held'[p] = held[p]
        /\ live' \subseteq live
    <3>1. CASE held["incoming"] = NoKernel
      BY <1>4, <3>1, MoveKeepsOwnership DEF Offer, TypeOK, Places
    <3>2. CASE held["incoming"] # NoKernel
      BY <1>4, <3>2, DestroyKeepsOwnership DEF Offer, TypeOK, Places
    <3> QED
      BY <3>1, <3>2
  <2>3. TypeOK'
    BY <2>1, <2>2 DEF TypeOK
  <2>4. FadeConverges'
    BY <2>1, <2>2 DEF FadeConverges, Places
  <2>5. ControlInv'
    BY <2>1, <2>2 DEF ControlInv, Places
  <2> QED
    BY <2>2, <2>3, <2>4, <2>5
<1> QED
  BY <1>1, <1>2, <1>3, <1>4 DEF Builder

----------------------------------------------------------------------------
(* The audio thread: apply(), process() and tick().                        *)

\* The crossfade moves towards its target, and not past it.
LEMMA CrossfadedConverges ==
  ASSUME TypeOK, FadeConverges
  PROVE  /\ Crossfaded \in 0..FadeSteps
         /\ Crossfaded < fadeTarget => fadeStep = 1
         /\ Crossfaded > fadeTarget => fadeStep = -1
BY FadeAssumption DEF TypeOK, FadeConverges, Crossfaded

LEMMA ApplyKeepsInv ==
  ASSUME HandoffInv, NEW on \in BOOLEAN, NEW bypassed \in BOOLEAN,
         Apply(on, bypassed)
  PROVE  HandoffInv'
<1> USE DEF HandoffInv
<1>1. /\ locked /\ tpc = "idle" /\ bypass' = bypassed
      /\ UNCHANGED <<held, live, builtFor, fade, tpc, bpc, seenRate, geometry,
                     locked, armed>>
  BY DEF Apply, lockVars
<1>2. SetEnabled(on)
  BY DEF Apply
<1>3. /\ enabled' \in BOOLEAN
      /\ fadeTarget' \in {0, FadeSteps}
      /\ fadeStep' \in {-1, 0, 1}
      /\ fade < fadeTarget' => fadeStep' = 1
      /\ fade > fadeTarget' => fadeStep' = -1
      /\ fadeTarget' = FadeSteps => enabled' /\ held["current"] # NoKernel
  <2>1. CASE enabled = on
    BY <1>2, <2>1 DEF SetEnabled, TypeOK, FadeConverges
  <2>2. CASE enabled # on
    BY <1>2, <2>2, FadeAssumption DEF SetEnabled, WetTarget, TypeOK
  <2> QED
    BY <2>1, <2>2
<1>4. TypeOK'
  BY <1>1, <1>3 DEF TypeOK
<1>5. FadeConverges'
  BY <1>1, <1>3 DEF FadeConverges
<1>6. Ownership' /\ ControlInv'
  BY <1>1 DEF Ownership, OneOwner, NothingFreed, ControlInv
<1> QED
  BY <1>4, <1>5, <1>6

LEMMA ProcessBlockKeepsInv ==
  ASSUME HandoffInv, ProcessBlock
  PROVE  HandoffInv'
<1> USE DEF HandoffInv
<1>1. /\ locked /\ tpc = "idle"
      /\ fade' = Crossfaded
      /\ UNCHANGED <<live, builtFor, enabled, bypass, fadeTarget, fadeStep, bpc,
                     seenRate, geometry, locked, armed>>
  BY DEF ProcessBlock, lockVars, appliedVars
<1>2. CASE held["pending"] = NoKernel /\ held["incoming"] # NoKernel
  <2>1. Move("incoming", "hand") /\ tpc' = "judge"
    BY <1>2 DEF ProcessBlock
  <2>2. /\ held' \in [Places -> Kernels \union {NoKernel}]
        /\ Ownership'
        /\ held'["hand"] = held["incoming"]
        /\ \A p \in Places \ {"incoming", "hand"} : held'[p] = held[p]
    BY <1>1, <2>1, MoveKeepsOwnership DEF TypeOK, Places
  <2>3. TypeOK'
    BY <1>1, <2>1, <2>2, CrossfadedConverges DEF TypeOK
  <2>4. FadeConverges'
    BY <1>1, <2>2, CrossfadedConverges DEF FadeConverges, Places
  <2>5. ControlInv'
    BY <1>1, <1>2, <2>1, <2>2 DEF ControlInv, Places
  <2> QED
    BY <2>2, <2>3, <2>4, <2>5
<1>3. CASE ~(held["pending"] = NoKernel /\ held["incoming"] # NoKernel)
  <2>1. UNCHANGED held /\ tpc' = "install"
    BY <1>3 DEF ProcessBlock
  <2>2. TypeOK'
    BY <1>1, <2>1, CrossfadedConverges DEF TypeOK
  <2>3. FadeConverges'
    BY <1>1, <2>1, CrossfadedConverges DEF FadeConverges
  <2>4. Ownership' /\ ControlInv'
    BY <1>1, <2>1 DEF Ownership, OneOwner, NothingFreed, ControlInv
  <2> QED
    BY <2>2, <2>3, <2>4
<1> QED
  BY <1>2, <1>3

LEMMA TickKeepsInv ==
  ASSUME HandoffInv, Tick
  PROVE  HandoffInv'
<1> USE DEF HandoffInv
<1>1. /\ UNCHANGED <<live, builtFor, enabled, bypass, fade, bpc, seenRate,
                     geometry, locked, armed>>
      /\ tpc # "idle" /\ tpc' \in {"idle", "install"}
  BY DEF Tick, TickAccept, TickReturn, TickPutBack, TickInstall, TickKeep,
         lockVars, fadeVars, appliedVars
<1>2. CASE TickAccept \/ TickReturn \/ TickPutBack
  <2>1. PICK to \in {"pending", "retired", "incoming"} :
          Move("hand", to) /\ tpc = "judge" /\ tpc' = "install"
    BY <1>2 DEF TickAccept, TickReturn, TickPutBack
  <2>2. /\ held' \in [Places -> Kernels \union {NoKernel}]
        /\ Ownership'
        /\ held'["hand"] = NoKernel
        /\ \A p \in Places \ {"hand", to} : held'[p] = held[p]
    BY <1>1, <2>1, MoveKeepsOwnership DEF TypeOK, Places
  <2>3. \/ UNCHANGED <<fadeTarget, fadeStep>>
        \/ fadeTarget' = 0 /\ fadeStep' = -1
    BY <1>2 DEF TickAccept, TickReturn, TickPutBack, fadeVars
  <2>4. TypeOK'
    BY <1>1, <2>1, <2>2, <2>3 DEF TypeOK
  <2>5. FadeConverges'
    BY <1>1, <2>1, <2>2, <2>3, FadeAssumption DEF TypeOK, FadeConverges, Places
  <2>6. ControlInv'
    BY <1>1, <2>1, <2>2 DEF ControlInv, Places
  <2> QED
    BY <2>2, <2>4, <2>5, <2>6
<1>3. CASE TickInstall
  <2>1. /\ held["pending"] # NoKernel /\ held["retired"] = NoKernel
        /\ fade = 0 /\ fadeStep' = 1 /\ tpc = "install" /\ tpc' = "idle"
        /\ fadeTarget' = WetTarget(enabled, held["pending"])
        /\ held' = [held EXCEPT !["current"] = held["pending"],
                                !["pending"] = NoKernel,
                                !["retired"] = held["current"]]
    BY <1>3 DEF TickInstall
  <2>2. /\ held' \in [Places -> Kernels \union {NoKernel}]
        /\ held'["current"] = held["pending"]
        /\ held'["pending"] = NoKernel
        /\ held'["retired"] = held["current"]
        /\ \A p \in Places \ {"current", "pending", "retired"} :
              held'[p] = held[p]
    BY <2>1 DEF TypeOK, Places
  <2>3. OneOwner'
    BY <2>2 DEF Ownership, OneOwner, Places
  <2>4. NothingFreed'
    BY <1>1, <2>2 DEF Ownership, NothingFreed, Places
  <2>5. TypeOK'
    BY <1>1, <2>1, <2>2 DEF TypeOK, WetTarget
  <2>6. FadeConverges'
    BY <1>1, <2>1, <2>2, FadeAssumption DEF TypeOK, FadeConverges, WetTarget
  <2>7. ControlInv'
    BY <1>1, <2>1, <2>2 DEF ControlInv, Places
  <2> QED
    BY <2>3, <2>4, <2>5, <2>6, <2>7 DEF Ownership
<1>4. CASE TickKeep
  <2>1. UNCHANGED <<held, fadeTarget, fadeStep>> /\ tpc = "install"
    BY <1>4 DEF TickKeep, fadeVars
  <2> QED
    BY <1>1, <2>1 DEF TypeOK, Ownership, OneOwner, NothingFreed, FadeConverges,
                      ControlInv
<1> QED
  BY <1>2, <1>3, <1>4 DEF Tick

----------------------------------------------------------------------------
(* The control thread                                                      *)

LEMMA LockKeepsInv ==
  ASSUME HandoffInv, NEW g \in Geometries, NEW arm \in BOOLEAN, Lock(g, arm)
  PROVE  HandoffInv'
<1> USE DEF HandoffInv
<1>1. /\ ~locked /\ locked' = TRUE /\ geometry' = g /\ armed' = arm
      /\ bypass' = FALSE
      /\ UNCHANGED <<held, live, builtFor, enabled, tpc, bpc, seenRate>>
      /\ fadeTarget' = WetTarget(enabled, held["current"])
      /\ fade' = fadeTarget' /\ fadeStep' = 0
  BY DEF Lock
<1>2. TypeOK'
  <2>1. fadeTarget' \in {0, FadeSteps}
    BY <1>1 DEF WetTarget
  <2>2. fade' \in 0..FadeSteps
    BY <1>1, <2>1, FadeAssumption
  <2> QED
    BY <1>1, <2>1, <2>2 DEF TypeOK
<1>3. FadeConverges'
  BY <1>1, FadeAssumption DEF FadeConverges, WetTarget
<1>4. Ownership' /\ ControlInv'
  BY <1>1 DEF Ownership, OneOwner, NothingFreed, ControlInv
<1> QED
  BY <1>2, <1>3, <1>4

LEMMA UnlockKeepsInv ==
  ASSUME HandoffInv, Unlock
  PROVE  HandoffInv'
BY DEF HandoffInv, Unlock, TypeOK, Ownership, OneOwner, NothingFreed,
       FadeConverges, ControlInv, fadeVars, appliedVars

LEMMA DestroyKeepsInv ==
  ASSUME HandoffInv, Destroy
  PROVE  HandoffInv'
<1> USE DEF HandoffInv
<1>1. /\ ~locked /\ bpc = "idle" /\ UNCHANGED <<builtFor, geometry, locked, tpc,
                                                bpc, seenRate>>
      /\ held' = [p \in Places |-> NoKernel]
      /\ live' = live \ {held[p] : p \in Members}
      /\ ~enabled' /\ enabled' \in BOOLEAN
      /\ bypass' \in BOOLEAN /\ armed' \in BOOLEAN
      /\ fade' = 0 /\ fadeTarget' = 0 /\ fadeStep' = 0
  BY DEF Destroy
<1>2. \A p \in Places : held'[p] = NoKernel
  BY <1>1
<1>3. 0 \in 0..FadeSteps
  BY FadeAssumption
<1>4. TypeOK'
  <2>1. /\ held' \in [Places -> Kernels \union {NoKernel}]
        /\ live' \subseteq Kernels
    BY <1>1 DEF TypeOK
  <2> QED
    BY <1>1, <1>3, <2>1 DEF TypeOK
<1>5. FadeConverges'
  BY <1>1, FadeAssumption DEF FadeConverges
<1>6. Ownership'
  BY <1>2 DEF Ownership, OneOwner, NothingFreed
<1>7. ControlInv'
  BY <1>1, <1>2 DEF ControlInv, Places
<1> QED
  BY <1>4, <1>5, <1>6, <1>7

----------------------------------------------------------------------------
(* The theorems                                                            *)

LEMMA StutterKeepsInv ==
  ASSUME HandoffInv, UNCHANGED vars
  PROVE  HandoffInv'
BY DEF vars, HandoffInv, TypeOK, Ownership, OneOwner, NothingFreed,
       FadeConverges, ControlInv

LEMMA NextKeepsInv == HandoffInv /\ [Next]_vars => HandoffInv'
BY BuilderKeepsInv, ApplyKeepsInv, ProcessBlockKeepsInv, TickKeepsInv,
   LockKeepsInv, UnlockKeepsInv, DestroyKeepsInv, StutterKeepsInv
   DEF Next, Audio, Control

\* HandoffInv holds throughout: the ownership protocol of the three threads,
\* and the state of the crossfade, in whatever order their steps come.
THEOREM HandoffInvariant == Spec => []HandoffInv
<1>1. Init => HandoffInv
  BY InitHandoffInv
<1>2. HandoffInv /\ [Next]_vars => HandoffInv'
  BY NextKeepsInv
<1> QED
  BY <1>1, <1>2, PTL DEF Spec

\* Type correctness.
THEOREM HandoffType == Spec => []TypeOK
<1>1. HandoffInv => TypeOK
  BY DEF HandoffInv
<1> QED
  BY <1>1, HandoffInvariant, PTL

\* No kernel is ever owned twice, so the builder, the audio thread's hand-backs
\* and the destructor between them delete each kernel at most once.
THEOREM NeverOwnedTwice == Spec => []OneOwner
<1>1. HandoffInv => OneOwner
  BY DEF HandoffInv, Ownership
<1> QED
  BY <1>1, HandoffInvariant, PTL

\* The audio thread never convolves with a kernel the builder has destroyed.
THEOREM NeverFreedInUse == Spec => []NothingFreed
<1>1. HandoffInv => NothingFreed
  BY DEF HandoffInv, Ownership
<1> QED
  BY <1>1, HandoffInvariant, PTL

\* The crossfade is at its target or moving towards it.
THEOREM FadeAlwaysConverges == Spec => []FadeConverges
<1>1. HandoffInv => FadeConverges
  BY DEF HandoffInv
<1> QED
  BY <1>1, HandoffInvariant, PTL

\* The kernel in use is swapped only at the bottom of the fade.
THEOREM SwapsAreInaudible == Spec => SwapIsInaudible
<1> DEFINE Inaudible ==
      locked /\ held'["current"] # held["current"] => fade = 0 /\ fade' = 0
<1>1. HandoffInv /\ [Next]_vars => [Inaudible]_vars
  <2> SUFFICES ASSUME HandoffInv, Next, locked,
                      held'["current"] # held["current"]
               PROVE  fade = 0 /\ fade' = 0
    OBVIOUS
  <2> USE DEF HandoffInv
  <2>1. held \in [Places -> Kernels \union {NoKernel}]
    BY DEF TypeOK
  \* Only TickInstall writes m_current while a stream runs.
  <2>2. TickInstall
    BY <2>1 DEF Next, Builder, Reclaim, SkipBuild, ReadRate, Build, Offer, Move,
                Audio, Apply, ProcessBlock, Tick, TickAccept, TickReturn,
                TickPutBack, TickKeep, Control, Lock, Unlock, Destroy, Places
  <2> QED
    BY <2>2 DEF TickInstall
<1> QED
  BY <1>1, HandoffInvariant, PTL DEF Spec, SwapIsInaudible

----------------------------------------------------------------------------
(* What is lost.                                                            *)

\* What a step does with a pointer's kernel: it is in a pointer afterwards.
Carried(k) == (\E p \in Places : held[p] = k) => \E p \in Places : held'[p] = k

\* An exchange with an empty pointer loses nothing.
LEMMA MoveCarries ==
  ASSUME held \in [Places -> Kernels \union {NoKernel}],
         NEW from \in Places, NEW to \in Places, from # to,
         Move(from, to), NEW k, k # NoKernel, held[to] # k
  PROVE  Carried(k)
<1>1. held' = [held EXCEPT ![to] = held[from], ![from] = NoKernel]
  BY DEF Move
<1>2. held'[to] = held[from] /\ \A p \in Places \ {from, to} : held'[p] = held[p]
  BY <1>1
<1> QED BY <1>2 DEF Carried

LEMMA BuilderCarries ==
  ASSUME HandoffInv, Builder, NEW k \in live', k # NoKernel
  PROVE  IF k \in live THEN Carried(k) ELSE \E p \in Places : held'[p] = k
<1>1. held \in [Places -> Kernels \union {NoKernel}] /\ live \subseteq Kernels
  BY DEF HandoffInv, TypeOK
<1>2. bpc = "offer" <=> held["building"] # NoKernel
  BY DEF HandoffInv, ControlInv
<1>3. CASE Reclaim
  <2>1. /\ held' = [held EXCEPT !["retired"] = NoKernel]
        /\ live' = live \ {held["retired"]}
    BY <1>3 DEF Reclaim
  <2> QED BY <1>1, <2>1 DEF Carried, Places
<1>4. CASE SkipBuild \/ ReadRate
  BY <1>4 DEF SkipBuild, ReadRate, Carried
<1>5. CASE Build
  <2>1. bpc = "build"
    BY <1>5 DEF Build
  <2>2. held["building"] = NoKernel
    BY <1>2, <2>1
  <2>3. CASE UNCHANGED <<held, live>>
    BY <2>3 DEF Carried
  <2>4. CASE \E n \in Kernels \ live : /\ live' = live \union {n}
                                       /\ held' = [held EXCEPT !["building"] = n]
    <3>1. PICK n \in Kernels \ live : /\ live' = live \union {n}
                                      /\ held' = [held EXCEPT !["building"] = n]
      BY <2>4
    <3>2. "building" \in Places
      BY DEF Places
    <3>3. held'["building"] = n /\ \A p \in Places : p # "building" => held'[p] = held[p]
      BY <1>1, <3>1, <3>2
    <3> QED BY <2>2, <3>1, <3>2, <3>3 DEF Carried
  <2> QED BY <1>5, <2>3, <2>4 DEF Build
<1>6. CASE Offer
  <2>1. CASE held["incoming"] = NoKernel
    <3>1. Move("building", "incoming") /\ live' = live
      BY <1>6, <2>1 DEF Offer
    <3> QED BY <1>1, <2>1, <3>1, MoveCarries DEF Places
  <2>2. CASE held["incoming"] # NoKernel
    <3>1. /\ live' = live \ {held["building"]}
          /\ held' = [held EXCEPT !["building"] = NoKernel]
      BY <1>6, <2>2 DEF Offer
    <3> QED BY <1>1, <3>1 DEF Carried, Places
  <2> QED BY <2>1, <2>2
<1> QED BY <1>3, <1>4, <1>5, <1>6 DEF Builder

LEMMA AudioCarries ==
  ASSUME HandoffInv, Audio, NEW k \in live', k # NoKernel, ~(TickPutBack /\ k = held["incoming"])
  PROVE  k \in live /\ Carried(k)
<1>1. held \in [Places -> Kernels \union {NoKernel}]
  BY DEF HandoffInv, TypeOK
<1>2. (tpc = "judge" <=> held["hand"] # NoKernel) /\ (tpc = "judge" => held["pending"] = NoKernel)
  BY DEF HandoffInv, ControlInv
<1>3. live' = live
  BY DEF Audio, Apply, ProcessBlock, Tick, TickAccept, TickReturn, TickPutBack, TickInstall, TickKeep
<1>4. CASE \E on, bypassed \in BOOLEAN : Apply(on, bypassed)
  BY <1>3, <1>4 DEF Apply, Carried
<1>5. CASE ProcessBlock
  <2>1. tpc = "idle" /\ held["hand"] = NoKernel
    BY <1>2, <1>5 DEF ProcessBlock
  <2>2. Move("incoming", "hand") \/ UNCHANGED held
    BY <1>5 DEF ProcessBlock
  <2>3. CASE Move("incoming", "hand")
    BY <1>1, <1>3, <2>1, <2>3, MoveCarries DEF Places
  <2>4. CASE UNCHANGED held
    BY <1>3, <2>4 DEF Carried
  <2> QED BY <2>2, <2>3, <2>4
<1>6. CASE TickAccept
  <2>1. tpc = "judge" /\ Move("hand", "pending")
    BY <1>6 DEF TickAccept
  <2> QED BY <1>1, <1>2, <1>3, <2>1, MoveCarries DEF Places
<1>7. CASE TickReturn
  <2>1. held["retired"] = NoKernel /\ Move("hand", "retired")
    BY <1>7 DEF TickReturn
  <2> QED BY <1>1, <1>3, <2>1, MoveCarries DEF Places
<1>8. CASE TickPutBack
  <2>1. k # held["incoming"] /\ Move("hand", "incoming")
    BY <1>8 DEF TickPutBack
  <2> QED BY <1>1, <1>3, <2>1, MoveCarries DEF Places
<1>9. CASE TickInstall
  <2>1. /\ held["retired"] = NoKernel
        /\ held' = [held EXCEPT !["current"] = held["pending"],
                                !["pending"] = NoKernel,
                                !["retired"] = held["current"]]
    BY <1>9 DEF TickInstall
  <2> QED BY <1>1, <1>3, <2>1 DEF Carried, Places
<1>10. CASE TickKeep
  BY <1>3, <1>10 DEF TickKeep, Carried
<1> QED BY <1>4, <1>5, <1>6, <1>7, <1>8, <1>9, <1>10 DEF Audio, Tick

LEMMA ControlCarries ==
  ASSUME HandoffInv, Control, NEW k \in live', k # NoKernel
  PROVE  k \in live /\ Carried(k)
<1>1. held \in [Places -> Kernels \union {NoKernel}]
  BY DEF HandoffInv, TypeOK
<1>2. CASE Unlock \/ \E g \in Geometries, arm \in BOOLEAN : Lock(g, arm)
  BY <1>2 DEF Unlock, Lock, Carried
<1>3. CASE Destroy
  <2>1. ~locked /\ bpc = "idle" /\ live' = live \ {held[p] : p \in Members}
    BY <1>3 DEF Destroy
  <2>2. held["building"] = NoKernel /\ held["hand"] = NoKernel
    BY <2>1 DEF HandoffInv, ControlInv
  <2>3. \A p \in Members : held[p] # k
    BY <2>1
  <2>4. \A p \in Places : held[p] # k
    BY <2>2, <2>3 DEF Places, Members
  <2> QED BY <2>1, <2>4 DEF Carried
<1> QED BY <1>2, <1>3 DEF Control

\* dsp/Convolver and ParamChannel's rebuild: whatever the order of the three parties, every
\* kernel that was allocated and not destroyed is in exactly one of their pointers, but
\* for an offer that tick() overwrites when it puts an older one back.
THEOREM NothingElseIsLost == Spec => OnlyOffersAreLost
<1> DEFINE NoneElse ==
      \A k \in live' :
        Unheld(k)' => (k \in live /\ Unheld(k)) \/ (TickPutBack /\ k = held["incoming"])
<1>1. HandoffInv /\ HandoffInv' /\ [Next]_vars => [NoneElse]_vars
  <2>1. ASSUME HandoffInv, HandoffInv', Next, NEW k \in live', Unheld(k)',
               ~(TickPutBack /\ k = held["incoming"])
        PROVE  k \in live /\ Unheld(k)
    <3>1. k # NoKernel
      BY <2>1, NoKernelAssumption DEF HandoffInv, TypeOK
    <3>2. ~\E p \in Places : held'[p] = k
      BY <2>1 DEF Unheld
    <3>3. k \in live /\ Carried(k)
      BY <2>1, <3>1, <3>2, BuilderCarries, AudioCarries, ControlCarries DEF Next
    <3> QED BY <3>2, <3>3 DEF Carried, Unheld
  <2> QED BY <2>1
<1> QED BY <1>1, HandoffInvariant, PTL DEF Spec, OnlyOffersAreLost

----------------------------------------------------------------------------
(* The refinement: every step of the three parties is one of the custody,   *)
(* or none.                                                                 *)

LEMMA TransitIs ==
  /\ \A k : k \in InTransit <=> k # NoKernel /\ \E p \in Places : p # "current" /\ held[p] = k
  /\ \A k : k \in InTransit' <=> k # NoKernel /\ \E p \in Places : p # "current" /\ held'[p] = k
BY DEF InTransit

\* What a pointer is emptied of and destroyed leaves custody, or the pointer was empty.
LEMMA FreeIsOne ==
  ASSUME HandoffInv, NEW q \in Places, q # "current",
         held' = [held EXCEPT ![q] = NoKernel], live' = live \ {held[q]},
         UNCHANGED <<locked, fade>>
  PROVE  [Custody!CustodyNext]_(Custody!custodyVars)
<1>1. /\ held \in [Places -> Kernels \union {NoKernel}] /\ live \subseteq Kernels
      /\ \A p \in Places : held[p] = held[q] /\ held[q] # NoKernel => p = q
  BY DEF HandoffInv, TypeOK, Ownership, OneOwner
<1>2. /\ held'[q] = NoKernel /\ \A p \in Places : p # q => held'[p] = held[p]
      /\ held'["current"] = held["current"]
  BY <1>1 DEF Places
<1>3. CASE held[q] = NoKernel
  <2>1. live' = live
    BY <1>1, <1>3, NoKernelAssumption
  <2>2. InTransit' = InTransit
    BY <1>2, <1>3, TransitIs
  <2> QED BY <1>2, <2>1, <2>2 DEF Custody!custodyVars
<1>4. CASE held[q] # NoKernel
  <2>1. held[q] \in InTransit
    BY <1>4, TransitIs
  <2>2. InTransit' = InTransit \ {held[q]}
    BY <1>1, <1>2, <1>4, TransitIs
  <2>3. held[q] \in Kernels
    BY <1>1, <1>4
  <2>4. Custody!Free(held[q])
    BY <1>2, <2>1, <2>2 DEF Custody!Free
  <2> QED BY <2>3, <2>4 DEF Custody!CustodyNext
<1> QED BY <1>3, <1>4

\* A kernel that goes from one pointer to an empty one stays in transit.
LEMMA PassIsNone ==
  ASSUME HandoffInv, NEW from \in Places \ {"current"}, NEW to \in Places \ {"current"},
         from # to, held[to] = NoKernel, Move(from, to)
  PROVE  InTransit' = InTransit /\ held'["current"] = held["current"]
<1>1. held \in [Places -> Kernels \union {NoKernel}]
  BY DEF HandoffInv, TypeOK
<1>2. held' = [held EXCEPT ![to] = held[from], ![from] = NoKernel]
  BY DEF Move
<1>3. /\ held'[to] = held[from] /\ held'[from] = NoKernel
      /\ \A p \in Places : p # to /\ p # from => held'[p] = held[p]
      /\ held'["current"] = held["current"]
  BY <1>1, <1>2 DEF Places
<1>4. \A k : k \in InTransit' <=> k \in InTransit
  BY <1>3, TransitIs
<1> QED BY <1>3, <1>4

LEMMA BuilderIsCustody ==
  ASSUME HandoffInv, Builder
  PROVE  [Custody!CustodyNext]_(Custody!custodyVars)
<1>1. /\ held \in [Places -> Kernels \union {NoKernel}] /\ live \subseteq Kernels
      /\ \A p \in Places : held[p] # NoKernel => held[p] \in live
  BY DEF HandoffInv, TypeOK, Ownership, NothingFreed
<1>2. bpc = "offer" <=> held["building"] # NoKernel
  BY DEF HandoffInv, ControlInv
<1>3. UNCHANGED <<locked, fade>>
  BY DEF Builder, Reclaim, SkipBuild, ReadRate, Build, Offer, lockVars, fadeVars
<1>4. CASE Reclaim
  BY <1>3, <1>4, FreeIsOne DEF Reclaim, Places
<1>5. CASE UNCHANGED <<held, live>>
  BY <1>3, <1>5 DEF Custody!custodyVars, InTransit
<1>6. CASE \E k \in Kernels \ live : /\ live' = live \union {k}
                                     /\ held' = [held EXCEPT !["building"] = k]
                                     /\ bpc = "build"
  <2>1. PICK k \in Kernels \ live : /\ live' = live \union {k}
                                    /\ held' = [held EXCEPT !["building"] = k]
                                    /\ bpc = "build"
    BY <1>6
  <2>2. /\ held["building"] = NoKernel /\ k # NoKernel
        /\ held'["building"] = k /\ \A p \in Places : p # "building" => held'[p] = held[p]
        /\ held'["current"] = held["current"]
    BY <1>1, <1>2, <2>1, NoKernelAssumption DEF Places
  <2>3. InTransit' = InTransit \cup {k}
    BY <2>2, TransitIs DEF Places
  <2>4. Custody!Allocate(k)
    BY <1>3, <2>1, <2>2, <2>3 DEF Custody!Allocate
  <2> QED BY <2>4 DEF Custody!CustodyNext
<1>7. CASE Offer
  <2>1. CASE held["incoming"] = NoKernel
    <3>1. Move("building", "incoming") /\ live' = live
      BY <1>7, <2>1 DEF Offer
    <3>2. InTransit' = InTransit /\ held'["current"] = held["current"]
      BY <2>1, <3>1, PassIsNone DEF Places
    <3> QED BY <1>3, <3>1, <3>2 DEF Custody!custodyVars
  <2>2. CASE held["incoming"] # NoKernel
    <3>1. /\ live' = live \ {held["building"]}
          /\ held' = [held EXCEPT !["building"] = NoKernel]
      BY <1>7, <2>2 DEF Offer
    <3> QED BY <1>3, <3>1, FreeIsOne DEF Places
  <2> QED BY <2>1, <2>2
<1>8. CASE Build
  BY <1>5, <1>6, <1>8 DEF Build
<1>9. CASE SkipBuild \/ ReadRate
  BY <1>5, <1>9 DEF SkipBuild, ReadRate
<1> QED BY <1>4, <1>7, <1>8, <1>9 DEF Builder

\* One block moves the crossfade by a step at most.
LEMMA BlockGlides ==
  ASSUME HandoffInv, locked, fade' = Crossfaded, UNCHANGED <<live, locked>>,
         InTransit' = InTransit, held'["current"] = held["current"]
  PROVE  [Custody!CustodyNext]_(Custody!custodyVars)
<1>1. TypeOK /\ FadeConverges
  BY DEF HandoffInv
<1>2. fade' = fade \/ (fade' \in {fade - 1, fade + 1} /\ fade' \in 0..FadeSteps)
  <2>1. fade' \in 0..FadeSteps
    BY <1>1, CrossfadedConverges
  <2>2. fade' = fade \/ fade' = fade - 1 \/ fade' = fade + 1
    BY <1>1, FadeAssumption DEF TypeOK, FadeConverges, Crossfaded
  <2> QED BY <2>1, <2>2
<1>3. CASE fade' = fade
  BY <1>3 DEF Custody!custodyVars
<1>4. CASE fade' \in {fade - 1, fade + 1} /\ fade' \in 0..FadeSteps
  <2>1. Custody!Glide
    BY <1>4 DEF Custody!Glide
  <2> QED BY <2>1 DEF Custody!CustodyNext
<1> QED BY <1>2, <1>3, <1>4

LEMMA TickIsCustody ==
  ASSUME HandoffInv, Tick
  PROVE  [Custody!CustodyNext]_(Custody!custodyVars)
<1>1. /\ held \in [Places -> Kernels \union {NoKernel}]
      /\ \A p, q \in Places : held[p] = held[q] /\ held[p] # NoKernel => p = q
  BY DEF HandoffInv, TypeOK, Ownership, OneOwner
<1>2. /\ tpc = "judge" <=> held["hand"] # NoKernel
      /\ tpc = "judge" => held["pending"] = NoKernel
      /\ tpc # "idle" => locked
  BY DEF HandoffInv, ControlInv, TypeOK
<1>3. UNCHANGED <<live, locked, fade>> /\ tpc # "idle"
  BY DEF Tick, TickAccept, TickReturn, TickPutBack, TickInstall, TickKeep, lockVars, fadeVars
<1>4. ASSUME NEW to \in {"pending", "retired", "incoming"}, held[to] = NoKernel, Move("hand", to)
      PROVE  [Custody!CustodyNext]_(Custody!custodyVars)
  <2>1. InTransit' = InTransit /\ held'["current"] = held["current"]
    BY <1>4, PassIsNone DEF Places
  <2> QED BY <1>3, <2>1 DEF Custody!custodyVars
<1>5. CASE TickAccept
  BY <1>2, <1>4, <1>5 DEF TickAccept
<1>6. CASE TickReturn
  BY <1>4, <1>6 DEF TickReturn
<1>7. CASE TickPutBack
  <2>1. Move("hand", "incoming") /\ held["retired"] # NoKernel /\ held["hand"] # NoKernel
    BY <1>2, <1>7 DEF TickPutBack
  <2>2. CASE held["incoming"] = NoKernel
    BY <1>4, <2>1, <2>2
  <2>3. CASE held["incoming"] # NoKernel
    <3> DEFINE k == held["incoming"]
               i == held["hand"]
               j == held["retired"]
    <3>1. k \in InTransit /\ i \in InTransit /\ j \in InTransit
      BY <2>1, <2>3, TransitIs DEF Places
    <3>2. k # i /\ k # j /\ i # j
      BY <1>1, <2>1, <2>3 DEF Places
    <3>3. held' = [held EXCEPT !["incoming"] = i, !["hand"] = NoKernel]
      BY <2>1 DEF Move
    <3>4. /\ held'["incoming"] = i /\ held'["hand"] = NoKernel
          /\ \A p \in Places : p # "incoming" /\ p # "hand" => held'[p] = held[p]
          /\ held'["current"] = held["current"]
      BY <1>1, <3>3 DEF Places
    <3>5. InTransit' = InTransit \ {k}
      <4>1. ASSUME NEW x, x \in InTransit' PROVE x \in InTransit /\ x # k
        <5>1. PICK p \in Places : p # "current" /\ held'[p] = x /\ x # NoKernel
          BY <4>1, TransitIs
        <5>2. CASE p = "incoming"
          BY <3>1, <3>2, <3>4, <5>1, <5>2
        <5>3. CASE p # "incoming"
          <6>1. p # "hand" /\ held[p] = x
            BY <3>4, <5>1, <5>3
          <6>2. "incoming" \in Places
            BY DEF Places
          <6>3. x # k
            BY <1>1, <2>3, <5>3, <6>1, <6>2
          <6> QED BY <5>1, <6>1, <6>3, TransitIs
        <5> QED BY <5>2, <5>3
      <4>2. ASSUME NEW x, x \in InTransit, x # k PROVE x \in InTransit'
        <5>1. PICK p \in Places : p # "current" /\ held[p] = x /\ x # NoKernel
          BY <4>2, TransitIs
        <5>2. CASE p = "hand"
          <6>1. x = i /\ "incoming" \in Places /\ "incoming" # "current"
            BY <5>1, <5>2 DEF Places
          <6> QED BY <3>4, <5>1, <6>1, TransitIs
        <5>3. CASE p # "hand"
          <6>1. p # "incoming" /\ held'[p] = x
            BY <3>4, <4>2, <5>1, <5>3
          <6> QED BY <5>1, <6>1, TransitIs
        <5> QED BY <5>2, <5>3
      <4> HIDE DEF k
      <4> QED BY <4>1, <4>2
    <3>6. k \in Kernels
      BY <1>1, <2>3 DEF Places
    <3> HIDE DEF k, i, j
    <3>7. \E x, y \in InTransit \ {k} : x # y
      BY <3>1, <3>2
    <3>8. Custody!Lose(k)
      BY <1>2, <1>3, <3>1, <3>4, <3>5, <3>7 DEF Custody!Lose
    <3> QED BY <3>6, <3>8 DEF Custody!CustodyNext
  <2> QED BY <2>2, <2>3
<1>8. CASE TickInstall
  <2> DEFINE k == held["pending"]
             old == held["current"]
  <2>1. /\ k # NoKernel /\ held["retired"] = NoKernel /\ fade = 0
        /\ held' = [held EXCEPT !["current"] = k, !["pending"] = NoKernel, !["retired"] = old]
    BY <1>8 DEF TickInstall
  <2>2. /\ held'["current"] = k /\ held'["pending"] = NoKernel /\ held'["retired"] = old
        /\ \A p \in Places : p \notin {"current", "pending", "retired"} => held'[p] = held[p]
    BY <1>1, <2>1 DEF Places
  <2>3. k \in InTransit /\ k \in Kernels
    BY <1>1, <2>1, TransitIs DEF Places
  <2>4. InTransit' = (InTransit \ {k}) \cup ({old} \ {NoKernel})
    <3>1. ASSUME NEW x, x \in InTransit' PROVE x \in (InTransit \ {k}) \cup ({old} \ {NoKernel})
      <4>1. PICK p \in Places : p # "current" /\ held'[p] = x /\ x # NoKernel
        BY <3>1, TransitIs
      <4>2. CASE p = "retired"
        BY <2>2, <4>1, <4>2
      <4>3. CASE p # "retired"
        <5>1. p # "pending" /\ held[p] = x
          BY <2>2, <4>1, <4>3
        <5>2. "pending" \in Places
          BY DEF Places
        <5>3. x # k
          BY <1>1, <2>1, <5>1, <5>2
        <5> QED BY <4>1, <5>1, <5>3, TransitIs
      <4> QED BY <4>2, <4>3
    <3>2. ASSUME NEW x, x \in (InTransit \ {k}) \cup ({old} \ {NoKernel}) PROVE x \in InTransit'
      <4>1. "retired" \in Places /\ "retired" # "current"
        BY DEF Places
      <4>2. CASE x = old /\ x # NoKernel
        BY <2>2, <4>1, <4>2, TransitIs
      <4>3. CASE x \in InTransit /\ x # k
        <5>1. PICK p \in Places : p # "current" /\ held[p] = x /\ x # NoKernel
          BY <4>3, TransitIs
        <5>2. p # "pending" /\ p # "retired"
          BY <2>1, <4>3, <5>1
        <5>3. held'[p] = x
          BY <2>2, <5>1, <5>2
        <5> QED BY <5>1, <5>3, TransitIs
      <4> QED BY <3>2, <4>2, <4>3
    <3> HIDE DEF k, old
    <3> QED BY <3>1, <3>2
  <2>5. Custody!Install(k)
    BY <1>2, <1>3, <2>1, <2>2, <2>3, <2>4 DEF Custody!Install
  <2> HIDE DEF k
  <2> QED BY <2>3, <2>5 DEF Custody!CustodyNext
<1>9. CASE TickKeep
  BY <1>3, <1>9 DEF TickKeep, Custody!custodyVars, InTransit
<1> QED BY <1>5, <1>6, <1>7, <1>8, <1>9 DEF Tick

LEMMA AudioIsCustody ==
  ASSUME HandoffInv, Audio
  PROVE  [Custody!CustodyNext]_(Custody!custodyVars)
<1>1. CASE ProcessBlock
  <2>1. /\ locked /\ tpc = "idle" /\ fade' = Crossfaded /\ UNCHANGED <<live, locked>>
        /\ Move("incoming", "hand") \/ UNCHANGED held
    BY <1>1 DEF ProcessBlock, lockVars
  <2>2. held["hand"] = NoKernel
    BY <2>1 DEF HandoffInv, ControlInv
  <2>3. InTransit' = InTransit /\ held'["current"] = held["current"]
    <3>1. CASE Move("incoming", "hand")
      BY <2>2, <3>1, PassIsNone DEF Places
    <3>2. CASE UNCHANGED held
      BY <3>2 DEF InTransit
    <3> QED BY <2>1, <3>1, <3>2
  <2> QED BY <2>1, <2>3, BlockGlides
<1>2. CASE \E on, bypassed \in BOOLEAN : Apply(on, bypassed)
  BY <1>2 DEF Apply, lockVars, Custody!custodyVars, InTransit
<1> QED BY <1>1, <1>2, TickIsCustody DEF Audio

LEMMA ControlIsCustody ==
  ASSUME HandoffInv, Control
  PROVE  [Custody!CustodyNext]_(Custody!custodyVars)
<1>1. CASE \E g \in Geometries, arm \in BOOLEAN : Lock(g, arm)
  <2>1. /\ ~locked /\ locked' = TRUE /\ fade' = WetTarget(enabled, held["current"])
        /\ UNCHANGED <<held, live>>
    BY <1>1 DEF Lock
  <2>2. /\ fade' \in {0, FadeSteps} /\ (held["current"] = NoKernel => fade' = 0)
        /\ InTransit' = InTransit
    BY <2>1 DEF WetTarget, InTransit
  <2>3. Custody!Start
    BY <2>1, <2>2 DEF Custody!Start
  <2> QED BY <2>3 DEF Custody!CustodyNext
<1>2. CASE Unlock
  <2>1. locked /\ locked' = FALSE /\ UNCHANGED <<held, live, fade>>
    BY <1>2 DEF Unlock, fadeVars
  <2>2. Custody!Stop
    BY <2>1 DEF Custody!Stop, InTransit
  <2> QED BY <2>2 DEF Custody!CustodyNext
<1>3. CASE Destroy
  <2>1. /\ ~locked /\ bpc = "idle" /\ live' = live \ {held[p] : p \in Members}
        /\ held' = [p \in Places |-> NoKernel] /\ fade' = 0 /\ locked' = locked
    BY <1>3 DEF Destroy
  <2>2. held["building"] = NoKernel /\ held["hand"] = NoKernel
    BY <2>1 DEF HandoffInv, ControlInv
  <2>3. live \subseteq Kernels
    BY DEF HandoffInv, TypeOK
  <2>4. InTransit' = {} /\ held'["current"] = NoKernel
    BY <2>1, TransitIs DEF Places
  <2>5. live' = live \ (InTransit \cup {held["current"]})
    <3>1. ASSUME NEW k \in live
          PROVE  (\E p \in Members : held[p] = k) <=> (k \in InTransit \/ k = held["current"])
      <4>1. k # NoKernel
        BY <2>3, NoKernelAssumption
      <4>2. k \in InTransit <=> \E p \in Places : p # "current" /\ held[p] = k
        BY <4>1, TransitIs
      <4>3. (\E p \in Places : p # "current" /\ held[p] = k)
              <=> held["incoming"] = k \/ held["pending"] = k \/ held["retired"] = k
        BY <2>2, <4>1 DEF Places
      <4>4. (\E p \in Members : held[p] = k)
              <=> held["incoming"] = k \/ held["pending"] = k \/ held["current"] = k \/ held["retired"] = k
        BY DEF Members
      <4> QED BY <4>2, <4>3, <4>4
    <3> QED BY <2>1, <3>1
  <2>6. Custody!Dismantle
    BY <2>1, <2>4, <2>5 DEF Custody!Dismantle
  <2> QED BY <2>6 DEF Custody!CustodyNext
<1> QED BY <1>1, <1>2, <1>3 DEF Control

\* dsp/Convolver.h's promises: an exchange of pointers here and a compare-and-swap there amount
\* to custody.  Whatever the three parties do, and in whatever order, a kernel has one owner,
\* is freed once and never in use, comes into use in silence, and the wet signal glides.
THEOREM HandoffIsCustody == Spec => ImplementsCustody
<1>1. Init => Custody!CustodyInit
  <2>1. Init => InTransit = {}
    BY DEF Init, InTransit
  <2> QED BY <2>1 DEF Init, Custody!CustodyInit, Places
<1>2. HandoffInv /\ [Next]_vars => [Custody!CustodyNext]_(Custody!custodyVars)
  <2>1. ASSUME HandoffInv, Next PROVE [Custody!CustodyNext]_(Custody!custodyVars)
    BY <2>1, BuilderIsCustody, AudioIsCustody, ControlIsCustody DEF Next
  <2>2. ASSUME UNCHANGED vars PROVE UNCHANGED Custody!custodyVars
    BY <2>2 DEF vars, fadeVars, lockVars, Custody!custodyVars, InTransit
  <2> QED BY <2>1, <2>2
<1> QED BY <1>1, <1>2, HandoffInvariant, PTL DEF Spec, ImplementsCustody, Custody!CustodySpec

=============================================================================
