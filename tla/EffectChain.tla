----------------------------- MODULE EffectChain -----------------------------
(***************************************************************************)
(* dsp/EffectChain.{h,cpp}, the sanitiser of dsp/ParamBlock.cpp, and the   *)
(* way apo/DreamApo.cpp drives them: from the bytes of a parameter block   *)
(* to what each stage of one stream is running.                            *)
(*                                                                         *)
(* A stage is a name and its parameters one number, of which the constants *)
(* say what the properties depend on: the range the sanitiser allows, what *)
(* prepare() does to the parameters the stage holds, whether the sample    *)
(* rate bounds them, whether they are samples of delay.  The sound in a    *)
(* stage's memory is known by its age only.                                *)
(***************************************************************************)
EXTENDS Naturals, FiniteSets, Sequences

CONSTANTS
  Stages,        \* kStage* and the kEn* bit of each
  Conv,          \* the convolution stage
  Stage0,        \* the stage whose number is 0
  UnknownBit,    \* a bit of the mask outside kEnKnown
  DefaultOrder,  \* kDefaultOrder
  Least, Most, Fallback,  \* sanF: the range of a stage's value, and for NaN
  NaN,           \* NaN or infinity
  Initial,       \* the parameters a stage object is constructed with
  Keeps,         \* stages whose prepare() keeps the parameters they have
  Zeroes,        \* those whose prepare() makes them what a zero block means
  RateLimited,   \* those clampForRate() looks at
  Rates, Limit,  \* sample rates, and the largest value each allows
  Delaying,      \* stages whose value is a delay, in samples
  RawOrders, RawValues    \* what a block may hold before it is sanitised

Bypass == "kPfBypass"
UnknownFlag == "unknown"

ASSUME StagesAssumption ==
  /\ IsFiniteSet(Stages) /\ Conv \in Stages /\ Stage0 \in Stages \ {Conv}
  /\ UnknownBit \notin Stages
ASSUME KindsAssumption ==
  /\ Keeps \subseteq Stages /\ Zeroes \subseteq Stages \ Keeps
  /\ RateLimited \subseteq Stages
  /\ Delaying \subseteq Stages \ {Conv}
ASSUME ValuesAssumption ==
  /\ Least \in [Stages -> Nat] /\ Most \in [Stages -> Nat]
  /\ Fallback \in [Stages -> Nat] /\ Initial \in [Stages -> Nat]
  /\ Limit \in [Rates -> Nat \ {0}]
  /\ NaN \notin Nat
  /\ RawValues \subseteq Nat \union {NaN}
ASSUME RatesAssumption == Rates # {}

Positions == 1..Cardinality(Stages)
Orders == [Positions -> Stages]

\* isPermutation(): "names every stage exactly once".
IsPermutation(order) ==
  /\ order \in Orders
  /\ \A i, j \in Positions : order[i] = order[j] => i = j

ASSUME OrdersAssumption == IsPermutation(DefaultOrder)

-----------------------------------------------------------------------------
(* sanitise() and clampForRate()                                           *)

RawBlocks ==
  [mask : SUBSET (Stages \union {UnknownBit}), flags : SUBSET {Bypass, UnknownFlag},
   order : RawOrders, value : [Stages -> RawValues]]

\* sanF(): not a number becomes the fallback, anything else is clamped.
SanF(v, s) ==
  IF v = NaN THEN Fallback[s]
  ELSE IF v < Least[s] THEN Least[s]
  ELSE IF v > Most[s] THEN Most[s]
  ELSE v

\* Mutant of Sanitise: unknown flags are let through.
SanitiseAnyFlags(in) ==
  [mask |-> in.mask \intersect Stages,
   flags |-> in.flags,
   order |-> IF IsPermutation(in.order) THEN in.order ELSE DefaultOrder,
   value |-> [s \in Stages |-> SanF(in.value[s], s)]]

\* Mutant of Sanitise: the order is taken as it comes.
SanitiseAnyOrder(in) ==
  [mask |-> in.mask \intersect Stages,
   flags |-> in.flags \intersect {Bypass},
   order |-> in.order,
   value |-> [s \in Stages |-> SanF(in.value[s], s)]]

\* Unknown bits dropped, every value in range, and an order that is not a
\* permutation replaced wholesale.
Sanitise(in) ==
  [mask |-> in.mask \intersect Stages,
   flags |-> in.flags \intersect {Bypass},
   order |-> IF IsPermutation(in.order) THEN in.order ELSE DefaultOrder,
   value |-> [s \in Stages |-> SanF(in.value[s], s)]]

\* What ParamSlots can hold: sanitised blocks.
Blocks == {Sanitise(in) : in \in RawBlocks}

\* memset(&m_pending, 0): its order names stage 0 throughout.
ZeroBlock ==
  [mask |-> {}, flags |-> {}, order |-> [i \in Positions |-> Stage0],
   value |-> [s \in Stages |-> 0]]

ClampForRate(p, r) ==
  [p EXCEPT !.value = [s \in Stages |->
     IF s \in RateLimited /\ p.value[s] > Limit[r] THEN Limit[r] ELSE p.value[s]]]

-----------------------------------------------------------------------------
(* EffectChain.  A chain is a record: mask, flags and value are m_applied, *)
(* order is m_order, running is what each stage has in m_p, and memory is  *)
(* the age of the sound in its delay lines and filters: "clean", "live",   *)
(* or "old" once the stage has been switched off under it.                 *)

Memories == {"clean", "live", "old"}
Silent == [s \in Stages |-> "clean"]

\* prepare(): m_applied zeroed; every stage reset, its parameters kept,
\* zeroed, or put back to what the object started with.
Prepare(c) ==
  [mask |-> {}, flags |-> {}, value |-> [s \in Stages |-> 0],
   order |-> DefaultOrder,
   running |-> [s \in Stages |->
      IF s \in Keeps THEN c.running[s] ELSE IF s \in Zeroes THEN 0 ELSE Initial[s]],
   memory |-> Silent]

\* "An effect that is off and was off is never redesigned", nor one whose
\* parameters compare equal to those last installed.
Redesigned(c, p) ==
  {s \in p.mask \union c.mask : p.value[s] # c.value[s]}

TurnedOn(c, p) == p.mask \ c.mask

Installed(old, p, which) ==
  [s \in Stages |-> IF s \in which THEN p.value[s] ELSE old[s]]

\* The stages reset when they are switched on: all but the convolution.
Cleared(memory, which) ==
  [s \in Stages |-> IF s \in which \ {Conv} THEN "clean" ELSE memory[s]]

\* Mutant of Apply: the parameters are remembered even where the stage, being
\* off, was not given them.
ApplyRememberingAll(c, block, r) ==
  LET p == ClampForRate(block, r)
  IN [mask |-> p.mask, flags |-> p.flags, order |-> p.order,
      value |-> p.value,
      running |-> Installed(c.running, p, Redesigned(c, p)),
      memory |-> Cleared(c.memory, TurnedOn(c, p))]

\* Mutant of Apply: the block is remembered as it was before the rate's clamps.
ApplyRememberingRaw(c, block, r) ==
  LET p == ClampForRate(block, r)
  IN [mask |-> p.mask, flags |-> p.flags, order |-> p.order,
      value |-> Installed(c.value, block, Redesigned(c, p)),
      running |-> Installed(c.running, p, Redesigned(c, p)),
      memory |-> Cleared(c.memory, TurnedOn(c, p))]

\* Mutant of Apply: nothing is reset when it is switched on.
ApplyWithoutReset(c, block, r) ==
  LET p == ClampForRate(block, r)
  IN [mask |-> p.mask, flags |-> p.flags, order |-> p.order,
      value |-> Installed(c.value, p, Redesigned(c, p)),
      running |-> Installed(c.running, p, Redesigned(c, p)),
      memory |-> c.memory]

\* apply(): by value, clamped for the rate first.
Apply(c, block, r) ==
  LET p == ClampForRate(block, r)
  IN [mask |-> p.mask, flags |-> p.flags, order |-> p.order,
      value |-> Installed(c.value, p, Redesigned(c, p)),
      running |-> Installed(c.running, p, Redesigned(c, p)),
      memory |-> Cleared(c.memory, TurnedOn(c, p))]

\* activeMask(): the convolution counts whenever it is armed.
ActiveMask(c, arm) ==
  IF Bypass \in c.flags THEN {} ELSE c.mask \union (IF arm THEN {Conv} ELSE {})

\* What process() calls: the active stages the order names.
Runs(c, arm) == {s \in ActiveMask(c, arm) : \E i \in Positions : c.order[i] = s}

\* A stage that runs takes in the buffer (the convolution only when armed); one
\* that is off is left with what it had.  A bypassed rack is left alone.
Off(c, arm) ==
  {s \in Stages : IF s = Conv THEN Bypass \notin c.flags /\ s \notin Runs(c, arm)
                              ELSE s \notin c.mask}

Process(c, arm) ==
  [c EXCEPT !.memory = [s \in Stages |->
     IF c.memory[s] = "live" /\ s \in Off(c, arm) THEN "old"
     ELSE IF /\ c.memory[s] = "clean"
             /\ s \in Runs(c, arm)
             /\ s = Conv => arm
          THEN "live"
          ELSE c.memory[s]]]

\* latencySamples(), term by term: on or off, a stage counts for what its
\* parameters say.
Latency(c, arm) ==
  [s \in Stages |-> IF s = Conv THEN (IF arm THEN 1 ELSE 0)
                    ELSE IF s \in Delaying THEN c.running[s] ELSE 0]
=============================================================================
