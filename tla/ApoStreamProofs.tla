--------------------------- MODULE ApoStreamProofs ---------------------------
(***************************************************************************)
(* Proofs about ApoStream, for any set of stages, any ranges and any rates *)
(* that meet the assumptions of EffectChain.                               *)
(***************************************************************************)
EXTENDS ApoStream, FiniteSetTheorems, TLAPS

\* What m_applied says against what the stages have and what the last block
\* asked: a stage runs what was last installed, except zero where prepare() left
\* it something else; an enabled stage was last given the last block's value.
AppliedInv ==
  /\ \A s \in Stages :
       chain.value[s] # 0 \/ s \in Zeroes => chain.running[s] = chain.value[s]
  /\ \A s \in chain.mask : chain.value[s] = Wanted.value[s]
  /\ chain.mask = pending.mask

\* The age of what the stages remember.  That the convolution never misses a
\* buffer rests on the order naming it.
MemoryInv ==
  /\ \A s \in chain.mask \ {Conv} : chain.memory[s] # "old"
  /\ chain.memory[Conv] # "old"
  /\ chain.memory[Conv] = "live" => armed

\* A stream without the channel has only ever had the zero block.
AloneInv == ~held => pending = ZeroBlock /\ chain.memory = Silent

\* A stream with it has only ever had sanitised ones.
HeldInv == held => \A s \in Stages : \E i \in Positions : pending.order[i] = s

\* The chain runs in the order of the last of them.
OrderInv == held => chain.order = pending.order

\* What was promised of a stage that is still as it was is still what it does.
PromiseInv ==
  /\ Conv \in DOMAIN promised => promised[Conv] = IF armed THEN 1 ELSE 0
  /\ \A s \in (DOMAIN promised \intersect chain.mask) \ {Conv} :
       promised[s] = Latency(chain, armed)[s]

StreamInv ==
  /\ TypeOK
  /\ held => locked
  /\ locked => AppliedInv /\ MemoryInv /\ AloneInv /\ HeldInv /\ OrderInv /\ PromiseInv

-----------------------------------------------------------------------------
(* The operators of EffectChain.                                           *)

\* There are as many positions as stages.
LEMMA PositionsCounted ==
  IsFiniteSet(Positions) /\ Cardinality(Positions) = Cardinality(Stages)
<1> DEFINE n == Cardinality(Stages)
<1>1. n \in Nat
  BY StagesAssumption, FS_CardinalityType
<1>2. IsFiniteSet(1..n) /\ Cardinality(1..n) = IF 1 > n THEN 0 ELSE n - 1 + 1
  BY <1>1, FS_Interval
<1> QED BY <1>1, <1>2 DEF Positions

\* A permutation names every stage: the code only looks for duplicates.
LEMMA PermutationNamesAll ==
  ASSUME NEW order, IsPermutation(order), NEW s \in Stages
  PROVE  \E i \in Positions : order[i] = s
<1>1. order \in Injection(Positions, Stages)
  BY DEF IsPermutation, Orders, Injection, IsInjective
<1>2. order \in Surjection(Positions, Stages)
  BY <1>1, PositionsCounted, StagesAssumption, FS_Injection
<1> QED BY <1>2 DEF Surjection

\* What a sanitised block is.
LEMMA SanitisedType ==
  ASSUME NEW p \in Blocks
  PROVE  /\ p \in BlockType
         /\ \A s \in Stages : \E i \in Positions : p.order[i] = s
<1>1. PICK in \in RawBlocks : p = Sanitise(in)
  BY DEF Blocks
<1>2. p.order \in Orders /\ \A s \in Stages : \E i \in Positions : p.order[i] = s
  <2>1. CASE IsPermutation(in.order)
    BY <1>1, <2>1, PermutationNamesAll DEF Sanitise, IsPermutation
  <2>2. CASE ~IsPermutation(in.order)
    BY <1>1, <2>2, OrdersAssumption, PermutationNamesAll DEF Sanitise, IsPermutation
  <2> QED BY <2>1, <2>2
<1>3. \A s \in Stages : SanF(in.value[s], s) \in Nat
  BY ValuesAssumption DEF RawBlocks, SanF
<1>4. p = [mask |-> in.mask \intersect Stages, flags |-> in.flags \intersect {Bypass},
           order |-> p.order, value |-> [s \in Stages |-> SanF(in.value[s], s)]]
  BY <1>1 DEF Sanitise
<1> QED BY <1>2, <1>3, <1>4 DEF BlockType

LEMMA ZeroBlockType == ZeroBlock \in BlockType
BY StagesAssumption DEF ZeroBlock, BlockType, Orders

LEMMA ClampType ==
  ASSUME NEW p \in BlockType, NEW r \in Rates
  PROVE  /\ ClampForRate(p, r) \in BlockType
         /\ ClampForRate(p, r).mask = p.mask
         /\ ClampForRate(p, r).flags = p.flags
         /\ ClampForRate(p, r).order = p.order
<1>1. \A s \in Stages : p.value[s] \in Nat /\ Limit[r] \in Nat
  BY ValuesAssumption DEF BlockType
<1> QED BY <1>1 DEF ClampForRate, BlockType

LEMMA PrepareType ==
  ASSUME NEW c \in ChainType
  PROVE  Prepare(c) \in ChainType
BY ValuesAssumption, OrdersAssumption DEF IsPermutation, Prepare, ChainType, Silent, Memories

LEMMA ApplyType ==
  ASSUME NEW c \in ChainType, NEW p \in BlockType, NEW r \in Rates
  PROVE  Apply(c, p, r) \in ChainType
<1> DEFINE q == ClampForRate(p, r)
<1>1. q \in BlockType
  BY ClampType
<1>2. Installed(c.value, q, Redesigned(c, q)) \in [Stages -> Nat]
  BY <1>1 DEF Installed, BlockType, ChainType
<1>3. Installed(c.running, q, Redesigned(c, q)) \in [Stages -> Nat]
  BY <1>1 DEF Installed, BlockType, ChainType
<1>4. Cleared(c.memory, TurnedOn(c, q)) \in [Stages -> Memories]
  BY DEF Cleared, ChainType, Memories
<1> QED BY <1>1, <1>2, <1>3, <1>4 DEF Apply, ChainType, BlockType

LEMMA ProcessType ==
  ASSUME NEW c \in ChainType, NEW arm \in BOOLEAN
  PROVE  /\ Process(c, arm) \in ChainType
         /\ Process(c, arm).mask = c.mask
         /\ Process(c, arm).value = c.value
         /\ Process(c, arm).running = c.running
BY DEF Process, ChainType, Memories

LEMMA LatencyType ==
  ASSUME NEW c \in ChainType, NEW arm \in BOOLEAN
  PROVE  Latency(c, arm) \in [Stages -> Nat]
BY DEF Latency, ChainType

\* After apply(), the mask is the block's, a stage runs what m_applied says, and
\* an enabled stage was given the block's value.
LEMMA ApplySettles ==
  ASSUME NEW c \in ChainType, NEW p \in BlockType, NEW r \in Rates,
         \A s \in Stages : c.value[s] # 0 \/ s \in Zeroes => c.running[s] = c.value[s]
  PROVE  LET d == Apply(c, p, r)
         IN /\ d.mask = p.mask
            /\ \A s \in Stages :
                 d.value[s] # 0 \/ s \in Zeroes => d.running[s] = d.value[s]
            /\ \A s \in d.mask : d.value[s] = ClampForRate(p, r).value[s]
<1> DEFINE q == ClampForRate(p, r)
           d == Apply(c, p, r)
<1>1. q \in BlockType /\ q.mask = p.mask
  BY ClampType
<1>2. /\ d.mask = q.mask
      /\ d.value = Installed(c.value, q, Redesigned(c, q))
      /\ d.running = Installed(c.running, q, Redesigned(c, q))
  BY DEF Apply
<1>3. \A s \in Stages : IF s \in Redesigned(c, q)
                        THEN d.value[s] = q.value[s] /\ d.running[s] = q.value[s]
                        ELSE d.value[s] = c.value[s] /\ d.running[s] = c.running[s]
  BY <1>2 DEF Installed
<1>4. \A s \in q.mask : s \in Stages /\ (s \notin Redesigned(c, q) => c.value[s] = q.value[s])
  BY <1>1 DEF Redesigned, BlockType
<1> QED BY <1>1, <1>2, <1>3, <1>4

\* A stage whose parameters compare equal is left with what it has.
LEMMA ApplySpares ==
  ASSUME NEW c \in ChainType, NEW p \in BlockType, NEW r \in Rates, NEW s \in Stages,
         ClampForRate(p, r).value[s] = c.value[s]
  PROVE  Apply(c, p, r).running[s] = c.running[s]
BY DEF Apply, Installed, Redesigned

\* The order is the block's, clamped for the rate or not.
LEMMA ApplyKeepsOrder ==
  ASSUME NEW c, NEW p \in BlockType, NEW r \in Rates
  PROVE  Apply(c, p, r).order = p.order
BY ClampType DEF Apply

\* What prepare() leaves satisfies the hypothesis of ApplySettles.
LEMMA PrepareSettles ==
  ASSUME NEW c \in ChainType
  PROVE  \A s \in Stages :
           Prepare(c).value[s] # 0 \/ s \in Zeroes
             => Prepare(c).running[s] = Prepare(c).value[s]
BY KindsAssumption DEF Prepare

\* prepare() followed by apply() leaves nothing in any memory.
LEMMA FreshMemory ==
  ASSUME NEW c \in ChainType, NEW p \in BlockType, NEW r \in Rates
  PROVE  Apply(Prepare(c), p, r).memory = Silent
BY DEF Apply, Prepare, Cleared, Silent

-----------------------------------------------------------------------------
(* The invariant.                                                          *)

LEMMA InitInv == Init => StreamInv
<1> SUFFICES ASSUME Init PROVE StreamInv
  OBVIOUS
<1>1. chain \in ChainType
  BY ValuesAssumption, OrdersAssumption
     DEF Init, IsPermutation, ChainType, Silent, Memories
<1>2. DOMAIN promised = {} /\ promised \in [DOMAIN promised -> Nat]
  BY DEF Init
<1> QED BY <1>1, <1>2, ZeroBlockType DEF Init, StreamInv, TypeOK

LEMMA LockStep ==
  ASSUME StreamInv, NEW r \in Rates, Lock(r)
  PROVE  StreamInv'
<1> DEFINE c == Prepare(chain)
<1>1. /\ locked' = TRUE /\ rate' = r /\ held' = TRUE
      /\ pending' \in Blocks
      /\ armed' = (pending'.value[Conv] # 0)
      /\ chain' = Apply(c, pending', r)
      /\ promised' = Latency(chain', armed')
  BY DEF Lock
<1>2. pending' \in BlockType /\ HeldInv'
  BY <1>1, SanitisedType DEF HeldInv
<1>3. c \in ChainType
  BY PrepareType DEF StreamInv, TypeOK
<1>4. chain' \in ChainType /\ armed' \in BOOLEAN
  BY <1>1, <1>2, <1>3, ApplyType
<1>5. promised' \in [Stages -> Nat]
  BY <1>1, <1>4, LatencyType
<1>6. TypeOK'
  BY <1>1, <1>2, <1>4, <1>5 DEF TypeOK
<1>7. AppliedInv'
  BY <1>1, <1>2, <1>3, ApplySettles, PrepareSettles DEF AppliedInv, Wanted, StreamInv, TypeOK
<1>8. MemoryInv'
  <2>1. chain'.memory = Silent
    BY <1>1, <1>2, FreshMemory DEF StreamInv, TypeOK
  <2> QED BY <2>1, <1>4, StagesAssumption DEF MemoryInv, Silent, ChainType
<1>9. PromiseInv'
  BY <1>1, <1>5, StagesAssumption DEF PromiseInv, Latency
<1>10. AloneInv'
  BY <1>1 DEF AloneInv
<1>11. OrderInv'
  BY <1>1, <1>2, ApplyKeepsOrder DEF OrderInv
<1> QED BY <1>1, <1>2, <1>6, <1>7, <1>8, <1>9, <1>10, <1>11 DEF StreamInv

LEMMA LockAloneStep ==
  ASSUME StreamInv, NEW r \in Rates, LockAlone(r)
  PROVE  StreamInv'
<1>1. /\ ~locked
      /\ locked' = TRUE /\ rate' = r
      /\ pending' = ZeroBlock
      /\ chain' = Prepare(chain)
      /\ promised' = Latency(chain', armed)
      /\ held' = held /\ armed' = armed
  BY DEF LockAlone
<1>2. chain' \in ChainType
  BY <1>1, PrepareType DEF StreamInv, TypeOK
<1>3. promised' \in [Stages -> Nat]
  BY <1>1, <1>2, LatencyType DEF StreamInv, TypeOK
<1>4. TypeOK'
  BY <1>1, <1>2, <1>3, ZeroBlockType DEF StreamInv, TypeOK
<1>5. AppliedInv'
  BY <1>1, PrepareSettles DEF AppliedInv, Prepare, ZeroBlock, StreamInv, TypeOK
<1>6. chain'.memory = Silent /\ chain'.mask = {}
  BY <1>1 DEF Prepare
<1>7. MemoryInv' /\ AloneInv' /\ HeldInv' /\ OrderInv'
  BY <1>1, <1>6, StagesAssumption DEF MemoryInv, AloneInv, HeldInv, OrderInv, Silent, StreamInv
<1>8. PromiseInv'
  BY <1>1, <1>3, <1>6, StagesAssumption DEF PromiseInv, Latency
<1> QED BY <1>1, <1>4, <1>5, <1>7, <1>8 DEF StreamInv

\* A callback with the channel: any sanitised block.
LEMMA HeldMemory ==
  ASSUME StreamInv, locked, held, NEW p \in Blocks,
         chain' = Process(Apply(chain, p, rate), armed), pending' = p, armed' = armed
  PROVE  MemoryInv'
<1> DEFINE d == Apply(chain, p, rate)
<1>1. /\ p \in BlockType
      /\ \E i \in Positions : p.order[i] = Conv
  BY SanitisedType, StagesAssumption
<1>2. chain \in ChainType /\ rate \in Rates /\ armed \in BOOLEAN
      /\ AppliedInv /\ MemoryInv
  BY DEF StreamInv, TypeOK
<1>3. /\ d.mask = p.mask /\ d.flags = p.flags /\ d.order = p.order
      /\ d.memory = Cleared(chain.memory, TurnedOn(chain, ClampForRate(p, rate)))
  BY <1>1, <1>2, ClampType DEF Apply
<1>4. d \in ChainType
  BY <1>1, <1>2, ApplyType
<1>5. d.memory[Conv] = chain.memory[Conv]
  BY <1>3, StagesAssumption DEF Cleared
<1>6. \A s \in d.mask \ {Conv} : d.memory[s] # "old"
  <2> SUFFICES ASSUME NEW s \in p.mask \ {Conv} PROVE d.memory[s] # "old"
    BY <1>3
  <2>1. s \in Stages
    BY <1>1 DEF BlockType
  <2>2. CASE s \in chain.mask
    BY <1>2, <1>3, <2>1, <2>2 DEF Cleared, MemoryInv
  <2>3. CASE s \notin chain.mask
    <3>1. s \in TurnedOn(chain, ClampForRate(p, rate))
      BY <1>1, <1>2, <2>3, ClampType DEF TurnedOn
    <3> QED BY <1>3, <2>1, <3>1 DEF Cleared
  <2> QED BY <2>2, <2>3
<1>7. chain'.mask = d.mask /\ d.mask \subseteq Stages
  BY <1>1, <1>2, <1>3, <1>4, ProcessType DEF BlockType
<1>8. \A s \in Stages : chain'.memory[s] =
        IF d.memory[s] = "live" /\ s \in Off(d, armed) THEN "old"
        ELSE IF d.memory[s] = "clean" /\ s \in Runs(d, armed) /\ (s = Conv => armed)
             THEN "live" ELSE d.memory[s]
  BY <1>4 DEF Process, ChainType
<1>9. \A s \in chain'.mask \ {Conv} : chain'.memory[s] # "old"
  BY <1>6, <1>7, <1>8 DEF Off
<1>10. d.memory[Conv] = "live" => Conv \notin Off(d, armed)
  BY <1>1, <1>2, <1>3, <1>5 DEF MemoryInv, Off, Runs, ActiveMask
<1> QED BY <1>2, <1>5, <1>8, <1>9, <1>10, StagesAssumption DEF MemoryInv

\* A callback without it: nothing runs, whatever is armed.
LEMMA AloneMemory ==
  ASSUME StreamInv, locked, ~held,
         chain' = Process(Apply(chain, ZeroBlock, rate), armed)
  PROVE  chain'.memory = Silent /\ chain'.mask = {}
<1> DEFINE d == Apply(chain, ZeroBlock, rate)
<1>1. chain \in ChainType /\ rate \in Rates /\ armed \in BOOLEAN /\ AloneInv
  BY DEF StreamInv, TypeOK
<1>2. d \in ChainType
  BY <1>1, ZeroBlockType, ApplyType
<1>3. /\ d.mask = {} /\ d.order = ZeroBlock.order
      /\ d.memory = Cleared(chain.memory, TurnedOn(chain, ClampForRate(ZeroBlock, rate)))
  BY <1>1, ZeroBlockType, ClampType DEF Apply, ZeroBlock
<1>4. d.memory = Silent
  BY <1>1, <1>3 DEF AloneInv, Cleared, Silent
<1>5. Runs(d, armed) = {}
  BY <1>3, StagesAssumption DEF Runs, ActiveMask, ZeroBlock
<1> QED BY <1>1, <1>2, <1>3, <1>4, <1>5, ProcessType DEF Process, Silent

LEMMA APOProcessStep ==
  ASSUME StreamInv, APOProcess
  PROVE  StreamInv'
<1> DEFINE d == Apply(chain, pending', rate)
<1>1. /\ locked /\ locked' = locked /\ rate' = rate /\ held' = held
      /\ armed' = armed
      /\ pending' \in IF held THEN Blocks ELSE {pending}
      /\ chain' = Process(d, armed)
      /\ promised' = [s \in DOMAIN promised \ Changed |-> promised[s]]
  BY DEF APOProcess
<1>2. TypeOK /\ AppliedInv /\ MemoryInv /\ AloneInv /\ HeldInv /\ OrderInv /\ PromiseInv
  BY <1>1 DEF StreamInv
<1>3. pending' \in BlockType /\ (~held => pending' = ZeroBlock)
  BY <1>1, <1>2, SanitisedType DEF AloneInv, TypeOK
<1>4. chain \in ChainType /\ rate \in Rates /\ armed \in BOOLEAN
  BY <1>2 DEF TypeOK
<1>5. d \in ChainType
  BY <1>3, <1>4, ApplyType
<1>6. /\ chain' \in ChainType /\ chain'.mask = d.mask
      /\ chain'.value = d.value /\ chain'.running = d.running
  BY <1>1, <1>4, <1>5, ProcessType
<1>7. /\ d.mask = pending'.mask
      /\ \A s \in Stages :
           d.value[s] # 0 \/ s \in Zeroes => d.running[s] = d.value[s]
      /\ \A s \in d.mask : d.value[s] = ClampForRate(pending', rate).value[s]
  BY <1>2, <1>3, <1>4, ApplySettles DEF AppliedInv
<1>8. AppliedInv'
  BY <1>1, <1>6, <1>7 DEF AppliedInv, Wanted
<1>9. TypeOK'
  BY <1>1, <1>2, <1>3, <1>4, <1>6 DEF TypeOK
<1>10. HeldInv'
  BY <1>1, SanitisedType DEF HeldInv
<1>11. AloneInv'
  BY <1>1, <1>3, AloneMemory DEF AloneInv
<1>12. MemoryInv'
  <2>1. CASE held
    BY <1>1, <2>1, HeldMemory
  <2>2. CASE ~held
    BY <1>1, <1>3, <2>2, AloneMemory, StagesAssumption DEF MemoryInv, Silent
  <2> QED BY <2>1, <2>2
<1>13. PromiseInv'
  <2>1. Conv \in DOMAIN promised' => promised'[Conv] = IF armed' THEN 1 ELSE 0
    BY <1>1, <1>2 DEF PromiseInv
  <2>2. ASSUME NEW s \in (DOMAIN promised' \intersect chain'.mask) \ {Conv}
        PROVE  promised'[s] = Latency(chain', armed')[s]
    <3>1. s \in DOMAIN promised /\ s \notin Changed /\ promised'[s] = promised[s]
      BY <1>1
    <3>2. s \in Stages
      BY <1>2, <3>1 DEF TypeOK
    <3>3. s \in pending.mask /\ pending'.value[s] = pending.value[s]
      BY <1>6, <1>7, <3>1, <3>2 DEF Changed
    <3>4. s \in chain.mask /\ chain.value[s] = ClampForRate(pending, rate).value[s]
      BY <1>2, <3>3 DEF AppliedInv, Wanted
    <3>5. ClampForRate(pending', rate).value[s] = ClampForRate(pending, rate).value[s]
      BY <1>2, <1>3, <3>2, <3>3 DEF ClampForRate, TypeOK, BlockType
    <3>6. chain'.running[s] = chain.running[s]
      BY <1>3, <1>4, <1>6, <3>2, <3>4, <3>5, ApplySpares
    <3>7. promised[s] = Latency(chain, armed)[s]
      BY <1>2, <3>1, <3>4 DEF PromiseInv
    <3> QED BY <1>1, <3>1, <3>2, <3>6, <3>7 DEF Latency
  <2> QED BY <2>1, <2>2 DEF PromiseInv
<1>14. OrderInv'
  <2>1. chain'.order = d.order
    BY <1>1 DEF Process, Apply
  <2>2. d.order = pending'.order
    BY <1>3, <1>4, ApplyKeepsOrder
  <2> QED BY <2>1, <2>2 DEF OrderInv
<1> QED BY <1>1, <1>8, <1>9, <1>10, <1>11, <1>12, <1>13, <1>14 DEF StreamInv

LEMMA ResetStep ==
  ASSUME StreamInv, Reset
  PROVE  StreamInv'
<1>1. /\ chain' = [chain EXCEPT !.memory = Silent]
      /\ UNCHANGED <<locked, rate, held, armed, pending, promised>>
  BY DEF Reset
<1>2. TypeOK
  BY DEF StreamInv
<1>3. /\ chain' \in ChainType /\ chain'.memory = Silent
      /\ chain'.mask = chain.mask /\ chain'.value = chain.value
      /\ chain'.running = chain.running /\ chain'.order = chain.order
  BY <1>1, <1>2 DEF TypeOK, ChainType, Silent, Memories
<1>4. TypeOK'
  BY <1>1, <1>2, <1>3 DEF TypeOK
<1>5. ASSUME locked
      PROVE  AppliedInv' /\ MemoryInv' /\ AloneInv' /\ HeldInv' /\ OrderInv' /\ PromiseInv'
  <2>1. AppliedInv /\ AloneInv /\ HeldInv /\ OrderInv /\ PromiseInv
    BY <1>5 DEF StreamInv
  <2>2. AppliedInv'
    BY <1>1, <1>3, <2>1 DEF AppliedInv, Wanted
  <2>3. MemoryInv'
    BY <1>2, <1>3, StagesAssumption DEF MemoryInv, Silent, TypeOK, ChainType
  <2>4. AloneInv' /\ HeldInv' /\ OrderInv'
    BY <1>1, <1>3, <2>1 DEF AloneInv, HeldInv, OrderInv
  <2>5. PromiseInv'
    BY <1>1, <1>3, <2>1 DEF PromiseInv, Latency
  <2> QED BY <2>2, <2>3, <2>4, <2>5
<1> QED BY <1>1, <1>4, <1>5 DEF StreamInv

LEMMA UnlockStep ==
  ASSUME StreamInv, UnlockForProcess
  PROVE  StreamInv'
<1>1. /\ locked' = FALSE /\ held' = FALSE
      /\ promised' = [s \in {} |-> 0]
      /\ UNCHANGED <<rate, armed, pending, chain>>
  BY DEF UnlockForProcess
<1>2. DOMAIN promised' = {} /\ promised' \in [DOMAIN promised' -> Nat]
  BY <1>1
<1> QED BY <1>1, <1>2 DEF StreamInv, TypeOK

LEMMA StutterStep ==
  ASSUME StreamInv, UNCHANGED vars
  PROVE  StreamInv'
BY DEF StreamInv, vars, TypeOK, AppliedInv, MemoryInv, AloneInv, HeldInv, OrderInv, PromiseInv, Wanted

\* StreamInv is an invariant: it holds initially and every step preserves it.
THEOREM StreamInvariant == Spec => []StreamInv
<1>1. StreamInv /\ [Next]_vars => StreamInv'
  BY LockStep, LockAloneStep, APOProcessStep, ResetStep, UnlockStep, StutterStep DEF Next
<1> QED BY InitInv, <1>1, PTL DEF Spec

-----------------------------------------------------------------------------
(* What follows from it.                                                   *)

\* Types.
THEOREM StreamType == Spec => []TypeOK
<1>1. StreamInv => TypeOK
  BY DEF StreamInv
<1> QED BY StreamInvariant, <1>1, PTL

\* However the parameters are edited while an effect is off, bypassed, or the
\* stream is being rebuilt, an enabled stage runs what the last block says.
THEOREM EnabledAlwaysLatest == Spec => []EnabledRunsLatest
<1>1. StreamInv => EnabledRunsLatest
  <2> SUFFICES ASSUME StreamInv, locked, NEW s \in chain.mask,
                      Wanted.value[s] # 0 \/ s \in Zeroes
               PROVE  chain.running[s] = Wanted.value[s]
    BY DEF EnabledRunsLatest
  <2>1. s \in Stages
    BY DEF StreamInv, TypeOK, ChainType
  <2> QED BY <2>1 DEF StreamInv, AppliedInv
<1> QED BY StreamInvariant, <1>1, PTL

\* No tail of an earlier life of an effect is ever heard.
THEOREM NeverOldTail == Spec => []NoOldTail
<1>1. StreamInv => NoOldTail
  BY DEF StreamInv, MemoryInv, NoOldTail
<1> QED BY StreamInvariant, <1>1, PTL

\* A stream that did not get the channel changes nothing.
THEOREM AloneIsTransparent == Spec => []TransparentWithoutChannel
<1>1. StreamInv => TransparentWithoutChannel
  BY DEF StreamInv, AloneInv, TransparentWithoutChannel
<1> QED BY StreamInvariant, <1>1, PTL

\* A stage that is active runs, and runs once: an order that names every stage
\* names none of them twice.
THEOREM AlwaysOnce == Spec => []EachOnce
<1>1. StreamInv => EachOnce
  <2> SUFFICES ASSUME StreamInv, locked, held, NEW s \in ActiveMask(chain, armed)
               PROVE  Cardinality({i \in Positions : chain.order[i] = s}) = 1
    BY DEF EachOnce
  <2>1. /\ TypeOK /\ chain.order \in [Positions -> Stages]
        /\ \A t \in Stages : \E i \in Positions : chain.order[i] = t
    BY DEF StreamInv, HeldInv, OrderInv, TypeOK, ChainType, Orders
  <2>2. s \in Stages
    BY <2>1, StagesAssumption DEF ActiveMask, TypeOK, ChainType
  <2>3. IsFiniteSet(Positions) /\ Cardinality(Positions) = Cardinality(Stages)
    BY PositionsCounted
  <2>4. chain.order \in Surjection(Positions, Stages)
    BY <2>1 DEF Surjection
  <2>5. chain.order \in Injection(Positions, Stages)
    BY <2>3, <2>4, FS_SurjSameCardinalityImpliesInj
  <2>6. PICK i \in Positions : chain.order[i] = s
    BY <2>1, <2>2
  <2>7. {j \in Positions : chain.order[j] = s} = {i}
    BY <2>5, <2>6 DEF Injection, IsInjective
  <2> QED BY <2>7, FS_Singleton
<1> QED BY StreamInvariant, <1>1, PTL

\* The reported latency covers every stage that is as it was when it was reported.
THEOREM LatencyIsCovered == Spec => []NeverUnderReported
<1>1. StreamInv => NeverUnderReported
  <2> SUFFICES ASSUME StreamInv, locked,
                      NEW s \in Runs(chain, armed) \intersect DOMAIN promised
               PROVE  Latency(chain, armed)[s] <= promised[s]
    BY DEF NeverUnderReported
  <2>1. PromiseInv /\ TypeOK
    BY DEF StreamInv
  <2>2. s \in Stages
    BY <2>1 DEF TypeOK
  <2>3. promised[s] = Latency(chain, armed)[s]
    <3>1. CASE s = Conv
      BY <2>1, <2>2, <3>1 DEF PromiseInv, Latency
    <3>2. CASE s # Conv
      BY <2>1, <3>2 DEF PromiseInv, Runs, ActiveMask
    <3> QED BY <3>1, <3>2
  <2>4. promised[s] \in Nat
    BY <2>1 DEF TypeOK
  <2> QED BY <2>3, <2>4
<1> QED BY StreamInvariant, <1>1, PTL

\* All of these at once, which is what the run checks.
THEOREM StreamSafety == Spec => []Safety
<1>1. TypeOK /\ NoOldTail /\ EachOnce /\ TransparentWithoutChannel /\ NeverUnderReported
        => Safety
  BY DEF Safety
<1> QED
  BY StreamType, NeverOldTail, AlwaysOnce, AloneIsTransparent, LatencyIsCovered, <1>1, PTL

\* A callback that brings no new block redesigns and resets nothing.
THEOREM AlwaysQuiet == Spec => QuietWhenUnchanged
<1> DEFINE Quiet == /\ Redesigned(chain, Wanted) = {}
                    /\ TurnedOn(chain, Wanted) = {}
                    /\ chain'.running = chain.running
<1>1. ASSUME StreamInv, [Next]_vars, locked, locked', pending' = pending
      PROVE  Quiet
  <2>1. TypeOK /\ AppliedInv
    BY <1>1 DEF StreamInv
  <2>2. Wanted.mask = chain.mask
    BY <2>1, ClampType DEF TypeOK, AppliedInv, Wanted
  <2>3. Redesigned(chain, Wanted) = {} /\ TurnedOn(chain, Wanted) = {}
    BY <2>1, <2>2 DEF Redesigned, TurnedOn, AppliedInv
  <2>4. CASE APOProcess
    <3> DEFINE d == Apply(chain, pending, rate)
    <3>1. chain' = Process(d, armed)
      BY <1>1, <2>4 DEF APOProcess
    <3>2. d \in ChainType /\ armed \in BOOLEAN /\ chain \in ChainType
      BY <2>1, ApplyType DEF TypeOK
    <3>3. chain'.running = d.running
      BY <3>1, <3>2, ProcessType
    <3>4. d.running = Installed(chain.running, Wanted, {})
      BY <2>3 DEF Apply, Wanted
    <3>5. d.running = chain.running
      BY <3>2, <3>4 DEF Installed, ChainType
    <3> QED BY <2>3, <3>3, <3>5
  <2>5. CASE Reset
    BY <2>1, <2>3, <2>5 DEF Reset, TypeOK, ChainType
  <2>6. CASE UNCHANGED vars
    BY <2>3, <2>6 DEF vars
  <2> QED BY <1>1, <2>4, <2>5, <2>6 DEF Next, Lock, LockAlone, UnlockForProcess
<1>2. StreamInv /\ [Next]_vars
        => [locked /\ locked' /\ pending' = pending => Quiet]_vars
  BY <1>1
<1> QED BY StreamInvariant, <1>2, PTL DEF Spec, QuietWhenUnchanged
=============================================================================
