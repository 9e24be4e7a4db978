------------------------------ MODULE ApoStream ------------------------------
(***************************************************************************)
(* apo/DreamApo.cpp: one processing object, locked and unlocked again and  *)
(* again by the audio engine, driving its EffectChain.  What the channel   *)
(* gives is any sanitised block: whoever publishes may change everything   *)
(* between two callbacks, and an accepted read is never torn (ParamSlots). *)
(***************************************************************************)
EXTENDS EffectChain

VARIABLES
  locked,    \* m_locked
  rate,      \* m_sampleRate
  held,      \* m_channelHeld
  armed,     \* ConvolutionStage::m_armed
  pending,   \* m_pending
  chain,     \* m_chain
  promised   \* the delay GetLatency counted for each stage when the stream was
             \* built, as long as the stage's settings are those of that time

vars == <<locked, rate, held, armed, pending, chain, promised>>

Init ==
  /\ locked = FALSE
  /\ rate \in Rates
  /\ held = FALSE
  /\ armed = FALSE
  /\ pending = ZeroBlock
  /\ chain = [mask |-> {}, flags |-> {}, value |-> [s \in Stages |-> 0],
              order |-> DefaultOrder, running |-> Initial, memory |-> Silent]
  /\ promised = [s \in {} |-> 0]

\* Mutant of Lock: the first block is left to the first callback.
LockUnapplied(r) ==
  /\ ~locked
  /\ locked' = TRUE /\ rate' = r /\ held' = TRUE
  /\ pending' \in Blocks
  /\ armed' = (pending'.value[Conv] # 0)
  /\ chain' = Prepare(chain)
  /\ promised' = Latency(chain', armed')

\* LockForProcess with the channel, and the GetLatency that follows: the
\* convolution is armed if the block names an impulse response, and the block
\* is applied at once.
Lock(r) ==
  /\ ~locked
  /\ locked' = TRUE /\ rate' = r /\ held' = TRUE
  /\ pending' \in Blocks
  /\ armed' = (pending'.value[Conv] # 0)
  /\ chain' = Apply(Prepare(chain), pending', r)
  /\ promised' = Latency(chain', armed')

\* Mutant of LockAlone: m_pending keeps the block of the stream before.
LockAloneKeeping(r) ==
  /\ ~locked
  /\ locked' = TRUE /\ rate' = r
  /\ chain' = Prepare(chain)
  /\ promised' = Latency(chain', armed)
  /\ UNCHANGED <<held, armed, pending>>

\* The same when acquire() refuses: m_pending stays zero, the arming as it was.
LockAlone(r) ==
  /\ ~locked
  /\ locked' = TRUE /\ rate' = r
  /\ pending' = ZeroBlock
  /\ chain' = Prepare(chain)
  /\ promised' = Latency(chain', armed)
  /\ UNCHANGED <<held, armed>>

\* The stages whose switch or parameters this step changes.  The convolution's
\* delay does not depend on them.
Changed ==
  {s \in Stages \ {Conv} : \/ (s \in pending'.mask) # (s \in pending.mask)
                           \/ pending'.value[s] # pending.value[s]}

\* APOProcess on a valid buffer: ingest, install, and run what is active.
APOProcess ==
  /\ locked
  /\ pending' \in IF held THEN Blocks ELSE {pending}
  /\ chain' = Process(Apply(chain, pending', rate), armed)
  /\ promised' = [s \in DOMAIN promised \ Changed |-> promised[s]]
  /\ UNCHANGED <<locked, rate, held, armed>>

\* IAudioProcessingObject::Reset
Reset ==
  /\ chain' = [chain EXCEPT !.memory = Silent]
  /\ UNCHANGED <<locked, rate, held, armed, pending, promised>>

UnlockForProcess ==
  /\ locked
  /\ locked' = FALSE /\ held' = FALSE
  /\ promised' = [s \in {} |-> 0]
  /\ UNCHANGED <<rate, armed, pending, chain>>

Next ==
  \/ \E r \in Rates : Lock(r) \/ LockAlone(r)
  \/ APOProcess \/ Reset \/ UnlockForProcess

Spec == Init /\ [][Next]_vars

-----------------------------------------------------------------------------
(* Properties                                                              *)

BlockType ==
  [mask : SUBSET Stages, flags : SUBSET {Bypass}, order : Orders,
   value : [Stages -> Nat]]

ChainType ==
  [mask : SUBSET Stages, flags : SUBSET {Bypass}, order : Orders,
   value : [Stages -> Nat], running : [Stages -> Nat],
   memory : [Stages -> Memories]]

\* Types of all variables.
TypeOK ==
  /\ locked \in BOOLEAN /\ held \in BOOLEAN /\ armed \in BOOLEAN
  /\ rate \in Rates
  /\ pending \in BlockType
  /\ chain \in ChainType
  /\ DOMAIN promised \in SUBSET Stages
  /\ promised \in [DOMAIN promised -> Nat]

Wanted == ClampForRate(pending, rate)

\* "An effect enabled later still sees a memcmp difference and gets its
\* parameters installed rather than silently running stale ones": an enabled
\* stage runs what the last block asked for, on any path of edits made while
\* it was off, bypassed, or between two streams.  Left out are parameters that
\* are all zero, in stages whose prepare() does not make them what zero means:
\* see InstallsWhatItIsGiven.
EnabledRunsLatest ==
  locked =>
    \A s \in chain.mask :
      Wanted.value[s] # 0 \/ s \in Zeroes => chain.running[s] = Wanted.value[s]

\* The same without the exception, as the comment has it.
InstallsWhatItIsGiven ==
  locked => \A s \in chain.mask \ {Conv} : chain.running[s] = Wanted.value[s]

\* "Stops a ten-minute-old reverb tail from bursting into the output": no
\* enabled stage still holds the sound of before it was last switched off, and
\* the convolution, which is not reset, has not missed a buffer.
NoOldTail == locked => \A s \in chain.mask : chain.memory[s] # "old"

\* "A duplicate would run a stage twice and an omission would silently drop an
\* effect whose switch says it is on": what is active runs exactly once.
EachOnce ==
  locked /\ held =>
    \A s \in ActiveMask(chain, armed) :
      Cardinality({i \in Positions : chain.order[i] = s}) = 1

\* "A stream that never receives parameters is bit-transparent", even on an
\* object still armed, or full of parameters, from the stream before: no stage
\* ever takes in a buffer.
TransparentWithoutChannel ==
  locked /\ ~held => chain.memory = Silent

\* "What GetLatency reports is what the chain is actually about to do", as far
\* as it goes: a stage whose settings are those the stream was built with holds
\* the stream back by no more than was reported, and the convolution never.
NeverUnderReported ==
  locked =>
    \A s \in Runs(chain, armed) \intersect DOMAIN promised :
      Latency(chain, armed)[s] <= promised[s]

\* What holds in every state of the object: no tail, no stage twice, silence
\* kept without the channel, and no more latency than was reported.
Safety ==
  /\ TypeOK
  /\ NoOldTail
  /\ EachOnce
  /\ TransparentWithoutChannel
  /\ NeverUnderReported

\* "Applied again, the same block finds nothing to change": no stage is
\* redesigned or reset by a callback that brings no new block.
QuietWhenUnchanged ==
  [][ locked /\ locked' /\ pending' = pending =>
        /\ Redesigned(chain, Wanted) = {}
        /\ TurnedOn(chain, Wanted) = {}
        /\ chain'.running = chain.running ]_vars
=============================================================================
