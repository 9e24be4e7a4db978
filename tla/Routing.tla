------------------------------ MODULE Routing ------------------------------
(***************************************************************************)
(* dsp/Routing: the channel matrix and the delay lines, in the order the   *)
(* chain runs them.                                                        *)
(*                                                                         *)
(* Samples are small integers, the matrix's weights too, and a delay is a  *)
(* number of half samples: a whole one is exact, and a half one is the     *)
(* interpolator's four taps with weights in sixteenths.                    *)
(***************************************************************************)
EXTENDS Samples, Integers, Sequences, SequencesExt, FiniteSetsExt

CONSTANTS
  Wires,          \* the stream's channels, 1..n
  Inputs,         \* what may come in: a sample for each channel
  Matrices,       \* the weights: [Wires -> [Wires -> Int]], row by output
  Delays,         \* what ms may be: [Wires -> half samples]
  kMaxDelay,      \* kMaxMs, in samples
  BlockSizes,     \* frames in a buffer
  MaxSamples, MaxSwitches  \* bounds: frames fed, settings changed

ASSUME RoutingAssumption ==
  /\ Wires # {} /\ BlockSizes \subseteq Nat
  /\ kMaxDelay \in Nat \ {0}
  /\ Delays \subseteq [Wires -> Nat]

VARIABLES
  weights,    \* ChannelMatrix::m_p
  ms,         \* ChannelDelay::m_p
  delayLine,  \* m_line, a ring for each channel
  cursor,     \* m_write
  heard,      \* the buffer as the two stages left it
  asked,      \* the buffer the stages were given, mixed by the definition of the matrix
  past,       \* everything mixed so far, silence where a line was cleared
  switches

routingVars == <<weights, ms, delayLine, cursor, heard, asked, past, switches>>

\* The interpolator reads one ahead of the tap and two behind it.
delayLength == kMaxDelay + 4

Quiet == [c \in Wires |-> [i \in 0..delayLength - 1 |-> 0]]

RoutingInit ==
  /\ weights \in Matrices /\ ms \in Delays
  /\ delayLine = Quiet /\ cursor = 0
  /\ heard = <<>> /\ asked = <<>> /\ past = [c \in Wires |-> <<>>]
  /\ switches = 0

----------------------------------------------------------------------------
(* The matrix: out = M * in, from a copy of what came in.                   *)

Row(m, o, frame) ==
  IF \E i \in Wires : frame[i] = NaN THEN NaN
  ELSE MapThenSumSet(LAMBDA i : m[o][i] * frame[i], Wires)

\* Mutant of Mixed: without the copy, an output is written over the input that the
\* outputs after it still need.
MixedInPlace(m, frame) ==
  LET done[n \in 0..Cardinality(Wires)] ==
        IF n = 0 THEN frame ELSE [done[n - 1] EXCEPT ![n] = Sound(Row(m, n, done[n - 1]))] IN
  done[Cardinality(Wires)]

Identity(m) == \A o, i \in Wires : m[o][i] = IF o = i THEN 1 ELSE 0

\* The identity is skipped, and lets through what is not a number.
Mixed(m, frame) ==
  IF Identity(m) THEN frame ELSE [o \in Wires |-> Sound(Row(m, o, frame))]

----------------------------------------------------------------------------
(* The delay: setParams, and process over one buffer.                       *)

\* Half samples that a delay comes to: at least one sample, at most kMaxMs, for which
\* the line is long enough.
Snapped(h) == IF h < 2 THEN 2 ELSE IF h > 2 * kMaxDelay THEN 2 * kMaxDelay ELSE h
Delayed(c) == ms[c] > 0
Whole(c) == Snapped(ms[c]) \div 2

\* Third-order Lagrange in sixteenths: at a whole sample the other taps vanish.
Taps(c) == IF Snapped(ms[c]) % 2 = 0 THEN <<0, 16, 0, 0>> ELSE <<-1, 9, 9, -1>>

\* A read position, brought back into the ring.
Around(r) == IF r < 0 THEN r + delayLength ELSE r

\* Channel c's line after a frame, and what the frame becomes: a channel with no
\* delay is written into the line too.
Read(c, l, w) ==
  LET tap == [j \in 1..4 |-> l[Around(w - Whole(c) + 2 - j)]] IN
  IF \E j \in 1..4 : tap[j] = NaN THEN NaN
  ELSE MapThenSumSet(LAMBDA j : Taps(c)[j] * tap[j], 1..4)

\* One channel over one buffer: the line, the sounds in sixteenths, and whether one
\* of them was not a number.
Channel(c, block) ==
  LET at(f) == (cursor + f - 1) % delayLength
      lines[f \in 0..Len(block)] ==
        IF f = 0 THEN delayLine[c] ELSE [lines[f - 1] EXCEPT ![at(f)] = block[f][c]]
      read == [f \in 1..Len(block) |->
                 IF Delayed(c) THEN Read(c, lines[f], at(f))
                 ELSE IF block[f][c] = NaN THEN NaN ELSE 16 * block[f][c]]
      bad == Delayed(c) /\ \E f \in 1..Len(block) : read[f] = NaN IN
  [line |-> IF bad THEN Quiet[c] ELSE lines[Len(block)],
   sound |-> [f \in 1..Len(block) |-> IF Delayed(c) THEN Sound(read[f]) ELSE read[f]],
   bad |-> bad]

Total == Len(past[CHOOSE c \in Wires : TRUE])

RoutingBlock(input) ==
  /\ Total + Len(input) <= MaxSamples
  /\ LET mixed == [f \in 1..Len(input) |-> Mixed(weights, input[f])]
         exact == [f \in 1..Len(input) |->
                     [o \in Wires |-> IF Identity(weights) THEN input[f][o]
                                      ELSE Sound(Row(weights, o, input[f]))]]
         done == [c \in Wires |-> Channel(c, mixed)] IN
     /\ delayLine' = [c \in Wires |-> done[c].line]
     /\ heard' = [f \in 1..Len(input) |-> [c \in Wires |-> done[c].sound[f]]]
     /\ asked' = exact
     /\ past' = [c \in Wires |->
                   IF done[c].bad THEN [i \in 1..Total + Len(input) |-> 0]
                   ELSE past[c] \o [f \in 1..Len(input) |-> exact[f][c]]]
  \* Every channel started from the same cursor; it is stepped once.
  /\ cursor' = (cursor + Len(input)) % delayLength
  /\ UNCHANGED <<weights, ms, switches>>

SetRouting(m, d) ==
  /\ switches < MaxSwitches /\ switches' = switches + 1
  /\ weights' = m /\ ms' = d /\ heard' = <<>> /\ asked' = <<>>
  /\ UNCHANGED <<delayLine, cursor, past>>

RoutingNext ==
  \/ \E n \in BlockSizes : \E input \in [1..n -> Inputs] : RoutingBlock(input)
  \/ \E m \in Matrices, d \in Delays : <<m, d>> # <<weights, ms>> /\ SetRouting(m, d)

----------------------------------------------------------------------------

\* Everything channel c was to play, and the part of it that is i samples old.
Story(c) == past[c]
Ago(c, i) == IF i \in DOMAIN Story(c) THEN Story(c)[i] ELSE 0

\* Frame f of the buffer, as long ago as channel c's delay says.
Due(f, c) ==
  MapThenSumSet(LAMBDA j : Taps(c)[j] * Ago(c, Total - Len(heard) + f - Whole(c) + 2 - j), 1..4)

\* What is heard of a frame is what the matrix makes of the frame that came in, as
\* long ago as the channel's delay says: over the edges of buffers and of the ring,
\* on the channels that have only now been given a delay and with the longest delay
\* there is (dsp/Routing.cpp:170-172 and 95-97), and a sample that is not a number is
\* forgotten with its buffer (208-210).
WiredAsAsked ==
  \A f \in DOMAIN heard, c \in Wires :
    (\A g \in DOMAIN heard : asked[g][c] # NaN) /\ (\A i \in DOMAIN past[c] : past[c][i] # NaN) =>
      \/ Story(c) = [i \in DOMAIN Story(c) |-> 0]
      \/ heard[f][c] = IF ms[c] = 0 THEN 16 * asked[f][c] ELSE Due(f, c)
=============================================================================
