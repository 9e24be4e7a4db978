------------------------------ MODULE Limiter ------------------------------
(***************************************************************************)
(* dsp/Limiter: the look-ahead peak limiter.  One frame at a time goes     *)
(* into the delay line and the frame fed `look` frames earlier comes out,  *)
(* multiplied by a gain that has had that long to come down.               *)
(*                                                                         *)
(* Levels are magnitudes in a small scale and a gain is a number of        *)
(* Unity-ths; every level is Unity times a power of two of a threshold, so *)
(* that a quotient is exact.  The interpolation filter that measures true  *)
(* peak is a number that comes with the frame.                             *)
(***************************************************************************)
EXTENDS Samples, Integers, Sequences, FiniteSetsExt, SequencesExt

CONSTANTS
  Lanes,          \* the stream's channels, 1..n
  Frames,         \* what may come in: [level, peak], peak the interpolated waveform's
  LimiterParams,  \* [gain, threshold, look, truePeak]
  kMaxLookahead,  \* the longest look-ahead, in frames
  IntMax,         \* the greatest int
  Unity,
  MaxFrames, MaxTurns  \* bounds: frames fed, settings changed

ASSUME LimiterAssumption ==
  /\ Cardinality(Lanes) \in Nat /\ Lanes = 1..Cardinality(Lanes)
  /\ kMaxLookahead \in Nat /\ IntMax \in Nat /\ Unity \in Nat
  /\ NaN \notin Nat
  /\ Frames \subseteq [level : [Lanes -> Nat \cup {NaN}], peak : Nat]
  /\ LimiterParams \subseteq
       [gain : Nat, threshold : Nat, look : 0..kMaxLookahead, truePeak : BOOLEAN]

VARIABLES
  limiter,    \* m_p
  line,       \* m_line, a ring for each channel
  peakLine,   \* m_peakLine
  write,      \* m_write
  gain,       \* m_gain
  deque,      \* m_min
  deaf,       \* channels whose interpolation filter holds a NaN
  out,        \* the frame that came out last, times Unity
  applied,    \* its linked peak times the gain the envelope had for it
  fed,        \* the frames that have come in, after the gain, the youngest last
  settled,    \* frames since the settings changed, the line was cleared or the count wrapped
  turns

limiterVars == <<limiter, line, peakLine, write, gain, deque, deaf, out, applied, fed, settled,
                 turns>>

lineLength == kMaxLookahead + 2
capacity == lineLength + 2

\* Two's complement, as the compilers this is built with do it.
Wrapped(i) == ((i + IntMax + 1) % (2 * IntMax + 2)) - IntMax - 1

Ring(size, x) == [i \in 0..size - 1 |-> x]
Silence == [c \in Lanes |-> Ring(lineLength, 0)]

LimiterInit ==
  /\ limiter \in LimiterParams
  /\ line = Silence /\ peakLine = Ring(lineLength, 0) /\ write = 0
  /\ gain = Unity /\ deaf = {}
  /\ deque = [value |-> Ring(capacity, 0), index |-> Ring(capacity, 0),
              head |-> 0, tail |-> 0, n |-> 0]
  /\ out = [c \in Lanes |-> 0] /\ applied = 0
  /\ fed = <<>> /\ settled = 0 /\ turns = 0

----------------------------------------------------------------------------
(* SlidingMin: the targets in the window, increasing from head to tail.     *)

Held(d) == (d.tail - d.head + capacity) % capacity
At(d, k) == (d.head + k) % capacity

\* The entries the new target makes superfluous: those at the tail that are not
\* smaller than it.
Kept(d, v) ==
  LET below == {k \in 0..Held(d) - 1 : d.value[At(d, k)] < v} IN
  IF below = {} THEN 0 ELSE Max(below) + 1

Appended(d, v) ==
  LET t == At(d, Kept(d, v))
      next == (t + 1) % capacity IN
  [d EXCEPT !.value[t] = v, !.index[t] = d.n, !.tail = next,
            !.head = IF next = @ THEN (@ + 1) % capacity ELSE @]

\* The entries at the head that have left the window.
Expired(d, window) ==
  LET due == {k \in 0..Held(d) : \A j \in 0..k - 1 : d.index[At(d, j)] <= Wrapped(d.n - window)} IN
  [d EXCEPT !.head = At(d, Max(due)), !.n = Wrapped(@ + 1)]

\* Mutant of Pushed: the window is one frame short.
PushedShort(d, v, window) == Expired(Appended(d, v), window - 1)

Pushed(d, v, window) == Expired(Appended(d, v), window)

Minimum(d, v) == IF Held(d) = 0 THEN v ELSE d.value[d.head]

----------------------------------------------------------------------------

LoudestOf(levels) == Max({levels[c] : c \in {x \in Lanes : IsNumber(levels[x])}} \cup {0})

\* A channel whose filter has met a NaN measures nothing more: no comparison
\* with one is true.
LinkedPeak(levels, frame, listening) ==
  Max({LoudestOf(levels)} \cup
      (IF limiter.truePeak /\ listening # {} THEN {frame.peak * limiter.gain} ELSE {}))

Target(peak) == IF peak > limiter.threshold THEN (limiter.threshold * Unity) \div peak ELSE Unity

\* Attack at once; release halfway, the way a one-pole filter does.
Enveloped(want) == IF want < gain THEN want ELSE want - (want - gain) \div 2

\* The final clamp, one for every channel.
Clamped(ap, g) ==
  IF ap * g > limiter.threshold * Unity THEN (limiter.threshold * Unity) \div ap ELSE g

\* railed(): what is not a number becomes silence, and the line with it.  The
\* channels are in order, so those after it read the line that was cleared.
FirstBad(levels) == {c \in Lanes : \E b \in 1..c : b \in Lanes /\ ~IsNumber(levels[b])}
Railed(levels, g) == [c \in Lanes |-> IF c \in FirstBad(levels) THEN 0 ELSE levels[c] * g]

LimiterFrame(frame) ==
  /\ Len(fed) < MaxFrames
  /\ LET levels == [c \in Lanes |-> IF IsNumber(frame.level[c]) THEN frame.level[c] * limiter.gain ELSE NaN]
         deaf2 == IF limiter.truePeak THEN deaf \cup {c \in Lanes : ~IsNumber(levels[c])} ELSE deaf
         peak == LinkedPeak(levels, frame, Lanes \ deaf2)
         pushed == Pushed(deque, Target(peak), limiter.look + 1)
         envelope == Enveloped(Minimum(pushed, Target(peak)))
         written == [c \in Lanes |-> [line[c] EXCEPT ![write] = levels[c]]]
         peaks == [peakLine EXCEPT ![write] = peak]
         r == (write - limiter.look + lineLength) % lineLength
         late == [c \in Lanes |-> written[c][r]]
         bad == FirstBad(late) # {} IN
     /\ deaf' = deaf2 /\ deque' = pushed /\ peakLine' = peaks
     /\ gain' = IF bad THEN Unity ELSE envelope
     /\ line' = IF bad THEN Silence ELSE written
     /\ out' = Railed(late, Clamped(peaks[r], envelope))
     /\ applied' = peaks[r] * envelope
     /\ write' = (write + 1) % lineLength
     /\ fed' = IF bad THEN [i \in 1..Len(fed) + 1 |-> [c \in Lanes |-> 0]] ELSE Append(fed, levels)
     /\ settled' = IF bad \/ deque.n - limiter.look - 1 < -IntMax - 1 THEN 0 ELSE settled + 1
  /\ UNCHANGED <<limiter, turns>>

\* setParams, with the stream running.
SetLimiter(p) ==
  /\ turns < MaxTurns /\ turns' = turns + 1
  /\ limiter' = p /\ settled' = 0
  /\ UNCHANGED <<line, peakLine, write, gain, deque, deaf, out, applied, fed>>

LimiterNext ==
  \/ \E f \in Frames : LimiterFrame(f)
  \/ \E p \in LimiterParams : p # limiter /\ SetLimiter(p)

----------------------------------------------------------------------------

Came == Len(fed) - limiter.look

\* The frame that comes out is the one fed look-ahead frames before, every channel
\* of it by the same gain (dsp/Limiter.cpp:126-128), and no sample of it is above
\* the threshold, whatever the settings were a moment ago ("The threshold is a
\* guarantee, not a target").
CeilingHolds ==
  settled > 0 =>
    /\ \A c \in Lanes : out[c] <= limiter.threshold * Unity
    /\ Came \in DOMAIN fed =>
         \E g \in 0..Unity : \A c \in Lanes : out[c] = fed[Came][c] * g

\* And it is the envelope that brings it there, not the clamp: once the settings
\* have been the same for a look-ahead, the gain is down before the peak comes out,
\* so nothing is clipped ("it brings the level down before the peak arrives").
DownBeforeThePeak == settled > limiter.look => applied <= limiter.threshold * Unity

\* What the limiter promises.
LimiterKeepsItsWord == CeilingHolds /\ DownBeforeThePeak
=============================================================================
