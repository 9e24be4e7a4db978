---------------------------- MODULE Convolution ----------------------------
(***************************************************************************)
(* dsp/Convolver: what a kernel is built from and what the stage makes of  *)
(* it.  An impulse response is cut into partitions of a block each; the    *)
(* stage keeps the windows of the last blocks in a ring, multiplies the    *)
(* p-th youngest with the p-th partition and adds the products up.         *)
(*                                                                         *)
(* A spectrum is the window or the partition it is the transform of, and a *)
(* product of two the circular convolution that the inverse transform of   *)
(* the product gives.  How a kernel reaches the stage, and the crossfade,  *)
(* are KernelHandoff's: the dry and the wet signal are apart here.         *)
(***************************************************************************)
EXTENDS Samples, Integers, Sequences, SequencesExt, FiniteSetsExt

CONSTANTS
  Requests,     \* [ir, mask, forceMono, convolveLfe]: the response's channels, the stream's speakers
  ConvSamples,  \* what may come in: [channels -> level]
  NoResponse,
  ConvBlock,    \* samples in a block
  Depth,        \* m_partitions
  MaxFed, MaxSwaps  \* bounds: samples fed, kernels installed

VARIABLES
  kernel,       \* m_current
  request,      \* what it was built from
  inAccum, dryDelay, outBuf, win,  \* for each channel
  fdl,          \* the windows of the last Depth blocks, by slot
  pos, slotIndex,
  dry, wet,     \* the last sample
  story,        \* all that came in
  swaps

convVars == <<kernel, request, inAccum, dryDelay, outBuf, win, fdl, pos, slotIndex,
              dry, wet, story, swaps>>

Channels == 1..Len((CHOOSE r \in Requests : TRUE).mask)

\* A speaker has one bit in a stream's mask, and a response's channels are of one length.
ASSUME ConvAssumption ==
  /\ ConvBlock \in Nat \ {0} /\ Depth \in Nat \ {0}
  /\ ConvSamples \subseteq [Channels -> Int \cup {NaN}]
  /\ \A r \in Requests :
       /\ r.mask \in Seq(STRING) /\ DOMAIN r.mask = Channels
       /\ \A c, d \in Channels : r.mask[c] = "LFE" /\ r.mask[d] = "LFE" => c = d
       /\ r.ir \in Seq(Seq(Int \cup {NaN})) /\ r.ir # <<>>
       /\ \A s \in DOMAIN r.ir : Len(r.ir[s]) = Len(r.ir[1])

Bypass == 0
Zeros(n) == [i \in 0..n - 1 |-> 0]

ConvInit ==
  /\ kernel = NoResponse /\ request \in Requests
  /\ inAccum = [c \in Channels |-> Zeros(ConvBlock)]
  /\ dryDelay = [c \in Channels |-> Zeros(ConvBlock)]
  /\ outBuf = [c \in Channels |-> Zeros(ConvBlock)]
  /\ win = [c \in Channels |-> Zeros(2 * ConvBlock)]
  /\ fdl = [c \in Channels |-> [s \in 0..Depth - 1 |-> Zeros(2 * ConvBlock)]]
  /\ pos = 0 /\ slotIndex = 0
  /\ dry = [c \in Channels |-> 0] /\ wet = [c \in Channels |-> 0]
  /\ story = <<>> /\ swaps = 0

----------------------------------------------------------------------------
(* buildConvKernel                                                          *)

\* lfeIndexFromMask: the channels are the mask's speakers in order.
Lfe(r) == SelectInSeq(r.mask, LAMBDA s : s = "LFE")

\* The spectrum of an output channel: none for the LFE unless it is asked for, never a
\* mixture, and left and right in turn when the response has too few.
RouteOf(r, c) ==
  IF c = Lfe(r) /\ ~r.convolveLfe THEN Bypass
  ELSE IF r.forceMono \/ Len(r.ir) = 1 THEN 1
  ELSE IF c <= Len(r.ir) THEN c
  ELSE IF c % 2 = 1 THEN 1 ELSE Min({2, Len(r.ir)})

TapCount(r) == Len(r.ir[1])
PartitionsOf(r) == (TapCount(r) + ConvBlock - 1) \div ConvBlock

\* A partition's taps, from 0; after the last there are zeros.
Partition(taps, p) ==
  [i \in 0..ConvBlock - 1 |->
     IF p * ConvBlock + i < Len(taps) THEN Sound(taps[p * ConvBlock + i + 1]) ELSE 0]

BuiltKernel(r) ==
  IF PartitionsOf(r) \notin 1..Depth THEN NoResponse
  ELSE [route |-> [c \in Channels |-> RouteOf(r, c)], partitions |-> PartitionsOf(r),
        spec |-> [s \in DOMAIN r.ir |-> [p \in 0..PartitionsOf(r) - 1 |-> Partition(r.ir[s], p)]]]

----------------------------------------------------------------------------
(* process and tick                                                         *)

\* The second half of the inverse transform of a product: the first is what wraps
\* around and is discarded.
Product(window, part) ==
  [i \in 0..ConvBlock - 1 |->
     MapThenSumSet(LAMBDA j : part[j] * window[(ConvBlock + i - j) % (2 * ConvBlock)],
                   0..ConvBlock - 1)]

\* Mutant of Slot: the slot indices run into the end of the ring.
SlotClamped(youngest, p) == IF youngest + p >= Depth THEN Depth - 1 ELSE youngest + p

Slot(youngest, p) == (youngest + p) % Depth

Accumulated(k, lines, youngest, c) ==
  [i \in 0..ConvBlock - 1 |->
     MapThenSumSet(LAMBDA p : Product(lines[c][Slot(youngest, p)], k.spec[k.route[c]][p])[i],
                   0..k.partitions - 1)]

\* tick(), with the kernel it has installed by then: slide the window, put it into the
\* ring, and convolve.
Ticked(k, accum) ==
  LET youngest == (slotIndex + Depth - 1) % Depth
      slid == [c \in Channels |-> [i \in 0..2 * ConvBlock - 1 |->
                 IF i < ConvBlock THEN win[c][i + ConvBlock] ELSE accum[c][i - ConvBlock]]]
      lines == [c \in Channels |-> [fdl[c] EXCEPT ![youngest] = slid[c]]] IN
  /\ slotIndex' = youngest /\ win' = slid /\ fdl' = lines
  /\ outBuf' = [c \in Channels |->
                  IF k = NoResponse THEN Zeros(ConvBlock)
                  ELSE IF k.route[c] = Bypass THEN Zeros(ConvBlock)
                  ELSE Accumulated(k, lines, youngest, c)]

\* One sample of every channel; the read comes before the write, so that the dry signal
\* is a block late as well.
ConvSample(x) ==
  LET clean == [c \in Channels |-> Sound(x[c])]
      accum == [c \in Channels |-> [inAccum[c] EXCEPT ![pos] = clean[c]]] IN
  /\ Len(story) < MaxFed
  /\ inAccum' = accum
  /\ dry' = [c \in Channels |-> dryDelay[c][pos]]
  /\ dryDelay' = [c \in Channels |-> [dryDelay[c] EXCEPT ![pos] = clean[c]]]
  /\ wet' = [c \in Channels |-> IF kernel = NoResponse THEN 0 ELSE outBuf[c][pos]]
  /\ story' = Append(story, clean)
  /\ pos' = (pos + 1) % ConvBlock
  /\ IF pos + 1 < ConvBlock
     THEN UNCHANGED <<kernel, request, win, fdl, slotIndex, outBuf, swaps>>
     ELSE \/ Ticked(kernel, accum) /\ UNCHANGED <<kernel, request, swaps>>
          \/ \E r \in Requests :
               /\ BuiltKernel(r) # NoResponse /\ swaps < MaxSwaps /\ swaps' = swaps + 1
               /\ kernel' = BuiltKernel(r) /\ request' = r
               /\ Ticked(BuiltKernel(r), accum)

ConvNext == \E x \in ConvSamples : ConvSample(x)

----------------------------------------------------------------------------

\* What came in on channel c at the n-th sample, silence before the first.
Played(c, n) == IF n \in DOMAIN story THEN story[n][c] ELSE 0

\* The response channel c is to be heard through: the LFE through none, unless that is
\* asked for.
HeardThrough(c) ==
  IF request.mask[c] = "LFE" /\ ~request.convolveLfe THEN 0
  ELSE IF request.forceMono THEN 1
  ELSE IF c <= Len(request.ir) THEN c ELSE IF c % 2 = 1 \/ Len(request.ir) = 1 THEN 1 ELSE 2

\* The wet signal is the convolution of all that has been played with the response the
\* kernel was built from, and the dry one is the input; both are a block late, whatever
\* was installed before and however the response falls into partitions: a new kernel
\* finds the whole past in the ring (dsp/Convolver.cpp:393-395).
ConvolvesExactly ==
  LET n == Len(story) - ConvBlock IN
  \A c \in Channels :
    /\ dry[c] = Played(c, n)
    \* The kernel installed by this sample's tick is heard from the next one on.
    /\ kernel # NoResponse /\ pos # 0 =>
         LET s == HeardThrough(c) IN
         wet[c] = IF s = 0 THEN 0
                  ELSE MapThenSumSet(LAMBDA k : Sound(request.ir[s][k + 1]) * Played(c, n - k),
                                     0..TapCount(request) - 1)
=============================================================================
