--------------------------- MODULE KernelCustody ---------------------------
(***************************************************************************)
(* What ConvolutionStage and the builder of its kernels promise together,  *)
(* with the pointers, the exchanges, the geometries and the places where   *)
(* tick() and the builder can be taken away.  A kernel that is not in use  *)
(* is in transit: on its way in or on its way out, with one owner who may  *)
(* free it.  While a stream runs the kernel in use changes in silence      *)
(* only, and the share of the wet signal never jumps.                      *)
(***************************************************************************)
EXTENDS Integers

CONSTANTS
  Kernels,
  NoKernel,
  WetSteps     \* steps from dry to wet

VARIABLES
  alive,      \* kernels allocated and not freed
  transit,    \* those somebody has, but for the one in use
  inUse,      \* the one the stage convolves with, or NoKernel
  streaming,
  wet         \* the share of the wet signal

custodyVars == <<alive, transit, inUse, streaming, wet>>

CustodyInit ==
  /\ alive = {} /\ transit = {} /\ inUse = NoKernel
  /\ streaming = FALSE /\ wet = 0

Allocate(k) ==
  /\ k \notin alive
  /\ alive' = alive \cup {k} /\ transit' = transit \cup {k}
  /\ UNCHANGED <<inUse, streaming, wet>>

\* What is freed is in transit, and is in transit no more.
Free(k) ==
  /\ k \in transit
  /\ alive' = alive \ {k} /\ transit' = transit \ {k}
  /\ UNCHANGED <<inUse, streaming, wet>>

\* An offer is overwritten in a stream, while an older kernel goes back to where it was
\* offered and a third one is in the way: nobody has it, and it is never freed.
Lose(k) ==
  /\ streaming
  /\ k \in transit /\ \E i, j \in transit \ {k} : i # j
  /\ transit' = transit \ {k}
  /\ UNCHANGED <<alive, inUse, streaming, wet>>

\* In a stream, in silence.
Install(k) ==
  /\ streaming /\ wet = 0
  /\ k \in transit
  /\ inUse' = k
  /\ transit' = (transit \ {k}) \cup ({inUse} \ {NoKernel})
  /\ UNCHANGED <<alive, streaming, wet>>

Glide ==
  /\ streaming
  /\ wet' \in {wet - 1, wet + 1} /\ wet' \in 0..WetSteps
  /\ UNCHANGED <<alive, transit, inUse, streaming>>

\* A stream starts all dry or all wet, and wet only with something to be heard.
Start ==
  /\ ~streaming /\ streaming' = TRUE
  /\ wet' \in {0, WetSteps} /\ (inUse = NoKernel => wet' = 0)
  /\ UNCHANGED <<alive, transit, inUse>>

Stop ==
  /\ streaming /\ streaming' = FALSE
  /\ UNCHANGED <<alive, transit, inUse, wet>>

\* Everything that somebody has is freed.
Dismantle ==
  /\ ~streaming
  /\ alive' = alive \ (transit \cup {inUse})
  /\ transit' = {} /\ inUse' = NoKernel /\ wet' = 0
  /\ UNCHANGED streaming

CustodyNext ==
  \/ \E k \in Kernels : Allocate(k) \/ Free(k) \/ Lose(k) \/ Install(k)
  \/ Glide \/ Start \/ Stop \/ Dismantle

CustodySpec == CustodyInit /\ [][CustodyNext]_custodyVars
=============================================================================
