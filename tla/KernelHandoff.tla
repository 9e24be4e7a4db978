---------------------------- MODULE KernelHandoff ----------------------------
(***************************************************************************)
(* dsp/Convolver.{h,cpp}: how a convolution kernel gets into a running     *)
(* ConvolutionStage and how the one it displaces gets out again.  Three    *)
(* parties touch a stage:                                                  *)
(*                                                                         *)
(*   the builder, the watcher thread inside rebuildImpulseResponses of     *)
(*   apo/ParamChannel.cpp: reclaim, build, offer, destroy what was refused *)
(*   the audio thread, inside process(), tick() and setEnabled()           *)
(*   the engine's control thread: prepare() from LockForProcess, and the   *)
(*   destructor.                                                           *)
(*                                                                         *)
(* A kernel is an identity and the geometry (block, padBins, partitions)   *)
(* it was built for.  Which pass of the watcher has a reason to build is   *)
(* ParamChannel's business: here any pass may build or not.  The sound is  *)
(* abstracted to the crossfade, which moves by one of FadeSteps steps      *)
(* between dry and wet in each block.                                      *)
(***************************************************************************)
EXTENDS Naturals, Integers

CONSTANTS
  Kernels,     \* the heap blocks buildConvKernel can return
  NoKernel,    \* nullptr
  Geometries,  \* what convBlockForRate and padBinsFor make of the rates
  FadeSteps    \* steps of m_fadeInc from dry to wet

ASSUME NoKernelAssumption == NoKernel \notin Kernels
ASSUME GeometryAssumption == Geometries # {}
ASSUME FadeAssumption == FadeSteps \in Nat \ {0}

VARIABLES
  held,        \* what each pointer that can own a kernel holds
  live,        \* kernels allocated and not destroyed
  builtFor,    \* the geometry of each kernel
  geometry,    \* of the stage: set by prepare()
  locked,      \* between LockForProcess and UnlockForProcess
  armed,       \* m_armed, latched by LockForProcess
  enabled,     \* m_enabled
  bypass,      \* kPfBypass of the block the chain was last given
  fade,        \* m_fade, 0 dry .. FadeSteps wet
  fadeTarget,  \* m_fadeTarget
  fadeStep,    \* sign of m_fadeStep
  tpc,         \* where tick() is
  bpc,         \* where the builder is
  seenRate     \* the geometry of the rate the builder has read

vars == <<held, live, builtFor, geometry, locked, armed, enabled, bypass, fade,
          fadeTarget, fadeStep, tpc, bpc, seenRate>>
fadeVars == <<fade, fadeTarget, fadeStep>>
lockVars == <<geometry, locked, armed>>
appliedVars == <<enabled, bypass>>

\* The pointers: the locals of the builder and of tick(), and the members
\* m_incoming, m_pending, m_current and m_retired.
Places == {"building", "hand", "incoming", "pending", "current", "retired"}
Members == {"incoming", "pending", "current", "retired"}

\* Mutant of Move: a load where the code exchanges.
MoveByLoad(from, to) ==
  held' = [held EXCEPT ![to] = held[from]]

\* Hand the kernel of one pointer over to another, clearing the first.
Move(from, to) ==
  held' = [held EXCEPT ![to] = held[from], ![from] = NoKernel]

\* (m_enabled && m_current) ? 1 : 0, for the values they are about to have.
WetTarget(on, kernel) == IF on /\ kernel # NoKernel THEN FadeSteps ELSE 0

Init ==
  /\ held = [p \in Places |-> NoKernel]
  /\ live = {}
  /\ \E g \in Geometries :
       /\ builtFor = [k \in Kernels |-> g]
       /\ geometry = g
       /\ seenRate = g
  /\ locked = FALSE /\ armed = FALSE /\ enabled = FALSE /\ bypass = FALSE
  /\ fade = 0 /\ fadeTarget = 0 /\ fadeStep = 0
  /\ tpc = "idle"
  /\ bpc = "idle"

-----------------------------------------------------------------------------
(* The builder.                                                            *)

\* Mutant of Reclaim: m_retired is loaded, not exchanged.
ReclaimByLoad ==
  /\ bpc = "idle"
  /\ live' = live \ {held["retired"]}
  /\ bpc' = "decide"
  /\ UNCHANGED <<held, builtFor, appliedVars, tpc, seenRate>>
  /\ UNCHANGED <<lockVars, fadeVars>>

\* Mutant of Reclaim: the early continues of the loop come before it.
ReclaimSkipped ==
  /\ bpc = "idle"
  /\ bpc' = "decide"
  /\ UNCHANGED <<held, live, builtFor, appliedVars, tpc, seenRate>>
  /\ UNCHANGED <<lockVars, fadeVars>>

\* destroyConvKernel(owner->chain().convolution().reclaimKernel())
Reclaim ==
  /\ bpc = "idle"
  /\ live' = live \ {held["retired"]}
  /\ held' = [held EXCEPT !["retired"] = NoKernel]
  /\ bpc' = "decide"
  /\ UNCHANGED <<builtFor, appliedVars, tpc, seenRate>>
  /\ UNCHANGED <<lockVars, fadeVars>>

\* No impulse response, already running exactly this one, or no usable blob.
SkipBuild ==
  /\ bpc = "decide"
  /\ bpc' = "idle"
  /\ UNCHANGED <<held, live, builtFor, appliedVars, tpc, seenRate>>
  /\ UNCHANGED <<lockVars, fadeVars>>

\* owner->streamRate(): the build that follows takes hundreds of milliseconds.
ReadRate ==
  /\ bpc = "decide"
  /\ seenRate' = geometry
  /\ bpc' = "build"
  /\ UNCHANGED <<held, live, builtFor, appliedVars, tpc>>
  /\ UNCHANGED <<lockVars, fadeVars>>

\* buildConvKernel(), which may also refuse.
Build ==
  /\ bpc = "build"
  /\ \/ \E k \in Kernels \ live :
          /\ live' = live \union {k}
          /\ builtFor' = [builtFor EXCEPT ![k] = seenRate]
          /\ held' = [held EXCEPT !["building"] = k]
          /\ bpc' = "offer"
     \/ bpc' = "idle" /\ UNCHANGED <<held, live, builtFor>>
  /\ UNCHANGED <<appliedVars, tpc, seenRate>>
  /\ UNCHANGED <<lockVars, fadeVars>>

\* offerKernel(): a compare-and-swap against null; what is refused is dropped.
Offer ==
  /\ bpc = "offer"
  /\ IF held["incoming"] = NoKernel
     THEN Move("building", "incoming") /\ UNCHANGED live
     ELSE /\ live' = live \ {held["building"]}
          /\ held' = [held EXCEPT !["building"] = NoKernel]
  /\ bpc' = "idle"
  /\ UNCHANGED <<builtFor, appliedVars, tpc, seenRate>>
  /\ UNCHANGED <<lockVars, fadeVars>>

-----------------------------------------------------------------------------
(* The audio thread.                                                       *)

\* ConvolutionStage::setEnabled
SetEnabled(on) ==
  IF enabled = on
  THEN UNCHANGED <<enabled, fadeTarget, fadeStep>>
  ELSE /\ enabled' = on
       /\ fadeTarget' = WetTarget(on, held["current"])
       /\ fadeStep' = IF fadeTarget' > fade THEN 1 ELSE -1

\* EffectChain::apply, at the start of a callback: the bypass is only noted, so
\* that the stage still gets its parameters while it is switched out.
Apply(on, bypassed) ==
  /\ locked /\ tpc = "idle"
  /\ SetEnabled(on)
  /\ bypass' = bypassed
  /\ UNCHANGED <<held, live, builtFor, fade, tpc, bpc, seenRate>>
  /\ UNCHANGED lockVars

\* Mutant of Crossfaded: no clamp at the target.
CrossfadedUnclamped == fade + fadeStep

\* Where a block of process() leaves the crossfade: an overshoot is clamped.
Crossfaded == IF fade = fadeTarget THEN fade ELSE fade + fadeStep

\* Mutant of ProcessBlock: what is on offer is taken whatever is pending.
ProcessBlockGreedy ==
  /\ locked /\ armed /\ ~bypass /\ tpc = "idle"
  /\ fade' = Crossfaded
  /\ IF held["incoming"] # NoKernel
     THEN Move("incoming", "hand") /\ tpc' = "judge"
     ELSE tpc' = "install" /\ UNCHANGED held
  /\ UNCHANGED <<live, builtFor, appliedVars, fadeTarget, fadeStep, bpc, seenRate>>
  /\ UNCHANGED lockVars

\* process() up to m_pos reaching the block, and the start of tick().  It takes
\* what is on offer, unless it is still holding the previous one.
ProcessBlock ==
  /\ locked /\ armed /\ ~bypass /\ tpc = "idle"
  /\ fade' = Crossfaded
  /\ IF held["pending"] = NoKernel /\ held["incoming"] # NoKernel
     THEN Move("incoming", "hand") /\ tpc' = "judge"
     ELSE tpc' = "install" /\ UNCHANGED held
  /\ UNCHANGED <<live, builtFor, appliedVars, fadeTarget, fadeStep, bpc, seenRate>>
  /\ UNCHANGED lockVars

\* Mutant of TickAccept: the direction of the fade is left as it was.
TickAcceptKeepingStep ==
  /\ tpc = "judge"
  /\ builtFor[held["hand"]] = geometry
  /\ Move("hand", "pending")
  /\ fadeTarget' = 0
  /\ tpc' = "install"
  /\ UNCHANGED <<live, builtFor, appliedVars, fade, fadeStep, bpc, seenRate>>
  /\ UNCHANGED lockVars

\* It fits the stage: start ducking to dry.
TickAccept ==
  /\ tpc = "judge"
  /\ builtFor[held["hand"]] = geometry
  /\ Move("hand", "pending")
  /\ fadeTarget' = 0
  /\ fadeStep' = -1
  /\ tpc' = "install"
  /\ UNCHANGED <<live, builtFor, appliedVars, fade, bpc, seenRate>>
  /\ UNCHANGED lockVars

\* It was built for another geometry: hand it straight back.
TickReturn ==
  /\ tpc = "judge"
  /\ builtFor[held["hand"]] # geometry
  /\ held["retired"] = NoKernel
  /\ Move("hand", "retired")
  /\ tpc' = "install"
  /\ UNCHANGED <<live, builtFor, appliedVars, bpc, seenRate>>
  /\ UNCHANGED <<lockVars, fadeVars>>

\* The way back is occupied: m_incoming.store(incoming), whatever is there.
TickPutBack ==
  /\ tpc = "judge"
  /\ builtFor[held["hand"]] # geometry
  /\ held["retired"] # NoKernel
  /\ Move("hand", "incoming")
  /\ tpc' = "install"
  /\ UNCHANGED <<live, builtFor, appliedVars, bpc, seenRate>>
  /\ UNCHANGED <<lockVars, fadeVars>>

\* Mutant of TickInstall: it does not wait for the bottom of the fade.
TickInstallAtOnce ==
  /\ tpc = "install"
  /\ held["pending"] # NoKernel /\ held["retired"] = NoKernel
  /\ held' = [held EXCEPT !["current"] = held["pending"],
                          !["pending"] = NoKernel,
                          !["retired"] = held["current"]]
  /\ fadeTarget' = WetTarget(enabled, held["pending"])
  /\ fadeStep' = 1
  /\ tpc' = "idle"
  /\ UNCHANGED <<live, builtFor, appliedVars, fade, bpc, seenRate>>
  /\ UNCHANGED lockVars

\* At the bottom of the fade, with the way out free: swap.
TickInstall ==
  /\ tpc = "install"
  /\ held["pending"] # NoKernel /\ fade = 0 /\ held["retired"] = NoKernel
  /\ held' = [held EXCEPT !["current"] = held["pending"],
                          !["pending"] = NoKernel,
                          !["retired"] = held["current"]]
  /\ fadeTarget' = WetTarget(enabled, held["pending"])
  /\ fadeStep' = 1
  /\ tpc' = "idle"
  /\ UNCHANGED <<live, builtFor, appliedVars, fade, bpc, seenRate>>
  /\ UNCHANGED lockVars

\* Nothing to swap, or not yet: "tries again next tick".
TickKeep ==
  /\ tpc = "install"
  /\ ~(held["pending"] # NoKernel /\ fade = 0 /\ held["retired"] = NoKernel)
  /\ tpc' = "idle"
  /\ UNCHANGED <<held, live, builtFor, appliedVars, bpc, seenRate>>
  /\ UNCHANGED <<lockVars, fadeVars>>

-----------------------------------------------------------------------------
(* The control thread.                                                     *)

\* LockForProcess: prepare() and reset() at the rate of the new connection,
\* the kernels staying where they are, then setArmed().
Lock(g, arm) ==
  /\ ~locked
  /\ geometry' = g
  /\ armed' = arm
  /\ locked' = TRUE
  /\ bypass' = FALSE
  /\ fadeTarget' = WetTarget(enabled, held["current"])
  /\ fade' = fadeTarget'
  /\ fadeStep' = 0
  /\ UNCHANGED <<held, live, builtFor, enabled, tpc, bpc, seenRate>>

\* UnlockForProcess: the engine has stopped calling process() by then.
Unlock ==
  /\ locked /\ tpc = "idle"
  /\ locked' = FALSE
  /\ UNCHANGED <<held, live, builtFor, geometry, armed, appliedVars, tpc, bpc,
                 seenRate>>
  /\ UNCHANGED fadeVars

\* ~ConvolutionStage, and a new stage in the place of the old one.  The
\* builder is between two passes: ParamChannel models when it is not.
Destroy ==
  /\ ~locked /\ bpc = "idle"
  /\ live' = live \ {held[p] : p \in Members}
  /\ held' = [p \in Places |-> NoKernel]
  /\ enabled' = FALSE /\ bypass' = FALSE /\ armed' = FALSE
  /\ fade' = 0 /\ fadeTarget' = 0 /\ fadeStep' = 0
  /\ UNCHANGED <<builtFor, geometry, locked, tpc, bpc, seenRate>>

-----------------------------------------------------------------------------

Builder == Reclaim \/ SkipBuild \/ ReadRate \/ Build \/ Offer
Tick == TickAccept \/ TickReturn \/ TickPutBack \/ TickInstall \/ TickKeep
Audio ==
  \/ ProcessBlock
  \/ Tick
  \/ \E on, bypassed \in BOOLEAN : Apply(on, bypassed)
Control ==
  \/ \E g \in Geometries, arm \in BOOLEAN : Lock(g, arm)
  \/ Unlock
  \/ Destroy

Next == Builder \/ Audio \/ Control

Spec == Init /\ [][Next]_vars

\* While a stream plays, callbacks come and an armed stage that is not bypassed
\* runs in each, switched on or not, so its blocks end.  A tick that has begun
\* returns, and so does a pass of the watcher.  A pass begins only when
\* params.bin changes, and nobody need ever toggle, lock or unlock anything.
Fairness ==
  /\ WF_vars(ProcessBlock)
  /\ WF_vars(Tick)
  /\ WF_vars(SkipBuild \/ ReadRate \/ Build \/ Offer)

FairSpec == Spec /\ Fairness

-----------------------------------------------------------------------------
(* Properties                                                              *)

\* Types of all variables.
TypeOK ==
  /\ held \in [Places -> Kernels \union {NoKernel}]
  /\ live \subseteq Kernels
  /\ builtFor \in [Kernels -> Geometries]
  /\ geometry \in Geometries
  /\ locked \in BOOLEAN /\ armed \in BOOLEAN
  /\ enabled \in BOOLEAN /\ bypass \in BOOLEAN
  /\ fade \in 0..FadeSteps
  /\ fadeTarget \in {0, FadeSteps}
  /\ fadeStep \in {-1, 0, 1}
  /\ tpc \in {"idle", "judge", "install"}
  /\ bpc \in {"idle", "decide", "build", "offer"}
  /\ seenRate \in Geometries

\* Convolver.h: a kernel is "released by whoever built it" and "the caller
\* owns" what it reclaims: no kernel is owned by two pointers at once, so
\* none can be destroyed twice.
OneOwner ==
  \A p, q \in Places : held[p] = held[q] /\ held[p] # NoKernel => p = q

\* No pointer holds a kernel that has been destroyed: the audio thread never
\* convolves with freed memory.
NothingFreed == \A p \in Places : held[p] # NoKernel => held[p] \in live

\* The crossfade never wanders: it is either at its target or moving towards
\* it, whatever order toggles, swaps and new streams came in.
FadeConverges ==
  /\ fade < fadeTarget => fadeStep = 1
  /\ fade > fadeTarget => fadeStep = -1
  /\ fadeTarget = FadeSteps => enabled /\ held["current"] # NoKernel

\* Where the hand-over locals of tick() and of the builder stand, and that no
\* stream ends half way through a tick.
ControlInv ==
  /\ tpc = "judge" <=> held["hand"] # NoKernel
  /\ bpc = "offer" <=> held["building"] # NoKernel
  /\ tpc = "judge" => held["pending"] = NoKernel
  /\ ~locked => tpc = "idle"

\* Single ownership of live kernels.
Ownership == OneOwner /\ NothingFreed

\* A kernel has one owner and is alive while it has, and the crossfade leads to
\* its target; inductive with what the two program counters say of the locals.
HandoffInv == TypeOK /\ Ownership /\ FadeConverges /\ ControlInv

\* "Duck to dry first, then install at the bottom of the fade, so the swap
\* itself is inaudible": while a stream runs, the kernel in use changes only
\* when no wet signal is heard, and the next sample is still dry.
SwapIsInaudible ==
  [][locked /\ held'["current"] # held["current"] => fade = 0 /\ fade' = 0]_vars

\* A kernel that no pointer holds: nobody will destroy it.
Unheld(k) == \A p \in Places : held[p] # k

\* A kernel is "released by whoever built it", so somebody has to have it.  One gets lost in
\* one way only: an offer comes while tick() has an older one in its hand, and tick() puts
\* that one back over it.
OnlyOffersAreLost ==
  [][\A k \in live' :
       Unheld(k)' => (k \in live /\ Unheld(k)) \/ (TickPutBack /\ k = held["incoming"])]_vars

\* The kernels that a pointer other than m_current holds.
InTransit == {held[p] : p \in Places \ {"current"}} \ {NoKernel}

Custody == INSTANCE KernelCustody WITH
  WetSteps <- FadeSteps,
  alive <- live,
  transit <- InTransit,
  inUse <- held["current"],
  streaming <- locked,
  wet <- fade

\* The pointers, the threads and the crossfade do what is promised of a kernel: it is freed
\* once, by the one who has it and never in use, swapped in silence, lost only when an
\* offer is overwritten; and the wet signal never jumps within a stream.
ImplementsCustody == Custody!CustodySpec

\* A kernel is on its way into the stage, which is fading to dry for it.
Waiting ==
  /\ held["pending"] # NoKernel
  /\ locked /\ armed /\ ~bypass
  /\ fadeTarget = 0

\* If the builder keeps collecting, a kernel that has been taken is installed,
\* unless the user switches the stage on, or all effects off, while it waits, or
\* the stream ends.
TakenIsInstalled ==
  []<><<Reclaim>>_vars => (Waiting ~> ~Waiting)

\* Convolver.cpp: while the builder has not collected yet, "the stage stays dry
\* and tries again next tick.  That is a bounded wait".  The same with nothing
\* asked of the builder, which collects only when the parameters file changes.
WaitIsBounded == Waiting ~> ~Waiting

\* Convolver.h: prepare() "sizes everything for the worst case and clears all
\* state", and tick() hands back what was built for another geometry.  So while
\* a stream runs, the kernel in use is one built for it.
InUseFits ==
  locked /\ held["current"] # NoKernel => builtFor[held["current"]] = geometry
=============================================================================
