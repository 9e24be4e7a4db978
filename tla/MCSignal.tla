------------------------------ MODULE MCSignal ------------------------------
(***************************************************************************)
(* What runs in the audio engine on small samples: six of the chain's      *)
(* stages and the object that holds the chain.  Each behaviour follows one *)
(* of them and leaves the others where they started.                       *)
(***************************************************************************)
EXTENDS Limiter, Routing, Levelling, Filters, Convolution, Transients, ComObject, TLC

VARIABLE focus

Frame(l, r, peak) == [level |-> <<l, r>>, peak |-> peak]
MCFrames == {Frame(0, 0, 0), Frame(8, 2, 8), Frame(2, 2, 2), Frame(1, 4, 8), Frame(NaN, 2, 2)}
MCLimiterParams ==
  {[gain |-> 1, threshold |-> 2, look |-> 2, truePeak |-> TRUE],
   [gain |-> 2, threshold |-> 4, look |-> 1, truePeak |-> FALSE]}

\* The identity, and one whose second output needs the first input.
MCMatrices == {<<<<1, 0>>, <<0, 1>>>>, <<<<0, 1>>, <<1, 1>>>>}
\* Half samples: none, less than one sample, the longest, and past it.
MCDelays == {<<0, 3>>, <<20, 1>>, <<2, 0>>, <<5, 4>>}
MCInputs == {<<1, 0>>, <<2, 3>>, <<NaN, 1>>}

\* Six channels: silence, two in front, something in a surround too, the LFE alone,
\* and loud.
MCProgrammes ==
  {<<0, 0, 0, 0, 0, 0>>, <<1, 0, 0, 0, 0, 0>>, <<2, 0, 0, 0, 1, 0>>, <<0, 0, 0, 9, 0, 0>>,
   <<5, 1, 0, 0, 0, 0>>}
MCLufs(s) ==
  IF s = 0 THEN -200 ELSE IF s < 250 THEN -60 ELSE IF s < 500 THEN -30
  ELSE IF s < 1000 THEN -24 ELSE -18
Leveller(aim, most, floor) ==
  [target |-> aim, max |-> most, up |-> 1, down |-> 3, creep |-> 1, zone |-> 2, gate |-> floor]
MCLevellerParams == {Leveller(-20, 6, -50), Leveller(-25, 3, -25)}
MCNightParams ==
  {[profile |-> p, boost |-> b, cut |-> c] : p \in {1, 4, 5}, b \in {0, 10}, c \in {5, 10}}
MCNightLevels == {-40, -15, 0, 12, 40}
MCRetained == "fastAttack" :> 0 @@ "attack" :> 2 @@ "release" :> 2 @@ "fastRelease" :> 1

\* Onsets sharper, decays longer; softer and shorter; and both in the middle.
Knobs(a, s) == [attack |-> a, sustain |-> s, gate |-> -90]
MCTransientParams == {Knobs(2, 1), Knobs(-1, 2), Knobs(0, 0), Knobs(0, -2)}
MCHits == {-20, -44, -68}
MCHardFloorDb == -180
MCRates == <<[up |-> 4, down |-> 2], [up |-> 1, down |-> 2],
             [up |-> 2, down |-> 3], [up |-> 2, down |-> 1]>>

EqBand(kind, hz, db, width, on) ==
  [type |-> kind, freq |-> hz, gain |-> db, q |-> width, enabled |-> on]
MCEqBands ==
  {EqBand("PK", 3, 1, 1, TRUE), EqBand("PK", 3, 1, 1, FALSE), EqBand("PK", 9, 1, 1, TRUE),
   EqBand("BWLP", 3, 1, 0, TRUE), EqBand("LSQ", 3, 1, 0, TRUE), EqBand("NO", 3, 0, 0, TRUE),
   EqBand("LRHP", 3, 1, 0, FALSE)}

Response(taps, mono, lfe) ==
  [ir |-> taps, mask |-> <<"FL", "FR", "LFE">>, forceMono |-> mono, convolveLfe |-> lfe]
\* Of one and a half blocks, of two and a half, of one, and one that is too long.
MCRequests ==
  {Response(<<<<1, 2, 3>>, <<4, 0, 1>>>>, FALSE, FALSE), Response(<<<<1, NaN, 3, 2, 5>>>>, FALSE, FALSE),
   Response(<<<<2, 1>>, <<1, 3>>>>, FALSE, TRUE), Response(<<<<1, 2, 3, 4, 5, 6, 7>>>>, TRUE, TRUE)}
MCConvSamples == {<<0, 0, 1>>, <<1, 2, 0>>, <<NaN, 1, 3>>}

----------------------------------------------------------------------------

signalVars == <<limiterVars, routingVars, levelVars, filterVars, convVars,
                transientVars, comVars, focus>>

Only(stage, P) == focus # stage => P

SignalInit ==
  /\ focus \in {"limiter", "routing", "leveller", "night", "filters", "convolution",
                 "transients", "object"}
  /\ LimiterInit /\ RoutingInit /\ LevellerInit /\ NightInit /\ FiltersInit /\ ConvInit
  /\ TransientInit /\ ComInit
  /\ Only("limiter", limiter = CHOOSE p \in LimiterParams : TRUE)
  /\ Only("routing", weights = CHOOSE m \in Matrices : TRUE)
  /\ Only("routing", ms = CHOOSE d \in Delays : TRUE)
  /\ Only("leveller", leveller = CHOOSE p \in LevellerParams : TRUE)
  /\ Only("leveller", playing = CHOOSE p \in Programmes : TRUE)
  /\ Only("night", night = CHOOSE p \in NightParams : TRUE)
  /\ Only("night", level = CHOOSE l \in NightLevels : TRUE)
  /\ Only("filters", eqRate = CHOOSE r \in SampleRates : TRUE)
  /\ Only("transients", knobs = CHOOSE p \in TransientParams : TRUE)
  /\ Only("convolution", request = CHOOSE r \in Requests : TRUE)

SignalNext ==
  /\ UNCHANGED focus
  /\ IF focus = "limiter" THEN LimiterNext ELSE UNCHANGED limiterVars
  /\ IF focus = "routing" THEN RoutingNext ELSE UNCHANGED routingVars
  /\ IF focus = "leveller" THEN LevellerNext ELSE UNCHANGED levellerVars
  /\ IF focus = "night" THEN NightNext ELSE UNCHANGED nightVars
  /\ IF focus = "filters" THEN FiltersNext ELSE UNCHANGED filterVars
  /\ IF focus = "convolution" THEN ConvNext ELSE UNCHANGED convVars
  /\ IF focus = "transients" THEN TransientNext ELSE UNCHANGED transientVars
  /\ IF focus = "object" THEN ComNext ELSE UNCHANGED comVars

SignalSpec == SignalInit /\ [][SignalNext]_signalVars
=============================================================================
