---------------------------- MODULE PagesProofs ----------------------------
(***************************************************************************)
(* Proofs about the pages (MCPages), for every list of older files, of     *)
(* pages, of preset names, of Peace's files, of AutoEQ's records and of    *)
(* texts of config.txt that the assumptions of those modules allow.        *)
(*                                                                         *)
(* Each part has an inductive invariant of its own: ControlInv, that what  *)
(* the controls show is what the block says and that the stages are all in *)
(* the order, once each; PresetsInv, that a preset saved here and not      *)
(* rewritten since holds the curve that was saved and that an unmarked     *)
(* curve is the file's; ConfigInv, that the text about to be written is    *)
(* made of the text that is there.  A behaviour follows one part, and the  *)
(* other two stand still.                                                  *)
(***************************************************************************)
EXTENDS MCPages, FiniteSetTheorems, WellFoundedInduction, SequenceTheorems, TLAPS

----------------------------------------------------------------------------
(* The table of the settings.                                               *)

\* What every row is: numbers, of which the wire lets through all that a control may
\* show.
Sound(r) ==
  /\ r.lo \in Int /\ r.hi \in Int /\ r.wlo \in Int /\ r.whi \in Int
  /\ r.start \in Int /\ r.plain \in Int
  /\ r.wlo <= r.whi
  /\ r.lo <= r.hi => r.wlo <= r.lo /\ r.hi <= r.whi

LEMMA RowsAreSound ==
  /\ \A s \in DOMAIN Compressors : Sound(Compressors[s])
  /\ \A s \in DOMAIN Reverbs : Sound(Reverbs[s])
  /\ \A s \in DOMAIN Effects : Sound(Effects[s])
  /\ \A s \in DOMAIN LaterEffects : Sound(LaterEffects[s])
  /\ \A s \in DOMAIN Outputs : Sound(Outputs[s])
<1>1. \A s \in DOMAIN Compressors : Sound(Compressors[s])
  BY SMT DEF Compressors, S, Sound
<1>2. \A s \in DOMAIN Reverbs : Sound(Reverbs[s])
  BY SMT DEF Reverbs, S, Sound
<1>3. \A s \in DOMAIN Effects : Sound(Effects[s])
  BY SMT DEF Effects, S, Sound
<1>4. \A s \in DOMAIN LaterEffects : Sound(LaterEffects[s])
  BY SMT DEF LaterEffects, S, Sound
<1>5. \A s \in DOMAIN Outputs : Sound(Outputs[s])
  BY SMT DEF Outputs, S, Sound
<1> QED  BY <1>1, <1>2, <1>3, <1>4, <1>5

LEMMA Merged ==
  ASSUME NEW f, NEW g
  PROVE  /\ DOMAIN Merge(f, g) = DOMAIN f \cup DOMAIN g
         /\ \A s \in DOMAIN f : Merge(f, g)[s] = f[s]
         /\ \A s \in DOMAIN g : s \notin DOMAIN f => Merge(f, g)[s] = g[s]
BY DEF Merge

LEMMA MergedAreSound ==
  ASSUME NEW f, NEW g, \A s \in DOMAIN f : Sound(f[s]), \A s \in DOMAIN g : Sound(g[s])
  PROVE  \A s \in DOMAIN Merge(f, g) : Sound(Merge(f, g)[s])
<1>0. /\ DOMAIN Merge(f, g) = DOMAIN f \cup DOMAIN g
      /\ \A s \in DOMAIN f : Merge(f, g)[s] = f[s]
      /\ \A s \in DOMAIN g : s \notin DOMAIN f => Merge(f, g)[s] = g[s]
  BY Zenon, Merged
<1> SUFFICES ASSUME NEW s \in DOMAIN Merge(f, g)
             PROVE  Sound(Merge(f, g)[s])
  OBVIOUS
<1>1. CASE s \in DOMAIN f
  <2>1. Merge(f, g)[s] = f[s]
    BY <1>0, <1>1
  <2> QED  BY <1>1, <2>1
<1>2. CASE s \notin DOMAIN f
  <2>1. s \in DOMAIN g /\ Merge(f, g)[s] = g[s]
    BY <1>0, <1>2
  <2> QED  BY <2>1
<1> QED  BY <1>1, <1>2

LEMMA TableIsSound == \A s \in Setting : Sound(All[s])
<1>1. \A s \in DOMAIN Merge(Compressors, Reverbs) : Sound(Merge(Compressors, Reverbs)[s])
  BY RowsAreSound, MergedAreSound
<1>2. \A s \in DOMAIN Merge(Effects, LaterEffects) : Sound(Merge(Effects, LaterEffects)[s])
  BY RowsAreSound, MergedAreSound
<1> DEFINE a == Merge(Compressors, Reverbs)
           b == Merge(Effects, LaterEffects)
<1>3. (\A s \in DOMAIN a : Sound(a[s])) /\ (\A s \in DOMAIN b : Sound(b[s]))
  BY <1>1, <1>2
<1> HIDE DEF a, b
<1>4. \A s \in DOMAIN Merge(a, b) : Sound(Merge(a, b)[s])
  BY <1>3, MergedAreSound
<1> DEFINE c == Merge(a, b)
<1>5. \A s \in DOMAIN c : Sound(c[s])
  BY <1>4
<1> HIDE DEF c
<1>6. \A s \in DOMAIN Merge(c, Outputs) : Sound(Merge(c, Outputs)[s])
  BY <1>5, RowsAreSound, MergedAreSound
<1> QED  BY <1>6 DEF Setting, All, a, b, c

\* The rows that are named in the code.
LEMMA Found ==
  /\ \A s \in DOMAIN Outputs :
       s \notin DOMAIN Compressors \cup DOMAIN Reverbs \cup DOMAIN Effects \cup DOMAIN LaterEffects
         => All[s] = Outputs[s]
  /\ \A s \in DOMAIN LaterEffects :
       s \notin DOMAIN Compressors \cup DOMAIN Reverbs \cup DOMAIN Effects => All[s] = LaterEffects[s]
  /\ \A s \in DOMAIN Effects :
       s \notin DOMAIN Compressors \cup DOMAIN Reverbs => All[s] = Effects[s]
  /\ Setting = DOMAIN Compressors \cup DOMAIN Reverbs \cup DOMAIN Effects \cup DOMAIN LaterEffects
                 \cup DOMAIN Outputs
<1> DEFINE a == Merge(Compressors, Reverbs)
           b == Merge(Effects, LaterEffects)
           c == Merge(a, b)
<1>1. /\ DOMAIN a = DOMAIN Compressors \cup DOMAIN Reverbs
      /\ DOMAIN b = DOMAIN Effects \cup DOMAIN LaterEffects
      /\ \A s \in DOMAIN Effects : b[s] = Effects[s]
      /\ \A s \in DOMAIN LaterEffects : s \notin DOMAIN Effects => b[s] = LaterEffects[s]
  BY Merged
<1>2. /\ DOMAIN c = DOMAIN a \cup DOMAIN b
      /\ \A s \in DOMAIN b : s \notin DOMAIN a => c[s] = b[s]
  <2> HIDE DEF a, b
  <2> QED  BY Merged
<1>3. /\ DOMAIN All = DOMAIN c \cup DOMAIN Outputs
      /\ \A s \in DOMAIN c : All[s] = c[s]
      /\ \A s \in DOMAIN Outputs : s \notin DOMAIN c => All[s] = Outputs[s]
  <2>1. All = Merge(c, Outputs)
    BY DEF All
  <2> HIDE DEF a, b, c
  <2>2. /\ DOMAIN Merge(c, Outputs) = DOMAIN c \cup DOMAIN Outputs
        /\ \A s \in DOMAIN c : Merge(c, Outputs)[s] = c[s]
        /\ \A s \in DOMAIN Outputs : s \notin DOMAIN c => Merge(c, Outputs)[s] = Outputs[s]
    BY Merged
  <2> QED  BY <2>1, <2>2
<1> HIDE DEF a, b, c
<1>4. DOMAIN c = DOMAIN Compressors \cup DOMAIN Reverbs \cup DOMAIN Effects \cup DOMAIN LaterEffects
  BY <1>1, <1>2
<1>5. Setting = DOMAIN c \cup DOMAIN Outputs
  BY <1>3 DEF Setting
<1>6. ASSUME NEW s \in DOMAIN Outputs,
             s \notin DOMAIN Compressors \cup DOMAIN Reverbs \cup DOMAIN Effects \cup DOMAIN LaterEffects
      PROVE  All[s] = Outputs[s]
  BY <1>3, <1>4, <1>6
<1>7. ASSUME NEW s \in DOMAIN LaterEffects,
             s \notin DOMAIN Compressors \cup DOMAIN Reverbs \cup DOMAIN Effects
      PROVE  All[s] = LaterEffects[s]
  BY <1>1, <1>2, <1>3, <1>7
<1>8. ASSUME NEW s \in DOMAIN Effects, s \notin DOMAIN Compressors \cup DOMAIN Reverbs
      PROVE  All[s] = Effects[s]
  BY <1>1, <1>2, <1>3, <1>8
<1> QED  BY <1>4, <1>5, <1>6, <1>7, <1>8

LEMMA NamedRows ==
  /\ {"monoBelow", "lowCross", "highCross", "nightProfile", "matrix", "delay", "loudnessReference",
      "loudnessAmount", "graphicAmount", "limiterRelease"} \subseteq Setting
  /\ All["monoBelow"] = Effects["monoBelow"]
  /\ All["lowCross"] = Effects["lowCross"]
  /\ All["highCross"] = Effects["highCross"]
  /\ All["nightProfile"] = LaterEffects["nightProfile"]
  /\ \A s \in {"matrix", "delay", "loudnessReference", "loudnessAmount", "graphicAmount", "limiterRelease"} :
       All[s] = Outputs[s]
<1>1. /\ {"monoBelow", "lowCross", "highCross"} \subseteq DOMAIN Effects
      /\ "nightProfile" \in DOMAIN LaterEffects
      /\ {"matrix", "delay", "loudnessReference", "loudnessAmount", "graphicAmount", "limiterRelease"}
           \subseteq DOMAIN Outputs
  BY SMT DEF Effects, LaterEffects, Outputs
<1>2. \A s \in {"monoBelow", "lowCross", "highCross", "nightProfile", "matrix", "delay",
                "loudnessReference", "loudnessAmount", "graphicAmount", "limiterRelease"} :
        s \notin DOMAIN Compressors /\ s \notin DOMAIN Reverbs
  BY SMT DEF Compressors, Reverbs
<1>3. \A s \in {"nightProfile", "matrix", "delay", "loudnessReference", "loudnessAmount",
                "graphicAmount", "limiterRelease"} :
        s \notin DOMAIN Effects
  BY SMT DEF Effects
<1>4. \A s \in {"matrix", "delay", "loudnessReference", "loudnessAmount", "graphicAmount", "limiterRelease"} :
        s \notin DOMAIN LaterEffects
  BY SMT DEF LaterEffects
<1> QED  BY <1>1, <1>2, <1>3, <1>4, Found

----------------------------------------------------------------------------
(* What sanitise() does to the numbers.                                     *)

Numbers == [Setting -> Int]

Passes(value, s) == All[s].wlo <= value[s] /\ value[s] <= All[s].whi

\* Numbers that sanitise() leaves as they are.
Settled(value) ==
  /\ value \in Numbers
  /\ \A s \in Setting : Passes(value, s)
  /\ value["monoBelow"] = 0 \/ 2000 <= value["monoBelow"]
  /\ \/ 3 * value["lowCross"] <= 2 * value["highCross"]
     \/ value["highCross"] = (3 * value["lowCross"]) \div 2

LEMMA WithinBounds ==
  ASSUME NEW v \in Int, NEW lo \in Int, NEW hi \in Int, lo <= hi
  PROVE  /\ Within(v, lo, hi) \in Int
         /\ lo <= Within(v, lo, hi) /\ Within(v, lo, hi) <= hi
         /\ lo <= v /\ v <= hi => Within(v, lo, hi) = v
         /\ lo <= v => Within(v, lo, hi) <= v
BY DEF Within

LEMMA SanFBounds ==
  ASSUME NEW value \in Numbers, NEW s \in Setting
  PROVE  /\ SanF(value, s) \in Int
         /\ All[s].wlo <= SanF(value, s) /\ SanF(value, s) <= All[s].whi
         /\ Passes(value, s) => SanF(value, s) = value[s]
<1>1. value[s] \in Int /\ Sound(All[s])
  BY TableIsSound DEF Numbers
<1>2. All[s].wlo \in Int /\ All[s].whi \in Int /\ All[s].wlo <= All[s].whi
  BY <1>1 DEF Sound
<1> QED  BY <1>1, <1>2, WithinBounds DEF SanF, Passes

LEMMA CrossRows ==
  /\ All["lowCross"].wlo = 2000 /\ All["lowCross"].whi = 200000
  /\ All["highCross"].wlo = 20000 /\ All["highCross"].whi = 2000000
  /\ All["highCross"].lo = 100000 /\ All["highCross"].hi = 1200000
  /\ All["monoBelow"].wlo = 0 /\ All["monoBelow"].whi = 50000
  /\ All["nightProfile"].wlo = 0 /\ All["nightProfile"].whi = 5
BY NamedRows, SMT DEF Effects, LaterEffects, S

\* Setting by setting.
LEMMA SanitisedIs ==
  ASSUME NEW value \in Numbers
  PROVE  /\ Sanitised(value) = [s \in Setting |-> Sanitised(value)[s]]
         /\ \A s \in Setting : s \notin {"monoBelow", "highCross", "nightProfile"} =>
              Sanitised(value)[s] = SanF(value, s)
         /\ Sanitised(value)["monoBelow"] =
              IF SanF(value, "monoBelow") < 2000 THEN 0 ELSE SanF(value, "monoBelow")
         /\ Sanitised(value)["highCross"] =
              IF 2 * SanF(value, "highCross") < 3 * SanF(value, "lowCross")
              THEN (3 * SanF(value, "lowCross")) \div 2 ELSE SanF(value, "highCross")
         /\ Sanitised(value)["nightProfile"] = 
              IF value["nightProfile"] \in 0..5 THEN SanF(value, "nightProfile") ELSE 0
<1>1. "monoBelow" \in Setting /\ "highCross" \in Setting /\ "nightProfile" \in Setting
  BY NamedRows
<1> DEFINE bounded == [s \in Setting |-> SanF(value, s)]
           a == IF bounded["monoBelow"] < 2000 THEN 0 ELSE bounded["monoBelow"]
           b == IF 2 * bounded["highCross"] < 3 * bounded["lowCross"]
                THEN (3 * bounded["lowCross"]) \div 2 ELSE bounded["highCross"]
           c == IF value["nightProfile"] \in 0..5 THEN bounded["nightProfile"] ELSE 0
<1>2. Sanitised(value) = [bounded EXCEPT !["monoBelow"] = a, !["highCross"] = b, !["nightProfile"] = c]
  BY Zenon DEF Sanitised
<1>3. DOMAIN bounded = Setting /\ \A s \in Setting : bounded[s] = SanF(value, s)
  OBVIOUS
<1>4. "lowCross" \in Setting
  BY NamedRows
<1> HIDE DEF bounded
<1>5. /\ a = IF SanF(value, "monoBelow") < 2000 THEN 0 ELSE SanF(value, "monoBelow")
      /\ b = IF 2 * SanF(value, "highCross") < 3 * SanF(value, "lowCross")
             THEN (3 * SanF(value, "lowCross")) \div 2 ELSE SanF(value, "highCross")
      /\ c = IF value["nightProfile"] \in 0..5 THEN SanF(value, "nightProfile") ELSE 0
  BY <1>1, <1>3, <1>4
<1> HIDE DEF a, b, c
<1>6. /\ \A s \in Setting : s \notin {"monoBelow", "highCross", "nightProfile"} =>
           Sanitised(value)[s] = SanF(value, s)
      /\ Sanitised(value)["monoBelow"] = a
      /\ Sanitised(value)["highCross"] = b
      /\ Sanitised(value)["nightProfile"] = c
  BY <1>1, <1>2, <1>3
<1>7. Sanitised(value) = [s \in Setting |-> Sanitised(value)[s]]
  BY <1>2, <1>3
<1> QED  BY <1>5, <1>6, <1>7

LEMMA SanitisedSettles ==
  ASSUME NEW value \in Numbers
  PROVE  Settled(Sanitised(value))
<1> DEFINE made == Sanitised(value)
           low == SanF(value, "lowCross")
           high == SanF(value, "highCross")
<1>1. /\ "monoBelow" \in Setting /\ "highCross" \in Setting /\ "lowCross" \in Setting
      /\ "nightProfile" \in Setting
  BY SMT, NamedRows
<1>2. /\ low \in Int /\ 2000 <= low /\ low <= 200000
      /\ high \in Int /\ 20000 <= high /\ high <= 2000000
  BY SMT, <1>1, SanFBounds, CrossRows
<1>3. made["lowCross"] = low
  BY SMT, <1>1, SanitisedIs
<1>4. made["highCross"] = IF 2 * high < 3 * low THEN (3 * low) \div 2 ELSE high
  BY SMT, SanitisedIs
<1>5. /\ made["highCross"] \in Int /\ 20000 <= made["highCross"] /\ made["highCross"] <= 2000000
      /\ 3 * low <= 2 * made["highCross"] \/ made["highCross"] = (3 * low) \div 2
  <2> HIDE DEF low, high, made
  <2> QED  BY SMT, <1>2, <1>4
<1>6. /\ made["monoBelow"] \in Int /\ 0 <= made["monoBelow"] /\ made["monoBelow"] <= 50000
      /\ made["monoBelow"] = 0 \/ 2000 <= made["monoBelow"]
  <2>1. /\ SanF(value, "monoBelow") \in Int
        /\ 0 <= SanF(value, "monoBelow") /\ SanF(value, "monoBelow") <= 50000
    BY SMT, <1>1, SanFBounds, CrossRows
  <2>2. made["monoBelow"] = IF SanF(value, "monoBelow") < 2000 THEN 0 ELSE SanF(value, "monoBelow")
    BY SMT, SanitisedIs
  <2> QED  BY SMT, <2>1, <2>2
<1>7. made["nightProfile"] \in 0..5
  <2>1. SanF(value, "nightProfile") \in 0..5
    BY SMT, <1>1, SanFBounds, CrossRows
  <2>2. made["nightProfile"] = IF value["nightProfile"] \in 0..5 THEN SanF(value, "nightProfile") ELSE 0
    BY SMT, SanitisedIs
  <2> QED  BY SMT, <2>1, <2>2
<1>8. ASSUME NEW s \in Setting
      PROVE  made[s] \in Int /\ Passes(made, s)
  <2>1. CASE s \notin {"monoBelow", "highCross", "nightProfile"}
    <3>1. made[s] = SanF(value, s)
      BY SMT, <2>1, SanitisedIs
    <3> QED  BY SMT, <3>1, SanFBounds DEF Passes
  <2>2. CASE s = "monoBelow"
    BY SMT, <2>2, <1>6, CrossRows DEF Passes
  <2>3. CASE s = "highCross"
    BY SMT, <2>3, <1>5, CrossRows DEF Passes
  <2>4. CASE s = "nightProfile"
    BY SMT, <2>4, <1>7, CrossRows DEF Passes
  <2> QED  BY SMT, <2>1, <2>2, <2>3, <2>4
<1>9. made \in Numbers
  <2>2. made = [s \in Setting |-> made[s]]
    BY SanitisedIs
  <2> HIDE DEF made
  <2> QED  BY SMT, <1>8, <2>2 DEF Numbers
<1> QED  BY SMT, <1>3, <1>5, <1>6, <1>8, <1>9 DEF Settled

\* What passes comes out as it is, but for the couplings.
LEMMA SanitisedKeeps ==
  ASSUME NEW value \in Numbers, NEW s \in Setting, Passes(value, s)
  PROVE  \/ Sanitised(value)[s] = value[s]
         \/ s = "monoBelow" /\ value[s] < 2000 /\ Sanitised(value)[s] = 0
         \/ /\ s = "highCross" /\ 2 * value[s] < 3 * SanF(value, "lowCross")
            /\ Sanitised(value)[s] = (3 * SanF(value, "lowCross")) \div 2
<1>1. SanF(value, s) = value[s] /\ value[s] \in Int
  BY SMT, SanFBounds DEF Numbers
<1>2. s = "nightProfile" => value[s] \in 0..5
  BY SMT, <1>1, CrossRows DEF Passes
<1>3. CASE s \notin {"monoBelow", "highCross", "nightProfile"}
  BY SMT, <1>1, <1>3, SanitisedIs
<1>4. CASE s = "monoBelow"
  BY SMT, <1>1, <1>4, SanitisedIs
<1>5. CASE s = "highCross"
  BY SMT, <1>1, <1>5, SanitisedIs
<1>6. CASE s = "nightProfile"
  BY SMT, <1>1, <1>2, <1>6, SanitisedIs
<1> QED  BY SMT, <1>3, <1>4, <1>5, <1>6

LEMMA SettledStays ==
  ASSUME NEW value, Settled(value)
  PROVE  Sanitised(value) = value
<1>1. value \in Numbers /\ \A s \in Setting : Passes(value, s)
  BY DEF Settled
<1>2. SanF(value, "lowCross") = value["lowCross"]
  BY SMT, <1>1, NamedRows, SanFBounds
<1>3. value["lowCross"] \in Int /\ value["highCross"] \in Int /\ value["monoBelow"] \in Int
  BY SMT, <1>1, NamedRows DEF Numbers
<1>4. ASSUME NEW s \in Setting
      PROVE  Sanitised(value)[s] = value[s]
  BY <1>1, <1>2, <1>3, SanitisedKeeps, Z3 DEF Settled
<1>5. Sanitised(value) \in Numbers
  BY SMT, <1>1, SanitisedSettles DEF Settled
<1> QED  BY SMT, <1>1, <1>4, <1>5 DEF Numbers

----------------------------------------------------------------------------
(* Orders of the stages.                                                    *)

LEMMA StagesAre ==
  /\ Len(DefaultOrder) = 20 /\ DefaultOrder \in Seq(Stage) /\ ToSet(DefaultOrder) = Stage
  /\ \A s \in Stage : \E i \in 1..20 : DefaultOrder[i] = s
  /\ \A i, j \in 1..20 : DefaultOrder[i] = DefaultOrder[j] => i = j
<1>1. Len(DefaultOrder) = 20 /\ DefaultOrder \in Seq(Stage)
  BY SMT DEF DefaultOrder, Stage, ToSet
<1>2. \A i, j \in 1..20 : DefaultOrder[i] = DefaultOrder[j] => i = j
  BY SMT DEF DefaultOrder
<1>3. \A s \in Stage : \E i \in 1..20 : DefaultOrder[i] = s
  BY SMT, <1>1 DEF Stage, ToSet
<1> QED  BY <1>1, <1>2, <1>3 DEF Stage

\* There are twenty.
LEMMA StagesCounted == IsFiniteSet(Stage) /\ Cardinality(Stage) = 20
<1>1. DefaultOrder \in [1..20 -> Stage]
  BY SMT DEF DefaultOrder, Stage, ToSet
<1>2. DefaultOrder \in Bijection(1..20, Stage)
  <2> DEFINE f == DefaultOrder
             n == 20
  <2>1. f \in [1..n -> Stage] /\ (\A s \in Stage : \E i \in 1..n : f[i] = s)
        /\ \A i, j \in 1..n : f[i] = f[j] => i = j
    BY <1>1, StagesAre
  <2> HIDE DEF f, n
  <2>2. f \in Bijection(1..n, Stage)
    BY <2>1 DEF Bijection, Injection, Surjection, IsInjective
  <2> QED  BY <2>2 DEF f, n
<1>3. ExistsBijection(1..20, Stage)
  BY <1>2 DEF ExistsBijection
<1>4. IsFiniteSet(Stage)
  <2>1. \E n \in Nat : ExistsBijection(1..n, Stage)
    BY <1>3
  <2> QED  BY <2>1, FS_NatBijection
<1> QED  BY <1>3, <1>4, FS_CountingElements

LEMMA DefaultIsOrder == DefaultOrder \in Seq(Stage) /\ IsOrder(DefaultOrder)
BY StagesAre, StagesCounted DEF IsOrder, IsOrderOf

LEMMA Removed ==
  ASSUME NEW T, NEW s \in Seq(T), NEW at \in 1..Len(s)
  PROVE  /\ RemoveAt(s, at) \in Seq(T) /\ Len(RemoveAt(s, at)) = Len(s) - 1
         /\ \A i \in 1..Len(s) - 1 : RemoveAt(s, at)[i] = IF i < at THEN s[i] ELSE s[i + 1]
<1> DEFINE n == Len(s)
           a == SubSeq(s, 1, at - 1)
           b == SubSeq(s, at + 1, n)
<1>0. n \in Nat /\ at \in 1..n
  OBVIOUS
<1>1. a \in Seq(T) /\ Len(a) = at - 1 /\ \A i \in 1..at - 1 : a[i] = s[i]
  BY SMT
<1>2. b \in Seq(T) /\ Len(b) = n - at /\ \A i \in 1..n - at : b[i] = s[at + i]
  BY SMT
<1>3. RemoveAt(s, at) = a \o b
  BY DEF RemoveAt
<1> HIDE DEF a, b, n
<1> DEFINE c == a \o b
<1>4. /\ c \in Seq(T) /\ Len(c) = Len(a) + Len(b)
      /\ \A i \in 1..Len(a) : c[i] = a[i]
      /\ \A i \in 1..Len(b) : c[Len(a) + i] = b[i]
  <2>1. a \in Seq(T) /\ b \in Seq(T)
    BY <1>1, <1>2
  <2> QED  BY <2>1
<1>5. RemoveAt(s, at) = c
  BY <1>3
<1> HIDE DEF c
<1>6. Len(c) = n - 1
  BY <1>0, <1>1, <1>2, <1>4
<1>7. ASSUME NEW i \in 1..n - 1
      PROVE  c[i] = IF i < at THEN s[i] ELSE s[i + 1]
  <2>1. CASE i < at
    <3>1. i \in 1..at - 1
      BY <1>0, <2>1
    <3> QED  BY <1>1, <1>4, <2>1, <3>1
  <2>2. CASE i >= at
    <3> DEFINE k == i - (at - 1)
    <3>1. k \in 1..n - at /\ (at - 1) + k = i /\ at + k = i + 1
      BY <1>0, <2>2
    <3> HIDE DEF k
    <3>2. b[k] = s[at + k] /\ c[(at - 1) + k] = b[k]
      BY <1>1, <1>2, <1>4, <3>1
    <3>3. ~(i < at)
      BY <1>0, <2>2
    <3> QED  BY <3>1, <3>2, <3>3
  <2> QED  BY <1>0, <2>1, <2>2
<1> QED  BY <1>4, <1>5, <1>6, <1>7 DEF n

\* A list with one entry more.
PutIn(T, s, at, x, t) ==
  /\ t \in Seq(T) /\ Len(t) = Len(s) + 1
  /\ \A i \in 1..Len(s) + 1 : t[i] = IF i < at THEN s[i] ELSE IF i = at THEN x ELSE s[i - 1]

LEMMA Put ==
  ASSUME NEW T, NEW s \in Seq(T), NEW x \in T, NEW at \in 1..Len(s) + 1
  PROVE  PutIn(T, s, at, x, InsertAt(s, at, x))
<1> DEFINE n == Len(s)
           a == SubSeq(s, 1, at - 1)
           b == SubSeq(s, at, n)
           c == a \o <<x>>
<1>0. n \in Nat /\ at \in 1..n + 1
  OBVIOUS
<1>1. a \in Seq(T) /\ Len(a) = at - 1 /\ \A i \in 1..at - 1 : a[i] = s[i]
  BY SMT
<1>2. b \in Seq(T) /\ Len(b) = n - (at - 1) /\ \A i \in 1..n - (at - 1) : b[i] = s[(at - 1) + i]
  BY SMT
<1>3. InsertAt(s, at, x) = c \o b
  BY DEF InsertAt
<1> HIDE DEF a, b, n
<1>4. <<x>> \in Seq(T) /\ Len(<<x>>) = 1 /\ <<x>>[1] = x
  OBVIOUS
<1>5. /\ c \in Seq(T) /\ Len(c) = at /\ c[at] = x
      /\ \A i \in 1..at - 1 : c[i] = s[i]
  <2> DEFINE e == <<x>>
  <2>1. e \in Seq(T) /\ Len(e) = 1 /\ e[1] = x
    BY <1>4
  <2> HIDE DEF e
  <2>2. /\ a \o e \in Seq(T) /\ Len(a \o e) = Len(a) + Len(e)
        /\ \A i \in 1..Len(a) : (a \o e)[i] = a[i]
        /\ \A i \in 1..Len(e) : (a \o e)[Len(a) + i] = e[i]
    <3>1. a \in Seq(T) /\ e \in Seq(T)
      BY <1>1, <2>1
    <3> QED  BY <3>1
  <2>3. Len(a \o e) = at /\ (a \o e)[at] = x
    BY <1>0, <1>1, <2>1, <2>2
  <2>4. \A i \in 1..at - 1 : (a \o e)[i] = s[i]
    BY <1>0, <1>1, <2>2
  <2> QED  BY <2>2, <2>3, <2>4 DEF e
<1> HIDE DEF c
<1> DEFINE d == c \o b
<1>6. /\ d \in Seq(T) /\ Len(d) = Len(c) + Len(b)
      /\ \A i \in 1..Len(c) : d[i] = c[i]
      /\ \A i \in 1..Len(b) : d[Len(c) + i] = b[i]
  <2>1. c \in Seq(T) /\ b \in Seq(T)
    BY <1>2, <1>5
  <2> QED  BY <2>1
<1>7. InsertAt(s, at, x) = d
  BY <1>3
<1> HIDE DEF d
<1>8. Len(d) = n + 1
  BY <1>0, <1>2, <1>5, <1>6
<1>9. ASSUME NEW i \in 1..n + 1
      PROVE  d[i] = IF i < at THEN s[i] ELSE IF i = at THEN x ELSE s[i - 1]
  <2>1. CASE i < at
    <3>1. i \in 1..at - 1 /\ i \in 1..at
      BY <1>0, <2>1
    <3> QED  BY <1>5, <1>6, <2>1, <3>1
  <2>2. CASE i = at
    <3>1. at \in 1..at /\ ~(at < at)
      BY <1>0
    <3> QED  BY <1>5, <1>6, <2>2, <3>1
  <2>3. CASE i > at
    <3> DEFINE k == i - at
    <3>1. k \in 1..n - (at - 1) /\ at + k = i /\ (at - 1) + k = i - 1
      BY <1>0, <2>3
    <3> HIDE DEF k
    <3>2. b[k] = s[(at - 1) + k] /\ d[at + k] = b[k]
      BY <1>2, <1>5, <1>6, <3>1
    <3>3. ~(i < at) /\ i # at
      BY <1>0, <2>3
    <3> QED  BY <3>1, <3>2, <3>3
  <2> QED  BY <1>0, <2>1, <2>2, <2>3
<1>10. InsertAt(s, at, x) \in Seq(T) /\ Len(InsertAt(s, at, x)) = Len(s) + 1
  BY <1>6, <1>7, <1>8 DEF n
<1>11. \A i \in 1..Len(s) + 1 :
         InsertAt(s, at, x)[i] = IF i < at THEN s[i] ELSE IF i = at THEN x ELSE s[i - 1]
  BY <1>7, <1>9 DEF n
<1> QED  BY <1>10, <1>11 DEF PutIn

\* What is dragged on the chain page stays a permutation.
LEMMA MovedIsOrder ==
  ASSUME NEW o \in Seq(Stage), IsOrder(o), NEW here \in 1..Len(o), NEW there \in 1..Len(o)
  PROVE  Moved(o, here, there) \in Seq(Stage) /\ IsOrder(Moved(o, here, there))
<1> DEFINE n == Len(o)
           less == RemoveAt(o, here)
           more == InsertAt(less, there, o[here])
<1>1. n \in Nat /\ here \in 1..n /\ there \in 1..n /\ n = Cardinality(Stage) /\ ToSet(o) = Stage
  BY DEF IsOrder, IsOrderOf
<1>2. /\ less \in Seq(Stage) /\ Len(less) = n - 1
      /\ \A i \in 1..n - 1 : less[i] = IF i < here THEN o[i] ELSE o[i + 1]
  BY Removed
<1>3. o[here] \in Stage /\ DOMAIN o = 1..n
  OBVIOUS
<1> HIDE DEF less, n
<1>4. /\ more \in Seq(Stage) /\ Len(more) = n
      /\ \A i \in 1..n : more[i] = IF i < there THEN less[i] ELSE IF i = there THEN o[here] ELSE less[i - 1]
  <2>1. there \in 1..Len(less) + 1 /\ Len(less) + 1 = n
    BY <1>1, <1>2
  <2>2. /\ more \in Seq(Stage) /\ Len(more) = Len(less) + 1
        /\ \A i \in 1..Len(less) + 1 :
             more[i] = IF i < there THEN less[i] ELSE IF i = there THEN o[here] ELSE less[i - 1]
    <3> DEFINE x == o[here]
    <3>1. less \in Seq(Stage) /\ x \in Stage /\ there \in 1..Len(less) + 1
      BY <1>2, <1>3, <2>1
    <3> HIDE DEF x
    <3>2. PutIn(Stage, less, there, x, InsertAt(less, there, x))
      BY <3>1, Put
    <3>3. more = InsertAt(less, there, x)
      BY DEF x
    <3>4. x = o[here]
      BY DEF x
    <3> HIDE DEF more
    <3>5. /\ more \in Seq(Stage) /\ Len(more) = Len(less) + 1
          /\ \A i \in 1..Len(less) + 1 :
               more[i] = IF i < there THEN less[i] ELSE IF i = there THEN x ELSE less[i - 1]
      BY <3>2, <3>3 DEF PutIn
    <3> QED  BY <3>4, <3>5
  <2> QED  BY <2>1, <2>2
<1>5. Moved(o, here, there) = more
  BY DEF Moved, less
<1> HIDE DEF more
<1>6. ASSUME NEW j \in 1..n
      PROVE  \E i \in 1..n : more[i] = o[j]
  <2>1. CASE j = here
    BY <1>1, <1>4, <2>1
  <2>2. CASE j # here
    <3>1. PICK k \in 1..n - 1 : less[k] = o[j]
      <4>1. CASE j < here
        <5>1. j \in 1..n - 1
          BY <1>1, <4>1
        <5> QED  BY <1>2, <4>1, <5>1
      <4>2. CASE j > here
        <5>1. j - 1 \in 1..n - 1 /\ (j - 1) + 1 = j /\ ~(j - 1 < here)
          BY <1>1, <4>2
        <5> QED  BY <1>2, <5>1
      <4> QED  BY <1>1, <2>2, <4>1, <4>2
    <3>2. CASE k < there
      <4>1. k \in 1..n
        BY <1>1
      <4> QED  BY <1>4, <3>1, <3>2, <4>1
    <3>3. CASE k >= there
      <4>1. k + 1 \in 1..n /\ ~(k + 1 < there) /\ k + 1 # there /\ (k + 1) - 1 = k
        BY <1>1, <3>3
      <4> QED  BY <1>4, <3>1, <4>1
    <3> QED  BY <1>1, <3>2, <3>3
  <2> QED  BY <2>1, <2>2
<1>7. DOMAIN more = 1..n /\ \A i \in 1..n : more[i] \in Stage
  BY <1>4
<1>8. ToSet(more) = Stage
  <2>1. \A s \in Stage : \E j \in 1..n : o[j] = s
    BY <1>1, <1>3 DEF ToSet
  <2>2. \A s \in Stage : \E i \in 1..n : more[i] = s
    BY <1>6, <2>1
  <2>3. \A i \in DOMAIN more : more[i] \in Stage
    BY <1>7
  <2> QED  BY <1>7, <2>2, <2>3, Zenon DEF ToSet
<1> QED  BY <1>1, <1>4, <1>5, <1>8 DEF IsOrder, IsOrderOf

\* A stage put in beside another one that is there.
LEMMA BesideAdds ==
  ASSUME NEW W, NEW o \in Seq(W), NEW stage \in W, NEW anchor, anchor \in ToSet(o),
         NEW after \in 0..1
  PROVE  /\ Beside(o, stage, anchor, after) \in Seq(W)
         /\ Len(Beside(o, stage, anchor, after)) = Len(o) + 1
         /\ ToSet(Beside(o, stage, anchor, after)) = ToSet(o) \cup {stage}
<1> DEFINE at == Place(o, anchor) + after
           n == Len(o)
           more == InsertAt(o, at, stage)
<1>1. Place(o, anchor) \in 1..n
  BY DEF Place, ToSet
<1>2. at \in 1..n + 1 /\ n \in Nat
  BY <1>1
<1> HIDE DEF at
<1>3. /\ more \in Seq(W) /\ Len(more) = n + 1
      /\ \A i \in 1..n + 1 : more[i] = IF i < at THEN o[i] ELSE IF i = at THEN stage ELSE o[i - 1]
  <2>1. PutIn(W, o, at, stage, more)
    BY <1>2, Put
  <2> QED  BY <2>1 DEF PutIn
<1>4. Beside(o, stage, anchor, after) = more
  BY DEF Beside, at
<1> HIDE DEF more
<1>5. ToSet(more) \subseteq ToSet(o) \cup {stage}
  <2> SUFFICES ASSUME NEW i \in 1..n + 1
               PROVE  more[i] \in ToSet(o) \cup {stage}
    BY <1>3 DEF ToSet
  <2>1. CASE i < at
    BY <1>2, <1>3, <2>1 DEF ToSet
  <2>2. CASE i = at
    BY <1>3, <2>2
  <2>3. CASE i > at
    <3>1. i - 1 \in 1..n /\ more[i] = o[i - 1]
      BY <1>2, <1>3, <2>3
    <3> QED  BY <3>1 DEF ToSet
  <2> QED  BY <1>2, <2>1, <2>2, <2>3
<1>6. ToSet(o) \cup {stage} \subseteq ToSet(more)
  <2>1. stage \in ToSet(more)
    BY <1>2, <1>3 DEF ToSet
  <2>2. ASSUME NEW i \in 1..n
        PROVE  o[i] \in ToSet(more)
    <3>1. CASE i < at
      <4>1. i \in 1..n + 1 /\ more[i] = o[i]
        BY <1>2, <1>3, <3>1
      <4>2. DOMAIN more = 1..n + 1
        BY <1>3
      <4>3. \E j \in DOMAIN more : more[j] = o[i]
        BY <4>1, <4>2
      <4> QED  BY <4>3, Zenon DEF ToSet
    <3>2. CASE ~(i < at)
      <4>1. i + 1 \in 1..n + 1 /\ more[i + 1] = o[i]
        BY <1>2, <1>3, <3>2
      <4>2. DOMAIN more = 1..n + 1
        BY <1>3
      <4>3. \E j \in DOMAIN more : more[j] = o[i]
        BY <4>1, <4>2
      <4> QED  BY <4>3, Zenon DEF ToSet
    <3> QED  BY <3>1, <3>2
  <2> QED  BY <2>1, <2>2 DEF ToSet
<1> QED  BY <1>3, <1>4, <1>5, <1>6

Distinct(o) == \A i, j \in DOMAIN o : o[i] = o[j] => i = j

LEMMA OrdersAreDistinct ==
  ASSUME NEW T, NEW o \in Seq(T), IsFiniteSet(T), IsOrderOf(T, o)
  PROVE  Distinct(o)
<1>1. /\ o \in [1..Len(o) -> T] /\ Len(o) = Cardinality(T) /\ DOMAIN o = 1..Len(o)
      /\ Len(o) \in Nat
  BY DEF IsOrderOf
<1>2. o \in Surjection(1..Len(o), T)
  BY <1>1 DEF IsOrderOf, ToSet, Surjection
<1>3. IsFiniteSet(1..Len(o)) /\ Cardinality(1..Len(o)) = Len(o)
  BY <1>1, FS_Interval
<1>4. o \in Injection(1..Len(o), T)
  BY <1>1, <1>2, <1>3, FS_SurjSameCardinalityImpliesInj
<1> QED  BY <1>1, <1>4 DEF Injection, IsInjective, Distinct

LEMMA PlaceIs ==
  ASSUME NEW T, NEW o \in Seq(T), Distinct(o), NEW i \in 1..Len(o)
  PROVE  Place(o, o[i]) = i
BY DEF Place, Distinct

LEMMA PlaceOf ==
  ASSUME NEW T, NEW o \in Seq(T), NEW s \in ToSet(o)
  PROVE  Place(o, s) \in 1..Len(o) /\ o[Place(o, s)] = s
BY DEF Place, ToSet

\* A stage put in moves the ones behind it by one place.
LEMMA BesideMoves ==
  ASSUME NEW T, NEW o \in Seq(T), Distinct(o), NEW stage \in T, stage \notin ToSet(o),
         NEW anchor \in ToSet(o), NEW after \in 0..1
  PROVE  LET at == Place(o, anchor) + after
             more == Beside(o, stage, anchor, after) IN
         /\ Distinct(more) /\ Place(more, stage) = at
         /\ \A x \in ToSet(o) :
              Place(more, x) = IF Place(o, x) < at THEN Place(o, x) ELSE Place(o, x) + 1
<1> DEFINE at == Place(o, anchor) + after
           n == Len(o)
           more == Beside(o, stage, anchor, after)
<1>1. at \in 1..n + 1 /\ n \in Nat /\ DOMAIN o = 1..n
  BY PlaceOf
<1> HIDE DEF at
<1>2. /\ InsertAt(o, at, stage) \in Seq(T) /\ Len(InsertAt(o, at, stage)) = n + 1
      /\ \A i \in 1..n + 1 :
           InsertAt(o, at, stage)[i] = IF i < at THEN o[i] ELSE IF i = at THEN stage ELSE o[i - 1]
  <2>1. PutIn(T, o, at, stage, InsertAt(o, at, stage))
    BY <1>1, Put
  <2> QED  BY <2>1 DEF PutIn
<1>3. more = InsertAt(o, at, stage)
  BY DEF Beside, at
<1> HIDE DEF more
<1>4. /\ more \in Seq(T) /\ Len(more) = n + 1 /\ DOMAIN more = 1..n + 1
      /\ \A i \in 1..n + 1 : more[i] = IF i < at THEN o[i] ELSE IF i = at THEN stage ELSE o[i - 1]
  BY <1>2, <1>3
<1>5. \A i \in 1..n : o[i] # stage
  BY DEF ToSet
<1>6. Distinct(more)
  <2> SUFFICES ASSUME NEW i \in 1..n + 1, NEW j \in 1..n + 1, more[i] = more[j]
               PROVE  i = j
    BY <1>4 DEF Distinct
  <2>1. CASE i < at /\ j < at
    BY <1>1, <1>4, <2>1 DEF Distinct
  <2>2. CASE i > at /\ j > at
    <3>1. o[i - 1] = o[j - 1] /\ i - 1 \in 1..n /\ j - 1 \in 1..n
      BY <1>1, <1>4, <2>2
    <3>2. i - 1 = j - 1
      BY <1>1, <3>1, Zenon DEF Distinct
    <3> QED  BY <3>2
  <2>3. CASE i < at /\ j > at
    <3>1. o[i] = o[j - 1] /\ i \in 1..n /\ j - 1 \in 1..n
      BY <1>1, <1>4, <2>3
    <3>2. i = j - 1
      BY <1>1, <3>1, Zenon DEF Distinct
    <3> QED  BY <1>1, <2>3, <3>2
  <2>4. CASE j < at /\ i > at
    <3>1. o[j] = o[i - 1] /\ j \in 1..n /\ i - 1 \in 1..n
      BY <1>1, <1>4, <2>4
    <3>2. j = i - 1
      BY <1>1, <3>1, Zenon DEF Distinct
    <3> QED  BY <1>1, <2>4, <3>2
  <2>5. CASE i = at \/ j = at
    <3>1. \A k \in 1..n + 1 : k # at => \E m \in 1..n : more[k] = o[m]
      BY <1>1, <1>4
    <3>2. more[at] = stage
      BY <1>1, <1>4
    <3> QED  BY <1>1, <1>5, <2>5, <3>1, <3>2
  <2> QED  BY <1>1, <2>1, <2>2, <2>3, <2>4, <2>5
<1>7. \A i \in 1..n + 1 : Place(more, more[i]) = i
  BY <1>4, <1>6, PlaceIs
<1>8. Place(more, stage) = at
  <2>1. more[at] = stage
    BY <1>1, <1>4
  <2> QED  BY <1>1, <1>7, <2>1
<1>9. ASSUME NEW x \in ToSet(o)
      PROVE  Place(more, x) = IF Place(o, x) < at THEN Place(o, x) ELSE Place(o, x) + 1
  <2> DEFINE k == Place(o, x)
             to == IF k < at THEN k ELSE k + 1
  <2>1. k \in 1..n /\ o[k] = x
    BY PlaceOf
  <2> HIDE DEF k
  <2>2. to \in 1..n + 1 /\ more[to] = x
    BY <1>1, <1>4, <2>1
  <2>3. Place(more, x) = to
    BY <1>7, <2>2
  <2> QED  BY <2>3 DEF k
<1> QED  BY <1>6, <1>8, <1>9 DEF at, more

\* The leveller at the head.
LEMMA HeadMoves ==
  ASSUME NEW T, NEW o \in Seq(T), Distinct(o), NEW stage \in T, stage \notin ToSet(o)
  PROVE  LET more == <<stage>> \o o IN
         /\ more \in Seq(T) /\ Len(more) = Len(o) + 1 /\ ToSet(more) = ToSet(o) \cup {stage}
         /\ Distinct(more) /\ Place(more, stage) = 1
         /\ \A x \in ToSet(o) : Place(more, x) = Place(o, x) + 1
<1> DEFINE n == Len(o)
           more == <<stage>> \o o
<1>1. /\ n \in Nat /\ DOMAIN o = 1..n /\ more \in Seq(T) /\ Len(more) = n + 1 /\ DOMAIN more = 1..n + 1
      /\ \A i \in 1..n + 1 : more[i] = IF i = 1 THEN stage ELSE o[i - 1]
  OBVIOUS
<1> HIDE DEF more
<1>2. \A i \in 1..n : o[i] # stage
  BY DEF ToSet
<1>3. \A i \in 1..n : more[i + 1] = o[i]
  BY <1>1
<1>4. ToSet(more) = ToSet(o) \cup {stage}
  <2>1. ToSet(more) \subseteq ToSet(o) \cup {stage}
    <3> SUFFICES ASSUME NEW i \in 1..n + 1
                 PROVE  more[i] \in ToSet(o) \cup {stage}
      BY <1>1 DEF ToSet
    <3>1. i # 1 => i - 1 \in 1..n
      BY <1>1
    <3> QED  BY <1>1, <3>1 DEF ToSet
  <2>2. \A i \in 1..n : o[i] \in ToSet(more)
    BY <1>1, <1>3 DEF ToSet
  <2>3. stage \in ToSet(more)
    BY <1>1 DEF ToSet
  <2> QED  BY <1>1, <2>1, <2>2, <2>3 DEF ToSet
<1>5. Distinct(more)
  <2> SUFFICES ASSUME NEW i \in 1..n + 1, NEW j \in 1..n + 1, more[i] = more[j]
               PROVE  i = j
    BY <1>1 DEF Distinct
  <2>1. CASE i = 1 \/ j = 1
    <3>1. \A k \in 1..n + 1 : k # 1 => k - 1 \in 1..n /\ more[k] = o[k - 1]
      BY <1>1
    <3>2. more[1] = stage
      BY <1>1
    <3> QED  BY <1>2, <2>1, <3>1, <3>2
  <2>2. CASE i # 1 /\ j # 1
    <3>1. o[i - 1] = o[j - 1] /\ i - 1 \in 1..n /\ j - 1 \in 1..n
      BY <1>1, <2>2
    <3>2. i - 1 = j - 1
      BY <1>1, <3>1, Zenon DEF Distinct
    <3> QED  BY <3>2
  <2> QED  BY <2>1, <2>2
<1>6. \A i \in 1..n + 1 : Place(more, more[i]) = i
  BY <1>1, <1>5, PlaceIs
<1>7. Place(more, stage) = 1
  BY <1>1, <1>6
<1>8. ASSUME NEW x \in ToSet(o)
      PROVE  Place(more, x) = Place(o, x) + 1
  <2> DEFINE k == Place(o, x)
  <2>1. k \in 1..n /\ o[k] = x
    BY PlaceOf
  <2> HIDE DEF k
  <2>2. k + 1 \in 1..n + 1 /\ more[k + 1] = x
    BY <1>1, <1>3, <2>1
  <2>3. Place(more, x) = k + 1
    BY <1>6, <2>2
  <2> QED  BY <2>3 DEF k
<1> QED  BY <1>1, <1>4, <1>5, <1>7, <1>8 DEF more


\* Version 6's stages on top of those version 5 knows are all there are.
LEMMA Sixteen ==
  /\ Known(5) = Stage \ {"transient", "clipper", "autoGain", "nightMode"}
  /\ {"transient", "clipper", "autoGain", "nightMode", "comp", "multiband", "limiter"} \subseteq Stage
  /\ Cardinality(Stage) = Cardinality(Known(5)) + 4
<1>1. Known(5) = Stage \ {"transient", "clipper", "autoGain", "nightMode"}
  BY SMT DEF Known, Added, Since6
<1>2. {"transient", "clipper", "autoGain", "nightMode", "comp", "multiband", "limiter"} \subseteq Stage
  BY SMT DEF DefaultOrder, Stage, ToSet
<1>3. IsFiniteSet(Stage)
  BY StagesCounted
<1> DEFINE a == Stage \ {"transient"}
           b == a \ {"clipper"}
           c == b \ {"autoGain"}
           d == c \ {"nightMode"}
<1>4. IsFiniteSet(a) /\ Cardinality(a) = Cardinality(Stage) - 1
  BY <1>2, <1>3, FS_RemoveElement
<1>5. IsFiniteSet(b) /\ Cardinality(b) = Cardinality(a) - 1
  <2>1. "clipper" \in a
    BY <1>2
  <2> HIDE DEF a
  <2> QED  BY <2>1, <1>4, FS_RemoveElement
<1>6. IsFiniteSet(c) /\ Cardinality(c) = Cardinality(b) - 1
  <2>1. "autoGain" \in b
    BY <1>2
  <2> HIDE DEF b
  <2> QED  BY <2>1, <1>5, FS_RemoveElement
<1>7. Cardinality(d) = Cardinality(c) - 1
  <2>1. "nightMode" \in c
    BY <1>2
  <2> HIDE DEF c
  <2> QED  BY <2>1, <1>6, FS_RemoveElement
<1>8. d = Known(5)
  BY <1>1
<1> HIDE DEF a, b, c, d
<1>9. /\ Cardinality(Stage) \in Nat /\ Cardinality(a) \in Nat /\ Cardinality(b) \in Nat
      /\ Cardinality(c) \in Nat
  BY <1>3, <1>4, <1>5, <1>6, FS_CardinalityType
<1>10. Cardinality(Stage) = Cardinality(d) + 4
  BY <1>4, <1>5, <1>6, <1>7, <1>9
<1> QED  BY <1>1, <1>2, <1>8, <1>10

\* An order of version 5 is brought forward to a whole one.
LEMMA UpgradedIsOrder ==
  ASSUME NEW o \in Seq(Known(5)), IsOrderOf(Known(5), o)
  PROVE  Upgraded(o) \in Seq(Stage) /\ IsOrder(Upgraded(o))
<1> DEFINE a == <<"autoGain">> \o o
           b == Beside(a, "transient", "comp", 0)
           c == Beside(b, "nightMode", "multiband", 1)
           d == Beside(c, "clipper", "limiter", 0)
           old == Known(5)
<1>1. /\ old = Stage \ {"transient", "clipper", "autoGain", "nightMode"}
      /\ {"transient", "clipper", "autoGain", "nightMode", "comp", "multiband", "limiter"} \subseteq Stage
      /\ Cardinality(Stage) = Cardinality(old) + 4
  BY Sixteen
<1>2. o \in Seq(old) /\ Len(o) \in Nat /\ Len(o) = Cardinality(old) /\ ToSet(o) = old
  BY DEF IsOrderOf
<1>3. {"comp", "multiband", "limiter"} \subseteq old
  BY <1>1
<1>0. Distinct(o)
  <2>1. IsFiniteSet(Known(5))
    BY <1>1, StagesCounted, FS_Subset
  <2> QED  BY <2>1, OrdersAreDistinct
<1> HIDE DEF old
<1>4. o \in Seq(Stage)
  <2>1. old \subseteq Stage
    BY <1>1
  <2> QED  BY <1>2, <2>1
<1>5. /\ a \in Seq(Stage) /\ Len(a) = Len(o) + 1 /\ ToSet(a) = ToSet(o) \cup {"autoGain"}
  <2>1. o \in Seq(Stage) /\ "autoGain" \in Stage /\ "autoGain" \notin ToSet(o)
    BY <1>1, <1>2, <1>4
  <2> QED  BY <1>0, <2>1, HeadMoves
<1>6. ToSet(a) = old \cup {"autoGain"}
  BY <1>2, <1>5
<1> HIDE DEF a
<1>7. /\ b \in Seq(Stage) /\ Len(b) = Len(a) + 1
      /\ ToSet(b) = old \cup {"autoGain", "transient"}
  <2>1. "comp" \in ToSet(a) /\ "transient" \in Stage /\ 0 \in 0..1
    BY <1>1, <1>3, <1>6
  <2>2. b \in Seq(Stage) /\ Len(b) = Len(a) + 1 /\ ToSet(b) = ToSet(a) \cup {"transient"}
    <3>1. a \in Seq(Stage) /\ "comp" \in ToSet(a) /\ "transient" \in Stage
      BY <1>5, <2>1
    <3> QED  BY <3>1, <2>1, BesideAdds
  <2> QED  BY <2>2, <1>6
<1> HIDE DEF b
<1>8. /\ c \in Seq(Stage) /\ Len(c) = Len(b) + 1
      /\ ToSet(c) = old \cup {"autoGain", "transient", "nightMode"}
  <2>1. "multiband" \in ToSet(b) /\ "nightMode" \in Stage /\ 1 \in 0..1
    BY <1>1, <1>3, <1>7
  <2>2. c \in Seq(Stage) /\ Len(c) = Len(b) + 1 /\ ToSet(c) = ToSet(b) \cup {"nightMode"}
    <3>1. b \in Seq(Stage) /\ "multiband" \in ToSet(b) /\ "nightMode" \in Stage
      BY <1>7, <2>1
    <3> QED  BY <3>1, <2>1, BesideAdds
  <2> QED  BY <2>2, <1>7
<1> HIDE DEF c
<1>9. /\ d \in Seq(Stage) /\ Len(d) = Len(c) + 1
      /\ ToSet(d) = old \cup {"autoGain", "transient", "nightMode", "clipper"}
  <2>1. "limiter" \in ToSet(c) /\ "clipper" \in Stage /\ 0 \in 0..1
    BY <1>1, <1>3, <1>8
  <2>2. d \in Seq(Stage) /\ Len(d) = Len(c) + 1 /\ ToSet(d) = ToSet(c) \cup {"clipper"}
    <3>1. c \in Seq(Stage) /\ "limiter" \in ToSet(c) /\ "clipper" \in Stage
      BY <1>8, <2>1
    <3> QED  BY <3>1, <2>1, BesideAdds
  <2> QED  BY <2>2, <1>8
<1>10. Upgraded(o) = d
  BY DEF Upgraded, a, b, c
<1> HIDE DEF d
<1>11. Len(d) = Cardinality(Stage)
  BY <1>1, <1>2, <1>5, <1>7, <1>8, <1>9
<1>12. ToSet(d) = Stage
  BY <1>1, <1>9
<1> QED  BY <1>9, <1>10, <1>11, <1>12 DEF IsOrder, IsOrderOf

----------------------------------------------------------------------------
(* The pages and params.bin.                                                *)

\* What the models can hold.
ShownTypes ==
  /\ setting \in Numbers /\ 0 <= setting["delay"]
  /\ on \in [Stage -> BOOLEAN]
  /\ order \in Seq(Stage) /\ IsOrder(order)
  /\ curve \in BOOLEAN /\ impulse \in BOOLEAN /\ volume \in Int

\* What this version leaves in params.bin.
Published(f) ==
  /\ f.version = Current
  /\ Settled(f.value)
  /\ f.on \in [Stage -> BOOLEAN] /\ Bits(f.value, f.on, f.impulse) = f.on
  /\ f.order \in Seq(Stage) /\ IsOrder(f.order)
  /\ f.curve \in BOOLEAN /\ f.impulse \in BOOLEAN

OnDisk == params = NoFile \/ params \in OldFiles \/ Published(params)

\* With nothing left to write, the file says what the pages show.
InStep ==
  up /\ ~timer =>
    /\ params.value = Sanitised(setting)
    /\ params.on = Bits(setting, on, impulse)
    /\ params.order = order

\* A full preset is what the pages showed when it was saved, as sanitise() left it.
PresetHolds ==
  preset # NoFullPreset =>
    /\ kept.setting \in Numbers /\ 0 <= kept.setting["delay"]
    /\ kept.on \in [Stage -> BOOLEAN]
    /\ preset.value = Sanitised(kept.setting) /\ preset.impulse \in BOOLEAN
    /\ preset.on = [Bits(kept.setting, kept.on, preset.impulse)
                      EXCEPT !["graphic"] = FALSE, !["equalizer"] = kept.on["equalizer"]]

ControlInv ==
  /\ ShownTypes /\ OnDisk /\ InStep /\ PresetHolds
  /\ up \in BOOLEAN /\ timer \in BOOLEAN /\ session \in BOOLEAN
  /\ page.settings \subseteq Setting

LEMMA BitsType ==
  ASSUME NEW set, NEW switches \in [Stage -> BOOLEAN], NEW has
  PROVE  /\ Bits(set, switches, has) \in [Stage -> BOOLEAN]
         /\ \A s \in Stage : Bits(set, switches, has)[s] <=> switches[s] /\ HasWork(s, set, has)
BY DEF Bits

\* Whatever is switched on and works still does with the sanitised numbers.
LEMMA BitsOfSanitised ==
  ASSUME NEW set \in Numbers, NEW switches \in [Stage -> BOOLEAN], NEW has
  PROVE  Bits(Sanitised(set), Bits(set, switches, has), has) = Bits(set, switches, has)
<1> DEFINE made == Sanitised(set)
           bits == Bits(set, switches, has)
<1>1. /\ "matrix" \in Setting /\ "delay" \in Setting
      /\ All["matrix"].wlo = -1 /\ All["matrix"].whi = 4
      /\ All["delay"].wlo = 0 /\ All["delay"].whi = 10000
  BY NamedRows, SMT DEF Outputs, S
<1>2. set["matrix"] \in Int /\ set["delay"] \in Int
  BY <1>1 DEF Numbers
<1>3. made["matrix"] = Within(set["matrix"], -1, 4) /\ made["delay"] = Within(set["delay"], 0, 10000)
  BY <1>1, SanitisedIs DEF SanF
<1>4. set["matrix"] # 0 => made["matrix"] # 0
  BY <1>2, <1>3 DEF Within
<1>5. set["delay"] > 0 => made["delay"] > 0
  BY <1>2, <1>3 DEF Within
<1>6. \A s \in Stage : HasWork(s, set, has) => HasWork(s, made, has)
  BY <1>4, <1>5 DEF HasWork
<1>7. /\ bits \in [Stage -> BOOLEAN]
      /\ \A s \in Stage : bits[s] => HasWork(s, made, has)
  BY <1>6, BitsType
<1> HIDE DEF made, bits
<1>8. /\ Bits(made, bits, has) \in [Stage -> BOOLEAN]
      /\ \A s \in Stage : Bits(made, bits, has)[s] <=> bits[s] /\ HasWork(s, made, has)
  BY <1>7, BitsType
<1>9. \A s \in Stage : Bits(made, bits, has)[s] = bits[s]
  BY <1>7, <1>8
<1> QED  BY <1>7, <1>8, <1>9 DEF made, bits

\* What is written is what the pages show.
LEMMA PublishingSettles ==
  ASSUME ShownTypes', Publishing
  PROVE  OnDisk' /\ InStep'
<1>1. /\ params'.version = Current /\ params'.value = Sanitised(setting')
      /\ params'.on = Bits(setting', on', impulse') /\ params'.order = order'
      /\ params'.curve = curve' /\ params'.impulse = impulse'
  BY DEF Publishing, Block
<1>2. /\ setting' \in Numbers /\ on' \in [Stage -> BOOLEAN] /\ impulse' \in BOOLEAN
      /\ curve' \in BOOLEAN /\ order' \in Seq(Stage) /\ IsOrder(order')
  BY DEF ShownTypes, IsOrder, IsOrderOf
<1>3. Settled(params'.value)
  BY <1>1, <1>2, SanitisedSettles
<1>4. params'.on \in [Stage -> BOOLEAN]
  <2>1. Bits(setting', on', impulse') \in [Stage -> BOOLEAN]
    BY <1>2, BitsType, Zenon
  <2> QED  BY <1>1, <2>1
<1>5. Bits(params'.value, params'.on, params'.impulse) = params'.on
  BY <1>1, <1>2, BitsOfSanitised
<1>6. Published(params')
  BY <1>1, <1>2, <1>3, <1>4, <1>5 DEF Published
<1> QED  BY <1>1, <1>6 DEF OnDisk, InStep, Published

LEMMA RestoredIs ==
  ASSUME NEW value \in Numbers
  PROVE  /\ Restored(value) \in Numbers
         /\ \A s \in Setting : value[s] > 0 /\ value["limiterRelease"] > 0 => Restored(value)[s] = value[s]
         /\ \A s \in Setting : s \notin Amounts /\ value["limiterRelease"] > 0 => Restored(value)[s] = value[s]
         /\ \A s \in Amounts : value[s] <= 0 => Restored(value)[s] = 100
         /\ 0 <= value["delay"] => 0 <= Restored(value)["delay"]
<1>1. \A s \in Setting : value[s] \in Int /\ Plain[s] \in Int
  BY TableIsSound DEF Numbers, Plain, Sound
<1>2. "limiterRelease" \in Setting /\ Amounts \subseteq Setting /\ "delay" \in Setting /\ "delay" \notin Amounts
  BY NamedRows DEF Amounts
<1>3. Plain["delay"] = 0
  BY NamedRows, SMT DEF Plain, Outputs, S
<1>4. Restored(value) \in Numbers
  BY <1>1 DEF Restored, Numbers
<1>5. \A s \in Setting : value[s] > 0 /\ value["limiterRelease"] > 0 => Restored(value)[s] = value[s]
  BY <1>1, <1>2 DEF Restored
<1>6. \A s \in Setting : s \notin Amounts /\ value["limiterRelease"] > 0 => Restored(value)[s] = value[s]
  BY <1>1, <1>2 DEF Restored, Amounts
<1>7. \A s \in Amounts : value[s] <= 0 => Restored(value)[s] = 100
  BY <1>2 DEF Restored, Amounts
<1>8. 0 <= value["delay"] => 0 <= Restored(value)["delay"]
  BY <1>1, <1>2, <1>3 DEF Restored, Amounts
<1> QED  BY <1>4, <1>5, <1>6, <1>7, <1>8

LEMMA SettledFacts ==
  ASSUME NEW value, Settled(value)
  PROVE  value \in Numbers /\ 0 <= value["delay"] /\ value["limiterRelease"] > 0
<1>1. /\ "delay" \in Setting /\ "limiterRelease" \in Setting
      /\ All["delay"].wlo = 0 /\ All["limiterRelease"].wlo = 100
  BY NamedRows, SMT DEF Outputs, S
<1>2. value \in Numbers /\ Passes(value, "delay") /\ Passes(value, "limiterRelease")
  BY <1>1 DEF Settled
<1>3. value["limiterRelease"] \in Int
  BY <1>1, <1>2 DEF Numbers
<1> QED  BY <1>1, <1>2, <1>3 DEF Passes

LEMMA NothingIsNumbers == Nothing \in Numbers /\ Plain \in Numbers /\ Start \in Numbers
BY TableIsSound DEF Nothing, Plain, Start, Numbers, Sound

\* What load() makes of a file, and what the models show of it.
LEMMA LoadedSettles ==
  ASSUME NEW f, f \in OldFiles \/ Published(f)
  PROVE  /\ Settled(Loaded(f))
         /\ LoadedOrder(f) \in Seq(Stage) /\ IsOrder(LoadedOrder(f))
         /\ \A switch \in BOOLEAN : session = switch => Switches(f) \in [Stage -> BOOLEAN]
         /\ f.curve \in BOOLEAN /\ f.impulse \in BOOLEAN
<1>1. /\ f.value \in Numbers /\ f.on \in [Stage -> BOOLEAN] /\ f.curve \in BOOLEAN
      /\ f.impulse \in BOOLEAN /\ f.version \in 2..7
      /\ f.version = 5 => f.order \in Seq(Known(5)) /\ IsOrderOf(Known(5), f.order)
      /\ f.version >= 6 => f.order \in Seq(Stage) /\ IsOrder(f.order)
  <2>1. CASE f \in OldFiles
    BY <2>1, OldFilesAssumption DEF Numbers
  <2>2. CASE Published(f)
    BY <2>2 DEF Published, Settled, Current
  <2> QED  BY <2>1, <2>2
<1> DEFINE read == [s \in Setting |->
                      IF s \in Newer(f.version) THEN Plain[s]
                      ELSE IF All[s].stage \in {"matrix", "delay", "loudness"} /\ f.version < 4 THEN 0
                      ELSE IF s = "graphicAmount" /\ f.version < 5 THEN 100
                      ELSE f.value[s]]
<1>2. read \in Numbers
  BY <1>1, NothingIsNumbers DEF Numbers
<1>3. Loaded(f) = Sanitised(read)
  BY DEF Loaded
<1> HIDE DEF read
<1>4. Settled(Loaded(f))
  BY <1>2, <1>3, SanitisedSettles
<1>5. LoadedOrder(f) \in Seq(Stage) /\ IsOrder(LoadedOrder(f))
  <2>1. CASE f.version >= 6
    BY <1>1, <2>1 DEF LoadedOrder
  <2>2. CASE f.version = 5
    BY <1>1, <2>2, UpgradedIsOrder DEF LoadedOrder
  <2>3. CASE f.version < 5
    BY <1>1, <2>3, DefaultIsOrder DEF LoadedOrder
  <2> QED  BY <1>1, <2>1, <2>2, <2>3
<1>6. \A switch \in BOOLEAN : session = switch => Switches(f) \in [Stage -> BOOLEAN]
  BY <1>1 DEF Switches, LoadedBits
<1> QED  BY <1>1, <1>4, <1>5, <1>6

LEMMA ControlsStart == ControlsInit => ControlInv
<1> SUFFICES ASSUME ControlsInit
             PROVE  ControlInv
  OBVIOUS
<1>1. setting \in Numbers /\ setting["delay"] = 0
  <2>1. setting["delay"] = 0
    BY NamedRows, SMT DEF ControlsInit, Start, Outputs, S
  <2> QED  BY <2>1, NothingIsNumbers DEF ControlsInit
<1>2. order \in Seq(Stage) /\ IsOrder(order)
  BY DefaultIsOrder DEF ControlsInit
<1>3. on \in [Stage -> BOOLEAN]
  BY DEF ControlsInit
<1>4. curve \in BOOLEAN /\ impulse \in BOOLEAN /\ volume \in Int
  <2>1. curve = FALSE /\ impulse = FALSE /\ volume = 100
    BY Zenon DEF ControlsInit, Unknown
  <2>2. curve \in BOOLEAN /\ impulse \in BOOLEAN
    BY <2>1, Zenon
  <2>3. volume \in Int
    BY <2>1, SMT
  <2> QED  BY <2>2, <2>3, Zenon
<1>5. ShownTypes
  BY <1>1, <1>2, <1>3, <1>4 DEF ShownTypes
<1> QED  BY <1>5, PageAssumption DEF ControlsInit, ControlInv, OnDisk, InStep, PresetHolds

LEMMA ControlsFrame ==
  ASSUME ControlInv, UNCHANGED controlVars
  PROVE  ControlInv'
BY DEF ControlInv, ShownTypes, OnDisk, InStep, PresetHolds, controlVars, settings, disk, IsOrder, IsOrderOf

\* An edit that is left to the timer.
LEMMA ScheduledKeeps ==
  ASSUME ControlInv, ShownTypes', Scheduled, UNCHANGED <<up, page>>
  PROVE  ControlInv'
BY DEF ControlInv, OnDisk, InStep, PresetHolds, Scheduled, disk

\* One that is written at once.
LEMMA PublishingKeeps ==
  ASSUME ControlInv, ShownTypes', Publishing, up' \in BOOLEAN, timer' \in BOOLEAN,
         session' \in BOOLEAN, UNCHANGED <<preset, kept, page>>
  PROVE  ControlInv'
BY PublishingSettles DEF ControlInv, PresetHolds

\* A setter leaves a number, and an alignment that is no less than nothing.
LEMMA SetToKeeps ==
  ASSUME ControlInv, NEW s \in Setting, NEW v \in Int, SetTo(s, v)
  PROVE  ControlInv'
<1>1. Clamped(s, v) \in Int
  BY TableIsSound, SMT DEF Clamped, Within, Sound
<1>2. s = "delay" => 0 <= Clamped(s, v)
  <2>1. All["delay"].lo = 0 /\ All["delay"].hi = 10000
    BY NamedRows, SMT DEF Outputs, S
  <2> QED  BY <2>1 DEF Clamped, Within
<1>3. setting' = [setting EXCEPT ![s] = Clamped(s, v)]
  BY DEF SetTo
<1>4. setting' \in Numbers /\ 0 <= setting'["delay"]
  BY <1>1, <1>2, <1>3, NamedRows DEF ControlInv, ShownTypes, Numbers
<1>5. ShownTypes'
  BY <1>4 DEF SetTo, ControlInv, ShownTypes, IsOrder, IsOrderOf
<1> QED  BY <1>5, ScheduledKeeps DEF SetTo, Edit

LEMMA SetStageEnabledKeeps ==
  ASSUME ControlInv, NEW s \in Stage, SetStageEnabled(s)
  PROVE  ControlInv'
<1>1. on' \in [Stage -> BOOLEAN]
  BY DEF SetStageEnabled, ControlInv, ShownTypes
<1>2. setting' \in Numbers /\ 0 <= setting'["delay"]
  BY NamedRows DEF SetStageEnabled, Pinned, ControlInv, ShownTypes, Numbers
<1>3. ShownTypes'
  BY <1>1, <1>2 DEF SetStageEnabled, ControlInv, ShownTypes, IsOrder, IsOrderOf
<1> QED  BY <1>3, ScheduledKeeps DEF SetStageEnabled, Edit

LEMMA PollVolumeKeeps ==
  ASSUME ControlInv, NEW v \in Int, PollVolume(v)
  PROVE  ControlInv'
<1>1. ShownTypes'
  BY DEF PollVolume, ControlInv, ShownTypes, IsOrder, IsOrderOf
<1> QED  BY <1>1, ScheduledKeeps DEF PollVolume, Edit

LEMMA GraphicKeeps ==
  ASSUME ControlInv, ImportGraphicEq \/ ClearGraphicEq
  PROVE  ControlInv'
<1>1. on' \in [Stage -> BOOLEAN]
  BY DEF ImportGraphicEq, ClearGraphicEq, ControlInv, ShownTypes
<1>2. setting' \in Numbers /\ 0 <= setting'["delay"]
  <2>1. "graphicAmount" \in Setting /\ "delay" \in Setting /\ setting["graphicAmount"] \in Int
        /\ setting \in Numbers /\ 0 <= setting["delay"]
    BY NamedRows DEF ControlInv, ShownTypes, Numbers
  <2>2. setting' = setting \/ \E x \in Int : setting' = [setting EXCEPT !["graphicAmount"] = x]
    BY <2>1 DEF ImportGraphicEq, ClearGraphicEq
  <2> QED  BY <2>1, <2>2 DEF Numbers
<1>3. ShownTypes'
  BY <1>1, <1>2 DEF ImportGraphicEq, ClearGraphicEq, ControlInv, ShownTypes, IsOrder, IsOrderOf
<1> QED  BY <1>3, ScheduledKeeps DEF ImportGraphicEq, ClearGraphicEq, Edit

LEMMA MoveStageKeeps ==
  ASSUME ControlInv, NEW here \in Rows, NEW there \in Rows, MoveStage(here, there)
  PROVE  ControlInv'
<1>1. order \in Seq(Stage) /\ IsOrder(order) /\ here \in 1..Len(order) /\ there \in 1..Len(order)
  BY PageAssumption DEF ControlInv, ShownTypes, IsOrder, IsOrderOf
<1>2. Moved(order, here, there) \in Seq(Stage) /\ IsOrder(Moved(order, here, there))
  BY <1>1, MovedIsOrder
<1>3. order' \in Seq(Stage) /\ IsOrder(order')
  BY <1>2 DEF MoveStage
<1>4. ShownTypes'
  BY <1>3 DEF MoveStage, ControlInv, ShownTypes, IsOrder, IsOrderOf
<1> QED  BY <1>4, ScheduledKeeps DEF MoveStage, Edit

LEMMA ResetChainOrderKeeps ==
  ASSUME ControlInv, ResetChainOrder
  PROVE  ControlInv'
<1>1. order' \in Seq(Stage) /\ IsOrder(order')
  BY DefaultIsOrder DEF ResetChainOrder
<1>2. ShownTypes'
  BY <1>1 DEF ResetChainOrder, ControlInv, ShownTypes, IsOrder, IsOrderOf
<1> QED  BY <1>2, ScheduledKeeps DEF ResetChainOrder, Edit

LEMMA ImpulseKeeps ==
  ASSUME ControlInv, SelectImpulse \/ ClearImpulse
  PROVE  ControlInv'
<1>1. on' \in [Stage -> BOOLEAN]
  BY DEF SelectImpulse, ClearImpulse, ControlInv, ShownTypes
<1>2. ShownTypes'
  BY <1>1 DEF SelectImpulse, ClearImpulse, ControlInv, ShownTypes, IsOrder, IsOrderOf
<1>3. Publishing /\ up' \in BOOLEAN /\ timer' \in BOOLEAN /\ session' \in BOOLEAN
      /\ UNCHANGED <<preset, kept, page>>
  BY DEF SelectImpulse, ClearImpulse, Edit, ControlInv
<1> QED  BY <1>2, <1>3, PublishingKeeps

LEMMA ResetAllKeeps ==
  ASSUME ControlInv, ResetAll
  PROVE  ControlInv'
<1> DEFINE transparent == [Sanitised(Nothing) EXCEPT !["loudnessAmount"] = 100]
<1>1. Sanitised(Nothing) \in Numbers /\ 0 <= Sanitised(Nothing)["delay"]
  BY NothingIsNumbers, SanitisedSettles, SettledFacts
<1>2. transparent \in Numbers /\ 0 <= transparent["delay"]
  BY <1>1, NamedRows DEF Numbers
<1> HIDE DEF transparent
<1>3. Restored(transparent) \in Numbers /\ 0 <= Restored(transparent)["delay"]
  BY <1>2, RestoredIs
<1>4. setting' = Reset /\ setting \in Numbers /\ 0 <= setting["delay"]
  BY DEF ResetAll, ControlInv, ShownTypes
<1>5. Reset = [s \in Setting |->
                 IF All[s].stage \in Zeroed THEN 0
                 ELSE IF All[s].stage \in {"graphic", "convolution"} THEN setting[s]
                 ELSE IF s \in DOMAIN Outputs THEN Restored(transparent)[s]
                 ELSE Plain[s]]
  BY DEF Reset, transparent
<1>6. setting' \in Numbers
  BY <1>3, <1>4, <1>5, NothingIsNumbers DEF Numbers
<1>7. "delay" \in DOMAIN Outputs /\ "delay" \in Setting
  BY NamedRows, SMT DEF Outputs
<1>8. 0 <= setting'["delay"]
  BY <1>3, <1>4, <1>5, <1>7
<1>9. on' \in [Stage -> BOOLEAN] /\ order' \in Seq(Stage) /\ IsOrder(order')
  BY DefaultIsOrder DEF ResetAll, ControlInv, ShownTypes
<1>10. ShownTypes'
  BY <1>6, <1>8, <1>9 DEF ResetAll, ControlInv, ShownTypes
<1> QED  BY <1>10, ScheduledKeeps DEF ResetAll, Edit

LEMMA SaveFullPresetKeeps ==
  ASSUME ControlInv, SaveFullPreset
  PROVE  ControlInv'
<1>1. PresetHolds'
  BY DEF SaveFullPreset, ControlInv, ShownTypes, PresetHolds, Click, settings
<1>2. UNCHANGED <<settings, timer, params, session, up, page>>
  BY DEF SaveFullPreset, Click
<1> QED  BY <1>1, <1>2 DEF ControlInv, ShownTypes, OnDisk, InStep, settings, IsOrder, IsOrderOf

LEMMA LoadFullPresetKeeps ==
  ASSUME ControlInv, NEW here \in BOOLEAN, LoadFullPreset(here)
  PROVE  ControlInv'
<1> DEFINE read == [s \in Setting |-> IF s \in Written THEN preset.value[s] ELSE Sanitised(Nothing)[s]]
           value == Restored(Read(preset.value))
<1>1. preset.value \in Numbers /\ preset.impulse \in BOOLEAN /\ preset.on \in [Stage -> BOOLEAN]
  <2>1. /\ kept.setting \in Numbers /\ kept.on \in [Stage -> BOOLEAN]
        /\ preset.value = Sanitised(kept.setting) /\ preset.impulse \in BOOLEAN
        /\ preset.on = [Bits(kept.setting, kept.on, preset.impulse)
                          EXCEPT !["graphic"] = FALSE, !["equalizer"] = kept.on["equalizer"]]
    BY DEF ControlInv, PresetHolds, LoadFullPreset
  <2>2. Bits(kept.setting, kept.on, preset.impulse) \in [Stage -> BOOLEAN]
    BY <2>1, BitsType
  <2>3. "equalizer" \in Stage
    BY SMT DEF DefaultOrder, Stage, ToSet
  <2>4. preset.value \in Numbers
    <3>1. Settled(Sanitised(kept.setting))
      BY <2>1, SanitisedSettles
    <3> QED  BY <2>1, <3>1, SettledFacts
  <2>5. preset.on \in [Stage -> BOOLEAN]
    <3>1. kept.on["equalizer"] \in BOOLEAN
      BY <2>1, <2>3
    <3> DEFINE b == Bits(kept.setting, kept.on, preset.impulse)
               x == kept.on["equalizer"]
    <3>2. preset.on = [b EXCEPT !["graphic"] = FALSE, !["equalizer"] = x]
      BY <2>1
    <3>3. b \in [Stage -> BOOLEAN] /\ x \in BOOLEAN
      BY <2>2, <3>1
    <3> HIDE DEF b, x
    <3> QED  BY <3>2, <3>3
  <2> QED  BY <2>1, <2>4, <2>5, Zenon
<1>2. read \in Numbers
  BY <1>1, NothingIsNumbers, SanitisedSettles DEF Numbers, Settled
<1>3. Read(preset.value) = Sanitised(read)
  BY DEF Read
<1> HIDE DEF read
<1>4. Read(preset.value) \in Numbers /\ 0 <= Read(preset.value)["delay"]
  BY <1>2, <1>3, SanitisedSettles, SettledFacts
<1>5. value \in Numbers /\ 0 <= value["delay"]
  BY <1>4, RestoredIs
<1>6. setting' = [s \in Setting |-> IF s = "graphicAmount" THEN setting[s] ELSE value[s]]
  BY DEF LoadFullPreset
<1> HIDE DEF value
<1>7. setting' \in Numbers /\ 0 <= setting'["delay"]
  BY <1>5, <1>6, NamedRows DEF Numbers, ControlInv, ShownTypes
<1>8. on' \in [Stage -> BOOLEAN]
  BY <1>1 DEF LoadFullPreset, ControlInv, ShownTypes
<1>9. impulse' \in BOOLEAN
  BY <1>1 DEF LoadFullPreset, ControlInv, ShownTypes
<1>10. ShownTypes'
  BY <1>7, <1>8, <1>9 DEF LoadFullPreset, ControlInv, ShownTypes, IsOrder, IsOrderOf
<1>11. Publishing /\ up' \in BOOLEAN /\ timer' \in BOOLEAN /\ session' \in BOOLEAN
       /\ UNCHANGED <<preset, kept, page>>
  BY DEF LoadFullPreset, Click, ControlInv
<1> QED  BY <1>10, <1>11, PublishingKeeps

LEMMA PublishNowKeeps ==
  ASSUME ControlInv, PublishNow
  PROVE  ControlInv'
<1>1. ShownTypes'
  BY DEF PublishNow, settings, ControlInv, ShownTypes, IsOrder, IsOrderOf
<1>2. Publishing /\ up' \in BOOLEAN /\ timer' \in BOOLEAN /\ session' \in BOOLEAN
      /\ UNCHANGED <<preset, kept, page>>
  BY DEF PublishNow, ControlInv
<1> QED  BY <1>1, <1>2, PublishingKeeps

LEMMA QuitKeeps ==
  ASSUME ControlInv, Quit
  PROVE  ControlInv'
<1>1. ShownTypes'
  BY DEF Quit, settings, ControlInv, ShownTypes, IsOrder, IsOrderOf
<1>2. session' \in BOOLEAN
  <2>1. "equalizer" \in Stage
    BY SMT DEF DefaultOrder, Stage, ToSet
  <2> QED  BY <2>1 DEF Quit, ControlInv, ShownTypes
<1>3. Publishing /\ up' \in BOOLEAN /\ timer' \in BOOLEAN
      /\ UNCHANGED <<preset, kept, page>>
  BY DEF Quit, ControlInv
<1> QED  BY <1>1, <1>2, <1>3, PublishingKeeps

LEMMA StartProgramKeeps ==
  ASSUME ControlInv, NEW v \in Int, StartProgram(v)
  PROVE  ControlInv'
<1>1. Publishing /\ up' \in BOOLEAN /\ timer' \in BOOLEAN /\ session' \in BOOLEAN
      /\ UNCHANGED <<preset, kept, page>> /\ volume' \in Int
  BY DEF StartProgram, ControlInv
<1>2. CASE params = NoFile
  <2>1. setting' \in Numbers /\ 0 <= setting'["delay"]
    <3>1. Start["delay"] = 0
      BY NamedRows, SMT DEF Start, Outputs, S
    <3> QED  BY <1>2, <3>1, NothingIsNumbers DEF StartProgram
  <2>2. order' \in Seq(Stage) /\ IsOrder(order')
    BY <1>2, DefaultIsOrder DEF StartProgram
  <2>3. on' \in [Stage -> BOOLEAN]
    BY <1>2 DEF StartProgram, ControlInv
  <2>4. curve' \in BOOLEAN /\ impulse' \in BOOLEAN
    <3>1. curve' = FALSE /\ impulse' = FALSE
      BY <1>2, Zenon DEF StartProgram
    <3> QED  BY <3>1, Zenon
  <2>5. ShownTypes'
    BY <1>1, <2>1, <2>2, <2>3, <2>4 DEF ShownTypes
  <2> QED  BY <1>1, <2>5, PublishingKeeps
<1>3. CASE params # NoFile
  <2>1. params \in OldFiles \/ Published(params)
    BY <1>3 DEF ControlInv, OnDisk
  <2>2. /\ Settled(Loaded(params))
        /\ LoadedOrder(params) \in Seq(Stage) /\ IsOrder(LoadedOrder(params))
        /\ Switches(params) \in [Stage -> BOOLEAN]
        /\ params.curve \in BOOLEAN /\ params.impulse \in BOOLEAN
    BY <2>1, LoadedSettles DEF ControlInv
  <2>3. /\ setting' = Restored(Loaded(params)) /\ order' = LoadedOrder(params)
        /\ curve' = params.curve /\ impulse' = params.impulse /\ on' = Switches(params)
    BY <1>3 DEF StartProgram
  <2>4. Restored(Loaded(params)) \in Numbers /\ 0 <= Restored(Loaded(params))["delay"]
    BY <2>2, SettledFacts, RestoredIs
  <2>5. ShownTypes'
    BY <1>1, <2>2, <2>3, <2>4 DEF ShownTypes, IsOrder, IsOrderOf
  <2> QED  BY <1>1, <2>5, PublishingKeeps
<1> QED  BY <1>2, <1>3

LEMMA ControlsKeep ==
  ASSUME ControlInv, ControlsNext
  PROVE  ControlInv'
<1>1. ASSUME NEW s \in page.settings, NEW v \in Asked(s), SetTo(s, v)
      PROVE  ControlInv'
  <2>1. s \in Setting
    BY DEF ControlInv
  <2>2. v \in Int
    BY <2>1, TableIsSound DEF Asked, Sound
  <2> QED  BY <1>1, <2>1, <2>2, SetToKeeps
<1>2. ASSUME NEW s \in Stage, SetStageEnabled(s)
      PROVE  ControlInv'
  BY <1>2, SetStageEnabledKeeps
<1>3. ASSUME UseCurrentVolume
      PROVE  ControlInv'
  BY <1>3, NamedRows, SetToKeeps DEF UseCurrentVolume, ControlInv, ShownTypes
<1>4. ASSUME NEW v \in Volumes \cup {Unknown}, PollVolume(v) \/ StartProgram(v)
      PROVE  ControlInv'
  <2>1. v \in Int
    BY PageAssumption DEF Unknown
  <2> QED  BY <1>4, <2>1, PollVolumeKeeps, StartProgramKeeps
<1>5. ASSUME ImportGraphicEq \/ ClearGraphicEq
      PROVE  ControlInv'
  BY <1>5, GraphicKeeps
<1>6. ASSUME SelectImpulse \/ ClearImpulse
      PROVE  ControlInv'
  BY <1>6, ImpulseKeeps
<1>7. ASSUME NEW here \in Rows, NEW there \in Rows, MoveStage(here, there)
      PROVE  ControlInv'
  BY <1>7, MoveStageKeeps
<1>8. ASSUME NEW here \in BOOLEAN, LoadFullPreset(here)
      PROVE  ControlInv'
  BY <1>8, LoadFullPresetKeeps
<1>9. \A v \in {Unknown} \cup IF At("loudness") THEN Volumes ELSE {} : v \in Volumes \cup {Unknown}
  OBVIOUS
<1> QED  BY <1>1, <1>2, <1>3, <1>4, <1>5, <1>6, <1>7, <1>8, <1>9, ResetChainOrderKeeps, ResetAllKeeps,
           SaveFullPresetKeeps, PublishNowKeeps, QuitKeeps DEF ControlsNext

\* A number a control can show is passed on as it is, but for the couplings of the
\* crossovers and of the mono bass.
LEMMA ShownPasses ==
  ASSUME NEW value \in Numbers, NEW s \in Setting, InRange(s, value[s])
  PROVE  /\ Passes(value, s)
         /\ \/ Sanitised(value)[s] = value[s]
            \/ s = "monoBelow" /\ value[s] < 2000
            \/ s = "highCross" /\ 2 * value[s] < 3 * value["lowCross"]
<1>1. value[s] \in Int /\ Sound(All[s])
  BY TableIsSound DEF Numbers
<1>2. All[s].lo <= value[s] /\ value[s] <= All[s].hi
  <2>1. /\ All[s].lo \in Int /\ All[s].hi \in Int /\ All[s].lo <= All[s].hi
        /\ value[s] = Within(value[s], All[s].lo, All[s].hi)
    BY <1>1 DEF InRange, HasControl, Clamped, Sound
  <2>2. \A x, a, b \in Int : a <= b /\ x = Within(x, a, b) => a <= x /\ x <= b
    BY SMT DEF Within
  <2> QED  BY <1>1, <2>1, <2>2
<1>3. Passes(value, s)
  BY <1>1, <1>2 DEF Sound, Passes
<1>4. s = "highCross" /\ 2 * value[s] < 3 * SanF(value, "lowCross") => 2 * value[s] < 3 * value["lowCross"]
  <2>1. "lowCross" \in Setting /\ value["lowCross"] \in Int
    BY NamedRows DEF Numbers
  <2>2. SanF(value, "lowCross") = Within(value["lowCross"], 2000, 200000)
    BY CrossRows DEF SanF
  <2>3. s = "highCross" => 100000 <= value[s]
    BY <1>2, CrossRows
  <2> QED  BY <1>1, <2>1, <2>2, <2>3, SMT DEF Within
<1> QED  BY <1>3, <1>4, SanitisedKeeps

LEMMA ControlsAgree == ControlInv => ShownIsWhatRuns
<1> SUFFICES ASSUME ControlInv, up, ~timer
             PROVE  /\ \A s \in Setting : InRange(s, setting[s]) =>
                         \/ params.value[s] = setting[s]
                         \/ s = "monoBelow" /\ setting[s] < 2000
                         \/ s = "highCross" /\ 2 * setting[s] < 3 * setting["lowCross"]
                    /\ \A s \in Stage : params.on[s] # on[s] =>
                         \/ s \in {"matrix", "delay"} /\ setting[s] = 0
                         \/ s = "convolution" /\ ~impulse
                    /\ params.order = order /\ IsOrder(order)
  BY DEF ShownIsWhatRuns
<1>1. /\ params.value = Sanitised(setting) /\ params.on = Bits(setting, on, impulse)
      /\ params.order = order
  BY DEF ControlInv, InStep
<1>2. /\ setting \in Numbers /\ 0 <= setting["delay"] /\ on \in [Stage -> BOOLEAN] /\ IsOrder(order)
  BY DEF ControlInv, ShownTypes
<1>3. ASSUME NEW s \in Setting, InRange(s, setting[s])
      PROVE  \/ params.value[s] = setting[s]
             \/ s = "monoBelow" /\ setting[s] < 2000
             \/ s = "highCross" /\ 2 * setting[s] < 3 * setting["lowCross"]
  BY <1>1, <1>2, <1>3, ShownPasses
<1>4. ASSUME NEW s \in Stage, params.on[s] # on[s]
      PROVE  \/ s \in {"matrix", "delay"} /\ setting[s] = 0
             \/ s = "convolution" /\ ~impulse
  <2>1. on[s] \in BOOLEAN /\ params.on[s] \in BOOLEAN /\ (params.on[s] <=> on[s] /\ HasWork(s, setting, impulse))
    BY <1>1, <1>2, BitsType
  <2>2. ~HasWork(s, setting, impulse)
    BY <1>4, <2>1
  <2>3. setting["delay"] \in Int
    BY <1>2, NamedRows DEF Numbers
  <2> QED  BY <1>2, <2>2, <2>3 DEF HasWork
<1> QED  BY <1>1, <1>2, <1>3, <1>4

----------------------------------------------------------------------------
(* What comes back.                                                         *)

\* The rack comes back from a full preset as far as the file has a field for it.
LEMMA PresetComesBack ==
  ASSUME ControlInv, NEW here \in BOOLEAN, LoadFullPreset(here)
  PROVE  BroughtBack(Written)
<1> DEFINE was == kept.setting
           v == preset.value
           z == Sanitised(Nothing)
           read == [s \in Setting |-> IF s \in Written THEN v[s] ELSE z[s]]
           value == Restored(Read(v))
<1>1. /\ was \in Numbers /\ 0 <= was["delay"] /\ kept.on \in [Stage -> BOOLEAN]
      /\ v = Sanitised(was)
      /\ preset.on = [Bits(was, kept.on, preset.impulse)
                        EXCEPT !["graphic"] = FALSE, !["equalizer"] = kept.on["equalizer"]]
  BY DEF ControlInv, PresetHolds, LoadFullPreset
<1>2. Settled(v) /\ Settled(z)
  BY <1>1, NothingIsNumbers, SanitisedSettles
<1>3. /\ "lowCross" \in Written /\ "highCross" \in Written /\ "monoBelow" \in Written
      /\ Amounts \subseteq Setting /\ "graphicAmount" \notin Written /\ "loudnessAmount" \in Written
  <2>1. /\ Effects["lowCross"].stage = "multiband" /\ Effects["highCross"].stage = "multiband"
        /\ Effects["monoBelow"].stage = "width" /\ Outputs["loudnessAmount"].stage = "loudness"
        /\ Outputs["graphicAmount"].stage = "graphic"
    BY SMT DEF Effects, Outputs, S
  <2> QED  BY <2>1, NamedRows DEF Written, NotWritten, Of, Amounts
<1>4. read \in Numbers /\ \A s \in Setting : Passes(read, s)
  BY <1>2 DEF Settled, Numbers, Passes
<1>5. \A s \in Written : s \in Setting /\ read[s] = v[s]
  BY DEF Written
<1>6. Settled(read)
  BY <1>2, <1>3, <1>4, <1>5 DEF Settled
<1>7. Read(v) = read
  BY <1>6, SettledStays DEF Read
<1> HIDE DEF read
<1>8. read["limiterRelease"] > 0
  BY <1>6, SettledFacts
<1>9. \A s \in Written : s # "loudnessAmount" => value[s] = v[s]
  BY <1>3, <1>4, <1>5, <1>7, <1>8, RestoredIs DEF Amounts
<1>10. v["loudnessAmount"] > 0 => value["loudnessAmount"] = v["loudnessAmount"]
  BY <1>3, <1>4, <1>5, <1>7, <1>8, RestoredIs
<1>11. \A s \in Setting : setting'[s] = IF s = "graphicAmount" THEN setting[s] ELSE value[s]
  BY DEF LoadFullPreset
<1> HIDE DEF value
<1>12. ASSUME NEW s \in Written, InRange(s, was[s])
       PROVE  \/ setting'[s] = was[s]
              \/ s = "monoBelow" /\ was[s] < 2000
              \/ s = "highCross" /\ 2 * was[s] < 3 * was["lowCross"]
              \/ s = "loudnessAmount" /\ was[s] = 0
  <2>1. s \in Setting /\ s # "graphicAmount" /\ setting'[s] = value[s]
    BY <1>3, <1>5, <1>11
  <2>2. \/ v[s] = was[s]
        \/ s = "monoBelow" /\ was[s] < 2000
        \/ s = "highCross" /\ 2 * was[s] < 3 * was["lowCross"]
    BY <1>1, <1>12, <2>1, ShownPasses
  <2>3. CASE s # "loudnessAmount"
    BY <1>9, <2>1, <2>2, <2>3
  <2>4. CASE s = "loudnessAmount"
    <3>1. All["loudnessAmount"].wlo = 0
      BY NamedRows, SMT DEF Outputs, S
    <3>2. was[s] \in Int /\ 0 <= was[s]
      BY <1>1, <1>12, <2>1, <2>4, <3>1, ShownPasses DEF Numbers, Passes
    <3> QED  BY <1>10, <2>1, <2>2, <2>4, <3>2
  <2> QED  BY <2>3, <2>4
<1>13. ASSUME NEW s \in Stage \ {"graphic", "convolution"}
       PROVE  \/ on'[s] = kept.on[s]
              \/ s \in {"matrix", "delay"} /\ was[s] = 0
  <2>1. on'[s] = preset.on[s]
    BY <1>13 DEF LoadFullPreset
  <2> DEFINE b == Bits(was, kept.on, preset.impulse)
  <2>2. /\ b \in [Stage -> BOOLEAN] /\ (b[s] <=> kept.on[s] /\ HasWork(s, was, preset.impulse))
        /\ preset.on = [b EXCEPT !["graphic"] = FALSE, !["equalizer"] = kept.on["equalizer"]]
    BY <1>1, BitsType
  <2> HIDE DEF b
  <2>3. kept.on[s] \in BOOLEAN /\ b[s] \in BOOLEAN
    BY <1>1, <2>2
  <2>4. preset.on[s] = IF s = "equalizer" THEN kept.on["equalizer"] ELSE b[s]
    BY <1>13, <2>2
  <2>5. HasWork(s, was, preset.impulse) \/ (s \in {"matrix", "delay"} /\ was[s] = 0)
    <3>1. was["delay"] \in Int
      BY <1>1, NamedRows DEF Numbers
    <3> QED  BY <1>1, <1>13, <3>1 DEF HasWork
  <2> QED  BY <2>1, <2>2, <2>3, <2>4, <2>5
<1> QED  BY <1>12, <1>13 DEF BroughtBack


\* The models give back what they are shown, so what they show is settled too.
LEMMA RestoredSettles ==
  ASSUME NEW value, Settled(value)
  PROVE  /\ Settled(Restored(value))
         /\ \A s \in Setting : \/ Restored(value)[s] = value[s]
                               \/ s \in Amounts /\ value[s] = 0
<1>1. value \in Numbers /\ value["limiterRelease"] > 0 /\ \A s \in Setting : Passes(value, s)
  BY SettledFacts DEF Settled
<1> DEFINE made == Restored(value)
<1>2. /\ made \in Numbers
      /\ \A s \in Setting : value[s] > 0 => made[s] = value[s]
      /\ \A s \in Setting : s \notin Amounts => made[s] = value[s]
      /\ \A s \in Amounts : value[s] <= 0 => made[s] = 100
  BY <1>1, RestoredIs
<1> HIDE DEF made
<1>3. /\ Amounts \subseteq Setting
      /\ All["loudnessAmount"].wlo = 0 /\ All["loudnessAmount"].whi = 100
      /\ All["graphicAmount"].wlo = 0 /\ All["graphicAmount"].whi = 100
  BY NamedRows, SMT DEF Outputs, S, Amounts
<1>4. ASSUME NEW s \in Setting
      PROVE  Passes(made, s) /\ (made[s] = value[s] \/ (s \in Amounts /\ value[s] = 0))
  <2>1. CASE s \notin Amounts
    BY <1>1, <1>2, <2>1 DEF Passes
  <2>2. CASE s \in Amounts
    <3>1. value[s] \in Int /\ 0 <= value[s] /\ value[s] <= 100
      BY <1>1, <1>3, <2>2 DEF Passes, Amounts, Numbers
    <3>2. made[s] = IF value[s] > 0 THEN value[s] ELSE 100
      BY <1>2, <2>2, <3>1
    <3>3. All[s].wlo = 0 /\ All[s].whi = 100
      BY <1>3, <2>2 DEF Amounts
    <3> QED  BY <2>2, <3>1, <3>2, <3>3 DEF Passes
  <2> QED  BY <2>1, <2>2
<1>5. "lowCross" \notin Amounts /\ "highCross" \notin Amounts /\ "monoBelow" \notin Amounts
  BY DEF Amounts
<1>6. Settled(made)
  BY <1>1, <1>2, <1>4, <1>5, NamedRows DEF Settled
<1> QED  BY <1>4, <1>6 DEF made

\* A start with a file.
LEMMA Restarts ==
  ASSUME ControlInv, NEW v \in Int, StartProgram(v), params # NoFile
  PROVE  /\ params \in OldFiles \/ Published(params)
         /\ params'.value = Restored(Loaded(params))
         /\ params'.order = LoadedOrder(params)
         /\ params'.curve = params.curve /\ params'.impulse = params.impulse
         /\ params'.on \in [Stage -> BOOLEAN]
         /\ \A s \in Stage : params'.on[s] <=>
              Switches(params)[s] /\ HasWork(s, Restored(Loaded(params)), params.impulse)
         /\ Settled(Loaded(params)) /\ Settled(Restored(Loaded(params)))
<1>1. params \in OldFiles \/ Published(params)
  BY DEF ControlInv, OnDisk
<1>2. Settled(Loaded(params)) /\ Switches(params) \in [Stage -> BOOLEAN]
  BY <1>1, LoadedSettles DEF ControlInv
<1>3. Settled(Restored(Loaded(params)))
  BY <1>2, RestoredSettles
<1>4. /\ setting' = Restored(Loaded(params)) /\ order' = LoadedOrder(params)
      /\ curve' = params.curve /\ impulse' = params.impulse /\ on' = Switches(params)
      /\ Publishing
  BY DEF StartProgram
<1>5. /\ params'.value = Sanitised(setting') /\ params'.on = Bits(setting', on', impulse')
      /\ params'.order = order' /\ params'.curve = curve' /\ params'.impulse = impulse'
  BY <1>4 DEF Publishing, Block
<1>6. params'.value = Restored(Loaded(params))
  BY <1>3, <1>4, <1>5, SettledStays
<1>7. /\ params'.on \in [Stage -> BOOLEAN]
      /\ \A s \in Stage : params'.on[s] <=>
           Switches(params)[s] /\ HasWork(s, Restored(Loaded(params)), params.impulse)
  <2>1. on' \in [Stage -> BOOLEAN]
    BY <1>2, <1>4
  <2> QED  BY <1>4, <1>5, <2>1, BitsType
<1> QED  BY <1>1, <1>2, <1>3, <1>4, <1>5, <1>6, <1>7

\* What does nothing with the numbers of the file does nothing with the restored ones.
LEMMA WorkIsKept ==
  ASSUME NEW value, Settled(value), NEW s \in Stage, NEW has
  PROVE  HasWork(s, Restored(value), has) <=> HasWork(s, value, has)
<1>1. "matrix" \in Setting /\ "delay" \in Setting /\ "matrix" \notin Amounts /\ "delay" \notin Amounts
  BY NamedRows DEF Amounts
<1>2. Restored(value)["matrix"] = value["matrix"] /\ Restored(value)["delay"] = value["delay"]
  BY <1>1, RestoredSettles
<1> QED  BY <1>2 DEF HasWork

LEMMA NothingAdded ==
  ASSUME NEW version \in Int, version >= 6
  PROVE  Known(version) = Stage /\ Newer(version) = {}
BY DEF Known, Added, Newer

LEMMA RestartHolds ==
  ASSUME ControlInv, NEW v \in Int, StartProgram(v), params # NoFile, params.version >= 6
  PROVE  /\ params'.on = [params.on EXCEPT !["equalizer"] = session]
         /\ params'.order = params.order
         /\ params'.curve = params.curve /\ params'.impulse = params.impulse
         /\ \A s \in Setting :
              \/ params'.value[s] = params.value[s]
              \/ s \in Amounts /\ params.value[s] = 0
<1> DEFINE f == params
<1>1. f \in OldFiles \/ Published(f)
  BY DEF ControlInv, OnDisk
<1>2. /\ f.value \in Numbers /\ f.on \in [Stage -> BOOLEAN] /\ Sanitised(f.value) = f.value
      /\ Bits(f.value, f.on, f.impulse) = f.on /\ f.version \in Int
  <2>1. CASE f \in OldFiles
    BY <2>1, OldFilesAssumption DEF Numbers
  <2>2. CASE Published(f)
    BY <2>2, SettledStays DEF Published, Settled, Current
  <2> QED  BY <1>1, <2>1, <2>2
<1>3. Known(f.version) = Stage /\ Newer(f.version) = {}
  BY <1>2, NothingAdded
<1>4. Loaded(f) = f.value
  <2>1. \A s \in Setting :
          (IF s \in Newer(f.version) THEN Plain[s]
           ELSE IF All[s].stage \in {"matrix", "delay", "loudness"} /\ f.version < 4 THEN 0
           ELSE IF s = "graphicAmount" /\ f.version < 5 THEN 100
           ELSE f.value[s]) = f.value[s]
    BY <1>2, <1>3
  <2>2. f.value = [s \in Setting |->
          IF s \in Newer(f.version) THEN Plain[s]
          ELSE IF All[s].stage \in {"matrix", "delay", "loudness"} /\ f.version < 4 THEN 0
          ELSE IF s = "graphicAmount" /\ f.version < 5 THEN 100
          ELSE f.value[s]]
    BY <1>2, <2>1 DEF Numbers
  <2> QED  BY <1>2, <2>2, Zenon DEF Loaded
<1>5. LoadedOrder(f) = f.order
  BY DEF LoadedOrder
<1>6. Settled(f.value)
  BY <1>2, SanitisedSettles
<1>7. ASSUME NEW s \in Stage
      PROVE  params'.on[s] <=> IF s = "equalizer" THEN session ELSE f.on[s]
  <2>1. params'.on[s] <=> Switches(f)[s] /\ HasWork(s, f.value, f.impulse)
    BY <1>4, <1>6, Restarts, WorkIsKept
  <2>2. f.on[s] <=> f.on[s] /\ HasWork(s, f.value, f.impulse)
    BY <1>2, BitsType
  <2>3. Switches(f)[s] = IF s = "equalizer" THEN session ELSE f.on[s]
    BY <1>2, <1>3 DEF Switches, LoadedBits
  <2>4. s = "equalizer" => HasWork(s, f.value, f.impulse)
    BY DEF HasWork
  <2> QED  BY <2>1, <2>2, <2>3, <2>4
<1>8. params'.on \in [Stage -> BOOLEAN] /\ session \in BOOLEAN
  BY Restarts DEF ControlInv
<1>9. params'.on = [f.on EXCEPT !["equalizer"] = session]
  <2>1. \A s \in Stage : params'.on[s] = IF s = "equalizer" THEN session ELSE f.on[s]
    BY <1>2, <1>7, <1>8
  <2> QED  BY <1>2, <1>8, <2>1
<1>10. \A s \in Setting : \/ params'.value[s] = f.value[s]
                          \/ s \in Amounts /\ f.value[s] = 0
  BY <1>4, <1>6, Restarts, RestoredSettles
<1> QED  BY <1>5, <1>9, <1>10, Restarts


\* The places of the stages in an order that was brought forward.
LEMMA UpgradedPlaces ==
  ASSUME NEW o \in Seq(Known(5)), IsOrderOf(Known(5), o)
  PROVE  /\ \A x, y \in Known(5) : Place(o, x) < Place(o, y) => Place(Upgraded(o), x) < Place(Upgraded(o), y)
         /\ Upgraded(o)[1] = "autoGain"
         /\ Neighbours(Upgraded(o), "transient", "comp")
         /\ Neighbours(Upgraded(o), "multiband", "nightMode")
         /\ Neighbours(Upgraded(o), "clipper", "limiter")
<1> DEFINE a == <<"autoGain">> \o o
           b == Beside(a, "transient", "comp", 0)
           c == Beside(b, "nightMode", "multiband", 1)
           d == Beside(c, "clipper", "limiter", 0)
           K == Known(5)
<1>0. Upgraded(o) = d
  BY DEF Upgraded
<1>1. /\ K = Stage \ {"transient", "clipper", "autoGain", "nightMode"}
      /\ {"transient", "clipper", "autoGain", "nightMode"} \subseteq Stage
      /\ {"comp", "multiband", "limiter"} \subseteq K
  BY Sixteen
<1>2. o \in Seq(Stage) /\ ToSet(o) = K
  BY <1>1 DEF IsOrderOf
<1>3. Distinct(o)
  <2>1. IsFiniteSet(K)
    BY <1>1, StagesCounted, FS_Subset
  <2> QED  BY <2>1, OrdersAreDistinct
<1>4. \A x \in K : Place(o, x) \in Int
  BY <1>2, PlaceOf
<1> HIDE DEF K
<1>5. /\ a \in Seq(Stage) /\ Distinct(a) /\ ToSet(a) = K \cup {"autoGain"}
      /\ Place(a, "autoGain") = 1
      /\ \A x \in K : Place(a, x) = Place(o, x) + 1
  <2>1. "autoGain" \in Stage /\ "autoGain" \notin ToSet(o)
    BY <1>1, <1>2
  <2> QED  BY <1>2, <1>3, <2>1, HeadMoves
<1> HIDE DEF a
<1>6. /\ b \in Seq(Stage) /\ Distinct(b) /\ ToSet(b) = K \cup {"autoGain", "transient"}
      /\ Place(b, "transient") = Place(a, "comp")
      /\ \A x \in ToSet(a) :
           Place(b, x) = IF Place(a, x) < Place(a, "comp") THEN Place(a, x) ELSE Place(a, x) + 1
  <2>1. /\ "transient" \in Stage /\ "transient" \notin ToSet(a) /\ "comp" \in ToSet(a) /\ 0 \in 0..1
        /\ Place(a, "comp") \in Int
    BY <1>1, <1>4, <1>5
  <2>2. b \in Seq(Stage) /\ ToSet(b) = K \cup {"autoGain", "transient"}
    <3>1. a \in Seq(Stage) /\ "comp" \in ToSet(a) /\ "transient" \in Stage
      BY <1>5, <2>1
    <3>2. b \in Seq(Stage) /\ ToSet(b) = ToSet(a) \cup {"transient"}
      BY <2>1, <3>1, BesideAdds
    <3> QED  BY <1>5, <3>2
  <2>3. Place(a, "comp") + 0 = Place(a, "comp")
    BY <2>1
  <2> QED  BY <1>5, <2>1, <2>2, <2>3, BesideMoves
<1> HIDE DEF b
<1>7. \A x \in ToSet(b) : Place(b, x) \in Int
  BY <1>6, PlaceOf
<1>8. /\ c \in Seq(Stage) /\ Distinct(c) /\ ToSet(c) = K \cup {"autoGain", "transient", "nightMode"}
      /\ Place(c, "nightMode") = Place(b, "multiband") + 1
      /\ \A x \in ToSet(b) :
           Place(c, x) = IF Place(b, x) < Place(b, "multiband") + 1 THEN Place(b, x) ELSE Place(b, x) + 1
  <2>1. /\ "nightMode" \in Stage /\ "nightMode" \notin ToSet(b) /\ "multiband" \in ToSet(b) /\ 1 \in 0..1
    BY <1>1, <1>6
  <2>2. c \in Seq(Stage) /\ ToSet(c) = K \cup {"autoGain", "transient", "nightMode"}
    <3>1. b \in Seq(Stage) /\ "multiband" \in ToSet(b) /\ "nightMode" \in Stage
      BY <1>6, <2>1
    <3>2. c \in Seq(Stage) /\ ToSet(c) = ToSet(b) \cup {"nightMode"}
      BY <2>1, <3>1, BesideAdds
    <3> QED  BY <1>6, <3>2
  <2> QED  BY <1>6, <2>1, <2>2, BesideMoves
<1> HIDE DEF c
<1>9. \A x \in ToSet(c) : Place(c, x) \in Int
  BY <1>8, PlaceOf
<1>10. /\ d \in Seq(Stage) /\ ToSet(d) = ToSet(c) \cup {"clipper"}
       /\ Place(d, "clipper") = Place(c, "limiter")
       /\ \A x \in ToSet(c) :
            Place(d, x) = IF Place(c, x) < Place(c, "limiter") THEN Place(c, x) ELSE Place(c, x) + 1
  <2>1. /\ "clipper" \in Stage /\ "clipper" \notin ToSet(c) /\ "limiter" \in ToSet(c) /\ 0 \in 0..1
    BY <1>1, <1>8
  <2>2. d \in Seq(Stage) /\ ToSet(d) = ToSet(c) \cup {"clipper"}
    <3>1. c \in Seq(Stage) /\ "limiter" \in ToSet(c) /\ "clipper" \in Stage
      BY <1>8, <2>1
    <3> QED  BY <2>1, <3>1, BesideAdds
  <2>3. Place(c, "limiter") + 0 = Place(c, "limiter")
    BY <1>9, <2>1
  <2> QED  BY <1>8, <2>1, <2>2, <2>3, BesideMoves
<1> HIDE DEF d
\* No two stages stand in one place.
<1>11. \A x, y \in ToSet(b) : x # y => Place(b, x) # Place(b, y)
  BY <1>6, PlaceOf
<1>12. \A x, y \in ToSet(c) : x # y => Place(c, x) # Place(c, y)
  BY <1>8, PlaceOf
<1>13. ASSUME NEW x \in K, NEW y \in K, Place(o, x) < Place(o, y)
       PROVE  Place(d, x) < Place(d, y)
  <2>1. {x, y, "comp"} \subseteq ToSet(a) /\ {x, y, "multiband"} \subseteq ToSet(b) /\ {x, y, "limiter"} \subseteq ToSet(c)
    BY <1>1, <1>5, <1>6, <1>8
  <2>2. Place(a, x) < Place(a, y) /\ {Place(a, x), Place(a, y), Place(a, "comp")} \subseteq Int
    BY <1>4, <1>5, <1>13, <1>1
  <2>3. Place(b, x) < Place(b, y) /\ {Place(b, x), Place(b, y), Place(b, "multiband")} \subseteq Int
    BY <1>6, <1>7, <2>1, <2>2
  <2>4. Place(c, x) < Place(c, y) /\ {Place(c, x), Place(c, y), Place(c, "limiter")} \subseteq Int
    BY <1>8, <1>9, <2>1, <2>3
  <2> QED  BY <1>10, <2>1, <2>4
<1>14. d[1] = "autoGain"
  <2>1. /\ Place(o, "comp") >= 1 /\ Place(o, "multiband") >= 1 /\ Place(o, "limiter") >= 1
    BY <1>1, <1>2, PlaceOf
  <2>2. Place(a, "autoGain") = 1 /\ Place(a, "comp") > 1 /\ Place(a, "multiband") > 1 /\ Place(a, "limiter") > 1
    BY <1>1, <1>4, <1>5, <2>1
  <2>3. Place(b, "autoGain") = 1 /\ Place(b, "multiband") > 1 /\ Place(b, "limiter") > 1
    BY <1>1, <1>4, <1>5, <1>6, <2>2
  <2>4. Place(c, "autoGain") = 1 /\ Place(c, "limiter") > 1
    BY <1>1, <1>6, <1>7, <1>8, <2>3
  <2>5. Place(d, "autoGain") = 1
    BY <1>1, <1>8, <1>9, <1>10, <2>4
  <2>6. "autoGain" \in ToSet(d)
    BY <1>8, <1>10
  <2> QED  BY <1>10, <2>5, <2>6, PlaceOf
<1>15. Place(d, "comp") = Place(d, "transient") + 1
  <2>1. Place(b, "comp") = Place(b, "transient") + 1 /\ Place(b, "transient") \in Int
    BY <1>1, <1>4, <1>5, <1>6, <1>7
  <2>2. /\ "multiband" \in ToSet(b) /\ "transient" \in ToSet(b) /\ "comp" \in ToSet(b)
        /\ Place(b, "transient") # Place(b, "multiband") /\ Place(b, "multiband") \in Int
    BY <1>1, <1>6, <1>7, <1>11
  <2>3. Place(c, "comp") = Place(c, "transient") + 1 /\ Place(c, "transient") \in Int
    BY <1>8, <2>1, <2>2
  <2>4. /\ "limiter" \in ToSet(c) /\ "transient" \in ToSet(c) /\ "comp" \in ToSet(c)
        /\ Place(c, "comp") # Place(c, "limiter") /\ Place(c, "limiter") \in Int
    BY <1>1, <1>8, <1>9, <1>12
  <2> QED  BY <1>10, <2>3, <2>4
<1>16. Place(d, "nightMode") = Place(d, "multiband") + 1
  <2>1. Place(b, "multiband") \in Int /\ "multiband" \in ToSet(b)
    BY <1>1, <1>6, <1>7
  <2>2. Place(c, "nightMode") = Place(c, "multiband") + 1 /\ Place(c, "multiband") \in Int
    BY <1>8, <2>1
  <2>3. /\ "limiter" \in ToSet(c) /\ "multiband" \in ToSet(c) /\ "nightMode" \in ToSet(c)
        /\ Place(c, "nightMode") # Place(c, "limiter") /\ Place(c, "limiter") \in Int
    BY <1>1, <1>8, <1>9, <1>12
  <2> QED  BY <1>10, <2>2, <2>3
<1>17. Place(d, "limiter") = Place(d, "clipper") + 1
  <2>1. "limiter" \in ToSet(c) /\ Place(c, "limiter") \in Int
    BY <1>1, <1>8, <1>9
  <2> QED  BY <1>10, <2>1
<1>18. /\ Neighbours(d, "transient", "comp") /\ Neighbours(d, "multiband", "nightMode")
       /\ Neighbours(d, "clipper", "limiter")
  BY <1>15, <1>16, <1>17 DEF Neighbours
<1> QED  BY <1>0, <1>13, <1>14, <1>18 DEF K


\* What a file of an older version holds, and what of it load() leaves as it is.
LEMMA OldFileIs ==
  ASSUME NEW f \in OldFiles
  PROVE  /\ f.version \in 2..6 /\ f.value \in Numbers /\ Settled(f.value)
         /\ f.on \in [Stage -> BOOLEAN] /\ Bits(f.value, f.on, f.impulse) = f.on
         /\ \A s \in Stage : f.on[s] => s \in Known(f.version)
         /\ f.version = 5 => f.order \in Seq(Known(5)) /\ IsOrderOf(Known(5), f.order)
<1>1. /\ f.version \in 2..6 /\ f.value \in Numbers /\ Sanitised(f.value) = f.value
      /\ f.on \in [Stage -> BOOLEAN] /\ Bits(f.value, f.on, f.impulse) = f.on
      /\ \A s \in Stage : f.on[s] => s \in Known(f.version)
      /\ f.version = 5 => f.order \in Seq(Known(5)) /\ IsOrderOf(Known(5), f.order)
  BY OldFilesAssumption DEF Numbers
<1>2. Settled(f.value)
  BY <1>1, SanitisedSettles
<1> QED  BY <1>1, <1>2

LEMMA NotNewer ==
  ASSUME NEW s \in Setting, NEW version, All[s].stage \notin Since6 \cup {"limiter", "dynBass"},
         s \notin {"exciterThreshold", "widthPhase", "limiterTruePeak"}
  PROVE  s \notin Newer(version)
<1>1. \A x : s \in Of(x) => All[s].stage = x
  BY DEF Of
<1> DEFINE u == UNION {Of(x) : x \in Since6}
           a == u \cup {"exciterThreshold", "widthPhase", "limiterTruePeak"}
           b == Of("limiter") \cup Of("dynBass")
<1>2. s \notin u
  BY <1>1
<1>3. s \notin b
  BY <1>1
<1>5. Newer(version) = (IF version < 6 THEN a ELSE {}) \cup (IF version < 5 THEN b ELSE {})
  BY DEF Newer
<1> HIDE DEF b, u
<1>6. s \notin a
  BY <1>2
<1> HIDE DEF a
<1> QED  BY <1>3, <1>5, <1>6

LEMMA LoadedKeeps ==
  ASSUME NEW f \in OldFiles, NEW s \in Setting, All[s].stage \in Known(f.version), s \notin Newer(f.version)
  PROVE  Loaded(f)[s] = f.value[s]
<1> DEFINE read == [x \in Setting |->
                      IF x \in Newer(f.version) THEN Plain[x]
                      ELSE IF All[x].stage \in {"matrix", "delay", "loudness"} /\ f.version < 4 THEN 0
                      ELSE IF x = "graphicAmount" /\ f.version < 5 THEN 100
                      ELSE f.value[x]]
<1>1. f.version \in 2..6 /\ f.value \in Numbers /\ Settled(f.value)
  BY OldFileIs
<1>2. Loaded(f) = Sanitised(read)
  BY DEF Loaded
<1>3. read \in Numbers
  BY <1>1, NothingIsNumbers DEF Numbers
<1>4. /\ f.version < 4 => All[s].stage \notin {"matrix", "delay", "loudness"}
      /\ f.version < 5 => All[s].stage # "graphic"
  BY <1>1 DEF Known, Added, Since4, Since5
<1>5. All["graphicAmount"].stage = "graphic" /\ All["lowCross"].stage = "multiband"
  BY NamedRows, SMT DEF Outputs, Effects, S
<1>6. read[s] = f.value[s]
  BY <1>4, <1>5
<1>7. "lowCross" \in Setting /\ "highCross" \in Setting /\ "monoBelow" \in Setting
  BY NamedRows
<1>8. "lowCross" \notin Newer(f.version)
  BY <1>5, <1>7, NotNewer DEF Since6
<1>9. read["lowCross"] = f.value["lowCross"]
  BY <1>5, <1>7, <1>8
<1> HIDE DEF read
<1>10. Passes(read, s) /\ Passes(read, "lowCross")
  BY <1>1, <1>6, <1>7, <1>9 DEF Settled, Passes
<1>11. SanF(read, "lowCross") = f.value["lowCross"]
  BY <1>3, <1>7, <1>9, <1>10, SanFBounds
<1>12. \/ Sanitised(read)[s] = read[s]
       \/ s = "monoBelow" /\ read[s] < 2000 /\ Sanitised(read)[s] = 0
       \/ /\ s = "highCross" /\ 2 * read[s] < 3 * SanF(read, "lowCross")
          /\ Sanitised(read)[s] = (3 * SanF(read, "lowCross")) \div 2
  BY <1>3, <1>10, SanitisedKeeps
<1>13. /\ f.value["lowCross"] \in Int /\ f.value["highCross"] \in Int /\ f.value["monoBelow"] \in Int
       /\ f.value["monoBelow"] = 0 \/ 2000 <= f.value["monoBelow"]
       /\ \/ 3 * f.value["lowCross"] <= 2 * f.value["highCross"]
          \/ f.value["highCross"] = (3 * f.value["lowCross"]) \div 2
  BY <1>1, <1>7 DEF Settled, Numbers
<1> QED  BY <1>2, <1>6, <1>11, <1>12, <1>13

LEMMA UpgradeHolds ==
  ASSUME ControlInv, NEW v \in Int, StartProgram(v), params # NoFile, params.version < 6
  PROVE  /\ \A s \in Stage \ {"equalizer"} : params'.on[s] = params.on[s]
         /\ \A s \in Setting : All[s].stage \in Known(params.version) =>
              \/ params'.value[s] = params.value[s]
              \/ s \in Newer(params.version)
              \/ s \in Amounts /\ params.value[s] = 0
         /\ IsOrder(params'.order)
         /\ params.version = 5 =>
              /\ \A a, b \in Known(5) : Place(params.order, a) < Place(params.order, b)
                   => Place(params'.order, a) < Place(params'.order, b)
              /\ params'.order[1] = "autoGain"
              /\ Neighbours(params'.order, "transient", "comp")
              /\ Neighbours(params'.order, "multiband", "nightMode")
              /\ Neighbours(params'.order, "clipper", "limiter")
<1> DEFINE f == params
<1>1. f \in OldFiles
  BY Restarts DEF Published, Current
<1>2. /\ f.version \in 2..6 /\ f.on \in [Stage -> BOOLEAN] /\ Bits(f.value, f.on, f.impulse) = f.on
      /\ \A s \in Stage : f.on[s] => s \in Known(f.version)
      /\ f.version = 5 => f.order \in Seq(Known(5)) /\ IsOrderOf(Known(5), f.order)
  BY <1>1, OldFileIs
<1>3. ASSUME NEW s \in Stage \ {"equalizer"}
      PROVE  params'.on[s] = f.on[s]
  <2>1. params'.on[s] <=> Switches(f)[s] /\ HasWork(s, Restored(Loaded(f)), f.impulse)
    BY Restarts
  <2>2. Switches(f)[s] <=> f.on[s]
    BY <1>2, <1>3 DEF Switches, LoadedBits
  <2>3. ASSUME f.on[s]
        PROVE  HasWork(s, Loaded(f), f.impulse)
    <3>1. HasWork(s, f.value, f.impulse)
      BY <1>2, <2>3, BitsType
    <3>2. s \in Known(f.version)
      BY <1>2, <2>3
    <3>3. /\ "matrix" \in Setting /\ "delay" \in Setting
          /\ All["matrix"].stage = "matrix" /\ All["delay"].stage = "delay"
      BY NamedRows, SMT DEF Outputs, S
    <3>4. "matrix" \notin Newer(f.version) /\ "delay" \notin Newer(f.version)
      BY <3>3, NotNewer DEF Since6
    <3>5. s \in {"matrix", "delay"} => Loaded(f)[s] = f.value[s]
      BY <1>1, <3>2, <3>3, <3>4, LoadedKeeps
    <3> QED  BY <3>1, <3>5 DEF HasWork
  <2>4. Settled(Loaded(f))
    BY Restarts
  <2>5. f.on[s] => HasWork(s, Restored(Loaded(f)), f.impulse)
    BY <2>3, <2>4, WorkIsKept
  <2>6. params'.on[s] \in BOOLEAN /\ f.on[s] \in BOOLEAN
    BY <1>2, Restarts
  <2> QED  BY <2>1, <2>2, <2>5, <2>6
<1>4. ASSUME NEW s \in Setting, All[s].stage \in Known(f.version)
      PROVE  \/ params'.value[s] = f.value[s]
             \/ s \in Newer(f.version)
             \/ s \in Amounts /\ f.value[s] = 0
  <2>1. s \notin Newer(f.version) => Loaded(f)[s] = f.value[s]
    BY <1>1, <1>4, LoadedKeeps
  <2>2. Settled(Loaded(f)) /\ params'.value = Restored(Loaded(f))
    BY Restarts
  <2>3. params'.value[s] = Loaded(f)[s] \/ (s \in Amounts /\ Loaded(f)[s] = 0)
    BY <2>2, RestoredSettles
  <2> QED  BY <2>1, <2>3
<1>5. params'.order = LoadedOrder(f) /\ IsOrder(params'.order)
  <2>1. params'.order = LoadedOrder(f)
    BY Restarts
  <2>2. IsOrder(LoadedOrder(f))
    BY <1>1, LoadedSettles
  <2> QED  BY <2>1, <2>2
<1>6. f.version = 5 => params'.order = Upgraded(f.order)
  BY <1>5 DEF LoadedOrder
<1> QED  BY <1>2, <1>3, <1>4, <1>5, <1>6, UpgradedPlaces

\* Settings, switches and the order outlive the program, and an older version.
LEMMA StartsHold ==
  ASSUME ControlInv, [ControlsNext]_controlVars
  PROVE  /\ ~up /\ up' /\ params # NoFile /\ params.version >= 6 =>
              /\ params'.on = [params.on EXCEPT !["equalizer"] = session]
              /\ params'.order = params.order
              /\ params'.curve = params.curve /\ params'.impulse = params.impulse
              /\ \A s \in Setting :
                   \/ params'.value[s] = params.value[s]
                   \/ s \in Amounts /\ params.value[s] = 0
         /\ ~up /\ up' /\ params # NoFile /\ params.version < 6 =>
              /\ \A s \in Stage \ {"equalizer"} : params'.on[s] = params.on[s]
              /\ \A s \in Setting : All[s].stage \in Known(params.version) =>
                   \/ params'.value[s] = params.value[s]
                   \/ s \in Newer(params.version)
                   \/ s \in Amounts /\ params.value[s] = 0
              /\ IsOrder(params'.order)
              /\ params.version = 5 =>
                   /\ \A a, b \in Known(5) : Place(params.order, a) < Place(params.order, b)
                        => Place(params'.order, a) < Place(params'.order, b)
                   /\ params'.order[1] = "autoGain"
                   /\ Neighbours(params'.order, "transient", "comp")
                   /\ Neighbours(params'.order, "multiband", "nightMode")
                   /\ Neighbours(params'.order, "clipper", "limiter")
<1>1. ASSUME ~up, up'
      PROVE  \E v \in Int : StartProgram(v)
  <2>1. ControlsNext
    BY <1>1 DEF controlVars
  <2>2. \A v \in {Unknown} \cup IF At("loudness") THEN Volumes ELSE {} : v \in Int
    BY PageAssumption DEF Unknown
  <2> QED  BY <1>1, <2>1, <2>2 DEF ControlsNext, SetTo, SetStageEnabled, UseCurrentVolume, PollVolume,
             ImportGraphicEq, ClearGraphicEq, SelectImpulse, ClearImpulse, MoveStage, ResetChainOrder,
             ResetAll, SaveFullPreset, LoadFullPreset, PublishNow, Quit, Edit, Click
<1> QED  BY <1>1, RestartHolds, UpgradeHolds

----------------------------------------------------------------------------
(* Lists.                                                                   *)

\* Every set of natural numbers has a least element.
LEMMA Least ==
  ASSUME NEW T \in SUBSET Nat, T # {}
  PROVE  \E m \in T : \A k \in T : m <= k
<1>1. PICK R : R = OpToRel(<, Nat)
  OBVIOUS
<1>2. IsWellFoundedOn(R, Nat)
  BY <1>1, NatLessThanWellFounded
<1>3. R = {ss \in Nat \X Nat : ss[1] < ss[2]}
  BY <1>1 DEF OpToRel
<1>4. T \subseteq Nat
  OBVIOUS
<1>5. \E x \in T : \A y \in T : ~ (<<y, x>> \in R)
  BY <1>2, <1>4, WFMin
<1>6. PICK m \in T : \A k \in T : ~(<<k, m>> \in R)
  BY <1>5
<1>7. \A k \in T : <<k, m>> \in Nat \X Nat /\ <<k, m>>[1] = k /\ <<k, m>>[2] = m
  OBVIOUS
<1>8. \A k \in T : ~(k < m)
  BY <1>3, <1>6, <1>7
<1> QED BY <1>8

\* A set that has 0, and the successor of whatever it has up to n, has 0 to n.
LEMMA Induction ==
  ASSUME NEW n \in Nat, NEW T, 0 \in T, \A i \in 0..(n - 1) : i \in T => i + 1 \in T
  PROVE  0..n \subseteq T
<1> DEFINE U == {i \in 0..n : i \notin T}
<1>1. SUFFICES ASSUME U # {} PROVE FALSE
  OBVIOUS
<1>8. U \in SUBSET Nat
  OBVIOUS
<1>9. \E m \in U : \A k \in U : m <= k
  <2> HIDE DEF U
  <2> QED BY <1>1, <1>8, Least
<1>2. PICK m \in U : \A k \in U : m <= k
  BY <1>9
<1>3. m \in 0..n /\ m # 0 /\ m \notin T
  BY <1>2
<1>4. m - 1 \in 0..n /\ m - 1 \in 0..(n - 1) /\ m - 1 + 1 = m /\ ~(m <= m - 1)
  BY <1>3
<1>5. m - 1 \in T
  BY <1>2, <1>4
<1> QED BY <1>3, <1>4, <1>5

\* What is defined from one number to the next is there, and is of the type its
\* steps keep.
Runs(f, n, V, a, h) == f \in [0..n -> V] /\ f[0] = a /\ \A i \in 1..n : f[i] = h[i][f[i - 1]]

LEMMA Recursion ==
  ASSUME NEW n \in Nat, NEW V, NEW a \in V, NEW h \in [1..n -> [V -> V]]
  PROVE  \E f : Runs(f, n, V, a, h)
<1> DEFINE Is(f, k) == f[0] = a /\ \A i \in 1..k : f[i] = h[i][f[i - 1]]
           T == {k \in 0..n : \E f \in [0..k -> V] : Is(f, k)}
<1>1. 0 \in T
  <2> DEFINE e == [i \in 0..0 |-> a]
  <2>1. e \in [0..0 -> V] /\ e[0] = a
    OBVIOUS
  <2>2. 0 \in 0..n /\ \A i : i \notin 1..0
    OBVIOUS
  <2> HIDE DEF e
  <2> QED  BY <2>1, <2>2
<1>2. ASSUME NEW k \in 0..(n - 1), k \in T
      PROVE  k + 1 \in T
  <2>1. PICK f \in [0..k -> V] : Is(f, k)
    BY <1>2
  <2> DEFINE last == h[k + 1][f[k]]
             g == [i \in 0..(k + 1) |-> IF i = k + 1 THEN last ELSE f[i]]
  <2>2. k \in Nat /\ k + 1 \in 1..n /\ f[k] \in V
    OBVIOUS
  <2>3. last \in V
    BY <2>2
  <2> HIDE DEF last
  <2>4. g \in [0..(k + 1) -> V]
    BY <2>2, <2>3
  <2>5. g[k + 1] = last /\ \A i \in 0..k : g[i] = f[i]
    BY <2>2
  <2> HIDE DEF g
  <2>6. g[0] = a
    BY <2>1, <2>2, <2>5
  <2>7. ASSUME NEW i \in 1..(k + 1)
        PROVE  g[i] = h[i][g[i - 1]]
    <3>1. CASE i = k + 1
      <4>1. g[i - 1] = f[k]
        BY <2>2, <2>5, <3>1
      <4> QED  BY <2>5, <3>1, <4>1 DEF last
    <3>2. CASE i \in 1..k
      <4>1. g[i] = f[i] /\ g[i - 1] = f[i - 1]
        BY <2>2, <2>5, <3>2
      <4> QED  BY <2>1, <3>2, <4>1
    <3> QED  BY <2>2, <3>1, <3>2
  <2>8. k + 1 \in 0..n
    BY <2>2
  <2> QED  BY <2>4, <2>6, <2>7, <2>8
<1>3. 0..n \subseteq T
  <2> HIDE DEF T
  <2> QED  BY <1>1, <1>2, Induction
<1>4. n \in T
  BY <1>3
<1> QED  BY <1>4 DEF Runs

LEMMA RecursionIsOne ==
  ASSUME NEW n \in Nat, NEW V, NEW f \in [0..n -> V], NEW g, DOMAIN g = 0..n, g = [i \in 0..n |-> g[i]],
         g[0] = f[0], \A i \in 1..n : g[i - 1] = f[i - 1] => g[i] = f[i]
  PROVE  g = f
<1> DEFINE T == {i \in 0..n : g[i] = f[i]}
<1>1. 0 \in T
  OBVIOUS
<1>2. ASSUME NEW i \in 0..(n - 1), i \in T
      PROVE  i + 1 \in T
  <2>1. i + 1 \in 1..n /\ i + 1 \in 0..n /\ (i + 1) - 1 = i
    OBVIOUS
  <2>2. g[i] = f[i]
    BY <1>2
  <2>3. g[i + 1] = f[i + 1]
    BY <2>1, <2>2
  <2> QED  BY <2>1, <2>3
<1>3. 0..n \subseteq T
  <2> HIDE DEF T
  <2> QED  BY <1>1, <1>2, Induction
<1> QED  BY <1>3

\* Entry by entry, what is left out of a list.
Entrywise(W, s, out) ==
  /\ Len(s) \in Nat
  /\ Kept(s, out) \in [0..Len(s) -> Seq(W \ out)] /\ Kept(s, out)[0] = <<>>
  /\ \A i \in 1..Len(s) :
       Kept(s, out)[i] = IF s[i] \in out THEN Kept(s, out)[i - 1]
                         ELSE Append(Kept(s, out)[i - 1], s[i])

LEMMA KeptIs ==
  ASSUME NEW W, NEW s \in Seq(W), NEW out
  PROVE  Entrywise(W, s, out)
<1> DEFINE n == Len(s)
           V == Seq(W \ out)
           h == [i \in 1..n |-> [v \in V |-> IF s[i] \in out THEN v ELSE Append(v, s[i])]]
           Is(g) == g = [i \in 0..n |->
                           IF i = 0 THEN <<>> ELSE IF s[i] \in out THEN g[i - 1] ELSE Append(g[i - 1], s[i])]
<1>1. n \in Nat /\ <<>> \in V /\ \A i \in 1..n : s[i] \in W
  OBVIOUS
<1>2. h \in [1..n -> [V -> V]]
  <2>1. \A i \in 1..n : \A v \in V : (IF s[i] \in out THEN v ELSE Append(v, s[i])) \in V
    BY <1>1
  <2> HIDE DEF V
  <2> QED  BY <2>1
<1>3. \A i \in 1..n : \A v \in V : h[i][v] = IF s[i] \in out THEN v ELSE Append(v, s[i])
  OBVIOUS
<1> DEFINE none == <<>>
<1>4a. none \in V /\ none = <<>>
  BY <1>1
<1> HIDE DEF V, h, n, none
<1>4. PICK f \in [0..n -> V] : f[0] = <<>> /\ \A i \in 1..n : f[i] = h[i][f[i - 1]]
  <2>1. n \in Nat
    BY <1>1
  <2>2. \E f : Runs(f, n, V, none, h)
    BY <1>2, <1>4a, <2>1, Recursion
  <2> QED  BY <1>4a, <2>2 DEF Runs
<1>5. \A i \in 1..n : f[i] = IF s[i] \in out THEN f[i - 1] ELSE Append(f[i - 1], s[i])
  <2>1. \A i \in 1..n : i - 1 \in 0..n
    BY <1>1
  <2> QED  BY <1>3, <1>4, <2>1
<1>6. Is(f)
  <2>1. \A i \in 0..n : i # 0 => i \in 1..n
    BY <1>1
  <2> QED  BY <1>4, <1>5, <2>1
<1>7. Kept(s, out) = CHOOSE g : Is(g)
  BY Zenon DEF Kept, n
<1>8. PICK g : g = Kept(s, out)
  OBVIOUS
<1>9. Is(g)
  BY <1>6, <1>7, <1>8, Zenon
<1>10. DOMAIN g = 0..n /\ g = [i \in 0..n |-> g[i]] /\ g[0] = <<>>
  BY <1>1, <1>9
<1>11. \A i \in 1..n : g[i] = IF s[i] \in out THEN g[i - 1] ELSE Append(g[i - 1], s[i])
  <2>1. \A i \in 1..n : i \in 0..n /\ i # 0
    BY <1>1
  <2> QED  BY <1>9, <2>1
<1>12. g = f
  <2>1. \A i \in 1..n : g[i - 1] = f[i - 1] => g[i] = f[i]
    BY <1>5, <1>11
  <2> QED  BY <1>1, <1>4, <1>10, <2>1, RecursionIsOne
<1> QED  BY <1>1, <1>4, <1>5, <1>8, <1>12 DEF n, V, Entrywise

\* What is kept of the beginning of a list depends on the beginning alone.
LEMMA KeptOfPrefix ==
  ASSUME NEW W, NEW s \in Seq(W), NEW t \in Seq(W), NEW out, NEW k \in Nat, k <= Len(s), k <= Len(t),
         \A i \in 1..k : s[i] = t[i]
  PROVE  Kept(s, out)[k] = Kept(t, out)[k]
<1> DEFINE T == {i \in 0..k : Kept(s, out)[i] = Kept(t, out)[i]}
<1>1. /\ Len(s) \in Nat /\ Len(t) \in Nat
      /\ Kept(s, out)[0] = <<>> /\ Kept(t, out)[0] = <<>>
      /\ \A i \in 1..Len(s) : Kept(s, out)[i] = IF s[i] \in out THEN Kept(s, out)[i - 1]
                                                ELSE Append(Kept(s, out)[i - 1], s[i])
      /\ \A i \in 1..Len(t) : Kept(t, out)[i] = IF t[i] \in out THEN Kept(t, out)[i - 1]
                                                ELSE Append(Kept(t, out)[i - 1], t[i])
  <2>1. /\ Len(s) \in Nat /\ Kept(s, out)[0] = <<>>
        /\ \A i \in 1..Len(s) : Kept(s, out)[i] = IF s[i] \in out THEN Kept(s, out)[i - 1]
                                                  ELSE Append(Kept(s, out)[i - 1], s[i])
    <3>1. Entrywise(W, s, out)
      BY KeptIs
    <3> QED  BY <3>1 DEF Entrywise
  <2>2. /\ Len(t) \in Nat /\ Kept(t, out)[0] = <<>>
        /\ \A i \in 1..Len(t) : Kept(t, out)[i] = IF t[i] \in out THEN Kept(t, out)[i - 1]
                                                  ELSE Append(Kept(t, out)[i - 1], t[i])
    <3>1. Entrywise(W, t, out)
      BY KeptIs
    <3> QED  BY <3>1 DEF Entrywise
  <2> QED  BY <2>1, <2>2
<1>2. 0 \in T
  BY <1>1
<1>3. ASSUME NEW i \in 0..(k - 1), i \in T
      PROVE  i + 1 \in T
  <2>1. i + 1 \in 1..Len(s) /\ i + 1 \in 1..Len(t) /\ i + 1 \in 1..k /\ i + 1 \in 0..k /\ (i + 1) - 1 = i
    BY <1>1
  <2>2. Kept(s, out)[i] = Kept(t, out)[i] /\ s[i + 1] = t[i + 1]
    BY <1>3, <2>1
  <2>3. /\ Kept(s, out)[i + 1] = IF s[i + 1] \in out THEN Kept(s, out)[i] ELSE Append(Kept(s, out)[i], s[i + 1])
        /\ Kept(t, out)[i + 1] = IF t[i + 1] \in out THEN Kept(t, out)[i] ELSE Append(Kept(t, out)[i], t[i + 1])
    BY <1>1, <2>1
  <2>4. Kept(s, out)[i + 1] = Kept(t, out)[i + 1]
    BY <2>2, <2>3, Zenon
  <2> QED  BY <2>1, <2>4
<1>4. 0..k \subseteq T
  <2> HIDE DEF T
  <2> QED  BY <1>2, <1>3, Induction
<1> QED  BY <1>4

LEMMA LeavingOutIs ==
  ASSUME NEW W, NEW s \in Seq(W), NEW out
  PROVE  LeavingOut(s, out) \in Seq(W \ out) /\ LeavingOut(s, out) \in Seq(W)
<1>1. Len(s) \in Nat /\ Kept(s, out) \in [0..Len(s) -> Seq(W \ out)]
  BY KeptIs DEF Entrywise
<1>2. LeavingOut(s, out) \in Seq(W \ out)
  BY <1>1 DEF LeavingOut
<1> QED  BY <1>2

\* One entry more.
LEMMA LeavingOutAppend ==
  ASSUME NEW W, NEW s \in Seq(W), NEW x \in W, NEW out
  PROVE  LeavingOut(Append(s, x), out) =
           IF x \in out THEN LeavingOut(s, out) ELSE Append(LeavingOut(s, out), x)
<1> DEFINE t == Append(s, x)
           n == Len(s)
<1>1. n \in Nat /\ t \in Seq(W) /\ Len(t) = n + 1 /\ t[n + 1] = x /\ (n + 1) - 1 = n /\ n + 1 \in 1..(n + 1)
  OBVIOUS
<1>2. \A i \in 1..n : s[i] = t[i]
  OBVIOUS
<1> HIDE DEF t
<1>3. Kept(s, out)[n] = Kept(t, out)[n]
  <2>1. n <= Len(s) /\ n <= Len(t)
    BY <1>1
  <2> QED  BY <1>1, <1>2, <2>1, KeptOfPrefix
<1> HIDE DEF n
<1>4. Kept(t, out)[n + 1] = IF t[n + 1] \in out THEN Kept(t, out)[(n + 1) - 1]
                            ELSE Append(Kept(t, out)[(n + 1) - 1], t[n + 1])
  <2>1. \A i \in 1..Len(t) : Kept(t, out)[i] = IF t[i] \in out THEN Kept(t, out)[i - 1]
                                                 ELSE Append(Kept(t, out)[i - 1], t[i])
    <3>1. Entrywise(W, t, out)
      BY <1>1, KeptIs
    <3> QED  BY <3>1 DEF Entrywise
  <2> QED  BY <1>1, <2>1
<1>5. Kept(t, out)[n + 1] = IF x \in out THEN Kept(t, out)[n] ELSE Append(Kept(t, out)[n], x)
  BY <1>1, <1>4, Zenon
<1>6. LeavingOut(t, out) = Kept(t, out)[n + 1]
  BY <1>1 DEF LeavingOut
<1>7. LeavingOut(s, out) = Kept(t, out)[n]
  BY <1>3, Zenon DEF LeavingOut, n
<1> QED  BY <1>5, <1>6, <1>7, Zenon DEF t

\* A tail that is left out.
LEMMA LeavingOutTail ==
  ASSUME NEW W, NEW s \in Seq(W), NEW out, NEW k \in 0..Len(s), \A i \in (k + 1)..Len(s) : s[i] \in out
  PROVE  LeavingOut(s, out) = LeavingOut(SubSeq(s, 1, k), out)
<1> DEFINE n == Len(s)
           t == SubSeq(s, 1, k)
           T == {i \in 0..(n - k) : Kept(s, out)[k + i] = Kept(s, out)[k]}
<1>1. n \in Nat /\ k \in Nat /\ k <= n /\ n - k \in Nat /\ t \in Seq(W) /\ Len(t) = k
  OBVIOUS
<1>2. \A i \in 1..k : s[i] = t[i]
  OBVIOUS
<1> HIDE DEF t
<1>3. Kept(s, out)[k] = Kept(t, out)[k]
  <2>1. k <= Len(s) /\ k <= Len(t)
    BY <1>1
  <2> QED  BY <1>1, <1>2, <2>1, KeptOfPrefix
<1>4. 0 \in T
  BY <1>1
<1>5. ASSUME NEW i \in 0..(n - k - 1), i \in T
      PROVE  i + 1 \in T
  <2>1. /\ k + (i + 1) \in 1..n /\ k + (i + 1) \in (k + 1)..n /\ i + 1 \in 0..(n - k)
        /\ (k + (i + 1)) - 1 = k + i
    BY <1>1
  <2>2. s[k + (i + 1)] \in out
    BY <2>1
  <2>3. Kept(s, out)[k + (i + 1)] = Kept(s, out)[(k + (i + 1)) - 1]
    BY <2>1, <2>2, KeptIs DEF Entrywise
  <2>4. Kept(s, out)[k + i] = Kept(s, out)[k]
    BY <1>5
  <2> QED  BY <2>1, <2>3, <2>4
<1>6. 0..(n - k) \subseteq T
  <2> HIDE DEF T, n
  <2> QED  BY <1>1, <1>4, <1>5, Induction
<1>7. Kept(s, out)[n] = Kept(s, out)[k]
  <2>1. n - k \in 0..(n - k) /\ k + (n - k) = n
    BY <1>1
  <2>2. n - k \in T
    BY <1>6, <2>1
  <2> QED  BY <2>1, <2>2
<1> QED  BY <1>1, <1>3, <1>7, Zenon DEF LeavingOut, t

\* Who leaves out some, and then more, might as well have left out more at once.
LEMMA LeavingOutMore ==
  ASSUME NEW W, NEW s \in Seq(W), NEW T, NEW U, T \subseteq U
  PROVE  LeavingOut(LeavingOut(s, T), U) = LeavingOut(s, U)
<1> DEFINE n == Len(s)
           G == {i \in 0..n : LeavingOut(Kept(s, T)[i], U) = Kept(s, U)[i]}
<1>1. /\ n \in Nat /\ Kept(s, T) \in [0..n -> Seq(W \ T)]
      /\ Kept(s, T)[0] = <<>> /\ Kept(s, U)[0] = <<>>
      /\ \A i \in 1..n : Kept(s, T)[i] = IF s[i] \in T THEN Kept(s, T)[i - 1] ELSE Append(Kept(s, T)[i - 1], s[i])
      /\ \A i \in 1..n : Kept(s, U)[i] = IF s[i] \in U THEN Kept(s, U)[i - 1] ELSE Append(Kept(s, U)[i - 1], s[i])
  <2>1. /\ n \in Nat /\ Kept(s, T) \in [0..n -> Seq(W \ T)] /\ Kept(s, T)[0] = <<>>
        /\ \A i \in 1..n : Kept(s, T)[i] = IF s[i] \in T THEN Kept(s, T)[i - 1] ELSE Append(Kept(s, T)[i - 1], s[i])
    BY KeptIs DEF Entrywise
  <2>2. /\ Kept(s, U)[0] = <<>>
        /\ \A i \in 1..n : Kept(s, U)[i] = IF s[i] \in U THEN Kept(s, U)[i - 1] ELSE Append(Kept(s, U)[i - 1], s[i])
    BY KeptIs DEF Entrywise
  <2> QED  BY <2>1, <2>2
<1>2. 0 \in G
  <2> DEFINE none == <<>>
  <2>1. none \in Seq(W) /\ Len(none) = 0
    OBVIOUS
  <2>2. LeavingOut(none, U) = Kept(none, U)[0] /\ Kept(none, U)[0] = <<>>
    <3> HIDE DEF none
    <3> QED  BY <2>1, KeptIs DEF Entrywise, LeavingOut
  <2>3. 0 \in 0..n
    BY <1>1
  <2> QED  BY <1>1, <2>2, <2>3
<1>3. ASSUME NEW i \in 0..(n - 1), i \in G
      PROVE  i + 1 \in G
  <2>1. i + 1 \in 1..n /\ i + 1 \in 0..n /\ (i + 1) - 1 = i /\ i \in 0..n /\ s[i + 1] \in W
    BY <1>1
  <2> DEFINE v == Kept(s, T)[i]
             x == s[i + 1]
  <2>2. v \in Seq(W)
    BY <1>1, <2>1
  <2>3. /\ Kept(s, T)[i + 1] = IF x \in T THEN v ELSE Append(v, x)
        /\ Kept(s, U)[i + 1] = IF x \in U THEN Kept(s, U)[i] ELSE Append(Kept(s, U)[i], x)
    BY <1>1, <2>1
  <2>4. LeavingOut(v, U) = Kept(s, U)[i]
    BY <1>3
  <2>8. x \in W
    BY <2>1
  <2> HIDE DEF v, x
  <2>5. LeavingOut(Append(v, x), U) = IF x \in U THEN LeavingOut(v, U) ELSE Append(LeavingOut(v, U), x)
    BY <2>2, <2>8, LeavingOutAppend
  <2>6. LeavingOut(Kept(s, T)[i + 1], U) = Kept(s, U)[i + 1]
    <3>1. CASE x \in T
      <4>1. x \in U
        BY <3>1
      <4> QED  BY <2>3, <2>4, <3>1, <4>1, Zenon
    <3>2. CASE x \notin T
      BY <2>3, <2>4, <2>5, <3>2, Zenon
    <3> QED  BY <3>1, <3>2
  <2> QED  BY <2>1, <2>6
<1>4. 0..n \subseteq G
  <2> HIDE DEF G, n
  <2> QED  BY <1>1, <1>2, <1>3, Induction
<1>5. n \in G
  BY <1>1, <1>4
<1> QED  BY <1>5 DEF LeavingOut

LEMMA LeavingOutShortens ==
  ASSUME NEW W, NEW s \in Seq(W), NEW out
  PROVE  Len(LeavingOut(s, out)) <= Len(s)
<1> DEFINE n == Len(s)
           T == {i \in 0..n : Len(Kept(s, out)[i]) <= i}
<1>1. /\ n \in Nat /\ Kept(s, out) \in [0..n -> Seq(W \ out)] /\ Kept(s, out)[0] = <<>>
      /\ \A i \in 1..n : Kept(s, out)[i] = IF s[i] \in out THEN Kept(s, out)[i - 1]
                                           ELSE Append(Kept(s, out)[i - 1], s[i])
  BY KeptIs DEF Entrywise
<1>2. 0 \in T
  BY <1>1
<1>3. ASSUME NEW i \in 0..(n - 1), i \in T
      PROVE  i + 1 \in T
  <2>1. i + 1 \in 1..n /\ i + 1 \in 0..n /\ (i + 1) - 1 = i /\ i \in 0..n /\ i \in Int
    BY <1>1
  <2>2. Kept(s, out)[i] \in Seq(W \ out) /\ Len(Kept(s, out)[i]) <= i
    BY <1>1, <1>3, <2>1
  <2>3. s[i + 1] \notin out => s[i + 1] \in W \ out
    BY <2>1
  <2>4. Kept(s, out)[i + 1] = IF s[i + 1] \in out THEN Kept(s, out)[i] ELSE Append(Kept(s, out)[i], s[i + 1])
    BY <1>1, <2>1
  <2>5. Len(Kept(s, out)[i + 1]) <= i + 1
    BY <2>1, <2>2, <2>3, <2>4
  <2> QED  BY <2>1, <2>5
<1>4. 0..n \subseteq T
  <2> HIDE DEF T, n
  <2> QED  BY <1>1, <1>2, <1>3, Induction
<1>5. n \in T
  BY <1>1, <1>4
<1> QED  BY <1>5 DEF LeavingOut

LEMMA Extremes ==
  ASSUME NEW n \in Nat, NEW T \in SUBSET (1..n), T # {}
  PROVE  /\ Min(T) \in T /\ \A k \in T : Min(T) <= k
         /\ Max(T) \in T /\ \A k \in T : k <= Max(T)
<1>1. Min(T) \in T /\ \A k \in T : Min(T) <= k
  <2>1. T \in SUBSET Nat
    OBVIOUS
  <2>2. \E m \in T : \A k \in T : m <= k
    BY <2>1, Least
  <2>3. Min(T) = CHOOSE m \in T : \A k \in T : m <= k
    BY Zenon DEF Min
  <2> QED  BY <2>2, <2>3
<1>2. Max(T) \in T /\ \A k \in T : k <= Max(T)
  <2> DEFINE U == {n - k : k \in T}
  <2>1. U \in SUBSET Nat /\ U # {}
    <3>1. \A k \in T : n - k \in Nat
      OBVIOUS
    <3> QED  BY <3>1
  <2>2. \E m \in U : \A k \in U : m <= k
    <3> HIDE DEF U
    <3> QED  BY <2>1, Least
  <2>3. PICK m \in T : \A k \in T : n - m <= n - k
    BY <2>2
  <2>4. \A k \in T : k \in Int
    OBVIOUS
  <2>5. \E x \in T : \A k \in T : x >= k
    BY <2>3, <2>4
  <2>6. Max(T) = CHOOSE x \in T : \A k \in T : x >= k
    BY Zenon DEF Max
  <2>7. Max(T) \in T /\ \A k \in T : Max(T) >= k
    BY <2>5, <2>6
  <2> QED  BY <2>4, <2>7
<1> QED  BY <1>1, <1>2

----------------------------------------------------------------------------
(* config.txt.                                                              *)

OurLine == Line("Include", OwnFile)
Nobodys == {Blank, OurLine}
LineText == {Line("idle", ""), Blank, OurLine} \cup UNION {ToSet(t) : t \in OtherTexts}

LEMMA OurLines ==
  /\ OurLine \in LineText /\ Blank \in LineText /\ OurLine # Blank
  /\ \A l \in LineText : IsIncludeOf(l, OwnFile) <=> l = OurLine
  /\ Idle \in Seq(LineText) /\ OtherTexts \subseteq Seq(LineText)
<1>1. OurLine \in LineText /\ Blank \in LineText /\ Line("idle", "") \in LineText
  BY DEF LineText
<1>2. /\ OurLine = [cmd |-> "Include", file |-> OwnFile] /\ Blank = [cmd |-> "", file |-> ""]
      /\ Line("idle", "") = [cmd |-> "idle", file |-> ""]
  BY DEF OurLine, Blank, Line
<1>3. OurLine.cmd = "Include" /\ OurLine.file = OwnFile /\ Blank.cmd = ""
  BY <1>2
<1>4. OurLine # Blank
  BY <1>3
<1>5. ASSUME NEW l \in LineText
      PROVE  l = Line(l.cmd, l.file)
  <2>1. CASE l \in {Line("idle", ""), Blank, OurLine}
    BY <1>2, <2>1 DEF Line
  <2>2. CASE \E t \in OtherTexts : l \in ToSet(t)
    BY <2>2, TextsAssumption
  <2> QED  BY <2>1, <2>2 DEF LineText
<1>6. \A l \in LineText : IsIncludeOf(l, OwnFile) <=> l = OurLine
  BY <1>3, <1>5 DEF IsIncludeOf, OurLine
<1>7. Idle \in Seq(LineText)
  <2> DEFINE a == Line("idle", "")
  <2>1. <<a>> \in Seq(LineText)
    <3>1. a \in LineText
      BY <1>1
    <3> HIDE DEF a
    <3> QED  BY <3>1
  <2> QED  BY <2>1 DEF Idle
<1>8. ASSUME NEW t \in OtherTexts
      PROVE  t \in Seq(LineText)
  <2>1. t \in Seq(ToSet(t)) /\ ToSet(t) \subseteq LineText
    BY TextsAssumption DEF LineText
  <2> HIDE DEF LineText
  <2> QED  BY <2>1
<1> QED  BY <1>1, <1>4, <1>6, <1>7, <1>8

LEMMA ReadLinesIs ==
  ASSUME NEW text \in Seq(LineText)
  PROVE  /\ ReadLines(text) \in Seq(LineText) /\ Len(ReadLines(text)) <= Len(text)
         /\ Others(ReadLines(text)) = Others(text)
<1>1. CASE text # <<>> /\ Last(text) = Blank
  <2> DEFINE k == Len(text) - 1
  <2>1. Len(text) \in Nat /\ k \in 0..Len(text) /\ Len(text) = k + 1 /\ \A i \in (k + 1)..Len(text) : i = Len(text)
    BY <1>1
  <2>2. ReadLines(text) = SubSeq(text, 1, k)
    BY <1>1 DEF ReadLines, Front
  <2>3. \A i \in (k + 1)..Len(text) : text[i] \in {Blank, Line("Include", OwnFile)}
    BY <1>1, <2>1 DEF Last
  <2>4. SubSeq(text, 1, k) \in Seq(LineText) /\ Len(SubSeq(text, 1, k)) = k
    <3> HIDE DEF k
    <3> QED  BY <2>1
  <2> HIDE DEF k
  <2>5. Others(text) = Others(SubSeq(text, 1, k))
    BY <2>1, <2>3, LeavingOutTail DEF Others
  <2> QED  BY <2>1, <2>2, <2>4, <2>5
<1>2. CASE ~(text # <<>> /\ Last(text) = Blank)
  <2>1. ReadLines(text) = text
    BY <1>2 DEF ReadLines
  <2> QED  BY <2>1
<1> QED  BY <1>1, <1>2

LEMMA WithIncludeIs ==
  ASSUME NEW lines \in Seq(LineText)
  PROVE  LET with == WithInclude(lines, OwnFile) IN
         /\ with \in Seq(LineText) /\ Len(with) <= Len(lines) + 1
         /\ Others(with) = Others(lines) /\ HasInclude(with, OwnFile)
<1> DEFINE T == {i \in 1..Len(lines) : lines[i] # Blank}
           k == IF T # {} THEN Max(T) ELSE 0
           s == SubSeq(lines, 1, k)
           new == Append(s, OurLine)
<1>1. CASE HasInclude(lines, OwnFile)
  BY <1>1 DEF WithInclude
<1>2. CASE ~HasInclude(lines, OwnFile)
  <2>1. WithInclude(lines, OwnFile) = new
    BY <1>2 DEF WithInclude, SelectLastInSeq, OurLine
  <2>2. Len(lines) \in Nat /\ T \in SUBSET (1..Len(lines))
    OBVIOUS
  <2>3. k \in 0..Len(lines) /\ \A i \in (k + 1)..Len(lines) : i \notin T
    <3>1. CASE T = {}
      BY <2>2, <3>1
    <3>2. CASE T # {}
      <4>1. k = Max(T)
        BY <3>2
      <4>2. Max(T) \in T /\ \A i \in T : i <= Max(T)
        <5> HIDE DEF T
        <5> QED  BY <2>2, <3>2, Extremes
      <4>3. k \in 1..Len(lines) /\ \A i \in T : i <= k
        BY <2>2, <4>1, <4>2
      <4> HIDE DEF k, T
      <4> QED  BY <2>2, <4>3
    <3> QED  BY <3>1, <3>2
  <2>4. \A i \in (k + 1)..Len(lines) : lines[i] = Blank
    BY <2>2, <2>3
  <2> HIDE DEF k
  <2>5. s \in Seq(LineText) /\ Len(s) = k
    BY <2>2, <2>3
  <2>6. Others(lines) = Others(s)
    <3>1. \A i \in (k + 1)..Len(lines) : lines[i] \in Nobodys
      BY <2>4 DEF Nobodys
    <3> HIDE DEF T
    <3>2. LeavingOut(lines, Nobodys) = LeavingOut(SubSeq(lines, 1, k), Nobodys)
      BY <2>3, <3>1, LeavingOutTail
    <3> QED  BY <3>2 DEF Others, Nobodys, OurLine
  <2> HIDE DEF s
  <2>7. Others(new) = Others(s)
    <3>1. LeavingOut(Append(s, OurLine), Nobodys) = LeavingOut(s, Nobodys)
      BY <2>5, OurLines, LeavingOutAppend DEF Nobodys
    <3> QED  BY <3>1 DEF Others, Nobodys, OurLine
  <2>8. new \in Seq(LineText) /\ Len(new) = k + 1 /\ k + 1 \in DOMAIN new /\ new[k + 1] = OurLine
    BY <2>3, <2>5, OurLines
  <2>9. HasInclude(new, OwnFile)
    <3>1. IsIncludeOf(new[k + 1], OwnFile)
      BY <2>8, OurLines
    <3> QED  BY <2>8, <3>1 DEF HasInclude
  <2>10. Len(new) <= Len(lines) + 1
    BY <2>2, <2>3, <2>8
  <2> QED  BY <2>1, <2>6, <2>7, <2>8, <2>9, <2>10
<1> QED  BY <1>1, <1>2

LEMMA WithoutIncludeIs ==
  ASSUME NEW lines \in Seq(LineText)
  PROVE  LET without == WithoutInclude(lines, OwnFile) IN
         /\ without \in Seq(LineText) /\ Len(without) <= Len(lines)
         /\ Others(without) = Others(lines) /\ ~HasInclude(without, OwnFile)
<1> DEFINE T == {l \in ToSet(lines) : IsIncludeOf(l, OwnFile)}
           V == ToSet(lines)
           new == LeavingOut(lines, T)
<1>1. lines \in Seq(V) /\ V \subseteq LineText
  BY DEF ToSet
<1>2. T \subseteq Nobodys
  BY <1>1, OurLines DEF Nobodys
<1>3. \A l \in V \ T : ~IsIncludeOf(l, OwnFile)
  OBVIOUS
<1> HIDE DEF T, V
<1>4. new \in Seq(V \ T) /\ Len(new) <= Len(lines)
  BY <1>1, LeavingOutIs, LeavingOutShortens
<1>5. LeavingOut(new, Nobodys) = LeavingOut(lines, Nobodys)
  BY <1>1, <1>2, LeavingOutMore
<1> HIDE DEF new
<1>6. ~HasInclude(new, OwnFile)
  <2>1. \A i \in DOMAIN new : new[i] \in V \ T
    BY <1>4
  <2> QED  BY <1>3, <2>1 DEF HasInclude
<1>7. new \in Seq(LineText)
  BY <1>1, <1>4
<1>8. WithoutInclude(lines, OwnFile) = new
  BY Zenon DEF WithoutInclude, new, T
<1> QED  BY <1>4, <1>5, <1>6, <1>7, <1>8 DEF Others, Nobodys, OurLine

LEMMA WriteLinesIs ==
  ASSUME NEW lines \in Seq(LineText)
  PROVE  /\ WriteLines(lines) \in Seq(LineText)
         /\ ReadLines(WriteLines(lines)) = lines
         /\ Len(WriteLines(lines)) = (IF lines = <<>> THEN 1 ELSE Len(lines) + 1)
<1>1. Blank \in LineText
  BY OurLines
<1>2. CASE lines = <<>>
  <2>1. WriteLines(lines) = <<Blank>>
    BY <1>2 DEF WriteLines
  <2> DEFINE text == <<Blank>>
  <2>2. /\ text \in Seq(LineText) /\ text # <<>> /\ Len(text) = 1 /\ text[1] = Blank
        /\ SubSeq(text, 1, 0) = <<>>
    BY <1>1
  <2> HIDE DEF text
  <2>3. Last(text) = Blank /\ Front(text) = <<>>
    BY <2>2 DEF Last, Front
  <2>4. ReadLines(text) = <<>>
    BY <2>2, <2>3 DEF ReadLines
  <2>5. WriteLines(lines) = text
    BY <2>1 DEF text
  <2> QED  BY <1>2, <2>2, <2>4, <2>5
<1>3. CASE lines # <<>>
  <2> DEFINE text == Append(lines, Blank)
  <2>1. WriteLines(lines) = text
    BY <1>3 DEF WriteLines
  <2>2. text \in Seq(LineText) /\ Len(text) = Len(lines) + 1 /\ text # <<>> /\ Last(text) = Blank
    BY <1>1 DEF Last
  <2>3. SubSeq(text, 1, Len(text) - 1) = lines
    BY <1>1, <2>2
  <2> HIDE DEF text
  <2>4. ReadLines(text) = lines
    BY <2>2, <2>3 DEF ReadLines, Front
  <2> QED  BY <1>3, <2>1, <2>2, <2>4
<1> QED  BY <1>2, <1>3

\* What setEngaged is about to write is what it makes of the file, unless somebody
\* else has written since.
Edited(text, want) ==
  IF want THEN WithInclude(ReadLines(text), OwnFile) ELSE WithoutInclude(ReadLines(text), OwnFile)
ConfigInv ==
  /\ configTxt \in Seq(LineText) /\ reading \in Seq(LineText)
  /\ wanted \in BOOLEAN /\ meanwhile \in BOOLEAN
  /\ reading # Idle /\ ~meanwhile => reading = Edited(configTxt, wanted)

LEMMA EditedIs ==
  ASSUME NEW text \in Seq(LineText), NEW want \in BOOLEAN
  PROVE  /\ Edited(text, want) \in Seq(LineText) /\ Len(Edited(text, want)) <= Len(text) + 1
         /\ Others(Edited(text, want)) = Others(text)
         /\ HasInclude(Edited(text, want), OwnFile) = want
<1> DEFINE lines == ReadLines(text)
<1>1. lines \in Seq(LineText) /\ Len(lines) <= Len(text) /\ Others(lines) = Others(text)
  BY ReadLinesIs
<1>3. Len(lines) \in Nat /\ Len(text) \in Nat
  BY <1>1
<1> HIDE DEF lines
<1>2. CASE want = TRUE
  <2>1. /\ WithInclude(lines, OwnFile) \in Seq(LineText) /\ Len(WithInclude(lines, OwnFile)) <= Len(lines) + 1
        /\ Others(WithInclude(lines, OwnFile)) = Others(lines) /\ HasInclude(WithInclude(lines, OwnFile), OwnFile)
    BY <1>1, WithIncludeIs
  <2>2. Edited(text, want) = WithInclude(lines, OwnFile)
    BY <1>2 DEF Edited, lines
  <2>3. Len(WithInclude(lines, OwnFile)) \in Nat
    BY <2>1
  <2>4. HasInclude(Edited(text, want), OwnFile) = TRUE
    BY <2>1, <2>2 DEF HasInclude
  <2> QED  BY <1>1, <1>2, <1>3, <2>1, <2>2, <2>3, <2>4
<1>4. CASE want = FALSE
  <2>1. /\ WithoutInclude(lines, OwnFile) \in Seq(LineText) /\ Len(WithoutInclude(lines, OwnFile)) <= Len(lines)
        /\ Others(WithoutInclude(lines, OwnFile)) = Others(lines) /\ ~HasInclude(WithoutInclude(lines, OwnFile), OwnFile)
    BY <1>1, WithoutIncludeIs
  <2>2. Edited(text, want) = WithoutInclude(lines, OwnFile)
    BY <1>4 DEF Edited, lines
  <2>3. Len(WithoutInclude(lines, OwnFile)) \in Nat
    BY <2>1
  <2>4. HasInclude(Edited(text, want), OwnFile) = FALSE
    BY <2>1, <2>2 DEF HasInclude
  <2>5. Len(WithoutInclude(lines, OwnFile)) <= Len(text) + 1
    BY <1>1, <1>3, <2>1, <2>3
  <2> QED  BY <1>1, <1>4, <2>1, <2>2, <2>4, <2>5
<1> QED  BY <1>2, <1>4

LEMMA ConfigStart == ConfigInit => ConfigInv
<1> SUFFICES ASSUME ConfigInit PROVE ConfigInv
  OBVIOUS
<1>1. \A t \in OtherTexts : t \in Seq(LineText)
  BY OurLines
<1>2. Idle \in Seq(LineText)
  BY OurLines
<1> QED  BY <1>1, <1>2 DEF ConfigInit, ConfigInv

LEMMA ConfigKeeps == ConfigInv /\ [ConfigNext]_configVars => ConfigInv'
<1> SUFFICES ASSUME ConfigInv, [ConfigNext]_configVars PROVE ConfigInv'
  OBVIOUS
<1>1. \A t \in OtherTexts : t \in Seq(LineText)
  BY OurLines
<1>2. Idle \in Seq(LineText)
  BY OurLines
<1>3. ASSUME NEW want \in BOOLEAN, SetEngaged(want)
      PROVE  ConfigInv'
  <2>1. reading' = Edited(configTxt, want) /\ wanted' = want /\ configTxt' = configTxt /\ meanwhile' = FALSE
    BY <1>3 DEF SetEngaged, Edited
  <2>2. Edited(configTxt, want) \in Seq(LineText)
    BY EditedIs DEF ConfigInv
  <2>3. configTxt \in Seq(LineText)
    BY DEF ConfigInv
  <2> QED  BY <2>1, <2>2, <2>3 DEF ConfigInv
<1>4. CASE WriteText
  <2>1. reading' = Idle /\ wanted' = wanted /\ meanwhile' = meanwhile /\ configTxt' = WriteLines(reading)
    BY <1>4 DEF WriteText
  <2>2. WriteLines(reading) \in Seq(LineText)
    BY WriteLinesIs DEF ConfigInv
  <2>3. wanted \in BOOLEAN /\ meanwhile \in BOOLEAN
    BY DEF ConfigInv
  <2> QED  BY <1>2, <2>1, <2>2, <2>3 DEF ConfigInv
<1>5. CASE WriteFails
  <2>1. (reading' = reading \/ reading' = Idle) /\ wanted' = wanted /\ meanwhile' = meanwhile /\ configTxt' = configTxt
    BY <1>5 DEF WriteFails
  <2> QED  BY <1>2, <2>1 DEF ConfigInv
<1>6. CASE AnotherWrites
  <2>1. reading' = reading /\ wanted' = wanted /\ meanwhile' = TRUE /\ configTxt' \in Seq(LineText)
    BY <1>1, <1>6 DEF AnotherWrites
  <2> QED  BY <2>1 DEF ConfigInv
<1>7. CASE RefreshEngaged
  <2>1. reading' = reading /\ wanted' = wanted /\ meanwhile' = meanwhile /\ configTxt' = configTxt
    BY <1>7 DEF RefreshEngaged
  <2> QED  BY <2>1 DEF ConfigInv
<1>8. CASE UNCHANGED configVars
  <2>1. reading' = reading /\ wanted' = wanted /\ meanwhile' = meanwhile /\ configTxt' = configTxt
    BY <1>8 DEF configVars
  <2> QED  BY <2>1 DEF ConfigInv
<1> QED  BY <1>3, <1>4, <1>5, <1>6, <1>7, <1>8 DEF ConfigNext

\* The lines of other programs are kept.
LEMMA WriteTextKeeps ==
  ASSUME ConfigInv, WriteText, ~meanwhile
  PROVE  /\ Others(configTxt') = Others(configTxt)
         /\ HasInclude(ReadLines(configTxt'), OwnFile) = engaged'
         /\ Len(configTxt') <= Len(configTxt) + 2
<1> DEFINE new == Edited(configTxt, wanted)
<1>1. configTxt' = WriteLines(new) /\ engaged' = wanted
  BY DEF WriteText, ConfigInv
<1>2. /\ new \in Seq(LineText) /\ Len(new) <= Len(configTxt) + 1
      /\ Others(new) = Others(configTxt) /\ HasInclude(new, OwnFile) = wanted
      /\ configTxt \in Seq(LineText)
  BY EditedIs DEF ConfigInv
<1> HIDE DEF new
<1>3. /\ WriteLines(new) \in Seq(LineText) /\ ReadLines(WriteLines(new)) = new
      /\ Len(WriteLines(new)) = (IF new = <<>> THEN 1 ELSE Len(new) + 1)
  BY <1>2, WriteLinesIs
<1>4. Len(new) \in Nat /\ Len(configTxt) \in Nat
  BY <1>2
<1>5. Len(WriteLines(new)) <= Len(configTxt) + 2
  BY <1>2, <1>3, <1>4
<1>6. Others(WriteLines(new)) = Others(new)
  BY <1>3, ReadLinesIs
<1> QED  BY <1>1, <1>2, <1>3, <1>5, <1>6

----------------------------------------------------------------------------
(* The bands.                                                               *)

LEMMA DecimalsAre ==
  ASSUME NEW v \in Int
  PROVE  /\ Decimals(v) \in Int /\ Decimals(Decimals(v)) = Decimals(v)
         /\ Sensible(v) => Sensible(Decimals(v))
         /\ v <= 100000 => Decimals(v) <= 100000
         /\ -30000 <= v /\ v <= 30000 => -30000 <= Decimals(v) /\ Decimals(v) <= 30000
         /\ v = 0 => Decimals(v) = 0
<1>1. \A w \in Int : ((w + 5) \div 10) * 10 \in Int /\ ((5 - w) \div 10) * 10 \in Int
  OBVIOUS
<1>2. CASE v < 0
  <2>1. PICK k : k = (5 - v) \div 10
    OBVIOUS
  <2>2. k \in Int /\ 10 * k <= 5 - v /\ 5 - v < 10 * k + 10
    BY <2>1
  <2>3. Decimals(v) = -(k * 10)
    BY <1>2, <2>1 DEF Decimals
  <2>4. k >= 0 /\ (k = 0 => Decimals(v) = 0)
    BY <1>2, <2>2, <2>3
  <2>5. (5 - (-(k * 10))) \div 10 = k /\ (0 + 5) \div 10 = 0
    BY <2>2, SMT
  <2>6. Decimals(Decimals(v)) = Decimals(v)
    <3>1. CASE k = 0
      BY <2>4, <2>5, <3>1 DEF Decimals
    <3>2. CASE k > 0
      <4>1. -(k * 10) < 0
        BY <2>2, <3>2
      <4> QED  BY <2>3, <2>5, <4>1 DEF Decimals
    <3> QED  BY <2>2, <2>4, <3>1, <3>2
  <2> QED  BY <1>2, <2>2, <2>3, <2>4, <2>6, SMT DEF Sensible
<1>3. CASE v >= 0
  <2>1. PICK k : k = (v + 5) \div 10
    OBVIOUS
  <2>2. k \in Int /\ 10 * k <= v + 5 /\ v + 5 < 10 * k + 10
    BY <2>1
  <2>3. Decimals(v) = k * 10
    BY <1>3, <2>1 DEF Decimals
  <2>4. k >= 0 /\ (v = 0 => k = 0)
    BY <1>3, <2>2
  <2>5. (k * 10 + 5) \div 10 = k
    BY <2>2, SMT
  <2>6. Decimals(Decimals(v)) = Decimals(v)
    <3>1. ~(k * 10 < 0)
      BY <2>2, <2>4
    <3> QED  BY <2>3, <2>5, <3>1 DEF Decimals
  <2> QED  BY <1>3, <2>2, <2>3, <2>4, <2>6, SMT DEF Sensible
<1> QED  BY <1>2, <1>3

LEMMA BoundIs ==
  ASSUME NEW v \in Int, NEW lo \in Int, NEW hi \in Int, lo <= hi
  PROVE  /\ Bound(v, lo, hi) \in Int /\ lo <= Bound(v, lo, hi) /\ Bound(v, lo, hi) <= hi
         /\ lo <= v /\ v <= hi => Bound(v, lo, hi) = v
BY DEF Bound

\* The types a band may have, the bands the block has room for, and their curves.
Kind == {"PK", "LS", "HS", "LSC", "HSC"} \cup {b.type : b \in Values}
          \cup UNION {{f.filters[i] : i \in DOMAIN f.filters} : f \in PeaceFiles}
GoodBand ==
  {b \in [freq : Int, gain : Int, q : Int, type : Kind, on : BOOLEAN] :
     Sensible(b.gain) /\ b.q <= 100000}
GoodCurve == {c \in Seq(GoodBand) : Len(c) >= 1 /\ Len(c) <= kMaxBands}

Whole(b) == b = Band(b.freq, b.gain, b.q, b.type, b.on)
WithGain(b, g) == [b EXCEPT !.gain = g]
WithShape(b, g, r) == [b EXCEPT !.gain = g, !.q = r]
WithAll(b, f, g, r) == [b EXCEPT !.freq = f, !.gain = g, !.q = r]

LEMMA BandIs ==
  ASSUME NEW freq \in Int, NEW gain \in Int, NEW q \in Int, NEW type \in Kind, NEW live \in BOOLEAN,
         Sensible(gain), q <= 100000
  PROVE  Band(freq, gain, q, type, live) \in GoodBand
<1> DEFINE b == [freq |-> freq, gain |-> gain, q |-> q, type |-> type, on |-> live]
<1>1. b \in [freq : Int, gain : Int, q : Int, type : Kind, on : BOOLEAN] /\ b.gain = gain /\ b.q = q
  OBVIOUS
<1> HIDE DEF b
<1>2. b \in GoodBand
  BY <1>1 DEF GoodBand
<1> QED  BY <1>2 DEF Band, b

LEMMA BandHas ==
  ASSUME NEW b \in GoodBand
  PROVE  /\ Whole(b)
         /\ b.freq \in Int /\ b.gain \in Int /\ b.q \in Int /\ b.type \in Kind /\ b.on \in BOOLEAN
         /\ Sensible(b.gain) /\ b.q <= 100000
BY DEF GoodBand, Band, Whole

LEMMA BandFields ==
  ASSUME NEW freq, NEW gain, NEW q, NEW type, NEW live
  PROVE  LET b == Band(freq, gain, q, type, live) IN
         b.freq = freq /\ b.gain = gain /\ b.q = q /\ b.type = type /\ b.on = live
BY DEF Band

LEMMA BandAltered ==
  ASSUME NEW b, Whole(b), NEW f, NEW g, NEW r
  PROVE  /\ WithGain(b, g) = Band(b.freq, g, b.q, b.type, b.on)
         /\ WithShape(b, g, r) = Band(b.freq, g, r, b.type, b.on)
         /\ WithAll(b, f, g, r) = Band(f, g, r, b.type, b.on)
<1>1. PICK freq, gain, q, type, live :
        freq = b.freq /\ gain = b.gain /\ q = b.q /\ type = b.type /\ live = b.on
  OBVIOUS
<1>2. b = Band(freq, gain, q, type, live)
  BY <1>1 DEF Whole
<1>3. [b EXCEPT !.gain = g] = Band(freq, g, q, type, live)
  BY <1>2 DEF Band
<1>4. [Band(freq, g, q, type, live) EXCEPT !.q = r] = Band(freq, g, r, type, live)
  BY DEF Band
<1>5. [b EXCEPT !.freq = f] = Band(f, gain, q, type, live)
  BY <1>2 DEF Band
<1>6. [Band(f, gain, q, type, live) EXCEPT !.gain = g] = Band(f, g, q, type, live)
  BY DEF Band
<1>7. [Band(f, g, q, type, live) EXCEPT !.q = r] = Band(f, g, r, type, live)
  BY DEF Band
<1>8. \A a : /\ [a EXCEPT !.gain = g, !.q = r] = [[a EXCEPT !.gain = g] EXCEPT !.q = r]
             /\ [a EXCEPT !.freq = f, !.gain = g, !.q = r] =
                   [[[a EXCEPT !.freq = f] EXCEPT !.gain = g] EXCEPT !.q = r]
  OBVIOUS
<1>9. /\ [b EXCEPT !.gain = g, !.q = r] = Band(freq, g, r, type, live)
      /\ [b EXCEPT !.freq = f, !.gain = g, !.q = r] = Band(f, g, r, type, live)
  BY <1>3, <1>4, <1>5, <1>6, <1>7, <1>8, Zenon
<1> QED  BY <1>1, <1>3, <1>9, Zenon DEF WithGain, WithShape, WithAll

LEMMA KindsAre == {"PK", "LS", "HS", "LSC", "HSC"} \subseteq Kind
BY DEF Kind

LEMMA NewBandIs == \A freq \in Int : NewBand(freq) \in GoodBand
<1> TAKE freq \in Int
<1>1. Sensible(0) /\ 1410 \in Int /\ 1410 <= 100000 /\ 0 \in Int
  BY DEF Sensible
<1>2. "PK" \in Kind /\ TRUE \in BOOLEAN
  BY KindsAre
<1> DEFINE g == 0
           r == 1410
           k == "PK"
           t == TRUE
<1>3. g \in Int /\ Sensible(g) /\ r \in Int /\ r <= 100000 /\ k \in Kind /\ t \in BOOLEAN
  BY <1>1, <1>2
<1>4. NewBand(freq) = Band(freq, g, r, k, t)
  BY DEF NewBand
<1> HIDE DEF g, r, k, t
<1> QED  BY <1>3, <1>4, BandIs

LEMMA LegalIs ==
  ASSUME NEW b \in Values
  PROVE  Legal(b) \in GoodBand
<1>1. /\ b = Band(b.freq, b.gain, b.q, b.type, b.on)
      /\ b.freq \in Int /\ b.gain \in Int /\ b.q \in Int /\ b.on \in BOOLEAN /\ b.type \in Kind
  BY PresetsAssumption DEF Kind
<1> DEFINE f == Bound(b.freq, 0, kHz24)
           g == Bound(b.gain, -30000, 30000)
           r == Bound(b.q, 10, 100000)
<1>3. Legal(b) = WithAll(b, f, g, r) /\ Whole(b)
  <2>1. Legal(b) = WithAll(b, f, g, r)
    BY DEF Legal, WithAll
  <2>2. Whole(b)
    BY <1>1 DEF Whole
  <2> QED  BY <2>1, <2>2
<1>4. f \in Int /\ g \in Int /\ r \in Int /\ Sensible(g) /\ r <= 100000
  BY <1>1, SMT DEF Bound, kHz24, Sensible
<1> HIDE DEF f, g, r
<1>5. Legal(b) = Band(f, g, r, b.type, b.on)
  BY <1>1, <1>3, BandAltered
<1> QED  BY <1>1, <1>4, <1>5, BandIs

LEMMA DefaultsAre == Defaults \in GoodCurve
<1>1. DefaultFrequencies \in Seq(Int) /\ Len(DefaultFrequencies) >= 1 /\ Len(DefaultFrequencies) <= kMaxBands
  BY BandsAssumption
<1>2. \A i \in DOMAIN DefaultFrequencies : NewBand(DefaultFrequencies[i]) \in GoodBand
  BY <1>1, NewBandIs
<1>3. Defaults \in Seq(GoodBand) /\ Len(Defaults) = Len(DefaultFrequencies)
  BY <1>1, <1>2 DEF Defaults
<1> QED  BY <1>1, <1>3 DEF GoodCurve

LEMMA SetBandsAre ==
  ASSUME NEW old \in GoodCurve, NEW given \in Seq(GoodBand)
  PROVE  SetBands(old, given) \in GoodCurve
<1>1. CASE given = <<>>
  BY <1>1 DEF SetBands
<1>2. CASE given # <<>>
  <2> DEFINE n == IF Len(given) > kMaxBands THEN kMaxBands ELSE Len(given)
  <2>1. kMaxBands \in Nat /\ kMaxBands >= 1 /\ Len(given) \in Nat /\ Len(given) >= 1
    BY <1>2, BandsAssumption
  <2>2. n \in 1..Len(given) /\ n <= kMaxBands
    BY <2>1
  <2>3. SetBands(old, given) = SubSeq(given, 1, n)
    BY <1>2 DEF SetBands
  <2> HIDE DEF n
  <2>4. SubSeq(given, 1, n) \in Seq(GoodBand) /\ Len(SubSeq(given, 1, n)) = n
    BY <2>2
  <2> QED  BY <2>2, <2>3, <2>4 DEF GoodCurve
<1> QED  BY <1>1, <1>2

LEMMA SetBandsWhole ==
  ASSUME NEW old, NEW given \in GoodCurve
  PROVE  SetBands(old, given) = given
<1>1. given \in Seq(GoodBand) /\ Len(given) >= 1 /\ Len(given) <= kMaxBands /\ Len(given) \in Nat
  BY DEF GoodCurve
<1>2. kMaxBands \in Nat
  BY BandsAssumption
<1>3. SubSeq(given, 1, Len(given)) = given
  BY <1>1
<1> DEFINE n == Len(given)
<1>4. given # <<>> /\ ~(n > kMaxBands)
  BY <1>1, <1>2
<1>5. (IF n > kMaxBands THEN kMaxBands ELSE n) = n
  BY <1>4, Zenon
<1> QED  BY <1>3, <1>4, <1>5, Zenon DEF SetBands

LEMMA InsertedIs ==
  ASSUME NEW list \in GoodCurve, NEW row \in 0..Len(list), Len(list) < kMaxBands
  PROVE  Inserted(list, row) \in GoodCurve
<1> DEFINE b == NewBand(Between(list, row))
           n == Len(list)
           head == SubSeq(list, 1, row)
           tail == SubSeq(list, row + 1, n)
<1>1. list \in Seq(GoodBand) /\ n \in Nat /\ n >= 1 /\ kMaxBands \in Nat
  BY BandsAssumption DEF GoodCurve
<1>2. \A i \in 1..n : list[i].freq \in Int
  BY <1>1, BandHas
<1>3. Between(list, row) \in Int
  <2>1. row = 0 \/ row = n \/ (row \in 1..n /\ row + 1 \in 1..n)
    BY <1>1
  <2> QED  BY <1>1, <1>2, <2>1 DEF Between, Octave, Hz20, kHz20
<1>4. b \in GoodBand
  BY <1>3, NewBandIs
<1> HIDE DEF b
<1>5. head \in Seq(GoodBand) /\ Len(head) = row /\ tail \in Seq(GoodBand) /\ Len(tail) = n - row
  BY <1>1
<1>6. <<b>> \in Seq(GoodBand) /\ Len(<<b>>) = 1
  BY <1>4
<1>7. Inserted(list, row) = head \o <<b>> \o tail
  <2>1. (row + 1) - 1 = row
    BY <1>1
  <2> QED  BY <2>1 DEF Inserted, InsertAt, b
<1> HIDE DEF head, tail, n
<1>8. head \o <<b>> \in Seq(GoodBand) /\ Len(head \o <<b>>) = row + 1
  BY <1>5, <1>6
<1>9. (head \o <<b>>) \o tail \in Seq(GoodBand) /\ Len((head \o <<b>>) \o tail) = row + 1 + (n - row)
  BY <1>5, <1>8
<1> QED  BY <1>1, <1>7, <1>9 DEF GoodCurve, n

LEMMA RemovedIs ==
  ASSUME NEW list \in GoodCurve, NEW row \in DOMAIN list, Len(list) > 1
  PROVE  RemoveAt(list, row) \in GoodCurve
<1> DEFINE n == Len(list)
           head == SubSeq(list, 1, row - 1)
           tail == SubSeq(list, row + 1, n)
<1>1. list \in Seq(GoodBand) /\ n \in Nat /\ n >= 1 /\ n <= kMaxBands /\ kMaxBands \in Nat /\ row \in 1..n
  BY BandsAssumption DEF GoodCurve
<1>2. head \in Seq(GoodBand) /\ Len(head) = row - 1 /\ tail \in Seq(GoodBand) /\ Len(tail) = n - row
  BY <1>1
<1>3. RemoveAt(list, row) = head \o tail
  BY DEF RemoveAt
<1> HIDE DEF head, tail
<1>4. head \o tail \in Seq(GoodBand) /\ Len(head \o tail) = (row - 1) + (n - row)
  BY <1>2
<1> QED  BY <1>1, <1>3, <1>4 DEF GoodCurve

----------------------------------------------------------------------------
(* The files.                                                               *)

\* What every .peace file that is met holds, Peace's and the program's own.
GoodFile(f) ==
  /\ SensibleFile(f) /\ \A i \in DOMAIN f.filters : f.filters[i] \in Kind

LEMMA ReadBandsAre ==
  ASSUME NEW f, GoodFile(f)
  PROVE  ReadBands(f) \in Seq(GoodBand) /\ Len(ReadBands(f)) = Len(f.frequencies)
<1> DEFINE b(i) == Band(f.frequencies[i], Entry(f.gains, i, 0), Entry(f.qualities, i, 1410),
                        FilterOf(f.filters, i), i \notin f.disabled)
<1>1. /\ f.frequencies \in Seq(Int)
      /\ \A i \in DOMAIN f.gains : Sensible(f.gains[i])
      /\ \A i \in DOMAIN f.qualities : f.qualities[i] \in Int /\ f.qualities[i] <= 100000
      /\ \A i \in DOMAIN f.filters : f.filters[i] \in Kind
  BY DEF GoodFile, SensibleFile
<1>2. ASSUME NEW i \in DOMAIN f.frequencies
      PROVE  b(i) \in GoodBand
  <2> DEFINE g == Entry(f.gains, i, 0)
             r == Entry(f.qualities, i, 1410)
             k == FilterOf(f.filters, i)
             t == i \notin f.disabled
             v == f.frequencies[i]
  <2>1. Sensible(g) /\ g \in Int
    BY <1>1 DEF Entry, Sensible
  <2>2. r \in Int /\ r <= 100000
    BY <1>1 DEF Entry
  <2>3. k \in Kind
    BY <1>1, KindsAre DEF FilterOf, Entry
  <2>4. t \in BOOLEAN /\ v \in Int
    BY <1>1
  <2> HIDE DEF g, r, k, t, v
  <2>5. Band(v, g, r, k, t) \in GoodBand
    BY <2>1, <2>2, <2>3, <2>4, BandIs
  <2> QED  BY <2>5 DEF g, r, k, t, v
<1> HIDE DEF b
<1>3. [i \in DOMAIN f.frequencies |-> b(i)] \in Seq(GoodBand)
  BY <1>1, <1>2
<1>4. ReadBands(f) = [i \in DOMAIN f.frequencies |-> b(i)]
  BY DEF ReadBands, b
<1> QED  BY <1>1, <1>3, <1>4

LEMMA RoundedIs ==
  ASSUME NEW b \in GoodBand
  PROVE  /\ Rounded(b) = Band(b.freq, Decimals(b.gain), Decimals(b.q), b.type, b.on)
         /\ Rounded(b) \in GoodBand /\ Rounded(Rounded(b)) = Rounded(b)
<1> DEFINE g == Decimals(b.gain)
           r == Decimals(b.q)
<1>1. /\ b.freq \in Int /\ b.gain \in Int /\ b.q \in Int /\ b.type \in Kind /\ b.on \in BOOLEAN
      /\ Sensible(b.gain) /\ b.q <= 100000 /\ Whole(b)
  BY BandHas
<1>2. g \in Int /\ r \in Int /\ Sensible(g) /\ r <= 100000 /\ Decimals(g) = g /\ Decimals(r) = r
  BY <1>1, DecimalsAre
<1>3. Rounded(b) = WithShape(b, g, r)
  BY DEF Rounded, WithShape
<1>10. \A c : Rounded(c) = WithShape(c, Decimals(c.gain), Decimals(c.q))
  BY DEF Rounded, WithShape
<1> HIDE DEF g, r
<1>4. Rounded(b) = Band(b.freq, g, r, b.type, b.on)
  BY <1>1, <1>3, BandAltered
<1>5. Rounded(b) \in GoodBand
  BY <1>1, <1>2, <1>4, BandIs
<1>6. PICK c : c = Rounded(b)
  OBVIOUS
<1>7. c.freq = b.freq /\ c.gain = g /\ c.q = r /\ c.type = b.type /\ c.on = b.on /\ Whole(c)
  BY <1>4, <1>5, <1>6, BandFields, BandHas
<1>8. Rounded(c) = WithShape(c, g, r)
  BY <1>2, <1>7, <1>10
<1>9. WithShape(c, g, r) = Band(c.freq, g, r, c.type, c.on)
  BY <1>7, BandAltered
<1>11. Rounded(c) = c
  BY <1>4, <1>6, <1>7, <1>8, <1>9
<1> QED  BY <1>4, <1>5, <1>6, <1>11 DEF g, r

LEMMA CurveIs ==
  ASSUME NEW list \in Seq(GoodBand)
  PROVE  /\ Curve(list) \in Seq(GoodBand) /\ Len(Curve(list)) = Len(list)
         /\ DOMAIN Curve(list) = DOMAIN list
         /\ \A i \in DOMAIN list : Curve(list)[i] = Rounded(list[i])
         /\ Curve(Curve(list)) = Curve(list)
         /\ list \in GoodCurve => Curve(list) \in GoodCurve
<1> DEFINE c == Curve(list)
<1>1. \A i \in DOMAIN list : list[i] \in GoodBand
  OBVIOUS
<1>2. \A i \in DOMAIN list : Rounded(list[i]) \in GoodBand /\ Rounded(Rounded(list[i])) = Rounded(list[i])
  BY <1>1, RoundedIs
<1>3. c = [i \in DOMAIN list |-> Rounded(list[i])]
  BY DEF Curve
<1> HIDE DEF c
<1>4. c \in Seq(GoodBand) /\ Len(c) = Len(list) /\ DOMAIN c = DOMAIN list
  BY <1>2, <1>3
<1>5. \A i \in DOMAIN list : c[i] = Rounded(list[i])
  BY <1>3
<1>6. Curve(c) = c
  <2>1. Curve(c) = [i \in DOMAIN list |-> Rounded(c[i])]
    BY <1>4 DEF Curve
  <2>2. \A i \in DOMAIN list : Rounded(c[i]) = Rounded(list[i])
    BY <1>2, <1>5
  <2> QED  BY <1>3, <2>1, <2>2
<1>7. list \in GoodCurve => c \in GoodCurve
  BY <1>4 DEF GoodCurve
<1> QED  BY <1>4, <1>5, <1>6, <1>7 DEF c

\* A file that was written is read as what was written, to two decimals.
LEMMA WrittenIsRead ==
  ASSUME NEW gain \in Int, NEW list \in GoodCurve
  PROVE  LET f == WriteFile(gain, list) IN
         /\ GoodFile(f) /\ f.frequencies # <<>>
         /\ ReadBands(f) = Curve(list) /\ f.preamp = Decimals(gain)
<1> DEFINE f == WriteFile(gain, list)
           rows == DOMAIN list
           typed == {i \in rows : list[i].type # "PK"}
<1>1. list \in Seq(GoodBand) /\ Len(list) \in Nat /\ Len(list) >= 1 /\ rows = 1..Len(list)
  BY DEF GoodCurve
<1>2. \A i \in rows : /\ list[i] \in GoodBand /\ list[i].freq \in Int /\ list[i].gain \in Int /\ list[i].q \in Int
                        /\ list[i].type \in Kind /\ list[i].on \in BOOLEAN
                        /\ Sensible(list[i].gain) /\ list[i].q <= 100000
  BY <1>1, BandHas
<1>3. \A i \in rows : Sensible(Decimals(list[i].gain))
  BY <1>2, DecimalsAre
<1>14. \A i \in rows : Decimals(list[i].q) \in Int /\ Decimals(list[i].q) <= 100000
  BY <1>2, DecimalsAre
<1>15. \A i \in rows : list[i].gain = 0 => Decimals(list[i].gain) = 0
  BY <1>2, DecimalsAre
<1>4. /\ f.preamp = Decimals(gain) /\ f.frequencies = [i \in rows |-> list[i].freq]
      /\ f.qualities = [i \in rows |-> Decimals(list[i].q)]
      /\ f.gains = IF \E i \in rows : list[i].gain # 0
                   THEN [i \in rows |-> Decimals(list[i].gain)] ELSE <<>>
      /\ f.filters = [i \in typed |-> list[i].type]
      /\ f.disabled = {i \in rows : ~list[i].on}
  BY DEF WriteFile
<1> HIDE DEF f
<1>5. f.frequencies \in Seq(Int) /\ DOMAIN f.frequencies = rows /\ f.frequencies # <<>>
  BY <1>1, <1>2, <1>4
<1> HIDE DEF rows
<1>6. f.preamp \in Int
  BY <1>4, DecimalsAre
<1>7. \A i \in DOMAIN f.gains : Sensible(f.gains[i])
  <2>1. CASE \E i \in rows : list[i].gain # 0
    <3>1. f.gains = [i \in rows |-> Decimals(list[i].gain)]
      BY <1>4, <2>1
    <3> QED  BY <1>3, <3>1
  <2>2. CASE ~\E i \in rows : list[i].gain # 0
    <3>1. f.gains = <<>>
      BY <1>4, <2>2
    <3> QED  BY <3>1
  <2> QED  BY <2>1, <2>2
<1>8. \A i \in DOMAIN f.qualities : f.qualities[i] \in Int /\ f.qualities[i] <= 100000
  <2>1. f.qualities = [i \in rows |-> Decimals(list[i].q)]
    BY <1>4
  <2> QED  BY <1>14, <2>1, SMT
<1>9. \A i \in DOMAIN f.filters : f.filters[i] \in Kind
  BY <1>2, <1>4
<1>10. GoodFile(f)
  BY <1>5, <1>6, <1>7, <1>8, <1>9 DEF GoodFile, SensibleFile
<1>11. ASSUME NEW i \in rows
       PROVE  Band(f.frequencies[i], Entry(f.gains, i, 0), Entry(f.qualities, i, 1410),
                   FilterOf(f.filters, i), i \notin f.disabled) = Rounded(list[i])
  <2>1. f.frequencies[i] = list[i].freq /\ Entry(f.qualities, i, 1410) = Decimals(list[i].q)
    BY <1>4 DEF Entry
  <2>2. Entry(f.gains, i, 0) = Decimals(list[i].gain)
    <3>1. CASE \E j \in rows : list[j].gain # 0
      BY <1>4, <3>1 DEF Entry
    <3>2. CASE ~\E j \in rows : list[j].gain # 0
      <4>1. Decimals(list[i].gain) = 0
        BY <1>15, <3>2
      <4>2. f.gains = <<>>
        BY <1>4, <3>2
      <4>3. i \notin DOMAIN f.gains
        BY <4>2
      <4> QED  BY <4>1, <4>3 DEF Entry
    <3> QED  BY <3>1, <3>2
  <2>3. FilterOf(f.filters, i) = list[i].type
    BY <1>4 DEF FilterOf, Entry
  <2>4. (i \notin f.disabled) = list[i].on
    <3>1. i \in f.disabled <=> ~list[i].on
      BY <1>4
    <3>2. list[i].on \in BOOLEAN
      BY <1>2
    <3> QED  BY <3>1, <3>2
  <2>5. Rounded(list[i]) = Band(list[i].freq, Decimals(list[i].gain), Decimals(list[i].q), list[i].type, list[i].on)
    BY <1>2, RoundedIs
  <2> PICK freq, level, q, type, live :
             /\ freq = f.frequencies[i] /\ level = Entry(f.gains, i, 0) /\ q = Entry(f.qualities, i, 1410)
             /\ type = FilterOf(f.filters, i) /\ live = (i \notin f.disabled)
    OBVIOUS
  <2>6. Band(freq, level, q, type, live) = Rounded(list[i])
    BY <2>1, <2>2, <2>3, <2>4, <2>5
  <2> QED  BY <2>6
<1>12. ReadBands(f) = [i \in rows |-> Rounded(list[i])]
  BY <1>5, <1>11 DEF ReadBands
<1>13. Curve(list) = [i \in rows |-> Rounded(list[i])]
  BY DEF Curve, rows
<1> QED  BY <1>4, <1>5, <1>10, <1>12, <1>13 DEF f

LEMMA PeaceFilesAreGood ==
  ASSUME NEW f \in PeaceFiles
  PROVE  GoodFile(f)
BY PresetsAssumption DEF GoodFile, Kind

----------------------------------------------------------------------------
(* AutoEQ.                                                                  *)

Lines == UNION {ToSet(d.lines) : d \in ToSet(Database)}
Word == {""} \cup {l.name : l \in Lines}
Source == {d.source : d \in ToSet(Database)}
Answer == {l \in Lines : l.tag = "A"}
Record ==
  [device : Word, measurer : Word, target : Word, source : Source,
   parametric : Seq(Answer), fixed : Seq(Answer)]
Reading ==
  [entries : Seq(Record), measurer : Word, target : Word, source : Source, have : BOOLEAN,
   current : Record]

LEMMA DeviceIs ==
  ASSUME NEW name \in Word, NEW measurer \in Word, NEW target \in Word, NEW source \in Source
  PROVE  Device(name, measurer, target, source) \in Record
<1>1. <<>> \in Seq(Answer)
  OBVIOUS
<1> DEFINE none == <<>>
<1>2. none \in Seq(Answer)
  BY <1>1
<1>3. Device(name, measurer, target, source) =
        [device |-> name, measurer |-> measurer, target |-> target, source |-> source,
         parametric |-> none, fixed |-> none]
  BY DEF Device
<1> HIDE DEF none
<1>4. [device |-> name, measurer |-> measurer, target |-> target, source |-> source,
       parametric |-> none, fixed |-> none] \in Record
  BY <1>2 DEF Record
<1> QED  BY <1>3, <1>4

LEMMA FlushedIs ==
  ASSUME NEW s \in Reading
  PROVE  Flushed(s) \in Reading
<1> DEFINE e == IF s.have /\ s.current.parametric # <<>> THEN Append(s.entries, s.current) ELSE s.entries
           no == FALSE
<1>1. e \in Seq(Record)
  <2>1. s.entries \in Seq(Record) /\ s.current \in Record
    BY DEF Reading
  <2> QED  BY <2>1
<1>2. Flushed(s) = [s EXCEPT !.have = no, !.entries = e]
  BY DEF Flushed
<1>3. no \in BOOLEAN
  OBVIOUS
<1> HIDE DEF e, no
<1> QED  BY <1>1, <1>2, <1>3 DEF Reading

LEMMA ReadLineIs ==
  ASSUME NEW s \in Reading, NEW line \in Lines
  PROVE  ReadLine(s, line) \in Reading
<1>1. line.name \in Word
  BY DEF Word
<1>2. Flushed(s) \in Reading
  BY FlushedIs
<1>3. CASE line.tag = "M"
  <2>1. ReadLine(s, line) = [Flushed(s) EXCEPT !.measurer = line.name]
    BY <1>3 DEF ReadLine
  <2> QED  BY <1>1, <1>2, <2>1 DEF Reading
<1>4. CASE line.tag = "W"
  <2>1. ReadLine(s, line) = [Flushed(s) EXCEPT !.target = line.name]
    BY <1>4 DEF ReadLine
  <2> QED  BY <1>1, <1>2, <2>1 DEF Reading
<1>5. CASE line.tag = "D"
  <2> DEFINE d == Device(line.name, s.measurer, s.target, s.source)
             yes == TRUE
  <2>1. ReadLine(s, line) = [Flushed(s) EXCEPT !.have = yes, !.current = d]
    BY <1>5 DEF ReadLine
  <2>2. d \in Record
    <3>1. s.measurer \in Word /\ s.target \in Word /\ s.source \in Source
      BY DEF Reading
    <3> QED  BY <1>1, <3>1, DeviceIs
  <2>3. yes \in BOOLEAN
    OBVIOUS
  <2> HIDE DEF d, yes
  <2> QED  BY <1>2, <2>1, <2>2, <2>3 DEF Reading
<1>6. CASE line.tag \notin {"M", "W", "D"}
  <2> DEFINE one == <<line>>
  <2>1. s.current \in Record
    BY DEF Reading
  <2>2. line.tag = "A" => one \in Seq(Answer)
    BY DEF Answer
  <2>3. \/ ReadLine(s, line) = s
        \/ line.tag = "A" /\ ReadLine(s, line) = [s EXCEPT !.current.fixed = one]
        \/ line.tag = "A" /\ ReadLine(s, line) = [s EXCEPT !.current.parametric = one]
    BY <1>6 DEF ReadLine
  <2> HIDE DEF one
  <2>4. CASE line.tag = "A" /\ ReadLine(s, line) = [s EXCEPT !.current.fixed = one]
    <3>1. [s.current EXCEPT !.fixed = one] \in Record
      BY <2>1, <2>2, <2>4 DEF Record
    <3>2. ReadLine(s, line) = [s EXCEPT !.current = [s.current EXCEPT !.fixed = one]]
      BY <2>4
    <3> DEFINE c == [s.current EXCEPT !.fixed = one]
    <3> HIDE DEF c
    <3>3. c \in Record /\ ReadLine(s, line) = [s EXCEPT !.current = c]
      BY <3>1, <3>2 DEF c
    <3> QED  BY <3>3 DEF Reading
  <2>5. CASE line.tag = "A" /\ ReadLine(s, line) = [s EXCEPT !.current.parametric = one]
    <3>1. [s.current EXCEPT !.parametric = one] \in Record
      BY <2>1, <2>2, <2>5 DEF Record
    <3>2. ReadLine(s, line) = [s EXCEPT !.current = [s.current EXCEPT !.parametric = one]]
      BY <2>5
    <3> DEFINE c == [s.current EXCEPT !.parametric = one]
    <3> HIDE DEF c
    <3>3. c \in Record /\ ReadLine(s, line) = [s EXCEPT !.current = c]
      BY <3>1, <3>2 DEF c
    <3> QED  BY <3>3 DEF Reading
  <2> QED  BY <2>3, <2>4, <2>5
<1> QED  BY <1>3, <1>4, <1>5, <1>6

LEMMA LoadFileIs ==
  ASSUME NEW d \in ToSet(Database)
  PROVE  LoadFile(d.source, d.lines) \in Seq(Record)
<1> DEFINE lines == d.lines
           n == Len(lines)
           start == [entries |-> <<>>, measurer |-> "", target |-> "", source |-> d.source, have |-> FALSE,
                     current |-> Device("", "", "", d.source)]
           h == [i \in 1..n |-> [s \in Reading |-> ReadLine(s, lines[i])]]
           Is(g) == g = [i \in 0..n |-> IF i = 0 THEN start ELSE ReadLine(g[i - 1], lines[i])]
<1>1. lines \in Seq(Lines)
  <2>1. lines \in Seq(ToSet(lines)) /\ ToSet(lines) \subseteq Lines
    BY PresetsAssumption DEF Lines
  <2> HIDE DEF lines
  <2> QED  BY <2>1
<1>2. n \in Nat /\ \A i \in 1..n : lines[i] \in Lines
  BY <1>1
<1>3. start \in Reading
  <2> DEFINE none == <<>>
             word == ""
             no == FALSE
             c == Device("", "", "", d.source)
  <2>1. none \in Seq(Record) /\ no \in BOOLEAN
    OBVIOUS
  <2>2. word \in Word
    BY DEF Word
  <2>3. d.source \in Source
    BY DEF Source
  <2>4. c = Device(word, word, word, d.source)
    OBVIOUS
  <2>5. start = [entries |-> none, measurer |-> word, target |-> word, source |-> d.source, have |-> no,
                 current |-> c]
    OBVIOUS
  <2> HIDE DEF none, word, no, c, start
  <2>6. c \in Record
    BY <2>2, <2>3, <2>4, DeviceIs
  <2> QED  BY <2>1, <2>2, <2>3, <2>5, <2>6 DEF Reading
<1> HIDE DEF lines, start
<1>4. h \in [1..n -> [Reading -> Reading]]
  <2>1. \A i \in 1..n : \A s \in Reading : ReadLine(s, lines[i]) \in Reading
    BY <1>2, ReadLineIs
  <2> QED  BY <2>1
<1>5. \A i \in 1..n : \A s \in Reading : h[i][s] = ReadLine(s, lines[i])
  OBVIOUS
<1> HIDE DEF h, n
<1>6. PICK f : Runs(f, n, Reading, start, h)
  BY <1>2, <1>3, <1>4, Recursion
<1>7. f \in [0..n -> Reading] /\ f[0] = start /\ \A i \in 1..n : f[i] = h[i][f[i - 1]]
  BY <1>6 DEF Runs
<1>8. \A i \in 1..n : f[i] = ReadLine(f[i - 1], lines[i])
  <2>1. \A i \in 1..n : i - 1 \in 0..n
    BY <1>2
  <2> QED  BY <1>5, <1>7, <2>1
<1>9. Is(f)
  <2>1. \A i \in 0..n : i # 0 => i \in 1..n
    BY <1>2
  <2> QED  BY <1>7, <1>8, <2>1
<1>10. PICK g : g = CHOOSE r : Is(r)
  OBVIOUS
<1>11. Is(g)
  BY <1>9, <1>10, Zenon
<1>12. DOMAIN g = 0..n /\ g = [i \in 0..n |-> g[i]] /\ g[0] = start
  BY <1>2, <1>11
<1>13. g = f
  <2>1. \A i \in 1..n : g[i - 1] = f[i - 1] => g[i] = f[i]
    <3>1. \A i \in 1..n : i \in 0..n /\ i # 0
      BY <1>2
    <3> QED  BY <1>8, <1>11, <3>1
  <2>2. g[0] = f[0]
    BY <1>7, <1>12
  <2>3. n \in Nat /\ f \in [0..n -> Reading]
    BY <1>2, <1>7
  <2> QED  BY <1>12, <2>1, <2>2, <2>3, RecursionIsOne
<1>14. LoadFile(d.source, d.lines) = Flushed(g[n]).entries
  BY <1>10, Zenon DEF LoadFile, n, lines, start
<1>15. Flushed(g[n]) \in Reading
  <2>1. g[n] \in Reading
    BY <1>2, <1>7, <1>13
  <2> QED  BY <2>1, FlushedIs
<1> QED  BY <1>14, <1>15 DEF Reading

LEMMA LoadDatabaseIs == LoadDatabase(Database) \in Seq(Record)
<1> DEFINE n == Len(Database)
           start == <<>>
           Has(v, i) == \E j \in DOMAIN v : v[j].source = Database[i].source
           next(v, i) == IF Has(v, i) THEN v ELSE v \o LoadFile(Database[i].source, Database[i].lines)
           V == Seq(Record)
           h == [i \in 1..n |-> [v \in V |-> next(v, i)]]
           Is(g) == g = [i \in 0..n |-> IF i = 0 THEN start ELSE next(g[i - 1], i)]
<1>1. Database \in Seq(ToSet(Database))
  BY PresetsAssumption
<1>2. n \in Nat /\ \A i \in 1..n : Database[i] \in ToSet(Database)
  BY <1>1
<1>3. start \in V
  OBVIOUS
<1>4. \A i \in 1..n : \A v \in V : next(v, i) \in V
  <2>1. \A i \in 1..n : LoadFile(Database[i].source, Database[i].lines) \in Seq(Record)
    BY <1>2, LoadFileIs
  <2> QED  BY <2>1
<1> HIDE DEF next, V, start
<1>5. h \in [1..n -> [V -> V]]
  BY <1>4
<1>6. \A i \in 1..n : \A v \in V : h[i][v] = next(v, i)
  OBVIOUS
<1> HIDE DEF h, n
<1>7. PICK f : Runs(f, n, V, start, h)
  BY <1>2, <1>3, <1>5, Recursion
<1>8. f \in [0..n -> V] /\ f[0] = start /\ \A i \in 1..n : f[i] = h[i][f[i - 1]]
  BY <1>7 DEF Runs
<1>9. \A i \in 1..n : f[i] = next(f[i - 1], i)
  <2>1. \A i \in 1..n : i - 1 \in 0..n
    BY <1>2
  <2> QED  BY <1>6, <1>8, <2>1
<1>10. Is(f)
  <2>1. \A i \in 0..n : i # 0 => i \in 1..n
    BY <1>2
  <2> QED  BY <1>8, <1>9, <2>1
<1>11. PICK g : g = CHOOSE r : Is(r)
  OBVIOUS
<1>12. Is(g)
  BY <1>10, <1>11, Zenon
<1>13. DOMAIN g = 0..n /\ g = [i \in 0..n |-> g[i]] /\ g[0] = start
  BY <1>2, <1>12
<1>14. g = f
  <2>1. \A i \in 1..n : g[i - 1] = f[i - 1] => g[i] = f[i]
    <3>1. \A i \in 1..n : i \in 0..n /\ i # 0
      BY <1>2
    <3> QED  BY <1>9, <1>12, <3>1
  <2>2. g[0] = f[0]
    BY <1>8, <1>13
  <2>3. n \in Nat /\ f \in [0..n -> V]
    BY <1>2, <1>8
  <2> QED  BY <1>13, <2>1, <2>2, <2>3, RecursionIsOne
<1>15. LoadDatabase(Database) = g[n]
  BY <1>11, Zenon DEF LoadDatabase, n, next, start
<1> QED  BY <1>2, <1>8, <1>14, <1>15 DEF V

\* The bands a record comes to.
LEMMA ToBandsAre ==
  ASSUME NEW line \in Answer
  PROVE  ToBands(line) \in Seq(GoodBand)
<1> DEFINE all == ToSet(line.filters)
           fixed == LeavingOut(line.filters, {f \in all : f.tag # "F"})
           known == LeavingOut(line.filters, {f \in all : f.tag \notin DOMAIN ShelfOf})
           n == IF Len(fixed) > Len(FixedFrequencies) THEN Len(FixedFrequencies) ELSE Len(fixed)
<1>1. /\ line.filters \in Seq(all)
      /\ \A f \in all : /\ f.freq \in Int /\ f.gain \in Int /\ f.q \in Int
                        /\ f.tag = "F" => Sensible(f.gain)
  BY PresetsAssumption DEF Answer, Lines, SensibleLine
<1>2. fixed \in Seq({f \in all : f.tag = "F"}) /\ known \in Seq({f \in all : f.tag \in DOMAIN ShelfOf})
  <2> DEFINE T == {f \in all : f.tag # "F"}
             U == {f \in all : f.tag \notin DOMAIN ShelfOf}
  <2>1. all \ T = {f \in all : f.tag = "F"} /\ all \ U = {f \in all : f.tag \in DOMAIN ShelfOf}
    OBVIOUS
  <2> HIDE DEF T, U, all
  <2>2. LeavingOut(line.filters, T) \in Seq(all \ T) /\ LeavingOut(line.filters, U) \in Seq(all \ U)
    BY <1>1, LeavingOutIs
  <2> QED  BY <2>1, <2>2 DEF T, U
<1>3. FixedFrequencies \in Seq(Int) /\ Len(FixedFrequencies) \in Nat
  BY BandsAssumption
<1> HIDE DEF fixed, known, all
<1>4. CASE fixed # <<>>
  <2>1. n \in Nat /\ \A i \in 1..n : i \in 1..Len(fixed) /\ i \in 1..Len(FixedFrequencies)
    BY <1>2, <1>3
  <2> DEFINE b(i) == Band(FixedFrequencies[i], fixed[i].gain, 1410, "PK", TRUE)
  <2>2. ASSUME NEW i \in 1..n
        PROVE  b(i) \in GoodBand
    <3> DEFINE v == FixedFrequencies[i]
               g == fixed[i].gain
               r == 1410
               k == "PK"
               t == TRUE
    <3>1. v \in Int
      BY <1>3, <2>1, <2>2
    <3>2. Sensible(g) /\ g \in Int
      BY <1>1, <1>2, <2>1, <2>2
    <3>3. r \in Int /\ r <= 100000 /\ k \in Kind /\ t \in BOOLEAN
      BY KindsAre
    <3> HIDE DEF v, g, r, k, t
    <3>4. Band(v, g, r, k, t) \in GoodBand
      BY <3>1, <3>2, <3>3, BandIs
    <3> QED  BY <3>4 DEF v, g, r, k, t
  <2>3. ToBands(line) = [i \in 1..n |-> b(i)]
    BY <1>4 DEF ToBands, fixed, all
  <2> HIDE DEF b, n
  <2> QED  BY <2>1, <2>2, <2>3
<1>5. CASE fixed = <<>>
  <2>1. ASSUME NEW f \in all, f.tag \in DOMAIN ShelfOf
        PROVE  Parametric(f) \in GoodBand
    <3> DEFINE v == Bound(f.freq, 0, kHz24)
               g == Bound(f.gain, -40000, 40000)
               r == IF f.q = -1 THEN 707 ELSE Bound(f.q, 50, 100000)
               k == ShelfOf[f.tag]
               t == TRUE
    <3>1. f.freq \in Int /\ f.gain \in Int /\ f.q \in Int
      BY <1>1
    <3>2. v \in Int
      BY <3>1 DEF Bound, kHz24
    <3>3. g \in Int /\ Sensible(g)
      BY <3>1, SMT DEF Bound, Sensible
    <3>4. r \in Int /\ r <= 100000
      BY <3>1, SMT DEF Bound
    <3>5. k \in Kind /\ t \in BOOLEAN
      <4>1. k \in {"PK", "LS", "HS", "LSC", "HSC"}
        BY <2>1 DEF ShelfOf
      <4> QED  BY <4>1, KindsAre
    <3>7. Parametric(f) = Band(v, g, r, k, t)
      BY DEF Parametric
    <3> HIDE DEF v, g, r, k, t
    <3>6. Band(v, g, r, k, t) \in GoodBand
      BY <3>2, <3>3, <3>4, <3>5, BandIs
    <3> QED  BY <3>6, <3>7
  <2>2. ToBands(line) = [i \in DOMAIN known |-> Parametric(known[i])]
    BY <1>5 DEF ToBands, fixed, known, all
  <2>3. \A i \in DOMAIN known : Parametric(known[i]) \in GoodBand
    BY <1>2, <2>1
  <2> QED  BY <1>2, <2>2, <2>3
<1> QED  BY <1>4, <1>5

----------------------------------------------------------------------------
(* The list of presets.                                                     *)

Names == ToSet(FileNames)
Listed ==
  {e \in [name : Names, at : {"user", "peace"}, imported : BOOLEAN] : e.imported <=> e.at = "peace"}

LEMMA ListingIs ==
  ASSUME NEW directory, NEW at \in {"user", "peace"}, NEW imported \in BOOLEAN, imported <=> at = "peace"
  PROVE  Listing(directory, at, imported) \in Seq(Listed)
<1> DEFINE names == LeavingOut(FileNames,
                      {n \in ToSet(FileNames) : ~Readable(directory[n]) \/ (imported /\ n = Noise)})
<1>1. FileNames \in Seq(Names)
  BY PresetsAssumption DEF Names
<1>2. names \in Seq(Names)
  BY <1>1, LeavingOutIs
<1>3. Listing(directory, at, imported) = [i \in DOMAIN names |-> [name |-> names[i], at |-> at, imported |-> imported]]
  BY DEF Listing
<1> HIDE DEF names
<1>4. \A n \in Names : [name |-> n, at |-> at, imported |-> imported] \in Listed
  BY DEF Listed
<1>5. \A i \in DOMAIN names : names[i] \in Names
  BY <1>2
<1> QED  BY <1>2, <1>3, <1>4, <1>5

LEMMA ScannedIs ==
  ASSUME NEW mine, NEW theirs
  PROVE  Scanned(mine, theirs) \in Seq(Listed)
<1>1. Listing(mine, "user", FALSE) \in Seq(Listed)
  <2> DEFINE a == "user"
             b == FALSE
  <2>1. a \in {"user", "peace"} /\ b \in BOOLEAN /\ (b <=> a = "peace")
    OBVIOUS
  <2> HIDE DEF a, b
  <2>2. Listing(mine, a, b) \in Seq(Listed)
    BY <2>1, ListingIs
  <2> QED  BY <2>2 DEF a, b
<1>2. Listing(theirs, "peace", TRUE) \in Seq(Listed)
  <2> DEFINE a == "peace"
             b == TRUE
  <2>1. a \in {"user", "peace"} /\ b \in BOOLEAN /\ (b <=> a = "peace")
    OBVIOUS
  <2> HIDE DEF a, b
  <2>2. Listing(theirs, a, b) \in Seq(Listed)
    BY <2>1, ListingIs
  <2> QED  BY <2>2 DEF a, b
<1> DEFINE a == Listing(mine, "user", FALSE)
           b == Listing(theirs, "peace", TRUE)
<1>3. Scanned(mine, theirs) = a \o b
  BY DEF Scanned
<1>4. a \in Seq(Listed) /\ b \in Seq(Listed)
  BY <1>1, <1>2
<1> HIDE DEF a, b
<1> QED  BY <1>3, <1>4

LEMMA MatchIs ==
  ASSUME NEW list \in Seq(Listed), NEW name
  PROVE  Match(list, name) \in 0..Len(list)
<1> DEFINE T == {i \in 1..Len(list) : list[i].name = name}
<1>1. Len(list) \in Nat /\ T \in SUBSET (1..Len(list))
  OBVIOUS
<1>2. Match(list, name) = IF T # {} THEN Min(T) ELSE 0
  BY DEF Match, SelectInSeq
<1>3. T # {} => Min(T) \in T
  <2> HIDE DEF T
  <2> QED  BY <1>1, Extremes
<1> HIDE DEF T
<1>4. 0 \in 0..Len(list)
  BY <1>1
<1>5. CASE T # {}
  <2>1. Match(list, name) \in T
    BY <1>2, <1>3, <1>5
  <2>2. Match(list, name) \in 1..Len(list)
    BY <1>1, <2>1
  <2> QED  BY <1>1, <2>2
<1>6. CASE T = {}
  <2>1. Match(list, name) = 0
    BY <1>2, <1>6
  <2> QED  BY <1>4, <2>1
<1> QED  BY <1>5, <1>6

----------------------------------------------------------------------------
(* The invariant.                                                           *)

Gains == {v \in Int : -30000 <= v /\ v <= 30000}
Held == [preamp : Gains, bands : GoodCurve]

\* The curve is one the model has room for; the list shows files there may be; a
\* file of the user's is what was saved under its name; a session that was stored is
\* the curve it left.
CurveInv == bands \in GoodCurve /\ preamp \in Gains
ListInv == entries \in Seq(Listed) /\ selected \in 0..Len(entries) /\ autoEq \in Seq(Record)
FilesInv ==
  /\ DOMAIN user = Names /\ DOMAIN saved = Names /\ DOMAIN peace = Names
  /\ \A n \in Names : user[n] # NoPreset =>
       saved[n] \in Held /\ user[n] = WriteFile(saved[n].preamp, saved[n].bands)
  /\ \A n \in Names : peace[n] # NoPreset => peace[n] \in PeaceFiles
FlagInv == running \in BOOLEAN /\ dirty \in BOOLEAN /\ fresh \in BOOLEAN
StoredInv == ~running => stored.file = WriteFile(preamp, bands)
FromInv == from = Nowhere \/ (from.at \in {"user", "peace"} /\ from.name \in Names)
PresetsInv ==
  CurveInv /\ ListInv /\ FilesInv /\ FlagInv /\ StoredInv /\ FromInv /\ UnmarkedIsOnDisk

LEMMA FileIs ==
  ASSUME FilesInv, NEW e, e.at \in {"user", "peace"}, e.name \in Names, File(e) # NoPreset
  PROVE  GoodFile(File(e))
<1>1. CASE e.at = "peace"
  <2>1. File(e) = peace[e.name]
    BY <1>1 DEF File
  <2>2. File(e) \in PeaceFiles
    BY <2>1 DEF FilesInv
  <2> QED  BY <2>2, PeaceFilesAreGood
<1>2. CASE e.at = "user"
  <2>1. File(e) = user[e.name]
    BY <1>2 DEF File
  <2>2. saved[e.name] \in Held /\ File(e) = WriteFile(saved[e.name].preamp, saved[e.name].bands)
    BY <2>1 DEF FilesInv
  <2>3. saved[e.name].preamp \in Int /\ saved[e.name].bands \in GoodCurve
    BY <2>2 DEF Held, Gains
  <2> QED  BY <2>2, <2>3, WrittenIsRead
<1> QED  BY <1>1, <1>2

LEMMA ListedIs ==
  ASSUME ListInv, NEW row \in DOMAIN entries
  PROVE  /\ entries[row] \in Listed /\ entries[row].at \in {"user", "peace"} /\ entries[row].name \in Names
         /\ entries[row].imported <=> entries[row].at = "peace"
         /\ entries[row] # Nowhere /\ row \in 1..Len(entries)
<1>1. entries[row] \in Listed /\ row \in 1..Len(entries)
  BY DEF ListInv
<1> PICK e : e = entries[row]
  OBVIOUS
<1>2. e.at \in {"user", "peace"} /\ e.name \in Names /\ (e.imported <=> e.at = "peace")
  BY <1>1 DEF Listed
<1>3. Nowhere.at = "nowhere"
  BY DEF Nowhere
<1>4. e # Nowhere
  BY <1>2, <1>3
<1> QED  BY <1>1, <1>2, <1>4

LEMMA FilesFrame ==
  ASSUME FilesInv, UNCHANGED <<user, peace, saved>>
  PROVE  FilesInv'
BY DEF FilesInv

LEMMA ListFrame ==
  ASSUME ListInv, UNCHANGED <<entries, selected, autoEq>>
  PROVE  ListInv'
BY DEF ListInv

\* A curve that is not to be found on disk is marked, or the program is not running, or
\* it comes from a session.
LEMMA MarkedIsFine ==
  ASSUME dirty' \/ ~fresh' \/ ~running'
  PROVE  UnmarkedIsOnDisk'
BY DEF UnmarkedIsOnDisk

LEMMA ChangedKeeps ==
  ASSUME PresetsInv, NEW becomes \in GoodCurve, Changed(becomes)
  PROVE  PresetsInv'
<1>1. /\ running /\ running' = running /\ bands' = becomes /\ dirty' = TRUE
      /\ preamp' = preamp /\ fresh' = fresh /\ from' = from /\ stored' = stored
      /\ UNCHANGED <<entries, selected, autoEq>> /\ UNCHANGED <<user, peace, saved>>
  BY DEF Changed, files
<1>2. ListInv' /\ FilesInv'
  BY <1>1, ListFrame, FilesFrame DEF PresetsInv
<1>3. CurveInv' /\ FlagInv' /\ StoredInv' /\ FromInv'
  BY <1>1 DEF PresetsInv, CurveInv, FlagInv, StoredInv, FromInv
<1>4. UnmarkedIsOnDisk'
  BY <1>1, MarkedIsFine
<1> QED  BY <1>2, <1>3, <1>4 DEF PresetsInv

LEMMA BandChanges ==
  ASSUME PresetsInv
  PROVE  /\ \A row \in DOMAIN bands, b \in Values : SetBand(row, b) => PresetsInv'
         /\ \A row \in 0..kMaxBands : InsertBandAfter(row) \/ RemoveBand(row) => PresetsInv'
         /\ ZeroGains => PresetsInv'
<1>1. bands \in GoodCurve /\ bands \in Seq(GoodBand) /\ Len(bands) >= 1 /\ Len(bands) <= kMaxBands
  BY DEF PresetsInv, CurveInv, GoodCurve
<1>2. ASSUME NEW row \in DOMAIN bands, NEW b \in Values, SetBand(row, b)
      PROVE  PresetsInv'
  <2> DEFINE c == [bands EXCEPT ![row] = Legal(b)]
  <2>1. Legal(b) \in GoodBand
    BY LegalIs
  <2>2. c \in Seq(GoodBand) /\ Len(c) = Len(bands)
    BY <1>1, <2>1
  <2>3. Changed(c)
    BY <1>2 DEF SetBand
  <2> HIDE DEF c
  <2>4. c \in GoodCurve
    BY <1>1, <2>2 DEF GoodCurve
  <2> QED  BY <2>3, <2>4, ChangedKeeps
<1>3. ASSUME NEW row \in 0..kMaxBands, InsertBandAfter(row) \/ RemoveBand(row)
      PROVE  PresetsInv'
  <2>1. CASE InsertBandAfter(row)
    <3>1. Inserted(bands, row) \in GoodCurve
      BY <1>1, <2>1, InsertedIs DEF InsertBandAfter
    <3>2. Changed(Inserted(bands, row))
      BY <2>1 DEF InsertBandAfter
    <3> QED  BY <3>1, <3>2, ChangedKeeps
  <2>2. CASE RemoveBand(row)
    <3>1. RemoveAt(bands, row) \in GoodCurve
      BY <1>1, <2>2, RemovedIs DEF RemoveBand
    <3>2. Changed(RemoveAt(bands, row))
      BY <2>2 DEF RemoveBand
    <3> QED  BY <3>1, <3>2, ChangedKeeps
  <2> QED  BY <1>3, <2>1, <2>2
<1>4. ASSUME ZeroGains
      PROVE  PresetsInv'
  <2> DEFINE c == [i \in DOMAIN bands |-> [bands[i] EXCEPT !.gain = 0]]
  <2>1. ASSUME NEW i \in DOMAIN bands
        PROVE  [bands[i] EXCEPT !.gain = 0] \in GoodBand
    <3> DEFINE b == bands[i]
               g == 0
    <3>1. /\ Whole(b) /\ b.freq \in Int /\ b.q \in Int /\ b.type \in Kind /\ b.on \in BOOLEAN /\ b.q <= 100000
      <4>1. b \in GoodBand
        BY <1>1
      <4> HIDE DEF b
      <4> QED  BY <4>1, BandHas
    <3>2. g \in Int /\ Sensible(g)
      BY DEF Sensible
    <3>3. [bands[i] EXCEPT !.gain = 0] = WithGain(b, g)
      BY DEF WithGain
    <3> HIDE DEF b, g
    <3>4. WithGain(b, g) = Band(b.freq, g, b.q, b.type, b.on)
      BY <3>1, BandAltered
    <3> QED  BY <3>1, <3>2, <3>3, <3>4, BandIs
  <2>2. c \in Seq(GoodBand) /\ Len(c) = Len(bands)
    BY <1>1, <2>1
  <2>3. Changed(c)
    BY <1>4 DEF ZeroGains
  <2> HIDE DEF c
  <2>4. c \in GoodCurve
    BY <1>1, <2>2 DEF GoodCurve
  <2> QED  BY <2>3, <2>4, ChangedKeeps
<1> QED  BY <1>2, <1>3, <1>4

LEMMA SetPreampKeeps ==
  ASSUME PresetsInv, NEW v \in Int, SetPreamp(v)
  PROVE  PresetsInv'
<1> DEFINE g == Bound(v, -30000, 30000)
<1>1. /\ running /\ running' = running /\ bands' = bands /\ dirty' = TRUE
      /\ preamp' = g /\ fresh' = fresh /\ from' = from /\ stored' = stored
      /\ UNCHANGED <<entries, selected, autoEq>> /\ UNCHANGED <<user, peace, saved>>
  BY DEF SetPreamp, files
<1>2. g \in Gains
  BY SMT DEF Gains, Bound
<1> HIDE DEF g
<1>3. ListInv' /\ FilesInv'
  BY <1>1, ListFrame, FilesFrame DEF PresetsInv
<1>4. CurveInv' /\ FlagInv' /\ StoredInv' /\ FromInv'
  BY <1>1, <1>2 DEF PresetsInv, CurveInv, FlagInv, StoredInv, FromInv
<1>5. UnmarkedIsOnDisk'
  BY <1>1, MarkedIsFine
<1> QED  BY <1>3, <1>4, <1>5 DEF PresetsInv

LEMMA FollowedIs ==
  ASSUME ListInv, NEW row \in 0..Len(entries), Followed(row), UNCHANGED <<entries, autoEq>>
  PROVE  ListInv'
<1>1. Match(entries, named') \in 0..Len(entries)
  BY MatchIs DEF ListInv
<1>2. selected' \in 0..Len(entries)
  BY <1>1 DEF Followed
<1> QED  BY <1>2 DEF ListInv

\* A preset that is loaded is its file, and not marked.
LEMMA LoadPresetIs ==
  ASSUME PresetsInv, NEW row \in DOMAIN entries, LoadPreset(row), Readable(File(entries[row]))
  PROVE  LET file == File(entries[row]) IN
         /\ GoodFile(file) /\ ReadBands(file) \in Seq(GoodBand) /\ ReadBands(file) # <<>>
         /\ bands' = SetBands(bands, ReadBands(file)) /\ preamp' = Bound(file.preamp, -30000, 30000)
         /\ file.preamp \in Int /\ CurveInv'
<1> PICK e : e = entries[row]
  OBVIOUS
<1> DEFINE file == File(e)
<1>1. ListInv /\ FilesInv /\ bands \in GoodCurve
  BY DEF PresetsInv, CurveInv
<1>2. e.at \in {"user", "peace"} /\ e.name \in Names
  BY <1>1, ListedIs
<1>3. file # NoPreset /\ file.frequencies # <<>>
  BY DEF Readable
<1>4. GoodFile(file)
  BY <1>1, <1>2, <1>3, FileIs
<1> HIDE DEF file
<1>5. ReadBands(file) \in Seq(GoodBand) /\ Len(ReadBands(file)) = Len(file.frequencies)
  BY <1>4, ReadBandsAre
<1>6. file.preamp \in Int /\ file.frequencies \in Seq(Int)
  BY <1>4 DEF GoodFile, SensibleFile
<1>7. ReadBands(file) # <<>>
  BY <1>3, <1>5, <1>6
<1>8. bands' = SetBands(bands, ReadBands(file)) /\ preamp' = Bound(file.preamp, -30000, 30000)
  BY DEF LoadPreset, Take, file
<1>9. bands' \in GoodCurve
  BY <1>1, <1>5, <1>8, SetBandsAre
<1>10. preamp' \in Gains
  BY <1>6, <1>8, SMT DEF Gains, Bound
<1> QED  BY <1>4, <1>5, <1>6, <1>7, <1>8, <1>9, <1>10 DEF CurveInv, file

LEMMA LoadPresetKeeps ==
  ASSUME PresetsInv, NEW row \in DOMAIN entries, LoadPreset(row)
  PROVE  PresetsInv'
<1>1. ListInv /\ FilesInv /\ FlagInv /\ FromInv /\ CurveInv /\ UnmarkedIsOnDisk
  BY DEF PresetsInv
<1>2. /\ entries[row].at \in {"user", "peace"} /\ entries[row].name \in Names
      /\ entries[row] # Nowhere /\ row \in 0..Len(entries)
  BY <1>1, ListedIs
<1>3. /\ running /\ running' = running
      /\ UNCHANGED <<user, peace, saved>> /\ UNCHANGED <<entries, autoEq>>
  BY DEF LoadPreset
<1>4. FilesInv'
  BY <1>1, <1>3, FilesFrame
<1>5. CASE Readable(File(entries[row]))
  <2> DEFINE file == File(entries[row])
  <2>1. /\ ReadBands(file) # <<>> /\ CurveInv'
        /\ bands' = SetBands(bands, ReadBands(file)) /\ preamp' = Bound(file.preamp, -30000, 30000)
    BY <1>5, LoadPresetIs
  <2>2. dirty' = FALSE /\ from' = entries[row] /\ fresh' = TRUE /\ Followed(row)
    BY <1>5 DEF LoadPreset
  <2>3. ListInv'
    BY <1>1, <1>2, <1>3, <2>2, FollowedIs
  <2>4. FlagInv' /\ FromInv' /\ StoredInv'
    BY <1>1, <1>2, <1>3, <2>2 DEF FlagInv, FromInv, StoredInv
  <2>5. File(from)' = file
    BY <1>3, <2>2 DEF File
  <2> HIDE DEF file
  <2>6. bands' = SetBands(<<>>, ReadBands(file))
    <3>1. \A old, given : given # <<>> => SetBands(old, given) = SetBands(<<>>, given)
      BY Zenon DEF SetBands
    <3> QED  BY <2>1, <3>1
  <2>7. UnmarkedIsOnDisk'
    <3>1. from' # Nowhere
      BY <1>2, <2>2
    <3>2. /\ Curve(bands') = Curve(SetBands(<<>>, ReadBands(File(from)')))
          /\ Decimals(preamp') = Decimals(Bound(File(from)'.preamp, -30000, 30000))
      BY <2>1, <2>5, <2>6
    <3> QED  BY <3>1, <3>2 DEF UnmarkedIsOnDisk
  <2> QED  BY <1>4, <2>1, <2>3, <2>4, <2>7 DEF PresetsInv
<1>6. CASE ~Readable(File(entries[row]))
  <2>1. /\ selected' = row /\ UNCHANGED <<bands, preamp, dirty, from, fresh, touched, named>>
    BY <1>6 DEF LoadPreset, curveVars
  <2>2. ListInv'
    BY <1>1, <1>2, <1>3, <2>1 DEF ListInv
  <2>3. CurveInv' /\ FlagInv' /\ FromInv' /\ StoredInv'
    BY <1>1, <1>3, <2>1 DEF FlagInv, FromInv, StoredInv, CurveInv
  <2>4. UnmarkedIsOnDisk'
    <3>1. File(from)' = File(from)
      BY <1>3, <2>1 DEF File
    <3> QED  BY <1>1, <1>3, <2>1, <3>1 DEF UnmarkedIsOnDisk
  <2> QED  BY <1>4, <2>2, <2>3, <2>4 DEF PresetsInv
<1> QED  BY <1>5, <1>6

LEMMA SavePresetKeeps ==
  ASSUME PresetsInv, running, UNCHANGED running, NEW raw, NEW clean \in Names, SavePreset(raw, clean)
  PROVE  PresetsInv'
<1> DEFINE file == WriteFile(preamp, bands)
           now == [preamp |-> preamp, bands |-> bands]
<1>1. FilesInv /\ ListInv /\ FlagInv /\ CurveInv
  BY DEF PresetsInv
<1>2. /\ user' = [user EXCEPT ![clean] = file] /\ saved' = [saved EXCEPT ![clean] = now]
      /\ entries' = Scanned(user', peace) /\ selected' = Match(entries', raw)
      /\ from' = [name |-> clean, at |-> "user", imported |-> FALSE]
      /\ dirty' = FALSE /\ fresh' = TRUE
      /\ bands' = bands /\ preamp' = preamp /\ peace' = peace /\ autoEq' = autoEq /\ stored' = stored
  BY DEF SavePreset, curveVars
<1>3. now \in Held /\ now.preamp = preamp /\ now.bands = bands /\ preamp \in Int /\ bands \in GoodCurve
  BY <1>1 DEF CurveInv, Held, Gains
<1>4. /\ ReadBands(file) = Curve(bands) /\ file.preamp = Decimals(preamp)
  BY <1>3, WrittenIsRead
<1>5. FilesInv'
  <2>1. DOMAIN user' = Names /\ DOMAIN saved' = Names /\ DOMAIN peace' = Names
    BY <1>1, <1>2 DEF FilesInv
  <2>2. ASSUME NEW n \in Names, user'[n] # NoPreset
        PROVE  saved'[n] \in Held /\ user'[n] = WriteFile(saved'[n].preamp, saved'[n].bands)
    <3>1. CASE n = clean
      <4>1. user'[n] = file /\ saved'[n] = now
        BY <1>1, <1>2, <3>1 DEF FilesInv
      <4> HIDE DEF now
      <4> QED  BY <1>3, <4>1
    <3>2. CASE n # clean
      <4>1. user'[n] = user[n] /\ saved'[n] = saved[n]
        BY <1>1, <1>2, <3>2 DEF FilesInv
      <4> QED  BY <1>1, <2>2, <4>1 DEF FilesInv
    <3> QED  BY <3>1, <3>2
  <2>3. \A n \in Names : peace'[n] # NoPreset => peace'[n] \in PeaceFiles
    BY <1>1, <1>2 DEF FilesInv
  <2> QED  BY <2>1, <2>2, <2>3 DEF FilesInv
<1>6. ListInv'
  <2>1. entries' \in Seq(Listed)
    BY <1>2, ScannedIs
  <2>2. selected' \in 0..Len(entries')
    BY <1>2, <2>1, MatchIs
  <2> QED  BY <1>1, <1>2, <2>1, <2>2 DEF ListInv
<1>7. from'.at = "user" /\ from'.name = clean /\ from' # Nowhere
  BY <1>2 DEF Nowhere
<1>8. CurveInv' /\ FlagInv' /\ StoredInv' /\ FromInv'
  BY <1>1, <1>2, <1>7 DEF CurveInv, FlagInv, StoredInv, FromInv
<1>9. UnmarkedIsOnDisk'
  <2>1. File(from)' = file
    BY <1>1, <1>2, <1>7 DEF File, FilesInv
  <2>2. Curve(bands) \in GoodCurve /\ Curve(Curve(bands)) = Curve(bands)
    BY <1>3, CurveIs DEF GoodCurve
  <2>3. SetBands(<<>>, Curve(bands)) = Curve(bands)
    BY <2>2, SetBandsWhole
  <2>4. Decimals(Bound(Decimals(preamp), -30000, 30000)) = Decimals(preamp)
    <3>1. /\ -30000 <= preamp /\ preamp <= 30000
      BY <1>1 DEF CurveInv, Gains
    <3>2. /\ Decimals(preamp) \in Int /\ Decimals(Decimals(preamp)) = Decimals(preamp)
          /\ -30000 <= Decimals(preamp) /\ Decimals(preamp) <= 30000
      BY <1>3, <3>1, DecimalsAre
    <3>3. Bound(Decimals(preamp), -30000, 30000) = Decimals(preamp)
      BY <3>2, SMT DEF Bound
    <3> QED  BY <3>2, <3>3
  <2> HIDE DEF file
  <2>5. /\ Curve(bands') = Curve(SetBands(<<>>, ReadBands(File(from)')))
        /\ Decimals(preamp') = Decimals(Bound(File(from)'.preamp, -30000, 30000))
    BY <1>2, <1>4, <2>1, <2>2, <2>3, <2>4
  <2> QED  BY <1>7, <2>5 DEF UnmarkedIsOnDisk
<1> QED  BY <1>5, <1>6, <1>8, <1>9 DEF PresetsInv

LEMMA SavesKeep ==
  ASSUME PresetsInv
  PROVE  SaveOver \/ (\E name \in Typed : SaveAs(name)) => PresetsInv'
<1>1. \A name \in Typed : name.clean \in Names
  BY PresetsAssumption DEF Names
<1>2. ASSUME NEW raw, NEW clean \in Names, running, SavePreset(raw, clean)
      PROVE  PresetsInv'
  <2>1. running' = running
    BY <1>2 DEF SavePreset
  <2> QED  BY <1>2, <2>1, SavePresetKeeps
<1> QED  BY <1>1, <1>2 DEF SaveOver, SaveAs

\* Only the user's own presets can be deleted.
LEMMA DeletedIs ==
  ASSUME PresetsInv, DeletePreset
  PROVE  /\ entries[selected].at = "user" /\ entries[selected].name \in Names
         /\ user' = [user EXCEPT ![entries[selected].name] = NoPreset] /\ peace' = peace
<1>1. ListInv /\ selected # 0 /\ ~entries[selected].imported
  BY DEF PresetsInv, DeletePreset
<1>2. selected \in DOMAIN entries
  BY <1>1 DEF ListInv
<1>3. entries[selected].at = "user" /\ entries[selected].name \in Names
  BY <1>1, <1>2, ListedIs
<1> QED  BY <1>3 DEF DeletePreset

LEMMA DeletePresetKeeps ==
  ASSUME PresetsInv, DeletePreset
  PROVE  PresetsInv'
<1> DEFINE name == entries[selected].name
<1>1. FilesInv /\ ListInv /\ FlagInv /\ CurveInv /\ StoredInv /\ FromInv /\ UnmarkedIsOnDisk
  BY DEF PresetsInv
<1>2. name \in Names /\ user' = [user EXCEPT ![name] = NoPreset] /\ peace' = peace
  BY DeletedIs
<1>3. /\ saved' = [saved EXCEPT ![name] = NoPreset]
      /\ entries' = Scanned(user', peace') /\ selected' = Match(entries', named)
      /\ UNCHANGED <<running, bands, preamp, dirty, autoEq, stored, from, touched, fresh, named>>
  BY DEF DeletePreset, curveVars
<1> HIDE DEF name
<1>4. FilesInv'
  <2>1. DOMAIN user' = Names /\ DOMAIN saved' = Names /\ DOMAIN peace' = Names
    BY <1>1, <1>2, <1>3 DEF FilesInv
  <2>2. ASSUME NEW n \in Names, user'[n] # NoPreset
        PROVE  saved'[n] \in Held /\ user'[n] = WriteFile(saved'[n].preamp, saved'[n].bands)
    <3>1. n # name
      BY <1>1, <1>2, <2>2 DEF FilesInv
    <3>2. user'[n] = user[n] /\ saved'[n] = saved[n]
      BY <1>1, <1>2, <1>3, <3>1 DEF FilesInv
    <3> QED  BY <1>1, <2>2, <3>2 DEF FilesInv
  <2>3. \A n \in Names : peace'[n] # NoPreset => peace'[n] \in PeaceFiles
    BY <1>1, <1>2 DEF FilesInv
  <2> QED  BY <2>1, <2>2, <2>3 DEF FilesInv
<1>5. ListInv'
  <2>1. entries' \in Seq(Listed)
    BY <1>3, ScannedIs
  <2>2. selected' \in 0..Len(entries')
    BY <1>3, <2>1, MatchIs
  <2> QED  BY <1>1, <1>3, <2>1, <2>2 DEF ListInv
<1>6. CurveInv' /\ FlagInv' /\ StoredInv' /\ FromInv'
  BY <1>1, <1>3 DEF CurveInv, FlagInv, StoredInv, FromInv
<1>7. UnmarkedIsOnDisk'
  <2>1. from # Nowhere => File(from)' = File(from) \/ File(from)' = NoPreset
    BY <1>1, <1>2, <1>3 DEF File, FromInv, FilesInv
  <2> QED  BY <1>1, <1>3, <2>1 DEF UnmarkedIsOnDisk
<1> QED  BY <1>4, <1>5, <1>6, <1>7 DEF PresetsInv

LEMMA LoadAutoEqKeeps ==
  ASSUME PresetsInv, LoadAutoEq
  PROVE  PresetsInv'
<1>1. FilesInv /\ ListInv /\ FlagInv /\ CurveInv /\ StoredInv /\ FromInv /\ UnmarkedIsOnDisk
  BY DEF PresetsInv
<1>2. /\ autoEq' = LoadDatabase(Database) /\ UNCHANGED <<user, peace, saved>>
      /\ UNCHANGED <<running, bands, preamp, dirty, stored, from, touched, fresh, named, entries, selected>>
  BY DEF LoadAutoEq, files, curveVars
<1>3. FilesInv'
  BY <1>1, <1>2, FilesFrame
<1>4. ListInv'
  BY <1>1, <1>2, LoadDatabaseIs DEF ListInv
<1>5. CurveInv' /\ FlagInv' /\ StoredInv' /\ FromInv'
  BY <1>1, <1>2 DEF CurveInv, FlagInv, StoredInv, FromInv
<1>6. UnmarkedIsOnDisk'
  <2>1. File(from)' = File(from)
    BY <1>2 DEF File
  <2> QED  BY <1>1, <1>2, <2>1 DEF UnmarkedIsOnDisk
<1> QED  BY <1>3, <1>4, <1>5, <1>6 DEF PresetsInv

LEMMA ImportAutoEqKeeps ==
  ASSUME PresetsInv, NEW i \in DOMAIN autoEq, NEW fixed \in BOOLEAN, ImportAutoEq(i, fixed)
  PROVE  PresetsInv'
<1> DEFINE record == IF fixed THEN autoEq[i].fixed ELSE autoEq[i].parametric
           line == record[1]
<1>1. FilesInv /\ ListInv /\ FlagInv /\ CurveInv
  BY DEF PresetsInv
<1>2. autoEq[i] \in Record
  BY <1>1 DEF ListInv
<1>3. record \in Seq(Answer) /\ record # <<>>
  BY <1>2 DEF Record, ImportAutoEq
<1>4. /\ running /\ running' = running
      /\ bands' = SetBands(bands, ToBands(line)) /\ preamp' = Bound(line.preamp, -30000, 30000)
      /\ dirty' = TRUE /\ from' = Nowhere /\ Followed(selected)
      /\ UNCHANGED <<entries, autoEq>> /\ UNCHANGED <<user, peace, saved>> /\ fresh' = fresh
  BY DEF ImportAutoEq, Take, files
<1> HIDE DEF record
<1>5. line \in Answer
  BY <1>3
<1> HIDE DEF line
<1>6. ToBands(line) \in Seq(GoodBand) /\ line.preamp \in Int
  <2>1. line.preamp \in Int
    BY <1>5, PresetsAssumption DEF Answer, Lines, SensibleLine
  <2> QED  BY <1>5, <2>1, ToBandsAre
<1>7. CurveInv'
  <2>1. bands' \in GoodCurve
    BY <1>1, <1>4, <1>6, SetBandsAre DEF CurveInv
  <2>2. preamp' \in Gains
    BY <1>4, <1>6, SMT DEF Gains, Bound
  <2> QED  BY <2>1, <2>2 DEF CurveInv
<1>8. ListInv'
  <2>1. selected \in 0..Len(entries)
    BY <1>1 DEF ListInv
  <2> QED  BY <1>1, <1>4, <2>1, FollowedIs
<1>9. FilesInv' /\ FlagInv' /\ StoredInv' /\ FromInv'
  BY <1>1, <1>4, FilesFrame DEF FlagInv, StoredInv, FromInv, Nowhere
<1>10. UnmarkedIsOnDisk'
  BY <1>4, MarkedIsFine
<1> QED  BY <1>7, <1>8, <1>9, <1>10 DEF PresetsInv

LEMMA PeaceWritesKeeps ==
  ASSUME PresetsInv, NEW name \in Names, NEW file \in PeaceFiles \cup {NoPreset}, PeaceWrites(name, file)
  PROVE  PresetsInv'
<1>1. FilesInv /\ ListInv /\ FlagInv /\ CurveInv /\ StoredInv /\ FromInv /\ UnmarkedIsOnDisk
  BY DEF PresetsInv
<1>2. /\ peace' = [peace EXCEPT ![name] = file] /\ touched' = touched \cup {<<"peace", name>>}
      /\ UNCHANGED <<running, bands, preamp, named, dirty, stored, from, fresh, user, saved>>
      /\ UNCHANGED <<entries, selected, autoEq>>
  BY DEF PeaceWrites, curveVars
<1>3. FilesInv'
  BY <1>1, <1>2 DEF FilesInv
<1>4. ListInv'
  BY <1>1, <1>2, ListFrame
<1>5. CurveInv' /\ FlagInv' /\ StoredInv' /\ FromInv'
  BY <1>1, <1>2 DEF CurveInv, FlagInv, StoredInv, FromInv
<1>6. UnmarkedIsOnDisk'
  <2>1. from # Nowhere =>
          \/ File(from)' = File(from) /\ (<<from.at, from.name>> \in touched => <<from.at, from.name>> \in touched')
          \/ <<from.at, from.name>> \in touched'
    <3>1. CASE from # Nowhere /\ from.at = "peace" /\ from.name = name
      BY <1>2, <3>1
    <3>2. CASE from # Nowhere /\ ~(from.at = "peace" /\ from.name = name)
      <4>1. File(from)' = File(from)
        BY <1>1, <1>2, <3>2 DEF File, FromInv, FilesInv
      <4> QED  BY <1>2, <4>1
    <3> QED  BY <3>1, <3>2
  <2> QED  BY <1>1, <1>2, <2>1 DEF UnmarkedIsOnDisk
<1> QED  BY <1>3, <1>4, <1>5, <1>6 DEF PresetsInv

LEMMA QuitProgramKeeps ==
  ASSUME PresetsInv, QuitProgram
  PROVE  PresetsInv'
<1>1. FilesInv /\ ListInv /\ FlagInv /\ CurveInv /\ FromInv
  BY DEF PresetsInv
<1>2. /\ running' = FALSE /\ stored'.file = WriteFile(preamp, bands)
      /\ UNCHANGED <<bands, preamp, dirty, from, fresh>> /\ UNCHANGED <<user, peace, saved>>
      /\ UNCHANGED <<entries, selected, autoEq>>
  BY DEF QuitProgram, curveVars, files
<1>3. FilesInv' /\ ListInv'
  BY <1>1, <1>2, FilesFrame, ListFrame
<1>4. CurveInv' /\ FlagInv' /\ StoredInv' /\ FromInv'
  BY <1>1, <1>2 DEF CurveInv, FlagInv, StoredInv, FromInv
<1>5. UnmarkedIsOnDisk'
  BY <1>2, MarkedIsFine
<1> QED  BY <1>3, <1>4, <1>5 DEF PresetsInv

LEMMA RestoreSessionKeeps ==
  ASSUME PresetsInv, RestoreSession
  PROVE  PresetsInv'
<1> DEFINE file == stored.file
<1>1. FilesInv /\ ListInv /\ FlagInv /\ CurveInv /\ StoredInv /\ FromInv
  BY DEF PresetsInv
<1>2. /\ ~running /\ running' = TRUE
      /\ bands' = SetBands(Defaults, ReadBands(file)) /\ preamp' = file.preamp
      /\ dirty' = FALSE /\ fresh' = FALSE /\ from' = from
      /\ entries' = Scanned(user, peace) /\ selected' = Match(entries', named') /\ autoEq' = <<>>
      /\ UNCHANGED <<user, peace, saved>>
  BY DEF RestoreSession, files
<1>3. file = WriteFile(preamp, bands) /\ preamp \in Int /\ bands \in GoodCurve
  BY <1>1, <1>2 DEF StoredInv, CurveInv, Gains
<1> HIDE DEF file
<1>4. ReadBands(file) = Curve(bands) /\ file.preamp = Decimals(preamp)
  BY <1>3, WrittenIsRead
<1>5. Curve(bands) \in Seq(GoodBand)
  BY <1>3, CurveIs DEF GoodCurve
<1>6. bands' \in GoodCurve
  BY <1>2, <1>4, <1>5, DefaultsAre, SetBandsAre
<1>7. preamp' \in Gains
  <2>1. -30000 <= preamp /\ preamp <= 30000
    BY <1>1 DEF CurveInv, Gains
  <2>2. Decimals(preamp) \in Int /\ -30000 <= Decimals(preamp) /\ Decimals(preamp) <= 30000
    BY <1>3, <2>1, DecimalsAre
  <2> QED  BY <1>2, <1>4, <2>2 DEF Gains
<1>8. FilesInv'
  BY <1>1, <1>2, FilesFrame
<1>9. ListInv'
  <2>1. entries' \in Seq(Listed)
    BY <1>2, ScannedIs
  <2>2. selected' \in 0..Len(entries')
    BY <1>2, <2>1, MatchIs
  <2>3. autoEq' \in Seq(Record)
    BY <1>2
  <2> QED  BY <2>1, <2>2, <2>3 DEF ListInv
<1>10. FlagInv' /\ StoredInv' /\ FromInv' /\ CurveInv'
  BY <1>1, <1>2, <1>6, <1>7 DEF FlagInv, StoredInv, FromInv, CurveInv
<1>11. UnmarkedIsOnDisk'
  BY <1>2, MarkedIsFine
<1> QED  BY <1>8, <1>9, <1>10, <1>11 DEF PresetsInv

LEMMA PresetsStart == PresetsInit => PresetsInv
<1> SUFFICES ASSUME PresetsInit PROVE PresetsInv
  OBVIOUS
<1>1. CurveInv
  <2>1. 0 \in Gains
    BY DEF Gains
  <2> QED  BY <2>1, DefaultsAre DEF PresetsInit, CurveInv
<1>2. ListInv
  <2>1. entries \in Seq(Listed)
    BY ScannedIs DEF PresetsInit
  <2>2. selected \in 0..Len(entries)
    BY <2>1 DEF PresetsInit
  <2>3. autoEq \in Seq(Record)
    BY DEF PresetsInit
  <2> QED  BY <2>1, <2>2, <2>3 DEF ListInv
<1>3. FilesInv
  <2>1. peace \in [Names -> PeaceFiles \cup {NoPreset}]
    BY PresetsAssumption DEF PresetsInit, Names
  <2>2. user = [n \in Names |-> NoPreset] /\ saved = [n \in Names |-> NoPreset]
    BY DEF PresetsInit, Names
  <2> QED  BY <2>1, <2>2 DEF FilesInv
<1>4. FlagInv /\ StoredInv /\ FromInv
  BY DEF PresetsInit, FlagInv, StoredInv, FromInv
<1>5. UnmarkedIsOnDisk
  BY DEF PresetsInit, UnmarkedIsOnDisk
<1> QED  BY <1>1, <1>2, <1>3, <1>4, <1>5 DEF PresetsInv

LEMMA PresetsFrame ==
  ASSUME PresetsInv, UNCHANGED presetVars
  PROVE  PresetsInv'
<1>1. FilesInv /\ ListInv /\ FlagInv /\ CurveInv /\ StoredInv /\ FromInv /\ UnmarkedIsOnDisk
  BY DEF PresetsInv
<1>2. /\ UNCHANGED <<running, bands, preamp, named, dirty, stored, from, touched, fresh>>
      /\ UNCHANGED <<user, peace, saved>> /\ UNCHANGED <<entries, selected, autoEq>>
  BY DEF presetVars
<1>3. FilesInv' /\ ListInv'
  BY <1>1, <1>2, FilesFrame, ListFrame
<1>4. CurveInv' /\ FlagInv' /\ StoredInv' /\ FromInv'
  BY <1>1, <1>2 DEF CurveInv, FlagInv, StoredInv, FromInv
<1>5. UnmarkedIsOnDisk'
  <2>1. File(from)' = File(from)
    BY <1>2 DEF File
  <2> QED  BY <1>1, <1>2, <2>1 DEF UnmarkedIsOnDisk
<1> QED  BY <1>3, <1>4, <1>5 DEF PresetsInv

LEMMA PresetsKeep == PresetsInv /\ [PresetsNext]_presetVars => PresetsInv'
<1> SUFFICES ASSUME PresetsInv, [PresetsNext]_presetVars PROVE PresetsInv'
  OBVIOUS
<1>1. \/ (\E row \in DOMAIN bands, b \in Values : SetBand(row, b))
      \/ (\E row \in 0..kMaxBands : InsertBandAfter(row) \/ RemoveBand(row)) \/ ZeroGains
      => PresetsInv'
  BY BandChanges
<1>2. SetPreamp(-6004) => PresetsInv'
  <2>1. -6004 \in Int
    OBVIOUS
  <2> QED  BY <2>1, SetPreampKeeps
<1>3. (\E row \in DOMAIN entries : LoadPreset(row)) => PresetsInv'
  BY LoadPresetKeeps
<1>4. (\E i \in DOMAIN autoEq, fixed \in BOOLEAN : ImportAutoEq(i, fixed)) => PresetsInv'
  BY ImportAutoEqKeeps
<1>5. (\E name \in ToSet(FileNames), file \in PeaceFiles \cup {NoPreset} : PeaceWrites(name, file))
      => PresetsInv'
  BY PeaceWritesKeeps DEF Names
<1> QED  BY <1>1, <1>2, <1>3, <1>4, <1>5, SavesKeep, DeletePresetKeeps, LoadAutoEqKeeps, QuitProgramKeeps,
            RestoreSessionKeeps, PresetsFrame DEF PresetsNext

----------------------------------------------------------------------------
(* What follows.                                                            *)

LEMMA BandsAgree == PresetsInv => ShownBandsAreApplied
<1> SUFFICES ASSUME PresetsInv PROVE ShownBandsAreApplied
  OBVIOUS
<1>1. /\ bands \in Seq(GoodBand) /\ Len(bands) \in Nat /\ Len(bands) >= 1 /\ Len(bands) <= kMaxBands
      /\ kMaxBands \in Nat
  BY BandsAssumption DEF PresetsInv, CurveInv, GoodCurve
<1>2. Len(EqParams(bands)) = Len(bands)
  <2>1. EqParams(bands) = [i \in 1..Len(bands) |-> Wire(bands[i])]
    <3>1. ~(Len(bands) > kMaxBands)
      BY <1>1
    <3> QED  BY <3>1, Zenon DEF EqParams
  <2> QED  BY <1>1, <2>1
<1>3. bands # <<>>
  BY <1>1
<1>4. ASSUME NEW i \in DOMAIN bands
      PROVE  Wire(bands[i]) = bands[i] \/ bands[i].freq < Hz10 \/ bands[i].q < 50
  <2> PICK b : b = bands[i]
    OBVIOUS
  <2>1. b \in GoodBand
    BY <1>1
  <2>2. /\ Whole(b) /\ b.freq \in Int /\ b.gain \in Int /\ b.q \in Int /\ Sensible(b.gain) /\ b.q <= 100000
    BY <2>1, BandHas
  <2> DEFINE f == IF b.freq < Hz10 THEN Hz10 ELSE b.freq
             g == Bound(b.gain, -40000, 40000)
             r == Bound(b.q, 50, 100000)
  <2>3. Wire(b) = WithAll(b, f, g, r)
    BY DEF Wire, WithAll
  <2>4. g = b.gain /\ (r = b.q \/ b.q < 50) /\ (f = b.freq \/ b.freq < Hz10)
    BY <2>2, SMT DEF Bound, Sensible
  <2> HIDE DEF f, g, r
  <2>5. WithAll(b, f, g, r) = Band(f, g, r, b.type, b.on)
    BY <2>2, BandAltered
  <2>6. b = Band(b.freq, b.gain, b.q, b.type, b.on)
    BY <2>2 DEF Whole
  <2> QED  BY <2>3, <2>4, <2>5, <2>6
<1> QED  BY <1>2, <1>3, <1>4 DEF ShownBandsAreApplied

LEMMA SavedComes ==
  ASSUME PresetsInv, NEW row \in DOMAIN entries, LoadPreset(row), entries[row].at = "user",
         Readable(File(entries[row]))
  PROVE  /\ bands' = Curve(saved[entries[row].name].bands)
         /\ preamp' = Decimals(saved[entries[row].name].preamp)
<1> DEFINE n == entries[row].name
           held == saved[n]
           file == File(entries[row])
<1>1. FilesInv /\ ListInv
  BY DEF PresetsInv
<1>2. n \in Names
  BY <1>1, ListedIs
<1>3. file = user[n] /\ file # NoPreset
  BY DEF File, Readable
<1>4. held \in Held /\ file = WriteFile(held.preamp, held.bands)
  BY <1>1, <1>2, <1>3 DEF FilesInv
<1>5. bands' = SetBands(bands, ReadBands(file)) /\ preamp' = Bound(file.preamp, -30000, 30000)
  BY LoadPresetIs
<1> HIDE DEF held, file
<1>6. /\ held.preamp \in Int /\ -30000 <= held.preamp /\ held.preamp <= 30000
      /\ held.bands \in GoodCurve
  BY <1>4 DEF Held, Gains
<1>7. ReadBands(file) = Curve(held.bands) /\ file.preamp = Decimals(held.preamp)
  BY <1>4, <1>6, WrittenIsRead
<1>8. Curve(held.bands) \in GoodCurve
  BY <1>6, CurveIs DEF GoodCurve
<1>9. bands' = Curve(held.bands)
  BY <1>5, <1>7, <1>8, SetBandsWhole
<1>10. /\ Decimals(held.preamp) \in Int
       /\ -30000 <= Decimals(held.preamp) /\ Decimals(held.preamp) <= 30000
  BY <1>6, DecimalsAre
<1>11. preamp' = Decimals(held.preamp)
  BY <1>5, <1>7, <1>10, SMT DEF Bound
<1> QED  BY <1>9, <1>11 DEF held

LEMMA PeaceIsKept ==
  ASSUME PresetsInv, [PresetsNext]_presetVars
  PROVE  \/ \E name \in ToSet(FileNames), file \in PeaceFiles \cup {NoPreset} : PeaceWrites(name, file)
         \/ peace' = peace
<1>1. DeletePreset => peace' = peace
  BY DeletedIs
<1> QED  BY <1>1 DEF PresetsNext, presetVars, SetBand, ZeroGains, InsertBandAfter, RemoveBand, Changed,
            SetPreamp, LoadPreset, SaveOver, SaveAs, SavePreset, LoadAutoEq, ImportAutoEq, QuitProgram,
            RestoreSession, files

----------------------------------------------------------------------------
(* The pages together.                                                      *)

PagesInv == ControlInv /\ PresetsInv /\ ConfigInv

\* A step of the pages is a step of one part, or of none, for each of the parts.
LEMMA StepsOfParts ==
  ASSUME [PagesNext]_pagesVars
  PROVE  [ControlsNext]_controlVars /\ [PresetsNext]_presetVars /\ [ConfigNext]_configVars
BY DEF PagesNext, pagesVars

LEMMA PagesStart == PagesInit => PagesInv
BY ControlsStart, PresetsStart, ConfigStart DEF PagesInit, PagesInv

LEMMA PagesKeep == PagesInv /\ [PagesNext]_pagesVars => PagesInv'
<1> SUFFICES ASSUME PagesInv, [PagesNext]_pagesVars PROVE PagesInv'
  OBVIOUS
<1>1. ControlInv'
  BY StepsOfParts, ControlsKeep, ControlsFrame DEF PagesInv
<1>2. PresetsInv' /\ ConfigInv'
  BY StepsOfParts, PresetsKeep, ConfigKeeps DEF PagesInv
<1> QED  BY <1>1, <1>2 DEF PagesInv

\* The three parts' invariants hold of the pages, whatever is edited, saved, loaded,
\* quit and started again, and whatever Peace and other programs write meanwhile.
THEOREM PagesInductive == PagesSpec => []PagesInv
<1> QED  BY PagesStart, PagesKeep, PTL DEF PagesSpec

\* The pages never show what the chain does not run: blockFromModels writes what the
\* models hold and sanitizeParams changes nothing a control can show; toEqParams writes
\* every band of the curve.
THEOREM PagesAgree == PagesSpec => []ShownIsApplied
<1>1. PagesInv => ShownIsApplied
  BY ControlsAgree, BandsAgree DEF PagesInv, ShownIsApplied
<1> QED  BY <1>1, PagesInductive, PTL

\* A curve with no mark beside its name is the curve of the file of that name, but for
\* the exceptions UnmarkedIsOnDisk names.
THEOREM UnmarkedMeansSaved == PagesSpec => []UnmarkedIsOnDisk
<1>1. PagesInv => UnmarkedIsOnDisk
  BY DEF PagesInv, PresetsInv
<1> QED  BY <1>1, PagesInductive, PTL

\* What params.bin holds outlives the program, and an older version of it: a start takes
\* it up, migrates it and writes it out with nothing lost.
THEOREM StartsLoseNothing == PagesSpec => StartsKeep
<1>1. PagesInv /\ [PagesNext]_pagesVars =>
        [~up /\ up' /\ params # NoFile /\ params.version >= 6 =>
           /\ params'.on = [params.on EXCEPT !["equalizer"] = session]
           /\ params'.order = params.order
           /\ params'.curve = params.curve /\ params'.impulse = params.impulse
           /\ \A s \in Setting :
                \/ params'.value[s] = params.value[s]
                \/ s \in Amounts /\ params.value[s] = 0]_controlVars
  BY StepsOfParts, StartsHold DEF PagesInv
<1>2. PagesInv /\ [PagesNext]_pagesVars =>
        [~up /\ up' /\ params # NoFile /\ params.version < 6 =>
           /\ \A s \in Stage \ {"equalizer"} : params'.on[s] = params.on[s]
           /\ \A s \in Setting : All[s].stage \in Known(params.version) =>
                \/ params'.value[s] = params.value[s]
                \/ s \in Newer(params.version)
                \/ s \in Amounts /\ params.value[s] = 0
           /\ IsOrder(params'.order)
           /\ params.version = 5 =>
                /\ \A a, b \in Known(5) : Place(params.order, a) < Place(params.order, b)
                     => Place(params'.order, a) < Place(params'.order, b)
                /\ params'.order[1] = "autoGain"
                /\ Neighbours(params'.order, "transient", "comp")
                /\ Neighbours(params'.order, "multiband", "nightMode")
                /\ Neighbours(params'.order, "clipper", "limiter")]_controlVars
  BY StepsOfParts, StartsHold DEF PagesInv
<1>3. PagesSpec => RestartKeeps
  BY <1>1, PagesInductive, PTL DEF PagesSpec, RestartKeeps
<1>4. PagesSpec => UpgradeKeeps
  BY <1>2, PagesInductive, PTL DEF PagesSpec, UpgradeKeeps
<1> QED  BY <1>3, <1>4, PTL DEF StartsKeep

\* A full preset or a curve that was saved comes back when it is loaded: what
\* PresetStore and EqualizerController write down is what they read.
THEOREM LoadsBringBack == PagesSpec => LoadedIsAsSaved
<1>1. PagesInv /\ [PagesNext]_pagesVars =>
        [\A here \in BOOLEAN : LoadFullPreset(here) => BroughtBack(Written)]_controlVars
  BY PresetComesBack DEF PagesInv
<1>2. PagesInv /\ [PagesNext]_pagesVars =>
        [\A row \in DOMAIN entries :
           LoadPreset(row) /\ entries[row].at = "user" /\ Readable(File(entries[row])) =>
             LET was == saved[entries[row].name] IN
             bands' = Curve(was.bands) /\ preamp' = Decimals(was.preamp)]_presetVars
  BY SavedComes DEF PagesInv
<1>3. PagesSpec => PresetBringsBack
  BY <1>1, PagesInductive, PTL DEF PagesSpec, PresetBringsBack
<1>4. PagesSpec => SavedComesBack
  BY <1>2, PagesInductive, PTL DEF PagesSpec, SavedComesBack
<1> QED  BY <1>3, <1>4, PTL DEF LoadedIsAsSaved

\* Peace's presets are only ever written by Peace, and engaging Equalizer APO's config.txt
\* leaves the lines of others where they were unless another program writes in between.
THEOREM OthersAreLeft == PagesSpec => OthersKeepTheirs
<1>1. PagesInv /\ [PagesNext]_pagesVars =>
        [(\E name \in ToSet(FileNames), file \in PeaceFiles \cup {NoPreset} : PeaceWrites(name, file))
           \/ peace' = peace]_presetVars
  BY StepsOfParts, PeaceIsKept DEF PagesInv
<1>2. PagesInv /\ [PagesNext]_pagesVars =>
        [WriteText /\ ~meanwhile =>
           /\ Others(configTxt') = Others(configTxt)
           /\ HasInclude(ReadLines(configTxt'), OwnFile) = engaged'
           /\ Len(configTxt') <= Len(configTxt) + 2]_configVars
  BY WriteTextKeeps DEF PagesInv
<1>3. PagesSpec => PeaceKeepsItsFiles
  BY <1>1, PagesInductive, PTL DEF PagesSpec, PeaceKeepsItsFiles
<1>4. PagesSpec => OthersLinesKept
  BY <1>2, PagesInductive, PTL DEF PagesSpec, OthersLinesKept
<1> QED  BY <1>3, <1>4, PTL DEF OthersKeepTheirs

=============================================================================
