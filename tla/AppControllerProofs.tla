------------------------- MODULE AppControllerProofs -------------------------
(***************************************************************************)
(* Proofs about AppController, for any impulse responses and any number of *)
(* edits, starts and faults.                                               *)
(***************************************************************************)
EXTENDS AppController, TLAPS

\* What a handler that publishes an impulse response still has to do.
JobsToDo ==
  [kind : {"select", "start"}, ir : Impulses]
  \cup [kind : {"preset"}, ir : Impulses, want : BOOLEAN]

Texts == [eq : BOOLEAN, conv : Impulses \cup {NoImpulse}, curve : Versions]
Sessions ==
  [eqOn : BOOLEAN, master : BOOLEAN, ir : Impulses \cup {NoImpulse}, irOn : BOOLEAN,
   curve : Versions]

\* The types, those of the variables TypeOK leaves out among them.  A version is
\* never ahead of what the user has done.
TypeInv ==
  /\ TypeOK
  /\ phase \in {"blob", "publish"} => job \in JobsToDo
  /\ text \in Texts
  /\ session \in Sessions
  /\ ops \in Versions /\ faults \in Nat /\ lost \in BOOLEAN

BoundInv ==
  /\ ctl.curve <= ops /\ ctl.fx <= ops /\ session.curve <= ops
  /\ params # NoFile => params.body \in [curve : 0..ops, fx : 0..ops]

\* A hash is only ever taken up with its file on disk.
BlobInv ==
  /\ pub.hash # NoImpulse => pub.hash \in blobs
  /\ NamedBlobExists
  /\ phase = "publish" => job.ir \in blobs

\* Generations only grow from the file to the publisher, and from what was
\* reported to what the object holds, which it had from the file.
GenerationInv ==
  /\ params # NoFile => params.gen > 0
  /\ params # NoFile /\ phase # "down" => params.gen <= pub.gen
  /\ ~lost /\ params = NoFile => apo = NoBlock /\ seen = 0
  /\ ~lost /\ params # NoFile =>
       /\ apo = NoBlock \/ apo = params \/ apo.gen < params.gen
       /\ seen <= params.gen
       /\ apo = NoBlock \/ seen <= apo.gen

\* The phases in which the publisher has been told what the controller holds.
Told ==
  \/ phase \in {"greeting", "up"}
  \/ phase \in {"blob", "publish"} /\ job.kind = "select"

\* What the publisher and the two files hold of the controller's fields, as far as
\* no timer is running and the last write succeeded.
AgreeInv ==
  /\ phase # "down" => ctl.engaged = include
  /\ Told => pub.eqHere = EqRunsHere(ctl) /\ pub.master = ctl.master
  /\ phase \in {"blob", "publish"} /\ job.kind = "select" => ctl.native
  /\ phase \in {"greeting", "up"} /\ ~pubTimer /\ "params" \notin failed =>
       params = Block(pub, Body)
  /\ (Told /\ phase # "greeting" /\ ~writeTimer) \/ phase = "quitting" =>
       "text" \in failed \/ text = Text(ctl)

ControllerInv == TypeInv /\ BoundInv /\ BlobInv /\ GenerationInv /\ AgreeInv

-----------------------------------------------------------------------------
(* What the handlers are built from.                                       *)

Controls ==
  [eqOn : BOOLEAN, master : BOOLEAN, engaged : BOOLEAN, native : BOOLEAN,
   ir : Impulses \cup {NoImpulse}, irOn : BOOLEAN, curve : Versions, fx : Versions]

LEMMA SourcesType ==
  ASSUME NEW c \in Controls
  PROVE  EqRunsHere(c) \in BOOLEAN /\ c.master \in BOOLEAN
BY DEF Controls, EqRunsHere

\* A change of a switch is a change of no version.
SameVersions(c, d) == d \in Controls /\ d.curve = c.curve /\ d.fx = c.fx

LEMMA EqOnSet ==
  ASSUME NEW c \in Controls, NEW b \in BOOLEAN
  PROVE  SameVersions(c, [c EXCEPT !.eqOn = b]) /\ [c EXCEPT !.eqOn = b].engaged = c.engaged
BY DEF Controls, SameVersions

LEMMA MasterSet ==
  ASSUME NEW c \in Controls, NEW b \in BOOLEAN
  PROVE  SameVersions(c, [c EXCEPT !.master = b]) /\ [c EXCEPT !.master = b].engaged = c.engaged
BY DEF Controls, SameVersions

LEMMA IrOnSet ==
  ASSUME NEW c \in Controls, NEW b \in BOOLEAN
  PROVE  /\ SameVersions(c, [c EXCEPT !.irOn = b])
         /\ [c EXCEPT !.irOn = b].engaged = c.engaged
         /\ [c EXCEPT !.irOn = b].native = c.native
BY DEF Controls, SameVersions

LEMMA NativeSet ==
  ASSUME NEW c \in Controls, NEW b \in BOOLEAN
  PROVE  SameVersions(c, [c EXCEPT !.native = b]) /\ [c EXCEPT !.native = b].engaged = c.engaged
BY DEF Controls, SameVersions

LEMMA EngagedSet ==
  ASSUME NEW c \in Controls, NEW b \in BOOLEAN
  PROVE  /\ SameVersions(c, [c EXCEPT !.engaged = b])
         /\ [c EXCEPT !.engaged = b].engaged = b
         /\ [c EXCEPT !.engaged = b].irOn = c.irOn
BY DEF Controls, SameVersions

\* The setters keep the publisher one, with its number and its hash.
LEMMA SettersKeep ==
  ASSUME NEW p \in Publisher, NEW e \in BOOLEAN, NEW m \in BOOLEAN, NEW on \in BOOLEAN
  PROVE  /\ WithSources(p, e, m) \in Publisher
         /\ WithSources(p, e, m).gen = p.gen /\ WithSources(p, e, m).hash = p.hash
         /\ WithSources(p, e, m).eqHere = e /\ WithSources(p, e, m).master = m
         /\ WithImpulseOn(p, on) \in Publisher
         /\ WithImpulseOn(p, on).gen = p.gen /\ WithImpulseOn(p, on).hash = p.hash
         /\ WithImpulseOn(p, on).eqHere = p.eqHere /\ WithImpulseOn(p, on).master = p.master
BY DEF WithSources, WithImpulseOn, Publisher

LEMMA NumberedKeeps ==
  ASSUME NEW p \in Publisher
  PROVE  /\ Numbered(p) \in Publisher
         /\ Numbered(p).gen = p.gen + 1 /\ Numbered(p).hash = p.hash
         /\ Numbered(p).eqHere = p.eqHere /\ Numbered(p).master = p.master
BY DEF Numbered, Publisher

\* What is written is a block, and never taken for the missing file.
LEMMA BlockIsThere ==
  ASSUME TypeInv, BoundInv, NEW p \in Publisher
  PROVE  /\ Block(p, Body) \in Blocks /\ Block(p, Body) # NoFile
         /\ Block(p, Body).gen = p.gen /\ Block(p, Body).conv = p.hash
         /\ Block(p, Body).body \in [curve : 0..ops, fx : 0..ops]
<1>1. Body \in [curve : Versions, fx : Versions] /\ Body \in [curve : 0..ops, fx : 0..ops]
  BY VersionsAssumption DEF TypeInv, TypeOK, BoundInv, Body, Versions
<1>2. Body \in Bodies
  BY <1>1, VersionsAssumption
<1>3. Block(p, Body) \in Blocks
  BY <1>2 DEF Block, Blocks, Publisher
<1>4. Block(p, Body) # NoFile
  BY <1>3, NoFileAssumption
<1> QED BY <1>1, <1>3, <1>4 DEF Block

-----------------------------------------------------------------------------
(* Steps that leave a part of the invariant alone.                         *)

\* No file of ours is touched, and the publisher takes up no other impulse response.
LEMMA BlobsStay ==
  ASSUME BlobInv, UNCHANGED params, blobs \subseteq blobs',
         pub'.hash \in {pub.hash, NoImpulse},
         phase' = "publish" => phase = "publish" /\ job' = job
  PROVE  BlobInv'
BY DEF BlobInv, NamedBlobExists

\* ... and a window that stays open goes on counting.
LEMMA GenerationsStay ==
  ASSUME TypeInv, GenerationInv, UNCHANGED <<params, apo, seen, lost>>,
         phase' # "down" => phase # "down" /\ pub'.gen = pub.gen
  PROVE  GenerationInv'
BY DEF GenerationInv

\* A block is written, or is not, under the next number.
LEMMA GenerationsGrow ==
  ASSUME TypeInv, BoundInv, GenerationInv, phase # "down",
         NEW p \in Publisher, p.gen = pub.gen + 1, NEW ok \in BOOLEAN,
         WriteParams(p, Body, ok),
         phase' # "down" => pub'.gen = p.gen,
         UNCHANGED <<apo, lost>>, seen' \in {seen, 0}
  PROVE  GenerationInv'
<1>1. pub.gen \in Nat /\ apo.gen \in Nat /\ seen \in Nat /\ (params # NoFile => params.gen \in Nat)
  BY DEF TypeInv, TypeOK, Publisher, Blocks
<1>2. CASE ok
  <2>1. params' = Block(p, Body) /\ params' # NoFile /\ params'.gen = pub.gen + 1
    BY <1>2, BlockIsThere DEF WriteParams
  <2> QED BY <1>1, <2>1 DEF GenerationInv, NoBlock
<1>3. CASE ~ok
  BY <1>1, <1>3 DEF GenerationInv, WriteParams, NoBlock
<1> QED BY <1>2, <1>3

\* What is written names no other impulse response than the publisher.
LEMMA BlobsNamed ==
  ASSUME TypeInv, BoundInv, BlobInv, NEW p \in Publisher, NEW ok \in BOOLEAN,
         WriteParams(p, Body, ok), blobs \subseteq blobs',
         p.hash # NoImpulse => p.hash \in blobs,
         pub'.hash \in {p.hash, NoImpulse}, phase' # "publish"
  PROVE  BlobInv'
<1>1. params' \in {params, Block(p, Body)} /\ Block(p, Body).conv = p.hash
  BY BlockIsThere DEF WriteParams
<1> QED BY <1>1 DEF BlobInv, NamedBlobExists

\* Both timers running, nothing is yet said of the two files.
LEMMA ScheduledAgree ==
  ASSUME NEW p \in Publisher, NEW c \in Controls, ScheduleWrite(p, c),
         c.engaged = include', phase' # "quitting",
         phase' \in {"blob", "publish"} /\ job'.kind = "select" => c.native
  PROVE  AgreeInv'
<1>1. /\ ctl' = c /\ pub'.eqHere = EqRunsHere(c) /\ pub'.master = c.master
      /\ writeTimer' = TRUE /\ pubTimer' = TRUE
  BY SourcesType, SettersKeep DEF ScheduleWrite, Schedule
<1> QED BY <1>1 DEF AgreeInv, Told, EqRunsHere

\* The step of a handler that schedules both files and writes none.
LEMMA ScheduledStep ==
  ASSUME ControllerInv, NEW p \in Publisher, NEW c \in Controls, ScheduleWrite(p, c),
         p.gen = pub.gen, p.hash = pub.hash,
         c.engaged = include', include' \in BOOLEAN, slot' \in BOOLEAN,
         phase # "down", phase' \in {"up", "flush", "blob"},
         phase' = "blob" => job' \in JobsToDo,
         phase' = "blob" /\ job'.kind = "select" => c.native,
         ops' \in Versions, ops <= ops', faults' \in Nat,
         c.curve <= ops', c.fx <= ops',
         UNCHANGED <<params, blobs, text, session, running, apo, seen, lost>>
  PROVE  ControllerInv'
<1>1. pub' \in Publisher /\ pub'.gen = pub.gen /\ pub'.hash = pub.hash /\ pubTimer' = TRUE
      /\ ctl' = c /\ writeTimer' = TRUE
  <2> DEFINE q == WithSources(p, EqRunsHere(c), c.master)
  <2>1. q \in Publisher /\ q.gen = p.gen /\ q.hash = p.hash
    BY SourcesType, SettersKeep
  <2>2. pub' = q /\ pubTimer' = TRUE /\ ctl' = c /\ writeTimer' = TRUE
    BY DEF ScheduleWrite, Schedule
  <2> QED BY <2>1, <2>2
<1>2. TypeInv'
  BY <1>1 DEF ControllerInv, TypeInv, TypeOK, Controls
<1>3. BoundInv'
  BY <1>1, VersionsAssumption DEF ControllerInv, BoundInv, TypeInv, TypeOK, Sessions, Versions
<1>4. BlobInv'
  BY <1>1, BlobsStay DEF ControllerInv
<1>5. GenerationInv'
  BY <1>1, GenerationsStay DEF ControllerInv
<1>6. AgreeInv'
  BY ScheduledAgree
<1> QED BY <1>2, <1>3, <1>4, <1>5, <1>6 DEF ControllerInv

-----------------------------------------------------------------------------
(* The user.                                                               *)

LEMMA CountedOps ==
  ASSUME ControllerInv, UserActs
  PROVE  phase = "up" /\ ops \in Nat /\ ops' = ops + 1 /\ ops' \in Versions /\ ops <= ops'
BY VersionsAssumption DEF ControllerInv, TypeInv, UserActs, Versions

LEMMA ControllerTyped ==
  ASSUME ControllerInv
  PROVE  /\ ctl \in Controls /\ pub \in Publisher
         /\ ctl.curve \in Nat /\ ctl.fx \in Nat /\ ctl.curve <= ops /\ ctl.fx <= ops
         /\ phase # "down" => ctl.engaged = include
         /\ pubTimer \in BOOLEAN /\ writeTimer \in BOOLEAN /\ include \in BOOLEAN
         /\ text \in Texts /\ session \in Sessions /\ params \in Blocks \cup {NoFile}
         /\ faults \in Nat /\ session.curve \in Nat /\ session.curve <= ops /\ ops \in Nat
<1>1. /\ ctl \in Controls /\ pub \in Publisher /\ params \in Blocks \cup {NoFile}
      /\ pubTimer \in BOOLEAN /\ writeTimer \in BOOLEAN /\ include \in BOOLEAN
      /\ text \in Texts /\ session \in Sessions /\ faults \in Nat /\ ops \in Versions
  BY DEF ControllerInv, TypeInv, TypeOK, Controls
<1>2. /\ ctl.curve \in Nat /\ ctl.fx \in Nat /\ session.curve \in Nat /\ ops \in Nat
  BY <1>1, VersionsAssumption DEF Controls, Sessions, Versions
<1> QED BY <1>1, <1>2 DEF ControllerInv, BoundInv, AgreeInv

LEMMA ChangeStep ==
  ASSUME ControllerInv, NEW c \in Controls, c.engaged = ctl.engaged, Change(c),
         c.curve <= ops', c.fx <= ops'
  PROVE  ControllerInv'
<1>1. phase = "up" /\ ops' \in Versions /\ ops <= ops' /\ ScheduleWrite(pub, c)
  BY CountedOps DEF Change
<1>2. /\ include' = include /\ include \in BOOLEAN /\ slot' \in BOOLEAN /\ faults' \in Nat
      /\ phase' = "up"
      /\ UNCHANGED <<params, blobs, text, session, running, apo, seen, lost>>
  BY <1>1 DEF Change, ControllerInv, TypeInv, TypeOK, files, world
<1> QED BY <1>1, <1>2, ControllerTyped, ScheduledStep

LEMMA EditCurveStep ==
  ASSUME ControllerInv, EditCurve
  PROVE  ControllerInv'
<1> DEFINE c == [ctl EXCEPT !.curve = @ + 1]
<1>1. UserActs /\ Change(c)
  BY DEF EditCurve, Change
<1>2. c \in Controls /\ c.engaged = ctl.engaged /\ c.curve <= ops' /\ c.fx <= ops'
  BY <1>1, ControllerTyped, CountedOps, VersionsAssumption DEF Controls, Versions
<1> HIDE DEF c
<1> QED BY <1>1, <1>2, ChangeStep

LEMMA SwitchStep ==
  ASSUME ControllerInv, SetEqEnabled \/ SetMasterEnabled
  PROVE  ControllerInv'
<1> DEFINE e == [ctl EXCEPT !.eqOn = ~@]
           m == [ctl EXCEPT !.master = ~@]
<1>1. UserActs /\ (Change(e) \/ Change(m))
  BY DEF SetEqEnabled, SetMasterEnabled, Change
<1>2. ctl.curve <= ops' /\ ctl.fx <= ops'
  BY <1>1, ControllerTyped, CountedOps
<1>3. e \in Controls /\ e.engaged = ctl.engaged /\ e.curve <= ops' /\ e.fx <= ops'
  <2>1. (~ctl.eqOn) \in BOOLEAN
    OBVIOUS
  <2> QED BY <1>2, <2>1, ControllerTyped, EqOnSet DEF SameVersions
<1>4. m \in Controls /\ m.engaged = ctl.engaged /\ m.curve <= ops' /\ m.fx <= ops'
  <2>1. (~ctl.master) \in BOOLEAN
    OBVIOUS
  <2> QED BY <1>2, <2>1, ControllerTyped, MasterSet DEF SameVersions
<1> HIDE DEF e, m
<1> QED BY <1>1, <1>3, <1>4, ChangeStep

LEMMA EditEffectStep ==
  ASSUME ControllerInv, EditEffect
  PROVE  ControllerInv'
<1> USE DEF EditEffect, Schedule, files, world
<1>1. phase = "up" /\ ops' \in Versions /\ ops' = ops + 1 /\ ops \in Nat
  BY CountedOps
<1>2. /\ ctl' \in Controls /\ ctl'.fx <= ops' /\ ctl'.curve <= ops'
      /\ ctl' = [ctl EXCEPT !.fx = ctl.fx + 1]
  BY <1>1, ControllerTyped, VersionsAssumption DEF Controls, Versions
<1>3. TypeInv'
  BY <1>1, <1>2 DEF ControllerInv, TypeInv, TypeOK, Controls
<1>4. BoundInv'
  BY <1>1, <1>2, VersionsAssumption DEF ControllerInv, BoundInv, TypeInv, Sessions, Versions
<1>5. BlobInv' /\ GenerationInv'
  BY <1>1, BlobsStay, GenerationsStay DEF ControllerInv
<1>6. AgreeInv'
  BY <1>1, <1>2, ControllerTyped DEF ControllerInv, AgreeInv, Told, EqRunsHere, Controls, Text
<1> QED BY <1>3, <1>4, <1>5, <1>6 DEF ControllerInv

LEMMA SetEngagedStep ==
  ASSUME ControllerInv, NEW on \in BOOLEAN, SetEngaged(on)
  PROVE  ControllerInv'
<1>1. UserActs /\ phase = "up" /\ ops' \in Versions /\ ops' = ops + 1 /\ ops \in Nat
  BY CountedOps DEF SetEngaged
<1>2. PICK ok \in BOOLEAN :
        /\ Writes("config", ok)
        /\ include' = IF ok THEN on ELSE include
        /\ IF ok THEN ScheduleWrite(pub, Engaged(ctl, on, ok))
           ELSE UNCHANGED <<ctl, pub, pubTimer, writeTimer>>
  BY DEF SetEngaged
<1>3. UNCHANGED <<params, blobs, phase, job, text, session, slot, running, apo, seen, lost>>
  BY DEF SetEngaged, world
<1>4. faults' \in Nat /\ slot \in BOOLEAN
  BY <1>2 DEF Writes, ControllerInv, TypeInv, TypeOK
<1>5. CASE ok
  <2> DEFINE c == Engaged(ctl, on, ok)
  <2>1. c \in Controls /\ c.engaged = on /\ c.curve <= ops' /\ c.fx <= ops'
    BY <1>1, <1>5, ControllerTyped, VersionsAssumption DEF Controls, Engaged, Versions
  <2>2. ScheduleWrite(pub, c) /\ include' = on
    BY <1>2, <1>5
  <2> HIDE DEF c
  <2> QED BY <1>1, <1>3, <1>4, <2>1, <2>2, ControllerTyped, ScheduledStep
<1>6. CASE ~ok
  <2>1. UNCHANGED <<ctl, pub, pubTimer, writeTimer, include>> /\ failed' = failed \cup {"config"}
    BY <1>2, <1>6 DEF Writes
  <2>2. TypeInv' /\ BoundInv'
    BY <1>1, <1>3, <1>4, <2>1, VersionsAssumption
    DEF ControllerInv, TypeInv, TypeOK, BoundInv, Sessions, Versions
  <2>3. BlobInv' /\ GenerationInv'
    BY <1>1, <1>3, <2>1, BlobsStay, GenerationsStay DEF ControllerInv
  <2>4. AgreeInv'
    BY <1>1, <1>3, <2>1 DEF ControllerInv, AgreeInv, Told, EqRunsHere, Text, Body
  <2> QED BY <2>2, <2>3, <2>4 DEF ControllerInv
<1> QED BY <1>5, <1>6

\* A step of the registry, of the processing object or of a report.
LEMMA OutsideStep ==
  ASSUME ControllerInv,
         UNCHANGED <<publisherVars, ctl, writeTimer, phase, job, include, text, session, lost>>,
         failed \subseteq failed', TypeInv', ops <= ops', GenerationInv'
  PROVE  ControllerInv'
<1> USE DEF publisherVars
<1>1. BoundInv'
  <2>1. ops \in Nat /\ ctl.curve \in Nat /\ ctl.fx \in Nat /\ session.curve \in Nat /\ ops' \in Nat
    BY ControllerTyped, VersionsAssumption DEF ControllerInv, TypeInv, Versions
  <2> QED BY <2>1 DEF ControllerInv, BoundInv
<1>2. BlobInv'
  BY BlobsStay DEF ControllerInv
<1>3. AgreeInv'
  BY DEF ControllerInv, AgreeInv, Told, EqRunsHere, Text, Body
<1> QED BY <1>1, <1>2, <1>3 DEF ControllerInv

\* What the window makes of the slot it finds.
LEMMA SyncedType ==
  ASSUME NEW c \in Controls, NEW ok \in BOOLEAN
  PROVE  SameVersions(c, Synced(c, ok)) /\ Synced(c, ok).engaged \in {c.engaged, FALSE}
<1>1. Synced(c, ok) = c \/ Synced(c, ok) = [c EXCEPT !.engaged = FALSE]
  BY DEF Synced, Engaged
<1> QED BY <1>1, EngagedSet DEF SameVersions

LEMMA RefreshedType ==
  ASSUME NEW c \in Controls, NEW ok \in BOOLEAN, slot' \in BOOLEAN
  PROVE  LET d == Refreshed(c, ok)
         IN /\ SameVersions(c, d) /\ d.engaged \in {c.engaged, FALSE}
            /\ slot' = c.native => d = c
<1> DEFINE now == [c EXCEPT !.native = slot']
<1>1. SameVersions(c, now) /\ now.engaged = c.engaged
  <2>1. PICK b \in BOOLEAN : b = slot'
    OBVIOUS
  <2> QED BY <2>1, NativeSet
<1>2. now = c \/ slot' # c.native
  BY DEF Controls
<1>3. Refreshed(c, ok) = IF slot' # c.native THEN Synced(now, ok) ELSE now
  BY DEF Refreshed
<1> HIDE DEF now
<1>4. SameVersions(now, Synced(now, ok)) /\ Synced(now, ok).engaged \in {now.engaged, FALSE}
  BY <1>1, SyncedType DEF SameVersions
<1> QED BY <1>1, <1>2, <1>3, <1>4 DEF SameVersions

LEMMA RefreshStep ==
  ASSUME ControllerInv, UserActs, slot' \in BOOLEAN, RefreshApoState
  PROVE  ControllerInv'
<1>1. phase = "up" /\ ops' \in Versions /\ ops' = ops + 1 /\ ops \in Nat /\ ops <= ops'
  BY CountedOps
<1>2. PICK ok \in BOOLEAN :
        LET c == Refreshed(ctl, ok) IN
        /\ IF slot' /\ ~ctl.native /\ ctl.engaged THEN Writes("config", ok)
           ELSE ok /\ UNCHANGED <<faults, failed>>
        /\ include' = IF c.engaged # ctl.engaged THEN FALSE ELSE include
        /\ IF slot' # ctl.native THEN ScheduleWrite(pub, c)
           ELSE UNCHANGED <<ctl, pub, pubTimer, writeTimer>>
  BY DEF RefreshApoState
<1>3. UNCHANGED <<params, blobs, phase, job, text, session, running, apo, seen, lost>>
  BY DEF RefreshApoState
<1> DEFINE c == Refreshed(ctl, ok)
<1>4. /\ c \in Controls /\ c.curve = ctl.curve /\ c.fx = ctl.fx
      /\ c.engaged \in {ctl.engaged, FALSE} /\ (slot' = ctl.native => c = ctl)
  BY ControllerTyped, RefreshedType DEF SameVersions
<1>5. faults' \in Nat
  BY <1>2 DEF Writes, ControllerInv, TypeInv
<1>6. ctl.engaged = include /\ include \in BOOLEAN
  BY <1>1, ControllerTyped DEF ControllerInv, TypeInv, TypeOK
<1>7. include' = c.engaged /\ include' \in BOOLEAN
  <2>1. include' = IF c.engaged # ctl.engaged THEN FALSE ELSE include
    BY <1>2
  <2> HIDE DEF c
  <2> QED BY <1>4, <1>6, <2>1
<1>8. CASE slot' # ctl.native
  <2>1. ScheduleWrite(pub, c)
    BY <1>2, <1>8
  <2>2. c.curve <= ops' /\ c.fx <= ops'
    BY <1>1, <1>4, ControllerTyped
  <2> HIDE DEF c
  <2> QED BY <1>1, <1>3, <1>4, <1>5, <1>7, <2>1, <2>2, ControllerTyped, ScheduledStep
<1>9. CASE slot' = ctl.native
  <2>1. UNCHANGED <<ctl, pub, pubTimer, writeTimer, failed>>
    BY <1>2, <1>9
  <2>2. include' = include
    BY <1>4, <1>6, <1>7, <1>9
  <2>3. TypeInv'
    BY <1>1, <1>3, <1>5, <2>1, <2>2 DEF ControllerInv, TypeInv, TypeOK
  <2>4. GenerationInv'
    BY <1>1, <1>3, <2>1, GenerationsStay DEF ControllerInv
  <2> QED BY <1>1, <1>3, <2>1, <2>2, <2>3, <2>4, OutsideStep DEF publisherVars
<1> QED BY <1>8, <1>9

LEMMA SlotStep ==
  ASSUME ControllerInv,
         NoticeSlot \/ \E on \in BOOLEAN : SetAttached(on)
  PROVE  ControllerInv'
<1>1. slot \in BOOLEAN
  BY DEF ControllerInv, TypeInv, TypeOK
<1> QED BY <1>1, RefreshStep DEF NoticeSlot, SetAttached

\* Another program takes the slot, or the audio service goes over to it.
LEMMA TakeSlotStep ==
  ASSUME ControllerInv, TakeSlot \/ RestartAudio
  PROVE  ControllerInv'
<1> USE DEF TakeSlot, RestartAudio, files
<1>1. UserActs /\ ops' \in Versions /\ ops' = ops + 1 /\ ops \in Nat /\ ops <= ops'
  BY CountedOps
<1>2. NoBlock \in Blocks
  BY VersionsAssumption DEF NoBlock, Blocks, Versions
<1>3. TypeInv'
  BY <1>1, <1>2 DEF ControllerInv, TypeInv, TypeOK, publisherVars
<1>4. GenerationInv'
  BY DEF ControllerInv, GenerationInv, NoBlock, publisherVars, TypeInv, TypeOK, Publisher
<1> QED BY <1>1, <1>3, <1>4, OutsideStep

LEMMA ObjectStep ==
  ASSUME ControllerInv, Reload \/ PollStatus
  PROVE  ControllerInv'
<1> USE DEF Reload, PollStatus, files, budget
<1>1. apo.gen \in Nat /\ apo' \in Blocks /\ seen' \in Nat
  BY DEF ControllerInv, TypeInv, TypeOK, Blocks
<1>2. TypeInv' /\ ops <= ops'
  BY <1>1, VersionsAssumption DEF ControllerInv, TypeInv, TypeOK, publisherVars, Versions
<1>3. GenerationInv'
  BY <1>1 DEF ControllerInv, GenerationInv, NoBlock, publisherVars, TypeInv, TypeOK, Blocks
<1> QED BY <1>2, <1>3, OutsideStep

\* The impulse response the interface names.
LEMMA IrSet ==
  ASSUME NEW c \in Controls, NEW ir \in Impulses \cup {NoImpulse}, NEW b \in BOOLEAN
  PROVE  /\ SameVersions(c, [c EXCEPT !.ir = ir, !.irOn = b])
         /\ [c EXCEPT !.ir = ir, !.irOn = b].engaged = c.engaged
         /\ [c EXCEPT !.ir = ir, !.irOn = b].native = c.native
BY DEF Controls, SameVersions

LEMMA SelectImpulseStep ==
  ASSUME ControllerInv, NEW ir \in Impulses, SelectImpulse(ir)
  PROVE  ControllerInv'
<1> DEFINE c == [ctl EXCEPT !.ir = ir, !.irOn = TRUE]
<1>1. UserActs /\ phase = "up" /\ ops' \in Versions /\ ops' = ops + 1 /\ ops \in Nat /\ ops <= ops'
  BY CountedOps DEF SelectImpulse
<1>2. /\ c \in Controls /\ c.engaged = ctl.engaged /\ c.native = ctl.native
      /\ c.curve <= ops' /\ c.fx <= ops'
  <2>1. SameVersions(ctl, c) /\ c.engaged = ctl.engaged /\ c.native = ctl.native
    BY ControllerTyped, IrSet
  <2> HIDE DEF c
  <2> QED BY <1>1, <2>1, ControllerTyped DEF SameVersions
<1>3. /\ UNCHANGED <<params, blobs, include, text, session, slot, running, apo, seen,
                     faults, failed, lost>>
      /\ include' \in BOOLEAN /\ slot' \in BOOLEAN /\ faults' \in Nat
  BY DEF SelectImpulse, files, world, ControllerInv, TypeInv, TypeOK
<1>4. CASE ~ctl.native
  <2>1. ScheduleWrite(pub, c) /\ UNCHANGED <<phase, job>>
    BY <1>4 DEF SelectImpulse
  <2> HIDE DEF c
  <2> QED BY <1>1, <1>2, <1>3, <2>1, ControllerTyped, ScheduledStep
<1>5. CASE ctl.native
  <2>1. /\ ctl' = c /\ UNCHANGED writeTimer
        /\ phase' = "blob" /\ job' = [kind |-> "select", ir |-> ir]
        /\ \/ UNCHANGED <<pub, pubTimer>>
           \/ pub' = WithImpulseOn(pub, TRUE) /\ pubTimer' = TRUE
    BY <1>5 DEF SelectImpulse, Schedule
  <2>2. /\ pub' \in Publisher /\ pubTimer' \in BOOLEAN /\ pub'.gen = pub.gen
        /\ pub'.hash = pub.hash /\ pub'.eqHere = pub.eqHere /\ pub'.master = pub.master
    BY <2>1, ControllerTyped DEF WithImpulseOn, Publisher, ControllerInv, TypeInv, TypeOK
  <2>3. TypeInv'
    BY <1>1, <1>2, <1>3, <2>1, <2>2 DEF ControllerInv, TypeInv, TypeOK, Controls, JobsToDo
  <2>4. BoundInv'
    <3>1. ctl'.curve <= ops' /\ ctl'.fx <= ops' /\ session.curve \in Nat
      BY <1>2, <2>1, ControllerTyped
    <3> QED BY <1>1, <1>3, <3>1 DEF ControllerInv, BoundInv
  <2>5. BlobInv' /\ GenerationInv'
    BY <1>1, <1>3, <2>1, <2>2, BlobsStay, GenerationsStay DEF ControllerInv
  <2>6. AgreeInv'
    <3>1. /\ ctl'.eqOn = ctl.eqOn /\ ctl'.master = ctl.master /\ ctl'.engaged = ctl.engaged
          /\ ctl'.native /\ ctl'.curve = ctl.curve
      BY <1>5, <2>1, ControllerTyped DEF Controls
    <3>2. EqRunsHere(ctl') = EqRunsHere(ctl) /\ Text(ctl') = Text(ctl)
      BY <1>5, <3>1 DEF EqRunsHere, Text
    <3> QED BY <1>1, <1>3, <2>1, <2>2, <3>1, <3>2 DEF ControllerInv, AgreeInv, Told
  <2> QED BY <2>3, <2>4, <2>5, <2>6 DEF ControllerInv
<1> QED BY <1>4, <1>5

LEMMA SetConvolutionEnabledStep ==
  ASSUME ControllerInv, SetConvolutionEnabled
  PROVE  ControllerInv'
<1> DEFINE on == ~ctl.irOn
           c == [ctl EXCEPT !.irOn = on]
           p == WithImpulseOn(pub, on)
<1>1. phase = "up" /\ ops' \in Versions /\ ops' = ops + 1 /\ ops \in Nat /\ ops <= ops'
  BY CountedOps DEF SetConvolutionEnabled
<1>2. on \in BOOLEAN /\ ScheduleWrite(p, c)
  BY DEF SetConvolutionEnabled
<1>3. /\ UNCHANGED <<params, blobs, phase, job, include, text, session, slot, running, apo,
                     seen, faults, failed, lost>>
      /\ include' \in BOOLEAN /\ slot' \in BOOLEAN /\ faults' \in Nat
  BY DEF SetConvolutionEnabled, files, world, ControllerInv, TypeInv, TypeOK
<1> HIDE DEF on
<1>4. c \in Controls /\ c.engaged = ctl.engaged /\ c.curve <= ops' /\ c.fx <= ops'
  BY <1>1, <1>2, ControllerTyped, IrOnSet DEF SameVersions
<1>5. p \in Publisher /\ p.gen = pub.gen /\ p.hash = pub.hash
  BY <1>2, ControllerTyped DEF WithImpulseOn, Publisher
<1> HIDE DEF c, p
<1> QED BY <1>1, <1>2, <1>3, <1>4, <1>5, ControllerTyped, ScheduledStep

\* Its four branches leave the publisher's number and hash, and count both versions.
LEMMA LoadFullPresetStep ==
  ASSUME ControllerInv, NEW eqOn \in BOOLEAN, NEW want \in BOOLEAN,
         NEW ir \in Impulses \cup {NoImpulse}, LoadFullPreset(eqOn, ir, want)
  PROVE  ControllerInv'
<1> DEFINE c == [ctl EXCEPT !.eqOn = eqOn, !.curve = @ + 1, !.fx = @ + 1]
<1>1. phase = "up" /\ ops' \in Versions /\ ops' = ops + 1 /\ ops \in Nat /\ ops <= ops'
  BY CountedOps DEF LoadFullPreset
<1>2. c \in Controls /\ c.engaged = ctl.engaged /\ c.native = ctl.native
      /\ c.curve <= ops' /\ c.fx <= ops'
  <2>1. /\ ctl.curve + 1 \in Versions /\ ctl.fx + 1 \in Versions
        /\ ctl.curve + 1 <= ops' /\ ctl.fx + 1 <= ops'
    BY <1>1, ControllerTyped, VersionsAssumption DEF Versions
  <2> QED BY <2>1, ControllerTyped DEF Controls
<1>3. /\ UNCHANGED <<params, blobs, include, text, session, slot, running, apo,
                     seen, faults, failed, lost>>
      /\ include' \in BOOLEAN /\ slot' \in BOOLEAN /\ faults' \in Nat
  BY DEF LoadFullPreset, files, world, ControllerInv, TypeInv, TypeOK
<1>4. \/ ScheduleWrite(pub, c) /\ phase' = "flush"
      \/ /\ ScheduleWrite(WithImpulseOn(pub, TRUE), [c EXCEPT !.ir = ir, !.irOn = TRUE])
         /\ phase' = "blob" /\ job' = [kind |-> "preset", ir |-> ir, want |-> want]
         /\ ir \in Impulses
      \/ /\ ScheduleWrite(WithImpulseOn(pub, want), [c EXCEPT !.ir = ir, !.irOn = want])
         /\ phase' = "flush"
  BY DEF LoadFullPreset
<1> HIDE DEF c
<1>5. \A b \in BOOLEAN :
        /\ WithImpulseOn(pub, b) \in Publisher
        /\ WithImpulseOn(pub, b).gen = pub.gen /\ WithImpulseOn(pub, b).hash = pub.hash
  BY ControllerTyped DEF WithImpulseOn, Publisher
<1>6. \A b \in BOOLEAN :
        /\ [c EXCEPT !.ir = ir, !.irOn = b] \in Controls
        /\ [c EXCEPT !.ir = ir, !.irOn = b].engaged = ctl.engaged
        /\ [c EXCEPT !.ir = ir, !.irOn = b].curve <= ops'
        /\ [c EXCEPT !.ir = ir, !.irOn = b].fx <= ops'
  <2> TAKE b \in BOOLEAN
  <2> DEFINE d == [c EXCEPT !.ir = ir, !.irOn = b]
  <2>1. SameVersions(c, d) /\ d.engaged = c.engaged
    BY <1>2, IrSet
  <2> HIDE DEF d
  <2>2. d \in Controls /\ d.engaged = ctl.engaged /\ d.curve <= ops' /\ d.fx <= ops'
    BY <1>2, <2>1 DEF SameVersions
  <2> QED BY <2>2 DEF d
<1>7. PICK p \in Publisher, d \in Controls :
        /\ ScheduleWrite(p, d) /\ p.gen = pub.gen /\ p.hash = pub.hash
        /\ d.engaged = ctl.engaged /\ d.curve <= ops' /\ d.fx <= ops'
  BY <1>2, <1>4, <1>5, <1>6, ControllerTyped
<1>8. phase' \in {"flush", "blob"} /\ (phase' = "blob" => job' \in JobsToDo /\ job'.kind = "preset")
  <2>1. ASSUME ir \in Impulses
        PROVE  [kind |-> "preset", ir |-> ir, want |-> want] \in JobsToDo
    BY <2>1 DEF JobsToDo
  <2>2. \/ phase' = "flush"
        \/ /\ phase' = "blob" /\ job' = [kind |-> "preset", ir |-> ir, want |-> want]
           /\ ir \in Impulses
    BY <1>4
  <2> QED BY <2>1, <2>2
<1> QED BY <1>1, <1>3, <1>7, <1>8, ControllerTyped, ScheduledStep

-----------------------------------------------------------------------------
(* The handlers that write files.                                          *)

LEMMA WritesCount ==
  ASSUME ControllerInv, NEW file, NEW ok \in BOOLEAN, Writes(file, ok)
  PROVE  /\ faults \in Nat /\ faults' \in Nat /\ (~ok => faults' = faults + 1)
         /\ ok => faults' = faults
         /\ failed' = IF ok THEN failed \ {file} ELSE failed \cup {file}
BY DEF Writes, ControllerInv, TypeInv

\* A written block has the type of one, a failed write leaves what there was.
LEMMA ParamsWritten ==
  ASSUME ControllerInv, NEW p \in Publisher, NEW ok \in BOOLEAN, WriteParams(p, Body, ok)
  PROVE  /\ params' \in Blocks \cup {NoFile}
         /\ params' # NoFile => params'.body \in [curve : 0..ops, fx : 0..ops]
         /\ ok => params' = Block(p, Body) /\ params' # NoFile
<1>1. CASE ok
  BY <1>1, BlockIsThere DEF ControllerInv, WriteParams
<1>2. CASE ~ok
  BY <1>2 DEF ControllerInv, WriteParams, TypeInv, TypeOK, BoundInv
<1> QED BY <1>1, <1>2

\* A handler that writes params.bin under the next number and then schedules both
\* files again.
LEMMA RewrittenStep ==
  ASSUME ControllerInv, NEW p \in Publisher, NEW q \in Publisher, NEW c \in Controls,
         NEW ok \in BOOLEAN,
         WriteParams(p, Body, ok), ScheduleWrite(q, c),
         p.gen = pub.gen + 1, q.gen = p.gen,
         p.hash # NoImpulse => p.hash \in blobs, q.hash \in {p.hash, NoImpulse},
         c.engaged = include, c.curve <= ops, c.fx <= ops,
         phase # "down", phase' \in {"up", "flush"},
         ops' \in Versions, ops <= ops', faults' \in Nat,
         UNCHANGED <<blobs, include, text, session, slot, running, apo, seen, lost>>
  PROVE  ControllerInv'
<1>1. /\ pub' \in Publisher /\ pub'.gen = p.gen /\ pub'.hash = q.hash
      /\ pubTimer' = TRUE /\ ctl' = c /\ writeTimer' = TRUE
  <2> DEFINE w == WithSources(q, EqRunsHere(c), c.master)
  <2>1. w \in Publisher /\ w.gen = q.gen /\ w.hash = q.hash
    BY SourcesType, SettersKeep
  <2>2. pub' = w /\ pubTimer' = TRUE /\ ctl' = c /\ writeTimer' = TRUE
    BY DEF ScheduleWrite, Schedule
  <2> HIDE DEF w
  <2> QED BY <2>1, <2>2
<1>2. TypeInv'
  BY <1>1, ParamsWritten DEF ControllerInv, TypeInv, TypeOK, Controls
<1>3. BoundInv'
  <2>1. /\ ops \in Nat /\ ops' \in Nat /\ session.curve \in Nat /\ c.curve \in Nat /\ c.fx \in Nat
        /\ session.curve <= ops
    BY ControllerTyped, VersionsAssumption DEF Controls, Versions
  <2>2. 0..ops \subseteq 0..ops'
    BY <2>1
  <2> QED BY <1>1, <2>1, <2>2, ParamsWritten DEF BoundInv
<1>4. BlobInv'
  BY <1>1, BlobsNamed DEF ControllerInv
<1>5. GenerationInv'
  BY <1>1, GenerationsGrow DEF ControllerInv
<1>6. AgreeInv'
  BY ScheduledAgree
<1> QED BY <1>2, <1>3, <1>4, <1>5, <1>6 DEF ControllerInv

LEMMA ClearConvolutionStep ==
  ASSUME ControllerInv, ClearConvolution
  PROVE  ControllerInv'
<1> DEFINE p == Numbered(WithoutImpulse(pub))
           c == [ctl EXCEPT !.ir = NoImpulse, !.irOn = FALSE]
<1>1. phase = "up" /\ ops' \in Versions /\ ops <= ops'
  BY CountedOps DEF ClearConvolution
<1>2. PICK ok \in BOOLEAN :
        Writes("params", ok) /\ WriteParams(p, Body, ok) /\ ScheduleWrite(p, c)
  BY DEF ClearConvolution
<1>3. UNCHANGED <<blobs, phase, include, text, session, slot, running, apo, seen, lost>>
  BY DEF ClearConvolution, files, world
<1>4. p \in Publisher /\ p.gen = pub.gen + 1 /\ p.hash = NoImpulse
  <2>1. WithoutImpulse(pub) \in Publisher /\ WithoutImpulse(pub).gen = pub.gen
        /\ WithoutImpulse(pub).hash = NoImpulse
    BY ControllerTyped DEF WithoutImpulse, Publisher
  <2> QED BY <2>1, NumberedKeeps
<1>5. c \in Controls /\ c.engaged = ctl.engaged /\ c.curve <= ops /\ c.fx <= ops
  <2>1. SameVersions(ctl, c) /\ c.engaged = ctl.engaged
    BY ControllerTyped, IrSet
  <2> QED BY <2>1, ControllerTyped DEF SameVersions
<1>6. faults' \in Nat
  BY <1>2, WritesCount
<1> HIDE DEF p, c
<1> QED BY <1>1, <1>2, <1>3, <1>4, <1>5, <1>6, ControllerTyped, RewrittenStep

\* What a handler that publishes an impulse response may find to do.
LEMMA JobTyped ==
  ASSUME ControllerInv, phase \in {"blob", "publish"}
  PROVE  /\ job.ir \in Impulses /\ job.ir # NoImpulse
         /\ job.kind \in {"select", "start", "preset"}
         /\ job.kind = "preset" => job.want \in BOOLEAN
BY NoImpulseAssumption DEF ControllerInv, TypeInv, JobsToDo

LEMMA PublishBlobStep ==
  ASSUME ControllerInv, PublishBlob
  PROVE  ControllerInv'
<1>1. /\ phase = "blob" /\ UNCHANGED <<params, include, text, session, slot, running, apo, seen,
                                       ops, lost>>
      /\ include' \in BOOLEAN /\ slot' \in BOOLEAN /\ ops' \in Versions /\ ops <= ops'
  BY VersionsAssumption
  DEF PublishBlob, files, world, ControllerInv, TypeInv, TypeOK, Versions
<1>2. PICK ok \in BOOLEAN :
        /\ Writes("blob", ok)
        /\ IF ok
           THEN /\ WriteBlob(job.ir) /\ phase' = "publish"
                /\ UNCHANGED <<ctl, pub, pubTimer, writeTimer, job>>
           ELSE /\ job' = NoJob /\ UNCHANGED blobs
                /\ LET c == [ctl EXCEPT !.irOn = FALSE] IN
                   IF job.kind = "select"
                   THEN /\ ctl' = c /\ Schedule(WithImpulseOn(pub, FALSE))
                        /\ phase' = "up" /\ UNCHANGED writeTimer
                   ELSE After(pub, IF job.kind = "preset" THEN c ELSE ctl, FALSE)
  BY DEF PublishBlob
<1>3. faults' \in Nat /\ failed \ {"blob"} \subseteq failed' /\ failed' \subseteq failed \cup {"blob"}
  BY <1>2, WritesCount
<1>4. CASE ok
  <2>1. /\ blobs' = blobs \cup {job.ir} /\ phase' = "publish"
        /\ UNCHANGED <<ctl, pub, pubTimer, writeTimer, job>>
    BY <1>2, <1>4 DEF WriteBlob
  <2>2. TypeInv' /\ BoundInv'
    BY <1>1, <1>3, <2>1, JobTyped DEF ControllerInv, TypeInv, TypeOK, BoundInv
  <2>3. BlobInv'
    BY <1>1, <2>1 DEF ControllerInv, BlobInv, NamedBlobExists
  <2>4. GenerationInv'
    BY <1>1, <2>1, GenerationsStay DEF ControllerInv
  <2>5. AgreeInv'
    BY <1>1, <1>3, <2>1 DEF ControllerInv, AgreeInv, Told, EqRunsHere, Text
  <2> QED BY <2>2, <2>3, <2>4, <2>5 DEF ControllerInv
<1>5. CASE ~ok
  <2> DEFINE c == [ctl EXCEPT !.irOn = FALSE]
  <2>1. job' = NoJob /\ blobs' = blobs
    BY <1>2, <1>5
  <2>2. /\ c \in Controls /\ c.engaged = ctl.engaged /\ c.native = ctl.native
        /\ c.curve <= ops /\ c.fx <= ops
    <3>1. SameVersions(ctl, c) /\ c.engaged = ctl.engaged /\ c.native = ctl.native
      BY ControllerTyped, IrOnSet
    <3> QED BY <3>1, ControllerTyped DEF SameVersions
  <2>3. CASE job.kind = "select"
    <3>1. /\ ctl' = c /\ phase' = "up" /\ UNCHANGED writeTimer
          /\ pub' = WithImpulseOn(pub, FALSE) /\ pubTimer' = TRUE
      BY <1>2, <1>5, <2>3 DEF Schedule
    <3>2. /\ pub' \in Publisher /\ pub'.gen = pub.gen /\ pub'.hash = pub.hash
          /\ pub'.eqHere = pub.eqHere /\ pub'.master = pub.master
      BY <3>1, ControllerTyped, SettersKeep
    <3>3. TypeInv' /\ BoundInv'
      <4> HIDE DEF c
      <4>1. TypeInv'
        <5>1. /\ ctl' \in Controls /\ phase' = "up" /\ pubTimer' \in BOOLEAN
              /\ UNCHANGED writeTimer
          BY <2>2, <3>1
        <5> QED BY <1>1, <1>3, <2>1, <3>2, <5>1 DEF ControllerInv, TypeInv, TypeOK, Controls
      <4>2. BoundInv'
        BY <1>1, <2>2, <3>1 DEF ControllerInv, BoundInv
      <4> QED BY <4>1, <4>2
    <3>4. BlobInv' /\ GenerationInv'
      BY <1>1, <2>1, <3>1, <3>2, BlobsStay, GenerationsStay DEF ControllerInv
    <3>5. ctl.native
      BY <1>1, <2>3 DEF ControllerInv, AgreeInv
    <3>6. EqRunsHere(c) = EqRunsHere(ctl) /\ Text(c) = Text(ctl) /\ c.master = ctl.master
      BY <3>5, ControllerTyped DEF Controls, EqRunsHere, Text
    <3>7. /\ ctl.engaged = include /\ pub.eqHere = EqRunsHere(ctl) /\ pub.master = ctl.master
          /\ ~writeTimer => "text" \in failed \/ text = Text(ctl)
      BY <1>1, <2>3 DEF ControllerInv, AgreeInv, Told
    <3>8. AgreeInv'
      <4> HIDE DEF c
      <4> QED BY <1>1, <1>3, <2>2, <3>1, <3>2, <3>6, <3>7 DEF AgreeInv, Told
    <3> QED BY <3>3, <3>4, <3>8 DEF ControllerInv
  <2>4. CASE job.kind = "preset"
    <3> DEFINE d == [c EXCEPT !.irOn = job.want]
               p == WithImpulseOn(pub, job.want)
    <3>1. ScheduleWrite(p, d) /\ phase' = "flush"
      BY <1>2, <1>5, <2>4 DEF After
    <3>2. job.want \in BOOLEAN
      BY <1>1, <2>4, JobTyped
    <3>3. d \in Controls /\ d.engaged = ctl.engaged /\ d.curve <= ops /\ d.fx <= ops
      <4> HIDE DEF c
      <4>1. SameVersions(c, d) /\ d.engaged = c.engaged
        BY <2>2, <3>2, IrOnSet
      <4> QED BY <2>2, <4>1 DEF SameVersions
    <3>4. p \in Publisher /\ p.gen = pub.gen /\ p.hash = pub.hash
      BY <3>2, ControllerTyped, SettersKeep
    <3> HIDE DEF c, d, p
    <3> QED BY <1>1, <1>3, <2>1, <3>1, <3>3, <3>4, ControllerTyped, ScheduledStep
  <2>5. CASE job.kind = "start"
    <3>1. UNCHANGED <<pub, pubTimer, ctl, writeTimer>> /\ phase' = "starting"
      BY <1>2, <1>5, <2>5 DEF After
    <3>2. TypeInv' /\ BoundInv'
      BY <1>1, <1>3, <2>1, <3>1 DEF ControllerInv, TypeInv, TypeOK, BoundInv
    <3>3. BlobInv' /\ GenerationInv'
      BY <1>1, <2>1, <3>1, BlobsStay, GenerationsStay DEF ControllerInv
    <3>4. AgreeInv'
      BY <1>1, <3>1 DEF ControllerInv, AgreeInv, Told
    <3> QED BY <3>2, <3>3, <3>4 DEF ControllerInv
  <2> QED BY <1>1, <2>3, <2>4, <2>5, JobTyped
<1> QED BY <1>4, <1>5

LEMMA PublishImpulseStep ==
  ASSUME ControllerInv, PublishImpulse
  PROVE  ControllerInv'
<1> DEFINE p == Numbered(WithImpulse(pub, job.ir))
<1>1. /\ phase = "publish"
      /\ UNCHANGED <<blobs, include, text, session, slot, running, apo, seen, ops, lost>>
      /\ ops \in Versions /\ ops \in Nat /\ ops <= ops'
  BY VersionsAssumption DEF PublishImpulse, files, world, ControllerInv, TypeInv, Versions
<1>2. PICK ok \in BOOLEAN : Writes("params", ok) /\ WriteParams(p, Body, ok) /\ After(p, ctl, TRUE)
  BY DEF PublishImpulse
<1>3. faults' \in Nat
  BY <1>2, WritesCount
<1>4. job.ir \in Impulses /\ job.ir \in blobs
  BY <1>1, JobTyped DEF ControllerInv, BlobInv
<1>5. p \in Publisher /\ p.gen = pub.gen + 1 /\ p.hash = job.ir
  <2>1. /\ WithImpulse(pub, job.ir) \in Publisher /\ WithImpulse(pub, job.ir).gen = pub.gen
        /\ WithImpulse(pub, job.ir).hash = job.ir
    BY <1>4, ControllerTyped DEF WithImpulse, Publisher
  <2> QED BY <2>1, NumberedKeeps
<1> HIDE DEF p
<1>6. CASE job.kind = "select"
  <2>1. ScheduleWrite(p, ctl) /\ phase' = "up"
    BY <1>2, <1>6 DEF After
  <2> QED BY <1>1, <1>2, <1>3, <1>4, <1>5, <2>1, ControllerTyped, RewrittenStep
<1>7. CASE job.kind = "preset"
  <2> DEFINE d == [ctl EXCEPT !.irOn = job.want]
             q == WithImpulseOn(p, job.want)
  <2>1. ScheduleWrite(q, d) /\ phase' = "flush"
    BY <1>2, <1>7 DEF After
  <2>2. job.want \in BOOLEAN
    BY <1>1, <1>7, JobTyped
  <2>3. d \in Controls /\ d.engaged = ctl.engaged /\ d.curve <= ops /\ d.fx <= ops
    <3>1. SameVersions(ctl, d) /\ d.engaged = ctl.engaged
      BY <2>2, ControllerTyped, IrOnSet
    <3> QED BY <3>1, ControllerTyped DEF SameVersions
  <2>4. q \in Publisher /\ q.gen = p.gen /\ q.hash = p.hash
    BY <1>5, <2>2, SettersKeep
  <2> HIDE DEF d, q
  <2> QED BY <1>1, <1>2, <1>3, <1>4, <1>5, <2>1, <2>3, <2>4, ControllerTyped, RewrittenStep
<1>8. CASE job.kind = "start"
  <2>1. /\ pub' = WithImpulseOn(p, ctl.irOn) /\ phase' = "starting"
        /\ UNCHANGED <<ctl, pubTimer, writeTimer>>
    BY <1>2, <1>8 DEF After
  <2>2. ctl.irOn \in BOOLEAN
    BY ControllerTyped DEF Controls
  <2>3. pub' \in Publisher /\ pub'.gen = p.gen /\ pub'.hash = p.hash
    BY <1>5, <2>1, <2>2, SettersKeep
  <2>4. TypeInv' /\ BoundInv'
    BY <1>1, <1>2, <1>3, <1>5, <2>1, <2>3, ParamsWritten
    DEF ControllerInv, TypeInv, TypeOK, BoundInv
  <2>5. BlobInv'
    BY <1>1, <1>2, <1>4, <1>5, <2>1, <2>3, BlobsNamed DEF ControllerInv
  <2>6. GenerationInv'
    BY <1>1, <1>2, <1>5, <2>1, <2>3, GenerationsGrow DEF ControllerInv
  <2>7. AgreeInv'
    BY <1>1, <2>1 DEF ControllerInv, AgreeInv, Told
  <2> QED BY <2>4, <2>5, <2>6, <2>7 DEF ControllerInv
<1> QED BY <1>1, <1>6, <1>7, <1>8, JobTyped

LEMMA FlushPresetStep ==
  ASSUME ControllerInv, FlushPreset
  PROVE  ControllerInv'
<1> DEFINE w == WithSources(pub, EqRunsHere(ctl), ctl.master)
           p == Numbered(w)
<1>1. /\ phase = "flush" /\ phase' = "up"
      /\ UNCHANGED <<blobs, include, text, session, slot, running, apo, seen, ops, lost>>
      /\ ops \in Versions /\ ops \in Nat /\ ops <= ops'
  BY VersionsAssumption DEF FlushPreset, files, world, ControllerInv, TypeInv, Versions
<1>2. PICK ok \in BOOLEAN : Writes("params", ok) /\ WriteParams(p, Body, ok) /\ ScheduleWrite(p, ctl)
  BY DEF FlushPreset
<1>3. faults' \in Nat
  BY <1>2, WritesCount
<1>4. p \in Publisher /\ p.gen = pub.gen + 1 /\ p.hash = pub.hash
  <2>1. w \in Publisher /\ w.gen = pub.gen /\ w.hash = pub.hash
    BY ControllerTyped, SourcesType, SettersKeep
  <2> HIDE DEF w
  <2> QED BY <2>1, NumberedKeeps
<1>5. p.hash # NoImpulse => p.hash \in blobs
  BY <1>4 DEF ControllerInv, BlobInv
<1> HIDE DEF p
<1> QED BY <1>1, <1>2, <1>3, <1>4, <1>5, ControllerTyped, RewrittenStep

-----------------------------------------------------------------------------
(* The timers, and the life of the process.                                *)

\* The types after a step of the window that ends where no impulse response is
\* being published.
LEMMA TypeKept ==
  ASSUME ControllerInv,
         pub' \in Publisher, pubTimer' \in BOOLEAN, params' \in Blocks \cup {NoFile},
         ctl' \in Controls, writeTimer' \in BOOLEAN, include' \in BOOLEAN, faults' \in Nat,
         phase' \in {"down", "starting", "greeting", "up", "flush", "quitting"},
         text' \in Texts,
         session' \in Sessions,
         seen' \in {seen, 0}, UNCHANGED <<blobs, slot, running, apo, ops, lost>>
  PROVE  TypeInv'
BY DEF ControllerInv, TypeInv, TypeOK, Controls

LEMMA PubTimerStep ==
  ASSUME ControllerInv, PubTimerFires
  PROVE  ControllerInv'
<1> DEFINE p == Numbered(pub)
<1>1. /\ phase = "up"
      /\ UNCHANGED <<blobs, ctl, writeTimer, phase, job, include, text, session, slot, running,
                     apo, seen, ops, lost>>
  BY DEF PubTimerFires, files, world
<1>2. PICK ok \in BOOLEAN :
        Writes("params", ok) /\ pub' = p /\ pubTimer' = FALSE /\ WriteParams(p, Body, ok)
  BY DEF PubTimerFires, PublishNow
<1>3. /\ p \in Publisher /\ p.gen = pub.gen + 1 /\ p.hash = pub.hash
      /\ p.eqHere = pub.eqHere /\ p.master = pub.master
  BY ControllerTyped, NumberedKeeps
<1>4. faults' \in Nat /\ failed' = IF ok THEN failed \ {"params"} ELSE failed \cup {"params"}
  BY <1>2, WritesCount
<1> HIDE DEF p
<1>5. TypeInv' /\ BoundInv'
  <2>1. /\ params' \in Blocks \cup {NoFile}
        /\ params' # NoFile => params'.body \in [curve : 0..ops, fx : 0..ops]
    BY <1>2, <1>3, ParamsWritten
  <2>2. TypeInv'
    BY <1>1, <1>2, <1>3, <1>4, <2>1, ControllerTyped, TypeKept
  <2>3. BoundInv'
    BY <1>1, <2>1 DEF ControllerInv, BoundInv
  <2> QED BY <2>2, <2>3
<1>6. BlobInv'
  BY <1>1, <1>2, <1>3, BlobsNamed DEF ControllerInv, BlobInv
<1>7. GenerationInv'
  BY <1>1, <1>2, <1>3, GenerationsGrow DEF ControllerInv
<1>8. AgreeInv'
  <2>1. Body' = Body /\ EqRunsHere(ctl)' = EqRunsHere(ctl) /\ Text(ctl)' = Text(ctl)
    BY <1>1 DEF Body, EqRunsHere, Text
  <2>2. "params" \notin failed' => params' = Block(p, Body)
    BY <1>2, <1>3, <1>4, ParamsWritten
  <2>3. Block(p, Body) = Block(pub', Body)
    BY <1>2
  <2> QED BY <1>1, <1>2, <1>3, <1>4, <2>1, <2>2, <2>3 DEF ControllerInv, AgreeInv, Told, Block
<1> QED BY <1>5, <1>6, <1>7, <1>8 DEF ControllerInv

LEMMA TextType ==
  ASSUME NEW c \in Controls
  PROVE  /\ Text(c) \in Texts
         /\ Saved(c) \in Sessions
         /\ Saved(c).curve = c.curve
BY DEF Text, Saved, Controls, Texts, Sessions

\* writeNow, from the timer, at the end of the start or on the way out.
LEMMA WriteNowStep ==
  ASSUME ControllerInv, WriteTimerFires \/ Greet \/ Quit
  PROVE  ControllerInv'
<1>1. /\ phase \in {"up", "greeting"} /\ phase' \in {"up", "quitting"}
      /\ UNCHANGED <<pub, pubTimer, params, blobs, ctl, job, slot, running, apo, seen, ops, lost>>
  BY DEF WriteTimerFires, Greet, Quit, publisherVars, world
<1>2. PICK ok \in BOOLEAN : Writes("text", ok) /\ WriteNow(ctl, ok)
  BY DEF WriteTimerFires, Greet, Quit
<1>3. /\ text' = IF ok THEN Text(ctl) ELSE text
      /\ session' = Saved(ctl) /\ writeTimer' = FALSE /\ include' = include
  BY <1>2 DEF WriteNow
<1>4. faults' \in Nat /\ failed' = IF ok THEN failed \ {"text"} ELSE failed \cup {"text"}
  BY <1>2, WritesCount
<1>5. TypeInv'
  <2>1. text' \in Texts
    BY <1>3, TextType, ControllerTyped
  <2>2. session' \in Sessions
    BY <1>3, TextType, ControllerTyped
  <2> QED BY <1>1, <1>3, <1>4, <2>1, <2>2, ControllerTyped, TypeKept
<1>6. BoundInv'
  BY <1>1, <1>3, TextType, ControllerTyped DEF ControllerInv, BoundInv
<1>7. BlobInv' /\ GenerationInv'
  BY <1>1, BlobsStay, GenerationsStay DEF ControllerInv
<1>8. AgreeInv'
  <2>1. Body' = Body /\ EqRunsHere(ctl)' = EqRunsHere(ctl) /\ Text(ctl)' = Text(ctl)
    BY <1>1 DEF Body, EqRunsHere, Text
  <2> QED BY <1>1, <1>3, <1>4, <2>1 DEF ControllerInv, AgreeInv, Told
<1> QED BY <1>5, <1>6, <1>7, <1>8 DEF ControllerInv

LEMMA StartStep ==
  ASSUME ControllerInv, Start
  PROVE  ControllerInv'
<1> DEFINE fx == IF params = NoFile THEN 0 ELSE params.body.fx
           restored == [eqOn |-> session.eqOn, master |-> session.master,
                        engaged |-> include, native |-> slot, ir |-> session.ir,
                        irOn |-> session.irOn, curve |-> session.curve, fx |-> fx]
<1>1. /\ phase = "down" /\ writeTimer' = TRUE
      /\ UNCHANGED <<pubTimer, params, blobs, text, session, slot, running, apo, seen, ops, lost>>
  BY DEF Start, world
<1>2. PICK ok \in BOOLEAN :
        LET c == Synced(restored, ok) IN
        /\ IF slot /\ include THEN Writes("config", ok) ELSE ok /\ UNCHANGED <<faults, failed>>
        /\ include' = c.engaged
        /\ pub' = Loaded
        /\ ctl' = [c EXCEPT !.irOn = IF Loaded.hash # NoImpulse THEN Loaded.irOn ELSE @]
        /\ IF Loaded.hash = NoImpulse /\ c.ir # NoImpulse
           THEN phase' = "blob" /\ job' = [kind |-> "start", ir |-> c.ir]
           ELSE phase' = "starting" /\ UNCHANGED job
  BY DEF Start
<1>3. faults' \in Nat
  BY <1>2, WritesCount DEF ControllerInv, TypeInv
<1>4. /\ Loaded \in Publisher /\ (params # NoFile => Loaded.gen = params.gen)
      /\ Loaded.hash # NoImpulse => params # NoFile /\ Loaded.hash = params.conv
  BY DEF ControllerInv, TypeInv, TypeOK, Loaded, Fresh, Publisher, Blocks
<1>5. fx \in Versions /\ fx <= ops /\ session.curve <= ops
  BY ControllerTyped, VersionsAssumption DEF ControllerInv, TypeInv, BoundInv, Versions
<1> HIDE DEF fx
<1>6. restored \in Controls /\ restored.curve <= ops /\ restored.fx <= ops
  BY <1>5, ControllerTyped DEF ControllerInv, TypeInv, TypeOK, Controls, Sessions
<1> DEFINE c == Synced(restored, ok)
<1> HIDE DEF restored
<1>7. c \in Controls /\ c.curve <= ops /\ c.fx <= ops
  BY <1>6, SyncedType DEF SameVersions
<1> HIDE DEF c
<1>8. ctl' \in Controls /\ ctl'.curve <= ops /\ ctl'.fx <= ops /\ ctl'.engaged = c.engaged
  <2>1. PICK b \in BOOLEAN : ctl' = [c EXCEPT !.irOn = b]
    <3>1. Loaded.irOn \in BOOLEAN /\ c.irOn \in BOOLEAN
      BY <1>4, <1>7 DEF Publisher, Controls
    <3> QED BY <1>2, <3>1 DEF c
  <2> QED BY <1>7, <2>1, IrOnSet DEF SameVersions
<1>9. /\ pub' = Loaded /\ include' = c.engaged
      /\ \/ phase' = "blob" /\ job' = [kind |-> "start", ir |-> c.ir] /\ c.ir # NoImpulse
         \/ phase' = "starting" /\ UNCHANGED job
  BY <1>2 DEF c
<1>10. TypeInv'
  BY <1>1, <1>3, <1>4, <1>7, <1>8, <1>9
  DEF ControllerInv, TypeInv, TypeOK, Controls, JobsToDo
<1>11. BoundInv'
  BY <1>1, <1>8 DEF ControllerInv, BoundInv
<1>12. BlobInv'
  BY <1>1, <1>4, <1>9 DEF ControllerInv, BlobInv, NamedBlobExists
<1>13. GenerationInv'
  BY <1>1, <1>4, <1>9 DEF ControllerInv, GenerationInv, TypeInv, TypeOK, Blocks
<1>14. AgreeInv'
  BY <1>1, <1>8, <1>9 DEF AgreeInv, Told
<1> QED BY <1>10, <1>11, <1>12, <1>13, <1>14 DEF ControllerInv

LEMMA SettleStep ==
  ASSUME ControllerInv, Settle
  PROVE  ControllerInv'
<1>1. /\ phase = "starting" /\ phase' = "greeting"
      /\ UNCHANGED <<blobs, writeTimer, job, text, session, slot, running, apo, seen, ops, lost>>
  BY DEF Settle, world
<1>2. PICK ok \in BOOLEAN, wrote \in BOOLEAN :
        LET c == Synced(ctl, ok) IN
        /\ IF ctl.native /\ ctl.engaged THEN Writes("config", ok)
           ELSE ok /\ Writes("params", wrote)
        /\ (ctl.native /\ ctl.engaged) => wrote
        /\ ctl' = c
        /\ include' = c.engaged
        /\ FlushParams(pub, c, wrote)
  BY DEF Settle
<1> DEFINE c == Synced(ctl, ok)
           w == WithSources(pub, EqRunsHere(c), c.master)
           p == Numbered(w)
<1>3. SameVersions(ctl, c)
  BY ControllerTyped, SyncedType
<1>4. ctl' = c /\ include' = c.engaged /\ FlushParams(pub, c, wrote)
  BY <1>2
<1> HIDE DEF c
<1>5. [curve |-> c.curve, fx |-> c.fx] = Body /\ Body' = Body
  BY <1>3, <1>4 DEF SameVersions, Body
<1>6. pub' = p /\ pubTimer' = FALSE /\ WriteParams(p, Body, wrote)
  BY <1>4, <1>5 DEF FlushParams, PublishNow
<1>7. /\ p \in Publisher /\ p.gen = pub.gen + 1 /\ p.hash = pub.hash
      /\ p.eqHere = EqRunsHere(c) /\ p.master = c.master
  <2>1. /\ w \in Publisher /\ w.gen = pub.gen /\ w.hash = pub.hash
        /\ w.eqHere = EqRunsHere(c) /\ w.master = c.master
    <3>1. EqRunsHere(c) \in BOOLEAN /\ c.master \in BOOLEAN
      BY <1>3, SourcesType DEF SameVersions
    <3>2. \A e, m \in BOOLEAN :
            /\ WithSources(pub, e, m) \in Publisher
            /\ WithSources(pub, e, m).gen = pub.gen /\ WithSources(pub, e, m).hash = pub.hash
            /\ WithSources(pub, e, m).eqHere = e /\ WithSources(pub, e, m).master = m
      BY ControllerTyped, SettersKeep
    <3> QED BY <3>1, <3>2
  <2> HIDE DEF w
  <2> QED BY <2>1, NumberedKeeps
<1> HIDE DEF p
<1>8. faults' \in Nat /\ ("params" \notin failed' => wrote)
  BY <1>2, WritesCount
<1>9. TypeInv'
  <2>1. params' \in Blocks \cup {NoFile}
    BY <1>6, <1>7, ParamsWritten
  <2>2. ctl' \in Controls /\ include' \in BOOLEAN
    BY <1>3, <1>4 DEF SameVersions, Controls
  <2> QED BY <1>1, <1>6, <1>7, <1>8, <2>1, <2>2, ControllerTyped, TypeKept
<1>10. BoundInv'
  BY <1>1, <1>3, <1>4, <1>6, <1>7, ParamsWritten DEF ControllerInv, BoundInv, SameVersions
<1>11. BlobInv'
  BY <1>1, <1>6, <1>7, BlobsNamed DEF ControllerInv, BlobInv
<1>12. GenerationInv'
  BY <1>1, <1>6, <1>7, GenerationsGrow DEF ControllerInv
<1>13. AgreeInv'
  <2>1. "params" \notin failed' => params' = Block(pub', Body')
    BY <1>5, <1>6, <1>7, <1>8, ParamsWritten
  <2> QED BY <1>1, <1>4, <1>6, <1>7, <2>1 DEF AgreeInv, Told, EqRunsHere
<1> QED BY <1>9, <1>10, <1>11, <1>12, <1>13 DEF ControllerInv

\* A window that is gone remembers nothing.
LEMMA GoneTyped ==
  ASSUME Gone
  PROVE  /\ pub' \in Publisher /\ ctl' \in Controls /\ pubTimer' = FALSE /\ writeTimer' = FALSE
         /\ phase' = "down" /\ seen' = 0 /\ ctl'.curve = 0 /\ ctl'.fx = 0
         /\ pub'.hash = NoImpulse
BY VersionsAssumption DEF Gone, Fresh, FreshControl, Publisher, Controls, Versions

LEMMA DestroyStep ==
  ASSUME ControllerInv, Destroy
  PROVE  ControllerInv'
<1> DEFINE w == WithSources(pub, EqRunsHere(ctl), ctl.master)
           p == Numbered(w)
<1>1. /\ phase = "quitting" /\ session' = Saved(ctl) /\ Gone
      /\ UNCHANGED <<blobs, include, text, slot, running, apo, ops, lost>>
  BY DEF Destroy, world
<1>2. PICK ok \in BOOLEAN : Writes("params", ok) /\ WriteParams(p, Body, ok)
  BY DEF Destroy
<1>3. p \in Publisher /\ p.gen = pub.gen + 1 /\ p.hash = pub.hash
  <2>1. w \in Publisher /\ w.gen = pub.gen /\ w.hash = pub.hash
    BY ControllerTyped, SourcesType, SettersKeep
  <2> HIDE DEF w
  <2> QED BY <2>1, NumberedKeeps
<1> HIDE DEF p
<1>4. faults' \in Nat
  BY <1>2, WritesCount
<1>5. session' \in Sessions
      /\ session'.curve <= ops
  BY <1>1, TextType, ControllerTyped
<1>6. TypeInv'
  <2>1. params' \in Blocks \cup {NoFile}
    BY <1>2, <1>3, ParamsWritten
  <2> QED BY <1>1, <1>4, <1>5, <2>1, GoneTyped, ControllerTyped, TypeKept
<1>7. BoundInv'
  BY <1>1, <1>2, <1>3, <1>5, GoneTyped, ParamsWritten, VersionsAssumption
  DEF ControllerInv, TypeInv, BoundInv, Versions
<1>8. BlobInv'
  BY <1>1, <1>2, <1>3, GoneTyped, BlobsNamed DEF ControllerInv, BlobInv
<1>9. GenerationInv'
  BY <1>1, <1>2, <1>3, GoneTyped, GenerationsGrow DEF ControllerInv
<1>10. AgreeInv'
  BY <1>1, GoneTyped DEF AgreeInv, Told
<1> QED BY <1>6, <1>7, <1>8, <1>9, <1>10 DEF ControllerInv

LEMMA CrashStep ==
  ASSUME ControllerInv, Crash
  PROVE  ControllerInv'
<1>1. /\ Gone /\ faults' = faults + 1
      /\ UNCHANGED <<params, blobs, include, text, session, slot, running, apo, ops, lost>>
  BY DEF Crash, Fault, files, world
<1>2. TypeInv'
  BY <1>1, GoneTyped DEF ControllerInv, TypeInv, TypeOK, Controls
<1>3. BoundInv'
  BY <1>1, GoneTyped, VersionsAssumption DEF ControllerInv, TypeInv, BoundInv, Versions
<1>4. BlobInv'
  BY <1>1, GoneTyped DEF ControllerInv, BlobInv, NamedBlobExists
<1>5. GenerationInv'
  BY <1>1, GoneTyped DEF ControllerInv, GenerationInv, TypeInv, TypeOK, Blocks, NoBlock
<1>6. AgreeInv'
  BY <1>1, GoneTyped DEF AgreeInv, Told
<1> QED BY <1>2, <1>3, <1>4, <1>5, <1>6 DEF ControllerInv

LEMMA LoseParamsStep ==
  ASSUME ControllerInv, LoseParams
  PROVE  ControllerInv'
<1>1. /\ phase = "down" /\ params' = NoFile /\ lost' = TRUE /\ faults' = faults + 1
      /\ UNCHANGED <<pub, pubTimer, blobs, ctl, writeTimer, phase, job, include, text, session,
                     slot, running, apo, seen, ops, failed>>
  BY DEF LoseParams, Fault, files, world
<1>2. TypeInv' /\ BoundInv'
  BY <1>1 DEF ControllerInv, TypeInv, TypeOK, BoundInv
<1>3. BlobInv' /\ GenerationInv' /\ AgreeInv'
  BY <1>1 DEF ControllerInv, BlobInv, NamedBlobExists, GenerationInv, AgreeInv, Told
<1> QED BY <1>2, <1>3 DEF ControllerInv

-----------------------------------------------------------------------------
(* The specification.                                                      *)

LEMMA ControllerInit == Init => ControllerInv
<1> SUFFICES ASSUME Init PROVE ControllerInv
  OBVIOUS
<1> USE DEF Init
<1>1. 0 \in Versions /\ 0 \in Nat
  BY VersionsAssumption DEF Versions
<1>2. NoBlock \in Blocks
  BY <1>1, VersionsAssumption DEF NoBlock, Blocks
<1>3. TypeInv
  BY <1>1, <1>2
  DEF TypeInv, TypeOK, Fresh, Publisher, FreshControl, FreshSession, Texts, Sessions
<1>4. BoundInv /\ BlobInv /\ GenerationInv
  BY DEF BoundInv, FreshControl, FreshSession, BlobInv, NamedBlobExists, Fresh, GenerationInv
<1>5. AgreeInv
  BY DEF AgreeInv, Told
<1> QED BY <1>3, <1>4, <1>5 DEF ControllerInv

LEMMA ControllerStep == ControllerInv /\ [Next]_vars => ControllerInv'
<1> SUFFICES ASSUME ControllerInv, [Next]_vars PROVE ControllerInv'
  OBVIOUS
<1>1. CASE EditCurve \/ SetEqEnabled \/ SetMasterEnabled \/ EditEffect
  BY <1>1, EditCurveStep, SwitchStep, EditEffectStep
<1>2. CASE \E on \in BOOLEAN : SetEngaged(on) \/ SetAttached(on)
  BY <1>2, SetEngagedStep, SlotStep
<1>3. CASE TakeSlot \/ NoticeSlot \/ RestartAudio
  BY <1>3, TakeSlotStep, SlotStep
<1>4. CASE \E ir \in Impulses : SelectImpulse(ir)
  BY <1>4, SelectImpulseStep
<1>5. CASE ClearConvolution \/ SetConvolutionEnabled
  BY <1>5, ClearConvolutionStep, SetConvolutionEnabledStep
<1>6. CASE \E eqOn, want \in BOOLEAN, ir \in Impulses \cup {NoImpulse} :
             LoadFullPreset(eqOn, ir, want)
  BY <1>6, LoadFullPresetStep
<1>7. CASE PublishBlob \/ PublishImpulse \/ FlushPreset
  BY <1>7, PublishBlobStep, PublishImpulseStep, FlushPresetStep
<1>8. CASE PubTimerFires \/ WriteTimerFires \/ Greet \/ Quit
  BY <1>8, PubTimerStep, WriteNowStep
<1>9. CASE Start \/ Settle \/ Destroy \/ Crash \/ LoseParams
  BY <1>9, StartStep, SettleStep, DestroyStep, CrashStep, LoseParamsStep
<1>10. CASE Reload \/ PollStatus
  BY <1>10, ObjectStep
<1>11. CASE UNCHANGED vars
  <2> USE <1>11 DEF vars, publisherVars, files, world, budget
  <2>1. TypeInv' /\ BoundInv'
    BY DEF ControllerInv, TypeInv, TypeOK, BoundInv
  <2>2. BlobInv' /\ GenerationInv'
    BY DEF ControllerInv, BlobInv, NamedBlobExists, GenerationInv
  <2>3. AgreeInv'
    BY DEF ControllerInv, AgreeInv, Told, EqRunsHere, Text, Body, Block
  <2> QED BY <2>1, <2>2, <2>3 DEF ControllerInv
<1> QED BY <1>1, <1>2, <1>3, <1>4, <1>5, <1>6, <1>7, <1>8, <1>9, <1>10, <1>11 DEF Next

\* The window, its files and what the processing object loaded keep the invariant,
\* and with it their types (app/AppController.cpp, app/ParamPublisher.cpp).
THEOREM ControllerInvariant == Spec => []ControllerInv
BY ControllerInit, ControllerStep, PTL DEF Spec

\* The types of the controller, the publisher, the files and the object's block.
THEOREM ControllerTypeCorrect == Spec => []TypeOK
<1>1. ControllerInv => TypeOK
  BY DEF ControllerInv, TypeInv
<1> QED BY <1>1, ControllerInvariant, PTL

\* ParamPublisher.cpp:355: at no instant, whatever crashed in between, does the
\* file of parameters name an impulse response that is not on disk.
THEOREM BlobBeforeItsName == Spec => []NamedBlobExists
<1>1. ControllerInv => NamedBlobExists
  BY DEF ControllerInv, BlobInv
<1> QED BY <1>1, ControllerInvariant, PTL

\* AppController::apoInSync: generations that agree are blocks that agree.
LEMMA InSyncFollows == ControllerInv => InSyncTellsTruth
<1> SUFFICES ASSUME ControllerInv, phase = "up", seen # 0, seen = pub.gen, ~lost
             PROVE  apo \in {params, NoBlock}
  BY DEF InSyncTellsTruth
<1>1. params # NoFile /\ params.gen <= pub.gen
  BY DEF ControllerInv, GenerationInv
<1>2. params.gen \in Nat /\ seen \in Nat /\ apo.gen \in Nat
  BY <1>1 DEF ControllerInv, TypeInv, TypeOK, Blocks
<1>3. seen <= params.gen /\ (apo = NoBlock \/ seen <= apo.gen)
  BY <1>1 DEF ControllerInv, GenerationInv
<1>4. ~(apo.gen < params.gen) \/ apo = NoBlock
  BY <1>1, <1>2, <1>3
<1> QED BY <1>1, <1>4 DEF ControllerInv, GenerationInv

\* AppController::apoInSync: when the window says the object runs what it
\* published, it does, or its process has just been replaced.
THEOREM SyncIsTold == Spec => []InSyncTellsTruth
BY InSyncFollows, ControllerInvariant, PTL

\* With nothing pending, the two programs work from one set of fields.
LEMMA AppliedOnceFollows == ControllerInv => AppliedOnce
<1> SUFFICES ASSUME ControllerInv, Quiet PROVE AppliedOnce
  BY DEF AppliedOnce, Settled
<1>1. /\ phase = "up" /\ ctl.engaged = include /\ text = Text(ctl) /\ params = Block(pub, Body)
      /\ pub.eqHere = EqRunsHere(ctl) /\ pub.master = ctl.master
      /\ running => apo = params
  BY DEF ControllerInv, AgreeInv, Told, Quiet
<1>2. /\ text.eq = (ctl.master /\ ctl.eqOn)
      /\ text.conv # NoImpulse => ~ctl.native
  BY <1>1 DEF Text
<1>3. running => apo.eq = (ctl.eqOn /\ ~include) /\ apo.bypass = ~ctl.master
  BY <1>1 DEF Block, EqRunsHere
<1>4. /\ ctl.eqOn \in BOOLEAN /\ ctl.master \in BOOLEAN /\ include \in BOOLEAN
      /\ running \in BOOLEAN
  BY ControllerTyped DEF Controls, ControllerInv, TypeInv, TypeOK
<1>5. EqByApo <=> include /\ ctl.master /\ ctl.eqOn
  BY <1>2 DEF EqByApo
<1>6. EqByDream <=> running /\ ctl.eqOn /\ ~include /\ ctl.master
  BY <1>3, <1>4 DEF EqByDream
<1> QED BY <1>2, <1>5, <1>6 DEF AppliedOnce, Settled

\* AppController.cpp:1887, 318: once the timers have run the equaliser is not
\* applied by both programs; once the audio service has been restarted, exactly
\* one applies it, and the impulse response is not applied by both.
THEOREM EqualiserOnce == Spec => []AppliedOnce
BY AppliedOnceFollows, ControllerInvariant, PTL

\* Who takes a window that is quitting down.
LEMMA QuittingEnds ==
  ASSUME Next, phase = "quitting", phase' = "down"
  PROVE  Destroy \/ Crash
<1>1. ~\E on \in BOOLEAN : SetEngaged(on) \/ SetAttached(on)
  BY DEF SetEngaged, SetAttached, UserActs
<1>2. ~(\E ir \in Impulses : SelectImpulse(ir)) /\ ~ClearConvolution /\ ~SetConvolutionEnabled
  BY DEF SelectImpulse, ClearConvolution, SetConvolutionEnabled, UserActs
<1>3. ~\E eqOn, want \in BOOLEAN, ir \in Impulses \cup {NoImpulse} : LoadFullPreset(eqOn, ir, want)
  BY DEF LoadFullPreset, UserActs
<1>4. /\ ~EditCurve /\ ~SetEqEnabled /\ ~SetMasterEnabled /\ ~EditEffect
      /\ ~TakeSlot /\ ~NoticeSlot /\ ~RestartAudio
  BY DEF EditCurve, SetEqEnabled, SetMasterEnabled, Change, EditEffect, TakeSlot, NoticeSlot,
         RestartAudio, UserActs
<1>5. /\ ~PublishBlob /\ ~PublishImpulse /\ ~FlushPreset /\ ~PubTimerFires /\ ~WriteTimerFires
      /\ ~Start /\ ~Settle /\ ~Greet /\ ~Quit /\ ~LoseParams /\ ~Reload /\ ~PollStatus
  BY DEF PublishBlob, PublishImpulse, FlushPreset, PubTimerFires, WriteTimerFires, Start,
         Settle, Greet, Quit, LoseParams, Reload, PollStatus
<1> QED BY <1>1, <1>2, <1>3, <1>4, <1>5 DEF Next

LEMMA NothingLostFollows ==
  ASSUME ControllerInv, [Next]_vars, phase = "quitting", phase' = "down", faults' = faults
  PROVE  /\ params' # NoFile /\ params'.body = Body /\ params'.eq = EqRunsHere(ctl)
         /\ session' = Saved(ctl) /\ (failed = {} => text = Text(ctl))
<1> DEFINE w == WithSources(pub, EqRunsHere(ctl), ctl.master)
           p == Numbered(w)
<1>1. Destroy
  <2>1. Next
    BY DEF vars
  <2>2. ~Crash
    BY ControllerTyped DEF Crash, Fault
  <2> QED BY <2>1, <2>2, QuittingEnds
<1>2. PICK ok \in BOOLEAN : Writes("params", ok) /\ WriteParams(p, Body, ok)
  BY <1>1 DEF Destroy
<1>3. ok
  BY <1>2, WritesCount
<1>4. p \in Publisher /\ p.eqHere = EqRunsHere(ctl)
  <2>1. w \in Publisher /\ w.eqHere = EqRunsHere(ctl)
    BY ControllerTyped, SourcesType, SettersKeep
  <2> HIDE DEF w
  <2> QED BY <2>1, NumberedKeeps
<1> HIDE DEF p
<1>5. params' = Block(p, Body) /\ params' # NoFile
  BY <1>2, <1>3, <1>4, ParamsWritten
<1>6. params'.body = Body /\ params'.eq = EqRunsHere(ctl)
  BY <1>4, <1>5 DEF Block
<1>7. session' = Saved(ctl) /\ (failed = {} => text = Text(ctl))
  BY <1>1 DEF Destroy, ControllerInv, AgreeInv
<1> QED BY <1>5, <1>6, <1>7

\* AppController.cpp:209: what the user had when the window closed in good
\* order is what both stores hold, unless a write failed.
THEOREM NothingIsLostOnQuit == Spec => NothingLostOnQuit
<1>1. ControllerInv /\ [Next]_vars
        => [phase = "quitting" /\ phase' = "down" /\ faults' = faults
              => /\ params' # NoFile /\ params'.body = Body /\ params'.eq = EqRunsHere(ctl)
                 /\ session' = Saved(ctl) /\ (failed = {} => text = Text(ctl))]_vars
  BY NothingLostFollows
<1> QED BY <1>1, ControllerInvariant, PTL DEF Spec, NothingLostOnQuit
=============================================================================
