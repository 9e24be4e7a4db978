---------------------------- MODULE AppController ----------------------------
(***************************************************************************)
(* app/AppController.cpp: one window process, the files it keeps, and the  *)
(* two programs that read them -- Equalizer APO, which obeys config.txt,   *)
(* and the processing object, which obeys params.bin.  The window may      *)
(* crash between any two steps and be started again, a write may fail, and *)
(* params.bin may be lost while nothing runs.                              *)
(*                                                                         *)
(* One endpoint: slot says whether the registry gives it to the processing *)
(* object and running whether the audio service was restarted since.  The  *)
(* equaliser's curve and everything the effects, graphic curve and order   *)
(* hold are version numbers.                                               *)
(***************************************************************************)
EXTENDS ParamPublisher

CONSTANTS
  MaxOps,      \* what the user does in one behaviour
  MaxStarts,   \* how often the program is started
  MaxFaults    \* crashes, failed writes and lost files

VARIABLES
  ctl,         \* the controller's fields
  writeTimer,  \* m_writeTimer (150 ms) is running
  phase,       \* "down", "up", or where a handler that writes several files
               \* is: "starting", "greeting", "blob", "publish", "flush", "quitting"
  job,         \* what that handler still has to do
  include,     \* config.txt includes dreamdsp.txt
  text,        \* what dreamdsp.txt makes Equalizer APO do
  session,     \* QSettings and session.peace
  slot,        \* the registry: our object has the endpoint's live slot
  running,     \* the audio service has it in the chain
  apo,         \* the block the processing object loaded
  seen,        \* loadedGeneration in the last status.bin polled
  ops, starts, faults,
  failed,      \* the files whose last write did not succeed
  lost         \* params.bin was lost once

world == <<slot, running, apo>>
files == <<include, text, session>>
budget == <<ops, starts, faults>>
vars == <<publisherVars, ctl, writeTimer, phase, job, files, world, seen, budget, failed, lost>>

Versions == 0..MaxOps

\* The user's edits are counted, and a block can hold any of the counts.
ASSUME VersionsAssumption ==
  MaxOps \in Nat /\ MaxFaults \in Nat /\ [curve : Versions, fx : Versions] \subseteq Bodies

NoBlock == [gen |-> 0, body |-> [curve |-> 0, fx |-> 0], eq |-> FALSE,
            conv |-> NoImpulse, convOn |-> FALSE, bypass |-> FALSE]
Body == [curve |-> ctl.curve, fx |-> ctl.fx]
NoJob == [kind |-> "none"]

TypeOK ==
  /\ pub \in Publisher /\ pubTimer \in BOOLEAN
  /\ params \in Blocks \cup {NoFile} /\ blobs \subseteq Impulses
  /\ ctl \in [eqOn : BOOLEAN, master : BOOLEAN, engaged : BOOLEAN, native : BOOLEAN,
              ir : Impulses \cup {NoImpulse}, irOn : BOOLEAN,
              curve : Versions, fx : Versions]
  /\ writeTimer \in BOOLEAN
  /\ phase \in {"down", "starting", "greeting", "up", "blob", "publish", "flush", "quitting"}
  /\ include \in BOOLEAN /\ slot \in BOOLEAN /\ running \in BOOLEAN
  /\ apo \in Blocks /\ seen \in Nat

\* A machine with Equalizer APO; its config.txt and the endpoint's slot may be
\* left from an earlier installation.
FreshSession == [eqOn |-> TRUE, master |-> TRUE, ir |-> NoImpulse, irOn |-> FALSE, curve |-> 0]
FreshControl == [eqOn |-> TRUE, master |-> TRUE, engaged |-> FALSE, native |-> FALSE,
                 ir |-> NoImpulse, irOn |-> FALSE, curve |-> 0, fx |-> 0]

Init ==
  /\ pub = Fresh /\ pubTimer = FALSE /\ params = NoFile /\ blobs = {}
  /\ ctl = FreshControl /\ writeTimer = FALSE /\ phase = "down" /\ job = NoJob
  /\ include \in BOOLEAN /\ text = [eq |-> FALSE, conv |-> NoImpulse, curve |-> 0]
  /\ session = FreshSession
  /\ slot \in BOOLEAN /\ running = slot /\ apo = NoBlock /\ seen = 0
  /\ ops = 0 /\ starts = 0 /\ faults = 0 /\ failed = {} /\ lost = FALSE

----------------------------------------------------------------------------
(* What the handlers are built from.  c is the controller after the change. *)

\* Mutant of EqRunsHere: whoever is in the chain runs it.
EqRunsBoth(c) == c.eqOn

\* eqRunsHere
EqRunsHere(c) == c.eqOn /\ ~c.engaged

\* Mutant of ScheduleWrite: only the text is scheduled.
ScheduleTextOnly(p, c) ==
  /\ ctl' = c /\ pub' = WithSources(p, EqRunsHere(c), c.master)
  /\ writeTimer' = TRUE
  /\ UNCHANGED pubTimer

\* scheduleWrite, the publisher having become p: both timers are restarted.
ScheduleWrite(p, c) ==
  /\ ctl' = c
  /\ Schedule(WithSources(p, EqRunsHere(c), c.master))
  /\ writeTimer' = TRUE

\* flushParams, the write succeeding or not.
FlushParams(p, c, ok) == PublishNow(WithSources(p, EqRunsHere(c), c.master),
                                    [curve |-> c.curve, fx |-> c.fx], ok)

\* generatedText: nothing under the master switch, and a convolution only when
\* the processing object is not there to do it.
Text(c) ==
  [eq |-> c.master /\ c.eqOn, curve |-> c.curve,
   conv |-> IF c.master /\ c.eqOn /\ c.irOn /\ ~c.native THEN c.ir ELSE NoImpulse]

\* saveSession
Saved(c) == [eqOn |-> c.eqOn, master |-> c.master, ir |-> c.ir, irOn |-> c.irOn,
             curve |-> c.curve]

\* writeNow
WriteNow(c, ok) ==
  /\ text' = IF ok THEN Text(c) ELSE text
  /\ session' = Saved(c)
  /\ writeTimer' = FALSE
  /\ UNCHANGED include

\* setEngaged's write of config.txt: the controller believes what it wrote.
Engaged(c, on, ok) == IF ok THEN [c EXCEPT !.engaged = on] ELSE c

\* syncEqOwnership: the processing object wins, if config.txt can be written.
Synced(c, ok) == IF c.native /\ c.engaged THEN Engaged(c, FALSE, ok) ELSE c

\* refreshApoState: a change of house hands the equaliser over, whoever made it
\* and whenever it is noticed.
Refreshed(c, ok) ==
  LET now == [c EXCEPT !.native = slot'] IN
  IF slot' # c.native THEN Synced(now, ok) ELSE now

\* The writes of file, each of which may be a fault.
Writes(file, ok) ==
  /\ ~ok => faults < MaxFaults
  /\ faults' = IF ok THEN faults ELSE faults + 1
  /\ failed' = IF ok THEN failed \ {file} ELSE failed \cup {file}

UserActs == phase = "up" /\ ops < MaxOps /\ ops' = ops + 1 /\ UNCHANGED starts

----------------------------------------------------------------------------
(* The user. *)

\* A handler that only changes fields and calls scheduleWrite: setPreamp, the
\* bands, setEqEnabled, setMasterEnabled, the graphic curve and the order.
Change(c) ==
  /\ UserActs
  /\ ScheduleWrite(pub, c)
  /\ UNCHANGED <<params, blobs, phase, job, files, world, seen, faults, failed, lost>>

EditCurve == Change([ctl EXCEPT !.curve = @ + 1])
SetEqEnabled == Change([ctl EXCEPT !.eqOn = ~@])
SetMasterEnabled == Change([ctl EXCEPT !.master = ~@])

\* An effect's control: the model tells the publisher, and nothing else.
EditEffect ==
  /\ UserActs
  /\ ctl' = [ctl EXCEPT !.fx = @ + 1]
  /\ Schedule(pub)
  /\ UNCHANGED <<params, blobs, writeTimer, phase, job, files, world, seen, faults, failed, lost>>

\* setEngaged: config.txt now, the parameters after 30 ms.
SetEngaged(on) ==
  /\ UserActs /\ ctl.engaged # on
  /\ \E ok \in BOOLEAN :
       /\ Writes("config", ok)
       /\ include' = IF ok THEN on ELSE include
       /\ IF ok THEN ScheduleWrite(pub, Engaged(ctl, on, ok))
          ELSE UNCHANGED <<ctl, pub, pubTimer, writeTimer>>
  /\ UNCHANGED <<params, blobs, phase, job, text, session, world, seen, lost>>

\* What refreshApoState does about the slot it finds.
RefreshApoState ==
  \E ok \in BOOLEAN :
    LET c == Refreshed(ctl, ok) IN
    /\ IF slot' /\ ~ctl.native /\ ctl.engaged THEN Writes("config", ok)
       ELSE ok /\ UNCHANGED <<faults, failed>>
    /\ include' = IF c.engaged # ctl.engaged THEN FALSE ELSE include
    /\ IF slot' # ctl.native THEN ScheduleWrite(pub, c)
       ELSE UNCHANGED <<ctl, pub, pubTimer, writeTimer>>
    /\ UNCHANGED <<params, blobs, phase, job, text, session, running, apo, seen, lost>>

\* setApoAttached
SetAttached(on) == UserActs /\ slot # on /\ slot' = on /\ RefreshApoState

\* Another program takes the slot, and some page that is opened finds out.
TakeSlot ==
  /\ UserActs /\ slot /\ slot' = FALSE
  /\ UNCHANGED <<publisherVars, ctl, writeTimer, phase, job, files, running, apo, seen,
                 faults, failed, lost>>
NoticeSlot == UserActs /\ slot # ctl.native /\ slot' = slot /\ RefreshApoState

\* selectImpulse: to the processing object if it is there, to the text if not.
SelectImpulse(ir) ==
  /\ UserActs
  /\ IF ctl.native
     THEN /\ ctl' = [ctl EXCEPT !.ir = ir, !.irOn = TRUE]
          /\ IF pub.irOn THEN UNCHANGED <<pub, pubTimer>>
             ELSE Schedule(WithImpulseOn(pub, TRUE))
          /\ phase' = "blob" /\ job' = [kind |-> "select", ir |-> ir]
          /\ UNCHANGED writeTimer
     ELSE /\ ScheduleWrite(pub, [ctl EXCEPT !.ir = ir, !.irOn = TRUE])
          /\ UNCHANGED <<phase, job>>
  /\ UNCHANGED <<params, blobs, files, world, seen, faults, failed, lost>>

\* clearConvolution: published at once.
ClearConvolution ==
  /\ UserActs /\ ctl.ir # NoImpulse
  /\ \E ok \in BOOLEAN :
       LET p == Numbered(WithoutImpulse(pub)) IN
       /\ Writes("params", ok)
       /\ WriteParams(p, Body, ok)
       /\ ScheduleWrite(p, [ctl EXCEPT !.ir = NoImpulse, !.irOn = FALSE])
  /\ UNCHANGED <<blobs, phase, job, files, world, seen, lost>>

\* setConvolutionEnabled
SetConvolutionEnabled ==
  /\ UserActs
  /\ ScheduleWrite(WithImpulseOn(pub, ~ctl.irOn), [ctl EXCEPT !.irOn = ~@])
  /\ UNCHANGED <<params, blobs, phase, job, files, world, seen, faults, failed, lost>>

\* loadFullPreset: bands, switches and effects, then the impulse response if
\* the preset names one that is here -- if it names none, the one that runs
\* stays -- and a flush in either case.
LoadFullPreset(eqOn, ir, want) ==
  /\ UserActs
  /\ LET c == [ctl EXCEPT !.eqOn = eqOn, !.curve = @ + 1, !.fx = @ + 1] IN
     IF ir = NoImpulse
     THEN /\ ScheduleWrite(pub, c)
          /\ phase' = "flush" /\ job' = NoJob
     ELSE IF ctl.native
     THEN /\ ScheduleWrite(WithImpulseOn(pub, TRUE), [c EXCEPT !.ir = ir, !.irOn = TRUE])
          /\ phase' = "blob" /\ job' = [kind |-> "preset", ir |-> ir, want |-> want]
     ELSE /\ ScheduleWrite(WithImpulseOn(pub, want), [c EXCEPT !.ir = ir, !.irOn = want])
          /\ phase' = "flush" /\ job' = NoJob
  /\ UNCHANGED <<params, blobs, files, world, seen, faults, failed, lost>>

\* restartAudio: the registry's choice takes effect, in a new process.
RestartAudio ==
  /\ UserActs /\ running # slot
  /\ running' = slot /\ apo' = NoBlock
  /\ UNCHANGED <<publisherVars, ctl, writeTimer, phase, job, files, slot, seen,
                 faults, failed, lost>>

----------------------------------------------------------------------------
(* The handlers that write more than one file. *)

\* What follows publishImpulse, depending on who called it.
After(p, c, done) ==
  CASE job.kind = "select" ->
         ScheduleWrite(p, c) /\ phase' = "up"
    [] job.kind = "preset" ->
         /\ ScheduleWrite(WithImpulseOn(p, job.want), [c EXCEPT !.irOn = job.want])
         /\ phase' = "flush"
    [] job.kind = "start" ->
         /\ pub' = IF done THEN WithImpulseOn(p, c.irOn) ELSE p
         /\ phase' = "starting" /\ UNCHANGED <<ctl, pubTimer, writeTimer>>

\* publishImpulse: the blob, unless one with this hash is there.  If it cannot
\* be written selectImpulse takes the switch back, and returns.
PublishBlob ==
  /\ phase = "blob"
  /\ \E ok \in BOOLEAN :
       /\ Writes("blob", ok)
       /\ IF ok
          THEN /\ WriteBlob(job.ir) /\ phase' = "publish"
               /\ UNCHANGED <<ctl, pub, pubTimer, writeTimer, job>>
          ELSE /\ job' = NoJob /\ UNCHANGED blobs
               /\ LET c == [ctl EXCEPT !.irOn = FALSE] IN
                  IF job.kind = "select"
                  THEN /\ ctl' = c /\ Schedule(WithImpulseOn(pub, FALSE))
                       /\ phase' = "up" /\ UNCHANGED writeTimer
                  ELSE After(pub, IF job.kind = "preset" THEN c ELSE ctl, FALSE)
  /\ UNCHANGED <<params, files, world, seen, ops, starts, lost>>

\* ... and the block that names it, whether that write succeeds or not.
PublishImpulse ==
  /\ phase = "publish"
  /\ \E ok \in BOOLEAN :
       LET p == Numbered(WithImpulse(pub, job.ir)) IN
       /\ Writes("params", ok)
       /\ WriteParams(p, Body, ok)
       /\ After(p, ctl, TRUE)
       /\ job' = NoJob
  /\ UNCHANGED <<blobs, files, world, seen, ops, starts, lost>>

\* The end of loadFullPreset.
FlushPreset ==
  /\ phase = "flush" /\ phase' = "up"
  /\ \E ok \in BOOLEAN :
       /\ Writes("params", ok)
       /\ LET p == Numbered(WithSources(pub, EqRunsHere(ctl), ctl.master)) IN
          WriteParams(p, Body, ok) /\ ScheduleWrite(p, ctl)
  /\ UNCHANGED <<blobs, job, files, world, seen, ops, starts, lost>>

----------------------------------------------------------------------------
(* The timers, and the life of the process. *)

PubTimerFires ==
  /\ phase = "up" /\ pubTimer
  /\ \E ok \in BOOLEAN : Writes("params", ok) /\ PublishNow(pub, Body, ok)
  /\ UNCHANGED <<blobs, ctl, writeTimer, phase, job, files, world, seen, ops, starts, lost>>

WriteTimerFires ==
  /\ phase = "up" /\ writeTimer
  /\ \E ok \in BOOLEAN : Writes("text", ok) /\ WriteNow(ctl, ok)
  /\ UNCHANGED <<publisherVars, ctl, phase, job, world, seen, ops, starts, lost>>

\* The constructor up to load(): the session and config.txt are read, the
\* equaliser is handed over if our object is in the chain, and params.bin, if
\* it is there, decides about the convolution -- if it names none and the
\* session remembers one, that one is published again.
Start ==
  /\ phase = "down" /\ starts < MaxStarts /\ starts' = starts + 1
  /\ \E ok \in BOOLEAN :
       LET restored == [eqOn |-> session.eqOn, master |-> session.master,
                        engaged |-> include, native |-> slot, ir |-> session.ir,
                        irOn |-> session.irOn, curve |-> session.curve,
                        fx |-> IF params = NoFile THEN 0 ELSE params.body.fx]
           c == Synced(restored, ok)
       IN /\ IF slot /\ include THEN Writes("config", ok)
             ELSE ok /\ UNCHANGED <<faults, failed>>
          /\ include' = c.engaged
          /\ pub' = Loaded
          /\ ctl' = [c EXCEPT !.irOn = IF Loaded.hash # NoImpulse THEN Loaded.irOn ELSE @]
          /\ IF Loaded.hash = NoImpulse /\ c.ir # NoImpulse
             THEN phase' = "blob" /\ job' = [kind |-> "start", ir |-> c.ir]
             ELSE phase' = "starting" /\ UNCHANGED job
  /\ writeTimer' = TRUE
  /\ UNCHANGED <<pubTimer, params, blobs, text, session, world, seen, ops, lost>>

\* Its end: another try at the hand-over, the first block, the first text.
Settle ==
  /\ phase = "starting"
  /\ \E ok \in BOOLEAN, wrote \in BOOLEAN :
       LET c == Synced(ctl, ok) IN
       /\ IF ctl.native /\ ctl.engaged THEN Writes("config", ok)
          ELSE ok /\ Writes("params", wrote)
       /\ (ctl.native /\ ctl.engaged) => wrote
       /\ ctl' = c
       /\ include' = c.engaged
       /\ FlushParams(pub, c, wrote)
  /\ phase' = "greeting"
  /\ UNCHANGED <<blobs, writeTimer, job, text, session, world, seen, ops, starts, lost>>
Greet ==
  /\ phase = "greeting" /\ phase' = "up"
  /\ \E ok \in BOOLEAN : Writes("text", ok) /\ WriteNow(ctl, ok)
  /\ UNCHANGED <<publisherVars, ctl, job, world, seen, ops, starts, lost>>

Gone ==
  /\ pub' = Fresh /\ ctl' = FreshControl /\ pubTimer' = FALSE /\ writeTimer' = FALSE
  /\ job' = NoJob /\ phase' = "down" /\ seen' = 0

\* quitApplication, and the destructor.
Quit ==
  /\ phase = "up" /\ phase' = "quitting"
  /\ \E ok \in BOOLEAN : Writes("text", ok) /\ WriteNow(ctl, ok)
  /\ UNCHANGED <<publisherVars, ctl, job, world, seen, ops, starts, lost>>
\* Mutant of Destroy: the last 30 ms are not written.
DestroyUnflushed ==
  /\ phase = "quitting"
  /\ session' = Saved(ctl)
  /\ Gone
  /\ UNCHANGED <<params, blobs, include, text, world, ops, starts, faults, failed, lost>>

Destroy ==
  /\ phase = "quitting"
  /\ \E ok \in BOOLEAN :
       /\ Writes("params", ok)
       /\ LET p == Numbered(WithSources(pub, EqRunsHere(ctl), ctl.master)) IN
          WriteParams(p, Body, ok)
  /\ session' = Saved(ctl)
  /\ Gone
  /\ UNCHANGED <<blobs, include, text, world, ops, starts, lost>>

Fault == faults < MaxFaults /\ faults' = faults + 1

Crash ==
  /\ phase # "down" /\ Fault
  /\ Gone
  /\ UNCHANGED <<params, blobs, files, world, ops, starts, failed, lost>>

\* params.bin deleted, or of a version load() refuses.
LoseParams ==
  /\ phase = "down" /\ params # NoFile /\ Fault
  /\ params' = NoFile /\ lost' = TRUE
  /\ UNCHANGED <<pub, pubTimer, blobs, ctl, writeTimer, phase, job, files, world, seen, ops, starts, failed>>

----------------------------------------------------------------------------
(* The processing object, and what the window hears of it. *)

Reload ==
  /\ running /\ params # NoFile /\ apo # params
  /\ apo' = params
  /\ UNCHANGED <<publisherVars, ctl, writeTimer, phase, job, files, slot, running, seen,
                 budget, failed, lost>>

\* pollStatus: the generation in a report that is fresh, 0 if none is.
PollStatus ==
  /\ phase = "up"
  /\ seen' = IF running THEN apo.gen ELSE 0
  /\ seen' # seen
  /\ UNCHANGED <<publisherVars, ctl, writeTimer, phase, job, files, slot, running, apo,
                 budget, failed, lost>>

Next ==
  \/ EditCurve \/ SetEqEnabled \/ SetMasterEnabled \/ EditEffect
  \/ \E on \in BOOLEAN : SetEngaged(on) \/ SetAttached(on)
  \/ TakeSlot \/ NoticeSlot \/ RestartAudio
  \/ \E ir \in Impulses : SelectImpulse(ir)
  \/ ClearConvolution \/ SetConvolutionEnabled
  \/ \E eqOn, want \in BOOLEAN, ir \in Impulses \cup {NoImpulse} : LoadFullPreset(eqOn, ir, want)
  \/ PublishBlob \/ PublishImpulse \/ FlushPreset
  \/ PubTimerFires \/ WriteTimerFires
  \/ Start \/ Settle \/ Greet \/ Quit \/ Destroy \/ Crash \/ LoseParams
  \/ Reload \/ PollStatus

\* The event loop runs timers and handlers to their end, and the processing
\* object its watcher; nobody has to start the program or use it.
Fairness ==
  /\ WF_vars(PublishBlob \/ PublishImpulse \/ FlushPreset \/ Settle \/ Greet \/ Destroy)
  /\ WF_vars(PubTimerFires) /\ WF_vars(WriteTimerFires)
  /\ WF_vars(Reload)

Spec == Init /\ [][Next]_vars /\ Fairness

----------------------------------------------------------------------------
(* What a step may leave pending, and the properties. *)

Quiet ==
  /\ phase = "up" /\ ~pubTimer /\ ~writeTimer
  /\ {"params", "text"} \cap failed = {}
  /\ running => apo = params

\* ... and the audio service has heard of the slot, and the window too.
Settled == Quiet /\ running = slot /\ slot = ctl.native

EqByApo == include /\ text.eq
EqByDream == running /\ apo.eq /\ ~apo.bypass

\* AppController.cpp:1887 and 318: once the timers have run the equaliser is
\* not applied by both programs; once the audio service has been restarted,
\* exactly one applies it if it is on and one of them is there, and the impulse
\* response is not applied by both.
AppliedOnce ==
  /\ Quiet => ~(EqByApo /\ EqByDream)
  /\ Settled =>
       /\ (EqByApo \/ EqByDream) <=> (ctl.eqOn /\ ctl.master /\ (include \/ running))
       /\ ~(include /\ text.conv # NoImpulse /\ running /\ apo.convOn)

\* ParamPublisher.cpp:355: at no instant, whatever crashed in between, does the
\* file of parameters name an impulse response that is not on disk.
NamedBlobExists == params # NoFile /\ params.conv # NoImpulse => params.conv \in blobs

\* AppController::apoInSync: when the window says the object runs what it
\* published, it does (or its process has just been replaced).
InSyncTellsTruth ==
  phase = "up" /\ seen # 0 /\ seen = pub.gen /\ ~lost => apo \in {params, NoBlock}

\* AppController.cpp:209: what the user had when the window closed in good
\* order is what both stores hold, unless a write failed.
NothingLostOnQuit ==
  [][phase = "quitting" /\ phase' = "down" /\ faults' = faults
       => /\ params' # NoFile /\ params'.body = Body /\ params'.eq = EqRunsHere(ctl)
          /\ session' = Saved(ctl) /\ (failed = {} => text = Text(ctl))]_vars

\* Every change reaches the processing object: from some point on it runs what
\* the window holds, unless the window is gone or a write failed.
ChangesReachTheObject ==
  []<>(\/ phase = "down" \/ ~running \/ failed # {}
       \/ apo.body = Body /\ apo.eq = EqRunsHere(ctl) /\ apo.bypass = ~ctl.master)

\* AppController.cpp:175: an impulse response the interface names and has
\* switched on, with our object in the chain, is the one that is loaded.
InterfaceNamesWhatRuns ==
  Settled /\ ctl.native /\ ctl.irOn /\ ctl.ir # NoImpulse => apo.conv = ctl.ir
=============================================================================
