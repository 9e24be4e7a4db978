------------------------------- MODULE ApoSetup -------------------------------
(***************************************************************************)
(* AppController.cpp, the part that installs, attaches, detaches and       *)
(* uninstalls the processing object: one endpoint of the registry and the  *)
(* elevated helper, composed.  The interface waits for the helper, and     *)
(* gives up after two minutes.                                             *)
(***************************************************************************)
EXTENDS ApoInstaller, AudioService

CONSTANTS MaxOps, MaxFaults

VARIABLES
  gui,        \* "idle", "leaving" (uninstallApo detaches), "waiting" or "gone"
  waitsFor,   \* the helper runElevated started
  says,       \* the last message
  gaveUp,     \* it was not waited for to the end
  ops, faults

guiVars == <<gui, waitsFor, says, gaveUp>>
vars == <<endpointVars, serviceVars, guiVars, ops, faults>>

Init ==
  /\ InitEndpoint /\ InitService
  /\ gui = "idle" /\ waitsFor = 1 /\ says = "nothing" /\ gaveUp = FALSE
  /\ ops = 0 /\ faults = 0

Idle == gui = "idle" /\ pc = "idle"
Asked == ops < MaxOps /\ ops' = ops + 1
Fault == faults < MaxFaults /\ faults' = faults + 1

----------------------------------------------------------------------------

\* setApoAttached
SetApoAttached(on) ==
  /\ Idle /\ Asked
  /\ IF on THEN Attach ELSE Detach
  /\ says' = "nothing"
  /\ UNCHANGED <<serviceVars, gui, waitsFor, gaveUp, faults>>

EndpointStep(ok) ==
  /\ \/ Writing(ok)
     \/ ok /\ (AttachBackup \/ DetachForget)
  /\ IF ok THEN UNCHANGED faults ELSE Fault
  /\ UNCHANGED <<serviceVars, guiVars, ops>>

\* The program is ended inside a handler, or while it waits, and started again.
Crash ==
  /\ Fault
  /\ pc' = "idle" /\ current' = NoSlot
  /\ gui' = "idle" /\ says' = "nothing"
  /\ pc # "idle" \/ gui # "idle"
  /\ gaveUp' = (gaveUp \/ gui = "waiting")
  /\ UNCHANGED <<endpoint, backup, ghosts, writes, serviceVars, waitsFor, ops>>

\* runElevated: the consent may be refused.
RunElevated(job) ==
  \/ \E h \in Helpers :
       /\ Launch(h, job)
       /\ gui' = "waiting" /\ waitsFor' = h /\ says' = "nothing"
       /\ UNCHANGED gaveUp
  \/ /\ gui' = "idle" /\ says' = "cancelled"
     /\ UNCHANGED <<serviceVars, waitsFor, gaveUp>>

\* installApo, restartAudio
Install_Restart(job) ==
  /\ Idle /\ Asked
  /\ job \in {"install", "restart"} /\ RunElevated(job)
  /\ UNCHANGED <<endpointVars, faults>>

\* Mutant of UninstallApo: the endpoint is left as it is.
UninstallAtOnce ==
  /\ Idle /\ Asked
  /\ gui' = "leaving" /\ says' = "nothing"
  /\ UNCHANGED <<endpointVars, serviceVars, waitsFor, gaveUp, faults>>

\* uninstallApo: off the endpoint first, whatever comes of it ...
UninstallApo ==
  /\ Idle /\ Asked
  /\ Detach
  /\ gui' = "leaving" /\ says' = "nothing"
  /\ UNCHANGED <<serviceVars, waitsFor, gaveUp, faults>>

\* ... then the helper.
UninstallElevated ==
  /\ gui = "leaving" /\ pc = "idle"
  /\ RunElevated("uninstall")
  /\ UNCHANGED <<endpointVars, ops, faults>>

Verdict(h) ==
  IF ~helper[h].ok THEN "failed"
  ELSE CASE helper[h].job = "install" -> IF staged = "new" THEN "installed" ELSE "stale"
         [] helper[h].job = "uninstall" -> "uninstalled"
         [] helper[h].job = "restart" -> "restarted"

HelperReturns ==
  /\ gui = "waiting" /\ helper[waitsFor].pc = "done"
  /\ gui' = "idle" /\ says' = Verdict(waitsFor)
  /\ UNCHANGED <<endpointVars, serviceVars, waitsFor, gaveUp, ops, faults>>

\* WaitForSingleObject after 120 s: STILL_ACTIVE is not 0.
GiveUp ==
  /\ gui = "waiting" /\ Busy(waitsFor) /\ Fault
  /\ gui' = "idle" /\ says' = "failed" /\ gaveUp' = TRUE
  /\ UNCHANGED <<endpointVars, serviceVars, waitsFor, ops>>

----------------------------------------------------------------------------

\* What the others write matters to nothing a helper does.
Elsewhere ==
  /\ \A h \in Helpers : ~Busy(h)
  /\ \/ \E v \in Others \cup {Free} : OtherWrites(v)
     \/ DriverWrites
     \/ DisableSysFx
  /\ UNCHANGED <<serviceVars, guiVars, ops, faults>>

Service ==
  /\ \/ \E h \in Helpers : HelperStep(h) \/ HelperFault(h)
     \/ \E s \in Services : ServiceStops(s)
     \/ EngineExits
  /\ UNCHANGED <<endpointVars, guiVars, ops, faults>>

Next ==
  \/ \E on \in BOOLEAN : SetApoAttached(on)
  \/ \E ok \in BOOLEAN : EndpointStep(ok)
  \/ \E job \in Jobs : Install_Restart(job)
  \/ UninstallApo \/ UninstallElevated \/ HelperReturns
  \/ GiveUp \/ Crash
  \/ Elsewhere \/ Service

Spec == Init /\ [][Next]_vars /\ ServiceFairness

----------------------------------------------------------------------------

\* ApoInstaller.cpp:823, 851: once no helper is at work, every service that ran
\* before the first one runs again, if every wait was to the end.
EverybodyBack ==
  (\A h \in Helpers : ~Busy(h)) /\ timeouts = 0 /\ ~gaveUp => EverybodyRuns

\* AppController.cpp:803, 825: "installed" is said of the build that is staged,
\* registered and the only one the engine can still have mapped; "uninstalled"
\* of an endpoint without our entry, if none of its writes has failed.
SaysWhatIs ==
  ~gaveUp =>
    /\ says = "installed" => staged = "new" /\ registered /\ engine # "old"
    /\ says = "uninstalled" /\ faults = 0 => ~registered /\ ~OursPresent

\* Both: when the helpers are gone the machine is as the window says it is, and
\* its services are as they were.
LeftAsSaid == EverybodyBack /\ SaysWhatIs
=============================================================================
