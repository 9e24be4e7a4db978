----------------------------- MODULE AudioService -----------------------------
(***************************************************************************)
(* main.cpp's elevated helper and the half of platform/ApoInstaller.cpp it *)
(* runs: stop the audio service and whatever depends on it, replace the    *)
(* staged DLL and the registration while nothing maps them, and start      *)
(* everything again.  A second helper may be started while the first still *)
(* works: the program waits for one no longer than two minutes.            *)
(***************************************************************************)
EXTENDS Naturals, Sequences, FiniteSets, SequencesExt, Lists

CONSTANTS
  Audiosrv, Dependents,
  Needs,        \* Needs[d]: the service the dependent d depends on
  MaxHelpers,   \* elevated processes in one run
  MaxTimeouts   \* waits that time out

Helpers == 1..MaxHelpers
Services == Dependents \cup {Audiosrv}

ASSUME ServiceAssumption ==
  /\ IsFiniteSet(Dependents) /\ Audiosrv \notin Dependents
  /\ Needs \in [Dependents -> Services] /\ MaxHelpers \in Nat /\ MaxTimeouts \in Nat

VARIABLES
  svc,          \* what the service manager says of each service
  engine,       \* the build audiodg.exe has mapped, "none", or "down"
  staged,       \* the staged DLL: "absent", "old" or "new"
  registered,   \* the CLSID and engine keys are all there
  helper,       \* the elevated processes
  ranBefore,    \* what ran when the first of them began
  timeouts      \* how many waits for a service have timed out

serviceVars == <<svc, engine, staged, registered, helper, ranBefore, timeouts>>

Jobs == {"install", "uninstall", "restart"}
NoHelper == [pc |-> "none", job |-> "restart", walk |-> <<>>, stopped |-> <<>>, ok |-> TRUE]

\* EnumDependentServices(SERVICE_ACTIVE).
ActiveDependents(s) == {d \in Dependents : Needs[d] = s /\ svc[d] # "stopped"}

Busy(h) == helper[h].pc \notin {"none", "done"}

InitService ==
  /\ svc = [s \in Services |-> "running"]
  /\ staged \in {"absent", "old"} /\ registered = (staged = "old")
  /\ engine = IF registered THEN staged ELSE "none"
  /\ helper = [h \in Helpers |-> NoHelper]
  /\ ranBefore = {} /\ timeouts = 0

----------------------------------------------------------------------------
(* stopService: the dependents first, or the manager refuses. *)

Visit(s) == [do |-> "open", name |-> s]

Launch(h, job) ==
  /\ helper[h].pc = "none" /\ \A g \in Helpers : g < h => helper[g].pc # "none"
  /\ helper' = [helper EXCEPT ![h] = [NoHelper EXCEPT !.pc = "stopping", !.job = job,
                                                      !.walk = <<Visit(Audiosrv)>>]]
  /\ ranBefore' = IF \E g \in Helpers : helper[g].pc # "none" THEN ranBefore
                  ELSE {s \in Services : svc[s] = "running"}
  /\ UNCHANGED <<svc, engine, staged, registered, timeouts>>

At(h, do) ==
  /\ helper[h].pc = "stopping" /\ helper[h].walk # <<>>
  /\ Head(helper[h].walk).do = do

Rest(h) == Tail(helper[h].walk)
Name(h) == Head(helper[h].walk).name

\* stopDependents: those that are active now, each with its own dependents.
OpenService(h) ==
  /\ At(h, "open")
  /\ helper' = [helper EXCEPT ![h].walk =
                  [i \in 1..Cardinality(ActiveDependents(Name(h))) |->
                     Visit(SetToSeq(ActiveDependents(Name(h)))[i])]
                  \o <<[do |-> "stop", name |-> Name(h)]>> \o Rest(h)]
  /\ UNCHANGED <<svc, engine, staged, registered, ranBefore, timeouts>>

\* A service that has stopped meanwhile is not ours to start again.
ControlStop(h) ==
  LET s == Name(h) IN
  /\ At(h, "stop")
  /\ svc' = IF svc[s] = "running" /\ ActiveDependents(s) = {}
            THEN [svc EXCEPT ![s] = "stopping"] ELSE svc
  /\ helper' = [helper EXCEPT ![h].walk =
                  IF svc[s] = "stopped" THEN Rest(h)
                  ELSE <<[do |-> "await", name |-> s]>> \o Rest(h)]
  /\ UNCHANGED <<engine, staged, registered, ranBefore, timeouts>>

\* Mutant of AwaitStopped: only the service asked for is remembered.
AwaitStoppedAlone(h) ==
  /\ At(h, "await") /\ svc[Name(h)] = "stopped"
  /\ helper' = [helper EXCEPT ![h].walk = Rest(h)]
  /\ UNCHANGED <<svc, engine, staged, registered, ranBefore, timeouts>>

AwaitStopped(h) ==
  /\ At(h, "await") /\ svc[Name(h)] = "stopped"
  /\ helper' = [helper EXCEPT ![h].walk = Rest(h), ![h].stopped = <<Name(h)>> \o @]
  /\ UNCHANGED <<svc, engine, staged, registered, ranBefore, timeouts>>

\* waitForState after 30 s, or a service that cannot be opened: every level of
\* the recursion gives up.
AwaitFails(h) ==
  /\ At(h, "open") \/ At(h, "await")
  /\ timeouts < MaxTimeouts /\ timeouts' = timeouts + 1
  /\ helper' = [helper EXCEPT ![h].walk = <<>>, ![h].ok = FALSE]
  /\ UNCHANGED <<svc, engine, staged, registered, ranBefore>>

----------------------------------------------------------------------------
(* performApoInstall and performApoUninstall, in the gap. *)

\* startAudioService: Audiosrv whatever happened, then the list as it is.
StartList(h) ==
  <<Audiosrv>> \o Without(helper[h].stopped, Audiosrv)

Starting(h, ok) ==
  helper' = [helper EXCEPT ![h].pc = "starting", ![h].ok = ok,
                              ![h].walk = StartList(h), ![h].stopped = <<>>]

Stopped(h) == helper[h].pc = "stopping" /\ helper[h].walk = <<>>
HasWork(h) == helper[h].ok /\ helper[h].job # "restart"

\* A stop that failed costs the work, never the start.
AfterStop(h) ==
  /\ Stopped(h)
  /\ \/ HasWork(h) /\ helper' = [helper EXCEPT ![h].pc = "working"]
     \/ ~HasWork(h) /\ Starting(h, helper[h].ok)
  /\ UNCHANGED <<svc, engine, staged, registered, ranBefore, timeouts>>

----------------------------------------------------------------------------
(* performApoInstall and performApoUninstall, in the gap. *)

\* audiodg.exe holds the staged DLL.
Mapped == engine \in {"old", "new"}

Working(h, job) == helper[h].pc = "working" /\ helper[h].job = job

\* The old DLL goes away once nothing maps it, then the new one is copied and
\* both keys written.
Install(h) ==
  /\ Working(h, "install")
  /\ staged = "absent" \/ ~Mapped
  /\ staged' = "new" /\ registered' = TRUE
  /\ Starting(h, TRUE)
  /\ UNCHANGED <<svc, engine, ranBefore, timeouts>>

\* Mutant of InstallFails: the error is returned at once.
InstallFailsReturns(h) ==
  /\ Working(h, "install")
  /\ helper' = [helper EXCEPT ![h].pc = "done", ![h].ok = FALSE]
  /\ UNCHANGED <<svc, engine, staged, registered, ranBefore, timeouts>>

\* Forty attempts were not enough, the copy failed, or a key could not be
\* written: what has been done by then stays.
InstallFails(h) ==
  /\ Working(h, "install")
  /\ staged' \in {staged} \cup IF ~Mapped THEN {"absent", "new"} ELSE {}
  /\ Starting(h, FALSE)
  /\ UNCHANGED <<svc, engine, registered, ranBefore, timeouts>>

\* The DLL stays where it is: it may be mapped still.
Uninstall(h) ==
  /\ Working(h, "uninstall")
  /\ registered' = FALSE
  /\ Starting(h, TRUE)
  /\ UNCHANGED <<svc, engine, staged, ranBefore, timeouts>>

----------------------------------------------------------------------------
(* startService, and the service manager (external). *)

\* What a start brings up: the service and all it needs.
Closed(S) == \A d \in S \cap Dependents : Needs[d] \in S
Chain(s) == {t \in Services : \A S \in SUBSET Services : s \in S /\ Closed(S) => t \in S}

\* What the new audiodg.exe maps.
Maps == IF registered THEN staged ELSE "none"

\* StartService: refused while something in the chain is still stopping.
StartUp(s) ==
  LET up == Chain(s) IN
  IF \E t \in up : svc[t] = "stopping"
  THEN UNCHANGED <<svc, engine>>
  ELSE /\ svc' = [t \in Services |-> IF t \in up THEN "running" ELSE svc[t]]
       /\ engine' = IF svc[Audiosrv] = "running" THEN engine ELSE Maps

\* ... and its result is not looked at.
StartNext(h) ==
  /\ helper[h].pc = "starting" /\ helper[h].walk # <<>>
  /\ StartUp(Head(helper[h].walk))
  /\ helper' = [helper EXCEPT ![h].walk = Rest(h)]
  /\ UNCHANGED <<staged, registered, ranBefore, timeouts>>

HelperExits(h) ==
  /\ helper[h].pc = "starting" /\ helper[h].walk = <<>>
  /\ helper' = [helper EXCEPT ![h].pc = "done"]
  /\ UNCHANGED <<svc, engine, staged, registered, ranBefore, timeouts>>

ServiceStops(s) ==
  /\ svc[s] = "stopping"
  /\ svc' = [svc EXCEPT ![s] = "stopped"]
  /\ UNCHANGED <<engine, staged, registered, helper, ranBefore, timeouts>>

\* Stopping Audiosrv does not make audiodg.exe exit at once.
EngineExits ==
  /\ svc[Audiosrv] = "stopped" /\ engine # "down"
  /\ engine' = "down"
  /\ UNCHANGED <<svc, staged, registered, helper, ranBefore, timeouts>>

HelperStep(h) ==
  \/ OpenService(h) \/ ControlStop(h) \/ AwaitStopped(h) \/ AfterStop(h)
  \/ Install(h) \/ Uninstall(h) \/ StartNext(h) \/ HelperExits(h)

HelperFault(h) == AwaitFails(h) \/ InstallFails(h)

\* A helper always gets on with its work, by a failure if nothing else; the
\* manager brings a stop it accepted to an end.
ServiceFairness ==
  /\ \A h \in Helpers : WF_serviceVars(HelperStep(h) \/ InstallFails(h))
  /\ \A s \in Services : WF_serviceVars(ServiceStops(s))

----------------------------------------------------------------------------
(* Properties *)

\* ApoInstaller.cpp:851, main.cpp:145: "always bring audio back, even if the
\* work above failed": once a helper is at work, Audiosrv comes back up, unless
\* a wait has timed out and its stop may yet land on what was started.
AudioReturns ==
  svc[Audiosrv] # "running" ~> (svc[Audiosrv] = "running" \/ timeouts > 0)

\* ... and everything that ran before the first helper runs after the last one,
\* if nobody waited in vain: what Audiosrv took down with it is not forgotten.
EverybodyRuns == \A s \in ranBefore : svc[s] = "running"
=============================================================================
