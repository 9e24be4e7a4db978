------------------------------ MODULE Lifecycle ------------------------------
(***************************************************************************)
(* main.cpp, platform/SingleInstance.cpp, platform/TrayIcon.cpp and the    *)
(* close handler of Main.qml: which process runs, where its window is, and *)
(* how it ends.                                                            *)
(***************************************************************************)
EXTENDS Naturals, FiniteSets

CONSTANTS
  Processes,
  MaxCloses      \* what the user does to the window

VARIABLES
  proc,          \* "none", "probing", "running", "leaving" (exec has returned), "gone"
  window,        \* of the running process: "shown" or "hidden"
  tray,          \* m_installed, and Explorer has the icon
  closeToTray, quitting,
  asked,         \* quitApplication was called
  raise,         \* a connection the server has not looked at
  refused,       \* the last start found somebody at home
  closed,        \* the user has closed the window and it was not vetoed
  closes

lifeVars == <<proc, window, tray, closeToTray, quitting, asked, raise, refused, closed, closes>>

LifeInit ==
  /\ proc = [p \in Processes |-> "none"]
  /\ window = "hidden" /\ tray = FALSE
  /\ closeToTray \in BOOLEAN
  /\ quitting = FALSE /\ asked = FALSE /\ raise = FALSE /\ refused = FALSE /\ closed = FALSE
  /\ closes = 0

Running == \E p \in Processes : proc[p] = "running"
Listening == \E p \in Processes : proc[p] \in {"running", "leaving"}

\* acquire() first asks whether anybody listens.  Two that ask at once would both
\* hear no: starts follow one another here.
LaunchProgram(p) ==
  /\ proc[p] = "none" /\ \A q \in Processes : proc[q] # "probing"
  /\ proc' = [proc EXCEPT ![p] = "probing"]
  /\ UNCHANGED <<window, tray, closeToTray, quitting, asked, raise, refused, closed, closes>>

\* Connecting is the message, and this process ends.
Refused(p) ==
  /\ proc[p] = "probing" /\ Listening
  /\ proc' = [proc EXCEPT ![p] = "gone"]
  /\ raise' = TRUE /\ refused' = TRUE
  /\ UNCHANGED <<window, tray, closeToTray, quitting, asked, closed, closes>>

\* Nobody: listen, build the window (hidden with --tray) and the icon, which
\* Explorer may not take.
Acquired(p, hidden, icon) ==
  /\ proc[p] = "probing" /\ ~Listening
  /\ proc' = [proc EXCEPT ![p] = "running"]
  /\ window' = IF hidden THEN "hidden" ELSE "shown"
  /\ tray' = icon
  /\ quitting' = FALSE /\ asked' = FALSE /\ raise' = FALSE /\ refused' = FALSE /\ closed' = FALSE
  /\ UNCHANGED <<closeToTray, closes>>

\* Mutant of OnRaise: heeded by a window that the tray holds, and by no other.
OnRaiseFromTray ==
  /\ Running /\ raise /\ tray
  /\ raise' = FALSE /\ window' = "shown" /\ refused' = FALSE /\ closed' = FALSE
  /\ UNCHANGED <<proc, tray, closeToTray, quitting, asked, closes>>

\* restoreFromTray
OnRaise ==
  /\ Running /\ raise
  /\ raise' = FALSE /\ window' = "shown" /\ refused' = FALSE /\ closed' = FALSE
  /\ UNCHANGED <<proc, tray, closeToTray, quitting, asked, closes>>

\* onTrayActivated, onToggleWindowRequested
Toggle ==
  /\ Running /\ tray /\ closes < MaxCloses /\ closes' = closes + 1
  /\ window' = IF window = "shown" THEN "hidden" ELSE "shown"
  /\ closed' = FALSE
  /\ UNCHANGED <<proc, tray, closeToTray, quitting, asked, raise, refused>>

Vetoed == ~quitting /\ closeToTray /\ tray

\* onClosing: hidden instead, if there is an icon to bring it back.  A window
\* that is closed does not end the program: setQuitOnLastWindowClosed(false).
Close ==
  /\ Running /\ window = "shown" /\ closes < MaxCloses /\ closes' = closes + 1
  /\ window' = "hidden"
  /\ closed' = ~Vetoed
  /\ UNCHANGED <<proc, tray, closeToTray, quitting, asked, raise, refused>>

Leave == proc' = [p \in Processes |-> IF proc[p] = "running" THEN "leaving" ELSE proc[p]]

\* quit() asks every window that is shown to close; one that refuses calls it off.
AskToClose ==
  IF window = "shown" /\ Vetoed' THEN window' = "hidden" /\ UNCHANGED proc ELSE Leave /\ UNCHANGED window

\* Mutant of QuitApplication: quit() and nothing before it.
QuitVetoed ==
  /\ Running /\ ~asked
  /\ asked' = TRUE
  /\ UNCHANGED <<tray, quitting, closeToTray, raise, refused, closed, closes>>
  /\ AskToClose

\* quitApplication: the icon goes, and m_quitting lets the close through.
QuitApplication ==
  /\ Running /\ ~asked
  /\ asked' = TRUE /\ tray' = FALSE /\ quitting' = TRUE
  /\ UNCHANGED <<closeToTray, raise, refused, closed, closes>>
  /\ AskToClose

\* main returns: the engine and the server are destroyed.
Gone ==
  /\ \E p \in Processes : proc[p] = "leaving"
  /\ proc' = [p \in Processes |-> IF proc[p] = "leaving" THEN "gone" ELSE proc[p]]
  /\ raise' = FALSE
  /\ UNCHANGED <<window, tray, closeToTray, quitting, asked, refused, closed, closes>>

\* TaskbarCreated after Explorer was restarted.
ExplorerRestarts(icon) ==
  /\ Running /\ tray /\ ~icon /\ closes < MaxCloses /\ closes' = closes + 1
  /\ tray' = icon
  /\ UNCHANGED <<proc, window, closeToTray, quitting, asked, raise, refused, closed>>

SetCloseToTray ==
  /\ Running /\ tray /\ window = "shown" /\ closes < MaxCloses /\ closes' = closes + 1
  /\ closeToTray' = ~closeToTray
  /\ UNCHANGED <<proc, window, tray, quitting, asked, raise, refused, closed>>

LifeNext ==
  \/ \E p \in Processes :
       LaunchProgram(p) \/ Refused(p) \/ \E hidden, icon \in BOOLEAN : Acquired(p, hidden, icon)
  \/ OnRaise \/ Toggle \/ Close \/ QuitApplication \/ Gone
  \/ ExplorerRestarts(FALSE) \/ SetCloseToTray

\* The event loops run: a connection is looked at, a start gets its answer within
\* 300 ms, and main returns.
LifeFairness ==
  /\ WF_lifeVars(OnRaise) /\ WF_lifeVars(Gone)
  /\ WF_lifeVars(\E p \in Processes : Refused(p) \/ \E h, i \in BOOLEAN : Acquired(p, h, i))

----------------------------------------------------------------------------

\* Main.qml:40, AppController.cpp:951: asked to quit, the program is gone in the
\* end, window in the tray or not.
QuitEnds == asked ~> ~Listening

\* SingleInstance.h: a second start brings the window of the first to the front,
\* unless that one was on its way out.
SecondStartShows == refused /\ Running ~> window = "shown" \/ ~Running

\* SettingsPane.qml:111: without an icon in the tray, closing exits.
ClosedExits == closed /\ ~tray ~> ~(closed /\ Running)
=============================================================================
