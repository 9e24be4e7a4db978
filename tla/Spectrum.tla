------------------------------- MODULE Spectrum -------------------------------
(***************************************************************************)
(* platform/LoopbackCapture.cpp and the analyser half of AppController:    *)
(* a capture thread on one output device, its spectra and its failure      *)
(* queued for the interface, the switch, and the timer that clears the     *)
(* display when nothing has come for 400 ms.                               *)
(***************************************************************************)
EXTENDS Naturals, Sequences

CONSTANTS
  Outputs,        \* the devices of the combo box
  MaxEvents,      \* how long the interface's queue of events gets
  MaxSwitches     \* operations of the user

VARIABLES
  enabled,        \* m_spectrumEnabled
  lit,            \* m_spectrumLive, with the idle timer running
  selected,       \* the device
  thread,         \* "none", "opening", "capturing" or "leaving" (run has emitted failed)
  endpoint,       \* m_endpointId of the running thread
  stopping,       \* startCapture or stopCapture waits for the thread
  restart,        \* ... to start it again
  events,         \* the queued signals
  switches,
  overtaken       \* a failure arrived when another capture was already running

spectrumVars == <<enabled, lit, selected, thread, endpoint, stopping, restart,
                  events, switches, overtaken>>

SpectrumInit ==
  /\ enabled = FALSE /\ lit = FALSE
  /\ selected \in Outputs /\ endpoint = selected
  /\ thread = "none" /\ stopping = FALSE /\ restart = FALSE
  /\ events = <<>> /\ switches = 0 /\ overtaken = FALSE

Switch == switches < MaxSwitches /\ switches' = switches + 1

\* stopCapture, and start() if it was startCapture that called it: at once if
\* nothing runs.
StopThen(start) ==
  IF thread = "none"
  THEN /\ thread' = IF start THEN "opening" ELSE "none"
       /\ endpoint' = IF start THEN selected' ELSE endpoint
       /\ UNCHANGED <<stopping, restart>>
  ELSE /\ stopping' = TRUE /\ restart' = start
       /\ UNCHANGED <<thread, endpoint>>

\* setSpectrumEnabled(true)
SwitchOn ==
  /\ ~stopping /\ ~enabled /\ Switch
  /\ enabled' = TRUE /\ selected' = selected
  /\ StopThen(TRUE)
  /\ UNCHANGED <<lit, events, overtaken>>

\* Mutant of SwitchOff: the display is cleared and the thread left running.
SwitchOffDisplay ==
  /\ ~stopping /\ enabled /\ Switch
  /\ enabled' = FALSE /\ lit' = FALSE
  /\ UNCHANGED <<selected, thread, endpoint, stopping, restart, events, overtaken>>

\* setSpectrumEnabled(false).  What the thread has queued by then is delivered.
SwitchOff ==
  /\ ~stopping /\ enabled /\ Switch
  /\ enabled' = FALSE /\ selected' = selected
  /\ StopThen(FALSE)
  /\ lit' = FALSE
  /\ UNCHANGED <<events, overtaken>>

\* setCurrentDevice
Select(d) ==
  /\ ~stopping /\ d # selected /\ Switch
  /\ selected' = d
  /\ IF enabled THEN StopThen(TRUE) ELSE UNCHANGED <<thread, endpoint, stopping, restart>>
  /\ UNCHANGED <<enabled, lit, events, overtaken>>

\* wait() returns: run() has seen m_stop, or 1500 ms are over and the thread is
\* terminated.
Stopped ==
  /\ stopping
  /\ stopping' = FALSE /\ restart' = FALSE
  /\ thread' = IF restart THEN "opening" ELSE "none"
  /\ endpoint' = IF restart THEN selected ELSE endpoint
  /\ UNCHANGED <<enabled, lit, selected, events, switches, overtaken>>

----------------------------------------------------------------------------
(* run *)

Emit(e) == Len(events) < MaxEvents /\ events' = Append(events, e)

\* Any of the seven calls that open the device fails.
OpenFails ==
  /\ thread = "opening"
  /\ Emit("failed") /\ thread' = "leaving"
  /\ UNCHANGED <<enabled, lit, selected, endpoint, stopping, restart, switches, overtaken>>

Opened ==
  /\ thread = "opening"
  /\ thread' = "capturing"
  /\ UNCHANGED <<enabled, lit, selected, endpoint, stopping, restart, events, switches, overtaken>>

\* A hop is full: one spectrum.
SpectrumReady ==
  /\ thread = "capturing"
  /\ Emit("spectrum")
  /\ UNCHANGED <<enabled, lit, selected, thread, endpoint, stopping, restart, switches, overtaken>>

\* The device goes away, silently, or run returns after a failure.
ThreadEnds ==
  /\ thread \in {"capturing", "leaving"} /\ ~stopping
  /\ thread' = "none"
  /\ UNCHANGED <<enabled, lit, selected, endpoint, stopping, restart, events, switches, overtaken>>

----------------------------------------------------------------------------
(* The interface's event loop. *)

OnSpectrumReady ==
  /\ ~stopping /\ events # <<>> /\ Head(events) = "spectrum"
  /\ lit' = TRUE
  /\ events' = Tail(events)
  /\ UNCHANGED <<enabled, selected, thread, endpoint, stopping, restart, switches, overtaken>>

\* The switch goes off, whichever capture it was that failed.
OnFailed ==
  /\ ~stopping /\ events # <<>> /\ Head(events) = "failed"
  /\ enabled' = FALSE
  /\ overtaken' = (overtaken \/ thread \in {"opening", "capturing"})
  /\ events' = Tail(events)
  /\ UNCHANGED <<lit, selected, thread, endpoint, stopping, restart, switches>>

\* 400 ms without a spectrum.
IdleTimeout ==
  /\ ~stopping /\ lit /\ events = <<>>
  /\ lit' = FALSE
  /\ UNCHANGED <<enabled, selected, thread, endpoint, stopping, restart, events, switches, overtaken>>

EventLoop == OnSpectrumReady \/ OnFailed \/ IdleTimeout \/ Stopped

SpectrumNext ==
  \/ SwitchOn \/ SwitchOff \/ \E d \in Outputs : Select(d)
  \/ OpenFails \/ Opened \/ SpectrumReady \/ ThreadEnds
  \/ EventLoop

\* The event loop runs, its timers fire, and a wait has an end.
SpectrumFairness == WF_spectrumVars(EventLoop)

----------------------------------------------------------------------------

\* LoopbackCapture.cpp:104, AppController.cpp:91: switched off for good, the
\* analyser is dark for good, whatever was still queued, unless the failure of
\* one capture switched it off when the next was already running.
GoesDark == <>[](~enabled /\ ~overtaken) => <>[]~lit
=============================================================================
