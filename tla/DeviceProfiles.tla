---------------------------- MODULE DeviceProfiles ----------------------------
(***************************************************************************)
(* app/AppController.cpp, per-device mode: every endpoint keeps a curve of *)
(* its own, the device box chooses which one is edited, and the profiles,  *)
(* the session and the choice survive the program.  Devices come and go,   *)
(* and with them the position by which the box refers to them.             *)
(*                                                                         *)
(* A curve -- bands and preamp -- is a number, a new one for every edit.   *)
(***************************************************************************)
EXTENDS Naturals, Sequences, SequencesExt

CONSTANTS
  Devices,    \* endpoint ids
  All,        \* the key of "all devices", the empty id
  NoCurve,
  Careful,    \* the user turns the mode on and off with "all devices" selected,
              \* leaves the program that way, and changes no hardware meanwhile
  MaxEdits, MaxStarts, MaxPlugs

ASSUME AllAssumption == All \notin Devices
ASSUME NoCurveAssumption == NoCurve \notin Nat

VARIABLES
  up,
  devices,    \* m_devices
  current,    \* m_currentDevice, 0 for all devices
  perDevice,  \* m_perDevice
  key,        \* m_profileKey
  profiles,   \* m_profiles
  live,       \* the curve in the models
  dirty,      \* m_writeTimer is running
  session,    \* QSettings and session.peace
  stored,     \* the files in devices/
  meant,      \* the curve last shown for each key in per-device mode
  edits, starts, plugs

vars == <<up, devices, current, perDevice, key, profiles, live, dirty, session, stored,
          meant, edits, starts, plugs>>

Keys == Devices \cup {All}
Curves == 0..MaxEdits
Maybe == Curves \cup {NoCurve}
Lists == UNION {{l \in [1..n -> Devices] : \A i, j \in 1..n : l[i] = l[j] => i = j} :
                n \in 1..2}

\* profileKeyForDevice
KeyFor(i) == IF i \in 1..Len(devices) THEN devices[i] ELSE All
Selected == KeyFor(current)

TypeOK ==
  /\ devices \in Lists /\ current \in 0..Len(devices)
  /\ key \in Keys /\ profiles \in [Keys -> Maybe] /\ live \in Curves
  /\ session \in [device : Keys, perDevice : BOOLEAN, curve : Curves]
  /\ stored \in [Keys -> Maybe] /\ meant \in [Keys -> Maybe]

NoProfiles == [k \in Keys |-> NoCurve]

Init ==
  /\ up = FALSE /\ devices \in Lists /\ current = 0 /\ perDevice = FALSE
  /\ key = All /\ profiles = NoProfiles /\ live = 0 /\ dirty = FALSE
  /\ session = [device |-> All, perDevice |-> FALSE, curve |-> 0]
  /\ stored = NoProfiles /\ meant = NoProfiles
  /\ edits = 0 /\ starts = 0 /\ plugs = 0

\* stashCurrentProfile
Stashed == [profiles EXCEPT ![key] = live]

\* Mutant of Applied: the curve changes and the key it is kept under does not.
AppliedUnkeyed(p, k) ==
  [key |-> key, profiles |-> IF p[k] = NoCurve THEN [p EXCEPT ![k] = live] ELSE p,
   live |-> IF p[k] = NoCurve THEN live ELSE p[k]]

\* applyProfile: a device that has none starts from the curve that is there.
Applied(p, k) ==
  [key |-> k, profiles |-> IF p[k] = NoCurve THEN [p EXCEPT ![k] = live] ELSE p,
   live |-> IF p[k] = NoCurve THEN live ELSE p[k]]

\* Mutant of SetCurrentDevice: the curve is not put away first.
SetCurrentDeviceUnstashed(i) ==
  /\ up /\ i \in 0..Len(devices) /\ i # current
  /\ current' = i /\ dirty' = TRUE
  /\ IF perDevice
     THEN LET a == Applied(profiles, KeyFor(i)) IN
          /\ key' = a.key /\ profiles' = a.profiles /\ live' = a.live
          /\ meant' = IF meant[KeyFor(i)] = NoCurve
                      THEN [meant EXCEPT ![KeyFor(i)] = a.live] ELSE meant
     ELSE UNCHANGED <<key, profiles, live, meant>>
  /\ UNCHANGED <<up, devices, perDevice, session, stored, edits, starts, plugs>>

\* setCurrentDevice
SetCurrentDevice(i) ==
  /\ up /\ i \in 0..Len(devices) /\ i # current
  /\ current' = i /\ dirty' = TRUE
  /\ IF perDevice
     THEN LET a == Applied(Stashed, KeyFor(i)) IN
          /\ key' = a.key /\ profiles' = a.profiles /\ live' = a.live
          /\ meant' = IF meant[KeyFor(i)] = NoCurve
                      THEN [meant EXCEPT ![KeyFor(i)] = a.live] ELSE meant
     ELSE UNCHANGED <<key, profiles, live, meant>>
  /\ UNCHANGED <<up, devices, perDevice, session, stored, edits, starts, plugs>>

\* Any of the handlers that change the bands or the preamp.
Edit ==
  /\ up /\ edits < MaxEdits
  /\ edits' = edits + 1 /\ live' = edits + 1 /\ dirty' = TRUE
  /\ meant' = IF perDevice THEN [meant EXCEPT ![Selected] = live'] ELSE meant
  /\ UNCHANGED <<up, devices, current, perDevice, key, profiles, session, stored, starts, plugs>>

\* setPerDevice: the switch, and nothing about the curves.
SetPerDevice ==
  /\ up /\ (Careful => current = 0 /\ key = All)
  /\ perDevice' = ~perDevice /\ dirty' = TRUE
  /\ meant' = IF perDevice THEN NoProfiles
              ELSE [k \in Keys |-> IF k = Selected THEN live ELSE profiles[k]]
  /\ UNCHANGED <<up, devices, current, key, profiles, live, session, stored, edits, starts, plugs>>

\* refreshDevices, with the list Windows gives this time.
Enumerate(list) ==
  /\ devices' = list
  /\ current' = IF current > Len(list) THEN 0 ELSE current
RefreshDevices(list) ==
  /\ up /\ list # devices /\ plugs < MaxPlugs /\ plugs' = plugs + 1
  /\ Careful => current = 0
  /\ Enumerate(list)
  /\ UNCHANGED <<up, perDevice, key, profiles, live, dirty, session, stored, meant, edits, starts>>

\* saveSession
SaveSession ==
  /\ session' = [device |-> Selected, perDevice |-> perDevice, curve |-> live]
  /\ profiles' = IF perDevice THEN Stashed ELSE profiles
  /\ stored' = IF perDevice THEN [k \in Keys |-> IF profiles'[k] # NoCurve THEN profiles'[k]
                                                 ELSE stored[k]]
               ELSE stored

\* writeNow
WriteTimerFires ==
  /\ up /\ dirty /\ dirty' = FALSE
  /\ SaveSession
  /\ UNCHANGED <<up, devices, current, perDevice, key, live, meant, edits, starts, plugs>>

\* quitApplication: what is live is what is saved.
Quit ==
  /\ up /\ (Careful => current = 0)
  /\ up' = FALSE /\ dirty' = FALSE
  /\ SaveSession
  /\ UNCHANGED <<devices, current, perDevice, key, live, meant, edits, starts, plugs>>

\* The constructor: the stored profiles, the session, and the device the
\* session names if it is there.
Start(list) ==
  /\ ~up /\ starts < MaxStarts /\ starts' = starts + 1
  /\ Careful => list = devices
  /\ up' = TRUE /\ dirty' = TRUE
  /\ profiles' = stored /\ key' = All
  /\ perDevice' = session.perDevice /\ live' = session.curve
  /\ devices' = list
  /\ current' = IF Contains(list, session.device)
                THEN CHOOSE i \in 1..Len(list) : list[i] = session.device ELSE 0
  /\ UNCHANGED <<session, stored, meant, edits, plugs>>

Next ==
  \/ \E i \in 0..2 : SetCurrentDevice(i)
  \/ Edit \/ SetPerDevice \/ WriteTimerFires \/ Quit
  \/ \E list \in Lists : RefreshDevices(list) \/ Start(list)

Spec == Init /\ [][Next]_vars

----------------------------------------------------------------------------
\* What will be heard on, and shown for, the device with key k.
CurveOf(k) == IF k = key THEN live ELSE profiles[k]

\* README.md:359: with the mode on every endpoint keeps its own curve: the one
\* shown when its box was last selected, or edited since, whatever was done to
\* the others and over restarts.
EachKeepsItsOwn ==
  up /\ perDevice => \A k \in Keys : meant[k] # NoCurve => CurveOf(k) = meant[k]

\* No profile that was once on disk is gone or taken over by a curve that was
\* never its own.
StoredIsMeant ==
  \A k \in Keys : stored'[k] # stored[k] => stored'[k] # NoCurve /\ stored'[k] = meant'[k]

\* A curve belongs to the device it was made for: on the page, in the table of
\* profiles and on disk.
CurvesKeepTheirDevice == [][EachKeepsItsOwn' /\ StoredIsMeant]_vars

\* README.md:372: the box chooses the curve that is edited.
EditsTheSelected == up /\ perDevice => key = Selected
=============================================================================
