------------------------------ MODULE MCDesktop ------------------------------
(***************************************************************************)
(* The parts of the application that share nothing but the process: each   *)
(* behaviour follows one of them and leaves the others where they started. *)
(***************************************************************************)
EXTENDS DeviceProfiles, Updates, Spectrum, Hotkeys, Lifecycle

VARIABLE focus

Release(n, exe, sha, draft) == [version |-> <<0, 9, n>>, exe |-> exe, sha |-> sha, draft |-> draft]
MCVersion == <<0, 9, 8>>
MCReleases ==
  {Release(7, TRUE, TRUE, FALSE), Release(9, TRUE, TRUE, FALSE), Release(10, TRUE, FALSE, FALSE),
   Release(10, TRUE, TRUE, FALSE), Release(11, FALSE, TRUE, FALSE), Release(11, TRUE, TRUE, TRUE)}

desktopVars == <<vars, updateVars, spectrumVars, hotkeyVars, lifeVars, focus>>

\* The others sit where their Init puts them, in its first state.
DesktopInit ==
  /\ focus \in {"profiles", "updates", "spectrum", "hotkeys", "life"}
  /\ Init /\ UpdatesInit /\ SpectrumInit /\ HotkeysInit /\ LifeInit
  /\ focus # "profiles" => devices = <<CHOOSE d \in Devices : TRUE>>
  /\ focus # "updates" => published = CHOOSE r \in Releases : TRUE
  /\ focus # "spectrum" => selected = CHOOSE o \in Outputs : TRUE
  /\ focus # "life" => closeToTray

DesktopNext ==
  /\ UNCHANGED focus
  /\ \/ /\ focus = "profiles" /\ Next
        /\ UNCHANGED <<updateVars, spectrumVars, hotkeyVars, lifeVars>>
     \/ /\ focus = "updates" /\ UpdatesNext
        /\ UNCHANGED <<vars, spectrumVars, hotkeyVars, lifeVars>>
     \/ /\ focus = "spectrum" /\ SpectrumNext
        /\ UNCHANGED <<vars, updateVars, hotkeyVars, lifeVars>>
     \/ /\ focus = "hotkeys" /\ HotkeysNext
        /\ UNCHANGED <<vars, updateVars, spectrumVars, lifeVars>>
     \/ /\ focus = "life" /\ LifeNext
        /\ UNCHANGED <<vars, updateVars, spectrumVars, hotkeyVars>>

DesktopSpec ==
  DesktopInit /\ [][DesktopNext]_desktopVars /\ SpectrumFairness /\ LifeFairness
=============================================================================
