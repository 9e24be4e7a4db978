----------------------------- MODULE DesktopProofs -----------------------------
(***************************************************************************)
(* Proofs about the parts of the application that share only the process:  *)
(* the update that is run, the keys that fire, and the curves that belong  *)
(* to a device; for any releases, keys and devices.                        *)
(***************************************************************************)
EXTENDS MCDesktop, TLAPS

-----------------------------------------------------------------------------
(* platform/UpdateChecker.cpp *)

\* The fields are one release's, or empty; nothing is asked for while a reply is
\* awaited; and what was fetched had been offered.
Fetchable(r) == r.sha /\ Older(Version, r.version)

FieldsInv ==
  /\ asset # NoRelease => asset = latest
  /\ expected # NoRelease => expected = latest /\ expected.sha
  /\ available => /\ Older(Version, latest.version)
                  /\ asset # NoRelease => expected # NoRelease

FetchInv ==
  /\ asking # "nothing" => busy
  /\ asking = "installer" => available /\ expected # NoRelease
  /\ downloaded # NoRelease => Fetchable(downloaded)
  /\ launched # NoRelease => Fetchable(launched)

UpdatesInv == FieldsInv /\ FetchInv

LEMMA UpdatesStart ==
  ASSUME UpdatesInit
  PROVE  UpdatesInv
BY DEF UpdatesInit, UpdatesInv, FieldsInv, FetchInv

\* A check replaces all of a release's fields or none, and no check is made while
\* an installer is on its way: the hash it is held against is the one it was
\* offered with.
LEMMA UpdatesKeep ==
  ASSUME UpdatesInv, UpdatesNext \/ UNCHANGED updateVars
  PROVE  UpdatesInv'
<1>1. CASE \E r \in Releases : Publish(r)
  BY <1>1 DEF Publish, UpdatesInv, FieldsInv, FetchInv
<1>2. CASE CheckNow
  BY <1>2 DEF CheckNow, Ask, UpdatesInv, FieldsInv, FetchInv
<1>3. CASE CheckFails \/ DownloadFails
  BY <1>3 DEF CheckFails, DownloadFails, Answer, UpdatesInv, FieldsInv, FetchInv
<1>4. CASE CheckFinished
  <2>1. FieldsInv'
    BY <1>4 DEF CheckFinished, Answer, FieldsInv
  <2>2. FetchInv'
    BY <1>4 DEF CheckFinished, Answer, UpdatesInv, FetchInv
  <2> QED BY <2>1, <2>2 DEF UpdatesInv
<1>5. CASE Download
  BY <1>5 DEF Download, Ask, UpdatesInv, FieldsInv, FetchInv
<1>6. CASE DownloadFinished
  BY <1>6 DEF DownloadFinished, Answer, UpdatesInv, FieldsInv, FetchInv, Fetchable
<1>7. CASE InstallNow
  BY <1>7 DEF InstallNow, UpdatesInv, FieldsInv, FetchInv
<1>8. CASE UNCHANGED updateVars
  BY <1>8 DEF updateVars, UpdatesInv, FieldsInv, FetchInv
<1> QED BY <1>1, <1>2, <1>3, <1>4, <1>5, <1>6, <1>7, <1>8 DEF UpdatesNext

-----------------------------------------------------------------------------
(* platform/HotkeyManager.cpp *)

Holders == Actions \cup {Nobody, Another}
KeyOrNone == Combos \cup {NoKey}

HotkeysType ==
  /\ running \in BOOLEAN
  /\ bound \in [Actions -> KeyOrNone] /\ registered \in [Actions -> BOOLEAN]
  /\ holder \in [Combos -> Holders] /\ settings \in [Actions -> KeyOrNone]

\* A key is bound to an action exactly if Windows gives it to that action.
Agreed(b, r, h) == \A a \in Actions, k \in Combos : b[a] = k <=> r[a] /\ h[k] = a

\* Different actions have different keys.
Distinct(b) == \A a, c \in Actions : b[a] = b[c] /\ b[a] # NoKey => a = c

HotkeysInv ==
  /\ HotkeysType
  /\ Agreed(bound, registered, holder) /\ Distinct(settings)
  /\ ~running => \A k \in Combos : holder[k] \in {Nobody, Another}

\* A key has one holder.
LEMMA AgreedIsDistinct ==
  ASSUME NEW b \in [Actions -> KeyOrNone], NEW r, NEW h, Agreed(b, r, h)
  PROVE  Distinct(b)
BY DEF Agreed, Distinct, KeyOrNone

LEMMA DropIs ==
  ASSUME NEW h \in [Combos -> Holders], NEW a
  PROVE  /\ Drop(h, a) \in [Combos -> Holders]
         /\ \A k \in Combos : Drop(h, a)[k] = IF h[k] = a THEN Nobody ELSE h[k]
BY DEF Drop, Holders

\* bind(): whether it succeeds or not, and whatever the action had before.
LEMMA BindKeeps ==
  ASSUME HotkeysInv, NEW a \in Actions, NEW k \in Combos, SetHotkey(a, k)
  PROVE  HotkeysInv'
<1> DEFINE free == Drop(holder, a)
           ok == free[k] = Nobody
<1>1. /\ free \in [Combos -> Holders]
      /\ \A j \in Combos : free[j] = IF holder[j] = a THEN Nobody ELSE holder[j]
  BY DropIs DEF HotkeysInv, HotkeysType
<1>2. /\ bound' = [bound EXCEPT ![a] = IF ok THEN k ELSE NoKey]
      /\ registered' = [registered EXCEPT ![a] = ok]
      /\ holder' = IF ok THEN [free EXCEPT ![k] = a] ELSE free
      /\ settings' = IF ok THEN bound' ELSE settings
      /\ running /\ running' = running
  BY DEF SetHotkey, BindTo, Saved
<1> HIDE DEF free
<1>3. HotkeysType'
  BY <1>1, <1>2 DEF HotkeysInv, HotkeysType, KeyOrNone, Holders
<1>4. Agreed(bound', registered', holder')
  <2>1. ASSUME NEW c \in Actions, NEW j \in Combos
        PROVE  bound'[c] = j <=> registered'[c] /\ holder'[j] = c
    <3>0. /\ bound[c] = j <=> registered[c] /\ holder[j] = c
          /\ NoKey \notin Combos /\ Nobody \notin Actions
      BY CombosAssumption DEF HotkeysInv, Agreed
    <3>1. CASE c = a
      <4>1. bound'[c] = (IF ok THEN k ELSE NoKey) /\ registered'[c] = ok
        BY <1>2, <3>1 DEF HotkeysInv, HotkeysType
      <4>2. holder'[j] = IF ok /\ j = k THEN a ELSE free[j]
        BY <1>1, <1>2
      <4>3. free[j] # a
        BY <1>1, <3>0
      <4> QED BY <3>0, <3>1, <4>1, <4>2, <4>3
    <3>2. CASE c # a
      <4>1. bound'[c] = bound[c] /\ registered'[c] = registered[c]
        BY <1>2, <3>2 DEF HotkeysInv, HotkeysType
      <4>2. holder'[j] = IF ok /\ j = k THEN a ELSE free[j]
        BY <1>1, <1>2
      <4>3. ok => holder[k] # c
        BY <1>1, <3>0, <3>2
      <4>4. free[j] = c <=> holder[j] = c
        BY <1>1, <3>0, <3>2
      <4> QED BY <3>0, <3>2, <4>1, <4>2, <4>3, <4>4
    <3> QED BY <3>1, <3>2
  <2> QED BY <2>1 DEF Agreed
<1>5. Distinct(settings')
  BY <1>2, <1>3, <1>4, AgreedIsDistinct DEF HotkeysInv, HotkeysType
<1> QED BY <1>2, <1>3, <1>4, <1>5 DEF HotkeysInv

LEMMA ClearKeeps ==
  ASSUME HotkeysInv, NEW a \in Actions, ClearHotkey(a)
  PROVE  HotkeysInv'
<1>1. /\ Drop(holder, a) \in [Combos -> Holders]
      /\ \A j \in Combos : Drop(holder, a)[j] = IF holder[j] = a THEN Nobody ELSE holder[j]
  BY DropIs DEF HotkeysInv, HotkeysType
<1>2. /\ bound' = [bound EXCEPT ![a] = NoKey] /\ registered' = [registered EXCEPT ![a] = FALSE]
      /\ holder' = Drop(holder, a) /\ settings' = bound' /\ running /\ running' = running
  BY DEF ClearHotkey, Saved
<1>3. HotkeysType'
  BY <1>1, <1>2 DEF HotkeysInv, HotkeysType, KeyOrNone
<1>4. Agreed(bound', registered', holder')
  <2>1. ASSUME NEW c \in Actions, NEW j \in Combos
        PROVE  bound'[c] = j <=> registered'[c] /\ holder'[j] = c
    <3>0. /\ bound[c] = j <=> registered[c] /\ holder[j] = c
          /\ NoKey \notin Combos /\ Nobody \notin Actions
      BY CombosAssumption DEF HotkeysInv, Agreed
    <3>1. /\ bound'[c] = (IF c = a THEN NoKey ELSE bound[c])
          /\ registered'[c] = (IF c = a THEN FALSE ELSE registered[c])
          /\ holder'[j] = IF holder[j] = a THEN Nobody ELSE holder[j]
      BY <1>1, <1>2 DEF HotkeysInv, HotkeysType
    <3> QED BY <3>0, <3>1
  <2> QED BY <2>1 DEF Agreed
<1>5. Distinct(settings')
  BY <1>2, <1>3, <1>4, AgreedIsDistinct DEF HotkeysType
<1> QED BY <1>2, <1>3, <1>4, <1>5 DEF HotkeysInv

\* The program ends: saved or not, none of its keys is held any more.
LEMMA QuitKeeps ==
  ASSUME HotkeysInv, NEW saves \in BOOLEAN, QuitHotkeys(saves)
  PROVE  HotkeysInv'
<1>1. HotkeysType'
  BY DEF QuitHotkeys, HotkeysInv, HotkeysType, KeyOrNone, Holders
<1>2. Agreed(bound', registered', holder')
  BY CombosAssumption DEF QuitHotkeys, Agreed
<1>3. Distinct(bound)
  BY AgreedIsDistinct DEF HotkeysInv, HotkeysType
<1>4. Distinct(settings') /\ \A k \in Combos : holder'[k] \in {Nobody, Another}
  BY <1>3 DEF QuitHotkeys, HotkeysInv
<1> QED BY <1>1, <1>2, <1>4 DEF HotkeysInv

\* Every saved key that is free: each is one action's.
LEMMA LoadKeeps ==
  ASSUME HotkeysInv, LoadHotkeys
  PROVE  HotkeysInv'
<1> DEFINE mine == {a \in Actions : settings[a] \in Combos /\ holder[settings[a]] = Nobody}
           first(k) == CHOOSE a \in mine : settings[a] = k
<1>1. /\ bound' = [a \in Actions |-> IF a \in mine THEN settings[a] ELSE NoKey]
      /\ registered' = [a \in Actions |-> a \in mine]
      /\ holder' = [k \in Combos |-> IF \E a \in mine : settings[a] = k THEN first(k) ELSE holder[k]]
      /\ running' = TRUE /\ settings' = settings /\ ~running
  BY DEF LoadHotkeys
<1>2. ASSUME NEW a \in mine
      PROVE  first(settings[a]) = a
  <2>1. NoKey \notin Combos
    BY CombosAssumption
  <2>2. first(settings[a]) \in mine /\ settings[first(settings[a])] = settings[a]
    OBVIOUS
  <2>3. settings[a] # NoKey
    BY <2>1
  <2> HIDE DEF first
  <2> QED BY <2>2, <2>3 DEF HotkeysInv, Distinct
<1>3. \A a \in mine : a \in Actions /\ settings[a] \in Combos
  OBVIOUS
<1>4. ASSUME NEW k \in Combos, \E a \in mine : settings[a] = k
      PROVE  first(k) \in mine /\ settings[first(k)] = k
  BY <1>4
<1> HIDE DEF first, mine
<1>5. HotkeysType'
  <2>1. bound' \in [Actions -> KeyOrNone] /\ registered' \in [Actions -> BOOLEAN]
    BY <1>1, <1>3 DEF KeyOrNone
  <2>2. holder' \in [Combos -> Holders]
    BY <1>1, <1>3, <1>4 DEF HotkeysInv, HotkeysType, Holders
  <2> QED BY <1>1, <2>1, <2>2 DEF HotkeysInv, HotkeysType
<1>6. Agreed(bound', registered', holder')
  <2>1. ASSUME NEW c \in Actions, NEW j \in Combos
        PROVE  bound'[c] = j <=> registered'[c] /\ holder'[j] = c
    <3>0. NoKey \notin Combos /\ holder[j] \notin Actions
      BY <1>1, CombosAssumption DEF HotkeysInv
    <3>1. /\ bound'[c] = (IF c \in mine THEN settings[c] ELSE NoKey)
          /\ registered'[c] = (c \in mine)
          /\ holder'[j] = IF \E a \in mine : settings[a] = j THEN first(j) ELSE holder[j]
      BY <1>1
    <3>2. CASE c \in mine
      <4>1. settings[c] = j => holder'[j] = c
        BY <1>2, <3>1, <3>2
      <4>2. holder'[j] = c => settings[c] = j
        BY <1>4, <3>0, <3>1
      <4> QED BY <3>1, <3>2, <4>1, <4>2
    <3>3. CASE c \notin mine
      BY <3>0, <3>1, <3>3
    <3> QED BY <3>2, <3>3
  <2> QED BY <2>1 DEF Agreed
<1> QED BY <1>1, <1>5, <1>6 DEF HotkeysInv

LEMMA OtherKeeps ==
  ASSUME HotkeysInv, NEW k \in Combos, OtherProgram(k)
  PROVE  HotkeysInv'
<1>1. /\ holder[k] \in {Nobody, Another} /\ UNCHANGED <<running, bound, registered, settings>>
      /\ holder' = [holder EXCEPT ![k] = IF holder[k] = Nobody THEN Another ELSE Nobody]
  BY DEF OtherProgram
<1>2. HotkeysType'
  BY <1>1 DEF HotkeysInv, HotkeysType, Holders
<1>3. \A j \in Combos : j # k => holder'[j] = holder[j]
  BY <1>1 DEF HotkeysInv, HotkeysType
<1>4. holder'[k] \in {Nobody, Another}
  BY <1>1 DEF HotkeysInv, HotkeysType
<1>5. Agreed(bound', registered', holder')
  BY <1>1, <1>3, <1>4, CombosAssumption DEF HotkeysInv, Agreed
<1> QED BY <1>1, <1>2, <1>3, <1>4, <1>5 DEF HotkeysInv

LEMMA HotkeysStart ==
  ASSUME HotkeysInit
  PROVE  HotkeysInv
BY CombosAssumption
   DEF HotkeysInit, HotkeysInv, HotkeysType, Agreed, Distinct, KeyOrNone, Holders

LEMMA HotkeysKeep ==
  ASSUME HotkeysInv, HotkeysNext \/ UNCHANGED hotkeyVars
  PROVE  HotkeysInv'
<1>1. CASE UNCHANGED hotkeyVars
  BY <1>1 DEF hotkeyVars, HotkeysInv, HotkeysType, Agreed, Distinct
<1> QED BY <1>1, BindKeeps, ClearKeeps, QuitKeeps, LoadKeeps, OtherKeeps DEF HotkeysNext

-----------------------------------------------------------------------------
(* app/AppController.cpp: the curves of the devices.                       *)

Session == [device : Keys, perDevice : BOOLEAN, curve : Nat]
Kept == Nat \cup {NoCurve}

ProfilesType ==
  /\ up \in BOOLEAN /\ devices \in Lists /\ current \in Nat /\ current <= Len(devices)
  /\ perDevice \in BOOLEAN /\ key \in Keys /\ profiles \in [Keys -> Kept] /\ live \in Nat
  /\ session \in Session /\ stored \in [Keys -> Kept] /\ meant \in [Keys -> Kept] /\ edits \in Nat

\* With the mode on the box chooses the curve that is edited, and every device has
\* the curve it was given, or none.
OwnCurves ==
  up /\ perDevice => key = Selected /\ \A k \in Keys : CurveOf(k) = meant[k]

\* Nothing on disk is unknown to the running program.
Known == up => \A k \in Keys : stored[k] # NoCurve => profiles[k] # NoCurve

\* A program that has been left, with all devices selected, finds everything again.
Left ==
  ~up => /\ session.device = All
         /\ session.perDevice =>
              /\ meant[All] = session.curve
              /\ \A k \in Devices : stored[k] = meant[k]

ProfilesInv == ProfilesType /\ OwnCurves /\ Known /\ Left

LEMMA KeysAre ==
  /\ All \in Keys /\ Devices \subseteq Keys /\ \A k \in Keys : k # All => k \in Devices
  /\ \A k \in Devices : k # All
  /\ \A n \in Nat : n # NoCurve
BY AllAssumption, NoCurveAssumption DEF Keys

\* The position in the list of devices names one of them, or all.
LEMMA KeyForType ==
  ASSUME NEW l \in Lists, NEW i \in Nat
  PROVE  /\ Len(l) \in Nat
         /\ (IF i \in 1..Len(l) THEN l[i] ELSE All) \in Keys
         /\ (IF 0 \in 1..Len(l) THEN l[0] ELSE All) = All
         /\ ~Contains(l, All)
<1>1. PICK n \in 1..2 : l \in [1..n -> Devices]
  BY DEF Lists
<1>2. Len(l) = n /\ l \in Seq(Devices)
  BY <1>1
<1>3. \A j \in 1..n : l[j] \in Devices
  BY <1>1
<1> QED BY <1>1, <1>2, <1>3, KeysAre DEF Contains

LEMMA ProfilesStart ==
  ASSUME Init
  PROVE  ProfilesInv
<1>1. devices \in Lists /\ Len(devices) \in Nat
  BY KeyForType DEF Init
<1>2. NoProfiles \in [Keys -> Kept]
  BY DEF NoProfiles, Kept
<1>3. session \in Session /\ All \in Keys /\ session.device = All /\ session.perDevice = FALSE
  BY KeysAre DEF Init, Session
<1>4. ProfilesType
  <2>1. /\ up \in BOOLEAN /\ devices \in Lists /\ current = 0 /\ perDevice \in BOOLEAN
        /\ key = All /\ profiles = NoProfiles /\ live = 0 /\ stored = NoProfiles
        /\ meant = NoProfiles /\ edits = 0
    BY DEF Init
  <2> QED BY <1>1, <1>2, <1>3, <2>1 DEF ProfilesType
<1>5. up = FALSE
  BY DEF Init
<1> QED BY <1>3, <1>4, <1>5 DEF ProfilesInv, OwnCurves, Known, Left

\* saveSession, from the window or on the way out: what goes to the files is what
\* each device was given.
LEMMA SaveIs ==
  ASSUME ProfilesInv, up, SaveSession
  PROVE  /\ session' \in Session /\ profiles' \in [Keys -> Kept] /\ stored' \in [Keys -> Kept]
         /\ session'.device = Selected /\ session'.perDevice = perDevice /\ session'.curve = live
         /\ \A k \in Keys : k # key => profiles'[k] = profiles[k]
         /\ \A k \in Keys : stored'[k] # NoCurve => profiles'[k] # NoCurve
         /\ \A k \in Keys : stored'[k] # stored[k] => stored'[k] # NoCurve /\ stored'[k] = meant[k]
         /\ perDevice => \A k \in Keys : k # key => stored'[k] = meant[k]
<1>0. /\ devices \in Lists /\ current \in Nat /\ perDevice \in BOOLEAN /\ live \in Nat /\ key \in Keys
      /\ profiles \in [Keys -> Kept] /\ stored \in [Keys -> Kept]
      /\ \A k \in Keys : stored[k] # NoCurve => profiles[k] # NoCurve
  BY DEF ProfilesInv, ProfilesType, Known
<1>1. Selected \in Keys
  BY <1>0, KeyForType DEF Selected, KeyFor
<1>2. session' \in Session /\ session'.device = Selected /\ session'.perDevice = perDevice
      /\ session'.curve = live
  BY <1>0, <1>1 DEF SaveSession, Session
<1>3. CASE ~perDevice
  <2>1. profiles' = profiles /\ stored' = stored
    BY <1>3 DEF SaveSession
  <2> QED BY <1>0, <1>2, <1>3, <2>1
<1>4. CASE perDevice
  <2>1. /\ profiles' = [profiles EXCEPT ![key] = live]
        /\ stored' = [k \in Keys |-> IF profiles'[k] # NoCurve THEN profiles'[k] ELSE stored[k]]
    BY <1>4 DEF SaveSession, Stashed
  <2>2. \A k \in Keys : CurveOf(k) = meant[k]
    BY <1>4 DEF ProfilesInv, OwnCurves
  <2>3. \A k \in Keys : profiles'[k] = IF k = key THEN live ELSE profiles[k]
    BY <1>0, <2>1
  <2>4. \A k \in Keys : profiles'[k] = meant[k]
    BY <2>2, <2>3 DEF CurveOf
  <2>5. profiles' \in [Keys -> Kept]
    BY <1>0, <2>1 DEF Kept
  <2>6. \A k \in Keys : stored'[k] = IF profiles'[k] # NoCurve THEN profiles'[k] ELSE stored[k]
    BY <2>1
  <2>7. stored' \in [Keys -> Kept]
    BY <1>0, <2>1, <2>5
  <2>8. \A k \in Keys : k # key /\ profiles'[k] = NoCurve => stored[k] = NoCurve
    BY <1>0, <2>3
  <2>9. live # NoCurve
    BY <1>0, KeysAre
  <2> HIDE DEF Kept
  <2> QED BY <1>0, <1>2, <1>4, <2>3, <2>4, <2>5, <2>6, <2>7, <2>8, <2>9
<1> QED BY <1>0, <1>3, <1>4

\* The box moves to another device: its own curve, or the one that is there.
LEMMA SelectKeeps ==
  ASSUME ProfilesInv, NEW i \in 0..2, SetCurrentDevice(i)
  PROVE  ProfilesInv'
<1> DEFINE k0 == KeyFor(i)
           p == [profiles EXCEPT ![key] = live]
<1>0. /\ up /\ i \in Nat /\ i <= Len(devices) /\ current' = i
      /\ UNCHANGED <<up, devices, perDevice, session, stored, edits>>
  BY KeyForType DEF SetCurrentDevice, ProfilesInv, ProfilesType
<1>1. ProfilesType
  BY DEF ProfilesInv
<1>2. Selected' = k0 /\ k0 \in Keys
  BY <1>0, <1>1, KeyForType DEF Selected, KeyFor, ProfilesType
<1>3. /\ p \in [Keys -> Kept] /\ live # NoCurve
      /\ \A k \in Keys : p[k] = IF k = key THEN live ELSE profiles[k]
  BY <1>1, KeysAre DEF ProfilesType, Kept
<1>4. CASE ~perDevice
  <2>1. UNCHANGED <<key, profiles, live, meant>>
    BY <1>4 DEF SetCurrentDevice
  <2>2. ProfilesType'
    BY <1>0, <1>1, <2>1 DEF ProfilesType
  <2> QED BY <1>0, <1>4, <2>1, <2>2 DEF ProfilesInv, OwnCurves, Known, Left
<1>5. CASE perDevice
  <2>1. /\ key' = k0
        /\ profiles' = IF p[k0] = NoCurve THEN [p EXCEPT ![k0] = live] ELSE p
        /\ live' = IF p[k0] = NoCurve THEN live ELSE p[k0]
        /\ meant' = IF meant[k0] = NoCurve THEN [meant EXCEPT ![k0] = live'] ELSE meant
    BY <1>5 DEF SetCurrentDevice, Applied, Stashed
  <2> HIDE DEF p, k0
  <2>2. live' \in Nat
    BY <1>1, <1>2, <1>3, <2>1 DEF ProfilesType, Kept
  <2>3. profiles' \in [Keys -> Kept] /\ meant' \in [Keys -> Kept]
    BY <1>1, <1>2, <1>3, <2>1, <2>2 DEF ProfilesType, Kept
  <2>4. ProfilesType'
    BY <1>0, <1>1, <1>2, <2>1, <2>2, <2>3 DEF ProfilesType
  <2>5. \A k \in Keys : meant[k] = p[k]
    BY <1>0, <1>3, <1>5 DEF ProfilesInv, OwnCurves, CurveOf
  <2>6. meant'[k0] = live' /\ \A k \in Keys : k # k0 => meant'[k] = meant[k] /\ profiles'[k] = p[k]
    BY <1>1, <1>2, <1>3, <2>1, <2>5 DEF ProfilesType
  <2>7. \A k \in Keys : (IF k = k0 THEN live' ELSE profiles'[k]) = meant'[k]
    BY <2>5, <2>6
  <2>8. OwnCurves'
    BY <1>2, <2>1, <2>7 DEF OwnCurves, CurveOf
  <2>9. \A k \in Keys : profiles[k] # NoCurve => profiles'[k] # NoCurve
    BY <1>2, <1>3, <2>1, <2>6
  <2>10. Known'
    BY <1>0, <2>9 DEF ProfilesInv, Known
  <2> QED BY <1>0, <2>4, <2>8, <2>10 DEF ProfilesInv, Left
<1> QED BY <1>1, <1>4, <1>5 DEF ProfilesType

LEMMA EditKeeps ==
  ASSUME ProfilesInv, Edit
  PROVE  ProfilesInv'
<1>0. /\ up /\ live' = edits + 1 /\ edits' = edits + 1
      /\ meant' = IF perDevice THEN [meant EXCEPT ![Selected] = live'] ELSE meant
      /\ UNCHANGED <<up, devices, current, perDevice, key, profiles, session, stored>>
  BY DEF Edit
<1>1. ProfilesType
  BY DEF ProfilesInv
<1>2. Selected' = Selected /\ Selected \in Keys
  BY <1>0, <1>1, KeyForType DEF Selected, KeyFor, ProfilesType
<1>3. live' \in Nat /\ edits' \in Nat
  BY <1>0, <1>1 DEF ProfilesType
<1>4. meant' \in [Keys -> Kept]
  BY <1>0, <1>1, <1>2, <1>3 DEF ProfilesType, Kept
<1>5. ProfilesType'
  BY <1>0, <1>1, <1>3, <1>4 DEF ProfilesType
<1>6. OwnCurves'
  <2> SUFFICES ASSUME perDevice PROVE key' = Selected' /\ \A k \in Keys : CurveOf(k)' = meant'[k]
    BY <1>0 DEF OwnCurves
  <2>1. key = Selected /\ \A k \in Keys : (IF k = key THEN live ELSE profiles[k]) = meant[k]
    BY <1>0 DEF ProfilesInv, OwnCurves, CurveOf
  <2>2. \A k \in Keys : meant'[k] = IF k = key THEN live' ELSE meant[k]
    BY <1>0, <1>1, <2>1 DEF ProfilesType
  <2> QED BY <1>0, <1>2, <2>1, <2>2 DEF CurveOf
<1> QED BY <1>0, <1>5, <1>6 DEF ProfilesInv, Known, Left

\* The switch, with all devices selected.
LEMMA ModeKeeps ==
  ASSUME Careful, ProfilesInv, SetPerDevice
  PROVE  ProfilesInv'
<1>0. /\ up /\ current = 0 /\ key = All /\ perDevice' = ~perDevice
      /\ meant' = IF perDevice THEN NoProfiles
                  ELSE [k \in Keys |-> IF k = Selected THEN live ELSE profiles[k]]
      /\ UNCHANGED <<up, devices, current, key, profiles, live, session, stored, edits>>
  BY DEF SetPerDevice
<1>1. ProfilesType
  BY DEF ProfilesInv
<1>2. Selected' = All /\ Selected = All
  BY <1>0, <1>1, KeyForType DEF Selected, KeyFor, ProfilesType
<1>3. meant' \in [Keys -> Kept]
  BY <1>0, <1>1, <1>2 DEF ProfilesType, NoProfiles, Kept
<1>4. ProfilesType'
  BY <1>0, <1>1, <1>3 DEF ProfilesType
<1>5. OwnCurves'
  BY <1>0, <1>1, <1>2 DEF OwnCurves, CurveOf, ProfilesType
<1> QED BY <1>0, <1>4, <1>5 DEF ProfilesInv, Known, Left

LEMMA PlugKeeps ==
  ASSUME Careful, ProfilesInv, NEW list \in Lists, RefreshDevices(list)
  PROVE  ProfilesInv'
<1>0. /\ up /\ current = 0 /\ devices' = list /\ current' = 0
      /\ UNCHANGED <<up, perDevice, key, profiles, live, session, stored, meant, edits>>
  BY KeyForType DEF RefreshDevices, Enumerate
<1>1. ProfilesType
  BY DEF ProfilesInv
<1>2. Selected' = All /\ Selected = All /\ Len(list) \in Nat
  BY <1>0, <1>1, KeyForType DEF Selected, KeyFor, ProfilesType
<1>3. ProfilesType'
  BY <1>0, <1>1, <1>2 DEF ProfilesType
<1> QED BY <1>0, <1>2, <1>3 DEF ProfilesInv, OwnCurves, CurveOf, Known, Left

LEMMA WriteKeeps ==
  ASSUME ProfilesInv, WriteTimerFires
  PROVE  ProfilesInv'
<1>0. /\ up /\ SaveSession
      /\ UNCHANGED <<up, devices, current, perDevice, key, live, meant, edits>>
  BY DEF WriteTimerFires
<1>1. ProfilesType' /\ Selected' = Selected
  BY <1>0, SaveIs DEF ProfilesInv, ProfilesType, Selected, KeyFor
<1>2. OwnCurves'
  BY <1>0, <1>1, SaveIs DEF ProfilesInv, OwnCurves, CurveOf
<1> QED BY <1>0, <1>1, <1>2, SaveIs DEF ProfilesInv, Known, Left

LEMMA LeaveKeeps ==
  ASSUME Careful, ProfilesInv, Quit
  PROVE  ProfilesInv'
<1>0. /\ up /\ current = 0 /\ up' = FALSE /\ SaveSession
      /\ UNCHANGED <<devices, current, perDevice, key, live, meant, edits>>
  BY DEF Quit
<1>1. ProfilesType'
  BY <1>0, SaveIs DEF ProfilesInv, ProfilesType
<1>2. Selected = All
  BY <1>0, KeyForType DEF ProfilesInv, ProfilesType, Selected, KeyFor
<1>3. perDevice => /\ key = All /\ meant[All] = live
                   /\ \A k \in Devices : stored'[k] = meant[k]
  BY <1>0, <1>2, KeysAre, SaveIs DEF ProfilesInv, OwnCurves, CurveOf
<1> QED BY <1>0, <1>1, <1>2, <1>3, SaveIs DEF ProfilesInv, OwnCurves, Known, Left

\* The next start: the curves from the files, and the one of all devices from the
\* session.
LEMMA StartKeeps ==
  ASSUME Careful, ProfilesInv, NEW list \in Lists, Start(list)
  PROVE  ProfilesInv'
<1>0. /\ ~up /\ up' = TRUE /\ profiles' = stored /\ key' = All
      /\ perDevice' = session.perDevice /\ live' = session.curve /\ devices' = list
      /\ current' = IF Contains(list, session.device)
                    THEN CHOOSE i \in 1..Len(list) : list[i] = session.device ELSE 0
      /\ UNCHANGED <<session, stored, meant, edits>>
  BY DEF Start
<1>1. session.device = All /\ session \in Session /\ Len(list) \in Nat /\ current' = 0
  <2>1. session.device = All /\ session \in Session
    BY <1>0 DEF ProfilesInv, ProfilesType, Left
  <2>2. Len(list) \in Nat /\ ~Contains(list, All)
    BY KeyForType
  <2> QED BY <1>0, <2>1, <2>2
<1>2. ProfilesType'
  <2>1. session.perDevice \in BOOLEAN /\ session.curve \in Nat /\ All \in Keys
    BY <1>1, KeysAre DEF Session
  <2>2. stored \in [Keys -> Kept] /\ meant \in [Keys -> Kept] /\ edits \in Nat
    BY DEF ProfilesInv, ProfilesType
  <2>3. /\ up' = TRUE /\ devices' = list /\ current' = 0 /\ perDevice' \in BOOLEAN
        /\ key' = All /\ profiles' = stored /\ live' \in Nat /\ session' = session
        /\ stored' = stored /\ meant' = meant /\ edits' = edits
    BY <1>0, <1>1, <2>1
  <2>4. 0 <= Len(list)
    BY <1>1
  <2> QED BY <1>1, <2>1, <2>2, <2>3, <2>4 DEF ProfilesType
<1>3. Selected' = All
  BY <1>0, <1>1, KeyForType DEF Selected, KeyFor
<1>4. OwnCurves'
  BY <1>0, <1>3, KeysAre DEF ProfilesInv, Left, OwnCurves, CurveOf
<1> QED BY <1>0, <1>2, <1>4 DEF ProfilesInv, Known, Left

LEMMA ProfilesKeep ==
  ASSUME Careful, ProfilesInv, [Next]_vars
  PROVE  ProfilesInv'
<1>1. CASE UNCHANGED vars
  BY <1>1 DEF vars, ProfilesInv, ProfilesType, OwnCurves, Known, Left, Selected, KeyFor, CurveOf
<1> QED BY <1>1, SelectKeeps, EditKeeps, ModeKeeps, PlugKeeps, WriteKeeps, LeaveKeeps, StartKeeps
        DEF Next

\* What changes on disk is what the device was given.
LEMMA DiskIsMeant ==
  ASSUME ProfilesInv, Next
  PROVE  StoredIsMeant
<1>1. CASE WriteTimerFires \/ Quit
  <2>1. up /\ SaveSession /\ meant' = meant
    BY <1>1 DEF WriteTimerFires, Quit
  <2> QED BY <2>1, SaveIs DEF StoredIsMeant
<1>2. CASE stored' = stored
  BY <1>2 DEF StoredIsMeant
<1> QED BY <1>1, <1>2 DEF Next, SetCurrentDevice, Edit, SetPerDevice, RefreshDevices, Start

-----------------------------------------------------------------------------
(* One process, whichever part of it is followed.                          *)

\* UpdateChecker.cpp:165, 206: an update that can be fetched is one release's,
\* newer than this program, and nothing is run but an installer whose hash such a
\* release had published: whatever is published between a check, the download
\* and the installation.
THEOREM NothingElseIsInstalled == DesktopSpec => []OneRelease
<1>1. DesktopInit => UpdatesInv
  BY UpdatesStart DEF DesktopInit
<1>2. UpdatesInv /\ [DesktopNext]_desktopVars => UpdatesInv'
  BY UpdatesKeep DEF DesktopNext, desktopVars
<1>3. UpdatesInv => OneRelease
  BY DEF UpdatesInv, FieldsInv, FetchInv, Fetchable, OneRelease
<1> QED BY <1>1, <1>2, <1>3, PTL DEF DesktopSpec

\* HotkeyManager.cpp:57, 84: a key shown beside an action fires it and nothing
\* else, and no two actions are saved under one key, whatever other programs hold
\* and over restarts.
THEOREM ShownAlwaysFires == DesktopSpec => []ShownIsWhatFires
<1>1. DesktopInit => HotkeysInv
  BY HotkeysStart DEF DesktopInit
<1>2. HotkeysInv /\ [DesktopNext]_desktopVars => HotkeysInv'
  BY HotkeysKeep DEF DesktopNext, desktopVars
<1>3. HotkeysInv => ShownIsWhatFires
  BY DEF HotkeysInv, Agreed, Distinct, ShownIsWhatFires, Fires
<1> QED BY <1>1, <1>2, <1>3, PTL DEF DesktopSpec

\* README.md:359, 372: for a user who turns the mode on and off, and leaves, with
\* all devices selected, every endpoint keeps its own curve: on the page, among
\* the profiles and on disk, over any selections, edits, saves and restarts.
THEOREM CurvesStayWithTheirDevice ==
  ASSUME Careful
  PROVE  DesktopSpec => CurvesKeepTheirDevice
<1>1. DesktopInit => ProfilesInv
  BY ProfilesStart DEF DesktopInit
<1>2. [DesktopNext]_desktopVars => [Next]_vars
  BY DEF DesktopNext, desktopVars
<1>3. ProfilesInv /\ [DesktopNext]_desktopVars => ProfilesInv'
  BY <1>2, ProfilesKeep
<1>4. ProfilesInv => EachKeepsItsOwn
  BY DEF ProfilesInv, OwnCurves, EachKeepsItsOwn
<1>5. ProfilesInv /\ ProfilesInv' /\ [DesktopNext]_desktopVars =>
        [EachKeepsItsOwn' /\ StoredIsMeant]_vars
  <2>1. ProfilesInv' => EachKeepsItsOwn'
    BY <1>4, PTL
  <2> QED BY <1>2, <2>1, DiskIsMeant
<1> QED BY <1>1, <1>3, <1>5, PTL DEF DesktopSpec, CurvesKeepTheirDevice

\* README.md:372: ... and the curve that is edited is the one of the device that is
\* selected.
THEOREM TheSelectedIsEdited ==
  ASSUME Careful
  PROVE  DesktopSpec => []EditsTheSelected
<1>1. DesktopInit => ProfilesInv
  BY ProfilesStart DEF DesktopInit
<1>2. [DesktopNext]_desktopVars => [Next]_vars
  BY DEF DesktopNext, desktopVars
<1>3. ProfilesInv /\ [DesktopNext]_desktopVars => ProfilesInv'
  BY <1>2, ProfilesKeep
<1>4. ProfilesInv => EditsTheSelected
  BY DEF ProfilesInv, OwnCurves, EditsTheSelected
<1> QED BY <1>1, <1>3, <1>4, PTL DEF DesktopSpec
=============================================================================
