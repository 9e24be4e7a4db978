----------------------------- MODULE ApoInstaller -----------------------------
(***************************************************************************)
(* platform/ApoInstaller.cpp: putting the processing object into one       *)
(* endpoint's effect chain and taking it out again, one registry value at  *)
(* a time, while other products and the driver write the same values and   *)
(* any write may fail or the program die.                                  *)
(***************************************************************************)
EXTENDS Naturals, Sequences, SequencesExt, Lists

CONSTANTS
  Ours,        \* kClsid
  Free,        \* an empty slot
  Others,      \* CLSIDs of other products
  Absent,      \* no value under the backup key
  MaxWrites    \* what everybody else writes

ASSUME SlotAssumption ==
  Ours \notin Others /\ Free \notin Others /\ Ours # Free /\ Absent \notin Others \cup {Ours, Free}

VARIABLES
  slot,        \* the legacy post-mix value
  composite,   \* one of the composite lists is present
  efx,         \* the composite endpoint-effect list
  sysFxOff,    \* "disable all enhancements"
  backup,      \* ApoBackup: the displaced CLSID, or Absent
  pc,          \* where attachApo or detachApo is
  current,     \* what its apoSlotOf returned
  theirs,      \* the slot as the others would have it
  excused,     \* one of them wrote under our hands, or after we took note of them
  writes

endpoint == <<slot, composite, efx, sysFxOff>>
ghosts == <<theirs, excused>>
endpointVars == <<endpoint, backup, pc, current, ghosts, writes>>

Slots == Others \cup {Ours, Free}

\* apoSlotOf: with a composite list present the legacy value is not looked at.
SlotOf ==
  [composite |-> composite, sysFxOff |-> sysFxOff,
   ours |-> IF composite THEN Contains(efx, Ours) ELSE slot = Ours,
   clsid |-> IF composite THEN Free ELSE slot]

NoSlot == [composite |-> FALSE, sysFxOff |-> FALSE, ours |-> FALSE, clsid |-> Free]

InitEndpoint ==
  /\ slot \in Others \cup {Free} /\ composite = FALSE /\ efx = <<>>
  /\ sysFxOff = FALSE
  /\ backup = Absent /\ pc = "idle" /\ current = NoSlot
  /\ theirs = slot /\ excused = FALSE
  /\ writes = 0

----------------------------------------------------------------------------
(* attachApo *)

AfterSysFx(c) == IF c.ours THEN "idle" ELSE IF c.composite THEN "join" ELSE "backup"

\* What is there is read once, at the beginning.
Attach ==
  /\ pc = "idle"
  /\ pc' = IF sysFxOff THEN "enable" ELSE AfterSysFx(SlotOf)
  /\ current' = IF pc' = "idle" THEN NoSlot ELSE SlotOf
  /\ UNCHANGED <<endpoint, backup, ghosts, writes>>

\* A step that writes a value: ok, or the handler returns.
Step(from, to, ok) ==
  /\ pc = from /\ pc' = IF ok THEN to ELSE "idle"
  /\ current' = IF pc' = "idle" THEN NoSlot ELSE current

AttachEnable(ok) ==
  /\ Step("enable", AfterSysFx(current), ok)
  /\ sysFxOff' = IF ok THEN FALSE ELSE sysFxOff
  /\ UNCHANGED <<slot, composite, efx, backup, ghosts, writes>>

\* Joined, not taken over.
AttachJoin(ok) ==
  /\ Step("join", "idle", ok)
  /\ efx' = IF ok THEN Append(efx, Ours) ELSE efx
  /\ UNCHANGED <<slot, composite, sysFxOff, backup, ghosts, writes>>

\* Mutant of AttachBackup: there is one already, and it is kept.
AttachBackupOnce ==
  /\ Step("backup", "slot", TRUE)
  /\ backup' = IF backup = Absent THEN current.clsid ELSE backup
  /\ theirs' = slot /\ excused' = (slot # current.clsid)
  /\ UNCHANGED <<endpoint, writes>>

\* What is about to be displaced is remembered first, a free slot too.
AttachBackup ==
  /\ Step("backup", "slot", TRUE)
  /\ backup' = current.clsid
  /\ theirs' = slot /\ excused' = (slot # current.clsid)
  /\ UNCHANGED <<endpoint, writes>>

AttachSlot(ok) ==
  /\ Step("slot", "idle", ok)
  /\ slot' = IF ok THEN Ours ELSE slot
  /\ UNCHANGED <<composite, efx, sysFxOff, backup, ghosts, writes>>

----------------------------------------------------------------------------
(* detachApo *)

\* Mutant of Detach: the slot is restored whoever holds it.
DetachAnyone ==
  /\ pc = "idle"
  /\ pc' = IF composite THEN "leave" ELSE "restore"
  /\ current' = IF pc' = "idle" THEN NoSlot ELSE SlotOf
  /\ UNCHANGED <<endpoint, backup, ghosts, writes>>

\* Another product's entry is left alone.
Detach ==
  /\ pc = "idle"
  /\ pc' = IF composite THEN "leave" ELSE IF slot \in Others THEN "idle" ELSE "restore"
  /\ current' = IF pc' = "idle" THEN NoSlot ELSE SlotOf
  /\ UNCHANGED <<endpoint, backup, ghosts, writes>>

\* Our entry out of the list and nothing else; a legacy entry of ours from
\* before the driver's lists is inert, and restored all the same.
DetachLeave(ok) ==
  /\ pc = "leave"
  /\ ok \/ Contains(efx, Ours)
  /\ efx' = IF ok THEN Without(efx, Ours) ELSE efx
  /\ pc' = IF ok /\ slot = Ours THEN "restore" ELSE "idle"
  /\ current' = IF pc' = "idle" THEN NoSlot ELSE current
  /\ backup' = IF ok /\ slot # Ours THEN Absent ELSE backup
  /\ UNCHANGED <<slot, composite, sysFxOff, ghosts, writes>>

\* Mutant of DetachRestore: the slot is simply emptied.
DetachEmpty(ok) ==
  /\ Step("restore", "forget", ok)
  /\ slot' = IF ok THEN Free ELSE slot
  /\ UNCHANGED <<composite, efx, sysFxOff, backup, ghosts, writes>>

\* Back to what the backup names, the value deleted if that is nothing.
DetachRestore(ok) ==
  /\ Step("restore", "forget", ok)
  /\ slot' = IF ~ok THEN slot ELSE IF backup = Absent THEN Free ELSE backup
  /\ UNCHANGED <<composite, efx, sysFxOff, backup, ghosts, writes>>

DetachForget ==
  /\ Step("forget", "idle", TRUE)
  /\ backup' = Absent
  /\ UNCHANGED <<endpoint, ghosts, writes>>

----------------------------------------------------------------------------
(* Everybody else. *)

\* Another product takes the slot, or gives it up.
OtherWrites(v) ==
  /\ writes < MaxWrites /\ writes' = writes + 1
  /\ v # slot /\ slot' = v /\ theirs' = v
  /\ excused' = (excused \/ pc # "idle" \/ slot = Ours \/ backup # Absent)
  /\ UNCHANGED <<composite, efx, sysFxOff, backup, pc, current>>

\* The driver brings its composite lists, or takes them away.
DriverWrites ==
  /\ writes < MaxWrites /\ writes' = writes + 1
  /\ composite' = ~composite
  /\ efx' \in {<<>>} \cup {<<o>> : o \in Others}
  /\ UNCHANGED <<slot, sysFxOff, backup, pc, current, ghosts>>

\* Somebody ticks the box that disables all enhancements.
DisableSysFx ==
  /\ writes < MaxWrites /\ writes' = writes + 1
  /\ ~sysFxOff /\ sysFxOff' = TRUE
  /\ UNCHANGED <<slot, composite, efx, backup, pc, current, ghosts>>

Writing(ok) ==
  \/ AttachEnable(ok) \/ AttachJoin(ok) \/ AttachSlot(ok)
  \/ DetachLeave(ok) \/ DetachRestore(ok)

----------------------------------------------------------------------------
(* What the engine will load, and the properties. *)

\* endpointChain's oursPresent, for the values we write.
OursPresent == IF composite THEN Contains(efx, Ours) ELSE slot = Ours

\* ApoInstaller.h:67: whatever step of a handler failed or was the last, what
\* we displaced is in the backup for as long as we hold the slot, unless the
\* others wrote after it was noted.
DisplacedIsKept == slot = Ours /\ ~excused => backup = theirs

\* ... and a slot that is not ours is as they left it: attaching and detaching,
\* in any order and cut short anywhere, is undone completely.
RoundTrip == ~excused => slot \in {Ours, theirs}

\* Both: what a product had in the slot before us is there or in the backup,
\* after any sequence of attaching and detaching, cut short anywhere.
NothingIsLost == DisplacedIsKept /\ RoundTrip

\* ApoInstaller.cpp:515 and 482: another product's entry is replaced by nothing
\* but ours, and its place in the driver's list is never touched.
OthersAreLeftAlone ==
  [][pc # "idle" /\ writes' = writes /\ ~excused =>
       /\ slot \in Others => slot' \in {slot, Ours}
       /\ Without(efx', Ours) = Without(efx, Ours)]_endpoint

=============================================================================
