------------------------------- MODULE Hotkeys -------------------------------
(***************************************************************************)
(* platform/HotkeyManager.cpp and the settings it is saved in: global keys *)
(* that other programs may hold, bound, rebound, cleared and bound again   *)
(* at the next start.                                                      *)
(***************************************************************************)
EXTENDS Naturals

CONSTANTS
  Actions,       \* the identifiers of actions()
  Combos,          \* modifiers and virtual key that translate() lets through
  NoKey, Nobody, Another,
  MaxBinds       \* operations of the user and starts

ASSUME CombosAssumption == NoKey \notin Combos /\ Nobody \notin Actions /\ Another \notin Actions

VARIABLES
  running,
  bound,         \* m_bindings: the key of each action
  registered,    \* Binding::registered
  holder,        \* for each key, the action or the program Windows gives it to
  settings,      \* the group "hotkeys"
  binds

hotkeyVars == <<running, bound, registered, holder, settings, binds>>

HotkeysInit ==
  /\ running = TRUE
  /\ bound = [a \in Actions |-> NoKey]
  /\ registered = [a \in Actions |-> FALSE]
  /\ holder = [k \in Combos |-> Nobody]
  /\ settings = [a \in Actions |-> NoKey]
  /\ binds = 0

\* A program holds no more than it has registered.
Drop(h, a) == [k \in Combos |-> IF h[k] = a THEN Nobody ELSE h[k]]

\* What bind() leaves: the old key is given back before the new one is asked for.
BindTo(b, r, h, a, k) ==
  LET free == Drop(h, a)
      ok == free[k] = Nobody
  IN [ok |-> ok,
      bound |-> [b EXCEPT ![a] = IF ok THEN k ELSE NoKey],
      registered |-> [r EXCEPT ![a] = ok],
      holder |-> IF ok THEN [free EXCEPT ![k] = a] ELSE free]

\* save() writes what is bound, and removes what is not.
Saved == settings' = bound'

Used == binds < MaxBinds /\ binds' = binds + 1

\* Mutant of SetHotkey: the new key is asked for with the old one still held,
\* and the failure leaves the binding named.
SetHotkeyHolding(a, k) ==
  /\ running /\ Used
  /\ LET ok == holder[k] = Nobody IN
     /\ bound' = [bound EXCEPT ![a] = k]
     /\ registered' = [registered EXCEPT ![a] = ok]
     /\ holder' = IF ok THEN [holder EXCEPT ![k] = a] ELSE holder
     /\ IF ok THEN Saved ELSE UNCHANGED settings
  /\ UNCHANGED running

\* A failure leaves the action without a key, and the settings as they were.
SetHotkey(a, k) ==
  /\ running /\ Used
  /\ LET b == BindTo(bound, registered, holder, a, k) IN
     /\ bound' = b.bound /\ registered' = b.registered /\ holder' = b.holder
     /\ IF b.ok THEN Saved ELSE UNCHANGED settings
  /\ UNCHANGED running

ClearHotkey(a) ==
  /\ running /\ Used /\ bound[a] # NoKey
  /\ bound' = [bound EXCEPT ![a] = NoKey]
  /\ registered' = [registered EXCEPT ![a] = FALSE]
  /\ holder' = Drop(holder, a)
  /\ Saved
  /\ UNCHANGED running

\* saveSession, then the destructor's clearAll; or the program is killed, and
\* Windows takes its keys back.
QuitHotkeys(saves) ==
  /\ running
  /\ running' = FALSE
  /\ settings' = IF saves THEN bound ELSE settings
  /\ bound' = [a \in Actions |-> NoKey]
  /\ registered' = [a \in Actions |-> FALSE]
  /\ holder' = [k \in Combos |-> IF holder[k] = Another THEN Another ELSE Nobody]
  /\ UNCHANGED binds

\* load(): every key that nobody has taken meanwhile; the actions' order
\* matters only to two with one key, which no settings have.
LoadHotkeys ==
  /\ ~running /\ Used
  /\ running' = TRUE
  /\ LET mine == {a \in Actions : settings[a] \in Combos /\ holder[settings[a]] = Nobody} IN
     /\ bound' = [a \in Actions |-> IF a \in mine THEN settings[a] ELSE NoKey]
     /\ registered' = [a \in Actions |-> a \in mine]
     /\ holder' = [k \in Combos |->
                     IF \E a \in mine : settings[a] = k
                     THEN CHOOSE a \in mine : settings[a] = k ELSE holder[k]]
  /\ UNCHANGED settings

\* Another program takes a free key, or gives one back.
OtherProgram(k) ==
  /\ holder[k] \in {Nobody, Another}
  /\ holder' = [holder EXCEPT ![k] = IF @ = Nobody THEN Another ELSE Nobody]
  /\ UNCHANGED <<running, bound, registered, settings, binds>>

HotkeysNext ==
  \/ \E a \in Actions : (\E k \in Combos : SetHotkey(a, k)) \/ ClearHotkey(a)
  \/ \E saves \in BOOLEAN : QuitHotkeys(saves)
  \/ LoadHotkeys
  \/ \E k \in Combos : OtherProgram(k)

----------------------------------------------------------------------------

\* nativeEventFilter: the action a key fires.
Fires(k) == {a \in Actions : registered[a] /\ holder[k] = a}

\* HotkeyManager.cpp:57, 84: what the page shows is what fires: a key shown
\* beside an action fires it and nothing else, a key held by us is shown, and no
\* two actions are saved under one key.
ShownIsWhatFires ==
  /\ \A a \in Actions, k \in Combos : bound[a] = k <=> a \in Fires(k)
  /\ \A a, b \in Actions : settings[a] = settings[b] /\ settings[a] # NoKey => a = b
=============================================================================
