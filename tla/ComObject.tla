------------------------------ MODULE ComObject ------------------------------
(***************************************************************************)
(* apo/DllMain's class factory and the IUnknown of apo/DreamApo: how the   *)
(* object comes to be, stand-alone or aggregated by the engine's outer     *)
(* object, who counts whose references, and when it goes.                  *)
(*                                                                         *)
(* A pointer is named for what it points at: "inner", the object's own     *)
(* non-delegating IUnknown; "apo", any of its four APO interfaces, which   *)
(* delegate; "outer", the engine's object; "factory".                      *)
(***************************************************************************)
EXTENDS Integers, FiniteSets

CONSTANT MaxHeld  \* bound: pointers of a kind a client holds

VARIABLES
  exists,      \* the object has been constructed and not deleted
  count,       \* m_ref
  aggregated,  \* m_outer is there
  outerCount,  \* the outer object's own count, 0 when it is gone
  factoryRef,  \* ClassFactory::m_ref
  lockCount,   \* g_lockCount
  refs         \* pointers the clients hold; the outer object's own one is not among them

comVars == <<exists, count, aggregated, outerCount, factoryRef, lockCount, refs>>

Pointers == {"inner", "apo", "outer", "factory"}

ComInit ==
  /\ exists = FALSE /\ count = 0 /\ aggregated = FALSE
  /\ outerCount = 0 /\ factoryRef = 0 /\ lockCount = 0
  /\ refs = [p \in Pointers |-> 0]

----------------------------------------------------------------------------
(* Counting.  Every operation says by how much the two counts change.       *)

\* AddRef and Release of a pointer: the APO interfaces are the outer object's, if
\* there is one.
CountedBy(p) ==
  CASE p = "inner" -> "inner"
    [] p = "apo" -> IF aggregated THEN "outer" ELSE "inner"
    [] p = "outer" -> "outer"

\* Mutant of CountedFor: the reference handed out is always counted by this object.
CountedForOurs(p) == "inner"

\* What NonDelegatingQueryInterface counts: the reference it has just handed out,
\* through what was handed out.
CountedFor(p) == CountedBy(p)

\* The outer object gone, it releases the inner one it owns.
Settled(inner, outer, outerWas) == IF aggregated /\ outerWas > 0 /\ outer = 0 THEN inner - 1 ELSE inner

Counts(who, d) ==
  LET outer == outerCount + (IF who = "outer" THEN d ELSE 0)
      inner == Settled(count + (IF who = "inner" THEN d ELSE 0), outer, outerCount) IN
  /\ outerCount' = outer /\ count' = inner
  /\ exists' = (exists /\ inner > 0)

Gained(p) == refs[p] < MaxHeld /\ refs' = [refs EXCEPT ![p] = @ + 1]
Lost(p) == refs' = [refs EXCEPT ![p] = @ - 1]

----------------------------------------------------------------------------

\* DllGetClassObject: built with one reference, queried, and that one released; for an
\* interface it does not have, deleted with it.
GetClassObject ==
  /\ factoryRef = 0 /\ factoryRef' = 1 /\ Gained("factory")
  /\ UNCHANGED <<exists, count, aggregated, outerCount, lockCount>>

\* CreateInstance without an outer object, for one of the interfaces: built with one
\* reference, queried, and that one released.
CreateAlone(p) ==
  /\ refs["factory"] > 0 /\ ~exists /\ outerCount = 0
  /\ exists' = TRUE /\ aggregated' = FALSE /\ count' = 1
  /\ Gained(p)
  /\ UNCHANGED <<outerCount, factoryRef, lockCount>>

\* With one, which has a reference of its own and keeps the inner IUnknown: nothing
\* else may be asked for.
CreateAggregated ==
  /\ refs["factory"] > 0 /\ ~exists /\ outerCount = 0
  /\ exists' = TRUE /\ aggregated' = TRUE /\ count' = 1
  /\ outerCount' = 1 /\ Gained("outer")
  /\ UNCHANGED <<factoryRef, lockCount>>

\* QueryInterface on a pointer.  IUnknown is the inner object's non-delegating one or,
\* asked for through the outer object, that object itself, which alone may ask the
\* inner one for the rest.
Query(from, p) ==
  /\ refs[from] > 0 /\ Gained(p)
  /\ p = "inner" => CountedBy(from) = "inner" /\ ~aggregated
  /\ p = "outer" => CountedBy(from) = "outer"
  /\ IF p = "outer" THEN Counts("outer", 1) ELSE Counts(CountedFor(p), 1)
  /\ UNCHANGED <<aggregated, factoryRef, lockCount>>

AddReference(p) ==
  /\ refs[p] > 0 /\ Gained(p)
  /\ IF p = "factory" THEN factoryRef' = factoryRef + 1 /\ UNCHANGED <<exists, count, outerCount>>
     ELSE Counts(CountedBy(p), 1) /\ UNCHANGED factoryRef
  /\ UNCHANGED <<aggregated, lockCount>>

Release(p) ==
  /\ refs[p] > 0 /\ Lost(p)
  /\ IF p = "factory" THEN factoryRef' = factoryRef - 1 /\ UNCHANGED <<exists, count, outerCount>>
     ELSE Counts(CountedBy(p), -1) /\ UNCHANGED factoryRef
  /\ UNCHANGED <<aggregated, lockCount>>

LockServer(lock) ==
  /\ refs["factory"] > 0
  /\ IF lock THEN lockCount < 1 /\ lockCount' = lockCount + 1
     ELSE lockCount > 0 /\ lockCount' = lockCount - 1
  /\ UNCHANGED <<exists, count, aggregated, outerCount, factoryRef, refs>>

ComNext ==
  \/ GetClassObject
  \/ \E p \in {"inner", "apo"} : CreateAlone(p)
  \/ CreateAggregated
  \/ \E from, p \in Pointers \ {"factory"} : Query(from, p)
  \/ \E p \in Pointers : AddReference(p) \/ Release(p)
  \/ \E lock \in BOOLEAN : LockServer(lock)

----------------------------------------------------------------------------

\* Through every way of getting and giving back pointers: one that is held points at
\* something that is there, the APO interfaces of an aggregated object keep the outer
\* one alive, and what nobody holds is gone (apo/DreamApo.cpp:159-163, DreamApo.h:59-61).
PointersAreGood ==
  /\ refs["inner"] + refs["apo"] > 0 => exists
  /\ refs["outer"] > 0 \/ (aggregated /\ refs["apo"] > 0) => outerCount > 0
  /\ exists => refs["inner"] + refs["apo"] + refs["outer"] > 0
  /\ outerCount > 0 => exists
  /\ refs["factory"] = factoryRef
=============================================================================
