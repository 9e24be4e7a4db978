------------------------- MODULE ParamChannelProofs -------------------------
(***************************************************************************)
(* Theorems about ParamChannel, for every finite set of instances, every   *)
(* size of the owner table, every set of rates and impulse responses, and  *)
(* every number of writes.                                                 *)
(*                                                                         *)
(* That two threads are never inside reloadIfChanged is not a property of  *)
(* that function: it follows from the reference count being the number of  *)
(* streams that hold the channel, which decides when the watcher is joined *)
(* and when a first owner may load in its place, and from an abandoned     *)
(* watcher making the channel dead.  ChannelInv says all of that.          *)
(***************************************************************************)
EXTENDS ParamChannel, FiniteSetTheorems, WellFoundedInduction, TLAPS

\* The invariant in the parts the lemmas are about.
HolderInv == TableMatchesStreams /\ NoOrphanWatcher /\ LockInv

-----------------------------------------------------------------------------
(* Counting the streams that hold the channel                              *)

LEMMA RegisteredFinite ==
  /\ Registered \subseteq Instances
  /\ IsFiniteSet(Registered)
  /\ Cardinality(Registered) \in Nat
<1>1. Registered \subseteq Instances
  BY DEF Registered
<1> QED
  BY <1>1, InstancesAssumption, FS_Subset, FS_CardinalityType

LEMMA OneMoreRegistered ==
  ASSUME NEW i \in Instances, i \notin Registered,
         Registered' = Registered \union {i}
  PROVE  Cardinality(Registered') = Cardinality(Registered) + 1
BY RegisteredFinite, FS_AddElement

LEMMA OneLessRegistered ==
  ASSUME NEW i \in Registered, Registered' = Registered \ {i}
  PROVE  /\ Cardinality(Registered') = Cardinality(Registered) - 1
         /\ Cardinality(Registered) # 0
<1>1. Cardinality(Registered') = Cardinality(Registered) - 1
  BY RegisteredFinite, FS_RemoveElement
<1>2. Cardinality(Registered) # 0
  BY RegisteredFinite, FS_EmptySet
<1> QED
  BY <1>1, <1>2

-----------------------------------------------------------------------------
(* The initial states                                                      *)

LEMMA InitChannelInv == Init => ChannelInv
<1> SUFFICES ASSUME Init PROVE ChannelInv
  OBVIOUS
<1>1. TypeOK
  <2>1. NoFile \in Files /\ 0 \in 0..MaxWrites /\ 1 \in 1..(kMaxOwners + 1)
    BY WritesAssumption, OwnersAssumption DEF NoFile, Files
  <2>2. rate \in [Instances -> Rates]
    BY RatesAssumption DEF Init
  <2> QED
    BY <2>1, <2>2 DEF Init, TypeOK, Threads
<1>2. Registered = {}
  BY DEF Init, Registered
<1>3. TableMatchesStreams
  BY <1>2, FS_EmptySet DEF Init, TableMatchesStreams
<1>4. NoOrphanWatcher
  BY DEF Init, NoOrphanWatcher, Threads
<1>5. LockInv
  BY NoneAssumption DEF Init, LockInv, Threads
<1>6. PassInv
  BY DEF Init, PassInv
<1> QED
  BY <1>1, <1>3, <1>4, <1>5, <1>6 DEF ChannelInv

-----------------------------------------------------------------------------
(* A step of a pass, by either thread, and the steps that touch no         *)
(* holder of the channel.                                                  *)

\* Steps that leave the streams and the channel alone keep what is said of
\* them, as long as no thread enters or leaves reloadIfChanged.
LEMMA HoldersUntouched ==
  ASSUME HolderInv,
         UNCHANGED <<st, channelHeld, owners, refCount, lock, thread, dead>>,
         rpc["control"] = "none" <=> rpc'["control"] = "none",
         rpc["watcher"] = "none" => rpc'["watcher"] = "none"
  PROVE  HolderInv'
<1> USE DEF HolderInv
<1>1. Registered' = Registered
  BY DEF Registered
<1>2. TableMatchesStreams'
  BY <1>1 DEF TableMatchesStreams
<1>3. NoOrphanWatcher'
  BY DEF NoOrphanWatcher
<1>4. LockInv'
  BY DEF LockInv
<1> QED
  BY <1>2, <1>3, <1>4

\* A program counter that moves within a pass.
LEMMA GotoWithin ==
  ASSUME TypeOK, NEW t \in Threads, NEW place, Goto(t, place),
         rpc[t] # "none", place # "none"
  PROVE  /\ rpc["control"] = "none" <=> rpc'["control"] = "none"
         /\ rpc["watcher"] = "none" => rpc'["watcher"] = "none"
BY DEF TypeOK, Goto, Threads

LEMMA ReloadKeepsHolders ==
  ASSUME TypeOK, HolderInv, NEW t \in Threads, Reload(t)
  PROVE  HolderInv'
<1>1. PICK place :
        /\ Goto(t, place) /\ place # "none" /\ rpc[t] # "none"
        /\ UNCHANGED <<st, channelHeld, owners, refCount, lock, thread, dead>>
  BY DEF Reload, Stat, Open, Publish, Grab, Use, Offer, Record, NextEntry,
         AfterReload, channelVars, instanceVars
<1> QED
  BY <1>1, GotoWithin, HoldersUntouched

LEMMA LoopKeepsHolders ==
  ASSUME TypeOK, HolderInv, StatusGrab \/ StatusFill \/ StatusDone \/ Poll \/ Exit
  PROVE  HolderInv'
<1>1. PICK place :
        /\ Goto("watcher", place)
        /\ rpc["watcher"] # "none"
        /\ UNCHANGED <<st, channelHeld, owners, refCount, lock, thread, dead>>
  BY DEF StatusGrab, StatusFill, StatusDone, Poll, Exit, NextEntry,
         channelVars, instanceVars
<1>2. /\ rpc'["control"] = rpc["control"]
      /\ rpc["watcher"] # "none"
  BY <1>1 DEF Goto, TypeOK, Threads
<1> QED
  BY <1>1, <1>2, HoldersUntouched

\* Where an instance stands changes, but not whether it holds the channel, and
\* it is not inside acquire() or release(), before or after.
LEMMA StepsOutside ==
  ASSUME TypeOK, HolderInv, NEW i \in Instances, NEW to,
         st' = [st EXCEPT ![i] = to],
         st[i] \notin {"loading", "joining"}, to \notin {"loading", "joining"},
         UNCHANGED <<owners, refCount, lock, thread, dead, rpc>>,
         Registered' = Registered,
         \A j \in Instances :
           st'[j] \in {"idle", "acquiring", "loading", "acquired"}
             => ~channelHeld'[j]
  PROVE  HolderInv'
<1> USE DEF HolderInv
<1>1. TableMatchesStreams'
  BY DEF TableMatchesStreams
<1>2. NoOrphanWatcher'
  BY DEF NoOrphanWatcher, TypeOK
<1>3. LockInv'
  BY DEF LockInv, TypeOK
<1> QED
  BY <1>1, <1>2, <1>3

LEMMA OutsideKeepsHolders ==
  ASSUME TypeOK, HolderInv, NEW i \in Instances,
         \/ \E r \in Rates : Lock(i, r)
         \/ AcquireRefused(i) \/ BeginStream(i) \/ Unlock(i) \/ Dismantle(i)
  PROVE  HolderInv'
<1>1. \A j \in Instances :
        /\ st[j] \in {"loading", "joining"} <=> lock = j
        /\ st[j] \in {"idle", "acquiring", "loading", "acquired"}
             => ~channelHeld[j]
  BY DEF HolderInv, LockInv
<1>2. UNCHANGED <<owners, refCount, lock, thread, dead, rpc>>
  BY DEF Lock, AcquireRefused, BeginStream, Unlock, Dismantle, channelVars, passVars
<1>3. CASE \E r \in Rates : Lock(i, r)
  <2>1. /\ st' = [st EXCEPT ![i] = "acquiring"]
        /\ st[i] \notin {"loading", "joining"}
    BY <1>3 DEF Lock
  <2>2. Registered' = Registered
    BY <1>1, <1>3 DEF Lock, Registered, TypeOK
  <2>3. \A j \in Instances :
          st'[j] \in {"idle", "acquiring", "loading", "acquired"}
            => ~channelHeld'[j]
    BY <1>1, <1>3 DEF Lock, TypeOK
  <2> QED
    BY <1>2, <2>1, <2>2, <2>3, StepsOutside
<1>4. CASE AcquireRefused(i)
  <2>1. /\ st' = [st EXCEPT ![i] = "streaming"]
        /\ st[i] \notin {"loading", "joining"}
    BY <1>4 DEF AcquireRefused
  <2>2. Registered' = Registered
    BY <1>1, <1>4 DEF AcquireRefused, Registered, TypeOK
  <2>3. \A j \in Instances :
          st'[j] \in {"idle", "acquiring", "loading", "acquired"}
            => ~channelHeld'[j]
    BY <1>1, <1>4 DEF AcquireRefused, TypeOK
  <2> QED
    BY <1>2, <2>1, <2>2, <2>3, StepsOutside
<1>5. CASE BeginStream(i)
  <2>1. /\ st' = [st EXCEPT ![i] = "streaming"]
        /\ st[i] \notin {"loading", "joining"}
    BY <1>5 DEF BeginStream
  <2>2. Registered' = Registered
    BY <1>1, <1>5 DEF BeginStream, Registered, TypeOK
  <2>3. \A j \in Instances :
          st'[j] \in {"idle", "acquiring", "loading", "acquired"}
            => ~channelHeld'[j]
    BY <1>1, <1>5 DEF BeginStream, TypeOK
  <2> QED
    BY <1>2, <2>1, <2>2, <2>3, StepsOutside
<1>6. CASE Unlock(i)
  <2>1. /\ st' = [st EXCEPT ![i] = IF channelHeld[i] THEN "releasing" ELSE "released"]
        /\ st[i] \notin {"loading", "joining"}
    BY <1>6 DEF Unlock
  <2>2. Registered' = Registered
    BY <1>1, <1>6 DEF Unlock, Registered, TypeOK
  <2>3. \A j \in Instances :
          st'[j] \in {"idle", "acquiring", "loading", "acquired"}
            => ~channelHeld'[j]
    BY <1>1, <1>6 DEF Unlock, TypeOK
  <2> QED
    BY <1>2, <2>1, <2>2, <2>3, StepsOutside
<1>7. CASE Dismantle(i)
  <2>1. /\ st' = [st EXCEPT ![i] = "idle"]
        /\ st[i] \notin {"loading", "joining"}
    BY <1>7 DEF Dismantle
  <2>2. Registered' = Registered
    BY <1>1, <1>7 DEF Dismantle, Registered, TypeOK
  <2>3. \A j \in Instances :
          st'[j] \in {"idle", "acquiring", "loading", "acquired"}
            => ~channelHeld'[j]
    BY <1>1, <1>7 DEF Dismantle, TypeOK
  <2> QED
    BY <1>2, <2>1, <2>2, <2>3, StepsOutside
<1> QED
  BY <1>3, <1>4, <1>5, <1>6, <1>7

LEMMA ElsewhereKeepsHolders ==
  ASSUME HolderInv,
         \/ \E ir \in Irs \union {None}, good \in BOOLEAN : WriteFile(ir, good)
         \/ \E i \in Instances : Callback(i) \/ Replace(i)
  PROVE  HolderInv'
<1>1. UNCHANGED <<st, channelHeld, owners, refCount, lock, thread, dead, rpc>>
  BY DEF WriteFile, Callback, Replace, channelVars, passVars, instanceVars
<1> QED
  BY <1>1, HoldersUntouched

-----------------------------------------------------------------------------
(* acquire()                                                               *)

\* The entry acquire() picks is free.
LEMMA FirstFreeIsFree ==
  ASSUME FreeEntries # {}
  PROVE  FirstFree \in Entries /\ owners[FirstFree] = None
<1>1. FreeEntries \subseteq Nat
  BY OwnersAssumption DEF FreeEntries, Entries
<1>2. PICK e \in FreeEntries : \A f \in FreeEntries : e <= f
  <2>1. PICK e \in FreeEntries :
          \A f \in FreeEntries : <<f, e>> \notin OpToRel(<, Nat)
    BY <1>1, NatLessThanWellFounded, WFMin
  <2>2. \A f \in FreeEntries : ~(f < e)
    BY <1>1, <2>1 DEF OpToRel
  <2> QED
    BY <1>1, <2>2
<1> QED
  BY <1>2 DEF FirstFree, FreeEntries

LEMMA RegisterKeepsTable ==
  ASSUME TypeOK, TableMatchesStreams, NEW i \in Instances,
         st[i] = "acquiring", FreeEntries # {}, Register(i)
  PROVE  TableMatchesStreams'
<1>1. /\ owners' = [owners EXCEPT ![FirstFree] = i]
      /\ refCount' = refCount + 1
      /\ UNCHANGED channelHeld
      /\ st'[i] \in {"loading", "acquired"}
      /\ \A j \in Instances \ {i} : st'[j] = st[j]
  BY DEF Register, TypeOK
<1>2. FirstFree \in Entries /\ owners[FirstFree] = None
  BY FirstFreeIsFree
<1>3. i \notin Registered /\ Registered' = Registered \union {i}
  BY <1>1 DEF Registered
<1>4. refCount' = Cardinality(Registered')
  BY <1>1, <1>3, OneMoreRegistered DEF TableMatchesStreams
<1>5. i # None
  BY NoneAssumption
<1>6. /\ owners'[FirstFree] = i
      /\ \A e \in Entries \ {FirstFree} : owners'[e] = owners[e]
      /\ \A e \in Entries : owners[e] # i
  BY <1>1, <1>2, <1>3, <1>5 DEF TypeOK, TableMatchesStreams
<1>7. \A j \in Registered' : \E e \in Entries : owners'[e] = j
  BY <1>2, <1>3, <1>6, NoneAssumption, RegisteredFinite DEF TableMatchesStreams
<1>8. \A e, f \in Entries : owners'[e] = owners'[f] /\ owners'[e] # None => e = f
  BY <1>6 DEF TableMatchesStreams
<1>9. \A e \in Entries : owners'[e] \in Registered' \union {None}
  BY <1>3, <1>6 DEF TableMatchesStreams
<1> QED
  BY <1>4, <1>7, <1>8, <1>9 DEF TableMatchesStreams

\* With the lock free and nobody holding the channel, no watcher is left that
\* was not abandoned: the first owner may take its place.
LEMMA NobodyLeft ==
  ASSUME HolderInv, lock = None, refCount = 0
  PROVE  ~thread /\ (~dead => rpc["watcher"] = "none")
BY NoneAssumption DEF HolderInv, NoOrphanWatcher, LockInv

LEMMA AcquireKeepsHolders ==
  ASSUME TypeOK, HolderInv, NEW i \in Instances, Acquire(i)
  PROVE  HolderInv'
<1>1. /\ st[i] = "acquiring" /\ lock = None /\ ~dead /\ FreeEntries # {}
      /\ Register(i) /\ i # None
  BY NoneAssumption DEF Acquire
<1>2. TableMatchesStreams'
  BY <1>1, RegisterKeepsTable DEF HolderInv
<1>3. /\ UNCHANGED <<thread, dead, channelHeld>>
      /\ refCount' = refCount + 1 /\ refCount' # 0 /\ refCount' > 0
  BY <1>1 DEF Register, TypeOK
<1>4. \A j \in Instances : st[j] \notin {"loading", "joining"}
  BY <1>1, NoneAssumption DEF HolderInv, LockInv
<1>5. rpc["control"] = "none"
  BY <1>4 DEF HolderInv, LockInv
<1>6. CASE st' = [st EXCEPT ![i] = "loading"]
  <2>1. /\ refCount = 0 /\ lock' = i /\ Goto("control", "stat")
    BY <1>1, <1>6 DEF Register, TypeOK
  <2>2. /\ rpc'["control"] = "stat" /\ rpc'["watcher"] = rpc["watcher"]
        /\ rpc["watcher"] = "none" /\ ~thread
    BY <1>1, <2>1, NobodyLeft DEF Goto, TypeOK, Threads
  <2>3. NoOrphanWatcher'
    BY <1>1, <1>3, <2>2 DEF NoOrphanWatcher
  <2>4. st'[i] = "loading" /\ \A j \in Instances \ {i} : st'[j] = st[j]
    BY <1>6 DEF TypeOK
  <2>5. LockInv'
    BY <1>1, <1>3, <1>4, <2>1, <2>2, <2>4 DEF HolderInv, LockInv
  <2> QED
    BY <1>2, <2>3, <2>5 DEF HolderInv
<1>7. CASE st' = [st EXCEPT ![i] = "acquired"]
  <2>1. UNCHANGED <<lock, rpc>>
    BY <1>1, <1>7 DEF Register, TypeOK
  <2>2. NoOrphanWatcher'
    BY <1>1, <1>3, <2>1 DEF HolderInv, NoOrphanWatcher
  <2>3. st'[i] = "acquired" /\ \A j \in Instances \ {i} : st'[j] = st[j]
    BY <1>7 DEF TypeOK
  <2>4. LockInv'
    BY <1>1, <1>3, <1>4, <1>5, <2>1, <2>3 DEF HolderInv, LockInv
  <2> QED
    BY <1>2, <2>2, <2>4 DEF HolderInv
<1> QED
  BY <1>1, <1>6, <1>7 DEF Register
LEMMA StartWatcherKeepsHolders ==
  ASSUME TypeOK, HolderInv, NEW i \in Instances, StartWatcher(i)
  PROVE  HolderInv'
<1>1. /\ st[i] = "loading" /\ lock = i /\ refCount # 0 /\ ~dead
      /\ rpc["watcher"] = "none" /\ ~channelHeld[i]
  BY DEF StartWatcher, HolderInv, LockInv
<1>2. /\ UNCHANGED <<owners, refCount, dead, channelHeld>>
      /\ st' = [st EXCEPT ![i] = "acquired"] /\ lock' = None
      /\ rpc'["control"] = "none"
      /\ rpc'["watcher"] # "none" => thread'
  BY <1>1 DEF StartWatcher, TypeOK, Threads
<1>3. st'[i] = "acquired" /\ \A j \in Instances \ {i} : st'[j] = st[j]
  BY <1>2 DEF TypeOK
<1>4. Registered' = Registered
  BY <1>1, <1>2, <1>3 DEF Registered
<1>5. TableMatchesStreams'
  BY <1>2, <1>4 DEF HolderInv, TableMatchesStreams
<1>6. NoOrphanWatcher'
  <2>1. refCount > 0
    BY <1>1 DEF TypeOK
  <2> QED
    BY <1>1, <1>2, <2>1 DEF NoOrphanWatcher
<1>7. LockInv'
  <2>1. \A j \in Instances : st'[j] \notin {"loading", "joining"} /\ None # j
    BY <1>1, <1>3, NoneAssumption DEF HolderInv, LockInv
  <2> QED
    BY <1>2, <1>3, <1>1, <2>1 DEF HolderInv, LockInv
<1> QED
  BY <1>5, <1>6, <1>7 DEF HolderInv

-----------------------------------------------------------------------------
(* release()                                                               *)

LEMMA ReleaseKeepsTable ==
  ASSUME TypeOK, TableMatchesStreams, NEW i \in Instances,
         st[i] = "releasing",
         owners' = [e \in Entries |-> IF owners[e] = i THEN None ELSE owners[e]],
         refCount' = refCount - 1,
         st'[i] \in {"joining", "released"},
         \A j \in Instances \ {i} : st'[j] = st[j],
         UNCHANGED channelHeld
  PROVE  TableMatchesStreams' /\ refCount # 0
<1>1. i \in Registered /\ Registered' = Registered \ {i}
  BY DEF Registered
<1>2. refCount # 0 /\ refCount' = Cardinality(Registered')
  BY <1>1, OneLessRegistered DEF TableMatchesStreams
<1>3. \A e \in Entries : owners'[e] # None => owners[e] = owners'[e] /\ owners[e] # i
  OBVIOUS
<1>4. \A j \in Registered' : \E e \in Entries : owners'[e] = j
  BY <1>1 DEF TableMatchesStreams
<1>5. \A e, f \in Entries : owners'[e] = owners'[f] /\ owners'[e] # None => e = f
  BY <1>3 DEF TableMatchesStreams
<1>6. \A e \in Entries : owners'[e] \in Registered' \union {None}
  BY <1>1, <1>3 DEF TableMatchesStreams
<1> QED
  BY <1>2, <1>4, <1>5, <1>6 DEF TableMatchesStreams

LEMMA ReleaseKeepsHolders ==
  ASSUME TypeOK, HolderInv, NEW i \in Instances, Release(i)
  PROVE  HolderInv'
<1>1. /\ st[i] = "releasing" /\ lock = None /\ i # None
      /\ \A j \in Instances : st[j] \notin {"loading", "joining"}
      /\ rpc["control"] = "none"
  BY NoneAssumption DEF Release, HolderInv, LockInv
<1>2. PICK to \in {"joining", "released"} :
        /\ st' = [st EXCEPT ![i] = to]
        /\ lock' = IF to = "joining" THEN i ELSE None
        /\ to = "joining" <=> refCount = 1 /\ thread
  BY <1>1 DEF Release
<1>3. st'[i] = to /\ \A j \in Instances \ {i} : st'[j] = st[j]
  BY <1>2 DEF TypeOK
<1>4. /\ refCount' = refCount - 1
      /\ UNCHANGED <<thread, dead, channelHeld, rpc>>
      /\ owners' = [e \in Entries |-> IF owners[e] = i THEN None ELSE owners[e]]
  BY DEF Release, passVars
<1>5. TableMatchesStreams' /\ refCount # 0
  BY <1>1, <1>3, <1>4, ReleaseKeepsTable DEF HolderInv
<1>6. NoOrphanWatcher'
  <2>1. ~dead
    BY <1>5 DEF HolderInv, NoOrphanWatcher
  <2>2. thread => refCount' > 0 \/ st'[i] = "joining"
    BY <1>2, <1>3, <1>4, <1>5 DEF TypeOK
  <2> QED
    BY <1>4, <2>1, <2>2 DEF HolderInv, NoOrphanWatcher
<1>7. LockInv'
  <2>1. \A j \in Instances : st'[j] \in {"loading", "joining"} <=> lock' = j
    BY <1>1, <1>2, <1>3, NoneAssumption
  <2>2. \A j \in Instances : st'[j] = "joining" => refCount' = 0 /\ thread'
    BY <1>1, <1>2, <1>3, <1>4
  <2>3. \A j \in Instances : st'[j] # "loading"
    BY <1>1, <1>3
  <2>4. \A j \in Instances :
          st'[j] \in {"idle", "acquiring", "loading", "acquired"}
            => ~channelHeld'[j]
    BY <1>3, <1>4 DEF HolderInv, LockInv
  <2> QED
    BY <1>1, <1>4, <2>1, <2>2, <2>3, <2>4 DEF LockInv
<1> QED
  BY <1>5, <1>6, <1>7 DEF HolderInv

LEMMA JoinKeepsHolders ==
  ASSUME TypeOK, HolderInv, NEW i \in Instances, Join(i)
  PROVE  HolderInv'
<1>1. /\ st[i] = "joining" /\ lock = i /\ refCount = 0
      /\ \A j \in Instances \ {i} : st[j] \notin {"loading", "joining"}
      /\ rpc["control"] = "none"
  BY DEF Join, HolderInv, LockInv
<1>2. /\ st' = [st EXCEPT ![i] = "released"] /\ lock' = None
      /\ ~thread' /\ dead' = (rpc["watcher"] # "none")
      /\ UNCHANGED <<owners, refCount, channelHeld, rpc>>
  BY DEF Join, passVars
<1>3. st'[i] = "released" /\ \A j \in Instances \ {i} : st'[j] = st[j]
  BY <1>2 DEF TypeOK
<1>4. Registered' = Registered
  BY <1>1, <1>2, <1>3 DEF Registered
<1>5. TableMatchesStreams'
  BY <1>2, <1>4 DEF HolderInv, TableMatchesStreams
<1>6. NoOrphanWatcher'
  BY <1>1, <1>2 DEF NoOrphanWatcher
<1>7. LockInv'
  <2>1. \A j \in Instances : st'[j] \notin {"loading", "joining"} /\ None # j
    BY <1>1, <1>3, NoneAssumption
  <2> QED
    BY <1>1, <1>2, <1>3, <2>1 DEF HolderInv, LockInv
<1> QED
  BY <1>5, <1>6, <1>7 DEF HolderInv
-----------------------------------------------------------------------------
(* Types, and the locals of a pass                                         *)

\* What a thread keeps of a version of params.bin, and the kernels made of it.
LEMMA DataTypes ==
  /\ \A f \in Files : f.n \in 0..MaxWrites /\ f.ir \in Irs \union {None}
  /\ NoFile \in Files
  /\ \A ir \in Irs, r \in Rates : KernelFor(ir, r) \in Kernels
  /\ \A e \in Entries : e \in 1..(kMaxOwners + 1) /\ e + 1 \in 1..(kMaxOwners + 1)
  /\ \A e \in 1..(kMaxOwners + 1) : e <= kMaxOwners => e \in Entries
  /\ 1 \in 1..(kMaxOwners + 1) /\ 0 \in 0..MaxWrites
BY OwnersAssumption, WritesAssumption DEF Files, NoFile, Kernels, Entries

LEMMA PassStepsKeepTypes ==
  ASSUME TypeOK, PassInv, NEW t \in Threads, Reload(t)
  PROVE  TypeOK'
<1> USE DataTypes
<1>1. CASE Stat(t)
  BY <1>1, SMTT(30) DEF Stat, TypeOK, Goto, AfterReload, channelVars, instanceVars, kernelVars
<1>2. CASE Open(t)
  BY <1>2, SMTT(30) DEF Open, TypeOK, Goto, AfterReload, channelVars, instanceVars, kernelVars
<1>3. CASE Publish(t)
  BY <1>3, SMTT(30) DEF Publish, TypeOK, Goto, channelVars, instanceVars, kernelVars
<1>4. CASE Grab(t)
  BY <1>4, SMTT(30) DEF Grab, NextEntry, TypeOK, Goto, channelVars, instanceVars, kernelVars
<1>5. CASE Use(t)
  BY <1>5, SMTT(30) DEF Use, PassInv, NextEntry, TypeOK, Goto, channelVars, instanceVars
<1>6. CASE Offer(t)
  BY <1>6 DEF Offer, PassInv, NextEntry, TypeOK, Goto, channelVars, instanceVars
<1>7. CASE Record(t)
  BY <1>7 DEF Record, TypeOK, Goto, AfterReload, channelVars, instanceVars, kernelVars
<1> QED
  BY <1>1, <1>2, <1>3, <1>4, <1>5, <1>6, <1>7 DEF Reload

LEMMA LoopStepsKeepTypes ==
  ASSUME TypeOK, PassInv,
         StatusGrab \/ StatusFill \/ StatusDone \/ Poll \/ Exit
  PROVE  TypeOK'
<1> USE DataTypes
<1>0. "watcher" \in Threads
  BY DEF Threads
<1>1. CASE StatusGrab
  BY <1>0, <1>1 DEF StatusGrab, NextEntry, TypeOK, Goto, channelVars, instanceVars,
                    kernelVars
<1>2. CASE StatusFill
  BY <1>0, <1>2 DEF StatusFill, PassInv, NextEntry, TypeOK, Goto, channelVars,
                    instanceVars, kernelVars
<1>3. CASE StatusDone
  BY <1>0, <1>3 DEF StatusDone, TypeOK, Goto, channelVars, instanceVars, kernelVars
<1>4. CASE Poll
  BY <1>0, <1>4 DEF Poll, TypeOK, Goto, instanceVars, kernelVars
<1>5. CASE Exit
  BY <1>0, <1>5 DEF Exit, TypeOK, Goto, channelVars, instanceVars, kernelVars
<1> QED
  BY <1>1, <1>2, <1>3, <1>4, <1>5

LEMMA AcquireStepsKeepTypes ==
  ASSUME TypeOK, NEW i \in Instances,
         \/ \E r \in Rates : Lock(i, r)
         \/ AcquireRefused(i) \/ Acquire(i) \/ StartWatcher(i) \/ BeginStream(i)
  PROVE  TypeOK'
<1> USE DataTypes
<1>1. CASE \E r \in Rates : Lock(i, r)
  BY <1>1 DEF Lock, TypeOK, channelVars, passVars, kernelVars
<1>2. CASE AcquireRefused(i)
  BY <1>2 DEF AcquireRefused, TypeOK, channelVars, passVars, kernelVars
<1>3. CASE Acquire(i)
  <2>1. "control" \in Threads /\ refCount' \in Nat
    BY <1>3 DEF Acquire, Register, Threads, TypeOK
  <2>2. st' \in [Instances -> {"idle", "acquiring", "loading", "acquired",
                               "streaming", "releasing", "joining", "released"}]
    BY <1>3 DEF Acquire, Register, TypeOK
  <2>3. owners' \in [Entries -> Instances \union {None}]
    BY <1>3 DEF Acquire, Register, TypeOK
  <2> QED
    BY <1>3, <2>1, <2>2, <2>3 DEF Acquire, Register, TypeOK, Goto, kernelVars
<1>4. CASE StartWatcher(i)
  BY <1>4 DEF StartWatcher, TypeOK, Threads, kernelVars
<1>5. CASE BeginStream(i)
  BY <1>5 DEF BeginStream, TypeOK, channelVars, passVars, kernelVars
<1> QED
  BY <1>1, <1>2, <1>3, <1>4, <1>5

LEMMA StreamStepsKeepTypes ==
  ASSUME TypeOK, HolderInv, NEW i \in Instances,
         \/ Callback(i) \/ Unlock(i) \/ Release(i) \/ Join(i) \/ Dismantle(i)
         \/ Replace(i)
  PROVE  TypeOK'
<1> USE DataTypes
<1>1. CASE Callback(i)
  BY <1>1 DEF Callback, TypeOK, channelVars, passVars
<1>2. CASE Unlock(i)
  BY <1>2 DEF Unlock, TypeOK, channelVars, passVars, kernelVars
<1>3. CASE Release(i)
  <2>1. refCount # 0
    <3>1. i \in Registered
      BY <1>3 DEF Release, Registered
    <3> QED
      BY <3>1, RegisteredFinite, FS_EmptySet DEF HolderInv, TableMatchesStreams
  <2>2. refCount' \in Nat
    BY <1>3, <2>1 DEF Release, TypeOK
  <2> QED
    BY <1>3, <2>2 DEF Release, TypeOK, passVars, kernelVars
<1>4. CASE Join(i)
  BY <1>4 DEF Join, TypeOK, passVars, kernelVars
<1>5. CASE Dismantle(i)
  BY <1>5 DEF Dismantle, TypeOK, channelVars, passVars, kernelVars
<1>6. CASE Replace(i)
  BY <1>6 DEF Replace, TypeOK, channelVars, passVars
<1> QED
  BY <1>1, <1>2, <1>3, <1>4, <1>5, <1>6

LEMMA WriteKeepsTypes ==
  ASSUME TypeOK, NEW ir \in Irs \union {None}, NEW good \in BOOLEAN,
         WriteFile(ir, good)
  PROVE  TypeOK'
<1>1. file' \in Files
  BY WritesAssumption DEF WriteFile, TypeOK, Files
<1> QED
  BY <1>1 DEF WriteFile, TypeOK, channelVars, passVars, instanceVars, kernelVars

LEMMA PassStepsKeepPass ==
  ASSUME TypeOK, PassInv, NEW t \in Threads, Reload(t)
  PROVE  PassInv'
<1> USE DataTypes
<1>1. CASE Stat(t) \/ Open(t) \/ Publish(t)
  BY <1>1 DEF Stat, Open, Publish, PassInv, TypeOK, Goto, AfterReload
<1>2. CASE Grab(t)
  BY <1>2, NoneAssumption DEF Grab, NextEntry, PassInv, TypeOK, Goto
<1>3. CASE Use(t)
  BY <1>3, NoneAssumption DEF Use, NextEntry, PassInv, TypeOK, Goto
<1>4. CASE Offer(t) \/ Record(t)
  BY <1>4 DEF Offer, Record, NextEntry, PassInv, TypeOK, Goto, AfterReload
<1> QED
  BY <1>1, <1>2, <1>3, <1>4 DEF Reload

LEMMA LoopStepsKeepPass ==
  ASSUME TypeOK, PassInv,
         StatusGrab \/ StatusFill \/ StatusDone \/ Poll \/ Exit
  PROVE  PassInv'
<1> USE DataTypes
<1>0. "watcher" \in Threads
  BY DEF Threads
<1>1. CASE StatusGrab
  BY <1>0, <1>1, NoneAssumption DEF StatusGrab, NextEntry, PassInv, TypeOK, Goto
<1>2. CASE StatusFill \/ StatusDone \/ Poll \/ Exit
  BY <1>0, <1>2 DEF StatusFill, StatusDone, Poll, Exit, NextEntry, PassInv, TypeOK,
                    Goto
<1> QED
  BY <1>1, <1>2

LEMMA OtherStepsKeepPass ==
  ASSUME TypeOK, PassInv,
         \/ \E ir \in Irs \union {None}, good \in BOOLEAN : WriteFile(ir, good)
         \/ \E i \in Instances :
              \/ \E r \in Rates : Lock(i, r)
              \/ ControlStep(i) \/ Callback(i) \/ Unlock(i) \/ Replace(i)
  PROVE  PassInv'
<1>1. UNCHANGED <<owner, entry, raw, rateSeen>>
  BY DEF WriteFile, Lock, ControlStep, AcquireRefused, Acquire, Register,
         StartWatcher, BeginStream, Release, Join, Dismantle, Callback, Unlock,
         Replace, passVars
<1>2. \A t \in Threads : rpc'[t] = rpc[t] \/ rpc'[t] \in {"stat", "none"}
  BY DEF WriteFile, Lock, ControlStep, AcquireRefused, Acquire, Register,
         StartWatcher, BeginStream, Release, Join, Dismantle, Callback, Unlock,
         Replace, passVars, Goto, TypeOK, Threads
<1> QED
  BY <1>1, <1>2 DEF PassInv

-----------------------------------------------------------------------------
(* The theorems                                                            *)

LEMMA NextKeepsChannelInv == ChannelInv /\ [Next]_vars => ChannelInv'
<1> SUFFICES ASSUME ChannelInv, [Next]_vars PROVE ChannelInv'
  OBVIOUS
<1>0. TypeOK /\ HolderInv /\ PassInv
  BY DEF ChannelInv, HolderInv
<1>1. HolderInv' /\ TypeOK' /\ PassInv' => ChannelInv'
  BY DEF ChannelInv, HolderInv
<1>2. CASE \E ir \in Irs \union {None}, good \in BOOLEAN : WriteFile(ir, good)
  BY <1>0, <1>1, <1>2, ElsewhereKeepsHolders, WriteKeepsTypes, OtherStepsKeepPass
<1>3. ASSUME NEW t \in Threads, Reload(t) PROVE ChannelInv'
  BY <1>0, <1>1, <1>3, ReloadKeepsHolders, PassStepsKeepTypes, PassStepsKeepPass
<1>4. CASE StatusGrab \/ StatusFill \/ StatusDone \/ Poll \/ Exit
  BY <1>0, <1>1, <1>4, LoopKeepsHolders, LoopStepsKeepTypes, LoopStepsKeepPass
<1>5. ASSUME NEW i \in Instances,
             \/ \E r \in Rates : Lock(i, r)
             \/ ControlStep(i) \/ Callback(i) \/ Unlock(i) \/ Replace(i)
      PROVE  ChannelInv'
  <2>1. PassInv'
    BY <1>0, <1>5, OtherStepsKeepPass
  <2>2. TypeOK'
    BY <1>0, <1>5, AcquireStepsKeepTypes, StreamStepsKeepTypes DEF ControlStep
  <2>3. HolderInv'
    <3>1. CASE \/ \E r \in Rates : Lock(i, r)
               \/ AcquireRefused(i) \/ BeginStream(i) \/ Unlock(i) \/ Dismantle(i)
      BY <1>0, <3>1, OutsideKeepsHolders
    <3>2. CASE Acquire(i) \/ StartWatcher(i)
      BY <1>0, <3>2, AcquireKeepsHolders, StartWatcherKeepsHolders
    <3>3. CASE Release(i) \/ Join(i)
      BY <1>0, <3>3, ReleaseKeepsHolders, JoinKeepsHolders
    <3>4. CASE Callback(i) \/ Replace(i)
      BY <1>0, <3>4, ElsewhereKeepsHolders
    <3> QED
      BY <1>5, <3>1, <3>2, <3>3, <3>4 DEF ControlStep
  <2> QED
    BY <1>1, <2>1, <2>2, <2>3
<1>6. CASE UNCHANGED vars
  <2>1. UNCHANGED <<st, channelHeld, owners, refCount, lock, thread, dead, rpc>>
    BY <1>6 DEF vars, channelVars, passVars, instanceVars
  <2>2. HolderInv'
    BY <1>0, <2>1, HoldersUntouched
  <2>3. TypeOK' /\ PassInv'
    BY <1>0, <1>6
       DEF TypeOK, PassInv, vars, channelVars, passVars, instanceVars, kernelVars
  <2> QED
    BY <1>1, <2>2, <2>3
<1> QED
  BY <1>2, <1>3, <1>4, <1>5, <1>6 DEF Next, Watch, Threads

\* ChannelInv holds in every reachable state of any number of streams: the
\* owner table, the count, the watcher and the dead flag agree.
THEOREM ChannelInvariant == Spec => []ChannelInv
<1>1. Init => ChannelInv
  BY InitChannelInv
<1>2. ChannelInv /\ [Next]_vars => ChannelInv'
  BY NextKeepsChannelInv
<1> QED
  BY <1>1, <1>2, PTL DEF Spec

\* All variables keep their types: an index into the owner table stays inside
\* it, and the count never goes below zero.
THEOREM ChannelType == Spec => []TypeOK
<1>1. ChannelInv => TypeOK
  BY DEF ChannelInv
<1> QED
  BY <1>1, ChannelInvariant, PTL

\* The owner table, the reference count and the streams agree, whatever streams
\* are locked and unlocked concurrently, refused ones included.
THEOREM TableAlwaysMatches == Spec => []TableMatchesStreams
<1>1. ChannelInv => TableMatchesStreams
  BY DEF ChannelInv
<1> QED
  BY <1>1, ChannelInvariant, PTL

\* Two threads are never inside reloadIfChanged, which is what the parameter
\* slots take for granted of their writer.
THEOREM OneWriterEver == Spec => []SingleWriter
<1>1. ChannelInv => SingleWriter
  BY DEF ChannelInv, LockInv, SingleWriter
<1> QED
  BY <1>1, ChannelInvariant, PTL

\* A watcher outlives its last owner only by being abandoned, and then the
\* channel has no owner and never gets one.
THEOREM NeverOrphaned == Spec => []NoOrphanWatcher
<1>1. ChannelInv => NoOrphanWatcher
  BY DEF ChannelInv
<1> QED
  BY <1>1, ChannelInvariant, PTL
=============================================================================
