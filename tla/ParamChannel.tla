---------------------------- MODULE ParamChannel ----------------------------
(***************************************************************************)
(* apo/ParamChannel.{h,cpp} with LockForProcess, UnlockForProcess and      *)
(* APOProcess of apo/DreamApo.cpp: how the streams inside one audiodg      *)
(* share one watcher thread, and how what the GUI writes to params.bin     *)
(* reaches each of them.                                                   *)
(*                                                                         *)
(* acquire() and release() run under m_lock on the control thread of an    *)
(* instance.  The watcher never takes that lock: it reads the owner table  *)
(* while they write it.  reloadIfChanged() runs in two places, on the      *)
(* control thread of the first owner and on the watcher, so its program    *)
(* counter and locals are functions of the thread executing it.            *)
(*                                                                         *)
(* The parameter slots are one variable, read and published in one step:   *)
(* ParamSlots is about what is inside, and SingleWriter below is what it   *)
(* takes for granted.  A stage's kernels are the one on offer and the one  *)
(* in use: KernelHandoff is about the rest.                                *)
(***************************************************************************)
EXTENDS Naturals, FiniteSets, TLC

CONSTANTS
  Instances,   \* DreamApo objects, each with its control and audio thread
  None,        \* nullptr, and no impulse response
  kMaxOwners,  \* 8 in the code
  Rates,       \* sample rates
  Irs,         \* impulse responses the GUI can choose
  Refused,     \* those whose blob is missing or does not validate
  MaxWrites    \* bound on the number of writes of params.bin

ASSUME NoneAssumption == None \notin Instances \union Irs
ASSUME InstancesAssumption == IsFiniteSet(Instances)
ASSUME OwnersAssumption == kMaxOwners \in Nat \ {0}
ASSUME RatesAssumption == Rates # {}
ASSUME RefusedAssumption == Refused \subseteq Irs
ASSUME WritesAssumption == MaxWrites \in Nat

VARIABLES
  file,      \* params.bin: its time stamp, impulse response and validity
  slots,     \* m_slots: the block last published
  stamp,     \* m_stampLow, m_stampHigh, m_stampSize
  lock,      \* the instance whose control thread holds m_lock, or None
  owners,    \* m_owners
  built,     \* m_built: the kernel each entry was last given, or None
  refCount,  \* m_refCount
  thread,    \* m_thread is not null
  stop,      \* m_stop: "open", "set" or "closed"
  dead,      \* m_dead
  looping,   \* the watcher has passed the reload that comes before its loop
  rpc,       \* where each thread is in reloadIfChanged, or around it
  seen,      \* reloadIfChanged: the stamp in info
  raw,       \* reloadIfChanged: the block read
  entry,     \* rebuildImpulseResponses and maybeWriteStatus: the index i
  owner,     \* their local pointer
  rateSeen,  \* rebuildImpulseResponses: its local rate
  st,        \* what the engine is doing with each instance
  rate,      \* m_sampleRate
  channelHeld,  \* m_channelHeld
  armed,     \* latched by LockForProcess
  applied,   \* number of the block the instance last applied
  incoming,  \* the kernel on offer to its convolution stage, or None
  current    \* the kernel its convolution stage uses, or None

channelVars == <<lock, owners, refCount, thread, stop, dead, looping>>
passVars == <<rpc, seen, raw, entry, owner, rateSeen>>
instanceVars == <<st, rate, channelHeld, armed, applied>>
kernelVars == <<built, incoming, current>>
vars == <<file, slots, stamp, channelVars, passVars, instanceVars, kernelVars>>

\* The threads that can be inside reloadIfChanged.
Threads == {"control", "watcher"}
Entries == 1..kMaxOwners

\* A version of params.bin: 0 is its absence.
Files == [n : 0..MaxWrites, ir : Irs \union {None}, good : BOOLEAN]
NoFile == [n |-> 0, ir |-> None, good |-> TRUE]

KernelFor(ir, r) == [ir |-> ir, rate |-> r]
Kernels == {KernelFor(ir, r) : ir \in Irs, r \in Rates}

Init ==
  /\ file = NoFile /\ slots = NoFile /\ stamp = 0
  /\ lock = None
  /\ owners = [e \in Entries |-> None]
  /\ built = [e \in Entries |-> None]
  /\ refCount = 0
  /\ thread = FALSE /\ stop = "closed" /\ dead = FALSE
  /\ looping = FALSE
  /\ rpc = [t \in Threads |-> "none"]
  /\ seen = [t \in Threads |-> 0]
  /\ raw = [t \in Threads |-> NoFile]
  /\ entry = [t \in Threads |-> 1]
  /\ owner = [t \in Threads |-> None]
  /\ rateSeen = [t \in Threads |-> None]
  /\ st = [i \in Instances |-> "idle"]
  /\ rate \in [Instances -> {CHOOSE r \in Rates : TRUE}]
  /\ channelHeld = [i \in Instances |-> FALSE]
  /\ armed = [i \in Instances |-> FALSE]
  /\ applied = [i \in Instances |-> 0]
  /\ incoming = [i \in Instances |-> None]
  /\ current = [i \in Instances |-> None]

-----------------------------------------------------------------------------
(* The GUI: QSaveFile replaces params.bin by a rename.  Impulse responses  *)
(* are written before the parameters that name them.                       *)

WriteFile(ir, good) ==
  /\ file.n < MaxWrites
  /\ file' = [n |-> file.n + 1, ir |-> ir, good |-> good]
  /\ UNCHANGED <<slots, stamp, channelVars, passVars, instanceVars, kernelVars>>

-----------------------------------------------------------------------------
(* reloadIfChanged(), and rebuildImpulseResponses() inside it.             *)

Goto(t, place) == rpc' = [rpc EXCEPT ![t] = place]

\* Where a thread goes after reloadIfChanged: acquire() starts the watcher,
\* the watcher enters its loop, or goes on to the status file.
AfterReload(t) ==
  IF t = "control" THEN "loaded" ELSE IF looping THEN "status" ELSE "wait"

\* GetFileAttributesEx: missing, or unchanged, is the end of it.
Stat(t) ==
  /\ rpc[t] = "stat"
  /\ IF file.n = 0 \/ file.n = stamp
     THEN Goto(t, AfterReload(t)) /\ UNCHANGED seen
     ELSE Goto(t, "open") /\ seen' = [seen EXCEPT ![t] = file.n]
  /\ UNCHANGED <<file, slots, stamp, channelVars, raw, entry, owner, rateSeen,
                 instanceVars, kernelVars>>

\* CreateFile and ReadFile: the handle keeps the version it was opened on.  A
\* file that fails validation is left there, and its stamp is not recorded.
Open(t) ==
  /\ rpc[t] = "open"
  /\ IF file.good
     THEN Goto(t, "publish") /\ raw' = [raw EXCEPT ![t] = file] /\ UNCHANGED seen
     ELSE Goto(t, AfterReload(t)) /\ seen' = [seen EXCEPT ![t] = 0]
                                  /\ UNCHANGED raw
  /\ UNCHANGED <<file, slots, stamp, channelVars, entry, owner, rateSeen,
                 instanceVars, kernelVars>>

\* m_slots.publish(clean)
Publish(t) ==
  /\ rpc[t] = "publish"
  /\ slots' = raw[t]
  /\ Goto(t, "grab")
  /\ UNCHANGED <<file, stamp, channelVars, seen, raw, entry, owner, rateSeen,
                 instanceVars, kernelVars>>

\* On to the next entry of the owner table.
NextEntry(t, place) ==
  /\ entry' = [entry EXCEPT ![t] = @ + 1]
  /\ owner' = [owner EXCEPT ![t] = None]
  /\ Goto(t, place)

\* DreamApo *owner = m_owners[i], without the lock.
Grab(t) ==
  /\ rpc[t] = "grab"
  /\ entry[t] <= kMaxOwners
  /\ IF owners[entry[t]] = None
     THEN NextEntry(t, "grab")
     ELSE /\ owner' = [owner EXCEPT ![t] = owners[entry[t]]]
          /\ Goto(t, "use")
          /\ UNCHANGED entry
  /\ UNCHANGED <<file, slots, stamp, channelVars, seen, raw, rateSeen,
                 instanceVars, kernelVars>>

\* streamRate() and streamChannels() are read: nothing to build, already
\* built, or no usable blob is the end of this entry.
Use(t) ==
  /\ rpc[t] = "use"
  /\ LET i == owner[t]
         ir == raw[t].ir
     IN IF \/ ir = None
           \/ st[i] = "idle"
           \/ built[entry[t]] = KernelFor(ir, rate[i])
           \/ ir \in Refused
        THEN /\ NextEntry(t, "grab")
             /\ built' = [built EXCEPT ![entry[t]] =
                            IF ir = None THEN None ELSE @]
             /\ UNCHANGED rateSeen
        ELSE /\ rateSeen' = [rateSeen EXCEPT ![t] = rate[i]]
             /\ Goto(t, "offer")
             /\ UNCHANGED <<entry, owner, built>>
  /\ UNCHANGED <<file, slots, stamp, channelVars, seen, raw, instanceVars,
                 incoming, current>>

\* Some hundred milliseconds later: offerKernel(), which refuses if the stage
\* has not taken the previous one.
Offer(t) ==
  /\ rpc[t] = "offer"
  /\ LET kernel == KernelFor(raw[t].ir, rateSeen[t])
     IN IF incoming[owner[t]] = None
        THEN /\ incoming' = [incoming EXCEPT ![owner[t]] = kernel]
             /\ built' = [built EXCEPT ![entry[t]] = kernel]
        ELSE UNCHANGED <<incoming, built>>
  /\ NextEntry(t, "grab")
  /\ rateSeen' = [rateSeen EXCEPT ![t] = None]
  /\ UNCHANGED <<file, slots, stamp, channelVars, seen, raw, instanceVars, current>>

\* Mutant of Record: the stamp is taken when the pass ends.
RecordLate(t) ==
  /\ rpc[t] = "grab"
  /\ entry[t] > kMaxOwners
  /\ stamp' = file.n
  /\ Goto(t, AfterReload(t))
  /\ seen' = [seen EXCEPT ![t] = 0]
  /\ raw' = [raw EXCEPT ![t] = NoFile]
  /\ entry' = [entry EXCEPT ![t] = 1]
  /\ UNCHANGED <<file, slots, channelVars, owner, rateSeen, instanceVars, kernelVars>>

\* All entries done: remember the stamp that was seen before the file was
\* opened, whether or not every kernel went in.
Record(t) ==
  /\ rpc[t] = "grab"
  /\ entry[t] > kMaxOwners
  /\ stamp' = seen[t]
  /\ Goto(t, AfterReload(t))
  /\ seen' = [seen EXCEPT ![t] = 0]
  /\ raw' = [raw EXCEPT ![t] = NoFile]
  /\ entry' = [entry EXCEPT ![t] = 1]
  /\ UNCHANGED <<file, slots, channelVars, owner, rateSeen, instanceVars, kernelVars>>

Reload(t) ==
  Stat(t) \/ Open(t) \/ Publish(t) \/ Grab(t) \/ Use(t) \/ Offer(t) \/ Record(t)

-----------------------------------------------------------------------------
(* watch() and maybeWriteStatus().                                         *)

\* maybeWriteStatus() visits the owner table too, at most once a second.
StatusGrab ==
  /\ rpc["watcher"] = "status"
  /\ entry["watcher"] <= kMaxOwners
  /\ IF owners[entry["watcher"]] = None
     THEN NextEntry("watcher", "status")
     ELSE /\ owner' = [owner EXCEPT !["watcher"] = owners[entry["watcher"]]]
          /\ Goto("watcher", "fill")
          /\ UNCHANGED entry
  /\ UNCHANGED <<file, slots, stamp, channelVars, seen, raw, rateSeen,
                 instanceVars, kernelVars>>

\* owner->fillStatus(s.inst[n])
StatusFill ==
  /\ rpc["watcher"] = "fill"
  /\ NextEntry("watcher", "status")
  /\ UNCHANGED <<file, slots, stamp, channelVars, seen, raw, rateSeen,
                 instanceVars, kernelVars>>

\* Written, or not due.
StatusDone ==
  /\ rpc["watcher"] = "status"
  /\ entry["watcher"] \in {1, kMaxOwners + 1}
  /\ entry' = [entry EXCEPT !["watcher"] = 1]
  /\ Goto("watcher", "wait")
  /\ UNCHANGED <<file, slots, stamp, channelVars, seen, raw, owner, rateSeen,
                 instanceVars, kernelVars>>

\* A notification, the poll interval, or a wait that failed: look at the file.
Poll ==
  /\ rpc["watcher"] = "wait"
  /\ stop # "set"
  /\ looping' = TRUE
  /\ Goto("watcher", "stat")
  /\ UNCHANGED <<file, slots, stamp, lock, owners, refCount, thread, stop, dead,
                 seen, raw, entry, owner, rateSeen, instanceVars, kernelVars>>

\* The stop event, "the only exit".  If release() has closed its handle under
\* an abandoned watcher, the wait may have seen it or not.
Exit ==
  /\ rpc["watcher"] = "wait"
  /\ stop # "open"
  /\ Goto("watcher", "none")
  /\ UNCHANGED <<file, slots, stamp, channelVars, seen, raw, entry, owner,
                 rateSeen, instanceVars, kernelVars>>

Watch == Reload("watcher") \/ StatusGrab \/ StatusFill \/ StatusDone \/ Poll \/ Exit

-----------------------------------------------------------------------------
(* LockForProcess and acquire().                                           *)

\* The chain is prepared for the connection, the applied block zeroed.
Lock(i, r) ==
  /\ st[i] = "idle"
  /\ st' = [st EXCEPT ![i] = "acquiring"]
  /\ rate' = [rate EXCEPT ![i] = r]
  /\ applied' = [applied EXCEPT ![i] = 0]
  /\ UNCHANGED <<file, slots, stamp, channelVars, passVars, channelHeld, armed,
                 kernelVars>>

FreeEntries == {e \in Entries : owners[e] = None}
FirstFree == CHOOSE e \in FreeEntries : \A f \in FreeEntries : e <= f

\* A dead channel or a full owner table: the stream runs transparent, and its
\* convolution stage keeps the arming it had.
AcquireRefused(i) ==
  /\ st[i] = "acquiring" /\ lock = None
  /\ dead \/ FreeEntries = {}
  /\ st' = [st EXCEPT ![i] = "streaming"]
  /\ UNCHANGED <<file, slots, stamp, channelVars, passVars, rate, channelHeld,
                 armed, applied, kernelVars>>

\* The instance goes on the table.  The first owner goes on to load the
\* parameters, under the lock, unless the stop event cannot be created.
Register(i) ==
  /\ owners' = [owners EXCEPT ![FirstFree] = i]
  /\ refCount' = refCount + 1
  /\ \/ /\ refCount = 0
        /\ lock' = i
        /\ stop' = "open"
        /\ Goto("control", "stat")
        /\ st' = [st EXCEPT ![i] = "loading"]
     \/ /\ refCount = 0
        /\ stop' = "closed"
        /\ st' = [st EXCEPT ![i] = "acquired"]
        /\ UNCHANGED <<lock, rpc>>
     \/ /\ refCount > 0
        /\ st' = [st EXCEPT ![i] = "acquired"]
        /\ UNCHANGED <<lock, stop, rpc>>
  /\ UNCHANGED <<file, slots, stamp, thread, dead, looping, seen, raw, entry,
                 owner, rateSeen, rate, channelHeld, armed, applied, kernelVars>>

\* Mutant of Acquire: a channel that was abandoned may start again.
AcquireUndead(i) ==
  /\ st[i] = "acquiring" /\ lock = None
  /\ FreeEntries # {}
  /\ Register(i)

Acquire(i) ==
  /\ st[i] = "acquiring" /\ lock = None
  /\ ~dead /\ FreeEntries # {}
  /\ Register(i)

\* CreateThread, which may fail, and the end of acquire().
StartWatcher(i) ==
  /\ st[i] = "loading" /\ rpc["control"] = "loaded"
  /\ \E started \in BOOLEAN :
       /\ thread' = started
       /\ rpc' = [rpc EXCEPT !["control"] = "none",
                             !["watcher"] = IF started THEN "stat" ELSE @]
  /\ looping' = FALSE
  /\ lock' = None
  /\ st' = [st EXCEPT ![i] = "acquired"]
  /\ UNCHANGED <<file, slots, stamp, owners, refCount, stop, dead, seen, raw,
                 entry, owner, rateSeen, rate, channelHeld, armed, applied,
                 kernelVars>>

\* The rest of LockForProcess: arm the stage, apply the first block.
BeginStream(i) ==
  /\ st[i] = "acquired"
  /\ st' = [st EXCEPT ![i] = "streaming"]
  /\ channelHeld' = [channelHeld EXCEPT ![i] = TRUE]
  /\ armed' = [armed EXCEPT ![i] = slots.ir # None]
  /\ applied' = [applied EXCEPT ![i] = slots.n]
  /\ UNCHANGED <<file, slots, stamp, channelVars, passVars, rate, kernelVars>>

-----------------------------------------------------------------------------
(* APOProcess.                                                             *)

\* Ingest and install the block; then, if the stage is armed, its tick takes
\* the kernel on offer, or hands it back if it was built for another rate.
Callback(i) ==
  /\ st[i] = "streaming"
  /\ applied' = [applied EXCEPT ![i] = IF channelHeld[i] THEN slots.n ELSE @]
  /\ IF armed[i] /\ incoming[i] # None
     THEN /\ incoming' = [incoming EXCEPT ![i] = None]
          /\ current' = [current EXCEPT ![i] =
                           IF incoming[i].rate = rate[i] THEN incoming[i] ELSE @]
     ELSE UNCHANGED <<incoming, current>>
  /\ UNCHANGED <<file, slots, stamp, channelVars, passVars, st, rate, channelHeld,
                 armed, built>>

-----------------------------------------------------------------------------
(* UnlockForProcess and release().                                         *)

\* Mutant of Unlock: what was never acquired is released.
UnlockReleasing(i) ==
  /\ st[i] = "streaming"
  /\ st' = [st EXCEPT ![i] = "releasing"]
  /\ UNCHANGED <<file, slots, stamp, channelVars, passVars, rate, channelHeld,
                 armed, applied, kernelVars>>

\* The engine has stopped the callbacks.  A stream that never got the channel
\* has nothing to release.
Unlock(i) ==
  /\ st[i] = "streaming"
  /\ st' = [st EXCEPT ![i] = IF channelHeld[i] THEN "releasing" ELSE "released"]
  /\ UNCHANGED <<file, slots, stamp, channelVars, passVars, rate, channelHeld,
                 armed, applied, kernelVars>>

\* Mutant of Release: the count is kept, the table entry is not cleared.
ReleaseKeepingEntry(i) ==
  /\ st[i] = "releasing" /\ lock = None
  /\ refCount' = refCount - 1
  /\ IF refCount = 1 /\ thread
     THEN /\ lock' = i
          /\ stop' = "set"
          /\ st' = [st EXCEPT ![i] = "joining"]
     ELSE /\ st' = [st EXCEPT ![i] = "released"]
          /\ UNCHANGED <<lock, stop>>
  /\ UNCHANGED <<file, slots, stamp, owners, thread, dead, looping, passVars, rate,
                 channelHeld, armed, applied, kernelVars>>

\* Mutant of Release: the last owner does not stop the watcher.
ReleaseUnjoined(i) ==
  /\ st[i] = "releasing" /\ lock = None
  /\ owners' = [e \in Entries |-> IF owners[e] = i THEN None ELSE owners[e]]
  /\ refCount' = refCount - 1
  /\ thread' = (refCount > 1 /\ thread)
  /\ st' = [st EXCEPT ![i] = "released"]
  /\ UNCHANGED <<file, slots, stamp, lock, stop, dead, looping, passVars, rate,
                 channelHeld, armed, applied, kernelVars>>

\* The owner is taken off the table.  The last one out stops the watcher and
\* waits for it, still holding the lock.
Release(i) ==
  /\ st[i] = "releasing" /\ lock = None
  /\ owners' = [e \in Entries |-> IF owners[e] = i THEN None ELSE owners[e]]
  /\ refCount' = refCount - 1
  /\ IF refCount = 1 /\ thread
     THEN /\ lock' = i
          /\ stop' = "set"
          /\ st' = [st EXCEPT ![i] = "joining"]
     ELSE /\ st' = [st EXCEPT ![i] = "released"]
          /\ UNCHANGED <<lock, stop>>
  /\ UNCHANGED <<file, slots, stamp, thread, dead, looping, passVars, rate, channelHeld,
                 armed, applied, kernelVars>>

\* Mutant of Join: wait for the watcher without a time limit.
JoinForEver(i) ==
  /\ st[i] = "joining"
  /\ rpc["watcher"] = "none"
  /\ thread' = FALSE
  /\ stop' = "closed"
  /\ lock' = None
  /\ st' = [st EXCEPT ![i] = "released"]
  /\ UNCHANGED <<file, slots, stamp, owners, refCount, dead, looping, passVars, rate,
                 channelHeld, armed, applied, kernelVars>>

\* The watcher is gone, or five seconds have passed and it is abandoned; the
\* handles are closed either way.
Join(i) ==
  /\ st[i] = "joining"
  /\ dead' = (rpc["watcher"] # "none")
  /\ thread' = FALSE
  /\ stop' = "closed"
  /\ lock' = None
  /\ st' = [st EXCEPT ![i] = "released"]
  /\ UNCHANGED <<file, slots, stamp, owners, refCount, looping, passVars, rate,
                 channelHeld, armed, applied, kernelVars>>

\* The rest of UnlockForProcess: the buffers and the format are dropped.
Dismantle(i) ==
  /\ st[i] = "released"
  /\ st' = [st EXCEPT ![i] = "idle"]
  /\ channelHeld' = [channelHeld EXCEPT ![i] = FALSE]
  /\ UNCHANGED <<file, slots, stamp, channelVars, passVars, rate, armed, applied,
                 kernelVars>>

\* The engine destroys the object and creates another for the next stream.
Replace(i) ==
  /\ st[i] = "idle"
  /\ armed' = [armed EXCEPT ![i] = FALSE]
  /\ applied' = [applied EXCEPT ![i] = 0]
  /\ incoming' = [incoming EXCEPT ![i] = None]
  /\ current' = [current EXCEPT ![i] = None]
  /\ UNCHANGED <<file, slots, stamp, channelVars, passVars, st, rate, channelHeld,
                 built>>

-----------------------------------------------------------------------------

\* What an instance's control thread has begun and will finish.
ControlStep(i) ==
  \/ AcquireRefused(i) \/ Acquire(i) \/ StartWatcher(i) \/ BeginStream(i)
  \/ Release(i) \/ Join(i) \/ Dismantle(i)

Next ==
  \/ \E ir \in Irs \union {None}, good \in BOOLEAN : WriteFile(ir, good)
  \/ Watch
  \/ Reload("control")
  \/ \E i \in Instances :
       \/ \E r \in Rates : Lock(i, r)
       \/ ControlStep(i)
       \/ Callback(i)
       \/ Unlock(i)
       \/ Replace(i)

Spec == Init /\ [][Next]_vars

\* Control threads finish what they have begun, and a stream is called back.
\* Nothing is assumed here of the watcher, which may hang in the file system
\* (the properties that need it to run say so), of the engine, which need not
\* lock or unlock anything, or of the GUI.
FairSpec ==
  /\ Spec
  /\ WF_vars(Reload("control"))
  /\ \A i \in Instances : WF_vars(ControlStep(i)) /\ WF_vars(Callback(i))

-----------------------------------------------------------------------------
(* Properties                                                              *)

\* Types of all variables.
TypeOK ==
  /\ file \in Files /\ slots \in Files
  /\ stamp \in 0..MaxWrites
  /\ lock \in Instances \union {None}
  /\ owners \in [Entries -> Instances \union {None}]
  /\ built \in [Entries -> Kernels \union {None}]
  /\ refCount \in Nat
  /\ thread \in BOOLEAN /\ dead \in BOOLEAN /\ looping \in BOOLEAN
  /\ stop \in {"open", "set", "closed"}
  /\ rpc \in [Threads -> {"none", "stat", "open", "publish", "grab", "use",
                          "offer", "loaded", "status", "fill", "wait"}]
  /\ seen \in [Threads -> 0..MaxWrites]
  /\ raw \in [Threads -> Files]
  /\ entry \in [Threads -> 1..(kMaxOwners + 1)]
  /\ owner \in [Threads -> Instances \union {None}]
  /\ rateSeen \in [Threads -> Rates \union {None}]
  /\ st \in [Instances -> {"idle", "acquiring", "loading", "acquired",
                           "streaming", "releasing", "joining", "released"}]
  /\ rate \in [Instances -> Rates]
  /\ channelHeld \in [Instances -> BOOLEAN]
  /\ armed \in [Instances -> BOOLEAN]
  /\ applied \in [Instances -> 0..MaxWrites]
  /\ incoming \in [Instances -> Kernels \union {None}]
  /\ current \in [Instances -> Kernels \union {None}]

\* The instances between a successful acquire() and the matching release().
Registered ==
  {i \in Instances : \/ st[i] \in {"loading", "acquired", "releasing"}
                     \/ st[i] = "streaming" /\ channelHeld[i]}

\* The owner table, the count and what the instances believe agree: a stream
\* is on the table exactly once while it holds the channel, never after, and
\* the count is the number of them.
TableMatchesStreams ==
  /\ \A i \in Registered : \E e \in Entries : owners[e] = i
  /\ \A e, f \in Entries : owners[e] = owners[f] /\ owners[e] # None => e = f
  /\ \A e \in Entries : owners[e] \in Registered \union {None}
  /\ refCount = Cardinality(Registered)

\* ParamSlots.h: "Exactly one writer thread".  Never two threads are inside
\* reloadIfChanged, whatever became of an earlier watcher.
SingleWriter ==
  rpc["control"] # "none" => rpc["watcher"] = "none"

\* A watcher runs only while somebody holds the channel or waits for it to
\* stop, or else it was abandoned and the channel is dead; and a dead channel
\* has no owners, so an abandoned watcher has no one left to look at.
NoOrphanWatcher ==
  /\ rpc["watcher"] # "none" => thread \/ dead
  /\ thread => refCount > 0 \/ \E i \in Instances : st[i] = "joining"
  /\ dead => refCount = 0 /\ ~thread

\* Who is inside acquire() or release(), and what that says of the channel.
LockInv ==
  /\ \A i \in Instances : st[i] \in {"loading", "joining"} <=> lock = i
  /\ \A i \in Instances : st[i] = "loading" =>
       /\ refCount # 0 /\ ~thread /\ ~dead
       /\ rpc["control"] # "none" /\ rpc["watcher"] = "none"
  /\ \A i \in Instances : st[i] = "joining" => refCount = 0 /\ thread
  /\ rpc["control"] # "none" => \E i \in Instances : st[i] = "loading"
  /\ \A i \in Instances :
       st[i] \in {"idle", "acquiring", "loading", "acquired"} => ~channelHeld[i]

\* What the locals of a pass over the owner table hold.
PassInv ==
  \A t \in Threads :
    /\ rpc[t] \in {"use", "offer", "fill"} =>
         owner[t] \in Instances /\ entry[t] \in Entries
    /\ rpc[t] = "offer" => raw[t].ir \in Irs /\ rateSeen[t] \in Rates

\* Table, count, streams and watcher agree, whoever is inside acquire() or
\* release() and wherever a pass is; this is the inductive invariant.
ChannelInv ==
  TypeOK /\ TableMatchesStreams /\ NoOrphanWatcher /\ LockInv /\ PassInv

\* The watcher is not hanging in the file system for ever.
WatcherRuns == WF_vars(Watch)

\* A stream that holds the channel of a running watcher.
Served(i) == st[i] = "streaming" /\ channelHeld[i] /\ thread

\* "A rename landing while this handle is open unlinks the old file object ...
\* we finish reading the old bytes, and the next pass picks up the new ones":
\* a valid file the GUI leaves in place reaches every served stream, whatever
\* it replaced and whenever.
ParamsReachStreams ==
  WatcherRuns =>
    \A i \in Instances :
      Served(i) /\ file.good ~> applied[i] = file.n \/ ~file.good \/ ~Served(i)

\* UnlockForProcess "must not be held up indefinitely by a thread stuck in a
\* filesystem call": the last release returns even if the watcher never does.
ReleaseReturns ==
  \A i \in Instances : st[i] = "joining" ~> st[i] # "joining"

\* "An impulse response chosen for the first time therefore engages on the
\* next stream": if the stream began armed and the watcher runs, the response
\* the parameters name is in use sooner or later.
EngagesOnNextStream ==
  WatcherRuns =>
    \A i \in Instances, ir \in Irs \ Refused :
      Served(i) /\ armed[i] /\ slots.ir = ir
        ~> \/ current[i] # None /\ current[i].ir = ir
           \/ slots.ir # ir \/ ~Served(i)

\* "Released before the buffers are torn down, so the status writer can never
\* find this instance in a half-dismantled state": an instance whose row of the
\* status block a watcher in good standing is filling in has not been torn down.
NeverDismantled ==
  rpc["watcher"] = "fill" /\ ~dead => st[owner["watcher"]] # "idle"

\* No formula tells one instance from another, so TLC may take states that differ by
\* a permutation of them for one.  Only for the safety properties.
Symmetry == Permutations(Instances)
=============================================================================
