----------------------------- MODULE ParamSlots -----------------------------
(***************************************************************************)
(* dsp/ParamSlots.h: the hand-off of a parameter block from the watcher    *)
(* thread of audiodg (publish) to the audio callback (read), and the use   *)
(* APOProcess makes of it (apo/DreamApo.cpp).                              *)
(*                                                                         *)
(* A block is abstracted to its number: publication n writes n in every    *)
(* word of the block, and 0 is the transparent block of clear().  Neither  *)
(* copy is atomic: words are copied one at a time, in any order, between   *)
(* the loads and stores of the stamps.  The release and acquire fences of  *)
(* the code are what entitles the model to one order of those accesses, as *)
(* seen by both threads.                                                   *)
(***************************************************************************)
EXTENDS Naturals

CONSTANTS
  kSlots,      \* slots in the ring, 3 in the code
  StampMod,    \* stamps are uint32_t: they count modulo 2^32
  Words,       \* the words a block is copied in
  MaxPublish   \* bound on the number of publications

ASSUME SlotsAssumption == kSlots \in Nat \ {0, 1}
ASSUME WordsAssumption == Words # {}
ASSUME PublishAssumption == MaxPublish \in Nat
\* No stamp wraps: a slot would have to be published 2^31 times, which at one
\* publication per 30 ms debounce interval takes two years.
ASSUME StampAssumption == StampMod \in Nat /\ 2 * MaxPublish < StampMod

VARIABLES
  slot,       \* m_slot: the blocks, word by word
  stamp,      \* m_stamp: odd while a slot is in flux
  active,     \* m_active: the slot readers are sent to
  published,  \* number of the last block whose publication has begun
  wpc,        \* where publish() is
  wnext,      \* its local `next`
  wtodo,      \* words its memcpy has still to write
  rpc,        \* where read(), or the callback around it, is
  attempt,    \* its local `attempt`
  ri, rs0,    \* its locals `i` and `s0`
  rtodo,      \* words its memcpy has still to fetch
  pending,    \* m_pending: the caller's copy, which read() copies into
  applied,    \* what EffectChain::apply was last given
  got,        \* history: the snapshot of the last accepted read
  floor       \* history: last finished publication when the read began

writerVars == <<slot, stamp, active, published, wpc, wnext, wtodo>>
readerVars == <<rpc, attempt, ri, rs0, rtodo, pending, applied, got, floor>>
vars == <<slot, stamp, active, published, wpc, wnext, wtodo,
          rpc, attempt, ri, rs0, rtodo, pending, applied, got, floor>>

Slots  == 0..(kSlots - 1)
Blocks == 0..MaxPublish
Stamps == 0..(StampMod - 1)
Snapshots == [Words -> Blocks]

\* One block, whole.
Whole(n) == [w \in Words |-> n]

\* The last block whose publication has finished: it is the one in m_active.
Finished == IF wpc = "idle" THEN published ELSE published - 1

-----------------------------------------------------------------------------
(* clear(), and an instance that has been locked: m_pending is zeroed.     *)

Init ==
  /\ slot = [i \in Slots |-> Whole(0)]
  /\ stamp = [i \in Slots |-> 0]
  /\ active = 0
  /\ published = 0
  /\ wpc = "idle" /\ wnext = 0 /\ wtodo = {}
  /\ rpc = "idle" /\ attempt = 0 /\ ri = 0 /\ rs0 = 0 /\ rtodo = {}
  /\ pending = Whole(0)
  /\ applied = Whole(0)
  /\ got = Whole(0)
  /\ floor = 0

-----------------------------------------------------------------------------
(* publish(): the single writer.                                           *)

\* Mutant of NextSlot: the ring is not closed.
NextSlotUnwrapped(i) == i + 1

NextSlot(i)  == (i + 1) % kSlots
NextStamp(s) == (s + 1) % StampMod

\* Mutant of PublishMark: the stamp stays even while the slot is in flux.
PublishUnmarked ==
  /\ wpc = "idle"
  /\ published < MaxPublish
  /\ published' = published + 1
  /\ wnext' = NextSlot(active)
  /\ wtodo' = Words
  /\ wpc' = "copy"
  /\ UNCHANGED <<slot, stamp, active>>
  /\ UNCHANGED readerVars

\* Pick the slot after the active one and make its stamp odd.
PublishMark ==
  /\ wpc = "idle"
  /\ published < MaxPublish
  /\ published' = published + 1
  /\ wnext' = NextSlot(active)
  /\ stamp' = [stamp EXCEPT ![NextSlot(active)] = NextStamp(@)]
  /\ wtodo' = Words
  /\ wpc' = "copy"
  /\ UNCHANGED <<slot, active>>
  /\ UNCHANGED readerVars

\* One word of memcpy(&m_slot[next], &b, sizeof b).
PublishCopy ==
  /\ wpc = "copy"
  /\ \E w \in wtodo :
       /\ slot' = [slot EXCEPT ![wnext][w] = published]
       /\ wtodo' = wtodo \ {w}
  /\ UNCHANGED <<stamp, active, published, wpc, wnext>>
  /\ UNCHANGED readerVars

\* The copy is done: make the stamp even again.
PublishSettle ==
  /\ wpc = "copy"
  /\ wtodo = {}
  /\ stamp' = [stamp EXCEPT ![wnext] = NextStamp(@)]
  /\ wpc' = "store"
  /\ UNCHANGED <<slot, active, published, wnext, wtodo>>
  /\ UNCHANGED readerVars

\* Mutant of PublishStore: m_active counts once too often.
PublishStoreAhead ==
  /\ wpc = "store"
  /\ active' = NextSlot(wnext)
  /\ wpc' = "idle"
  /\ UNCHANGED <<slot, stamp, published, wnext, wtodo>>
  /\ UNCHANGED readerVars

\* Mutant of PublishStore: m_active is never stored.
PublishStoreForgotten ==
  /\ wpc = "store"
  /\ wpc' = "idle"
  /\ UNCHANGED <<slot, stamp, active, published, wnext, wtodo>>
  /\ UNCHANGED readerVars

\* Send readers to the new slot.
PublishStore ==
  /\ wpc = "store"
  /\ active' = wnext
  /\ wpc' = "idle"
  /\ UNCHANGED <<slot, stamp, published, wnext, wtodo>>
  /\ UNCHANGED readerVars

-----------------------------------------------------------------------------
(* read(), called by APOProcess on m_pending itself.                       *)

ReadBegin ==
  /\ rpc = "idle"
  /\ rpc' = "load"
  /\ attempt' = 0
  /\ floor' = Finished
  /\ UNCHANGED <<ri, rs0, rtodo, pending, applied, got>>
  /\ UNCHANGED writerVars

ReadLoadActive ==
  /\ rpc = "load"
  /\ ri' = active % kSlots
  /\ rpc' = "stamp"
  /\ UNCHANGED <<attempt, rs0, rtodo, pending, applied, got, floor>>
  /\ UNCHANGED writerVars

\* The attempt came to nothing: make the second one, or return false.
GiveUpAttempt ==
  /\ attempt' = attempt + 1
  /\ rpc' = IF attempt + 1 < 2 THEN "load" ELSE "apply"

\* Mutant of ReadLoadStamp: as in a textbook seqlock, wait for an even stamp.
ReadAwaitStamp ==
  /\ rpc = "stamp"
  /\ stamp[ri] % 2 = 0
  /\ rs0' = stamp[ri]
  /\ rpc' = "copy"
  /\ rtodo' = Words
  /\ UNCHANGED <<attempt, ri, pending, applied, got, floor>>
  /\ UNCHANGED writerVars

\* An odd stamp ends the attempt before anything is copied.
ReadLoadStamp ==
  /\ rpc = "stamp"
  /\ rs0' = stamp[ri]
  /\ IF stamp[ri] % 2 = 1
     THEN GiveUpAttempt /\ UNCHANGED rtodo
     ELSE rpc' = "copy" /\ rtodo' = Words /\ UNCHANGED attempt
  /\ UNCHANGED <<ri, pending, applied, got, floor>>
  /\ UNCHANGED writerVars

\* One word of memcpy(out, &m_slot[i], sizeof *out): straight into m_pending.
ReadCopy ==
  /\ rpc = "copy"
  /\ \E w \in rtodo :
       /\ pending' = [pending EXCEPT ![w] = slot[ri][w]]
       /\ rtodo' = rtodo \ {w}
  /\ UNCHANGED <<rpc, attempt, ri, rs0, applied, got, floor>>
  /\ UNCHANGED writerVars

\* Mutant of ReadCheck: the stamp is not looked at again after the copy.
ReadTrust ==
  /\ rpc = "copy"
  /\ rtodo = {}
  /\ rpc' = "apply"
  /\ got' = pending
  /\ UNCHANGED <<attempt, ri, rs0, rtodo, pending, applied, floor>>
  /\ UNCHANGED writerVars

\* The stamp has not moved: accept.  Otherwise retry or return false, leaving
\* in m_pending whatever was copied.
ReadCheck ==
  /\ rpc = "copy"
  /\ rtodo = {}
  /\ IF stamp[ri] = rs0
     THEN rpc' = "apply" /\ got' = pending /\ UNCHANGED attempt
     ELSE GiveUpAttempt /\ UNCHANGED got
  /\ UNCHANGED <<ri, rs0, rtodo, pending, applied, floor>>
  /\ UNCHANGED writerVars

\* m_chain.apply(m_pending): the result of read() is discarded.
Apply ==
  /\ rpc = "apply"
  /\ applied' = pending
  /\ rpc' = "idle"
  /\ UNCHANGED <<attempt, ri, rs0, rtodo, pending, got, floor>>
  /\ UNCHANGED writerVars

-----------------------------------------------------------------------------

Publish == PublishMark \/ PublishCopy \/ PublishSettle \/ PublishStore
Read == ReadLoadActive \/ ReadLoadStamp \/ ReadCopy \/ ReadCheck \/ Apply
Callback == ReadBegin \/ Read

Next == Publish \/ Callback

Spec == Init /\ [][Next]_vars

\* The audio engine calls back for as long as the stream is open.  Nothing is
\* assumed of the writer: it may stop for ever in the middle of a publication.
FairSpec == Spec /\ WF_vars(Callback)

-----------------------------------------------------------------------------
(* Properties                                                              *)

\* Types of all variables.
TypeOK ==
  /\ slot \in [Slots -> Snapshots]
  /\ stamp \in [Slots -> Stamps]
  /\ active \in Slots
  /\ published \in Blocks
  /\ wpc \in {"idle", "copy", "store"}
  /\ wnext \in Slots
  /\ wtodo \subseteq Words
  /\ rpc \in {"idle", "load", "stamp", "copy", "apply"}
  /\ attempt \in 0..2
  /\ ri \in Slots
  /\ rs0 \in Stamps
  /\ rtodo \subseteq Words
  /\ pending \in Snapshots
  /\ applied \in Snapshots
  /\ got \in Snapshots
  /\ floor \in Blocks

\* The claim of ParamSlots.h that "it is the stamps plus the explicit ordering
\* that make an accepted snapshot consistent": an accepted read returned one
\* published block and no mixture of two.
AcceptedIsWhole == \E n \in 0..published : got = Whole(n)

\* Where the writer has got to: every slot it is not in is settled and whole,
\* the active slot holds the last finished block, and no stamp has wrapped.
WriterInv ==
  /\ \A i \in Slots : (wpc = "idle" \/ i # wnext) =>
       /\ stamp[i] % 2 = 0
       /\ \E n \in Blocks : n <= Finished /\ slot[i] = Whole(n)
  /\ \A i \in Slots : stamp[i] <= 2 * published
  /\ \A i \in Slots, w \in Words : slot[i][w] <= published
  /\ slot[active] = Whole(Finished)
  /\ wpc # "idle" => published > 0 /\ wnext = NextSlot(active)
  /\ wpc = "copy" =>
       /\ stamp[wnext] % 2 = 1
       /\ stamp[wnext] <= 2 * published - 1
       /\ \A w \in Words \ wtodo : slot[wnext][w] = published
  /\ wpc = "store" => stamp[wnext] % 2 = 0 /\ slot[wnext] = Whole(published)

\* Where the reader has got to: while the stamp it took is still there, what
\* it has copied is what the slot holds, and the slot is whole; and nothing it
\* has copied in this attempt is older than the block finished when it began.
ReaderInv ==
  /\ floor <= Finished
  /\ rpc \in {"load", "stamp", "copy"} => attempt < 2
  /\ rpc \in {"stamp", "copy"} => \A w \in Words : slot[ri][w] >= floor
  /\ rpc = "copy" =>
       /\ rs0 % 2 = 0
       /\ rs0 <= stamp[ri]
       /\ stamp[ri] = rs0 => \A w \in Words \ rtodo : pending[w] = slot[ri][w]

\* No accepted read is torn, with what makes that inductive: where the writer
\* is, and what the stamp a reader took still tells it.
SlotInv == TypeOK /\ WriterInv /\ ReaderInv /\ AcceptedIsWhole

\* The register that ParamRegister describes.
AnyWord == CHOOSE w \in Words : TRUE
Register == INSTANCE ParamRegister WITH
              begun <- published, finished <- Finished, got <- got[AnyWord]

\* Every accepted read returns a whole block between the last one finished
\* when the read began and the last one begun.
ImplementsRegister == Register!RSpec

\* "At most two attempts: no lock, no spin, and no loop whose bound depends on
\* another thread making progress": a callback in read() gets out of it, even
\* if the writer never takes another step.
ReadReturns == rpc # "idle" ~> rpc = "idle"

\* Every publication that finishes reaches the effects, or a later one does,
\* even if the writer then stops in the middle of the next: the slots do not
\* lose the user's last change, and a stuck writer does not hide it.
PublishReachesAudio ==
  \A n \in Blocks : Finished = n ~> \A w \in Words : applied[w] >= n

\* Neither side keeps the other from getting through: a callback gets out of
\* read(), and what publish() has finished reaches the effects.
Delivery == ReadReturns /\ PublishReachesAudio

\* DreamApo.cpp: "if both catch the publisher mid-write, m_pending keeps what
\* it already had".  If so the effects are only ever given a published block.
AppliedIsWhole == \E n \in 0..published : applied = Whole(n)
=============================================================================
