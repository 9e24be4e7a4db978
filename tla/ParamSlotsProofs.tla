-------------------------- MODULE ParamSlotsProofs --------------------------
(***************************************************************************)
(* Proofs about ParamSlots: an accepted read is one whole block, and the   *)
(* slots implement the register of ParamRegister, for every number of      *)
(* slots from two, every block size and every bound on the publications    *)
(* under which no stamp wraps.                                             *)
(***************************************************************************)
EXTENDS ParamSlots, TLAPS

\* The slot after a slot is a slot, and another one.
LEMMA NextSlotOther ==
  ASSUME NEW i \in Slots
  PROVE  NextSlot(i) \in Slots /\ NextSlot(i) # i
BY SlotsAssumption DEF Slots, NextSlot

\* A stamp that has not been used up counts up by one and changes parity.
LEMMA NextStampCounts ==
  ASSUME NEW s \in Stamps, s + 1 < StampMod
  PROVE  /\ NextStamp(s) = s + 1
         /\ NextStamp(s) \in Stamps
         /\ s % 2 = 0 => (s + 1) % 2 = 1
         /\ s % 2 = 1 => (s + 1) % 2 = 0
<1>1. StampMod \in Nat /\ s \in Nat
  BY StampAssumption DEF Stamps
<1>2. NextStamp(s) = s + 1
  BY <1>1 DEF NextStamp
<1>3. QED
  BY <1>1, <1>2 DEF Stamps

LEMMA WholeIsSnapshot == ASSUME NEW n \in Blocks PROVE Whole(n) \in Snapshots
BY DEF Whole, Snapshots

\* A word written to every place makes the block whole.
LEMMA WholeFromWords ==
  ASSUME NEW b \in Snapshots, NEW n \in Blocks, \A w \in Words : b[w] = n
  PROVE  b = Whole(n)
BY DEF Whole, Snapshots

LEMMA FinishedInBlocks ==
  ASSUME TypeOK, WriterInv
  PROVE  Finished \in Blocks /\ Finished <= published
BY PublishAssumption DEF TypeOK, WriterInv, Finished, Blocks

LEMMA InitSlotInv == Init => SlotInv
<1> SUFFICES ASSUME Init PROVE SlotInv
  OBVIOUS
<1>1. 0 \in Blocks /\ 0 \in Slots /\ 0 \in Stamps /\ 0 % 2 = 0
  BY PublishAssumption, SlotsAssumption, StampAssumption
     DEF Blocks, Slots, Stamps
<1>2. Whole(0) \in Snapshots
  BY <1>1, WholeIsSnapshot
<1>3. TypeOK
  BY <1>1, <1>2 DEF Init, TypeOK
<1>4. Finished = 0 /\ published = 0
  BY DEF Init, Finished
<1>5. WriterInv
  BY <1>1, <1>4 DEF Init, WriterInv, Whole
<1>6. ReaderInv
  BY <1>4 DEF Init, ReaderInv
<1>7. AcceptedIsWhole
  BY DEF Init, AcceptedIsWhole
<1>8. QED
  BY <1>3, <1>5, <1>6, <1>7 DEF SlotInv

-----------------------------------------------------------------------------
(* The steps of the writer.                                                *)

LEMMA MarkInv == SlotInv /\ PublishMark => SlotInv'
<1> SUFFICES ASSUME SlotInv, PublishMark PROVE SlotInv'
  OBVIOUS
<1> USE DEF SlotInv
<1> DEFINE n == NextSlot(active)
<1>1. n \in Slots /\ n # active
  BY NextSlotOther DEF TypeOK
<1>2. published \in Nat /\ published' = published + 1 /\ published' \in Blocks
  BY PublishAssumption DEF PublishMark, TypeOK, Blocks
<1>3. stamp[n] \in Stamps /\ stamp[n] <= 2 * published /\ stamp[n] % 2 = 0
  BY <1>1 DEF TypeOK, WriterInv, PublishMark
<1>4. stamp[n] \in Nat /\ stamp[n] + 1 < StampMod
  BY <1>2, <1>3, StampAssumption, PublishAssumption DEF Stamps, Blocks
<1>5. /\ NextStamp(stamp[n]) = stamp[n] + 1
      /\ NextStamp(stamp[n]) \in Stamps
      /\ (stamp[n] + 1) % 2 = 1
  BY <1>3, <1>4, NextStampCounts
<1>6. /\ stamp' = [stamp EXCEPT ![n] = stamp[n] + 1]
      /\ wnext' = n /\ wtodo' = Words /\ wpc = "idle" /\ wpc' = "copy"
      /\ UNCHANGED <<slot, active>> /\ UNCHANGED readerVars
  BY <1>1, <1>5 DEF PublishMark, TypeOK
<1>7. Finished = published /\ Finished' = published
  BY <1>2, <1>6 DEF Finished
<1>8. TypeOK'
  BY <1>1, <1>2, <1>5, <1>6 DEF TypeOK, readerVars
<1>9. WriterInv'
  <2>1. \A i \in Slots : (wpc' = "idle" \/ i # wnext') =>
          /\ stamp'[i] % 2 = 0
          /\ \E k \in Blocks : k <= Finished' /\ slot'[i] = Whole(k)
    BY <1>6, <1>7 DEF WriterInv, TypeOK
  <2>2. \A i \in Slots : stamp'[i] <= 2 * published'
    BY <1>1, <1>2, <1>3, <1>4, <1>6 DEF WriterInv, TypeOK, Stamps
  <2>3. \A i \in Slots, w \in Words : slot'[i][w] <= published'
    BY <1>2, <1>6 DEF WriterInv, TypeOK, Snapshots, Blocks
  <2>4. slot'[active'] = Whole(Finished')
    BY <1>6, <1>7 DEF WriterInv, TypeOK
  <2>5. wpc' # "idle" => published' > 0 /\ wnext' = NextSlot(active')
    BY <1>2, <1>6
  <2>6. wpc' = "copy" =>
          /\ stamp'[wnext'] % 2 = 1
          /\ stamp'[wnext'] <= 2 * published' - 1
          /\ \A w \in Words \ wtodo' : slot'[wnext'][w] = published'
    BY <1>1, <1>2, <1>3, <1>4, <1>5, <1>6 DEF TypeOK
  <2>7. QED
    BY <1>6, <2>1, <2>2, <2>3, <2>4, <2>5, <2>6 DEF WriterInv, Whole
<1>10. ReaderInv'
  <2>1. \A i \in Slots : stamp'[i] = stamp[i] \/ stamp'[i] = stamp[i] + 1
    BY <1>6 DEF TypeOK
  <2>2. \A i \in Slots : stamp[i] \in Nat
    BY StampAssumption DEF TypeOK, Stamps
  <2>3. rs0 \in Nat /\ ri \in Slots
    BY StampAssumption DEF TypeOK, Stamps
  <2>4. QED
    BY <1>6, <1>7, <2>1, <2>2, <2>3 DEF ReaderInv, readerVars
<1>11. AcceptedIsWhole'
  BY <1>2, <1>6 DEF AcceptedIsWhole, readerVars, Whole
<1>12. QED
  BY <1>8, <1>9, <1>10, <1>11

LEMMA CopyInv == SlotInv /\ PublishCopy => SlotInv'
<1> SUFFICES ASSUME SlotInv, PublishCopy PROVE SlotInv'
  OBVIOUS
<1> USE DEF SlotInv
<1>1. PICK w \in wtodo : /\ slot' = [slot EXCEPT ![wnext][w] = published]
                         /\ wtodo' = wtodo \ {w}
  BY DEF PublishCopy
<1>2. /\ wpc = "copy" /\ UNCHANGED <<stamp, active, published, wpc, wnext>>
      /\ UNCHANGED readerVars
  BY DEF PublishCopy
<1>3. wnext \in Slots /\ w \in Words /\ wnext # active /\ active \in Slots
  BY <1>2, NextSlotOther DEF TypeOK, WriterInv
<1>4. /\ published \in Nat /\ published > 0 /\ published \in Blocks
      /\ Finished = published - 1 /\ Finished' = Finished
  BY <1>2, PublishAssumption DEF TypeOK, WriterInv, Blocks, Finished
<1>5. /\ slot'[wnext] = [slot[wnext] EXCEPT ![w] = published]
      /\ \A i \in Slots : i # wnext => slot'[i] = slot[i]
      /\ slot[wnext] \in Snapshots
  BY <1>1, <1>3 DEF TypeOK
<1>6. TypeOK'
  <2>1. slot' \in [Slots -> Snapshots]
    BY <1>1, <1>3, <1>4, <1>5 DEF TypeOK, Snapshots
  <2>2. QED
    BY <1>1, <1>2, <2>1 DEF TypeOK, readerVars
<1>7. \A i \in Slots, v \in Words :
        slot'[i][v] = slot[i][v] \/ (i = wnext /\ slot'[i][v] = published)
  BY <1>3, <1>5 DEF Snapshots
<1>8. WriterInv'
  <2>1. \A i \in Slots : (wpc' = "idle" \/ i # wnext') =>
          /\ stamp'[i] % 2 = 0
          /\ \E k \in Blocks : k <= Finished' /\ slot'[i] = Whole(k)
    BY <1>2, <1>4, <1>5 DEF WriterInv
  <2>2. \A i \in Slots, v \in Words : slot'[i][v] <= published'
    BY <1>2, <1>4, <1>7 DEF WriterInv
  <2>3. slot'[active'] = Whole(Finished')
    BY <1>2, <1>3, <1>4, <1>5 DEF WriterInv
  <2>4. \A v \in Words \ wtodo' : slot'[wnext'][v] = published'
    BY <1>1, <1>2, <1>3, <1>5 DEF WriterInv, Snapshots
  <2>5. QED
    BY <1>2, <1>3, <2>1, <2>2, <2>3, <2>4 DEF WriterInv
<1>9. ReaderInv'
  <2>1. floor \in Nat /\ floor <= published
    BY <1>4, PublishAssumption DEF TypeOK, ReaderInv, Blocks
  <2>2. rpc' \in {"stamp", "copy"} => \A v \in Words : slot'[ri'][v] >= floor'
    BY <1>2, <1>7, <2>1 DEF ReaderInv, TypeOK, readerVars
  <2>3. rpc = "copy" /\ stamp[ri] = rs0 => ri # wnext
    BY <1>2 DEF ReaderInv, WriterInv
  <2>4. rpc' = "copy" /\ stamp'[ri'] = rs0' =>
          \A v \in Words \ rtodo' : pending'[v] = slot'[ri'][v]
    BY <1>2, <1>5, <2>3 DEF ReaderInv, TypeOK, readerVars
  <2>5. QED
    BY <1>2, <1>4, <2>2, <2>4 DEF ReaderInv, readerVars
<1>10. AcceptedIsWhole'
  BY <1>2 DEF AcceptedIsWhole, readerVars
<1>11. QED
  BY <1>6, <1>8, <1>9, <1>10

LEMMA SettleInv == SlotInv /\ PublishSettle => SlotInv'
<1> SUFFICES ASSUME SlotInv, PublishSettle PROVE SlotInv'
  OBVIOUS
<1> USE DEF SlotInv
<1>1. /\ wpc = "copy" /\ wpc' = "store" /\ wtodo = {} /\ wnext \in Slots
      /\ UNCHANGED <<slot, active, published, wnext, wtodo>>
      /\ UNCHANGED readerVars
  BY DEF PublishSettle, TypeOK
<1>2. published \in Nat /\ published <= MaxPublish /\ published \in Blocks
  BY PublishAssumption DEF TypeOK, Blocks
<1>3. /\ stamp[wnext] \in Stamps /\ stamp[wnext] % 2 = 1
      /\ stamp[wnext] <= 2 * published - 1
  BY <1>1 DEF TypeOK, WriterInv
<1>4. stamp[wnext] \in Nat /\ stamp[wnext] + 1 < StampMod
  BY <1>2, <1>3, StampAssumption, PublishAssumption DEF Stamps
<1>5. /\ NextStamp(stamp[wnext]) = stamp[wnext] + 1
      /\ NextStamp(stamp[wnext]) \in Stamps
      /\ (stamp[wnext] + 1) % 2 = 0
  BY <1>3, <1>4, NextStampCounts
<1>6. stamp' = [stamp EXCEPT ![wnext] = stamp[wnext] + 1]
  BY <1>1, <1>5 DEF PublishSettle, TypeOK
<1>7. Finished' = Finished
  BY <1>1 DEF Finished
<1>8. TypeOK'
  BY <1>1, <1>5, <1>6 DEF TypeOK, readerVars
<1>9. WriterInv'
  <2>1. slot[wnext] = Whole(published)
    BY <1>1, <1>2, WholeFromWords DEF WriterInv, TypeOK
  <2>2. \A i \in Slots : stamp'[i] <= 2 * published'
    BY <1>1, <1>2, <1>3, <1>4, <1>6 DEF WriterInv, TypeOK
  <2>3. QED
    BY <1>1, <1>5, <1>6, <1>7, <2>1, <2>2 DEF WriterInv, TypeOK, Whole
<1>10. ReaderInv'
  <2>1. \A i \in Slots : stamp[i] \in Nat
                         /\ (stamp'[i] = stamp[i] \/ stamp'[i] = stamp[i] + 1)
    BY <1>6, StampAssumption DEF TypeOK, Stamps
  <2>2. rs0 \in Nat /\ ri \in Slots
    BY StampAssumption DEF TypeOK, Stamps
  <2>3. QED
    BY <1>1, <1>7, <2>1, <2>2 DEF ReaderInv, readerVars
<1>11. AcceptedIsWhole'
  BY <1>1 DEF AcceptedIsWhole, readerVars, Whole
<1>12. QED
  BY <1>8, <1>9, <1>10, <1>11

LEMMA StoreInv == SlotInv /\ PublishStore => SlotInv'
<1> SUFFICES ASSUME SlotInv, PublishStore PROVE SlotInv'
  OBVIOUS
<1> USE DEF SlotInv
<1>1. /\ wpc = "store" /\ wpc' = "idle" /\ active' = wnext /\ wnext \in Slots
      /\ UNCHANGED <<slot, stamp, published, wnext, wtodo>>
      /\ UNCHANGED readerVars
  BY DEF PublishStore, TypeOK
<1>2. /\ published \in Nat /\ published \in Blocks
      /\ Finished = published - 1 /\ Finished' = published
  BY <1>1, PublishAssumption DEF TypeOK, Blocks, Finished
<1>3. TypeOK'
  BY <1>1 DEF TypeOK, readerVars
<1>4. WriterInv'
  <2>1. \A i \in Slots : stamp[i] % 2 = 0
                         /\ \E k \in Blocks : k <= published /\ slot[i] = Whole(k)
    BY <1>1, <1>2 DEF WriterInv, Blocks
  <2>2. QED
    BY <1>1, <1>2, <2>1 DEF WriterInv, TypeOK
<1>5. ReaderInv'
  BY <1>1, <1>2, PublishAssumption DEF ReaderInv, TypeOK, Blocks, readerVars
<1>6. AcceptedIsWhole'
  BY <1>1 DEF AcceptedIsWhole, readerVars, Whole
<1>7. QED
  BY <1>3, <1>4, <1>5, <1>6

-----------------------------------------------------------------------------
(* The steps of the reader.  None of them touches what WriterInv is about. *)

LEMMA ReaderKeepsWriterInv ==
  ASSUME WriterInv, UNCHANGED writerVars
  PROVE  WriterInv' /\ Finished' = Finished
BY DEF WriterInv, writerVars, Finished, Whole

LEMMA BeginInv == SlotInv /\ ReadBegin => SlotInv'
<1> SUFFICES ASSUME SlotInv, ReadBegin PROVE SlotInv'
  OBVIOUS
<1> USE DEF SlotInv
<1>1. WriterInv' /\ Finished' = Finished
  BY ReaderKeepsWriterInv DEF ReadBegin
<1>2. Finished \in Blocks
  BY FinishedInBlocks
<1>3. TypeOK'
  BY <1>2 DEF ReadBegin, TypeOK, writerVars
<1>4. ReaderInv'
  BY <1>1, <1>2 DEF ReadBegin, ReaderInv, Blocks
<1>5. AcceptedIsWhole'
  BY DEF ReadBegin, AcceptedIsWhole, writerVars, Whole
<1>6. QED
  BY <1>1, <1>3, <1>4, <1>5

LEMMA LoadActiveInv == SlotInv /\ ReadLoadActive => SlotInv'
<1> SUFFICES ASSUME SlotInv, ReadLoadActive PROVE SlotInv'
  OBVIOUS
<1> USE DEF SlotInv
<1>1. WriterInv' /\ Finished' = Finished
  BY ReaderKeepsWriterInv DEF ReadLoadActive
<1>2. active % kSlots = active
  BY SlotsAssumption DEF TypeOK, Slots
<1>3. TypeOK'
  BY <1>2 DEF ReadLoadActive, TypeOK, writerVars
<1>4. ReaderInv'
  BY <1>1, <1>2 DEF ReadLoadActive, ReaderInv, WriterInv, TypeOK, Whole,
                    writerVars
<1>5. AcceptedIsWhole'
  BY DEF ReadLoadActive, AcceptedIsWhole, writerVars, Whole
<1>6. QED
  BY <1>1, <1>3, <1>4, <1>5

LEMMA LoadStampInv == SlotInv /\ ReadLoadStamp => SlotInv'
<1> SUFFICES ASSUME SlotInv, ReadLoadStamp PROVE SlotInv'
  OBVIOUS
<1> USE DEF SlotInv
<1>1. WriterInv' /\ Finished' = Finished
  BY ReaderKeepsWriterInv DEF ReadLoadStamp
<1>2. stamp[ri] \in Nat /\ stamp[ri] % 2 \in {0, 1} /\ attempt \in 0..1
  BY StampAssumption DEF ReadLoadStamp, ReaderInv, TypeOK, Stamps
<1>3. TypeOK'
  BY <1>2 DEF ReadLoadStamp, GiveUpAttempt, TypeOK, writerVars
<1>4. ReaderInv'
  BY <1>1, <1>2 DEF ReadLoadStamp, GiveUpAttempt, ReaderInv, TypeOK,
                    writerVars
<1>5. AcceptedIsWhole'
  BY DEF ReadLoadStamp, AcceptedIsWhole, writerVars, Whole
<1>6. QED
  BY <1>1, <1>3, <1>4, <1>5

LEMMA ReadCopyInv == SlotInv /\ ReadCopy => SlotInv'
<1> SUFFICES ASSUME SlotInv, ReadCopy PROVE SlotInv'
  OBVIOUS
<1> USE DEF SlotInv
<1>1. PICK w \in rtodo : /\ pending' = [pending EXCEPT ![w] = slot[ri][w]]
                         /\ rtodo' = rtodo \ {w}
  BY DEF ReadCopy
<1>2. /\ UNCHANGED <<rpc, attempt, ri, rs0, applied, got, floor>>
      /\ UNCHANGED writerVars /\ rpc = "copy"
  BY DEF ReadCopy
<1>3. WriterInv' /\ Finished' = Finished
  BY <1>2, ReaderKeepsWriterInv
<1>4. pending' \in Snapshots
  BY <1>1 DEF TypeOK, Snapshots
<1>5. TypeOK'
  BY <1>1, <1>2, <1>4 DEF TypeOK, writerVars
<1>6. ReaderInv'
  BY <1>1, <1>2, <1>3 DEF ReaderInv, TypeOK, Snapshots, writerVars
<1>7. AcceptedIsWhole'
  BY <1>2 DEF AcceptedIsWhole, writerVars, Whole
<1>8. QED
  BY <1>3, <1>5, <1>6, <1>7

\* The heart of the argument: a stamp that has not moved since it was read
\* even means that the whole copy came from one settled slot.
LEMMA AcceptedCopy ==
  ASSUME SlotInv, rpc = "copy", rtodo = {}, stamp[ri] = rs0
  PROVE  /\ \E n \in 0..published : pending = Whole(n)
         /\ \A w \in Words : pending[w] \in floor..published
<1> USE DEF SlotInv
<1>1. pending = slot[ri] /\ ri \in Slots
  BY DEF ReaderInv, TypeOK, Snapshots
<1>2. stamp[ri] % 2 = 0
  BY DEF ReaderInv
<1>3. Finished \in Blocks /\ Finished <= published /\ published \in Blocks
  BY FinishedInBlocks DEF TypeOK
<1>4. \E n \in Blocks : n <= published /\ slot[ri] = Whole(n)
  <2>1. CASE wpc = "idle" \/ ri # wnext
    BY <1>1, <1>3, <2>1 DEF WriterInv, Blocks
  <2>2. CASE wpc = "copy" /\ ri = wnext
    BY <1>2, <2>2 DEF WriterInv
  <2>3. CASE wpc = "store" /\ ri = wnext
    BY <1>3, <2>3 DEF WriterInv, Blocks
  <2>4. QED
    BY <2>1, <2>2, <2>3 DEF TypeOK
<1>5. \A w \in Words : /\ pending[w] \in Blocks
                        /\ pending[w] >= floor /\ pending[w] <= published
  BY <1>1 DEF ReaderInv, WriterInv, TypeOK, Snapshots
<1>6. QED
  BY <1>1, <1>3, <1>4, <1>5, PublishAssumption DEF Blocks, TypeOK

LEMMA CheckInv == SlotInv /\ ReadCheck => SlotInv'
<1> SUFFICES ASSUME SlotInv, ReadCheck PROVE SlotInv'
  OBVIOUS
<1> USE DEF SlotInv
<1>1. WriterInv' /\ Finished' = Finished
  BY ReaderKeepsWriterInv DEF ReadCheck
<1>2. attempt \in 0..1
  BY DEF ReadCheck, ReaderInv, TypeOK
<1>3. TypeOK'
  BY <1>2 DEF ReadCheck, GiveUpAttempt, TypeOK, writerVars
<1>4. ReaderInv'
  BY <1>1, <1>2 DEF ReadCheck, GiveUpAttempt, ReaderInv, TypeOK, writerVars
<1>5. AcceptedIsWhole'
  <2>1. CASE stamp[ri] = rs0
    BY <2>1, AcceptedCopy DEF ReadCheck, AcceptedIsWhole, writerVars, Whole
  <2>2. CASE stamp[ri] # rs0
    BY <2>2 DEF ReadCheck, AcceptedIsWhole, writerVars, Whole
  <2>3. QED
    BY <2>1, <2>2
<1>6. QED
  BY <1>1, <1>3, <1>4, <1>5

LEMMA ApplyInv == SlotInv /\ Apply => SlotInv'
<1> SUFFICES ASSUME SlotInv, Apply PROVE SlotInv'
  OBVIOUS
<1> USE DEF SlotInv
<1>1. WriterInv' /\ Finished' = Finished
  BY ReaderKeepsWriterInv DEF Apply
<1>2. TypeOK'
  BY DEF Apply, TypeOK, writerVars
<1>3. ReaderInv'
  BY <1>1 DEF Apply, ReaderInv
<1>4. AcceptedIsWhole'
  BY DEF Apply, AcceptedIsWhole, writerVars, Whole
<1>5. QED
  BY <1>1, <1>2, <1>3, <1>4

-----------------------------------------------------------------------------

\* SlotInv, the conjunction of the type invariant, of where publish() and
\* read() have got to and of AcceptedIsWhole, holds in every state.
THEOREM SlotsInvariant == Spec => []SlotInv
<1>1. SlotInv /\ [Next]_vars => SlotInv'
  <2> SUFFICES ASSUME SlotInv, [Next]_vars PROVE SlotInv'
    OBVIOUS
  <2>1. CASE Publish
    BY <2>1, MarkInv, CopyInv, SettleInv, StoreInv DEF Publish
  <2>2. CASE ReadBegin
    BY <2>2, BeginInv
  <2>3. CASE Read
    BY <2>3, LoadActiveInv, LoadStampInv, ReadCopyInv, CheckInv, ApplyInv
       DEF Read
  <2>4. CASE UNCHANGED vars
    BY <2>4 DEF vars, SlotInv, TypeOK, WriterInv, ReaderInv, AcceptedIsWhole,
                Finished, Whole
  <2>5. QED
    BY <2>1, <2>2, <2>3, <2>4 DEF Next, Callback
<1>2. QED
  BY <1>1, InitSlotInv, PTL DEF Spec

\* Every variable keeps its type.
THEOREM SlotsType == Spec => []TypeOK
BY SlotsInvariant, PTL DEF SlotInv

\* No accepted read ever mixes two blocks.
THEOREM AcceptedNeverTorn == Spec => []AcceptedIsWhole
BY SlotsInvariant, PTL DEF SlotInv

-----------------------------------------------------------------------------
(* The slots implement the register.                                       *)

LEMMA AnyWordIsWord == AnyWord \in Words
BY WordsAssumption DEF AnyWord

LEMMA InitRefines == Init => Register!RInit
BY AnyWordIsWord DEF Init, Register!RInit, Finished, Whole

LEMMA PublishRefines ==
  ASSUME SlotInv, Publish PROVE [Register!RNext]_(Register!rvars)
<1> USE DEF SlotInv
<1>1. published \in Nat
  BY PublishAssumption DEF TypeOK, Blocks
<1>2. CASE PublishMark
  BY <1>1, <1>2 DEF PublishMark, Finished, readerVars, Register!RNext,
                    Register!BeginPublish
<1>3. CASE PublishCopy
  BY <1>3 DEF PublishCopy, Finished, readerVars, Register!rvars
<1>4. CASE PublishSettle
  BY <1>4 DEF PublishSettle, Finished, readerVars, Register!rvars
<1>5. CASE PublishStore
  BY <1>1, <1>5 DEF PublishStore, Finished, readerVars, Register!RNext,
                    Register!FinishPublish
<1>6. QED
  BY <1>2, <1>3, <1>4, <1>5 DEF Publish

LEMMA ReadRefines ==
  ASSUME SlotInv, Callback PROVE [Register!RNext]_(Register!rvars)
<1> USE DEF SlotInv
<1>1. UNCHANGED <<published, Finished>>
  BY DEF Callback, Read, ReadBegin, ReadLoadActive, ReadLoadStamp, ReadCopy,
         ReadCheck, Apply, writerVars, Finished
<1>2. CASE ReadBegin
  BY <1>1, <1>2 DEF ReadBegin, Register!RNext, Register!BeginRead
<1>3. CASE ReadCheck /\ stamp[ri] = rs0
  <2>1. got'[AnyWord] \in floor..published
    BY <1>3, AcceptedCopy, AnyWordIsWord DEF ReadCheck
  <2>2. UNCHANGED floor
    BY <1>3 DEF ReadCheck
  <2>3. QED
    BY <1>1, <2>1, <2>2 DEF Register!RNext, Register!AcceptRead
<1>4. CASE ReadCheck /\ stamp[ri] # rs0
  BY <1>1, <1>4 DEF ReadCheck, Register!rvars
<1>5. CASE ReadLoadActive \/ ReadLoadStamp \/ ReadCopy \/ Apply
  BY <1>1, <1>5 DEF ReadLoadActive, ReadLoadStamp, ReadCopy, Apply,
                    Register!rvars
<1>6. QED
  BY <1>2, <1>3, <1>4, <1>5 DEF Callback, Read

\* Every behaviour of the slots is one of the register: an accepted read
\* returns a block at least as new as the last one whose publication had
\* finished when the read began.
THEOREM SlotsImplementRegister == Spec => ImplementsRegister
<1>1. SlotInv /\ [Next]_vars => [Register!RNext]_(Register!rvars)
  <2> SUFFICES ASSUME SlotInv, [Next]_vars
               PROVE  [Register!RNext]_(Register!rvars)
    OBVIOUS
  <2>1. CASE UNCHANGED vars
    BY <2>1 DEF vars, Register!rvars, Finished
  <2>2. QED
    BY <2>1, PublishRefines, ReadRefines DEF Next
<1>2. QED
  BY <1>1, InitRefines, SlotsInvariant, PTL
     DEF Spec, ImplementsRegister, Register!RSpec
=============================================================================
