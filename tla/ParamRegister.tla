--------------------------- MODULE ParamRegister ---------------------------
(***************************************************************************)
(* What ParamSlots promises its one reader, with the slots, the stamps and *)
(* the copying taken away: a regular register.  Blocks are numbered in the *)
(* order they are published; block 0 is the transparent block the register *)
(* is cleared to.  A read that is accepted returns one whole block, and    *)
(* that block is no older than the last one whose publication had finished *)
(* when the read began, and no newer than the last one begun.              *)
(***************************************************************************)
EXTENDS Naturals

CONSTANT MaxPublish   \* bound on the number of publications

VARIABLES
  begun,     \* number of the last block whose publication has begun
  finished,  \* number of the last block whose publication has finished
  floor,     \* value of finished when the current (or last) read began
  got        \* the block returned by the last accepted read

rvars == <<begun, finished, floor, got>>

Blocks == 0..MaxPublish

RInit ==
  /\ begun = 0
  /\ finished = 0
  /\ floor = 0
  /\ got = 0

\* The single writer starts the next block; it must have finished the last.
BeginPublish ==
  /\ begun = finished
  /\ begun < MaxPublish
  /\ begun' = begun + 1
  /\ UNCHANGED <<finished, floor, got>>

FinishPublish ==
  /\ finished < begun
  /\ finished' = begun
  /\ UNCHANGED <<begun, floor, got>>

BeginRead ==
  /\ floor' = finished
  /\ UNCHANGED <<begun, finished, got>>

\* A refused read has no step of its own: it leaves the register alone.
AcceptRead ==
  /\ got' \in floor..begun
  /\ UNCHANGED <<begun, finished, floor>>

RNext == BeginPublish \/ FinishPublish \/ BeginRead \/ AcceptRead

RSpec == RInit /\ [][RNext]_rvars
=============================================================================
