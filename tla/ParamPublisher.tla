--------------------------- MODULE ParamPublisher ---------------------------
(***************************************************************************)
(* app/ParamPublisher.cpp: the window's end of the parameter file.  A      *)
(* change restarts a 30 ms single-shot timer; when it fires the whole      *)
(* block is written as the next generation.  An impulse response goes into *)
(* a file of its own, named by its hash, before the block that names it.   *)
(*                                                                         *)
(* The values the models hold are one value, body.  A hash stands for the  *)
(* samples it was computed from, and NoImpulse for irGeneration = 0.       *)
(***************************************************************************)
EXTENDS Naturals

CONSTANTS
  Impulses,   \* the impulse responses on this machine
  NoImpulse,
  Bodies,     \* what the models can hold
  NoFile      \* params.bin absent, or refused by load()

ASSUME NoImpulseAssumption == NoImpulse \notin Impulses

VARIABLES
  pub,        \* the publisher's own fields
  pubTimer,   \* m_timer is running
  params,     \* params.bin
  blobs       \* the hashes that have a file in ir/

publisherVars == <<pub, pubTimer, params, blobs>>

Publisher ==
  [gen : Nat, hash : Impulses \cup {NoImpulse}, irOn : BOOLEAN,
   eqHere : BOOLEAN, master : BOOLEAN]

\* What a fresh ParamPublisher holds, before load().
Fresh == [gen |-> 0, hash |-> NoImpulse, irOn |-> FALSE,
          eqHere |-> FALSE, master |-> TRUE]

Blocks ==
  [gen : Nat, body : Bodies, eq : BOOLEAN, conv : Impulses \cup {NoImpulse},
   convOn : BOOLEAN, bypass : BOOLEAN]

ASSUME NoFileAssumption == NoFile \notin Blocks

\* publishNow's block: the parameters go whatever the switches say, and the
\* convolution's bit only with an impulse response to run.
Block(p, body) ==
  [gen |-> p.gen, body |-> body, eq |-> p.eqHere, conv |-> p.hash,
   convOn |-> p.irOn /\ p.hash # NoImpulse, bypass |-> ~p.master]

\* schedule(), after the setters have left the publisher as p.
Schedule(p) == pub' = p /\ pubTimer' = TRUE

\* publishNow(), the publisher being p: the number is taken before the file is
\* written, so a write that fails uses one up.
Numbered(p) == [p EXCEPT !.gen = @ + 1]
WriteParams(p, body, ok) == params' = IF ok THEN Block(p, body) ELSE params
PublishNow(p, body, ok) ==
  /\ pub' = Numbered(p)
  /\ pubTimer' = FALSE
  /\ WriteParams(Numbered(p), body, ok)

\* The setters of the controller's side, and of the convolution switch.
WithSources(p, eqHere, master) == [p EXCEPT !.eqHere = eqHere, !.master = master]
WithImpulseOn(p, on) == [p EXCEPT !.irOn = on]

\* Mutant of WriteBlob: the block goes out before the file.
WriteNoBlob(ir) == blobs' = blobs

\* publishImpulse, its first half: the samples are on disk under their hash.
WriteBlob(ir) == blobs' = blobs \cup {ir}

\* ... and what its second half leaves for publishNow.
WithImpulse(p, ir) == [p EXCEPT !.hash = ir]

\* clearImpulse, before its publishNow; the blob stays where it is.
WithoutImpulse(p) == [p EXCEPT !.hash = NoImpulse, !.irOn = FALSE]

\* Mutant of Loaded: the counter restarts with the program.
LoadedUncounted ==
  IF params = NoFile THEN Fresh
  ELSE [Fresh EXCEPT !.hash = params.conv, !.irOn = params.convOn]

\* load() of a file it accepts: the counter goes on from the file, the
\* convolution and its switch come back.  Who runs the equaliser, the master
\* switch and the equaliser's own curve do not.
Loaded ==
  IF params = NoFile THEN Fresh
  ELSE [Fresh EXCEPT !.gen = params.gen, !.hash = params.conv, !.irOn = params.convOn]

=============================================================================
