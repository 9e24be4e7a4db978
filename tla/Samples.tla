------------------------------ MODULE Samples ------------------------------
(* dsp/DspTypes: samples that are not numbers, and what is done about them. *)
EXTENDS Integers

CONSTANT NaN

IsNumber(v) == v # NaN

\* railed(), below the rail; and Convolver.h's scrubNonFinite.
Sound(v) == IF IsNumber(v) THEN v ELSE 0

\* clampTo()
Clamp(x, lo, hi) == IF x < lo THEN lo ELSE IF x > hi THEN hi ELSE x
=============================================================================
