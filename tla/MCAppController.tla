-------------------------- MODULE MCAppController --------------------------
(* The window with one or two impulse responses.  MaxOps and MaxFaults bound *)
(* what the user does and what goes wrong in one behaviour.                  *)
EXTENDS AppController

MCBodies == [curve : 0..MaxOps, fx : 0..MaxOps]
=============================================================================
