------------------------------ MODULE MCApoSetup ------------------------------
(***************************************************************************)
(* Another product, an endpoint, and an audio service with two dependents, *)
(* one of which depends on the other.                                      *)
(***************************************************************************)
EXTENDS ApoSetup

CONSTANTS audiosrv, realtek, aarsvc

MCNeeds == (realtek :> audiosrv) @@ (aarsvc :> realtek)
=============================================================================
