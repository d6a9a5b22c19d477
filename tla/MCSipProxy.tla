----------------------------- MODULE MCSipProxy -----------------------------
(***************************************************************************)
(* An instance of SipProxy for TLC.  The searches for the first two calls  *)
(* visit the same two slots; the third call's begins at the second one.    *)
(***************************************************************************)
EXTENDS SipProxy, TLC

CONSTANTS c1, c2, c3

MCHash == (c1 :> 0) @@ (c2 :> 0) @@ (c3 :> 1) @@ (Blank :> 2)
=============================================================================
