--------------------------- MODULE MCAsteriskPool ---------------------------
(***************************************************************************)
(* Instances of AsteriskPool for TLC: who runs what.                       *)
(***************************************************************************)
EXTENDS AsteriskPool

CONSTANTS t1, t2, t3, t4

MCMixed == (t1 :> "realtime") @@ (t2 :> "plain") @@ (t3 :> "cdr") @@ (t4 :> "missing")
MCRealtime == (t1 :> "realtime") @@ (t2 :> "plain")
=============================================================================
