---------------------------- MODULE MCRtpeDriver ----------------------------
(***************************************************************************)
(* Instances of RtpeDriver for TLC.                                        *)
(***************************************************************************)
EXTENDS RtpeDriver
=============================================================================
