--------------------------- MODULE MCSharedWire ---------------------------
(***************************************************************************)
(* An instance of SharedWire for TLC.                                      *)
(***************************************************************************)
EXTENDS SharedWire

CONSTANTS n1, n2

const_Nodes == {n1, n2}
const_NodeOrder == <<n1, n2>>
=============================================================================
