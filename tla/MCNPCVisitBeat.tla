--------------------------- MODULE MCNPCVisitBeat ---------------------------
(***************************************************************************)
(* Small instances of NPCVisitBeat.                                        *)
(***************************************************************************)
EXTENDS NPCVisitBeat
=============================================================================
