--------------------------- MODULE MCScanSession ---------------------------
(***************************************************************************)
(* ScanSession for TLC: two paths, two words, and texts with the one or    *)
(* the other.                                                              *)
(***************************************************************************)
EXTENDS ScanSession

CONSTANTS x, y

MCTexts == {{x}, {y}}
=============================================================================
