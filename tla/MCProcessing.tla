----------------------------- MODULE MCProcessing -----------------------------
(***************************************************************************)
(* Small instance of Processing: sources that stand alone, that belong to  *)
(* a changeset, and that are refused.                                      *)
(***************************************************************************)
EXTENDS Processing

CONSTANTS single, shared, refused
===============================================================================
