------------------------------- MODULE MCLogView -------------------------------
(***************************************************************************)
(* Small instances of LogView for TLC.                                     *)
(***************************************************************************)
EXTENDS LogView
=============================================================================
