---------------------------- MODULE MCStatusPanel ----------------------------
(***************************************************************************)
(* Small instances of StatusPanel for TLC.                                 *)
(***************************************************************************)
EXTENDS StatusPanel

CONSTANT SomeText

(* Name is Host here: each host has a string of its own for its hostname,  *)
(* and the strings read alike or not.                                      *)
OwnNames == [h \in Host |-> h]
SameTexts == [n \in Name |-> SomeText]
=============================================================================
