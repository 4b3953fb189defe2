----------------------------- MODULE MCEventLog -----------------------------
(***************************************************************************)
(* Small instances of EventLog for TLC.                                    *)
(***************************************************************************)
EXTENDS EventLog, TLC

(* Every host has a hostname of its own: Name is Host in these instances.  *)
OwnNames == [h \in Host |-> h]
=============================================================================
