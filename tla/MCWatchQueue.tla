---------------------------- MODULE MCWatchQueue ----------------------------
(***************************************************************************)
(* Small instances of WatchQueue for TLC.                                  *)
(***************************************************************************)
EXTENDS WatchQueue, FiniteSets

(* A loop has one operation or block at a time, and a reload starts at     *)
(* most one loop per host and the refresh: with this many identities       *)
(* addOperation always finds a free one.                                   *)
ASSUME EnoughOperations ==
  Cardinality(Op) >= MaxReloads * (Cardinality(Host) + 1)
=============================================================================
