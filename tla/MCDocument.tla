------------------------------ MODULE MCDocument ------------------------------
(***************************************************************************)
(* Small instances of Document for TLC.                                    *)
(***************************************************************************)
EXTENDS Document, TLC

(* Every host has a hostname of its own.                                   *)
OwnNames == [h \in Host |-> h]

(* Operations differ in nothing but their identities.                      *)
OpSymmetry == Permutations(Op)

(* The behaviours in which every server can be reached, nobody touches the *)
(* controls of the log, queries are tracked, and deadlines count.          *)
CalmInit ==
  /\ Init
  /\ up = [h \in Host |-> TRUE] /\ track = TRUE /\ infinite = FALSE

CalmNext ==
  \/ \E o \in DOMAIN checkQueue : OperationStep(o)
  \/ MainStep
  \/ OpenConfigSheet
  \/ EndConfigSheet
  \/ \E h \in Host, s \in Queue!Setting : EditConfig(h, s)
  \/ (UseLog \/ WorldStep) /\ UNCHANGED <<up, track, infinite>>

CalmSpec == CalmInit /\ [][CalmNext]_vars /\ Fairness
===============================================================================
