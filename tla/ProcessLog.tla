------------------------------ MODULE ProcessLog ------------------------------
(***************************************************************************)
(* What the log of a document promises its user, with no word of polls,    *)
(* marks, deadlines, sweeps or purges: a process has one entry under the   *)
(* name of its host, an entry is met again or pruned, with tracking on an  *)
(* entry that is held is not lost but becomes a Dead Process, and a Dead   *)
(* Process is not met again.  EventLog is shown to implement it.           *)
(***************************************************************************)
CONSTANTS
  Entry,       \* identities for the entries that exist at one time
  Name,        \* the hostnames
  Process,     \* what there can be an entry on
  Failure,     \* one of these: that a host cannot be reached
  Dead         \* what an entry is on once its process is over

VARIABLES
  shown,       \* the entries: a function on a subset of Entry
  tracking     \* whether entries that are held are to be kept

vars == <<shown, tracking>>

Shown == [name    : Name,
          process : Process \cup {Dead},
          held    : BOOLEAN]          \* over the threshold, its time not up

Init ==
  /\ shown = [e \in {} |-> e]
  /\ tracking \in BOOLEAN

(* A process that has no entry gets one, held or not.                      *)
Show(e, entry) ==
  /\ e \notin DOMAIN shown
  /\ entry.process # Dead
  /\ \A f \in DOMAIN shown :
       ~(shown[f].name = entry.name /\ shown[f].process = entry.process)
  /\ shown' = [f \in DOMAIN shown \cup {e} |->
                 IF f = e THEN entry ELSE shown[f]]
  /\ UNCHANGED tracking

(* An entry is met again; that may raise it over the threshold, or show it *)
(* under it.                                                               *)
Meet(e, held) ==
  /\ shown[e].process # Dead
  /\ shown' = [shown EXCEPT ![e].held = held]
  /\ UNCHANGED tracking

(* Its time is up.                                                         *)
Release(e) ==
  /\ shown' = [shown EXCEPT ![e].held = FALSE]
  /\ UNCHANGED tracking

(* Entries go, but not those that are held while there is tracking; and    *)
(* with tracking entries become Dead Processes.                            *)
Prune(rest, dying) ==
  /\ \A e \in DOMAIN shown \ rest : ~(tracking /\ shown[e].held)
  /\ dying # {} => tracking
  /\ shown' = [e \in rest |->
                 IF e \in dying THEN [shown[e] EXCEPT !.process = Dead]
                                ELSE shown[e]]
  /\ UNCHANGED tracking

(* The user removes an entry that stands for no process.                   *)
Dismiss(e) ==
  /\ shown[e].process \in {Failure, Dead}
  /\ shown' = [f \in DOMAIN shown \ {e} |-> shown[f]]
  /\ UNCHANGED tracking

(* The user edits the hosts or moves the slider: other entries are held.   *)
Rehold(held) ==
  /\ shown' = [e \in DOMAIN shown |-> [shown[e] EXCEPT !.held = held[e]]]
  /\ UNCHANGED tracking

Toggle ==
  /\ tracking' = ~tracking
  /\ UNCHANGED shown

Next ==
  \/ \E e \in Entry, entry \in Shown : Show(e, entry)
  \/ \E e \in DOMAIN shown : Release(e) \/ Dismiss(e)
  \/ \E e \in DOMAIN shown, held \in BOOLEAN : Meet(e, held)
  \/ \E rest, dying \in SUBSET DOMAIN shown : Prune(rest, dying)
  \/ \E held \in [DOMAIN shown -> BOOLEAN] : Rehold(held)
  \/ Toggle

Spec == Init /\ [][Next]_vars
===============================================================================
