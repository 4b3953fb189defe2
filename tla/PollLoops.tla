------------------------------- MODULE PollLoops -------------------------------
(***************************************************************************)
(* What a document promises about its loops, with no word of operations,   *)
(* queues, blocks or cancellation: a reload starts a loop for each target  *)
(* that is wanted, none starts at any other time, and none of the latest   *)
(* reload's ends while the configuration sheet is closed.  WatchQueue is   *)
(* shown to implement it.                                                  *)
(***************************************************************************)
EXTENDS Naturals

CONSTANT Target   \* what is done again and again: refreshes, polls of hosts

VARIABLES
  wanted,   \* the targets the configuration asks for
  going,    \* the loops that go on, each with the reload that started it
  epoch,    \* the number of the latest reload
  phase     \* whether a reload is under way, or the sheet open

vars == <<wanted, going, epoch, phase>>

Init ==
  /\ wanted \subseteq Target
  /\ going = {}
  /\ epoch = 1
  /\ phase = "reloading"

(* A reload starts one loop for each wanted target and returns only when   *)
(* all of them are going.                                                  *)
StartLoop(t) ==
  /\ phase = "reloading"
  /\ t \in wanted
  /\ <<t, epoch>> \notin going
  /\ going' = going \cup {<<t, epoch>>}
  /\ UNCHANGED <<wanted, epoch, phase>>

Settle ==
  /\ phase = "reloading"
  /\ \A t \in wanted : <<t, epoch>> \in going
  /\ phase' = "closed"
  /\ UNCHANGED <<wanted, going, epoch>>

(* Loops of earlier reloads may end at any time, but they need not.        *)
EndLoop(loop) ==
  /\ loop[2] = epoch => phase = "open"
  /\ going' = going \ {loop}
  /\ UNCHANGED <<wanted, epoch, phase>>

OpenSheet ==
  /\ phase = "closed"
  /\ phase' = "open"
  /\ UNCHANGED <<wanted, going, epoch>>

Edit(w) ==
  /\ phase = "open"
  /\ wanted' = w
  /\ UNCHANGED <<going, epoch, phase>>

CloseSheet ==
  /\ phase = "open"
  /\ phase' = "reloading"
  /\ epoch' = epoch + 1
  /\ UNCHANGED <<wanted, going>>

Next ==
  \/ \E t \in Target : StartLoop(t)
  \/ Settle
  \/ \E loop \in going : EndLoop(loop)
  \/ OpenSheet
  \/ \E w \in SUBSET Target : Edit(w)
  \/ CloseSheet

Spec == Init /\ [][Next]_vars

(* Loops carry the number of a reload, and those of the latest one are all *)
(* wanted until the sheet opens.                                           *)
Numbered == going \subseteq Target \X (1 .. epoch)
LatestWanted == phase # "open" => \A l \in going : l[2] = epoch => l[1] \in wanted
=============================================================================
