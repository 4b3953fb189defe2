--------------------------- MODULE PollLoopsProofs ---------------------------
(***************************************************************************)
(* Proof that the queue, its blocks and the main thread implement          *)
(* PollLoops: every step of WatchQueue is a step of it, or leaves the      *)
(* loops as they are.                                                      *)
(***************************************************************************)
EXTENDS WatchQueueProofs

(* Cancelling reaches the operations of the latest reload only while the   *)
(* sheet is open.                                                          *)
FreshInv ==
  Phase # "open" =>
    \A o \in DOMAIN checkQueue :
      checkQueue[o].epoch = reloads => ~checkQueue[o].cancelled

IInv == TypeOK /\ SheetInv /\ LoopInv /\ WatchInv /\ FreshInv

(* What carries a loop: an operation, or a block that will add one.        *)
Queued(l) == \E o \in DOMAIN checkQueue :
               l = <<checkQueue[o].target, checkQueue[o].epoch>>
Posted(l) == \E i \in DOMAIN mainQueue :
               l = <<mainQueue[i].target, mainQueue[i].epoch>>

(* A loop goes on while something carries it.                              *)
LEMMA GoingCarried ==
  /\ \A l : l \in Going <=> Queued(l) \/ Posted(l)
  /\ \A t : <<t, reloads>> \in Going <=> Started(t)
  BY DEF Going, Queued, Posted, Started

-----------------------------------------------------------------------------
(* What the steps do to the loops.                                         *)

(* A step that keeps the loop of every operation and the blocks keeps the  *)
(* loops.                                                                  *)
LEMMA SameGoing ==
  ASSUME DOMAIN checkQueue' = DOMAIN checkQueue,
         \A o \in DOMAIN checkQueue :
           /\ checkQueue'[o].target = checkQueue[o].target
           /\ checkQueue'[o].epoch = checkQueue[o].epoch,
         mainQueue' = mainQueue
  PROVE  Going' = Going
<1>1. \A l : Queued(l)' <=> Queued(l)
  BY DEF Queued
<1>2. \A l : Posted(l)' <=> Posted(l)
  BY DEF Posted
<1>3. \A l : l \in Going' <=> Queued(l)' \/ Posted(l)'
  BY DEF Going, Queued, Posted
<1> QED
  BY <1>1, <1>2, <1>3, GoingCarried

(* An operation that leaves without a successor takes its loop with it,    *)
(* because nothing else carries it.                                        *)
LEMMA RemovedGoing ==
  ASSUME TypeOK, LoopInv, NEW o \in DOMAIN checkQueue,
         checkQueue' = Removed(o), mainQueue' = mainQueue
  PROVE  Going' = Going \ {<<checkQueue[o].target, checkQueue[o].epoch>>}
<1> DEFINE loop == <<checkQueue[o].target, checkQueue[o].epoch>>
<1>1. /\ DOMAIN checkQueue' = DOMAIN checkQueue \ {o}
      /\ \A x \in DOMAIN checkQueue \ {o} : checkQueue'[x] = checkQueue[x]
  BY RemovedQueue DEF TypeOK
<1>2. \A x \in DOMAIN checkQueue \ {o} :
        loop # <<checkQueue[x].target, checkQueue[x].epoch>>
  BY DEF LoopInv, OneLoopPerReload, SameLoop
<1>3. ~Posted(loop)
  BY DEF LoopInv, OneLoopPerReload, SameLoop, Posted
<1>4. \A l : Queued(l)' <=> Queued(l) /\ l # loop
  BY <1>1, <1>2 DEF Queued
<1>5. \A l : Posted(l)' <=> Posted(l)
  BY DEF Posted
<1>6. \A l : l \in Going' <=> Queued(l)' \/ Posted(l)'
  BY DEF Going, Queued, Posted
<1> QED
  BY <1>3, <1>4, <1>5, <1>6, GoingCarried

(* Posting a block hands the loop over to it.                              *)
LEMMA PostedGoing ==
  ASSUME TypeOK, NEW o \in DOMAIN checkQueue, PostBlock(o)
  PROVE  Going' = Going
<1> DEFINE block == [target |-> checkQueue[o].target, epoch |-> checkQueue[o].epoch]
           loop == <<checkQueue[o].target, checkQueue[o].epoch>>
<1>1. checkQueue[o] \in Operation
  BY DEF TypeOK, IsQueue
<1>2. block \in Block
  BY <1>1 DEF PostBlock, Block, Operation
<1>3. /\ DOMAIN mainQueue' = DOMAIN mainQueue \cup {Len(mainQueue) + 1}
      /\ \A i \in DOMAIN mainQueue : mainQueue'[i] = mainQueue[i]
      /\ mainQueue'[Len(mainQueue) + 1] = block
  BY <1>2 DEF PostBlock, TypeOK
<1>4. /\ DOMAIN checkQueue' = DOMAIN checkQueue \ {o}
      /\ \A x \in DOMAIN checkQueue \ {o} : checkQueue'[x] = checkQueue[x]
  BY RemovedQueue DEF TypeOK, PostBlock
<1>5. block.target = checkQueue[o].target /\ block.epoch = checkQueue[o].epoch
  OBVIOUS
<1> HIDE DEF block
<1>6. \A l : Posted(l)' <=> Posted(l) \/ l = loop
  BY <1>3, <1>5 DEF Posted
<1>7. \A l : Queued(l)' \/ l = loop <=> Queued(l)
  BY <1>4 DEF Queued
<1>8. \A l : l \in Going' <=> Queued(l)' \/ Posted(l)'
  BY DEF Going, Queued, Posted
<1> QED
  BY <1>6, <1>7, <1>8, GoingCarried

(* Adding an operation starts a loop, or takes over one that was posted.   *)
LEMMA AddedGoing ==
  ASSUME TypeOK, NEW t \in Host \cup {Refresh}, NEW e \in Nat,
         addOperation(t, e)
  PROVE  \A l : Queued(l)' <=> Queued(l) \/ l = <<t, e>>
<1>1. /\ DOMAIN checkQueue' = DOMAIN checkQueue \cup {FreeOp}
      /\ checkQueue'[FreeOp].target = t
      /\ checkQueue'[FreeOp].epoch = e
      /\ FreeOp \notin DOMAIN checkQueue
      /\ \A x \in DOMAIN checkQueue : checkQueue'[x] = checkQueue[x]
  BY AddOperation
<1> QED
  BY <1>1 DEF Queued

(* A block that runs hands its loop back to an operation.                  *)
LEMMA RunGoing ==
  ASSUME TypeOK, RunMainBlock
  PROVE  Going' = Going
<1> DEFINE block == Head(mainQueue)
           loop == <<block.target, block.epoch>>
<1>1. /\ block \in Block
      /\ 1 \in DOMAIN mainQueue
      /\ block = mainQueue[1]
      /\ mainQueue' = Tail(mainQueue)
      /\ \A i \in DOMAIN mainQueue' :
           i + 1 \in DOMAIN mainQueue /\ mainQueue'[i] = mainQueue[i + 1]
      /\ \A i \in DOMAIN mainQueue \ {1} :
           i - 1 \in DOMAIN mainQueue' /\ mainQueue'[i - 1] = mainQueue[i]
  BY DEF TypeOK, RunMainBlock
<1>2. block.target \in Host \cup {Refresh} /\ block.epoch \in Nat
  BY <1>1 DEF Block
<1>3. addOperation(block.target, block.epoch)
  BY DEF RunMainBlock
<1> HIDE DEF block
<1>4. \A l : Queued(l)' <=> Queued(l) \/ l = loop
  BY <1>2, <1>3, AddedGoing
<1>5. \A l : Posted(l) <=> Posted(l)' \/ l = loop
  BY <1>1 DEF Posted
<1>6. \A l : l \in Going' <=> Queued(l)' \/ Posted(l)'
  BY DEF Going, Queued, Posted
<1> QED
  BY <1>4, <1>5, <1>6, GoingCarried

(* A reload that adds an operation starts its loop.                        *)
LEMMA StartedGoing ==
  ASSUME TypeOK, NEW t \in Host \cup {Refresh},
         addOperation(t, reloads), mainQueue' = mainQueue
  PROVE  Going' = Going \cup {<<t, reloads>>}
<1>1. reloads \in Nat
  BY ReloadsAssumption DEF TypeOK
<1>2. \A l : Queued(l)' <=> Queued(l) \/ l = <<t, reloads>>
  BY <1>1, AddedGoing
<1>3. \A l : Posted(l)' <=> Posted(l)
  BY DEF Posted
<1>4. \A l : l \in Going' <=> Queued(l)' \/ Posted(l)'
  BY DEF Going, Queued, Posted
<1> QED
  BY <1>2, <1>3, <1>4, GoingCarried

-----------------------------------------------------------------------------
(* Nothing of the latest reload is cancelled while the sheet is closed.    *)

(* No operation cancels another, or starts one that is cancelled.          *)
LEMMA OperationFresh ==
  ASSUME TypeOK, FreshInv, NEW o \in DOMAIN checkQueue, OperationStep(o)
  PROVE  FreshInv'
<1>1. IsQueue(checkQueue) /\ o \in Op /\ checkQueue[o] \in Operation
  BY DEF TypeOK, IsQueue
<1>2. UNCHANGED <<main, sheetOpen, reloads>>
  BY DEF OperationStep, StartOperation, SkipOperation, RefreshAgain, RestPoll,
         PassPoll, StopPoll, PostBlock
<1>3. CASE RefreshAgain(o)
  <2>1. generateOperation(Refresh, checkQueue[o].epoch) \in Operation
    BY <1>1, RefreshAssumption DEF generateOperation, Operation
  <2>2. /\ DOMAIN checkQueue' = DOMAIN checkQueue \cup {o}
        /\ checkQueue'[o] = generateOperation(Refresh, checkQueue[o].epoch)
        /\ \A x \in DOMAIN checkQueue \ {o} : checkQueue'[x] = checkQueue[x]
    BY <1>1, <1>3, <2>1, AddedQueue DEF RefreshAgain
  <2>3. ~checkQueue'[o].cancelled
    BY <2>2 DEF generateOperation
  <2> QED
    BY <1>2, <2>2, <2>3 DEF FreshInv, Phase
<1>4. CASE SkipOperation(o) \/ StopPoll(o) \/ PostBlock(o)
  <2>1. /\ DOMAIN checkQueue' = DOMAIN checkQueue \ {o}
        /\ \A x \in DOMAIN checkQueue \ {o} : checkQueue'[x] = checkQueue[x]
    BY <1>1, <1>4, RemovedQueue DEF SkipOperation, StopPoll, PostBlock
  <2> QED
    BY <1>2, <2>1 DEF FreshInv, Phase
<1>5. CASE StartOperation(o) \/ RestPoll(o) \/ PassPoll(o)
  <2>1. /\ DOMAIN checkQueue' = DOMAIN checkQueue
        /\ \A x \in DOMAIN checkQueue :
             /\ checkQueue'[x].epoch = checkQueue[x].epoch
             /\ checkQueue'[x].cancelled = checkQueue[x].cancelled
    BY <1>1, <1>5 DEF StartOperation, RestPoll, PassPoll, IsQueue, Operation
  <2> QED
    BY <1>2, <2>1 DEF FreshInv, Phase
<1> QED
  BY <1>3, <1>4, <1>5 DEF OperationStep

(* An operation that has just been added is not cancelled.                 *)
LEMMA AddedFresh ==
  ASSUME TypeOK, FreshInv, NEW t \in Host \cup {Refresh}, NEW e \in Nat,
         addOperation(t, e), reloads' = reloads, Phase # "open"
  PROVE  FreshInv'
  BY AddOperation DEF FreshInv

(* Every step leaves the latest reload's uncancelled in a closed document. *)
LEMMA FreshStep ==
  ASSUME TypeOK, SheetInv, LoopInv, FreshInv, [Next]_vars
  PROVE  FreshInv'
<1>1. reloads \in Nat
  BY ReloadsAssumption DEF TypeOK
<1>2. CASE RunMainBlock
  <2>1. Head(mainQueue) \in Block
    BY <1>2 DEF RunMainBlock, TypeOK
  <2>2. /\ addOperation(Head(mainQueue).target, Head(mainQueue).epoch)
        /\ Head(mainQueue).target \in Host \cup {Refresh}
        /\ Head(mainQueue).epoch \in Nat
        /\ UNCHANGED <<main, sheetOpen, reloads>>
    BY <1>2, <2>1 DEF RunMainBlock, Block
  <2>3. CASE Phase = "open"
    BY <2>2, <2>3 DEF FreshInv, Phase
  <2> QED
    BY <2>2, <2>3, AddedFresh
<1>3. CASE ReloadRefresh \/ \E h \in Host : ReloadHost(h)
  <2>1. main \in {"purged", "spawning"} /\ Phase = "reloading" /\ reloads' = reloads
    BY <1>3 DEF ReloadRefresh, ReloadHost, Phase
  <2>2. CASE UNCHANGED checkQueue
    BY <2>1, <2>2 DEF FreshInv
  <2> QED
    BY <1>1, <1>3, <2>1, <2>2, AddedFresh DEF ReloadRefresh, ReloadHost
<1>4. CASE ReloadDone
  BY <1>4 DEF ReloadDone, FreshInv, Phase
<1>5. CASE OpenConfigSheet \/ BeginSheet
  BY <1>5 DEF OpenConfigSheet, BeginSheet, FreshInv, Phase
<1>6. CASE EndConfigSheet
  <2>1. \A o \in DOMAIN checkQueue' : checkQueue'[o].epoch # reloads'
    <3>1. /\ DOMAIN checkQueue' = DOMAIN checkQueue
          /\ \A o \in DOMAIN checkQueue : checkQueue'[o].epoch = checkQueue[o].epoch
      BY <1>6, CancelledQueue DEF EndConfigSheet, TypeOK
    <3>2. \A o \in DOMAIN checkQueue : checkQueue[o].epoch \in Nat
      BY DEF TypeOK, IsQueue, Operation
    <3> QED
      BY <1>1, <1>6, <3>1, <3>2 DEF EndConfigSheet, LoopInv
  <2> QED
    BY <2>1 DEF FreshInv
<1>7. CASE UNCHANGED queueVars
  BY <1>7 DEF queueVars, FreshInv, Phase
<1> QED
  BY <1>2, <1>3, <1>4, <1>5, <1>6, <1>7, OperationFresh
  DEF Next, MainStep, UserStep, EditConfig, vars

-----------------------------------------------------------------------------
(* Every step is a step of the loops.                                      *)

(* The initial states are initial states of PollLoops.                     *)
LEMMA InitLoops ==
  Init => /\ LoopInv /\ WatchInv /\ FreshInv
          /\ Loops!Init
<1> SUFFICES ASSUME Init
             PROVE  /\ LoopInv /\ WatchInv /\ FreshInv
                    /\ Loops!Init
  OBVIOUS
<1>1. DOMAIN checkQueue = {} /\ DOMAIN mainQueue = {}
  BY DEF Init
<1>2. LoopInv /\ WatchInv
  BY <1>1 DEF Init, LoopInv, OneLoopPerReload, Started, WatchInv, NoneForgotten
<1>3. FreshInv
  BY <1>1 DEF FreshInv
<1>4. Loops!Init
  <2>1. Going = {}
    BY <1>1 DEF Going
  <2>2. Phase = "reloading"
    BY DEF Init, Phase
  <2>3. Wanted \subseteq Host \cup {Refresh}
    BY DEF Wanted
  <2> QED
    BY <2>1, <2>2, <2>3 DEF Init, Loops!Init
<1> QED
  BY <1>2, <1>3, <1>4

(* A step that leaves the loops, the configuration and the phase alone.    *)
LEMMA LoopsStutter ==
  ASSUME Going' = Going, UNCHANGED <<config, main, sheetOpen, reloads>>
  PROVE  UNCHANGED Loops!vars
  BY DEF Loops!vars, Wanted, Phase

(* A poll that is cancelled, or a refresh skipped, ends its loop; the      *)
(* latest reload's are cancelled only under the sheet.                     *)
LEMMA EndedLoop ==
  ASSUME IInv, NEW o \in DOMAIN checkQueue, SkipOperation(o) \/ StopPoll(o)
  PROVE  Loops!Next
<1> DEFINE loop == <<checkQueue[o].target, checkQueue[o].epoch>>
<1>1. /\ checkQueue' = Removed(o)
      /\ checkQueue[o].cancelled
      /\ UNCHANGED <<config, mainQueue, main, sheetOpen, hostsLeft, reloads>>
  BY DEF SkipOperation, StopPoll
<1>2. Going' = Going \ {loop}
  BY <1>1, RemovedGoing DEF IInv
<1>3. loop \in Going
  BY DEF Going
<1>4. loop[2] = reloads => Phase = "open"
  BY <1>1 DEF IInv, FreshInv
<1>5. Loops!EndLoop(loop)
  BY <1>1, <1>2, <1>4 DEF Loops!EndLoop, Wanted, Phase
<1> QED
  BY <1>3, <1>5 DEF Loops!Next

(* A step of an operation is a step of PollLoops or does not show.         *)
LEMMA OperationLoop ==
  ASSUME IInv, NEW o \in DOMAIN checkQueue, OperationStep(o)
  PROVE  [Loops!Next]_Loops!vars
<1>1. IsQueue(checkQueue) /\ o \in Op /\ checkQueue[o] \in Operation
  BY DEF IInv, TypeOK, IsQueue
<1>2. CASE SkipOperation(o) \/ StopPoll(o)
  BY <1>2, EndedLoop
<1>3. CASE PostBlock(o)
  BY <1>3, PostedGoing, LoopsStutter DEF IInv, PostBlock
<1>4. CASE RefreshAgain(o)
  <2>1. generateOperation(Refresh, checkQueue[o].epoch) \in Operation
    BY <1>1, RefreshAssumption DEF generateOperation, Operation
  <2>2. /\ DOMAIN checkQueue' = DOMAIN checkQueue \cup {o}
        /\ checkQueue'[o] = generateOperation(Refresh, checkQueue[o].epoch)
        /\ \A x \in DOMAIN checkQueue \ {o} : checkQueue'[x] = checkQueue[x]
    BY <1>1, <1>4, <2>1, AddedQueue DEF RefreshAgain
  <2>3. checkQueue'[o].target = Refresh /\ checkQueue'[o].epoch = checkQueue[o].epoch
    BY <2>2 DEF generateOperation
  <2>4. Going' = Going
    <3>1. checkQueue[o].target = Refresh /\ mainQueue' = mainQueue
      BY <1>4 DEF RefreshAgain
    <3>2. DOMAIN checkQueue' = DOMAIN checkQueue
      BY <2>2
    <3> QED
      BY <2>2, <2>3, <3>1, <3>2, SameGoing
  <2> QED
    BY <1>4, <2>4, LoopsStutter DEF RefreshAgain
<1>5. CASE StartOperation(o) \/ RestPoll(o) \/ PassPoll(o)
  <2>1. /\ DOMAIN checkQueue' = DOMAIN checkQueue
        /\ \A x \in DOMAIN checkQueue :
             /\ checkQueue'[x].target = checkQueue[x].target
             /\ checkQueue'[x].epoch = checkQueue[x].epoch
        /\ UNCHANGED <<config, mainQueue, main, sheetOpen, reloads>>
    BY <1>1, <1>5 DEF StartOperation, RestPoll, PassPoll, IsQueue, Operation
  <2> QED
    BY <2>1, SameGoing, LoopsStutter
<1> QED
  BY <1>2, <1>3, <1>4, <1>5 DEF OperationStep

(* A reload starts the loops that are wanted, each of them once.           *)
LEMMA ReloadLoop ==
  ASSUME IInv, NEW t \in Wanted, ~Started(t), addOperation(t, reloads),
         UNCHANGED <<config, mainQueue, sheetOpen, reloads>>,
         main \in {"purged", "spawning"}, main' = "spawning"
  PROVE  Loops!Next
<1>1. t \in Host \cup {Refresh}
  BY DEF Wanted
<1>2. Going' = Going \cup {<<t, reloads>>}
  BY <1>1, StartedGoing DEF IInv
<1>3. <<t, reloads>> \notin Going
  BY GoingCarried
<1>4. Phase = "reloading" /\ Phase' = "reloading"
  BY DEF Phase
<1>5. Loops!StartLoop(t)
  BY <1>2, <1>3, <1>4 DEF Loops!StartLoop, Wanted
<1> QED
  BY <1>1, <1>5 DEF Loops!Next

(* So is a step of the main thread.                                        *)
LEMMA MainLoop ==
  ASSUME IInv, MainStep
  PROVE  [Loops!Next]_Loops!vars
<1>1. CASE RunMainBlock
  BY <1>1, RunGoing, LoopsStutter DEF IInv, RunMainBlock
<1>2. CASE BeginSheet
  <2>1. Going' = Going
    BY <1>2, CancelledQueue, SameGoing DEF BeginSheet, IInv, TypeOK
  <2> QED
    BY <1>2, <2>1 DEF BeginSheet, Loops!vars, Wanted, Phase
<1>3. CASE ReloadRefresh
  <2>1. Refresh \in Wanted /\ ~Started(Refresh)
    BY <1>3 DEF ReloadRefresh, IInv, LoopInv, Wanted
  <2> QED
    BY <1>3, <2>1, ReloadLoop DEF ReloadRefresh
<1>4. ASSUME NEW h \in Host, ReloadHost(h)
      PROVE  [Loops!Next]_Loops!vars
  <2>1. CASE config[h] = "on" /\ addOperation(h, reloads)
    <3>1. h \in Wanted /\ ~Started(h)
      BY <1>4, <2>1 DEF ReloadHost, IInv, LoopInv, Wanted
    <3> QED
      BY <1>4, <2>1, <3>1, ReloadLoop DEF ReloadHost
  <2>2. CASE UNCHANGED checkQueue
    BY <1>4, <2>2, SameGoing, LoopsStutter DEF ReloadHost
  <2> QED
    BY <1>4, <2>1, <2>2 DEF ReloadHost
<1>5. CASE ReloadDone
  <2>1. Going' = Going /\ UNCHANGED <<config, sheetOpen, reloads>>
    BY <1>5, SameGoing DEF ReloadDone
  <2>2. \A t \in Wanted : <<t, reloads>> \in Going
    <3>1. \A t \in Wanted : Watched(t)
      BY <1>5 DEF ReloadDone, IInv, WatchInv, Wanted
    <3> QED
      BY <3>1, GoingCarried DEF Watched, Started
  <2>3. Phase = "reloading" /\ Phase' = "closed"
    BY <1>5 DEF ReloadDone, Phase, IInv, SheetInv
  <2>4. Loops!Settle
    BY <2>1, <2>2, <2>3 DEF Loops!Settle, Wanted
  <2> QED
    BY <2>4 DEF Loops!Next
<1> QED
  BY <1>1, <1>2, <1>3, <1>4, <1>5 DEF MainStep

(* And one of the user.                                                    *)
LEMMA UserLoop ==
  ASSUME IInv, UserStep
  PROVE  Loops!Next
<1>1. CASE OpenConfigSheet
  <2>1. Going' = Going
    BY <1>1, CancelledQueue, SameGoing DEF OpenConfigSheet, IInv, TypeOK
  <2>2. Phase = "closed" /\ Phase' = "open"
    BY <1>1 DEF OpenConfigSheet, Phase
  <2> QED
    BY <1>1, <2>1, <2>2 DEF OpenConfigSheet, Loops!Next, Loops!OpenSheet, Wanted
<1>2. ASSUME NEW h \in Host, NEW s \in Setting, EditConfig(h, s)
      PROVE  Loops!Next
  <2>1. Phase = "open" /\ Phase' = Phase /\ Going' = Going /\ reloads' = reloads
    BY <1>2, SameGoing DEF EditConfig, queueVars, Phase
  <2>2. Wanted' \in SUBSET (Host \cup {Refresh})
    BY DEF Wanted
  <2>3. Loops!Edit(Wanted')
    BY <2>1 DEF Loops!Edit
  <2> QED
    BY <2>2, <2>3 DEF Loops!Next
<1>3. CASE EndConfigSheet
  <2>1. Going' = Going
    BY <1>3, CancelledQueue, SameGoing DEF EndConfigSheet, IInv, TypeOK
  <2>2. Phase = "open" /\ Phase' = "reloading"
    BY <1>3 DEF EndConfigSheet, Phase
  <2> QED
    BY <1>3, <2>1, <2>2 DEF EndConfigSheet, Loops!Next, Loops!CloseSheet, Wanted
<1> QED
  BY <1>1, <1>2, <1>3 DEF UserStep

(* The queue, its blocks and the main thread do what the loops promise.    *)
THEOREM LoopsImplemented == Spec => ImplementsLoops
<1>1. Init => IInv /\ Loops!Init
  BY InitType, InitLoops DEF IInv
<1>2. IInv /\ [Next]_vars => IInv'
  BY TypeStep, LoopStep, WatchStep, FreshStep DEF IInv
<1>3. IInv /\ [Next]_vars => [Loops!Next]_Loops!vars
  <2> SUFFICES ASSUME IInv, [Next]_vars
               PROVE  [Loops!Next]_Loops!vars
    OBVIOUS
  <2>1. CASE UNCHANGED vars
    <3>1. Going' = Going
      BY <2>1, SameGoing DEF vars, queueVars
    <3> QED
      BY <2>1, <3>1, LoopsStutter DEF vars, queueVars
  <2> QED
    BY <2>1, OperationLoop, MainLoop, UserLoop DEF Next
<1> QED
  BY <1>1, <1>2, <1>3, PTL DEF Spec, ImplementsLoops, Loops!Spec

(***************************************************************************)
(* What holds of every implementation of PollLoops.                        *)
(***************************************************************************)

(* Only StartLoop adds a loop, and the sheet must open before a target     *)
(* ceases to be wanted.                                                    *)
LEMMA LatestStep ==
  ASSUME reloads \in Nat \ {0}, Loops!Numbered, Loops!LatestWanted,
         [Loops!Next]_Loops!vars
  PROVE  Loops!Numbered' /\ Loops!LatestWanted'
  <1> USE DEF Loops!Numbered, Loops!LatestWanted
  <1>1. CASE \E t \in Host \cup {Refresh} : Loops!StartLoop(t)
    BY <1>1 DEF Loops!StartLoop
  <1>2. CASE Loops!Settle
    BY <1>2 DEF Loops!Settle
  <1>3. CASE \E loop \in Going : Loops!EndLoop(loop)
    BY <1>3 DEF Loops!EndLoop
  <1>4. CASE Loops!OpenSheet
    BY <1>4 DEF Loops!OpenSheet
  <1>5. CASE \E w \in SUBSET (Host \cup {Refresh}) : Loops!Edit(w)
    BY <1>5 DEF Loops!Edit
  <1>6. CASE Loops!CloseSheet
    BY <1>6 DEF Loops!CloseSheet
  <1>7. CASE UNCHANGED Loops!vars
    BY <1>7 DEF Loops!vars
  <1>8. QED
    BY <1>1, <1>2, <1>3, <1>4, <1>5, <1>6, <1>7 DEF Loops!Next

(* So of every implementation, and of WatchQueue.                          *)
LEMMA LatestLoops == Spec => [](Loops!Numbered /\ Loops!LatestWanted)
  <1>1. Init => Loops!Numbered /\ Loops!LatestWanted
    BY DEF Init, Going, Loops!Numbered, Loops!LatestWanted
  <1>2. TypeOK => reloads \in Nat \ {0}
    BY ReloadsAssumption DEF TypeOK
  <1>3. TypeOK /\ Loops!Numbered /\ Loops!LatestWanted /\ [Loops!Next]_Loops!vars
          => (Loops!Numbered /\ Loops!LatestWanted)'
    BY <1>2, LatestStep
  <1>4. Spec => [][Loops!Next]_Loops!vars
    BY LoopsImplemented DEF ImplementsLoops, Loops!Spec
  <1>5. QED
    BY TypeCorrect, <1>1, <1>3, <1>4, PTL DEF Spec

(* A reload that is over has no loop for a target that is not wanted: a    *)
(* property of PollLoops, carried over to WatchQueue.                      *)
THEOREM OnlyWantedGo == Spec => []OnlyWanted
  <1>1. Loops!LatestWanted => OnlyWanted
    BY DEF Loops!LatestWanted, OnlyWanted, Phase
  <1>2. QED
    BY LatestLoops, <1>1, PTL

(* The same of the operations alone, with what else is known of the queue. *)
LatestInv ==
  /\ \A o \in DOMAIN checkQueue : checkQueue[o].epoch >= 1
  /\ Phase # "open" =>
       \A o \in DOMAIN checkQueue :
         checkQueue[o].epoch = reloads => checkQueue[o].target \in Wanted

QueueInv == TypeOK /\ SheetInv /\ LoopInv /\ LatestInv

(* The invariants of the queue hold together, for DocumentProofs to use.   *)
LEMMA QueueInvariant == Spec => []QueueInv
  <1>1. TypeOK /\ Loops!Numbered /\ Loops!LatestWanted => LatestInv
    <2> SUFFICES ASSUME TypeOK, Loops!Numbered, Loops!LatestWanted
                 PROVE  LatestInv
      OBVIOUS
    <2>1. ASSUME NEW o \in DOMAIN checkQueue
          PROVE  <<checkQueue[o].target, checkQueue[o].epoch>> \in Going
      BY DEF Going
    <2>2. ASSUME NEW o \in DOMAIN checkQueue
          PROVE  checkQueue[o].epoch >= 1
      <3>1. <<checkQueue[o].target, checkQueue[o].epoch>>
              \in (Host \cup {Refresh}) \X (1 .. reloads)
        BY <2>1 DEF Loops!Numbered
      <3>2. checkQueue[o].epoch \in 1 .. reloads
        BY <3>1
      <3>3. QED
        BY <3>2, ReloadsAssumption DEF TypeOK
    <2>3. QED
      BY <2>1, <2>2 DEF Loops!LatestWanted, LatestInv
  <1>2. Init => LoopInv
    BY InitLoops
  <1>3. QED
    BY LatestLoops, <1>1, <1>2, InitType, TypeStep, LoopStep, PTL DEF Spec, QueueInv

=============================================================================
