--------------------------- MODULE WatchQueueProofs ---------------------------
(***************************************************************************)
(* Proofs about WatchQueue: its type invariant, that a reload's loops      *)
(* neither fork nor get lost, and that cancelling a poll is final.         *)
(***************************************************************************)
EXTENDS WatchQueue, TLAPS

(***************************************************************************)
(* What the helpers do to the operation queue.                             *)
(***************************************************************************)

(* Adding an operation leaves the others in place.                         *)
LEMMA AddedQueue ==
  ASSUME IsQueue(checkQueue), NEW o \in Op, NEW operation \in Operation
  PROVE  /\ IsQueue(Added(o, operation))
         /\ DOMAIN Added(o, operation) = DOMAIN checkQueue \cup {o}
         /\ Added(o, operation)[o] = operation
         /\ \A x \in DOMAIN checkQueue \ {o} :
              Added(o, operation)[x] = checkQueue[x]
  BY DEF Added, IsQueue

(* Removing an operation leaves the others in place.                       *)
LEMMA RemovedQueue ==
  ASSUME IsQueue(checkQueue), NEW o
  PROVE  /\ IsQueue(Removed(o))
         /\ DOMAIN Removed(o) = DOMAIN checkQueue \ {o}
         /\ \A x \in DOMAIN checkQueue \ {o} : Removed(o)[x] = checkQueue[x]
  BY DEF Removed, IsQueue

(* cancelAllOperations sets the mark of every operation and nothing else.  *)
LEMMA CancelledQueue ==
  ASSUME IsQueue(checkQueue)
  PROVE  /\ IsQueue(cancelAllOperations)
         /\ DOMAIN cancelAllOperations = DOMAIN checkQueue
         /\ \A x \in DOMAIN checkQueue :
              /\ cancelAllOperations[x].target = checkQueue[x].target
              /\ cancelAllOperations[x].epoch = checkQueue[x].epoch
              /\ cancelAllOperations[x].at = checkQueue[x].at
              /\ cancelAllOperations[x].cancelled
<1>1. \A x \in DOMAIN checkQueue : checkQueue[x] \in Operation
  BY DEF IsQueue
<1>2. DOMAIN cancelAllOperations = DOMAIN checkQueue
  BY DEF cancelAllOperations
<1>3. \A x \in DOMAIN checkQueue :
        /\ cancelAllOperations[x] \in Operation
        /\ cancelAllOperations[x].target = checkQueue[x].target
        /\ cancelAllOperations[x].epoch = checkQueue[x].epoch
        /\ cancelAllOperations[x].at = checkQueue[x].at
        /\ cancelAllOperations[x].cancelled
  BY <1>1 DEF cancelAllOperations, Operation
<1>4. IsQueue(cancelAllOperations)
  BY <1>2, <1>3 DEF cancelAllOperations, IsQueue
<1> QED
  BY <1>2, <1>3, <1>4

(* An operation that goes on changes nothing but where it is.              *)
LEMMA MovedQueue ==
  ASSUME IsQueue(checkQueue), NEW o \in DOMAIN checkQueue,
         NEW at \in {"queued", "running", "resting", "passing"},
         at \in {"resting", "passing"} => checkQueue[o].target \in Host
  PROVE  LET q == [checkQueue EXCEPT ![o].at = at]
         IN  /\ IsQueue(q)
             /\ DOMAIN q = DOMAIN checkQueue
             /\ q[o] = [checkQueue[o] EXCEPT !.at = at]
             /\ \A x \in DOMAIN checkQueue \ {o} : q[x] = checkQueue[x]
<1>1. checkQueue[o] \in Operation
  BY DEF IsQueue
<1>2. [checkQueue[o] EXCEPT !.at = at] \in Operation
  BY <1>1 DEF Operation
<1> QED
  BY <1>2 DEF IsQueue

(* addOperation finds a free identity and queues one operation under it.   *)
LEMMA AddOperation ==
  ASSUME TypeOK, NEW t \in Host \cup {Refresh}, NEW e \in Nat,
         addOperation(t, e)
  PROVE  /\ FreeOp \in Op \ DOMAIN checkQueue
         /\ IsQueue(checkQueue')
         /\ DOMAIN checkQueue' = DOMAIN checkQueue \cup {FreeOp}
         /\ checkQueue'[FreeOp].target = t
         /\ checkQueue'[FreeOp].epoch = e
         /\ ~checkQueue'[FreeOp].cancelled
         /\ \A x \in DOMAIN checkQueue : checkQueue'[x] = checkQueue[x]
<1>1. FreeOp \in Op \ DOMAIN checkQueue
  BY DEF addOperation, FreeOp
<1>2. generateOperation(t, e) \in Operation
  BY DEF generateOperation, Operation
<1>3. IsQueue(checkQueue)
  BY DEF TypeOK
<1>4. checkQueue' = Added(FreeOp, generateOperation(t, e))
  BY DEF addOperation
<1>5. /\ IsQueue(checkQueue')
      /\ DOMAIN checkQueue' = DOMAIN checkQueue \cup {FreeOp}
      /\ checkQueue'[FreeOp] = generateOperation(t, e)
      /\ \A x \in DOMAIN checkQueue : checkQueue'[x] = checkQueue[x]
  <2> DEFINE new == generateOperation(t, e)
  <2>1. new \in Operation /\ checkQueue' = Added(FreeOp, new)
    BY <1>2, <1>4
  <2> HIDE DEF new
  <2>2. /\ IsQueue(Added(FreeOp, new))
        /\ DOMAIN Added(FreeOp, new) = DOMAIN checkQueue \cup {FreeOp}
        /\ Added(FreeOp, new)[FreeOp] = new
        /\ \A x \in DOMAIN checkQueue \ {FreeOp} :
             Added(FreeOp, new)[x] = checkQueue[x]
    BY <1>1, <1>3, <2>1, AddedQueue
  <2> QED
    BY <1>1, <2>1, <2>2 DEF new
<1>6. /\ generateOperation(t, e).target = t
      /\ generateOperation(t, e).epoch = e
      /\ ~generateOperation(t, e).cancelled
  BY DEF generateOperation
<1> QED
  BY <1>1, <1>5, <1>6

(***************************************************************************)
(* Type correctness.  EndConfigSheet has no bound of its own, so SheetInv  *)
(* is needed: the sheet only opens while another reload is allowed.        *)
(***************************************************************************)

(* The document starts well typed.                                         *)
LEMMA InitType == Init => TypeOK /\ SheetInv
<1> SUFFICES ASSUME Init
             PROVE  TypeOK /\ SheetInv
  OBVIOUS
<1>1. IsQueue(checkQueue)
  BY DEF Init, IsQueue
<1>2. mainQueue \in Seq(Block)
  BY DEF Init
<1>3. reloads \in 1 .. MaxReloads
  BY ReloadsAssumption DEF Init
<1> QED
  BY <1>1, <1>2, <1>3 DEF Init, TypeOK, SheetInv

(* An operation's own steps keep the types.                                *)
LEMMA OperationType ==
  ASSUME TypeOK, NEW o \in DOMAIN checkQueue, OperationStep(o)
  PROVE  TypeOK'
<1>1. /\ o \in Op
      /\ IsQueue(checkQueue)
      /\ checkQueue[o] \in Operation
  BY DEF TypeOK, IsQueue
<1>2. /\ UNCHANGED <<config, main, sheetOpen, hostsLeft, reloads>>
      /\ mainQueue' \in Seq(Block)
  <2>1. CASE PostBlock(o)
    <3>1. [target |-> checkQueue[o].target, epoch |-> checkQueue[o].epoch] \in Block
      BY <1>1, <2>1 DEF PostBlock, Block, Operation
    <3> QED
      BY <2>1, <3>1 DEF PostBlock, TypeOK
  <2> QED
    BY <2>1 DEF OperationStep, StartOperation, SkipOperation, RefreshAgain,
                RestPoll, PassPoll, StopPoll, TypeOK
<1>3. IsQueue(checkQueue')
  <2>1. CASE RefreshAgain(o)
    <3>1. generateOperation(Refresh, checkQueue[o].epoch) \in Operation
      BY <1>1 DEF generateOperation, Operation
    <3> QED
      BY <1>1, <2>1, <3>1, AddedQueue DEF RefreshAgain
  <2>2. CASE SkipOperation(o) \/ StopPoll(o) \/ PostBlock(o)
    BY <1>1, <2>2, RemovedQueue DEF SkipOperation, StopPoll, PostBlock
  <2>3. CASE StartOperation(o) \/ RestPoll(o)
    BY <1>1, <2>3, MovedQueue DEF StartOperation, RestPoll
  <2>4. CASE PassPoll(o)
    <3>1. checkQueue[o].target \in Host
      BY <1>1, <2>4 DEF PassPoll, Operation
    <3> QED
      BY <1>1, <2>4, <3>1, MovedQueue DEF PassPoll
  <2> QED
    BY <1>1, <2>1, <2>2, <2>3, <2>4 DEF OperationStep
<1> QED
  BY <1>2, <1>3 DEF TypeOK

(* Every step keeps the types.                                             *)
LEMMA TypeStep ==
  ASSUME TypeOK, SheetInv, [Next]_vars
  PROVE  TypeOK' /\ SheetInv'
<1>1. ASSUME NEW o \in DOMAIN checkQueue, OperationStep(o)
      PROVE  TypeOK' /\ SheetInv'
  <2>1. UNCHANGED <<main, sheetOpen, reloads>>
    BY <1>1 DEF OperationStep, StartOperation, SkipOperation, RefreshAgain,
                RestPoll, PassPoll, StopPoll, PostBlock
  <2> QED
    BY <1>1, <2>1, OperationType DEF SheetInv
<1>2. CASE RunMainBlock
  <2>1. /\ Head(mainQueue) \in Block
        /\ Tail(mainQueue) \in Seq(Block)
    BY <1>2 DEF RunMainBlock, TypeOK
  <2>2. IsQueue(checkQueue')
    BY <1>2, <2>1, AddOperation DEF RunMainBlock, Block
  <2> QED
    BY <1>2, <2>1, <2>2 DEF RunMainBlock, TypeOK, SheetInv
<1>3. CASE BeginSheet
  BY <1>3, CancelledQueue DEF BeginSheet, TypeOK, SheetInv
<1>4. CASE ReloadRefresh
  <2>1. IsQueue(checkQueue')
    BY <1>4, AddOperation DEF ReloadRefresh, TypeOK
  <2> QED
    BY <1>4, <2>1 DEF ReloadRefresh, TypeOK, SheetInv
<1>5. ASSUME NEW h \in Host, ReloadHost(h)
      PROVE  TypeOK' /\ SheetInv'
  <2>1. IsQueue(checkQueue')
    BY <1>5, AddOperation DEF ReloadHost, TypeOK
  <2> QED
    BY <1>5, <2>1 DEF ReloadHost, TypeOK, SheetInv
<1>6. CASE ReloadDone
  BY <1>6 DEF ReloadDone, TypeOK, SheetInv
<1>7. CASE OpenConfigSheet
  BY <1>7, CancelledQueue DEF OpenConfigSheet, TypeOK, SheetInv
<1>8. ASSUME NEW h \in Host, NEW s \in Setting, EditConfig(h, s)
      PROVE  TypeOK' /\ SheetInv'
  BY <1>8 DEF EditConfig, queueVars, TypeOK, SheetInv
<1>9. CASE EndConfigSheet
  <2>1. reloads' \in 1 .. MaxReloads
    BY <1>9, ReloadsAssumption DEF EndConfigSheet, TypeOK, SheetInv
  <2> QED
    BY <1>9, <2>1, CancelledQueue DEF EndConfigSheet, TypeOK, SheetInv
<1>10. CASE UNCHANGED vars
  BY <1>10 DEF vars, queueVars, TypeOK, SheetInv
<1> QED
  BY <1>1, <1>2, <1>3, <1>4, <1>5, <1>6, <1>7, <1>8, <1>9, <1>10
  DEF Next, MainStep, UserStep

(* Every variable keeps its type, and no operation leaves the states the   *)
(* blocks of generateRefreshOperation and generateMySQLOperation go through*)
THEOREM TypeCorrect == Spec => []TypeOK
<1>1. TypeOK /\ SheetInv /\ [Next]_vars => (TypeOK /\ SheetInv)'
  BY TypeStep
<1> QED
  BY InitType, <1>1, PTL DEF Spec

(***************************************************************************)
(* Loops do not fork.                                                      *)
(***************************************************************************)

(* A step that keeps every operation's loop keeps LoopInv.                 *)
LEMMA SameLoops ==
  ASSUME LoopInv,
         DOMAIN checkQueue' \subseteq DOMAIN checkQueue,
         \A x \in DOMAIN checkQueue' :
           /\ checkQueue'[x].target = checkQueue[x].target
           /\ checkQueue'[x].epoch = checkQueue[x].epoch,
         UNCHANGED <<mainQueue, main, hostsLeft, reloads>>
  PROVE  LoopInv'
  BY DEF LoopInv, OneLoopPerReload, SameLoop, Started

(* A reload that starts a loop it has not started keeps LoopInv.           *)
LEMMA NewLoop ==
  ASSUME TypeOK, LoopInv, NEW t \in Host \cup {Refresh}, ~Started(t),
         addOperation(t, reloads), UNCHANGED <<mainQueue, reloads>>
  PROVE  /\ \A o \in DOMAIN checkQueue' : checkQueue'[o].epoch <= reloads
         /\ \A u \in Host \cup {Refresh} : u # t /\ ~Started(u) => ~Started(u)'
         /\ OneLoopPerReload'
<1>1. reloads \in Nat
  BY ReloadsAssumption DEF TypeOK
<1>2. /\ FreeOp \in Op \ DOMAIN checkQueue
      /\ DOMAIN checkQueue' = DOMAIN checkQueue \cup {FreeOp}
      /\ checkQueue'[FreeOp].target = t
      /\ checkQueue'[FreeOp].epoch = reloads
      /\ \A x \in DOMAIN checkQueue : checkQueue'[x] = checkQueue[x]
  BY <1>1, AddOperation
<1>3. \A o \in DOMAIN checkQueue' : checkQueue'[o].epoch <= reloads
  BY <1>1, <1>2 DEF LoopInv, TypeOK
<1>4. \A u \in Host \cup {Refresh} : u # t /\ ~Started(u) => ~Started(u)'
  BY <1>1, <1>2 DEF Started
<1>5. OneLoopPerReload'
  BY <1>1, <1>2 DEF OneLoopPerReload, SameLoop, Started, LoopInv
<1> QED
  BY <1>3, <1>4, <1>5

(* An operation hands its own loop on and disturbs no other.               *)
LEMMA OperationLoops ==
  ASSUME TypeOK, LoopInv, NEW o \in DOMAIN checkQueue, OperationStep(o)
  PROVE  LoopInv'
<1>1. IsQueue(checkQueue) /\ o \in Op /\ checkQueue[o] \in Operation
  BY DEF TypeOK, IsQueue
<1>2. CASE RefreshAgain(o)
  <2>1. generateOperation(Refresh, checkQueue[o].epoch) \in Operation
    BY <1>1 DEF generateOperation, Operation
  <2>2. /\ DOMAIN checkQueue' = DOMAIN checkQueue
        /\ checkQueue'[o] = generateOperation(Refresh, checkQueue[o].epoch)
        /\ \A x \in DOMAIN checkQueue \ {o} : checkQueue'[x] = checkQueue[x]
    <3>1. checkQueue' = Added(o, generateOperation(Refresh, checkQueue[o].epoch))
      BY <1>2 DEF RefreshAgain
    <3>2. DOMAIN checkQueue = DOMAIN checkQueue \cup {o}
      OBVIOUS
    <3> QED
      BY <1>1, <2>1, <3>1, <3>2, AddedQueue
  <2>3. /\ checkQueue'[o].target = checkQueue[o].target
        /\ checkQueue'[o].epoch = checkQueue[o].epoch
    BY <1>2, <2>2 DEF RefreshAgain, generateOperation
  <2> QED
    BY <1>2, <2>2, <2>3, SameLoops DEF RefreshAgain
<1>3. CASE SkipOperation(o) \/ StopPoll(o)
  BY <1>1, <1>3, RemovedQueue, SameLoops DEF SkipOperation, StopPoll
<1>4. ASSUME NEW at \in {"running", "resting", "passing"},
             at \in {"resting", "passing"} => checkQueue[o].target \in Host,
             checkQueue' = [checkQueue EXCEPT ![o].at = at],
             UNCHANGED <<config, mainQueue, main, sheetOpen, hostsLeft, reloads>>
      PROVE  LoopInv'
  <2>1. /\ DOMAIN checkQueue' = DOMAIN checkQueue
        /\ checkQueue'[o] = [checkQueue[o] EXCEPT !.at = at]
        /\ \A x \in DOMAIN checkQueue \ {o} : checkQueue'[x] = checkQueue[x]
    BY <1>1, <1>4, MovedQueue
  <2>2. /\ checkQueue'[o].target = checkQueue[o].target
        /\ checkQueue'[o].epoch = checkQueue[o].epoch
    BY <1>1, <2>1 DEF Operation
  <2> QED
    BY <1>4, <2>1, <2>2, SameLoops
<1>5. CASE StartOperation(o) \/ RestPoll(o) \/ PassPoll(o)
  BY <1>1, <1>4, <1>5 DEF StartOperation, RestPoll, PassPoll, Operation
<1>6. CASE PostBlock(o)
  <2> DEFINE block == [target |-> checkQueue[o].target,
                       epoch  |-> checkQueue[o].epoch]
  <2>1. block \in Block
    BY <1>1, <1>6 DEF PostBlock, Block, Operation
  <2>2. /\ mainQueue \in Seq(Block)
        /\ DOMAIN mainQueue' = 1 .. Len(mainQueue) + 1
        /\ DOMAIN mainQueue = 1 .. Len(mainQueue)
        /\ \A i \in DOMAIN mainQueue : mainQueue'[i] = mainQueue[i]
        /\ mainQueue'[Len(mainQueue) + 1] = block
    BY <1>6, <2>1 DEF PostBlock, TypeOK
  <2>3. /\ DOMAIN checkQueue' = DOMAIN checkQueue \ {o}
        /\ \A x \in DOMAIN checkQueue' : checkQueue'[x] = checkQueue[x]
        /\ UNCHANGED <<main, hostsLeft, reloads>>
    BY <1>1, <1>6, RemovedQueue DEF PostBlock
  <2>4. \A i \in DOMAIN mainQueue' :
          \/ i \in DOMAIN mainQueue /\ mainQueue'[i] = mainQueue[i]
          \/ i \notin DOMAIN mainQueue /\ mainQueue'[i] = block
    BY <2>2
  <2>5. \A i, j \in DOMAIN mainQueue' \ DOMAIN mainQueue : i = j
    BY <2>2
  <2>6. block.target = checkQueue[o].target /\ block.epoch = checkQueue[o].epoch
    OBVIOUS
  <2> HIDE DEF block
  <2>7. /\ \A x \in DOMAIN checkQueue' : checkQueue'[x].epoch <= reloads'
        /\ \A i \in DOMAIN mainQueue' : mainQueue'[i].epoch <= reloads'
    BY <2>3, <2>4, <2>6 DEF LoopInv
  <2>8. \A t \in Host \cup {Refresh} : Started(t)' => Started(t)
    BY <2>3, <2>4, <2>6 DEF Started
  <2>9. OneLoopPerReload'
    BY <2>3, <2>4, <2>5, <2>6 DEF LoopInv, OneLoopPerReload, SameLoop
  <2> QED
    BY <2>3, <2>7, <2>8, <2>9 DEF LoopInv, TypeOK
<1> QED
  BY <1>2, <1>3, <1>5, <1>6 DEF OperationStep

(* A block hands its own loop on and disturbs no other.                    *)
LEMMA RunMainBlockLoops ==
  ASSUME TypeOK, LoopInv, RunMainBlock
  PROVE  LoopInv'
<1> DEFINE block == Head(mainQueue)
<1>1. /\ mainQueue \in Seq(Block)
      /\ mainQueue # <<>>
  BY DEF TypeOK, RunMainBlock
<1>2. /\ block \in Block
      /\ 1 \in DOMAIN mainQueue
      /\ block = mainQueue[1]
      /\ \A i \in DOMAIN Tail(mainQueue) :
           i + 1 \in DOMAIN mainQueue /\ i + 1 # 1 /\ i \in Nat
           /\ Tail(mainQueue)[i] = mainQueue[i + 1]
  BY <1>1
<1>3. /\ FreeOp \in Op \ DOMAIN checkQueue
      /\ DOMAIN checkQueue' = DOMAIN checkQueue \cup {FreeOp}
      /\ checkQueue'[FreeOp].target = block.target
      /\ checkQueue'[FreeOp].epoch = block.epoch
      /\ \A x \in DOMAIN checkQueue : checkQueue'[x] = checkQueue[x]
  <2>1. block.target \in Host \cup {Refresh} /\ block.epoch \in Nat
    BY <1>2 DEF Block
  <2>2. addOperation(block.target, block.epoch)
    BY DEF RunMainBlock
  <2> QED
    BY <2>1, <2>2, AddOperation
<1>4. /\ mainQueue' = Tail(mainQueue)
      /\ main' # "purged" /\ main' # "spawning"
      /\ reloads' = reloads
  BY DEF RunMainBlock
<1> HIDE DEF block
<1>5. \A i \in DOMAIN mainQueue' :
        /\ i + 1 \in DOMAIN mainQueue /\ i + 1 # 1 /\ i \in Nat
        /\ mainQueue'[i] = mainQueue[i + 1]
  BY <1>2, <1>4
<1>6. /\ \A x \in DOMAIN checkQueue' : checkQueue'[x].epoch <= reloads'
      /\ \A i \in DOMAIN mainQueue' : mainQueue'[i].epoch <= reloads'
  BY <1>2, <1>4, <1>3, <1>5 DEF LoopInv
<1>7. OneLoopPerReload'
  <2>1. \A o, p \in DOMAIN checkQueue' :
          SameLoop(checkQueue'[o], checkQueue'[p]) => o = p
    BY <1>2, <1>3 DEF LoopInv, OneLoopPerReload, SameLoop
  <2>2. \A i, j \in DOMAIN mainQueue' :
          SameLoop(mainQueue'[i], mainQueue'[j]) => i = j
    <3> SUFFICES ASSUME NEW i \in DOMAIN mainQueue', NEW j \in DOMAIN mainQueue',
                        SameLoop(mainQueue'[i], mainQueue'[j])
                 PROVE  i = j
      OBVIOUS
    <3>1. i + 1 = j + 1
      BY <1>5 DEF LoopInv, OneLoopPerReload
    <3> QED
      BY <1>5, <3>1
  <2>3. \A o \in DOMAIN checkQueue', i \in DOMAIN mainQueue' :
          ~ SameLoop(checkQueue'[o], mainQueue'[i])
    BY <1>2, <1>3, <1>5 DEF LoopInv, OneLoopPerReload, SameLoop
  <2> QED
    BY <2>1, <2>2, <2>3 DEF OneLoopPerReload
<1> QED
  BY <1>4, <1>6, <1>7 DEF LoopInv

(* Every step keeps LoopInv.                                               *)
LEMMA LoopStep ==
  ASSUME TypeOK, SheetInv, LoopInv, [Next]_vars
  PROVE  LoopInv'
<1>1. IsQueue(checkQueue)
  BY DEF TypeOK
<1>2. CASE BeginSheet \/ OpenConfigSheet
  <2>1. checkQueue' = cancelAllOperations /\ UNCHANGED <<mainQueue, reloads>>
    BY <1>2 DEF BeginSheet, OpenConfigSheet
  <2>2. /\ \A x \in DOMAIN checkQueue' : checkQueue'[x].epoch <= reloads'
        /\ \A i \in DOMAIN mainQueue' : mainQueue'[i].epoch <= reloads'
        /\ OneLoopPerReload'
    BY <1>1, <2>1, CancelledQueue DEF LoopInv, OneLoopPerReload, SameLoop
  <2> QED
    BY <1>2, <2>2 DEF LoopInv, BeginSheet, OpenConfigSheet
<1>3. CASE EndConfigSheet
  <2>1. /\ checkQueue' = cancelAllOperations
        /\ UNCHANGED mainQueue
        /\ reloads' = reloads + 1
        /\ main' = "purged"
        /\ reloads \in Nat
    BY <1>3, ReloadsAssumption DEF EndConfigSheet, TypeOK
  <2>2. /\ \A x \in DOMAIN checkQueue' :
             checkQueue'[x].epoch \in Nat /\ checkQueue'[x].epoch <= reloads
        /\ \A i \in DOMAIN mainQueue' :
             mainQueue'[i].epoch \in Nat /\ mainQueue'[i].epoch <= reloads
    <3>1. \A x \in DOMAIN checkQueue : checkQueue[x].epoch \in Nat
      <4>1. \A x \in DOMAIN checkQueue : checkQueue[x] \in Operation
        BY <1>1 DEF IsQueue
      <4> QED
        BY <4>1 DEF Operation
    <3>2. \A i \in DOMAIN mainQueue : mainQueue[i].epoch \in Nat
      <4>1. \A i \in DOMAIN mainQueue : mainQueue[i] \in Block
        BY DEF TypeOK
      <4> QED
        BY <4>1 DEF Block
    <3>3. \A x \in DOMAIN checkQueue :
            checkQueue'[x].epoch = checkQueue[x].epoch
      BY <1>1, <2>1, CancelledQueue
    <3>4. DOMAIN checkQueue' = DOMAIN checkQueue
      BY <1>1, <2>1, CancelledQueue
    <3> QED
      BY <2>1, <3>1, <3>2, <3>3, <3>4 DEF LoopInv
  <2>3. OneLoopPerReload'
    BY <1>1, <2>1, CancelledQueue DEF LoopInv, OneLoopPerReload, SameLoop
  <2>4. \A t \in Host \cup {Refresh} : ~Started(t)'
    BY <2>1, <2>2 DEF Started
  <2> QED
    BY <2>1, <2>2, <2>3, <2>4 DEF LoopInv, IsQueue
<1>4. CASE ReloadRefresh
  <2>1. /\ ~Started(Refresh)
        /\ addOperation(Refresh, reloads)
        /\ UNCHANGED <<mainQueue, reloads>>
        /\ main' = "spawning" /\ hostsLeft' \subseteq Host
    BY <1>4 DEF ReloadRefresh, LoopInv
  <2>2. \A h \in Host : ~Started(h)
    BY <1>4 DEF ReloadRefresh, LoopInv
  <2>3. /\ \A x \in DOMAIN checkQueue' : checkQueue'[x].epoch <= reloads
        /\ \A h \in Host : ~Started(h)'
        /\ OneLoopPerReload'
    BY <2>1, <2>2, NewLoop, RefreshAssumption
  <2> QED
    BY <2>1, <2>3 DEF LoopInv
<1>5. ASSUME NEW h \in Host, ReloadHost(h)
      PROVE  LoopInv'
  <2>1. /\ UNCHANGED <<mainQueue, main, reloads>>
        /\ main = "spawning"
        /\ hostsLeft' = hostsLeft \ {h} /\ hostsLeft \subseteq Host
        /\ ~Started(h)
    BY <1>5 DEF ReloadHost, LoopInv, TypeOK
  <2>2. CASE addOperation(h, reloads)
    <3>1. /\ \A x \in DOMAIN checkQueue' : checkQueue'[x].epoch <= reloads
          /\ \A g \in Host : g # h /\ ~Started(g) => ~Started(g)'
          /\ OneLoopPerReload'
      BY <2>1, <2>2, NewLoop
    <3> QED
      BY <2>1, <3>1 DEF LoopInv
  <2>3. CASE UNCHANGED checkQueue
    BY <2>1, <2>3 DEF LoopInv, Started, OneLoopPerReload
  <2> QED
    BY <1>5, <2>2, <2>3 DEF ReloadHost
<1>6. CASE ReloadDone
  BY <1>6 DEF ReloadDone, LoopInv, OneLoopPerReload
<1>7. ASSUME NEW h \in Host, NEW s \in Setting, EditConfig(h, s)
      PROVE  LoopInv'
  BY <1>7, SameLoops DEF EditConfig, queueVars
<1>8. CASE UNCHANGED vars
  BY <1>8, SameLoops DEF vars, queueVars
<1> QED
  BY <1>2, <1>3, <1>4, <1>5, <1>6, <1>7, <1>8, OperationLoops, RunMainBlockLoops
  DEF Next, MainStep, UserStep

(* However operations, blocks and handlers interleave, handing a loop on   *)
(* never forks it.                                                         *)
THEOREM LoopsDoNotFork == Spec => []OneLoopPerReload
<1>1. Init => LoopInv
  BY RefreshAssumption DEF Init, LoopInv, Started, OneLoopPerReload
<1>2. TypeOK /\ SheetInv /\ LoopInv /\ [Next]_vars => (TypeOK /\ SheetInv /\ LoopInv)'
  BY TypeStep, LoopStep
<1>3. LoopInv => OneLoopPerReload
  BY DEF LoopInv
<1> QED
  BY InitType, <1>1, <1>2, <1>3, PTL DEF Spec

(***************************************************************************)
(* No loop is lost: every step carries on the loops of the latest reload,  *)
(* until the main thread cancels them, which only the sheet makes it do.   *)
(***************************************************************************)

(* An operation's step loses no loop of the latest reload.                 *)
LEMMA OperationWatched ==
  ASSUME TypeOK, NEW o \in DOMAIN checkQueue, OperationStep(o),
         NEW t, Watched(t)
  PROVE  Watched(t)'
<1>1. IsQueue(checkQueue) /\ o \in Op /\ checkQueue[o] \in Operation
  BY DEF TypeOK, IsQueue
<1>2. reloads' = reloads
  BY DEF OperationStep, StartOperation, SkipOperation, RefreshAgain, RestPoll,
         PassPoll, StopPoll, PostBlock
<1>3. ASSUME NEW i \in DOMAIN mainQueue,
             mainQueue[i].target = t, mainQueue[i].epoch = reloads
      PROVE  Watched(t)'
  <2>1. CASE mainQueue' = mainQueue
    BY <1>2, <1>3, <2>1 DEF Watched
  <2>2. CASE PostBlock(o)
    <3>1. [target |-> checkQueue[o].target, epoch |-> checkQueue[o].epoch] \in Block
      BY <1>1, <2>2 DEF PostBlock, Block, Operation
    <3>2. i \in DOMAIN mainQueue' /\ mainQueue'[i] = mainQueue[i]
      BY <2>2, <3>1 DEF PostBlock, TypeOK
    <3> QED
      BY <1>2, <1>3, <3>2 DEF Watched
  <2> QED
    BY <2>1, <2>2 DEF OperationStep, StartOperation, SkipOperation,
                      RefreshAgain, RestPoll, PassPoll, StopPoll
<1>4. ASSUME NEW p \in DOMAIN checkQueue, checkQueue[p].target = t,
             checkQueue[p].epoch = reloads, ~checkQueue[p].cancelled
      PROVE  Watched(t)'
  <2>1. CASE p # o
    <3>1. p \in DOMAIN checkQueue' /\ checkQueue'[p] = checkQueue[p]
      <4>1. CASE RefreshAgain(o)
        BY <2>1, <4>1 DEF RefreshAgain, Added
      <4>2. CASE SkipOperation(o) \/ StopPoll(o) \/ PostBlock(o)
        BY <2>1, <4>2 DEF SkipOperation, StopPoll, PostBlock, Removed
      <4>3. CASE StartOperation(o) \/ RestPoll(o) \/ PassPoll(o)
        BY <1>1, <2>1, <4>3 DEF StartOperation, RestPoll, PassPoll
      <4> QED
        BY <4>1, <4>2, <4>3 DEF OperationStep
    <3> QED
      BY <1>2, <1>4, <3>1 DEF Watched
  <2>2. CASE p = o
    <3>1. CASE RefreshAgain(o)
      <4>1. /\ o \in DOMAIN checkQueue'
            /\ checkQueue'[o] = generateOperation(Refresh, checkQueue[o].epoch)
            /\ checkQueue[o].target = Refresh
        BY <3>1 DEF RefreshAgain, Added
      <4>2. /\ checkQueue'[o].target = Refresh
            /\ checkQueue'[o].epoch = checkQueue[o].epoch
            /\ checkQueue'[o].cancelled = FALSE
        BY <4>1 DEF generateOperation
      <4> QED
        BY <1>2, <1>4, <2>2, <4>1, <4>2 DEF Watched
    <3>2. CASE SkipOperation(o) \/ StopPoll(o)
      BY <1>4, <2>2, <3>2 DEF SkipOperation, StopPoll
    <3>3. CASE PostBlock(o)
      <4>1. [target |-> checkQueue[o].target, epoch |-> checkQueue[o].epoch] \in Block
        BY <1>1, <3>3 DEF PostBlock, Block, Operation
      <4>2. /\ Len(mainQueue) + 1 \in DOMAIN mainQueue'
            /\ mainQueue'[Len(mainQueue) + 1]
                 = [target |-> checkQueue[o].target, epoch |-> checkQueue[o].epoch]
        BY <3>3, <4>1 DEF PostBlock, TypeOK
      <4> QED
        BY <1>2, <1>4, <2>2, <4>2 DEF Watched
    <3>4. CASE StartOperation(o) \/ RestPoll(o) \/ PassPoll(o)
      <4>1. PICK at : checkQueue' = [checkQueue EXCEPT ![o].at = at]
        BY <3>4 DEF StartOperation, RestPoll, PassPoll
      <4>2. /\ o \in DOMAIN checkQueue'
            /\ checkQueue'[o] = [checkQueue[o] EXCEPT !.at = at]
        BY <1>1, <4>1
      <4>3. /\ checkQueue'[o].target = checkQueue[o].target
            /\ checkQueue'[o].epoch = checkQueue[o].epoch
            /\ checkQueue'[o].cancelled = checkQueue[o].cancelled
        BY <1>1, <4>2 DEF Operation
      <4> QED
        BY <1>2, <1>4, <2>2, <4>2, <4>3 DEF Watched
    <3> QED
      BY <3>1, <3>2, <3>3, <3>4 DEF OperationStep
  <2> QED
    BY <2>1, <2>2
<1> QED
  BY <1>3, <1>4 DEF Watched

(* A new operation keeps its target watched, and the others.               *)
LEMMA AddedWatched ==
  ASSUME TypeOK, NEW t \in Host \cup {Refresh}, NEW e \in Nat,
         addOperation(t, e), UNCHANGED <<mainQueue, reloads>>
  PROVE  /\ e = reloads => Watched(t)'
         /\ \A u : Watched(u) => Watched(u)'
  BY AddOperation DEF Watched

(* A block's step loses no loop of the latest reload.                      *)
LEMMA RunMainBlockWatched ==
  ASSUME TypeOK, RunMainBlock, NEW t, Watched(t)
  PROVE  Watched(t)'
<1> DEFINE block == Head(mainQueue)
<1>1. /\ block \in Block
      /\ block = mainQueue[1]
      /\ \A i \in DOMAIN mainQueue \ {1} :
           i - 1 \in DOMAIN Tail(mainQueue) /\ Tail(mainQueue)[i - 1] = mainQueue[i]
  BY DEF TypeOK, RunMainBlock
<1>2. /\ FreeOp \in DOMAIN checkQueue'
      /\ checkQueue'[FreeOp].target = block.target
      /\ checkQueue'[FreeOp].epoch = block.epoch
      /\ ~checkQueue'[FreeOp].cancelled
      /\ \A x \in DOMAIN checkQueue :
           x \in DOMAIN checkQueue' /\ checkQueue'[x] = checkQueue[x]
  <2>1. block.target \in Host \cup {Refresh} /\ block.epoch \in Nat
    BY <1>1 DEF Block
  <2>2. addOperation(block.target, block.epoch)
    BY DEF RunMainBlock
  <2> QED
    BY <2>1, <2>2, AddOperation
<1>3. mainQueue' = Tail(mainQueue) /\ reloads' = reloads
  BY DEF RunMainBlock
<1> HIDE DEF block
<1> QED
  BY <1>1, <1>2, <1>3 DEF Watched

(* Every step keeps WatchInv.                                              *)
LEMMA WatchStep ==
  ASSUME TypeOK, SheetInv, WatchInv, [Next]_vars
  PROVE  WatchInv'
<1>1. ASSUME UNCHANGED <<config, main, sheetOpen, hostsLeft>>,
             \A t : Watched(t) => Watched(t)'
      PROVE  WatchInv'
  BY <1>1 DEF WatchInv, NoneForgotten
<1>2. ASSUME NEW o \in DOMAIN checkQueue, OperationStep(o)
      PROVE  WatchInv'
  <2>1. UNCHANGED <<config, main, sheetOpen, hostsLeft>>
    BY <1>2 DEF OperationStep, StartOperation, SkipOperation, RefreshAgain,
                RestPoll, PassPoll, StopPoll, PostBlock
  <2> QED
    BY <1>1, <1>2, <2>1, OperationWatched
<1>3. CASE RunMainBlock
  <2>1. UNCHANGED <<config, main, sheetOpen, hostsLeft>>
    BY <1>3 DEF RunMainBlock
  <2> QED
    BY <1>1, <1>3, <2>1, RunMainBlockWatched
<1>4. CASE ReloadRefresh
  <2>1. reloads \in Nat
    BY ReloadsAssumption DEF TypeOK
  <2>2. Watched(Refresh)'
    BY <1>4, <2>1, AddedWatched DEF ReloadRefresh
  <2>3. \A h \in Host \ hostsLeft' : config'[h] # "on"
    BY <1>4 DEF ReloadRefresh
  <2>4. main' = "spawning"
    BY <1>4 DEF ReloadRefresh
  <2> QED
    BY <2>2, <2>3, <2>4 DEF WatchInv, NoneForgotten
<1>5. ASSUME NEW h \in Host, ReloadHost(h)
      PROVE  WatchInv'
  <2>1. /\ UNCHANGED <<config, mainQueue, reloads>>
        /\ main = "spawning" /\ main' = "spawning"
        /\ hostsLeft' = hostsLeft \ {h}
        /\ reloads \in Nat
    BY <1>5, ReloadsAssumption DEF ReloadHost, TypeOK
  <2>2. /\ \A t : Watched(t) => Watched(t)'
        /\ config[h] = "on" => Watched(h)'
    <3>1. CASE config[h] = "on" /\ addOperation(h, reloads)
      BY <2>1, <3>1, AddedWatched
    <3>2. CASE config[h] # "on" /\ UNCHANGED checkQueue
      BY <2>1, <3>2 DEF Watched
    <3> QED
      BY <1>5, <3>1, <3>2 DEF ReloadHost
  <2> QED
    BY <2>1, <2>2 DEF WatchInv, NoneForgotten
<1>6. CASE ReloadDone
  BY <1>6 DEF ReloadDone, WatchInv, NoneForgotten, Watched
<1>7. CASE BeginSheet \/ OpenConfigSheet \/ EndConfigSheet
  BY <1>7 DEF BeginSheet, OpenConfigSheet, EndConfigSheet, WatchInv, NoneForgotten
<1>8. ASSUME NEW h \in Host, NEW s \in Setting, EditConfig(h, s)
      PROVE  WatchInv'
  BY <1>8 DEF EditConfig, queueVars, WatchInv, NoneForgotten
<1>9. CASE UNCHANGED vars
  BY <1>9 DEF vars, queueVars, WatchInv, NoneForgotten, Watched
<1> QED
  BY <1>2, <1>3, <1>4, <1>5, <1>6, <1>7, <1>8, <1>9 DEF Next, MainStep, UserStep

(* After every reload the log is refreshed and every active host polled,   *)
(* wherever in an operation the purge landed.                              *)
THEOREM NoHostForgotten == Spec => []NoneForgotten
<1>1. Init => WatchInv
  BY DEF Init, WatchInv, NoneForgotten
<1>2. TypeOK /\ SheetInv /\ WatchInv /\ [Next]_vars => (TypeOK /\ SheetInv /\ WatchInv)'
  BY TypeStep, WatchStep
<1>3. WatchInv => NoneForgotten
  BY DEF WatchInv
<1> QED
  BY InitType, <1>1, <1>2, <1>3, PTL DEF Spec

(***************************************************************************)
(* Cancelling a poll is final.                                             *)
(***************************************************************************)

(* A doomed poll stays doomed or leaves without a block.                   *)
LEMMA DoomedStep ==
  ASSUME TypeOK, [Next]_vars, NEW o \in Op, Doomed(o)
  PROVE  \/ Doomed(o)'
         \/ o \notin DOMAIN checkQueue' /\ mainQueue' = mainQueue
<1>1. IsQueue(checkQueue) /\ o \in DOMAIN checkQueue /\ checkQueue[o] \in Operation
  BY DEF TypeOK, Doomed, IsQueue
<1>2. ASSUME o \in DOMAIN checkQueue', checkQueue'[o] = checkQueue[o]
      PROVE  Doomed(o)'
  BY <1>2 DEF Doomed
<1>3. ASSUME NEW p \in DOMAIN checkQueue, OperationStep(p), p # o
      PROVE  Doomed(o)'
  <2>1. CASE RefreshAgain(p)
    BY <1>1, <1>2, <1>3, <2>1 DEF RefreshAgain, Added
  <2>2. CASE SkipOperation(p) \/ StopPoll(p) \/ PostBlock(p)
    BY <1>1, <1>2, <1>3, <2>2 DEF SkipOperation, StopPoll, PostBlock, Removed
  <2>3. CASE StartOperation(p) \/ RestPoll(p) \/ PassPoll(p)
    BY <1>1, <1>2, <1>3, <2>3 DEF StartOperation, RestPoll, PassPoll
  <2> QED
    BY <1>3, <2>1, <2>2, <2>3 DEF OperationStep, IsQueue
<1>4. CASE OperationStep(o)
  <2>1. ~StartOperation(o) /\ ~PassPoll(o) /\ ~PostBlock(o) /\ ~RefreshAgain(o)
    BY RefreshAssumption DEF Doomed, StartOperation, PassPoll, PostBlock, RefreshAgain
  <2>2. CASE SkipOperation(o) \/ StopPoll(o)
    BY <2>2 DEF SkipOperation, StopPoll, Removed
  <2>3. CASE RestPoll(o)
    <3>1. /\ o \in DOMAIN checkQueue'
          /\ checkQueue'[o] = [checkQueue[o] EXCEPT !.at = "resting"]
      BY <1>1, <2>3 DEF RestPoll
    <3>2. /\ checkQueue'[o].target = checkQueue[o].target
          /\ checkQueue'[o].cancelled = checkQueue[o].cancelled
          /\ checkQueue'[o].at = "resting"
      BY <1>1, <3>1 DEF Operation
    <3> QED
      BY <3>1, <3>2 DEF Doomed
  <2> QED
    BY <1>4, <2>1, <2>2, <2>3 DEF OperationStep, IsQueue
<1>5. ASSUME NEW t \in Host \cup {Refresh}, NEW e \in Nat, addOperation(t, e)
      PROVE  Doomed(o)'
  BY <1>1, <1>2, <1>5, AddOperation
<1>6. CASE RunMainBlock
  <2>1. Head(mainQueue) \in Block
    BY <1>6 DEF RunMainBlock, TypeOK
  <2> QED
    BY <1>5, <1>6, <2>1 DEF RunMainBlock, Block
<1>7. ASSUME checkQueue' = cancelAllOperations
      PROVE  Doomed(o)'
  BY <1>1, <1>7, CancelledQueue DEF Doomed
<1>8. CASE ReloadRefresh \/ \E h \in Host : ReloadHost(h)
  <2>1. reloads \in Nat
    BY ReloadsAssumption DEF TypeOK
  <2> QED
    BY <1>1, <1>2, <1>5, <1>8, <2>1 DEF ReloadRefresh, ReloadHost
<1>9. CASE BeginSheet \/ OpenConfigSheet \/ EndConfigSheet
  BY <1>7, <1>9 DEF BeginSheet, OpenConfigSheet, EndConfigSheet
<1>10. CASE ReloadDone \/ \E h \in Host, s \in Setting : EditConfig(h, s)
  BY <1>1, <1>2, <1>10 DEF ReloadDone, EditConfig, queueVars
<1>11. CASE UNCHANGED vars
  BY <1>1, <1>2, <1>11 DEF vars, queueVars
<1> QED
  BY <1>3, <1>4, <1>6, <1>8, <1>9, <1>10, <1>11 DEF Next, MainStep, UserStep

(* A poll that is cancelled before its last look at isCancelled puts       *)
(* nothing in motion again.                                                *)
THEOREM CancellingIsFinal == Spec => CancelIsFinal
<1>1. TypeOK /\ [Next]_vars =>
        [\A o \in Op : Doomed(o) =>
           \/ Doomed(o)'
           \/ o \notin DOMAIN checkQueue' /\ mainQueue' = mainQueue]_vars
  BY DoomedStep
<1> QED
  BY TypeCorrect, <1>1, PTL DEF Spec, CancelIsFinal
=============================================================================
