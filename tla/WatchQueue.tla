------------------------------ MODULE WatchQueue ------------------------------
(***************************************************************************)
(* The polling machinery of a DBMDocument: the operations of its           *)
(* checkQueue, the blocks it posts to the main queue, and the main thread  *)
(* opening and closing the configuration sheet.                            *)
(*                                                                         *)
(* An operation executes the block of generateRefreshOperation or of       *)
(* generateMySQLOperation: each block ends by putting its own successor on *)
(* checkQueue, so a loop is a chain of operations.  Only cancellation ends *)
(* a chain.  What a poll does to the event log is left to EventLog.        *)
(***************************************************************************)
EXTENDS Naturals, Sequences

CONSTANTS
  Host,        \* the MySQLHost objects the document ever holds
  Refresh,     \* the target of a refresh operation, which polls no host
  Op,          \* identities for the operations that exist at one time
  MaxReloads   \* bound on the number of times reloadDataWatchers runs

ASSUME RefreshAssumption == Refresh \notin Host
ASSUME ReloadsAssumption == MaxReloads \in Nat \ {0}

VARIABLES
  config,      \* each host's entry in the configuration
  checkQueue,  \* the unfinished operations: a function on a subset of Op
  mainQueue,   \* the blocks posted to the main queue, oldest first
  main,        \* what the main thread is executing
  sheetOpen,   \* whether the configuration sheet is on screen
  hostsLeft,   \* the hosts reloadDataWatchers has yet to visit
  reloads      \* how many times reloadDataWatchers has begun

queueVars == <<checkQueue, mainQueue, main, sheetOpen, hostsLeft, reloads>>
vars == <<config, queueVars>>

(* A host is "on" when it and its pool are both active, "off" when either  *)
(* is inactive, and "out" when no pool holds it: it was removed, or its    *)
(* pool was, or it was never added.                                        *)
Setting == {"on", "off", "out"}

(* An operation waits in the queue, runs its block, and, for a poll, rests *)
(* in the half-second sleep and then has seen that it is not cancelled.    *)
(* The epoch records which reload started the chain it belongs to.         *)
Operation ==
  {op \in [target    : Host \cup {Refresh},
           at        : {"queued", "running", "resting", "passing"},
           cancelled : BOOLEAN,
           epoch     : Nat] :
     op.at \in {"resting", "passing"} => op.target \in Host}

Block == [target : Host, epoch : Nat]

IsQueue(q) == DOMAIN q \subseteq Op /\ q \in [DOMAIN q -> Operation]

TypeOK ==
  /\ config \in [Host -> Setting]
  /\ IsQueue(checkQueue)
  /\ mainQueue \in Seq(Block)
  /\ main \in {"idle", "opening", "purged", "spawning"}
  /\ sheetOpen \in BOOLEAN
  /\ hostsLeft \subseteq Host
  /\ reloads \in 1 .. MaxReloads

-----------------------------------------------------------------------------
(* Helpers on the operation queue.                                         *)

generateOperation(t, e) ==
  [target |-> t, at |-> "queued", cancelled |-> FALSE, epoch |-> e]

Added(o, operation) ==
  [x \in DOMAIN checkQueue \cup {o} |->
     IF x = o THEN operation ELSE checkQueue[x]]

Removed(o) == [x \in DOMAIN checkQueue \ {o} |-> checkQueue[x]]

cancelAllOperations ==
  [x \in DOMAIN checkQueue |-> [checkQueue[x] EXCEPT !.cancelled = TRUE]]

FreeOp == CHOOSE o \in Op : o \notin DOMAIN checkQueue

addOperation(t, e) ==
  /\ Op \ DOMAIN checkQueue # {}
  /\ checkQueue' = Added(FreeOp, generateOperation(t, e))

-----------------------------------------------------------------------------
(* Loading the nib runs reloadDataWatchers for the first time, on an empty *)
(* queue, with whatever configuration the document was saved with.         *)
Init ==
  /\ config \in [Host -> Setting]
  /\ checkQueue = [o \in {} |-> o]
  /\ mainQueue = <<>>
  /\ main = "purged"
  /\ sheetOpen = FALSE
  /\ hostsLeft = {}
  /\ reloads = 1

-----------------------------------------------------------------------------
(* Slips: actions below as a mistake in the code would have made them.     *)
(* Each makes TLC refute the property that guards against it.              *)

SkipOperationUnfinished(o) ==
  /\ checkQueue[o].at = "queued"
  /\ checkQueue[o].cancelled
  /\ checkQueue' = [checkQueue EXCEPT ![o].at = "finished"]
  /\ UNCHANGED <<config, mainQueue, main, sheetOpen, hostsLeft, reloads>>

PassPollUnchecked(o) ==
  /\ checkQueue[o].at = "resting"
  /\ checkQueue' = [checkQueue EXCEPT ![o].at = "passing"]
  /\ UNCHANGED <<config, mainQueue, main, sheetOpen, hostsLeft, reloads>>

StopPollRetried(o) ==
  /\ checkQueue[o].at = "resting"
  /\ checkQueue[o].cancelled
  /\ checkQueue' = [checkQueue EXCEPT ![o].at = "running"]
  /\ UNCHANGED <<config, mainQueue, main, sheetOpen, hostsLeft, reloads>>

RunMainBlockTwice ==
  /\ main = "idle"
  /\ mainQueue # <<>>
  /\ addOperation(Head(mainQueue).target, Head(mainQueue).epoch)
  /\ mainQueue' \in {mainQueue, Tail(mainQueue)}
  /\ UNCHANGED <<config, main, sheetOpen, hostsLeft, reloads>>

(* Sparing a second watcher when a cancelled one is still in the queue.    *)
ReloadHostIfUnwatched(h) ==
  /\ main = "spawning"
  /\ h \in hostsLeft
  /\ IF config[h] = "on" /\ \A o \in DOMAIN checkQueue : checkQueue[o].target # h
       THEN addOperation(h, reloads)
       ELSE UNCHANGED checkQueue
  /\ hostsLeft' = hostsLeft \ {h}
  /\ UNCHANGED <<config, mainQueue, main, sheetOpen, reloads>>

(* Polling every host that the pools hold, also those that are not active. *)
ReloadHostUnchecked(h) ==
  /\ main = "spawning"
  /\ h \in hostsLeft
  /\ addOperation(h, reloads)
  /\ hostsLeft' = hostsLeft \ {h}
  /\ UNCHANGED <<config, mainQueue, main, sheetOpen, reloads>>

-----------------------------------------------------------------------------
(* The operations, on the threads of checkQueue.                           *)

(* An operation that was not cancelled while it waited starts its block.   *)
StartOperation(o) ==
  /\ checkQueue[o].at = "queued"
  /\ ~checkQueue[o].cancelled
  /\ checkQueue' = [checkQueue EXCEPT ![o].at = "running"]
  /\ UNCHANGED <<config, mainQueue, main, sheetOpen, hostsLeft, reloads>>

(* One that was cancelled finishes without its body.                       *)
SkipOperation(o) ==
  /\ checkQueue[o].at = "queued"
  /\ checkQueue[o].cancelled
  /\ checkQueue' = Removed(o)
  /\ UNCHANGED <<config, mainQueue, main, sheetOpen, hostsLeft, reloads>>

(* A refresh ends by adding its successor without asking again whether it  *)
(* was cancelled; the successor takes its place.                           *)
RefreshAgain(o) ==
  /\ checkQueue[o].target = Refresh
  /\ checkQueue[o].at = "running"
  /\ checkQueue' = Added(o, generateOperation(Refresh, checkQueue[o].epoch))
  /\ UNCHANGED <<config, mainQueue, main, sheetOpen, hostsLeft, reloads>>

(* A poll that has done its work sleeps for half a second.                 *)
RestPoll(o) ==
  /\ checkQueue[o].target \in Host
  /\ checkQueue[o].at = "running"
  /\ checkQueue' = [checkQueue EXCEPT ![o].at = "resting"]
  /\ UNCHANGED <<config, mainQueue, main, sheetOpen, hostsLeft, reloads>>

(* After the sleep it goes on only if nobody cancelled it.                 *)
PassPoll(o) ==
  /\ checkQueue[o].at = "resting"
  /\ ~checkQueue[o].cancelled
  /\ checkQueue' = [checkQueue EXCEPT ![o].at = "passing"]
  /\ UNCHANGED <<config, mainQueue, main, sheetOpen, hostsLeft, reloads>>

StopPoll(o) ==
  /\ checkQueue[o].at = "resting"
  /\ checkQueue[o].cancelled
  /\ checkQueue' = Removed(o)
  /\ UNCHANGED <<config, mainQueue, main, sheetOpen, hostsLeft, reloads>>

(* It posts the block that will add its successor, and finishes.           *)
PostBlock(o) ==
  /\ checkQueue[o].at = "passing"
  /\ mainQueue' = Append(mainQueue, [target |-> checkQueue[o].target,
                                     epoch  |-> checkQueue[o].epoch])
  /\ checkQueue' = Removed(o)
  /\ UNCHANGED <<config, main, sheetOpen, hostsLeft, reloads>>

OperationStep(o) ==
  \/ StartOperation(o)
  \/ SkipOperation(o)
  \/ RefreshAgain(o)
  \/ RestPoll(o)
  \/ PassPoll(o)
  \/ StopPoll(o)
  \/ PostBlock(o)

-----------------------------------------------------------------------------
(* The main thread.  While it executes a handler it runs no posted block.  *)

RunMainBlock ==
  /\ main = "idle"
  /\ mainQueue # <<>>
  /\ addOperation(Head(mainQueue).target, Head(mainQueue).epoch)
  /\ mainQueue' = Tail(mainQueue)
  /\ UNCHANGED <<config, main, sheetOpen, hostsLeft, reloads>>

(* openConfigSheet cancels, puts the sheet up and cancels once more.       *)
OpenConfigSheet ==
  /\ main = "idle"
  /\ ~sheetOpen
  /\ reloads < MaxReloads
  /\ checkQueue' = cancelAllOperations
  /\ main' = "opening"
  /\ UNCHANGED <<config, mainQueue, sheetOpen, hostsLeft, reloads>>

BeginSheet ==
  /\ main = "opening"
  /\ checkQueue' = cancelAllOperations
  /\ sheetOpen' = TRUE
  /\ main' = "idle"
  /\ UNCHANGED <<config, mainQueue, hostsLeft, reloads>>

(* The sheet's bindings write each edit into the managed objects at once.  *)
EditConfig(h, s) ==
  /\ main = "idle"
  /\ sheetOpen
  /\ config' = [config EXCEPT ![h] = s]
  /\ UNCHANGED queueVars

(* endConfigSheet calls reloadDataWatchers, which first purges the queue.  *)
EndConfigSheet ==
  /\ main = "idle"
  /\ sheetOpen
  /\ sheetOpen' = FALSE
  /\ checkQueue' = cancelAllOperations
  /\ reloads' = reloads + 1
  /\ main' = "purged"
  /\ UNCHANGED <<config, mainQueue, hostsLeft>>

(* It starts a refresh loop, and will visit the hosts of every pool.       *)
ReloadRefresh ==
  /\ main = "purged"
  /\ addOperation(Refresh, reloads)
  /\ hostsLeft' = {h \in Host : config[h] # "out"}
  /\ main' = "spawning"
  /\ UNCHANGED <<config, mainQueue, sheetOpen, reloads>>

(* An active host gets a poll; an inactive one only has its log cleared.   *)
ReloadHost(h) ==
  /\ main = "spawning"
  /\ h \in hostsLeft
  /\ \/ config[h] = "on" /\ addOperation(h, reloads)
     \/ config[h] # "on" /\ UNCHANGED checkQueue
  /\ hostsLeft' = hostsLeft \ {h}
  /\ UNCHANGED <<config, mainQueue, main, sheetOpen, reloads>>

ReloadDone ==
  /\ main = "spawning"
  /\ hostsLeft = {}
  /\ main' = "idle"
  /\ UNCHANGED <<config, checkQueue, mainQueue, sheetOpen, hostsLeft, reloads>>

(* The steps of the main thread that wait for no user.                     *)
MainStep ==
  \/ RunMainBlock
  \/ BeginSheet
  \/ ReloadRefresh
  \/ \E h \in Host : ReloadHost(h)
  \/ ReloadDone

UserStep ==
  \/ OpenConfigSheet
  \/ \E h \in Host, s \in Setting : EditConfig(h, s)
  \/ EndConfigSheet

Next ==
  \/ \E o \in DOMAIN checkQueue : OperationStep(o)
  \/ MainStep
  \/ UserStep

Spec == Init /\ [][Next]_vars

(* Every queued operation gets a thread and every block and handler the    *)
(* main thread; the user need not do anything.                             *)
Fairness ==
  /\ \A o \in Op : WF_vars(o \in DOMAIN checkQueue /\ OperationStep(o))
  /\ WF_vars(MainStep)

FairSpec == Spec /\ Fairness

-----------------------------------------------------------------------------
(* Safety.                                                                 *)

SameLoop(a, b) == a.target = b.target /\ a.epoch = b.epoch

(* Every reload starts one refresh loop and one loop per active host, and  *)
(* handing a loop on, from operation to block to operation, never forks    *)
(* it: no two operations or blocks continue the same loop.                 *)
OneLoopPerReload ==
  /\ \A o, p \in DOMAIN checkQueue :
       SameLoop(checkQueue[o], checkQueue[p]) => o = p
  /\ \A i, j \in DOMAIN mainQueue :
       SameLoop(mainQueue[i], mainQueue[j]) => i = j
  /\ \A o \in DOMAIN checkQueue, i \in DOMAIN mainQueue :
       ~ SameLoop(checkQueue[o], mainQueue[i])

(* The loop that the latest reload started for t is still going: one of    *)
(* its operations is not cancelled, or a block will add the next one.      *)
Watched(t) ==
  \/ \E o \in DOMAIN checkQueue :
       /\ checkQueue[o].target = t
       /\ checkQueue[o].epoch = reloads
       /\ ~ checkQueue[o].cancelled
  \/ \E i \in DOMAIN mainQueue :
       /\ mainQueue[i].target = t
       /\ mainQueue[i].epoch = reloads

(* Once reloadDataWatchers has returned, and until the sheet opens again,  *)
(* the log is refreshed and every active host is polled: neither a purge   *)
(* that lands anywhere in an operation nor a late block loses a loop.      *)
NoneForgotten ==
  main = "idle" /\ ~sheetOpen =>
    /\ Watched(Refresh)
    /\ \A h \in Host : config[h] = "on" => Watched(h)

(* What keeps these true while a reload is under way: no loop is younger   *)
(* than the latest reload, which has started exactly the loops of the      *)
(* hosts it has visited.                                                   *)
Started(t) ==
  \/ \E o \in DOMAIN checkQueue :
       checkQueue[o].target = t /\ checkQueue[o].epoch = reloads
  \/ \E i \in DOMAIN mainQueue :
       mainQueue[i].target = t /\ mainQueue[i].epoch = reloads

LoopInv ==
  /\ \A o \in DOMAIN checkQueue : checkQueue[o].epoch <= reloads
  /\ \A i \in DOMAIN mainQueue : mainQueue[i].epoch <= reloads
  /\ main = "purged" => \A t \in Host \cup {Refresh} : ~Started(t)
  /\ main = "spawning" => \A h \in hostsLeft : ~Started(h)
  /\ OneLoopPerReload

WatchInv ==
  /\ main = "spawning" =>
       /\ Watched(Refresh)
       /\ \A h \in Host \ hostsLeft : config[h] = "on" => Watched(h)
  /\ NoneForgotten

(* endConfigSheet does not bound the reloads: opening the sheet did.       *)
SheetInv ==
  /\ sheetOpen \/ main = "opening" => reloads < MaxReloads
  /\ main \in {"purged", "spawning"} => ~sheetOpen

(* A poll that is cancelled before its last look at isCancelled has no     *)
(* successor: it never gets past that look, and leaves without a block.    *)
Doomed(o) ==
  /\ o \in DOMAIN checkQueue
  /\ checkQueue[o].target \in Host
  /\ checkQueue[o].cancelled
  /\ checkQueue[o].at # "passing"

CancelIsFinal ==
  [][\A o \in Op : Doomed(o) =>
       \/ Doomed(o)'
       \/ o \notin DOMAIN checkQueue' /\ mainQueue' = mainQueue]_vars

(* As the comment in reloadDataWatchers has it, a reload purges everything *)
(* in the queue, so that only its own refresh loop goes on.                *)
OneRefreshLoop ==
  \A o, p \in DOMAIN checkQueue :
    /\ checkQueue[o].target = Refresh /\ ~checkQueue[o].cancelled
    /\ checkQueue[p].target = Refresh /\ ~checkQueue[p].cancelled
    => o = p

-----------------------------------------------------------------------------
(* Refinement.  A loop goes on while an operation or a block carries it;   *)
(* what hands it on from one to the other does not show.                   *)

Going ==
  {<<checkQueue[o].target, checkQueue[o].epoch>> : o \in DOMAIN checkQueue}
    \cup {<<mainQueue[i].target, mainQueue[i].epoch>> : i \in DOMAIN mainQueue}

Wanted == {Refresh} \cup {h \in Host : config[h] = "on"}

Phase ==
  IF main \in {"purged", "spawning"} THEN "reloading"
  ELSE IF main = "opening" \/ sheetOpen THEN "open"
  ELSE "closed"

Loops == INSTANCE PollLoops
           WITH Target <- Host \cup {Refresh}, wanted <- Wanted,
                going <- Going, epoch <- reloads, phase <- Phase

(* Reloads start exactly the loops that the configuration asks for, once   *)
(* each; they go on for as long as the sheet stays closed, and no block    *)
(* that comes late starts one of its own.                                  *)
ImplementsLoops == Loops!Spec

(* Once a reload is over, none of its loops is for a target that the       *)
(* configuration does not ask for: a loop of a host that was set inactive  *)
(* is left over from an earlier reload, however late its block comes.      *)
OnlyWanted ==
  main = "idle" /\ ~sheetOpen =>
    \A l \in Going : l[2] = reloads => l[1] \in Wanted

-----------------------------------------------------------------------------
(* Liveness, under FairSpec.                                               *)

Running(t) ==
  \E o \in DOMAIN checkQueue :
    checkQueue[o].target = t /\ checkQueue[o].at = "running"

(* Once the sheet has closed for good, a host left active is polled again  *)
(* and again, and the log is refreshed again and again.                    *)
ActivePolled ==
  /\ \A h \in Host : <>[](~sheetOpen /\ config[h] = "on") => []<>Running(h)
  /\ <>[]~sheetOpen => []<>Running(Refresh)

(* Every operation that is cancelled leaves the queue, or, if it is a      *)
(* refresh, is replaced by one that is not.                                *)
CancelledDrain ==
  \A o \in Op :
    (o \in DOMAIN checkQueue /\ checkQueue[o].cancelled)
      ~> ~(o \in DOMAIN checkQueue /\ checkQueue[o].cancelled)
=============================================================================
