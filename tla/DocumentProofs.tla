---------------------------- MODULE DocumentProofs ----------------------------
(***************************************************************************)
(* Theorems about Document: it implements WatchQueue and EventLog, so what *)
(* is proved of them holds of the whole; and what holds only of the whole. *)
(***************************************************************************)
EXTENDS Document, TLAPS

(* The theorems about the components, of the document's queue and log.     *)
QueueFacts == INSTANCE PollLoopsProofs
LogFacts == INSTANCE ProcessLogProofs WITH Poller    <- Op,
                                           LatePolls <- Reloaded,
                                           Overlap   <- Reloaded,
                                           Editable  <- Reloaded

(* What the components' theorems assume of the constants, the document does.*)
LEMMA Assumptions ==
  /\ QueueFacts!RefreshAssumption /\ QueueFacts!ReloadsAssumption
  /\ LogFacts!NameAssumption /\ LogFacts!PidAssumption
  /\ LogFacts!BoundsAssumption /\ LogFacts!PollAssumption
  BY DocumentAssumption
     DEF Queue!RefreshAssumption, Queue!ReloadsAssumption,
         QueueFacts!RefreshAssumption, QueueFacts!ReloadsAssumption,
         Log!NameAssumption, Log!PidAssumption, Log!BoundsAssumption,
         LogFacts!NameAssumption, LogFacts!PidAssumption,
         LogFacts!BoundsAssumption, LogFacts!PollAssumption, Reloaded

(***************************************************************************)
(* An instance of a module and one of its proofs define the same things.   *)
(***************************************************************************)

(* The queue: initial states, steps and types.                             *)
LEMMA SameQueue ==
  /\ Queue!Init <=> QueueFacts!Init
  /\ [Queue!Next]_Queue!vars <=> [QueueFacts!Next]_QueueFacts!vars
  /\ Queue!TypeOK <=> QueueFacts!TypeOK
  <1>1. Queue!Init <=> QueueFacts!Init
    BY DEF Queue!Init, QueueFacts!Init, Queue!Setting, QueueFacts!Setting
  <1>2. Queue!TypeOK <=> QueueFacts!TypeOK
    BY DEF Queue!TypeOK, QueueFacts!TypeOK, Queue!Setting,
           QueueFacts!Setting, Queue!IsQueue, QueueFacts!IsQueue,
           Queue!Operation, QueueFacts!Operation, Queue!Block,
           QueueFacts!Block
  <1>3. \A o : Queue!OperationStep(o) <=> QueueFacts!OperationStep(o)
    BY DEF Queue!OperationStep, QueueFacts!OperationStep,
           Queue!StartOperation, QueueFacts!StartOperation,
           Queue!SkipOperation, QueueFacts!SkipOperation, Queue!RefreshAgain,
           QueueFacts!RefreshAgain, Queue!RestPoll, QueueFacts!RestPoll,
           Queue!PassPoll, QueueFacts!PassPoll, Queue!StopPoll,
           QueueFacts!StopPoll, Queue!PostBlock, QueueFacts!PostBlock,
           Queue!Added, QueueFacts!Added, Queue!Removed, QueueFacts!Removed,
           Queue!generateOperation, QueueFacts!generateOperation
  <1>4. Queue!MainStep <=> QueueFacts!MainStep
    BY DEF Queue!MainStep, QueueFacts!MainStep, Queue!RunMainBlock,
           QueueFacts!RunMainBlock, Queue!BeginSheet, QueueFacts!BeginSheet,
           Queue!ReloadRefresh, QueueFacts!ReloadRefresh, Queue!ReloadHost,
           QueueFacts!ReloadHost, Queue!ReloadDone, QueueFacts!ReloadDone,
           Queue!addOperation, QueueFacts!addOperation, Queue!FreeOp,
           QueueFacts!FreeOp, Queue!Added, QueueFacts!Added,
           Queue!generateOperation, QueueFacts!generateOperation,
           Queue!cancelAllOperations, QueueFacts!cancelAllOperations
  <1>5. Queue!UserStep <=> QueueFacts!UserStep
    BY DEF Queue!UserStep, QueueFacts!UserStep, Queue!OpenConfigSheet,
           QueueFacts!OpenConfigSheet, Queue!EditConfig,
           QueueFacts!EditConfig, Queue!EndConfigSheet,
           QueueFacts!EndConfigSheet, Queue!cancelAllOperations,
           QueueFacts!cancelAllOperations, Queue!Setting, QueueFacts!Setting,
           Queue!queueVars, QueueFacts!queueVars
  <1>6. QED
    BY <1>1, <1>2, <1>3, <1>4, <1>5
       DEF Queue!Next, QueueFacts!Next, Queue!vars, QueueFacts!vars,
           Queue!queueVars, QueueFacts!queueVars

(* The log: initial states and steps.                                      *)
LEMMA SameLog ==
  /\ OrderlyLog!Init <=> LogFacts!Init
  /\ [OrderlyLog!Next]_OrderlyLog!vars <=> [LogFacts!Next]_LogFacts!vars
  <1>1. OrderlyLog!Init <=> LogFacts!Init
    BY DEF OrderlyLog!Init, LogFacts!Init, OrderlyLog!Nothing,
           LogFacts!Nothing, OrderlyLog!Subject, LogFacts!Subject
  <1>2. \A p, h : OrderlyLog!PollClear(p, h) <=> LogFacts!PollClear(p, h)
    BY DEF OrderlyLog!PollClear, LogFacts!PollClear, OrderlyLog!clearUpdates,
           LogFacts!clearUpdates, OrderlyLog!SameName, LogFacts!SameName,
           OrderlyLog!Nothing, LogFacts!Nothing, OrderlyLog!Subject,
           LogFacts!Subject, OrderlyLog!settings, LogFacts!settings,
           OrderlyLog!servers, LogFacts!servers
  <1>3. \A p : OrderlyLog!PollStep(p) <=> LogFacts!PollStep(p)
    BY DEF OrderlyLog!PollStep, LogFacts!PollStep, OrderlyLog!PollConnect,
           LogFacts!PollConnect, OrderlyLog!PollFetch, LogFacts!PollFetch,
           OrderlyLog!PollRow, LogFacts!PollRow, OrderlyLog!PollRowsDone,
           LogFacts!PollRowsDone, OrderlyLog!PollSlave, LogFacts!PollSlave,
           OrderlyLog!PollLag, LogFacts!PollLag, OrderlyLog!PollFail,
           LogFacts!PollFail, OrderlyLog!PollDiscard, LogFacts!PollDiscard,
           OrderlyLog!SameName, LogFacts!SameName,
           OrderlyLog!discardMySQLDead, LogFacts!discardMySQLDead,
           OrderlyLog!Matching, LogFacts!Matching, OrderlyLog!FreeEntry,
           LogFacts!FreeEntry, OrderlyLog!NewEntry, LogFacts!NewEntry,
           OrderlyLog!Deadline, LogFacts!Deadline, OrderlyLog!NextTimeout,
           LogFacts!NextTimeout, OrderlyLog!UpdateEntry,
           LogFacts!UpdateEntry, OrderlyLog!Moved, LogFacts!Moved,
           OrderlyLog!AfterFetch, LogFacts!AfterFetch, OrderlyLog!settings,
           LogFacts!settings, OrderlyLog!servers, LogFacts!servers
  <1>4. OrderlyLog!RefreshSweep <=> LogFacts!RefreshSweep
    BY DEF OrderlyLog!RefreshSweep, LogFacts!RefreshSweep, OrderlyLog!Swept,
           LogFacts!Swept, OrderlyLog!Inactive, LogFacts!Inactive,
           OrderlyLog!discardMySQLDead, LogFacts!discardMySQLDead,
           OrderlyLog!SameName, LogFacts!SameName, OrderlyLog!settings,
           LogFacts!settings, OrderlyLog!servers, LogFacts!servers
  <1>5. \A h : OrderlyLog!PurgeStep(h) <=> LogFacts!PurgeStep(h)
    BY DEF OrderlyLog!PurgeStep, LogFacts!PurgeStep, OrderlyLog!PurgeClear,
           LogFacts!PurgeClear, OrderlyLog!PurgeDiscard,
           LogFacts!PurgeDiscard, OrderlyLog!clearUpdates,
           LogFacts!clearUpdates, OrderlyLog!discardMySQLDead,
           LogFacts!discardMySQLDead, OrderlyLog!SameName, LogFacts!SameName,
           OrderlyLog!settings, LogFacts!settings, OrderlyLog!servers,
           LogFacts!servers
  <1>6. \A e : OrderlyLog!Expire(e) <=> LogFacts!Expire(e)
    BY DEF OrderlyLog!Expire, LogFacts!Expire, OrderlyLog!settings,
           LogFacts!settings, OrderlyLog!servers, LogFacts!servers
  <1>7. OrderlyLog!UserStep <=> LogFacts!UserStep
    BY DEF OrderlyLog!UserStep, LogFacts!UserStep, OrderlyLog!Edit,
           LogFacts!Edit, OrderlyLog!Reload, LogFacts!Reload,
           OrderlyLog!Dismiss, LogFacts!Dismiss, OrderlyLog!ToggleTrack,
           LogFacts!ToggleTrack, OrderlyLog!detectChangedSlider,
           LogFacts!detectChangedSlider, OrderlyLog!Room, LogFacts!Room,
           OrderlyLog!Cardinality, LogFacts!Cardinality,
           OrderlyLog!settings, LogFacts!settings, OrderlyLog!servers,
           LogFacts!servers
  <1>8. OrderlyLog!ServerStep <=> LogFacts!ServerStep
    BY DEF OrderlyLog!ServerStep, LogFacts!ServerStep, OrderlyLog!Reports,
           LogFacts!Reports, OrderlyLog!Connectivity, LogFacts!Connectivity,
           OrderlyLog!Subject, LogFacts!Subject, OrderlyLog!Level,
           LogFacts!Level, OrderlyLog!Room, LogFacts!Room,
           OrderlyLog!Cardinality, LogFacts!Cardinality,
           OrderlyLog!settings, LogFacts!settings, OrderlyLog!servers,
           LogFacts!servers
  <1>9. QED
    BY <1>1, <1>2, <1>3, <1>4, <1>5, <1>6, <1>7, <1>8
       DEF OrderlyLog!Next, LogFacts!Next, OrderlyLog!vars, LogFacts!vars,
           OrderlyLog!settings, LogFacts!settings, OrderlyLog!servers,
           LogFacts!servers

(* Whether polls may start late, overlap or meet an edit is a matter of the*)
(* actions that start a poll and edit alone.                               *)
LEMMA SameActions ==
  /\ Log!Init <=> LogFacts!Init
  /\ \A p, h : Log!PollClear(p, h) =>
       (/\ active[h] \/ Reloaded
        /\ Reloaded \/ \A q \in DOMAIN poll : poll[q].host # h
        => LogFacts!PollClear(p, h))
  /\ \A p : Log!PollStep(p) <=> LogFacts!PollStep(p)
  /\ Log!RefreshSweep <=> LogFacts!RefreshSweep
  /\ \A h : Log!PurgeClear(h) \/ Log!PurgeDiscard(h) => LogFacts!PurgeStep(h)
  /\ \A setting : Log!Edit(setting) /\ Reloaded => LogFacts!Edit(setting)
  /\ \A hosts : Log!Reload(hosts) => LogFacts!Reload(hosts)
  /\ \A e : Log!Dismiss(e) => LogFacts!Dismiss(e)
  /\ Log!ToggleTrack => LogFacts!ToggleTrack
  /\ Log!detectChangedSlider => LogFacts!detectChangedSlider
  /\ \A e : Log!Expire(e) => LogFacts!Expire(e)
  /\ Log!ServerStep => LogFacts!ServerStep
  <1>1. Log!Init <=> LogFacts!Init
    BY DEF Log!Init, LogFacts!Init, Log!Nothing, LogFacts!Nothing,
           Log!Subject, LogFacts!Subject
  <1>2. ASSUME NEW p, NEW h, Log!PollClear(p, h), active[h] \/ Reloaded,
               Reloaded \/ \A q \in DOMAIN poll : poll[q].host # h
        PROVE  LogFacts!PollClear(p, h)
    BY <1>2
       DEF Log!PollClear, LogFacts!PollClear, Log!clearUpdates,
           LogFacts!clearUpdates, Log!SameName, LogFacts!SameName,
           Log!Nothing, LogFacts!Nothing, Log!Subject, LogFacts!Subject,
           Log!settings, LogFacts!settings, Log!servers, LogFacts!servers
  <1>3. \A p : Log!PollStep(p) <=> LogFacts!PollStep(p)
    BY DEF Log!PollStep, LogFacts!PollStep, Log!PollConnect,
           LogFacts!PollConnect, Log!PollFetch, LogFacts!PollFetch,
           Log!PollRow, LogFacts!PollRow, Log!PollRowsDone,
           LogFacts!PollRowsDone, Log!PollSlave, LogFacts!PollSlave,
           Log!PollLag, LogFacts!PollLag, Log!PollFail, LogFacts!PollFail,
           Log!PollDiscard, LogFacts!PollDiscard, Log!SameName,
           LogFacts!SameName, Log!discardMySQLDead,
           LogFacts!discardMySQLDead, Log!Matching, LogFacts!Matching,
           Log!FreeEntry, LogFacts!FreeEntry, Log!NewEntry,
           LogFacts!NewEntry, Log!Deadline, LogFacts!Deadline,
           Log!NextTimeout, LogFacts!NextTimeout, Log!UpdateEntry,
           LogFacts!UpdateEntry, Log!Moved, LogFacts!Moved, Log!AfterFetch,
           LogFacts!AfterFetch, Log!settings, LogFacts!settings, Log!servers,
           LogFacts!servers
  <1>4. Log!RefreshSweep <=> LogFacts!RefreshSweep
    BY DEF Log!RefreshSweep, LogFacts!RefreshSweep, Log!Swept,
           LogFacts!Swept, Log!Inactive, LogFacts!Inactive,
           Log!discardMySQLDead, LogFacts!discardMySQLDead, Log!SameName,
           LogFacts!SameName, Log!settings, LogFacts!settings, Log!servers,
           LogFacts!servers
  <1>5. \A h : Log!PurgeClear(h) \/ Log!PurgeDiscard(h)
                 => LogFacts!PurgeStep(h)
    BY DEF LogFacts!PurgeStep, Log!PurgeClear, LogFacts!PurgeClear,
           Log!PurgeDiscard, LogFacts!PurgeDiscard, Log!clearUpdates,
           LogFacts!clearUpdates,
           Log!discardMySQLDead, LogFacts!discardMySQLDead, Log!SameName,
           LogFacts!SameName, Log!settings, LogFacts!settings, Log!servers,
           LogFacts!servers
  <1>6. /\ \A setting : Log!Edit(setting) /\ Reloaded => LogFacts!Edit(setting)
        /\ \A hosts : Log!Reload(hosts) => LogFacts!Reload(hosts)
        /\ \A e : Log!Dismiss(e) => LogFacts!Dismiss(e)
        /\ Log!ToggleTrack => LogFacts!ToggleTrack
        /\ Log!detectChangedSlider => LogFacts!detectChangedSlider
        /\ \A e : Log!Expire(e) => LogFacts!Expire(e)
    BY DEF Log!Edit, LogFacts!Edit, Log!Reload, LogFacts!Reload, Log!Dismiss,
           LogFacts!Dismiss, Log!ToggleTrack, LogFacts!ToggleTrack,
           Log!detectChangedSlider, LogFacts!detectChangedSlider, Log!Expire,
           LogFacts!Expire, Log!Room, LogFacts!Room, Log!Cardinality,
           LogFacts!Cardinality, Log!settings, LogFacts!settings,
           Log!servers, LogFacts!servers
  <1>7. Log!ServerStep => LogFacts!ServerStep
    BY DEF Log!ServerStep, LogFacts!ServerStep, Log!Reports,
           LogFacts!Reports, Log!Connectivity, LogFacts!Connectivity,
           Log!Subject, LogFacts!Subject, Log!Level, LogFacts!Level,
           Log!Room, LogFacts!Room, Log!Cardinality, LogFacts!Cardinality,
           Log!settings, LogFacts!settings, Log!servers, LogFacts!servers
  <1>8. QED
    BY <1>1, <1>2, <1>3, <1>4, <1>5, <1>6, <1>7

-----------------------------------------------------------------------------
(***************************************************************************)
(* The queue: what a step of the document does to it, a step of WatchQueue *)
(* does.                                                                   *)
(***************************************************************************)

(* Every step is one of WatchQueue or leaves the queue alone.              *)
LEMMA QueueStep ==
  ASSUME [Next]_vars
  PROVE  [Queue!Next]_Queue!vars
  <1> USE DEF Queue!vars, Queue!queueVars, queueVars
  <1>1. CASE \E o \in DOMAIN checkQueue : OperationStep(o)
    BY <1>1 DEF OperationStep, AroundWork, BeginPoll, GoOnPoll, EndPoll,
                Sweep, RefreshAgain, Queue!Next, Queue!OperationStep
  <1>2. CASE MainStep
    BY <1>2 DEF MainStep, RunMainBlock, BeginSheet, ReloadRefresh,
                ReloadActive, PurgeClear, PurgeDiscard, ReloadDone,
                Queue!Next, Queue!MainStep
  <1>3. CASE UserStep
    BY <1>3 DEF UserStep, OpenConfigSheet, EndConfigSheet, EditConfig, UseLog,
                Queue!Next, Queue!UserStep
  <1>4. CASE WorldStep
    BY <1>4 DEF WorldStep, Expire, ServerStep
  <1>5. CASE UNCHANGED vars
    BY <1>5 DEF vars
  <1>6. QED
    BY <1>1, <1>2, <1>3, <1>4, <1>5 DEF Next

(* A document keeps to the rules of WatchQueue, whatever its polls, sweeps *)
(* and purges do to the log.                                               *)
THEOREM QueueImplemented == Spec => ImplementsQueue
  <1>1. Init => Queue!Init
    BY DEF Init
  <1>2. QED
    BY <1>1, QueueStep, PTL DEF Spec, ImplementsQueue, Queue!Spec

(* So all that is proved of WatchQueue holds.                              *)
LEMMA QueueHolds == Spec => QueueFacts!Spec /\ []QueueFacts!QueueInv
  <1>1. QueueFacts!Spec => []QueueFacts!QueueInv
    BY QueueFacts!QueueInvariant, Assumptions
  <1>2. QED
    BY <1>1, QueueImplemented, SameQueue, PTL
       DEF ImplementsQueue, Queue!Spec, QueueFacts!Spec

-----------------------------------------------------------------------------
(***************************************************************************)
(* The log: what a step of the document does to it, a step of EventLog     *)
(* does.  What starts a poll, a purge or an edit there is here a state of  *)
(* the queue or of the main thread.                                        *)
(***************************************************************************)

(* A poll that is under way is the work of a running operation.            *)
PollInv ==
  \A o \in DOMAIN poll :
    /\ Running(o)
    /\ checkQueue[o].target = poll[o].host

(* Hosts are purged only in a reload, before it is done with them.         *)
PurgeInv ==
  \A h \in Host :
    purge[h] # "none" =>
      main = "spawning" /\ h \in hostsLeft /\ config[h] = "off"

WorkInv == LogFacts!TypeOK /\ PollInv /\ PurgeInv

(* In a document that is not reloaded there is one loop for each host that *)
(* is active, which has one operation.                                     *)
LEMMA OnlyPoll ==
  ASSUME QueueFacts!QueueInv, PollInv, ~Reloaded,
         NEW o \in DOMAIN checkQueue, checkQueue[o].target \in Host
  PROVE  /\ active[checkQueue[o].target]
         /\ \A q \in DOMAIN poll : poll[q].host = checkQueue[o].target => q = o
  <1> USE DEF QueueFacts!QueueInv
  <1>1. reloads = 1 /\ MaxReloads = 1
    BY Assumptions DEF QueueFacts!TypeOK, QueueFacts!ReloadsAssumption,
                       Reloaded
  <1>2. QueueFacts!Phase # "open"
    BY <1>1 DEF QueueFacts!SheetInv, QueueFacts!Phase
  <1>3. \A q \in DOMAIN checkQueue : checkQueue[q].epoch = 1
    BY <1>1 DEF QueueFacts!LoopInv, QueueFacts!LatestInv, QueueFacts!TypeOK,
                QueueFacts!IsQueue, QueueFacts!Operation
  <1>4. checkQueue[o].target \in QueueFacts!Wanted
    BY <1>1, <1>2, <1>3 DEF QueueFacts!LatestInv
  <1>5. checkQueue[o].target # Refresh
    BY Assumptions DEF QueueFacts!RefreshAssumption
  <1>6. active[checkQueue[o].target]
    BY <1>4, <1>5 DEF QueueFacts!Wanted, active
  <1>7. ASSUME NEW q \in DOMAIN poll, poll[q].host = checkQueue[o].target
        PROVE  q = o
    BY <1>3, <1>7 DEF PollInv, Running, QueueFacts!LoopInv,
                      QueueFacts!OneLoopPerReload, QueueFacts!SameLoop
  <1>8. QED
    BY <1>6, <1>7

(* Every step is one of EventLog or leaves the log alone.                  *)
LEMMA LogStep ==
  ASSUME QueueFacts!QueueInv, WorkInv, [Next]_vars
  PROVE  [LogFacts!Next]_LogFacts!vars
  <1> USE DEF LogFacts!Next
  <1>1. UNCHANGED <<config, logVars>> => UNCHANGED LogFacts!vars
    BY DEF logVars, active, LogFacts!vars, LogFacts!settings, LogFacts!servers
  <1>2. DOMAIN checkQueue \subseteq Op /\ DOMAIN poll \subseteq Op
    BY DEF QueueFacts!QueueInv, QueueFacts!TypeOK, QueueFacts!IsQueue,
           WorkInv, LogFacts!TypeOK
  <1>3. ASSUME NEW o \in DOMAIN checkQueue, OperationStep(o)
        PROVE  [LogFacts!Next]_LogFacts!vars
    <2>1. CASE AroundWork(o) \/ RefreshAgain(o)
      BY <1>1, <2>1
         DEF AroundWork, RefreshAgain, Queue!StartOperation,
             Queue!SkipOperation, Queue!PassPoll, Queue!StopPoll,
             Queue!PostBlock, Queue!RefreshAgain
    <2>2. CASE BeginPoll(o)
      <3>1. LogFacts!PollClear(o, checkQueue[o].target)
        BY <2>2, OnlyPoll, SameActions DEF BeginPoll, WorkInv, Log!PollClear
      <3>2. QED
        BY <1>2, <2>2, <3>1 DEF BeginPoll
    <2>3. CASE GoOnPoll(o)
      BY <1>2, <2>3, SameActions DEF GoOnPoll
    <2>4. CASE EndPoll(o)
      BY <1>2, <2>4, SameActions DEF EndPoll, Log!PollStep
    <2>5. CASE Sweep(o)
      BY <2>5, SameActions DEF Sweep
    <2>6. QED
      BY <1>3, <2>1, <2>2, <2>3, <2>4, <2>5 DEF OperationStep
  <1>4. CASE MainStep
    <2>1. CASE RunMainBlock \/ BeginSheet \/ ReloadDone
               \/ \E h \in Host : ReloadActive(h)
      BY <1>1, <2>1
         DEF RunMainBlock, BeginSheet, ReloadDone, ReloadActive,
             Queue!RunMainBlock, Queue!BeginSheet, Queue!ReloadDone,
             Queue!ReloadHost
    <2>2. CASE ReloadRefresh
      BY <2>2, SameActions DEF ReloadRefresh, LogFacts!UserStep
    <2>3. CASE \E h \in Host : PurgeClear(h) \/ PurgeDiscard(h)
      BY <2>3, SameActions DEF PurgeClear, PurgeDiscard
    <2>4. QED
      BY <1>4, <2>1, <2>2, <2>3 DEF MainStep
  <1>5. CASE UserStep
    <2>1. CASE OpenConfigSheet \/ EndConfigSheet
      BY <1>1, <2>1 DEF OpenConfigSheet, EndConfigSheet,
                        Queue!OpenConfigSheet, Queue!EndConfigSheet
    <2>2. ASSUME NEW h \in Host, NEW s \in Queue!Setting, EditConfig(h, s)
          PROVE  LogFacts!UserStep
      <3>1. Reloaded
        BY <2>2, Assumptions
           DEF EditConfig, Queue!EditConfig, QueueFacts!QueueInv,
               QueueFacts!SheetInv, QueueFacts!TypeOK, Reloaded,
               QueueFacts!ReloadsAssumption
      <3>2. active' \in [Host -> BOOLEAN]
        BY DEF active
      <3>3. LogFacts!Edit(active')
        BY <2>2, <3>1, SameActions DEF EditConfig
      <3>4. QED
        BY <3>2, <3>3 DEF LogFacts!UserStep
    <2>3. CASE UseLog
      BY <2>3, SameActions DEF UseLog, LogFacts!UserStep
    <2>4. QED
      BY <1>5, <2>1, <2>2, <2>3 DEF UserStep
  <1>6. CASE WorldStep
    <2>1. ASSUME NEW e \in Entry, Expire(e)
          PROVE  LogFacts!Next
      BY <2>1, SameActions DEF Expire
    <2>2. CASE ServerStep
      BY <2>2, SameActions DEF ServerStep
    <2>3. QED
      BY <1>6, <2>1, <2>2 DEF WorldStep
  <1>7. CASE UNCHANGED vars
    BY <1>1, <1>7 DEF vars
  <1>8. QED
    BY <1>3, <1>4, <1>5, <1>6, <1>7 DEF Next

-----------------------------------------------------------------------------
(***************************************************************************)
(* A poll that is under way is the work of a running operation.            *)
(***************************************************************************)

(* An operation stays as it is.                                            *)
Stays(x) ==
  /\ x \in DOMAIN checkQueue'
  /\ checkQueue'[x].at = checkQueue[x].at
  /\ checkQueue'[x].target = checkQueue[x].target

(* A running operation moves only by its own end.                          *)
LEMMA RunningStays ==
  ASSUME NEW x, Running(x),
         \/ \E o \in DOMAIN checkQueue :
              \/ Queue!StartOperation(o) \/ Queue!SkipOperation(o)
              \/ Queue!PassPoll(o) \/ Queue!StopPoll(o) \/ Queue!PostBlock(o)
         \/ \E o \in DOMAIN checkQueue \ {x} :
              Queue!RestPoll(o) \/ Queue!RefreshAgain(o)
         \/ Queue!MainStep
         \/ Queue!UserStep
         \/ UNCHANGED checkQueue,
         QueueFacts!TypeOK
  PROVE  Stays(x)
  <1> USE DEF Stays, Running, QueueFacts!TypeOK, QueueFacts!IsQueue
  <1>1. ASSUME NEW o \in DOMAIN checkQueue,
               \/ Queue!StartOperation(o) \/ Queue!SkipOperation(o)
               \/ Queue!PassPoll(o) \/ Queue!StopPoll(o) \/ Queue!PostBlock(o)
        PROVE  Stays(x)
    BY <1>1 DEF Queue!StartOperation, Queue!SkipOperation, Queue!PassPoll,
                Queue!StopPoll, Queue!PostBlock, Queue!Removed
  <1>2. ASSUME NEW o \in DOMAIN checkQueue \ {x},
               Queue!RestPoll(o) \/ Queue!RefreshAgain(o)
        PROVE  Stays(x)
    BY <1>2 DEF Queue!RestPoll, Queue!RefreshAgain, Queue!Added
  <1>3. ASSUME NEW t, NEW e, Queue!addOperation(t, e)
        PROVE  Stays(x)
    <2>1. Queue!FreeOp \notin DOMAIN checkQueue
      BY <1>3 DEF Queue!addOperation, Queue!FreeOp
    <2>2. QED
      BY <1>3, <2>1 DEF Queue!addOperation, Queue!Added
  <1>4. checkQueue' = Queue!cancelAllOperations => Stays(x)
    BY DEF Queue!cancelAllOperations, QueueFacts!Operation
  <1>5. CASE Queue!MainStep
    BY <1>3, <1>4, <1>5
       DEF Queue!MainStep, Queue!RunMainBlock, Queue!BeginSheet,
           Queue!ReloadRefresh, Queue!ReloadHost, Queue!ReloadDone
  <1>6. CASE Queue!UserStep
    BY <1>4, <1>6
       DEF Queue!UserStep, Queue!OpenConfigSheet, Queue!EditConfig,
           Queue!EndConfigSheet, Queue!queueVars
  <1>7. CASE UNCHANGED checkQueue
    BY <1>7
  <1>8. QED
    BY <1>1, <1>2, <1>5, <1>6, <1>7

(* A poll that goes on stays the poll it is.                               *)
LEMMA PollGoesOn ==
  ASSUME LogFacts!TypeOK, NEW o \in DOMAIN poll, GoOnPoll(o)
  PROVE  /\ DOMAIN poll' = DOMAIN poll
         /\ \A q \in DOMAIN poll : poll'[q].host = poll[q].host
  <1> USE DEF LogFacts!TypeOK, Log!Moved
  <1>1. poll[o] \in LogFacts!Poll
    OBVIOUS
  <1>2. CASE Log!PollConnect(o) \/ Log!PollRowsDone(o) \/ Log!PollLag(o)
             \/ Log!PollFail(o) \/ Log!Moved(o, Log!AfterFetch(poll[o].host))
             \/ Log!Moved(o, "discard")
    <2>1. PICK at : poll' = [poll EXCEPT ![o].at = at]
      BY <1>2 DEF Log!PollConnect, Log!PollRowsDone, Log!PollLag,
                  Log!PollFail, Log!Moved
    <2>2. QED
      BY <1>1, <2>1 DEF LogFacts!Poll
  <1> DEFINE now == report[poll[o].host]
  <1>3. CASE poll' = [poll EXCEPT ![o].at   = "rows",
                                  ![o].seen = [now EXCEPT ![LagPid] = "none"],
                                  ![o].left = {s \in Pid : now[s] # "none"}]
    BY <1>1, <1>3 DEF LogFacts!Poll
  <1>4. CASE poll' = [poll EXCEPT ![o].at = "lag",
                                  ![o].seen[LagPid] = now[LagPid]]
    BY <1>1, <1>4 DEF LogFacts!Poll
  <1>5. CASE \E pid \in Pid : Log!PollRow(o, pid)
    BY <1>1, <1>5 DEF Log!PollRow, LogFacts!Poll
  <1>6. CASE Log!PollFetch(o)
    BY <1>2, <1>3, <1>6 DEF Log!PollFetch
  <1>7. CASE Log!PollSlave(o)
    BY <1>2, <1>4, <1>7 DEF Log!PollSlave
  <1>8. QED
    BY <1>2, <1>5, <1>6, <1>7 DEF GoOnPoll, Log!PollStep, Log!PollDiscard

(* No step takes an operation away from its poll.                          *)
LEMMA PollInvStep ==
  ASSUME QueueFacts!QueueInv, WorkInv, [Next]_vars
  PROVE  PollInv'
  <1> USE DEF PollInv, WorkInv, QueueFacts!QueueInv
  <1>1. ASSUME \A x \in DOMAIN poll' :
                 /\ Running(x) /\ Stays(x)
                 /\ poll'[x].host = checkQueue[x].target
        PROVE  PollInv'
    BY <1>1 DEF Running, Stays
  <1>2. ASSUME UNCHANGED poll, \A x \in DOMAIN poll : Stays(x)
        PROVE  PollInv'
    BY <1>1, <1>2
  <1>3. UNCHANGED checkQueue => \A x : Running(x) => Stays(x)
    BY DEF Running, Stays
  <1>4. ASSUME NEW o \in DOMAIN checkQueue, OperationStep(o)
        PROVE  PollInv'
    <2>1. CASE AroundWork(o)
      BY <1>2, <2>1, RunningStays DEF AroundWork, logVars
    <2>2. CASE BeginPoll(o)
      BY <1>1, <1>3, <2>2 DEF BeginPoll, Log!PollClear, queueVars
    <2>3. CASE GoOnPoll(o)
      <3>1. o \in DOMAIN poll
        BY <2>3 DEF GoOnPoll
      <3>2. QED
        BY <1>1, <1>3, <2>3, <3>1, PollGoesOn DEF GoOnPoll, queueVars
    <2>4. CASE EndPoll(o)
      <3>1. \A x \in DOMAIN poll \ {o} : Stays(x)
        BY <1>4, <2>4, RunningStays DEF EndPoll
      <3>2. DOMAIN poll' = DOMAIN poll \ {o}
            /\ \A x \in DOMAIN poll \ {o} : poll'[x] = poll[x]
        BY <2>4 DEF EndPoll, Log!PollDiscard
      <3>3. QED
        BY <1>1, <3>1, <3>2
    <2>5. CASE Sweep(o)
      BY <1>2, <1>3, <2>5 DEF Sweep, Log!RefreshSweep, queueVars
    <2>6. CASE RefreshAgain(o)
      <3>1. o \notin DOMAIN poll
        BY <2>6, Assumptions
           DEF RefreshAgain, Queue!RefreshAgain, LogFacts!TypeOK,
               LogFacts!Poll, QueueFacts!RefreshAssumption
      <3>2. QED
        BY <1>2, <1>4, <2>6, <3>1, RunningStays DEF RefreshAgain, logVars
    <2>7. QED
      BY <1>4, <2>1, <2>2, <2>3, <2>4, <2>5, <2>6 DEF OperationStep
  <1>5. CASE MainStep
    <2>1. UNCHANGED poll
      BY <1>5 DEF MainStep, RunMainBlock, BeginSheet, ReloadRefresh,
                  ReloadActive, PurgeClear, PurgeDiscard, ReloadDone, logVars,
                  Log!Reload, Log!PurgeClear, Log!PurgeDiscard
    <2>2. Queue!MainStep \/ UNCHANGED checkQueue
      BY <1>5 DEF MainStep, RunMainBlock, BeginSheet, ReloadRefresh,
                  ReloadActive, PurgeClear, PurgeDiscard, ReloadDone,
                  queueVars, Queue!MainStep
    <2>3. QED
      BY <1>2, <2>1, <2>2, RunningStays
  <1>6. CASE UserStep
    <2>1. UNCHANGED poll
      BY <1>6 DEF UserStep, OpenConfigSheet, EndConfigSheet, EditConfig,
                  UseLog, logVars, Log!Edit, Log!Dismiss, Log!ToggleTrack,
                  Log!detectChangedSlider
    <2>2. Queue!UserStep \/ UNCHANGED checkQueue
      BY <1>6 DEF UserStep, OpenConfigSheet, EndConfigSheet, EditConfig,
                  UseLog, queueVars, Queue!UserStep
    <2>3. QED
      BY <1>2, <2>1, <2>2, RunningStays
  <1>7. CASE WorldStep
    BY <1>2, <1>3, <1>7 DEF WorldStep, Expire, ServerStep, queueVars,
                            Log!Expire, Log!ServerStep, Log!Reports,
                            Log!Connectivity
  <1>8. CASE UNCHANGED vars
    BY <1>2, <1>3, <1>8 DEF vars, queueVars, logVars
  <1>9. QED
    BY <1>4, <1>5, <1>6, <1>7, <1>8 DEF Next

-----------------------------------------------------------------------------
(***************************************************************************)
(* Hosts are purged only while the main thread is in a reload.             *)
(***************************************************************************)

(* No step leaves a purge behind when the main thread goes on.             *)
LEMMA PurgeInvStep ==
  ASSUME QueueFacts!QueueInv, WorkInv, [Next]_vars
  PROVE  PurgeInv'
  <1> USE DEF PurgeInv, WorkInv, LogFacts!TypeOK
  <1>1. ASSUME UNCHANGED <<config, main, hostsLeft, purge>>
        PROVE  PurgeInv'
    BY <1>1
  (* Outside a reload no host is being purged.                             *)
  <1>2. ASSUME main # "spawning" \/ hostsLeft = {}, UNCHANGED purge
        PROVE  PurgeInv'
    BY <1>2
  <1>3. ASSUME NEW o \in DOMAIN checkQueue, OperationStep(o)
        PROVE  PurgeInv'
    <2>1. CASE AroundWork(o) \/ RefreshAgain(o)
      BY <1>1, <2>1
         DEF AroundWork, RefreshAgain, Queue!StartOperation,
             Queue!SkipOperation, Queue!PassPoll, Queue!StopPoll,
             Queue!PostBlock, Queue!RefreshAgain, logVars
    <2>2. CASE BeginPoll(o)
      BY <1>1, <2>2 DEF BeginPoll, Log!PollClear, queueVars
    <2>3. CASE GoOnPoll(o)
      BY <1>1, <2>3
         DEF GoOnPoll, queueVars, Log!PollStep, Log!PollConnect,
             Log!PollFetch, Log!PollRow, Log!PollRowsDone, Log!PollSlave,
             Log!PollLag, Log!PollFail, Log!PollDiscard
    <2>4. CASE EndPoll(o) \/ Sweep(o)
      BY <1>1, <2>4 DEF EndPoll, Sweep, queueVars, Queue!RestPoll,
                        Log!PollDiscard, Log!RefreshSweep
    <2>5. QED
      BY <1>3, <2>1, <2>2, <2>3, <2>4 DEF OperationStep
  <1>4. CASE MainStep
    <2>1. CASE RunMainBlock \/ BeginSheet \/ ReloadDone
      BY <1>2, <2>1 DEF RunMainBlock, BeginSheet, ReloadDone, logVars,
                        Queue!RunMainBlock, Queue!BeginSheet, Queue!ReloadDone
    <2>2. CASE ReloadRefresh
      BY <2>2 DEF ReloadRefresh, Queue!ReloadRefresh, Log!Reload
    <2>3. ASSUME NEW h \in Host, ReloadActive(h) \/ PurgeDiscard(h)
          PROVE  PurgeInv'
      <3>1. /\ UNCHANGED <<config, main>>
            /\ hostsLeft' = hostsLeft \ {h}
        BY <2>3 DEF ReloadActive, PurgeDiscard, Queue!ReloadHost
      <3>2. purge'[h] = "none" /\ \A g \in Host \ {h} : purge'[g] = purge[g]
        BY <2>3 DEF ReloadActive, PurgeDiscard, Log!PurgeDiscard, logVars
      <3>3. QED
        BY <3>1, <3>2
    <2>4. ASSUME NEW h \in Host, PurgeClear(h)
          PROVE  PurgeInv'
      <3>1. UNCHANGED <<config, main, hostsLeft>>
        BY <2>4 DEF PurgeClear, queueVars
      <3>2. purge[h] # "none" /\ \A g \in Host \ {h} : purge'[g] = purge[g]
        BY <2>4 DEF PurgeClear, Log!PurgeClear
      <3>3. QED
        BY <3>1, <3>2
    <2>5. QED
      BY <1>4, <2>1, <2>2, <2>3, <2>4 DEF MainStep
  <1>5. CASE UserStep
    <2>1. CASE UseLog
      BY <1>1, <2>1 DEF UseLog, queueVars, Log!Dismiss, Log!ToggleTrack,
                        Log!detectChangedSlider
    <2>2. CASE OpenConfigSheet \/ EndConfigSheet
               \/ \E h \in Host, s \in Queue!Setting : EditConfig(h, s)
      BY <1>2, <2>2 DEF OpenConfigSheet, EndConfigSheet, EditConfig, logVars,
                        Queue!OpenConfigSheet, Queue!EndConfigSheet,
                        Queue!EditConfig, Log!Edit
    <2>3. QED
      BY <1>5, <2>1, <2>2 DEF UserStep
  <1>6. CASE WorldStep
    BY <1>1, <1>6 DEF WorldStep, Expire, ServerStep, queueVars, Log!Expire,
                      Log!ServerStep, Log!Reports, Log!Connectivity
  <1>7. CASE UNCHANGED vars
    BY <1>1, <1>7 DEF vars, queueVars, logVars
  <1>8. QED
    BY <1>3, <1>4, <1>5, <1>6, <1>7 DEF Next

-----------------------------------------------------------------------------
(***************************************************************************)
(* The document implements EventLog.                                       *)
(***************************************************************************)

(* The log's types follow from its own theorem: the step is one of its steps.*)
LEMMA WorkStep ==
  ASSUME QueueFacts!QueueInv, WorkInv, [Next]_vars
  PROVE  WorkInv'
  <1>1. LogFacts!TypeOK'
    BY LogStep, LogFacts!TypeStep, Assumptions DEF WorkInv
  <1>2. QED
    BY <1>1, PollInvStep, PurgeInvStep DEF WorkInv

(* A document begins with no poll and no purge.                            *)
LEMMA InitWork ==
  ASSUME Init
  PROVE  WorkInv /\ LogFacts!Init
  <1>1. LogFacts!Init
    BY SameActions DEF Init
  <1>2. LogFacts!TypeOK
    BY <1>1, LogFacts!InitType, Assumptions
  <1>3. DOMAIN poll = {} /\ purge = [h \in Host |-> "none"]
    BY <1>1 DEF LogFacts!Init
  <1>4. QED
    BY <1>1, <1>2, <1>3 DEF WorkInv, PollInv, PurgeInv

(* The invariants of the queue and of its work hold together.              *)
LEMMA WorkHolds == Spec => [](QueueFacts!QueueInv /\ WorkInv)
  BY QueueHolds, InitWork, WorkStep, PTL DEF Spec

(* So the log of a document is one of EventLog's.                          *)
LEMMA LogHolds == Spec => LogFacts!Spec
  BY WorkHolds, InitWork, LogStep, PTL DEF Spec, LogFacts!Spec

(* A document keeps to the rules of EventLog; and one that is not reloaded *)
(* to those of a log whose polls do not overlap, in which no inactive host *)
(* is polled and nothing is edited.                                        *)
THEOREM LogImplemented == Spec => ImplementsLog
  BY LogHolds, SameLog, PTL DEF ImplementsLog, OrderlyLog!Spec, LogFacts!Spec

-----------------------------------------------------------------------------
(***************************************************************************)
(* What this makes of the document.                                        *)
(***************************************************************************)

(* Two polls of one host are under way at a time only if two reloads       *)
(* started their loops: otherwise the loop would have forked.              *)
THEOREM OverlapsAreAcross == Spec => []OverlapAcrossReloads
  <1>1. QueueFacts!QueueInv /\ WorkInv => OverlapAcrossReloads
    BY DEF QueueFacts!QueueInv, QueueFacts!LoopInv, WorkInv, PollInv, Running,
           QueueFacts!OneLoopPerReload, QueueFacts!SameLoop,
           OverlapAcrossReloads
  <1>2. QED
    BY <1>1, WorkHolds, PTL

(* Once a reload is over, the polls of hosts that are not active are left  *)
(* over from earlier reloads: its own loops are those of the hosts that it *)
(* found active.                                                           *)
THEOREM LatePollsOld == Spec => []LatePollsAreOld
  <1>1. QueueFacts!QueueInv /\ WorkInv => LatePollsAreOld
    <2> SUFFICES ASSUME QueueFacts!QueueInv, WorkInv,
                        main = "idle", ~sheetOpen,
                        NEW o \in DOMAIN poll, config[poll[o].host] # "on"
                 PROVE  checkQueue[o].epoch < reloads
      BY DEF LatePollsAreOld
    <2> USE DEF QueueFacts!QueueInv, QueueFacts!TypeOK, QueueFacts!IsQueue,
                QueueFacts!Operation
    <2>1. /\ o \in DOMAIN checkQueue
          /\ checkQueue[o].target = poll[o].host
          /\ poll[o].host \in Host
      BY DEF WorkInv, PollInv, Running, LogFacts!TypeOK, LogFacts!Poll
    <2>2. checkQueue[o].target \notin QueueFacts!Wanted
      BY <2>1, Assumptions DEF QueueFacts!Wanted, QueueFacts!RefreshAssumption
    <2>3. checkQueue[o].epoch # reloads
      BY <2>1, <2>2 DEF QueueFacts!LatestInv, QueueFacts!Phase
    <2>4. checkQueue[o].epoch <= reloads
      BY <2>1 DEF QueueFacts!LoopInv
    <2>5. checkQueue[o].epoch \in Nat /\ reloads \in Nat
      BY <2>1, Assumptions DEF QueueFacts!ReloadsAssumption
    <2>6. QED
      BY <2>3, <2>4, <2>5
  <1>2. QED
    BY <1>1, WorkHolds, PTL

(* No two hosts share the string object of their hostname.                 *)
OwnName == \A g, h \in Host : Log!SameName(g, h) => g = h

(* Where no two hosts share a hostname, what a poll reports stays until it *)
(* has discarded, for as long as the document is not reloaded.  EventLog   *)
(* has this of polls that do not overlap; that they do not is the queue's  *)
(* doing.                                                                  *)
THEOREM FirstReports == OwnName => (Spec => []FirstReportsStay)
  <1> SUFFICES ASSUME OwnName
               PROVE  Spec => []FirstReportsStay
    OBVIOUS
  <1>1. CASE Reloaded
    <2>1. FirstReportsStay
      BY <1>1 DEF FirstReportsStay
    <2>2. QED
      BY <2>1, PTL
  <1>2. CASE ~Reloaded
    <2>1. LogFacts!Separate
      BY <1>2 DEF LogFacts!Separate, OwnName, Log!SameName, LogFacts!SameName
    <2>2. LogFacts!Spec => []LogFacts!ReportedStays
      BY <2>1, LogFacts!ReportsStay, Assumptions
    <2>3. LogFacts!ReportedStays => FirstReportsStay
      BY DEF FirstReportsStay, Log!ReportedStays, LogFacts!ReportedStays,
             Log!Applied, LogFacts!Applied, Log!Subject, LogFacts!Subject
    <2>4. QED
      BY <2>2, <2>3, LogHolds, PTL
  <1>3. QED
    BY <1>1, <1>2

(* A refresh that has swept runs until it is added anew.                   *)
SweptInv ==
  \A o \in swept : Running(o) /\ checkQueue[o].target = Refresh

(* Only its own end takes a refresh out of the queue.                      *)
LEMMA SweptStep ==
  ASSUME QueueFacts!QueueInv, SweptInv, [Next]_vars
  PROVE  SweptInv'
  <1> USE DEF SweptInv
  <1>1. QueueFacts!TypeOK
    BY DEF QueueFacts!QueueInv
  <1>2. ASSUME swept' \subseteq swept, \A x \in swept' : Stays(x)
        PROVE  SweptInv'
    BY <1>2 DEF Running, Stays
  <1>3. ASSUME swept' \subseteq swept, UNCHANGED checkQueue
        PROVE  SweptInv'
    BY <1>3 DEF Running
  <1>4. ASSUME NEW o \in DOMAIN checkQueue, OperationStep(o)
        PROVE  SweptInv'
    <2>1. CASE AroundWork(o)
      BY <1>1, <1>2, <2>1, RunningStays DEF AroundWork
    <2>2. CASE BeginPoll(o) \/ GoOnPoll(o)
      BY <1>3, <2>2 DEF BeginPoll, GoOnPoll, queueVars
    <2>3. CASE EndPoll(o)
      <3>1. o \notin swept
        BY <2>3, Assumptions DEF EndPoll, Queue!RestPoll,
                                 QueueFacts!RefreshAssumption
      <3>2. QED
        BY <1>1, <1>2, <1>4, <2>3, <3>1, RunningStays DEF EndPoll
    <2>4. CASE Sweep(o)
      BY <2>4 DEF Sweep, queueVars, Running
    <2>5. CASE RefreshAgain(o)
      BY <1>1, <1>2, <1>4, <2>5, RunningStays DEF RefreshAgain
    <2>6. QED
      BY <1>4, <2>1, <2>2, <2>3, <2>4, <2>5 DEF OperationStep
  <1>5. CASE MainStep
    <2>1. swept' = swept /\ (Queue!MainStep \/ UNCHANGED checkQueue)
      BY <1>5 DEF MainStep, RunMainBlock, BeginSheet, ReloadRefresh,
                  ReloadActive, PurgeClear, PurgeDiscard, ReloadDone,
                  queueVars, Queue!MainStep
    <2>2. QED
      BY <1>1, <1>2, <2>1, RunningStays
  <1>6. CASE UserStep
    <2>1. swept' = swept /\ (Queue!UserStep \/ UNCHANGED checkQueue)
      BY <1>6 DEF UserStep, OpenConfigSheet, EndConfigSheet, EditConfig,
                  UseLog, queueVars, Queue!UserStep
    <2>2. QED
      BY <1>1, <1>2, <2>1, RunningStays
  <1>7. CASE WorldStep \/ UNCHANGED vars
    BY <1>3, <1>7 DEF WorldStep, Expire, ServerStep, vars, queueVars
  <1>8. QED
    BY <1>4, <1>5, <1>6, <1>7 DEF Next

(* The types of a document.                                                *)
THEOREM TypeCorrect == Spec => []TypeOK
  <1>1. QueueFacts!QueueInv => Queue!TypeOK
    BY SameQueue DEF QueueFacts!QueueInv
  <1>2. WorkInv => Log!TypeOK
    BY DEF WorkInv, Log!TypeOK, LogFacts!TypeOK, Log!IsLog, LogFacts!IsLog,
           Log!LogEntry, LogFacts!LogEntry, Log!Poll, LogFacts!Poll,
           Log!Subject, LogFacts!Subject, Log!Level, LogFacts!Level
  <1>3. SweptInv => swept \subseteq DOMAIN checkQueue
    BY DEF SweptInv, Running
  <1>4. Init => SweptInv
    BY DEF Init, SweptInv
  <1>5. QueueFacts!QueueInv /\ WorkInv /\ SweptInv => TypeOK
    BY <1>1, <1>2, <1>3 DEF TypeOK
  <1>6. QED
    BY <1>4, <1>5, WorkHolds, SweptStep, PTL DEF Spec

-----------------------------------------------------------------------------
(***************************************************************************)
(* What is proved of the components holds of the whole.                    *)
(***************************************************************************)

(* Every active host keeps its loop, and no loop forks, whatever the polls *)
(* do to the log.                                                          *)
THEOREM LoopsKept ==
  Spec => [](Queue!NoneForgotten /\ Queue!OneLoopPerReload)
  <1>1. QueueFacts!Spec => []QueueFacts!NoneForgotten
    BY QueueFacts!NoHostForgotten, Assumptions
  <1>2. QueueFacts!Spec => []QueueFacts!OneLoopPerReload
    BY QueueFacts!LoopsDoNotFork, Assumptions
  <1>3. /\ QueueFacts!NoneForgotten => Queue!NoneForgotten
        /\ QueueFacts!OneLoopPerReload => Queue!OneLoopPerReload
    BY DEF Queue!NoneForgotten, QueueFacts!NoneForgotten,
           Queue!Watched, QueueFacts!Watched,
           Queue!OneLoopPerReload, QueueFacts!OneLoopPerReload,
           Queue!SameLoop, QueueFacts!SameLoop
  <1>4. QED
    BY <1>1, <1>2, <1>3, QueueHolds, PTL

(* However polls, sweeps and purges of a document fall together, its log   *)
(* shows no process twice.                                                 *)
THEOREM OneEntry == Spec => []OneEntryPerProcess
  <1>1. LogFacts!Spec => []LogFacts!OneEntryPerProcess
    BY LogFacts!OneEntry, Assumptions
  <1>2. LogFacts!OneEntryPerProcess => OneEntryPerProcess
    BY DEF LogFacts!OneEntryPerProcess, Log!OneEntryPerProcess,
           LogFacts!SameName, Log!SameName, OneEntryPerProcess
  <1>3. QED
    BY <1>1, <1>2, LogHolds, PTL

(* Nor does it bring a Dead Process back to life.                          *)
THEOREM DeadStayDead == Spec => DeadIsFinal
  <1>1. LogFacts!Spec => LogFacts!DeadIsFinal
    BY LogFacts!DeadStayDead, Assumptions
  <1>2. QED
    BY <1>1, LogHolds, PTL
       DEF LogFacts!DeadIsFinal, Log!DeadIsFinal, DeadIsFinal,
           LogFacts!vars, Log!vars, LogFacts!settings, Log!settings,
           LogFacts!servers, Log!servers

(* So the document promises its user what ProcessLog says, in whatever     *)
(* order its operations, its reloads and the user take the log.            *)
THEOREM EntriesKept == Spec => LogFacts!ImplementsEntries
  <1>1. LogFacts!Spec => LogFacts!ImplementsEntries
    BY LogFacts!EntriesImplemented, Assumptions
  <1>2. QED
    BY <1>1, LogHolds, PTL

===============================================================================
