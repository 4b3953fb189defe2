------------------------------- MODULE Document -------------------------------
(***************************************************************************)
(* A DBMDocument: the operations and blocks of WatchQueue, with the polls  *)
(* and sweeps of EventLog as what they do.                                 *)
(*                                                                         *)
(* WatchQueue has a poll rest some time after it started, and a refresh    *)
(* add its successor; EventLog has polls start when they like and purges   *)
(* land where they like.  Here a poll does its work in a running operation,*)
(* a sweep in a running refresh, and a purge in reloadDataWatchers.        *)
(*                                                                         *)
(* A definition named ...Slip is the one after it as a mistake in the code *)
(* would have made it: TLC refutes a property once it takes its place.     *)
(***************************************************************************)
EXTENDS Naturals, Sequences, FiniteSets

CONSTANTS
  Host, Refresh, Op, MaxReloads,             \* as in WatchQueue
  Name, NameOf, Slave, Pid, LagPid, FailPid, \* as in EventLog
  DeadPid, Entry, Reserve

(* Whether the document is ever reloaded after it was loaded.              *)
Reloaded == MaxReloads > 1

VARIABLES
  config, checkQueue, mainQueue, main,       \* as in WatchQueue
  sheetOpen, hostsLeft, reloads,
  dataList, poll, purge, track, infinite,    \* as in EventLog
  report, up,
  swept        \* the running refreshes that have swept the log

(* A host is active if it and its pool are, which it is out of every pool. *)
active == [h \in Host |-> config[h] = "on"]

queueVars == <<checkQueue, mainQueue, main, sheetOpen, hostsLeft, reloads>>
logVars == <<dataList, poll, purge, track, infinite, report, up>>
vars == <<config, queueVars, logVars, swept>>

Queue == INSTANCE WatchQueue

(* A poll is known by its operation.  When one starts is up to the queue,  *)
(* and when the configuration is edited up to the main thread.             *)
Log == INSTANCE EventLog WITH Poller    <- Op,
                              LatePolls <- TRUE,
                              Overlap   <- TRUE,
                              Editable  <- TRUE

(* A log whose polls start late, overlap, or meet an edit only if the      *)
(* document is reloaded.                                                   *)
OrderlyLog == INSTANCE EventLog WITH Poller    <- Op,
                                     LatePolls <- Reloaded,
                                     Overlap   <- Reloaded,
                                     Editable  <- Reloaded

ASSUME DocumentAssumption ==
  /\ Queue!RefreshAssumption /\ Queue!ReloadsAssumption
  /\ Log!NameAssumption /\ Log!PidAssumption /\ Log!BoundsAssumption

TypeOK ==
  /\ Queue!TypeOK
  /\ Log!TypeOK
  /\ swept \subseteq DOMAIN checkQueue

Init ==
  /\ Queue!Init
  /\ Log!Init
  /\ swept = {}

-----------------------------------------------------------------------------
(* The operations.                                                         *)

Running(o) == o \in DOMAIN checkQueue /\ checkQueue[o].at = "running"

(* What an operation does before and after its work leaves the log alone.  *)
AroundWork(o) ==
  /\ \/ Queue!StartOperation(o)
     \/ Queue!SkipOperation(o)
     \/ Queue!PassPoll(o)
     \/ Queue!StopPoll(o)
     \/ Queue!PostBlock(o)
  /\ UNCHANGED <<logVars, swept>>

(* The work of a poll.                                                     *)
BeginPoll(o) ==
  /\ Running(o)
  /\ checkQueue[o].target \in Host
  /\ UNCHANGED <<config, queueVars, swept>>
  /\ Log!PollClear(o, checkQueue[o].target)

GoOnPoll(o) ==
  /\ o \in DOMAIN poll
  /\ poll[o].at # "discard"
  /\ UNCHANGED <<config, queueVars, swept>>
  /\ Log!PollStep(o)

(* A poll that finds its host gone has no successor.                       *)
EndPollSlip(o) ==
  /\ o \in DOMAIN poll
  /\ \/ up[poll[o].host] /\ Queue!RestPoll(o)
     \/ /\ ~up[poll[o].host]
        /\ checkQueue' = Queue!Removed(o)
        /\ UNCHANGED <<config, mainQueue, main, sheetOpen, hostsLeft, reloads>>
  /\ Log!PollDiscard(o)
  /\ UNCHANGED swept

(* The discard is the last of it; the poll then rests.                     *)
EndPoll(o) ==
  /\ o \in DOMAIN poll
  /\ Queue!RestPoll(o)
  /\ Log!PollDiscard(o)
  /\ UNCHANGED swept

(* The work of a refresh.                                                  *)
Sweep(o) ==
  /\ Running(o)
  /\ checkQueue[o].target = Refresh
  /\ o \notin swept
  /\ swept' = swept \cup {o}
  /\ UNCHANGED <<config, queueVars>>
  /\ Log!RefreshSweep

RefreshAgain(o) ==
  /\ o \in swept
  /\ Queue!RefreshAgain(o)
  /\ swept' = swept \ {o}
  /\ UNCHANGED logVars

OperationStep(o) ==
  \/ AroundWork(o)
  \/ BeginPoll(o)
  \/ GoOnPoll(o)
  \/ EndPoll(o)
  \/ Sweep(o)
  \/ RefreshAgain(o)

-----------------------------------------------------------------------------
(* The main thread.                                                        *)

(* Blocks, the sheet and the end of a reload leave the log alone.          *)
RunMainBlock == Queue!RunMainBlock /\ UNCHANGED <<logVars, swept>>
BeginSheet == Queue!BeginSheet /\ UNCHANGED <<logVars, swept>>
ReloadDone == Queue!ReloadDone /\ UNCHANGED <<logVars, swept>>

(* A reload fetches the pools: it will purge their inactive hosts.         *)
ReloadRefresh ==
  /\ Queue!ReloadRefresh
  /\ Log!Reload({h \in Host : config[h] = "off"})
  /\ UNCHANGED swept

(* The hosts come one after the other: while one is purged no other is.    *)
Visiting(h) ==
  /\ main = "spawning"
  /\ h \in hostsLeft
  /\ \A g \in Host : purge[g] = "discard" => g = h

ReloadActive(h) ==
  /\ Visiting(h)
  /\ config[h] = "on"
  /\ Queue!ReloadHost(h)
  /\ UNCHANGED <<logVars, swept>>

PurgeClear(h) ==
  /\ Visiting(h)
  /\ UNCHANGED <<config, queueVars, swept>>
  /\ Log!PurgeClear(h)

(* An inactive host is purged and then polled as well.                     *)
PurgeDiscardSlip(h) ==
  /\ Visiting(h)
  /\ Queue!addOperation(h, reloads)
  /\ hostsLeft' = hostsLeft \ {h}
  /\ UNCHANGED <<config, mainQueue, main, sheetOpen, reloads, swept>>
  /\ Log!PurgeDiscard(h)

PurgeDiscard(h) ==
  /\ Visiting(h)
  /\ Queue!ReloadHost(h)
  /\ Log!PurgeDiscard(h)
  /\ UNCHANGED swept

MainStep ==
  \/ RunMainBlock
  \/ BeginSheet
  \/ ReloadRefresh
  \/ \E h \in Host : ReloadActive(h) \/ PurgeClear(h) \/ PurgeDiscard(h)
  \/ ReloadDone

-----------------------------------------------------------------------------
(* The user.  The sheet is modal: while it is up, the log is out of reach. *)

OpenConfigSheet == Queue!OpenConfigSheet /\ UNCHANGED <<logVars, swept>>
EndConfigSheet == Queue!EndConfigSheet /\ UNCHANGED <<logVars, swept>>

(* An edit takes effect in the log at once.                                *)
EditConfig(h, s) ==
  /\ Queue!EditConfig(h, s)
  /\ Log!Edit(active')
  /\ UNCHANGED swept

UseLog ==
  /\ main = "idle" /\ ~sheetOpen
  /\ UNCHANGED <<config, queueVars, swept>>
  /\ \/ \E e \in DOMAIN dataList : Log!Dismiss(e)
     \/ Log!ToggleTrack
     \/ Log!detectChangedSlider

UserStep ==
  \/ OpenConfigSheet
  \/ EndConfigSheet
  \/ \E h \in Host, s \in Queue!Setting : EditConfig(h, s)
  \/ UseLog

(* Time and the servers.                                                   *)

Expire(e) ==
  /\ e \in DOMAIN dataList
  /\ UNCHANGED <<config, queueVars, swept>>
  /\ Log!Expire(e)

ServerStep ==
  /\ UNCHANGED <<config, queueVars, swept>>
  /\ Log!ServerStep

WorldStep == (\E e \in Entry : Expire(e)) \/ ServerStep

-----------------------------------------------------------------------------
Next ==
  \/ \E o \in DOMAIN checkQueue : OperationStep(o)
  \/ MainStep
  \/ UserStep
  \/ WorldStep

Spec == Init /\ [][Next]_vars

(* As in WatchQueue: operations get threads and end, and the main thread   *)
(* comes round to its blocks.  And time passes.                            *)
Fairness ==
  /\ \A o \in Op : WF_vars(o \in DOMAIN checkQueue /\ OperationStep(o))
  /\ WF_vars(MainStep)
  /\ \A e \in Entry : WF_vars(Expire(e))

FairSpec == Spec /\ Fairness

-----------------------------------------------------------------------------
(* Safety.                                                                 *)

(* The operations and the main thread keep to WatchQueue; and the log      *)
(* keeps to EventLog: in a document that is not reloaded, polls of one host*)
(* do not overlap and no inactive host is polled, since loops do not fork  *)
(* and no block comes late.                                                *)
ImplementsQueue == Queue!Spec
ImplementsLog == OrderlyLog!Spec

(* Two polls of one host are under way at a time only if two reloads       *)
(* started their loops.                                                    *)
OverlapAcrossReloads ==
  \A o, p \in DOMAIN poll :
    poll[o].host = poll[p].host /\ checkQueue[o].epoch = checkQueue[p].epoch
      => o = p

(* Once a reload is over, the polls that may still add to the log what the *)
(* purge has cleared, of hosts that are not active, are of earlier reloads.*)
LatePollsAreOld ==
  main = "idle" /\ ~sheetOpen =>
    \A o \in DOMAIN poll :
      config[poll[o].host] # "on" => checkQueue[o].epoch < reloads

(* Polls of overlapping loops and of an inactive host, sweeps and purges   *)
(* fall together as they may: the log shows no process twice,              *)
OneEntryPerProcess == Log!OneEntryPerProcess

(* and a Dead Process, even one whose host is active again, stays dead.    *)
DeadIsFinal == Log!DeadIsFinal

(* Until the document is reloaded, what a poll reports stays until it has  *)
(* discarded.                                                              *)
FirstReportsStay == ~Reloaded => Log!ReportedStays

-----------------------------------------------------------------------------
(* Liveness, under FairSpec.                                               *)

(* Until the document is reloaded, what an active host that answers reports*)
(* for good is in the log for good: the loop finds it, and no later poll,  *)
(* sweep or rest loses it, even for a moment.                              *)
ProblemsShown ==
  ~Reloaded =>
    \A h \in Host, pid \in Pid :
      <>[](config[h] = "on" /\ up[h] /\ report[h][pid] # "none")
        => <>[]Log!Shown(h, {pid})

(* Until the document is reloaded, and unless the slider stays at infinity,*)
(* no Dead Process stays in the log for ever: once its deadline has passed *)
(* a sweep takes the deadline away, and a poll or a sweep discards it.     *)
DeadLeaves ==
  ~Reloaded =>
    (<>[]~infinite =>
       \A e \in Entry :
         []<>~(e \in DOMAIN dataList /\ dataList[e].pid = DeadPid))

(* Until the document is reloaded, an active host that answers and has     *)
(* nothing to report is in the end not in the log: neither what it         *)
(* reported before nor what a failed connection left is kept for ever.     *)
QuietHostEmpties ==
  ~Reloaded =>
    \A h \in Host :
      <>[](config[h] = "on" /\ up[h] /\ report[h] = Log!Nothing /\ ~infinite)
        => <>[]~Log!Shown(h, Pid \cup {LagPid, FailPid, DeadPid})

(* As the help has it, setting a host to Inactive filters it out: once it  *)
(* is inactive for good, none of its processes is shown for ever.  A block *)
(* of its poll posted before the purge goes on to poll it, and a poll that *)
(* is under way during the purge can leave an entry behind that no sweep   *)
(* takes away.                                                             *)
InactiveFiltered ==
  \A h \in Host :
    <>[](~sheetOpen /\ config[h] = "off" /\ ~infinite) => <>[]~Log!Shown(h, Pid)
===============================================================================
