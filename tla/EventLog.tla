------------------------------- MODULE EventLog -------------------------------
(***************************************************************************)
(* The event log of a DBMDocument, dataList, and everything that writes it:*)
(* the steps of a poll (the body of generateMySQLOperation), the sweep in  *)
(* a refresh, the purge of inactive hosts in a reload, and the user.       *)
(*                                                                         *)
(* A definition named ...Slip is the one after it as a mistake in the code *)
(* would have made it: TLC refutes a property once it takes its place.     *)
(*                                                                         *)
(* Every action but a poll's requests to its server is one critical        *)
(* section under @synchronized(dataList).  When a poll starts, and whether *)
(* two overlap, is left open: WatchQueue decides that.                     *)
(***************************************************************************)
EXTENDS Naturals, FiniteSets

CONSTANTS
  Host,        \* the MySQLHost objects
  Name,        \* the NSString objects that hold their hostnames
  NameOf,      \* which one each holds: the log compares hostnames with ==
  Slave,       \* the hosts marked as replication slaves
  Pid,         \* the ids of the processes that servers report
  LagPid,      \* "-1", the id of an entry on replication lag
  FailPid,     \* "-2", the id of an entry on a failed connection
  DeadPid,     \* "Dead Process"
  Entry,       \* identities for the log entries that exist at one time
  Reserve,     \* how many of those are free when a server causes trouble
  Poller,      \* identities for the polls that run at one time
  LatePolls,   \* whether hosts may be polled while they are inactive
  Overlap,     \* whether two polls of one host may overlap
  Editable     \* whether the configuration is ever edited

ASSUME NameAssumption == NameOf \in [Host -> Name] /\ Slave \subseteq Host
ASSUME PidAssumption ==
  /\ {LagPid, FailPid, DeadPid} \cap Pid = {}
  /\ LagPid # FailPid /\ FailPid # DeadPid /\ DeadPid # LagPid
ASSUME BoundsAssumption == Reserve \in Nat
ASSUME PollAssumption == {LatePolls, Overlap, Editable} \subseteq BOOLEAN

VARIABLES
  dataList,    \* the log: a function on a subset of Entry
  poll,        \* the polls under way: a function on a subset of Poller
  purge,       \* where reloadDataWatchers is with each inactive host
  active,      \* whether each host and its pool are both active
  track,       \* the query tracking checkbox
  infinite,    \* whether the tracking slider is at infinity
  report,      \* what each server would report now
  up           \* whether each server can be reached

settings == <<active, track, infinite>>
servers == <<report, up>>
vars == <<dataList, poll, purge, settings, servers>>

(* What can appear in a report: processes, and lag for a slave.            *)
Subject == Pid \cup {LagPid}

(* A subject is not to be shown, is slow enough to be shown (monitorTimer),*)
(* or is over the tracking threshold as well (triggerTimer).               *)
Level == {"none", "slow", "over"}

LogEntry == [host    : Host,
             pid     : Pid \cup {LagPid, FailPid, DeadPid},
             updated : BOOLEAN,
             dead    : BOOLEAN,
             timeout : {"nil", "pending", "passed"}]

IsLog(log) == DOMAIN log \subseteq Entry /\ log \in [DOMAIN log -> LogEntry]

Poll == [at   : {"connect", "fetch", "rows", "slave", "lag", "fail",
                 "discard"},
         host : Host,
         seen : [Subject -> Level],   \* the report as the poll read it
         left : SUBSET Pid]           \* the rows it has yet to look at

Nothing == [s \in Subject |-> "none"]

TypeOK ==
  /\ IsLog(dataList)
  /\ DOMAIN poll \subseteq Poller /\ poll \in [DOMAIN poll -> Poll]
  /\ purge \in [Host -> {"none", "clear", "discard"}]
  /\ active \in [Host -> BOOLEAN]
  /\ track \in BOOLEAN
  /\ infinite \in BOOLEAN
  /\ report \in [Host -> [Subject -> Level]]
  /\ up \in [Host -> BOOLEAN]

-----------------------------------------------------------------------------
(* The methods that rewrite dataList, as functions of the log they find.   *)

SameName(g, h) == NameOf[g] = NameOf[h]

(* Every poll begins like this, and the purge of an inactive host.         *)
clearUpdates(h) ==
  [e \in DOMAIN dataList |->
     IF SameName(dataList[e].host, h)
       THEN [dataList[e] EXCEPT !.updated = FALSE]
       ELSE dataList[e]]

discardMySQLDeadSlip(log, hosts) ==
  LET stale == {e \in DOMAIN log :
                  ~log[e].updated /\ \E h \in hosts : SameName(log[e].host, h)}
      discards == {e \in stale : log[e].timeout = "nil" \/ track}
  IN  [e \in DOMAIN log \ discards |->
         IF e \in stale
           THEN [log[e] EXCEPT !.dead = TRUE, !.pid = DeadPid]
           ELSE log[e]]

(* An entry that no poll updated is dropped, unless it is being tracked.   *)
discardMySQLDead(log, hosts) ==
  LET stale == {e \in DOMAIN log :
                  ~log[e].updated /\ \E h \in hosts : SameName(log[e].host, h)}
      discards == {e \in stale : log[e].timeout = "nil" \/ ~track}
  IN  [e \in DOMAIN log \ discards |->
         IF e \in stale
           THEN [log[e] EXCEPT !.dead = TRUE, !.pid = DeadPid]
           ELSE log[e]]

MatchingClearedSlip(h, pid) ==
  {e \in DOMAIN dataList :
     SameName(dataList[e].host, h) /\ dataList[e].pid = pid /\ dataList[e].updated}

MatchingDeadSlip(h, pid) ==
  {e \in DOMAIN dataList :
     SameName(dataList[e].host, h) /\ dataList[e].pid \in {pid, DeadPid}}

(* The entries a poll of h takes for its own.                              *)
Matching(h, pid) ==
  {e \in DOMAIN dataList :
     SameName(dataList[e].host, h) /\ dataList[e].pid = pid}

FreeEntry == CHOOSE e \in Entry : e \notin DOMAIN dataList

NewEntry(h, pid) ==
  [host |-> h, pid |-> pid, updated |-> FALSE, dead |-> FALSE, timeout |-> "nil"]

(* At infinity sliderValue is -1, so the new deadline is already past.     *)
Deadline == IF infinite THEN "passed" ELSE "pending"

(* A query below the threshold loses its deadline, any other entry does not*)
NextTimeout(entry, level) ==
  IF level = "over" THEN Deadline
  ELSE IF entry.pid \in Pid THEN "nil" ELSE entry.timeout

(* Find the entry of h and pid, or add one, and update it.                 *)
UpdateEntry(h, pid, level) ==
  LET found == Matching(h, pid)
      own   == IF found = {} THEN FreeEntry ELSE CHOOSE e \in found : TRUE
      entry == IF found = {} THEN NewEntry(h, pid) ELSE dataList[own]
  IN  /\ found = {} => Entry \ DOMAIN dataList # {}
      /\ dataList' = [e \in DOMAIN dataList \cup {own} |->
                        IF e = own
                          THEN [entry EXCEPT !.updated = TRUE,
                                             !.timeout = NextTimeout(entry, level)]
                          ELSE dataList[e]]

-----------------------------------------------------------------------------
Init ==
  /\ dataList = [e \in {} |-> e]
  /\ poll = [p \in {} |-> p]
  /\ purge = [h \in Host |-> "none"]
  /\ active \in [Host -> BOOLEAN]
  /\ track \in BOOLEAN
  /\ infinite \in BOOLEAN
  /\ report = [h \in Host |-> Nothing]
  /\ up \in [Host -> BOOLEAN]

-----------------------------------------------------------------------------
(* A poll, on one of the threads of checkQueue.                            *)

Moved(p, at) == poll' = [poll EXCEPT ![p].at = at]

AfterFetch(h) == IF h \in Slave THEN "slave" ELSE "discard"

(* It marks the entries of its host as not updated.  A block posted before *)
(* a reload brings a poll of a host that the reload found inactive, or     *)
(* next to the poll that the reload starts.                                *)
PollClear(p, h) ==
  /\ p \notin DOMAIN poll
  /\ active[h] \/ LatePolls
  /\ Overlap \/ \A q \in DOMAIN poll : poll[q].host # h
  /\ dataList' = clearUpdates(h)
  /\ poll' = [q \in DOMAIN poll \cup {p} |->
                IF q = p THEN [at |-> "connect", host |-> h,
                               seen |-> Nothing, left |-> {}]
                ELSE poll[q]]
  /\ UNCHANGED <<purge, settings, servers>>

(* connectToHost catches the exception of a failed connection.             *)
PollConnect(p) ==
  /\ poll[p].at = "connect"
  /\ Moved(p, IF up[poll[p].host] THEN "fetch" ELSE "fail")
  /\ UNCHANGED <<dataList, purge, settings, servers>>

PollFetchSlip(p) ==
  LET h == poll[p].host
  IN  /\ poll[p].at = "fetch"
      /\ poll' = [poll EXCEPT
                    ![p].at   = "rows",
                    ![p].seen = report[h],
                    ![p].left = {s \in Subject : report[h][s] # "none"}]
      /\ UNCHANGED <<dataList, purge, settings, servers>>

(* Once connected, it reads the process list; if the server has gone away  *)
(* meanwhile, it skips the rows and goes on as if there had been none.     *)
PollFetch(p) ==
  LET h == poll[p].host
  IN  /\ poll[p].at = "fetch"
      /\ \/ /\ up[h]
            /\ poll' = [poll EXCEPT
                          ![p].at   = "rows",
                          ![p].seen = [report[h] EXCEPT ![LagPid] = "none"],
                          ![p].left = {s \in Pid : report[h][s] # "none"}]
         \/ /\ ~up[h]
            /\ Moved(p, AfterFetch(h))
      /\ UNCHANGED <<dataList, purge, settings, servers>>

(* Each row takes the lock anew.                                           *)
PollRow(p, pid) ==
  /\ poll[p].at = "rows"
  /\ pid \in poll[p].left
  /\ UpdateEntry(poll[p].host, pid, poll[p].seen[pid])
  /\ poll' = [poll EXCEPT ![p].left = @ \ {pid}]
  /\ UNCHANGED <<purge, settings, servers>>

PollRowsDoneSlip(p) ==
  /\ poll[p].at = "rows"
  /\ poll[p].left = {}
  /\ IF poll[p].seen = Nothing
       THEN poll' = [q \in DOMAIN poll \ {p} |-> poll[q]]
       ELSE Moved(p, AfterFetch(poll[p].host))
  /\ UNCHANGED <<dataList, purge, settings, servers>>

PollRowsDone(p) ==
  /\ poll[p].at = "rows"
  /\ poll[p].left = {}
  /\ Moved(p, AfterFetch(poll[p].host))
  /\ UNCHANGED <<dataList, purge, settings, servers>>

(* For a slave it reads the replication status, and reports what is amiss. *)
PollSlave(p) ==
  LET h == poll[p].host
  IN  /\ poll[p].at = "slave"
      /\ \/ /\ up[h] /\ report[h][LagPid] # "none"
            /\ poll' = [poll EXCEPT ![p].at = "lag",
                                    ![p].seen[LagPid] = report[h][LagPid]]
         \/ /\ ~up[h] \/ report[h][LagPid] = "none"
            /\ Moved(p, "discard")
      /\ UNCHANGED <<dataList, purge, settings, servers>>

PollLag(p) ==
  /\ poll[p].at = "lag"
  /\ UpdateEntry(poll[p].host, LagPid, poll[p].seen[LagPid])
  /\ Moved(p, "discard")
  /\ UNCHANGED <<purge, settings, servers>>

(* updateMySQLFail sets no deadline.                                       *)
PollFail(p) ==
  /\ poll[p].at = "fail"
  /\ UpdateEntry(poll[p].host, FailPid, "slow")
  /\ Moved(p, "discard")
  /\ UNCHANGED <<purge, settings, servers>>

(* Whatever happened, it ends by discarding what it did not update.        *)
PollDiscard(p) ==
  /\ poll[p].at = "discard"
  /\ dataList' = discardMySQLDead(dataList, {poll[p].host})
  /\ poll' = [q \in DOMAIN poll \ {p} |-> poll[q]]
  /\ UNCHANGED <<purge, settings, servers>>

PollStep(p) ==
  /\ p \in DOMAIN poll
  /\ \/ PollConnect(p)
     \/ PollFetch(p)
     \/ \E pid \in Pid : PollRow(p, pid)
     \/ PollRowsDone(p)
     \/ PollSlave(p)
     \/ PollLag(p)
     \/ PollFail(p)
     \/ PollDiscard(p)

-----------------------------------------------------------------------------
(* The refresh operation sweeps the log in one critical section.           *)

Inactive(log) == {log[e].host : e \in DOMAIN log} \cap {h \in Host : ~active[h]}

SweptSlip ==
  [e \in DOMAIN dataList |->
     IF ~active[dataList[e].host]
       THEN [dataList[e] EXCEPT !.dead = TRUE, !.timeout = "nil"]
     ELSE dataList[e]]

Swept ==
  [e \in DOMAIN dataList |->
     IF ~active[dataList[e].host]
       THEN [dataList[e] EXCEPT !.dead = TRUE, !.timeout = "nil"]
     ELSE IF dataList[e].timeout = "passed" /\ ~infinite
       THEN [dataList[e] EXCEPT !.timeout = "nil"]
     ELSE dataList[e]]

RefreshSweep ==
  /\ dataList' = discardMySQLDead(Swept, Inactive(dataList))
  /\ UNCHANGED <<poll, purge, settings, servers>>

-----------------------------------------------------------------------------
(* reloadDataWatchers purges the hosts it finds inactive, in two critical  *)
(* sections each.                                                          *)

PurgeClear(h) ==
  /\ purge[h] = "clear"
  /\ dataList' = clearUpdates(h)
  /\ purge' = [purge EXCEPT ![h] = "discard"]
  /\ UNCHANGED <<poll, settings, servers>>

PurgeDiscard(h) ==
  /\ purge[h] = "discard"
  /\ dataList' = discardMySQLDead(dataList, {h})
  /\ purge' = [purge EXCEPT ![h] = "none"]
  /\ UNCHANGED <<poll, settings, servers>>

PurgeStep(h) == PurgeClear(h) \/ PurgeDiscard(h)

-----------------------------------------------------------------------------
(* What could lengthen the log happens only while it has room.             *)
Room == Cardinality(Entry) >= Cardinality(DOMAIN dataList) + Reserve

(* The user opens the configuration sheet, edits, and closes it, removes   *)
(* an entry, or moves the controls of the tracking bar.                    *)

(* An edit takes effect at once; during a reload the main thread is busy.  *)
Edit(setting) ==
  /\ Editable /\ Room
  /\ \A h \in Host : purge[h] = "none"
  /\ active' = setting
  /\ UNCHANGED <<dataList, poll, purge, track, infinite, servers>>

(* A reload, on loading the document and whenever the sheet is closed: the *)
(* inactive hosts that are in a pool will be purged.                       *)
Reload(hosts) ==
  /\ \A h \in Host : purge[h] = "none"
  /\ \A h \in hosts : ~active[h]
  /\ purge' = [h \in Host |-> IF h \in hosts THEN "clear" ELSE "none"]
  /\ UNCHANGED <<dataList, poll, settings, servers>>

(* killProcess removes an entry that stands for no live process.           *)
Dismiss(e) ==
  /\ dataList[e].pid \in {FailPid, DeadPid}
  /\ dataList' = [x \in DOMAIN dataList \ {e} |-> dataList[x]]
  /\ UNCHANGED <<poll, purge, settings, servers>>

ToggleTrack ==
  /\ track' = ~track
  /\ UNCHANGED <<dataList, poll, purge, active, infinite, servers>>

detectChangedSlider ==
  /\ infinite' = ~infinite
  /\ UNCHANGED <<dataList, poll, purge, active, track, servers>>

UserStep ==
  \/ \E setting \in [Host -> BOOLEAN] : Edit(setting)
  \/ \E hosts \in SUBSET Host : Reload(hosts)
  \/ \E e \in DOMAIN dataList : Dismiss(e)
  \/ ToggleTrack
  \/ detectChangedSlider

-----------------------------------------------------------------------------
(* Time passes a deadline, and the servers do as they please.              *)

Expire(e) ==
  /\ dataList[e].timeout = "pending"
  /\ dataList' = [dataList EXCEPT ![e].timeout = "passed"]
  /\ UNCHANGED <<poll, purge, settings, servers>>

Reports(h, s, level) ==
  /\ level # report[h][s]
  /\ s = LagPid => h \in Slave
  /\ level # "none" => Room
  /\ report' = [report EXCEPT ![h][s] = level]
  /\ UNCHANGED <<dataList, poll, purge, settings, up>>

Connectivity(h) ==
  /\ up[h] => Room
  /\ up' = [up EXCEPT ![h] = ~@]
  /\ UNCHANGED <<dataList, poll, purge, settings, report>>

ServerStep ==
  \/ \E h \in Host, s \in Subject, level \in Level : Reports(h, s, level)
  \/ \E h \in Host : Connectivity(h)

-----------------------------------------------------------------------------
Next ==
  \/ \E p \in Poller, h \in Host : PollClear(p, h)
  \/ \E p \in Poller : PollStep(p)
  \/ RefreshSweep
  \/ \E h \in Host : PurgeStep(h)
  \/ \E e \in DOMAIN dataList : Expire(e)
  \/ UserStep
  \/ ServerStep

Spec == Init /\ [][Next]_vars

-----------------------------------------------------------------------------
(* Safety.                                                                 *)

(* A log never shows one process twice: a poll finds the entry an earlier  *)
(* or overlapping poll made, and no entry but a Dead Process is renamed.   *)
OneEntryPerProcess ==
  \A e, f \in DOMAIN dataList :
    /\ SameName(dataList[e].host, dataList[f].host)
    /\ dataList[e].pid = dataList[f].pid
    /\ dataList[e].pid # DeadPid
    => e = f

(* What a poll has read of the process list and of replication is in the   *)
(* log, under its own host, from the step that applies it until the poll   *)
(* discards: so a poll never discards what it has just reported.           *)
Applied(p) ==
  {s \in Subject : /\ poll[p].seen[s] # "none"
                   /\ s \in Pid => s \notin poll[p].left
                   /\ s = LagPid => poll[p].at # "lag"}

ReportedStays ==
  \A p \in DOMAIN poll : \A s \in Applied(p) :
    \E e \in DOMAIN dataList :
      /\ dataList[e].host = poll[p].host
      /\ dataList[e].pid = s
      /\ dataList[e].updated

(* A Dead Process is out of reach of polls: nothing updates it, gives it   *)
(* another deadline or makes it a live process again.                      *)
DeadIsFinal ==
  [][\A e \in DOMAIN dataList :
       dataList[e].pid = DeadPid =>
         \/ e \notin DOMAIN dataList'
         \/ /\ dataList'[e].pid = DeadPid
            /\ dataList'[e].dead /\ ~dataList'[e].updated
            /\ dataList'[e].timeout = "pending" => dataList[e].timeout = "pending"]_vars

(* With tracking on, an entry of an active host whose deadline is still to *)
(* come stays until it is a Dead Process and the user removes it: no other *)
(* poll, sweep or purge takes it away.                                     *)
TrackedStays ==
  [][\A e \in DOMAIN dataList :
       /\ track /\ active[dataList[e].host]
       /\ dataList[e].timeout = "pending"
       /\ e \notin DOMAIN dataList'
       => dataList[e].pid = DeadPid /\ UserStep]_vars

(* As the comment in killProcess has it, a Dead Process is dead already:   *)
(* the poll that marks an entry found that its process was over.           *)
DeadProcessIsDead ==
  [][\A p \in DOMAIN poll, e \in DOMAIN dataList \cap DOMAIN dataList' :
       /\ poll[p].at = "discard" /\ p \notin DOMAIN poll'
       /\ dataList[e].pid \in Pid /\ dataList'[e].pid = DeadPid
       => report[dataList[e].host][dataList[e].pid] = "none"]_vars

(* What of a host is in the log.                                           *)
Shown(h, pids) ==
  \E e \in DOMAIN dataList : dataList[e].host = h /\ dataList[e].pid \in pids

-----------------------------------------------------------------------------
(* The log implements ProcessLog.                                          *)

(* An entry is held while its host is active and its deadline is still to  *)
(* come, or counts for nothing.                                            *)
Held(e) ==
  /\ active[dataList[e].host]
  /\ \/ dataList[e].timeout = "pending"
     \/ dataList[e].timeout = "passed" /\ infinite

shown == [e \in DOMAIN dataList |-> [name    |-> NameOf[dataList[e].host],
                                    process |-> dataList[e].pid,
                                    held    |-> Held(e)]]

Entries == INSTANCE ProcessLog WITH Process  <- Pid \cup {LagPid, FailPid},
                                    Failure  <- FailPid,
                                    Dead     <- DeadPid,
                                    tracking <- track

(* However polls, sweeps and purges fall together, a process has one entry,*)
(* an entry that is held under tracking is not lost, a process that is met *)
(* again is met in its own entry, and one that is over is not met again.   *)
ImplementsEntries == Entries!Spec
=============================================================================
