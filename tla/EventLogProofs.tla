--------------------------- MODULE EventLogProofs ---------------------------
(***************************************************************************)
(* Theorems about EventLog, for every set of hosts, processes, polls and   *)
(* entries: its types, one entry per process, Dead Processes stay dead,    *)
(* tracked entries stay, and so do reported ones where polls are separate. *)
(*                                                                         *)
(* Whatever rewrites the log makes it evolve in the sense of Evolves: this *)
(* is proved once for each method, and the properties follow from it alone.*)
(***************************************************************************)
EXTENDS EventLog, TLAPS

(* How any one step may change the log: the entries it keeps, and the one  *)
(* it may add.                                                             *)
Carries(old, new) ==
  /\ new.host = old.host
  /\ \/ new.pid = old.pid
     \/ new.pid = DeadPid /\ new.dead /\ ~new.updated
  /\ old.pid = DeadPid =>
       /\ old.dead => new.dead
       /\ new.updated => old.updated
       /\ new.timeout = "pending" => old.timeout = "pending"
  /\ old.pid = FailPid /\ old.timeout = "nil" => new.timeout = "nil"

Evolves(log, new) ==
  /\ IsLog(new)
  /\ \A e \in DOMAIN log \cap DOMAIN new : Carries(log[e], new[e])
  /\ \A e \in DOMAIN new \ DOMAIN log :
       /\ new[e].pid # DeadPid
       /\ new[e].pid = FailPid => new[e].timeout = "nil"
       /\ \A f \in DOMAIN new :
            SameName(new[e].host, new[f].host) /\ new[e].pid = new[f].pid => e = f

-----------------------------------------------------------------------------
(* The methods that rewrite the log.                                       *)

(* clearUpdates changes nothing but the marks on the entries.              *)
LEMMA ClearedLog ==
  ASSUME IsLog(dataList), NEW h
  PROVE  /\ Evolves(dataList, clearUpdates(h))
         /\ DOMAIN clearUpdates(h) = DOMAIN dataList
<1> DEFINE new == clearUpdates(h)
<1>1. DOMAIN new = DOMAIN dataList
  BY DEF clearUpdates
<1>2. ASSUME NEW e \in DOMAIN dataList
      PROVE  new[e] \in LogEntry /\ Carries(dataList[e], new[e])
  <2>1. dataList[e] \in LogEntry
    BY DEF IsLog
  <2>2. \/ new[e] = dataList[e]
        \/ new[e] = [dataList[e] EXCEPT !.updated = FALSE]
    BY DEF clearUpdates
  <2> QED
    BY <2>1, <2>2 DEF Carries, LogEntry
<1>3. IsLog(new)
  <2>1. DOMAIN new \subseteq Entry
    BY <1>1 DEF IsLog
  <2>2. new = [e \in DOMAIN new |-> new[e]]
    BY DEF clearUpdates
  <2> QED
    BY <1>1, <1>2, <2>1, <2>2 DEF IsLog
<1> QED
  BY <1>1, <1>2, <1>3 DEF Evolves

(* discardMySQLDead drops what is not updated and has no deadline, or is   *)
(* not to be tracked, and marks the rest of what is not updated.           *)
LEMMA DiscardedLog ==
  ASSUME NEW log, IsLog(log), NEW hosts
  PROVE  LET new == discardMySQLDead(log, hosts)
         IN  /\ IsLog(new)
             /\ DOMAIN new \subseteq DOMAIN log
             /\ \A e \in DOMAIN new :
                  /\ new[e].host = log[e].host
                  /\ new[e].updated = log[e].updated
                  /\ new[e].timeout = log[e].timeout
                  /\ \/ new[e] = log[e]
                     \/ /\ new[e].pid = DeadPid /\ new[e].dead
                        /\ ~new[e].updated /\ track
             /\ \A e \in DOMAIN log \ DOMAIN new : log[e].timeout = "nil" \/ ~track
<1> DEFINE new == discardMySQLDead(log, hosts)
           stale == {e \in DOMAIN log :
                       ~log[e].updated /\ \E h \in hosts : SameName(log[e].host, h)}
           discards == {e \in stale : log[e].timeout = "nil" \/ ~track}
<1>1. new = [e \in DOMAIN log \ discards |->
               IF e \in stale
                 THEN [log[e] EXCEPT !.dead = TRUE, !.pid = DeadPid]
                 ELSE log[e]]
  BY DEF discardMySQLDead
<1>2. DOMAIN new = DOMAIN log \ discards
  BY <1>1
<1>3. \A e \in DOMAIN log \ DOMAIN new : log[e].timeout = "nil" \/ ~track
  BY <1>2
<1>4. ASSUME NEW e \in DOMAIN new
      PROVE  /\ new[e] \in LogEntry
             /\ new[e].host = log[e].host
             /\ new[e].updated = log[e].updated
             /\ new[e].timeout = log[e].timeout
             /\ \/ new[e] = log[e]
                \/ /\ new[e].pid = DeadPid /\ new[e].dead
                   /\ ~new[e].updated /\ track
  <2>1. e \in DOMAIN log /\ log[e] \in LogEntry
    BY <1>2 DEF IsLog
  <2>2. CASE e \in stale
    <3>1. new[e] = [log[e] EXCEPT !.dead = TRUE, !.pid = DeadPid]
      BY <1>1, <1>2, <2>2
    <3>2. ~log[e].updated /\ track
      BY <1>2, <2>2
    <3> HIDE DEF new, stale, discards
    <3> QED
      BY <2>1, <3>1, <3>2 DEF LogEntry
  <2>3. CASE e \notin stale
    <3>1. new[e] = log[e]
      BY <1>1, <1>2, <2>3
    <3> HIDE DEF new, stale, discards
    <3> QED
      BY <2>1, <3>1
  <2> QED
    BY <2>2, <2>3
<1>5. IsLog(new)
  <2>1. DOMAIN new \subseteq Entry
    BY <1>2 DEF IsLog
  <2>2. new = [e \in DOMAIN new |-> new[e]]
    BY <1>1
  <2> HIDE DEF new
  <2> QED
    BY <1>4, <2>1, <2>2 DEF IsLog
<1>6. DOMAIN new \subseteq DOMAIN log
  BY <1>2
<1> HIDE DEF stale, discards
<1> QED
  BY <1>3, <1>4, <1>5, <1>6, Zenon

(* A poll's update of an entry, its own or a new one, is an evolution.     *)
LEMMA UpdatedLog ==
  ASSUME IsLog(dataList), NEW h \in Host, NEW pid \in Pid \cup {LagPid, FailPid},
         NEW level \in Level, pid = FailPid => level = "slow",
         UpdateEntry(h, pid, level)
  PROVE  Evolves(dataList, dataList') /\ DOMAIN dataList \subseteq DOMAIN dataList'
<1> DEFINE found == Matching(h, pid)
           own == IF found = {} THEN FreeEntry ELSE CHOOSE e \in found : TRUE
           entry == IF found = {} THEN NewEntry(h, pid) ELSE dataList[own]
           new == [entry EXCEPT !.updated = TRUE, !.timeout = NextTimeout(entry, level)]
<1>1. dataList' = [e \in DOMAIN dataList \cup {own} |->
                     IF e = own THEN new ELSE dataList[e]]
  BY DEF UpdateEntry
<1>2. found \subseteq DOMAIN dataList
  BY DEF Matching
<1>3. own \in Entry /\ (found = {} => own \notin DOMAIN dataList)
                    /\ (found # {} => own \in found)
  <2>1. CASE found = {}
    <3>1. \E e \in Entry : e \notin DOMAIN dataList
      BY <2>1 DEF UpdateEntry
    <3> QED
      BY <2>1, <3>1 DEF FreeEntry
  <2>2. CASE found # {}
    <3>1. own \in found
      BY <2>2
    <3> QED
      BY <1>2, <2>2, <3>1 DEF IsLog
  <2> QED
    BY <2>1, <2>2
<1>4. /\ entry \in LogEntry /\ entry.pid = pid /\ SameName(entry.host, h)
      /\ found = {} => entry.timeout = "nil"
  <2>1. CASE found = {}
    BY <2>1 DEF NewEntry, LogEntry, SameName
  <2>2. CASE found # {}
    <3>1. own \in DOMAIN dataList /\ entry = dataList[own]
      BY <1>2, <1>3, <2>2
    <3> QED
      BY <1>3, <2>2, <3>1 DEF Matching, IsLog
  <2> QED
    BY <2>1, <2>2
<1>5. NextTimeout(entry, level) \in {"nil", "pending", "passed"}
  BY <1>4 DEF NextTimeout, Deadline, LogEntry
<1>6. pid = FailPid => NextTimeout(entry, level) = entry.timeout
  BY <1>4, PidAssumption DEF NextTimeout
<1> HIDE DEF entry
<1>7. /\ new \in LogEntry
      /\ new.pid = pid /\ new.host = entry.host /\ new.updated
      /\ new.timeout = NextTimeout(entry, level)
  BY <1>4, <1>5 DEF LogEntry
<1>8. pid # DeadPid
  BY PidAssumption
<1> HIDE DEF new
<1>9. DOMAIN dataList' = DOMAIN dataList \cup {own}
  BY <1>1
<1>10. ASSUME NEW e \in DOMAIN dataList'
       PROVE  dataList'[e] = IF e = own THEN new ELSE dataList[e]
  BY <1>1, <1>9
<1> HIDE DEF own
<1>11. IsLog(dataList')
  <2>1. DOMAIN dataList' \subseteq Entry
    BY <1>3, <1>9 DEF IsLog
  <2>2. dataList' = [e \in DOMAIN dataList' |-> dataList'[e]]
    BY <1>1
  <2>3. \A e \in DOMAIN dataList' : dataList'[e] \in LogEntry
    BY <1>7, <1>9, <1>10 DEF IsLog
  <2> QED
    BY <2>1, <2>2, <2>3 DEF IsLog
<1>12. ASSUME NEW e \in DOMAIN dataList
       PROVE  Carries(dataList[e], dataList'[e])
  <2>1. CASE e = own
    <3>1. found # {} /\ entry = dataList[own]
      BY <1>3, <2>1 DEF entry
    <3>2. dataList'[e] = new
      BY <1>9, <1>10, <2>1
    <3> QED
      BY <1>4, <1>6, <1>7, <1>8, <2>1, <3>1, <3>2 DEF Carries
  <2>2. CASE e # own
    BY <1>9, <1>10, <2>2 DEF Carries
  <2> QED
    BY <2>1, <2>2
<1>13. ASSUME NEW e \in DOMAIN dataList' \ DOMAIN dataList
       PROVE  /\ dataList'[e].pid # DeadPid
              /\ dataList'[e].pid = FailPid => dataList'[e].timeout = "nil"
              /\ \A f \in DOMAIN dataList' :
                   /\ SameName(dataList'[e].host, dataList'[f].host)
                   /\ dataList'[e].pid = dataList'[f].pid
                   => e = f
  <2>1. e = own /\ found = {} /\ dataList'[e] = new
    BY <1>2, <1>3, <1>9, <1>10
  <2>2. ASSUME NEW f \in DOMAIN dataList', f # e,
               SameName(new.host, dataList'[f].host), new.pid = dataList'[f].pid
        PROVE  FALSE
    <3>1. f \in DOMAIN dataList /\ dataList'[f] = dataList[f]
      BY <1>9, <1>10, <2>1, <2>2
    <3>2. f \in found
      BY <1>4, <1>7, <2>2, <3>1 DEF SameName, Matching
    <3> QED
      BY <2>1, <3>2
  <2> QED
    BY <1>4, <1>6, <1>7, <1>8, <2>1, <2>2
<1> QED
  BY <1>9, <1>11, <1>12, <1>13 DEF Evolves

(* A log that loses entries, or whose entries only lose or pass deadlines, *)
(* evolves.                                                                *)
LEMMA DiscardEvolves ==
  ASSUME IsLog(dataList), NEW hosts
  PROVE  Evolves(dataList, discardMySQLDead(dataList, hosts))
<1> DEFINE new == discardMySQLDead(dataList, hosts)
<1>1. /\ IsLog(new)
      /\ DOMAIN new \subseteq DOMAIN dataList
      /\ \A e \in DOMAIN new :
           /\ new[e].host = dataList[e].host
           /\ new[e].updated = dataList[e].updated
           /\ new[e].timeout = dataList[e].timeout
           /\ \/ new[e] = dataList[e]
              \/ new[e].pid = DeadPid /\ new[e].dead /\ ~new[e].updated
  BY DiscardedLog
<1> HIDE DEF new
<1>2. \A e \in DOMAIN new : Carries(dataList[e], new[e])
  BY <1>1 DEF Carries
<1>3. Evolves(dataList, new)
  BY <1>1, <1>2 DEF Evolves
<1> QED
  BY <1>3 DEF new

(* What the first loop of a refresh does to the entries.                   *)
LEMMA SweptLog ==
  ASSUME IsLog(dataList)
  PROVE  /\ IsLog(Swept)
         /\ DOMAIN Swept = DOMAIN dataList
         /\ \A e \in DOMAIN dataList :
              /\ Swept[e].host = dataList[e].host
              /\ Swept[e].pid = dataList[e].pid
              /\ Swept[e].updated = dataList[e].updated
              /\ dataList[e].dead => Swept[e].dead
              /\ Swept[e].timeout \in {dataList[e].timeout, "nil"}
              /\ \/ Swept[e].timeout = dataList[e].timeout
                 \/ ~active[dataList[e].host]
                 \/ dataList[e].timeout = "passed" /\ ~infinite
<1>1. DOMAIN Swept = DOMAIN dataList
  BY DEF Swept
<1>2. ASSUME NEW e \in DOMAIN dataList
      PROVE  /\ Swept[e] \in LogEntry
             /\ Swept[e].host = dataList[e].host
             /\ Swept[e].pid = dataList[e].pid
             /\ Swept[e].updated = dataList[e].updated
             /\ dataList[e].dead => Swept[e].dead
             /\ Swept[e].timeout \in {dataList[e].timeout, "nil"}
             /\ \/ Swept[e].timeout = dataList[e].timeout
                \/ ~active[dataList[e].host]
                \/ dataList[e].timeout = "passed" /\ ~infinite
  <2>1. dataList[e] \in LogEntry
    BY DEF IsLog
  <2>2. CASE ~active[dataList[e].host]
    <3>1. Swept[e] = [dataList[e] EXCEPT !.dead = TRUE, !.timeout = "nil"]
      BY <2>2 DEF Swept
    <3> QED
      BY <2>1, <2>2, <3>1 DEF LogEntry
  <2>3. CASE active[dataList[e].host] /\ dataList[e].timeout = "passed" /\ ~infinite
    <3>1. Swept[e] = [dataList[e] EXCEPT !.timeout = "nil"]
      BY <2>3 DEF Swept
    <3> QED
      BY <2>1, <2>3, <3>1 DEF LogEntry
  <2>4. CASE /\ active[dataList[e].host]
             /\ ~(dataList[e].timeout = "passed" /\ ~infinite)
    <3>1. Swept[e] = dataList[e]
      BY <2>4 DEF Swept
    <3> QED
      BY <2>1, <3>1
  <2> QED
    BY <2>2, <2>3, <2>4
<1>3. Swept = [e \in DOMAIN Swept |-> Swept[e]]
  BY DEF Swept
<1>4. IsLog(Swept)
  BY <1>1, <1>2, <1>3 DEF IsLog
<1> QED
  BY <1>1, <1>2, <1>4

(* A refresh's sweep evolves the log.                                      *)
LEMMA SweepEvolves ==
  ASSUME IsLog(dataList), NEW hosts
  PROVE  Evolves(dataList, discardMySQLDead(Swept, hosts))
<1> DEFINE new == discardMySQLDead(Swept, hosts)
<1>1. /\ IsLog(Swept)
      /\ DOMAIN Swept = DOMAIN dataList
      /\ \A e \in DOMAIN dataList :
           /\ Swept[e].host = dataList[e].host
           /\ Swept[e].pid = dataList[e].pid
           /\ Swept[e].updated = dataList[e].updated
           /\ dataList[e].dead => Swept[e].dead
           /\ Swept[e].timeout \in {dataList[e].timeout, "nil"}
  BY SweptLog
<1>2. /\ IsLog(new)
      /\ DOMAIN new \subseteq DOMAIN Swept
      /\ \A e \in DOMAIN new :
           /\ new[e].host = Swept[e].host
           /\ new[e].updated = Swept[e].updated
           /\ new[e].timeout = Swept[e].timeout
           /\ \/ new[e] = Swept[e]
              \/ new[e].pid = DeadPid /\ new[e].dead /\ ~new[e].updated
  BY <1>1, DiscardedLog
<1> HIDE DEF new
<1>3. \A e \in DOMAIN new : Carries(dataList[e], new[e])
  BY <1>1, <1>2 DEF Carries
<1>4. Evolves(dataList, new)
  BY <1>1, <1>2, <1>3 DEF Evolves
<1> QED
  BY <1>4 DEF new

(* Removing an entry makes the log evolve.                                 *)
LEMMA DismissEvolves ==
  ASSUME IsLog(dataList), NEW e, Dismiss(e)
  PROVE  Evolves(dataList, dataList')
<1>1. IsLog(dataList') /\ DOMAIN dataList' = DOMAIN dataList \ {e}
  BY DEF Dismiss, IsLog
<1>2. \A x \in DOMAIN dataList' : dataList'[x] = dataList[x]
  BY <1>1 DEF Dismiss
<1>3. \A x \in DOMAIN dataList' : Carries(dataList[x], dataList'[x])
  BY <1>2 DEF Carries
<1> QED
  BY <1>1, <1>3 DEF Evolves

(* A deadline that passes makes the log evolve.                            *)
LEMMA ExpireEvolves ==
  ASSUME IsLog(dataList), NEW e \in DOMAIN dataList, Expire(e)
  PROVE  Evolves(dataList, dataList') /\ DOMAIN dataList' = DOMAIN dataList
<1>1. dataList[e] \in LogEntry
  BY DEF IsLog
<1>2. DOMAIN dataList' = DOMAIN dataList
  BY DEF Expire
<1>3. ASSUME NEW x \in DOMAIN dataList
      PROVE  dataList'[x] \in LogEntry /\ Carries(dataList[x], dataList'[x])
  <2>1. CASE x = e
    <3>1. dataList'[x] = [dataList[x] EXCEPT !.timeout = "passed"]
      BY <2>1 DEF Expire
    <3>2. dataList[x].timeout = "pending"
      BY <2>1 DEF Expire
    <3> QED
      BY <1>1, <2>1, <3>1, <3>2 DEF Carries, LogEntry
  <2>2. CASE x # e
    <3>1. dataList'[x] = dataList[x]
      BY <2>2 DEF Expire
    <3> QED
      BY <3>1 DEF Carries, IsLog
  <2> QED
    BY <2>1, <2>2
<1>4. dataList' = [x \in DOMAIN dataList' |-> dataList'[x]]
  BY DEF Expire, IsLog
<1>5. IsLog(dataList')
  BY <1>2, <1>3, <1>4 DEF IsLog
<1> QED
  BY <1>2, <1>3, <1>5 DEF Evolves

-----------------------------------------------------------------------------
(* Every step either leaves the log alone or makes it evolve.              *)

(* The steps that clear marks make the log evolve.                         *)
LEMMA ClearStepEvolves ==
  ASSUME TypeOK, \/ \E p \in Poller, h \in Host : PollClear(p, h)
                 \/ \E h \in Host : PurgeClear(h)
  PROVE  Evolves(dataList, dataList')
<1>1. PICK h \in Host : dataList' = clearUpdates(h)
  BY DEF PollClear, PurgeClear
<1>2. Evolves(dataList, clearUpdates(h))
  BY ClearedLog DEF TypeOK
<1> QED
  BY <1>1, <1>2

(* So does every later step of a poll that touches the log.                *)
LEMMA PollStepEvolves ==
  ASSUME TypeOK, NEW p \in Poller, PollStep(p)
  PROVE  Evolves(dataList, dataList') \/ dataList' = dataList
<1>1. IsLog(dataList) /\ p \in DOMAIN poll /\ poll[p] \in Poll
  BY DEF TypeOK, PollStep
<1>2. poll[p].host \in Host /\ poll[p].left \subseteq Pid
  BY <1>1 DEF Poll
<1>3. ASSUME NEW s \in Subject PROVE poll[p].seen[s] \in Level
  BY <1>1 DEF Poll
<1>4. CASE \/ PollConnect(p) \/ PollFetch(p) \/ PollRowsDone(p) \/ PollSlave(p)
  BY <1>4 DEF PollConnect, PollFetch, PollRowsDone, PollSlave
<1>5. ASSUME NEW pid \in Pid, PollRow(p, pid)
      PROVE  Evolves(dataList, dataList')
  <2>1. pid # FailPid /\ pid \in Subject
    BY PidAssumption DEF Subject
  <2> QED
    BY <1>1, <1>2, <1>3, <1>5, <2>1, UpdatedLog DEF PollRow
<1>6. CASE PollLag(p)
  <2>1. LagPid # FailPid /\ LagPid \in Subject
    BY PidAssumption DEF Subject
  <2> QED
    BY <1>1, <1>2, <1>3, <1>6, <2>1, UpdatedLog DEF PollLag
<1>7. CASE PollFail(p)
  <2>1. "slow" \in Level
    BY DEF Level
  <2> QED
    BY <1>1, <1>2, <1>7, <2>1, UpdatedLog DEF PollFail
<1>8. CASE PollDiscard(p)
  BY <1>1, <1>8, DiscardEvolves DEF PollDiscard
<1> QED
  BY <1>4, <1>5, <1>6, <1>7, <1>8 DEF PollStep

(* And so does every step of the specification.                            *)
LEMMA LogStep ==
  ASSUME TypeOK, [Next]_vars
  PROVE  Evolves(dataList, dataList') \/ dataList' = dataList
<1>1. IsLog(dataList)
  BY DEF TypeOK
<1>2. CASE \E p \in Poller, h \in Host : PollClear(p, h)
  BY <1>2, ClearStepEvolves
<1>3. CASE \E p \in Poller : PollStep(p)
  BY <1>3, PollStepEvolves
<1>4. CASE RefreshSweep
  BY <1>1, <1>4, SweepEvolves DEF RefreshSweep
<1>5. CASE \E h \in Host : PurgeStep(h)
  BY <1>1, <1>5, ClearStepEvolves, DiscardEvolves DEF PurgeStep, PurgeDiscard
<1>6. CASE \E e \in DOMAIN dataList : Expire(e)
  BY <1>1, <1>6, ExpireEvolves
<1>7. CASE UserStep
  BY <1>1, <1>7, DismissEvolves
     DEF UserStep, Edit, Reload, ToggleTrack, detectChangedSlider
<1>8. CASE ServerStep \/ UNCHANGED vars
  BY <1>8 DEF ServerStep, Reports, Connectivity, vars
<1> QED
  BY <1>2, <1>3, <1>4, <1>5, <1>6, <1>7, <1>8 DEF Next

-----------------------------------------------------------------------------
(* Types.                                                                  *)

(* What the poll actions make of poll.                                     *)
LEMMA PollTypes ==
  ASSUME TypeOK, NEW p \in Poller,
         PollStep(p) \/ \E h \in Host : PollClear(p, h)
  PROVE  DOMAIN poll' \subseteq Poller /\ poll' \in [DOMAIN poll' -> Poll]
<1>1. DOMAIN poll \subseteq Poller /\ poll \in [DOMAIN poll -> Poll]
  BY DEF TypeOK
<1>2. CASE \E h \in Host : PollClear(p, h)
  <2>1. PICK h \in Host : PollClear(p, h)
    BY <1>2
  <2>2. [at |-> "connect", host |-> h, seen |-> Nothing, left |-> {}] \in Poll
    BY DEF Poll, Nothing, Level
  <2> QED
    BY <1>1, <2>1, <2>2 DEF PollClear
<1>3. CASE PollDiscard(p)
  BY <1>1, <1>3 DEF PollDiscard
<1>4. CASE /\ p \in DOMAIN poll
           /\ \/ PollConnect(p) \/ PollFetch(p) \/ \E pid \in Pid : PollRow(p, pid)
              \/ PollRowsDone(p) \/ PollSlave(p) \/ PollLag(p) \/ PollFail(p)
  <2>1. poll[p] \in Poll
    BY <1>1, <1>4
  <2>2. report[poll[p].host] \in [Subject -> Level]
    BY <2>1 DEF TypeOK, Poll
  <2>3. PICK x \in Poll : poll' = [poll EXCEPT ![p] = x]
    <3>1. CASE PollConnect(p) \/ PollRowsDone(p) \/ PollLag(p) \/ PollFail(p)
      BY <2>1, <3>1
         DEF PollConnect, PollRowsDone, PollLag, PollFail, Moved, AfterFetch, Poll
    <3>2. CASE PollFetch(p)
      <4>1. [report[poll[p].host] EXCEPT ![LagPid] = "none"] \in [Subject -> Level]
        BY <2>2 DEF Level
      <4>2. \/ poll' = [poll EXCEPT ![p].at = "rows",
                        ![p].seen = [report[poll[p].host] EXCEPT ![LagPid] = "none"],
                        ![p].left = {s \in Pid : report[poll[p].host][s] # "none"}]
            \/ poll' = [poll EXCEPT ![p].at = AfterFetch(poll[p].host)]
        BY <3>2 DEF PollFetch, Moved
      <4>3. CASE poll' = [poll EXCEPT ![p].at = AfterFetch(poll[p].host)]
        BY <2>1, <4>3 DEF AfterFetch, Poll
      <4>4. CASE poll' = [poll EXCEPT ![p].at = "rows",
                        ![p].seen = [report[poll[p].host] EXCEPT ![LagPid] = "none"],
                        ![p].left = {s \in Pid : report[poll[p].host][s] # "none"}]
        <5> DEFINE x == [poll[p] EXCEPT
                          !.at = "rows",
                          !.seen = [report[poll[p].host] EXCEPT ![LagPid] = "none"],
                          !.left = {s \in Pid : report[poll[p].host][s] # "none"}]
        <5>1. x \in Poll
          BY <2>1, <4>1 DEF Poll
        <5>2. poll' = [poll EXCEPT ![p] = x]
          BY <4>4
        <5> QED
          BY <5>1, <5>2
      <4> QED
        BY <4>2, <4>3, <4>4
    <3>3. CASE \E pid \in Pid : PollRow(p, pid)
      BY <2>1, <3>3 DEF PollRow, Poll
    <3>4. CASE PollSlave(p)
      <4>1. report[poll[p].host][LagPid] \in Level
        BY <2>2 DEF Subject
      <4>2. \/ poll' = [poll EXCEPT ![p].at = "lag",
                                    ![p].seen[LagPid] = report[poll[p].host][LagPid]]
            \/ poll' = [poll EXCEPT ![p].at = "discard"]
        BY <3>4 DEF PollSlave, Moved
      <4> QED
        BY <2>1, <4>1, <4>2 DEF Poll
    <3> QED
      BY <1>4, <3>1, <3>2, <3>3, <3>4
  <2> QED
    BY <1>1, <1>4, <2>3
<1> QED
  BY <1>2, <1>3, <1>4 DEF PollStep

(* The document starts well typed.                                         *)
LEMMA InitType ==
  ASSUME Init
  PROVE  TypeOK
<1>1. IsLog(dataList) /\ poll \in [DOMAIN poll -> Poll] /\ DOMAIN poll = {}
  BY DEF Init, IsLog
<1>2. report \in [Host -> [Subject -> Level]]
  BY DEF Init, Nothing, Level
<1> QED
  BY <1>1, <1>2, BoundsAssumption DEF Init, TypeOK

(* Every step keeps the types.                                             *)
LEMMA TypeStep ==
  ASSUME TypeOK, [Next]_vars
  PROVE  TypeOK'
<1>1. IsLog(dataList)'
  BY LogStep DEF TypeOK, Evolves, IsLog
<1>2. CASE \E p \in Poller, h \in Host : PollClear(p, h)
  BY <1>1, <1>2, PollTypes DEF TypeOK, PollClear, settings, servers
<1>3. CASE \E p \in Poller : PollStep(p)
  <2>1. UNCHANGED <<purge, settings, servers>>
    BY <1>3 DEF PollStep, PollConnect, PollFetch, PollRow, PollRowsDone,
                PollSlave, PollLag, PollFail, PollDiscard
  <2> QED
    BY <1>1, <1>3, <2>1, PollTypes DEF TypeOK, settings, servers
<1>4. CASE RefreshSweep
  BY <1>1, <1>4 DEF TypeOK, RefreshSweep, settings, servers
<1>5. CASE \E h \in Host : PurgeStep(h)
  BY <1>1, <1>5 DEF TypeOK, PurgeStep, PurgeClear, PurgeDiscard, settings, servers
<1>6. CASE \E e \in DOMAIN dataList : Expire(e)
  BY <1>1, <1>6 DEF TypeOK, Expire, settings, servers
<1>7. CASE UserStep
  <2>1. CASE \E setting \in [Host -> BOOLEAN] : Edit(setting)
    BY <1>1, <2>1 DEF TypeOK, Edit, servers
  <2>3. CASE \E hosts \in SUBSET Host : Reload(hosts)
    <3>1. purge' \in [Host -> {"none", "clear", "discard"}]
      BY <2>3 DEF Reload
    <3> QED
      BY <1>1, <2>3, <3>1 DEF TypeOK, Reload, settings, servers
  <2>2. CASE \/ \E e \in DOMAIN dataList : Dismiss(e)
             \/ ToggleTrack \/ detectChangedSlider
    BY <1>1, <2>2
       DEF TypeOK, Dismiss, ToggleTrack, detectChangedSlider, settings, servers
  <2> QED
    BY <1>7, <2>1, <2>2, <2>3 DEF UserStep
<1>8. CASE ServerStep
  <2>1. CASE \E h \in Host, s \in Subject, level \in Level : Reports(h, s, level)
    BY <1>1, <2>1 DEF TypeOK, Reports, settings
  <2>2. CASE \E h \in Host : Connectivity(h)
    BY <1>1, <2>2 DEF TypeOK, Connectivity, settings
  <2> QED
    BY <1>8, <2>1, <2>2 DEF ServerStep
<1>9. CASE UNCHANGED vars
  BY <1>1, <1>9 DEF TypeOK, vars, settings, servers
<1> QED
  BY <1>2, <1>3, <1>4, <1>5, <1>6, <1>7, <1>8, <1>9 DEF Next

(* The event log and the polls keep their types.                           *)
THEOREM TypeCorrect == Spec => []TypeOK
<1> QED
  BY InitType, TypeStep, PTL DEF Spec

-----------------------------------------------------------------------------
(* One entry per process.                                                  *)

(* A log that evolves keeps one entry per process.                         *)
LEMMA EntryStep ==
  ASSUME OneEntryPerProcess, Evolves(dataList, dataList')
  PROVE  OneEntryPerProcess'
<1> SUFFICES ASSUME NEW e \in DOMAIN dataList', NEW f \in DOMAIN dataList',
                    SameName(dataList'[e].host, dataList'[f].host),
                    dataList'[e].pid = dataList'[f].pid,
                    dataList'[e].pid # DeadPid
             PROVE  e = f
  BY DEF OneEntryPerProcess, SameName
<1>1. CASE e \in DOMAIN dataList /\ f \in DOMAIN dataList
  <2>1. Carries(dataList[e], dataList'[e]) /\ Carries(dataList[f], dataList'[f])
    BY <1>1 DEF Evolves
  <2> QED
    BY <1>1, <2>1 DEF Carries, OneEntryPerProcess
<1>2. CASE e \notin DOMAIN dataList \/ f \notin DOMAIN dataList
  BY <1>2 DEF Evolves, SameName
<1> QED
  BY <1>1, <1>2

(* However polls, sweeps, purges and the user interleave, the log never    *)
(* shows a process twice.                                                  *)
THEOREM OneEntry == Spec => []OneEntryPerProcess
<1>1. Init => OneEntryPerProcess
  BY DEF Init, OneEntryPerProcess
<1>2. TypeOK /\ OneEntryPerProcess /\ [Next]_vars => OneEntryPerProcess'
  BY LogStep, EntryStep DEF OneEntryPerProcess, SameName
<1> QED
  BY <1>1, <1>2, TypeCorrect, PTL DEF Spec

-----------------------------------------------------------------------------
(* Dead Processes, and entries on failed connections.                      *)

(* A Dead Process has been marked as dead and as not updated, and no       *)
(* failed connection has a deadline.                                       *)
MarkInv ==
  \A e \in DOMAIN dataList :
    /\ dataList[e].pid = DeadPid => dataList[e].dead /\ ~dataList[e].updated
    /\ dataList[e].pid = FailPid => dataList[e].timeout = "nil"

(* A log that evolves keeps the marks consistent.                          *)
LEMMA MarkStep ==
  ASSUME MarkInv, Evolves(dataList, dataList')
  PROVE  MarkInv'
<1> SUFFICES ASSUME NEW e \in DOMAIN dataList'
             PROVE  /\ dataList'[e].pid = DeadPid =>
                         dataList'[e].dead /\ ~dataList'[e].updated
                    /\ dataList'[e].pid = FailPid => dataList'[e].timeout = "nil"
  BY DEF MarkInv
<1>1. CASE e \in DOMAIN dataList
  <2>1. Carries(dataList[e], dataList'[e])
    BY <1>1 DEF Evolves
  <2> QED
    BY <1>1, <2>1, PidAssumption DEF Carries, MarkInv
<1>2. CASE e \notin DOMAIN dataList
  BY <1>2 DEF Evolves
<1> QED
  BY <1>1, <1>2

(* The marks and deadlines of dead and of failed entries stay consistent.  *)
THEOREM MarksHold == Spec => []MarkInv
<1>1. Init => MarkInv
  BY DEF Init, MarkInv
<1>2. TypeOK /\ MarkInv /\ [Next]_vars => MarkInv'
  BY LogStep, MarkStep DEF MarkInv
<1> QED
  BY <1>1, <1>2, TypeCorrect, PTL DEF Spec

(* A Dead Process that stays in the log stays one.                         *)
LEMMA DeadStep ==
  ASSUME TypeOK, MarkInv, [Next]_vars, NEW e \in DOMAIN dataList,
         dataList[e].pid = DeadPid, e \in DOMAIN dataList'
  PROVE  /\ dataList'[e].pid = DeadPid
         /\ dataList'[e].dead /\ ~dataList'[e].updated
         /\ dataList'[e].timeout = "pending" => dataList[e].timeout = "pending"
<1>1. dataList[e].dead /\ ~dataList[e].updated
  BY DEF MarkInv
<1>2. CASE dataList' = dataList
  BY <1>1, <1>2
<1>3. CASE Evolves(dataList, dataList')
  <2>1. Carries(dataList[e], dataList'[e])
    BY <1>3 DEF Evolves
  <2> QED
    BY <1>1, <2>1 DEF Carries
<1> QED
  BY <1>2, <1>3, LogStep

(* No step of any poll brings a Dead Process back.                         *)
THEOREM DeadStayDead == Spec => DeadIsFinal
<1>1. TypeOK /\ MarkInv /\ [Next]_vars =>
        [\A e \in DOMAIN dataList :
           dataList[e].pid = DeadPid =>
             \/ e \notin DOMAIN dataList'
             \/ /\ dataList'[e].pid = DeadPid
                /\ dataList'[e].dead /\ ~dataList'[e].updated
                /\ dataList'[e].timeout = "pending"
                     => dataList[e].timeout = "pending"]_vars
  BY DeadStep
<1> QED
  BY <1>1, TypeCorrect, MarksHold, PTL DEF Spec, DeadIsFinal

-----------------------------------------------------------------------------
(* Tracked entries.                                                        *)

(* What takes a tracked entry away is the user dismissing a Dead Process.  *)
LEMMA TrackedStep ==
  ASSUME TypeOK, MarkInv, [Next]_vars, NEW e \in DOMAIN dataList,
         track, active[dataList[e].host], dataList[e].timeout = "pending",
         e \notin DOMAIN dataList'
  PROVE  dataList[e].pid = DeadPid /\ UserStep
<1>1. IsLog(dataList)
  BY DEF TypeOK
<1>2. ASSUME NEW hosts, dataList' = discardMySQLDead(dataList, hosts)
      PROVE  FALSE
  <2>1. \A x \in DOMAIN dataList \ DOMAIN discardMySQLDead(dataList, hosts) :
          dataList[x].timeout = "nil" \/ ~track
    BY <1>1, DiscardedLog
  <2> QED
    BY <1>2, <2>1
<1>3. ASSUME NEW hosts, dataList' = discardMySQLDead(Swept, hosts)
      PROVE  FALSE
  <2>1. IsLog(Swept) /\ e \in DOMAIN Swept /\ Swept[e].timeout = "pending"
    BY <1>1, SweptLog
  <2>2. \A x \in DOMAIN Swept \ DOMAIN discardMySQLDead(Swept, hosts) :
          Swept[x].timeout = "nil" \/ ~track
    BY <2>1, DiscardedLog
  <2> QED
    BY <1>3, <2>1, <2>2
<1>4. ASSUME NEW h, dataList' = clearUpdates(h) PROVE FALSE
  BY <1>4 DEF clearUpdates
<1>5. ASSUME NEW h, NEW pid, NEW level, UpdateEntry(h, pid, level) PROVE FALSE
  BY <1>5 DEF UpdateEntry
<1>6. dataList' # dataList
  OBVIOUS
<1>7. CASE \E p \in Poller, h \in Host : PollClear(p, h)
  BY <1>4, <1>7 DEF PollClear
<1>8. CASE \E p \in Poller : PollStep(p)
  BY <1>2, <1>5, <1>6, <1>8
     DEF PollStep, PollConnect, PollFetch, PollRow, PollRowsDone, PollSlave,
         PollLag, PollFail, PollDiscard
<1>9. CASE RefreshSweep
  BY <1>3, <1>9 DEF RefreshSweep
<1>10. CASE \E h \in Host : PurgeStep(h)
  BY <1>2, <1>4, <1>10 DEF PurgeStep, PurgeClear, PurgeDiscard
<1>11. CASE \E x \in DOMAIN dataList : Expire(x)
  BY <1>1, <1>11, ExpireEvolves
<1>12. CASE UserStep
  <2>1. PICK x \in DOMAIN dataList : Dismiss(x)
    BY <1>6, <1>12 DEF UserStep, Edit, Reload, ToggleTrack, detectChangedSlider
  <2>2. x = e
    BY <2>1 DEF Dismiss
  <2>3. dataList[e].pid # FailPid
    BY DEF MarkInv
  <2> QED
    BY <1>12, <2>1, <2>2, <2>3 DEF Dismiss
<1>13. CASE ServerStep \/ UNCHANGED vars
  BY <1>6, <1>13 DEF ServerStep, Reports, Connectivity, vars
<1> QED
  BY <1>7, <1>8, <1>9, <1>10, <1>11, <1>12, <1>13 DEF Next

(* With tracking on, only the user takes an active host's entry away       *)
(* before its deadline, and only once its process has left the list.       *)
THEOREM TrackedStay == Spec => TrackedStays
<1>1. TypeOK /\ MarkInv /\ [Next]_vars =>
        [\A e \in DOMAIN dataList :
           /\ track /\ active[dataList[e].host]
           /\ dataList[e].timeout = "pending"
           /\ e \notin DOMAIN dataList'
           => dataList[e].pid = DeadPid /\ UserStep]_vars
  BY TrackedStep
<1> QED
  BY <1>1, TypeCorrect, MarksHold, PTL DEF Spec, TrackedStays
-----------------------------------------------------------------------------
(* What polls report.                                                      *)

(* Two hosts never have the same hostname, a host is never polled twice at *)
(* a time or while it is inactive, and the configuration is not edited.    *)
Separate ==
  /\ \A g, h \in Host : SameName(g, h) => g = h
  /\ ~Overlap /\ ~LatePolls /\ ~Editable

(* Then hosts that are polled are active, and hosts that are purged not.   *)
PolledOnce ==
  /\ \A p, q \in DOMAIN poll : poll[p].host = poll[q].host => p = q
  /\ \A p \in DOMAIN poll : active[poll[p].host]
  /\ \A h \in Host : purge[h] # "none" => ~active[h]

(* The log keeps what polls of g have updated.                             *)
Keeps(g) ==
  \A e \in DOMAIN dataList :
    dataList[e].host = g /\ dataList[e].pid \in Subject /\ dataList[e].updated =>
      /\ e \in DOMAIN dataList'
      /\ dataList'[e].host = g
      /\ dataList'[e].pid = dataList[e].pid
      /\ dataList'[e].updated

(* The log has the entry that a poll of g made of s.                       *)
Has(g, s) ==
  \E e \in DOMAIN dataList : /\ dataList[e].host = g
                            /\ dataList[e].pid = s
                            /\ dataList[e].updated

(* A log that keeps what polls of g updated has what it had.               *)
LEMMA HasStays ==
  ASSUME NEW g, NEW s \in Subject, Has(g, s), Keeps(g)
  PROVE  Has(g, s)'
BY DEF Has, Keeps

(* An update leaves the entry it is about in the log, and every other.     *)
LEMMA UpdateReports ==
  ASSUME IsLog(dataList), Separate, NEW h \in Host,
         NEW pid \in Pid \cup {LagPid, FailPid}, NEW level \in Level,
         UpdateEntry(h, pid, level)
  PROVE  Has(h, pid)' /\ \A g \in Host : Keeps(g)
<1> DEFINE found == Matching(h, pid)
           own == IF found = {} THEN FreeEntry ELSE CHOOSE e \in found : TRUE
           entry == IF found = {} THEN NewEntry(h, pid) ELSE dataList[own]
           new == [entry EXCEPT !.updated = TRUE, !.timeout = NextTimeout(entry, level)]
<1>1. dataList' = [e \in DOMAIN dataList \cup {own} |->
                     IF e = own THEN new ELSE dataList[e]]
  BY DEF UpdateEntry
<1>2. found # {} => own \in found
  OBVIOUS
<1>3. found = {} => own \notin DOMAIN dataList
  BY DEF UpdateEntry, FreeEntry
<1>4. entry.host = h /\ entry.pid = pid /\ entry \in LogEntry
  <2>1. CASE found = {}
    BY <2>1 DEF NewEntry, LogEntry
  <2>2. CASE found # {}
    <3>1. own \in DOMAIN dataList /\ entry = dataList[own]
      BY <1>2, <2>2 DEF Matching
    <3>2. entry \in LogEntry /\ SameName(entry.host, h) /\ entry.pid = pid
      BY <1>2, <2>2, <3>1 DEF IsLog, Matching
    <3>3. entry.host \in Host
      BY <3>2 DEF LogEntry
    <3> QED
      BY <3>2, <3>3 DEF Separate
  <2> QED
    BY <2>1, <2>2
<1>5. own \in DOMAIN dataList => dataList[own].host = h /\ dataList[own].pid = pid
  BY <1>3, <1>4
<1> HIDE DEF entry
<1>6. new.host = h /\ new.pid = pid /\ new.updated
  BY <1>4 DEF LogEntry
<1> HIDE DEF new, own
<1>7. /\ DOMAIN dataList' = DOMAIN dataList \cup {own}
      /\ dataList'[own] = new
      /\ \A e \in DOMAIN dataList \ {own} : dataList'[e] = dataList[e]
  BY <1>1
<1>8. Has(h, pid)'
  BY <1>6, <1>7 DEF Has
<1>9. ASSUME NEW g \in Host PROVE Keeps(g)
  BY <1>5, <1>6, <1>7 DEF Keeps
<1> QED
  BY <1>8, <1>9

(* Clearing the marks of h keeps what polls of the others updated.         *)
LEMMA ClearKeeps ==
  ASSUME IsLog(dataList), Separate, NEW h \in Host, dataList' = clearUpdates(h),
         NEW g \in Host, g # h
  PROVE  Keeps(g)
<1>1. ASSUME NEW e \in DOMAIN dataList, dataList[e].host = g
      PROVE  e \in DOMAIN dataList' /\ dataList'[e] = dataList[e]
  BY <1>1 DEF clearUpdates, Separate
<1> QED
  BY <1>1 DEF Keeps

(* A discard keeps whatever is updated, whichever hosts it is for.         *)
LEMMA DiscardKeeps ==
  ASSUME NEW log, DOMAIN log = DOMAIN dataList, NEW hosts,
         dataList' = discardMySQLDead(log, hosts),
         \A e \in DOMAIN dataList : /\ log[e].host = dataList[e].host
                                  /\ log[e].pid = dataList[e].pid
                                  /\ log[e].updated = dataList[e].updated,
         NEW g
  PROVE  Keeps(g)
<1>1. ASSUME NEW e \in DOMAIN dataList, dataList[e].updated
      PROVE  e \in DOMAIN dataList' /\ dataList'[e] = log[e]
  BY <1>1 DEF discardMySQLDead
<1> QED
  BY <1>1 DEF Keeps

(* A poll whose applied reports are the same as before has them still.     *)
LEMMA ReportStep ==
  ASSUME ReportedStays, NEW p \in DOMAIN poll, NEW g, NEW s,
         g = poll[p].host, Keeps(g), s \in Applied(p)
  PROVE  Has(g, s)'
<1>1. Has(g, s) /\ s \in Subject
  BY DEF ReportedStays, Has, Applied
<1> QED
  BY <1>1, HasStays

-----------------------------------------------------------------------------
(* A poll that starts while no other poll of its host is under way.        *)
LEMMA ClearReports ==
  ASSUME TypeOK, Separate, PolledOnce, ReportedStays,
         NEW q \in Poller, NEW h \in Host, PollClear(q, h)
  PROVE  PolledOnce' /\ ReportedStays'
<1>1. /\ q \notin DOMAIN poll
      /\ DOMAIN poll' = DOMAIN poll \cup {q}
      /\ poll'[q] = [at |-> "connect", host |-> h, seen |-> Nothing, left |-> {}]
      /\ \A p \in DOMAIN poll : p # q /\ poll'[p] = poll[p] /\ poll[p].host # h
      /\ active[h]
      /\ UNCHANGED <<purge, active>>
  BY DEF PollClear, Separate, settings
<1>2. PolledOnce'
  BY <1>1 DEF PolledOnce
<1>3. SUFFICES ASSUME NEW p \in DOMAIN poll', NEW s \in Applied(p)', NEW g, g = poll'[p].host
               PROVE  Has(g, s)'
  BY <1>2 DEF ReportedStays, Has
<1>4. p # q
  BY <1>1, <1>3 DEF Applied, Nothing
<1>5. p \in DOMAIN poll /\ poll'[p] = poll[p] /\ g = poll[p].host
  BY <1>1, <1>3, <1>4
<1>6. g \in Host /\ g # h
  BY <1>1, <1>5 DEF TypeOK, Poll
<1>7. Keeps(g)
  BY <1>6, ClearKeeps DEF TypeOK, PollClear
<1>8. s \in Applied(p)
  BY <1>3, <1>5 DEF Applied
<1> QED
  BY <1>5, <1>7, <1>8, ReportStep

(* A poll that goes on, whatever it reads, having reported the subject now *)
(* if it has applied nothing else.                                         *)
LEMMA GoOnReports ==
  ASSUME TypeOK, PolledOnce, ReportedStays, NEW q \in DOMAIN poll,
         NEW now \in SUBSET Subject, DOMAIN poll' = DOMAIN poll,
         poll'[q].host = poll[q].host,
         \A p \in DOMAIN poll : p # q => poll'[p] = poll[p],
         Applied(q)' \subseteq Applied(q) \cup now,
         \A g \in Host : Keeps(g),
         \A g \in Host, s \in now : g = poll[q].host => Has(g, s)',
         UNCHANGED <<purge, active>>
  PROVE  PolledOnce' /\ ReportedStays'
<1>1. PolledOnce'
  BY DEF PolledOnce
<1>2. SUFFICES ASSUME NEW p \in DOMAIN poll', NEW s \in Applied(p)', NEW g, g = poll'[p].host
               PROVE  Has(g, s)'
  BY <1>1 DEF ReportedStays, Has
<1>3. p \in DOMAIN poll /\ g = poll[p].host
  BY <1>2
<1>4. g \in Host /\ Keeps(g)
  BY <1>3 DEF TypeOK, Poll
<1>5. s \in Applied(p) \/ (p = q /\ s \in now)
  BY <1>2, <1>3 DEF Applied
<1> QED
  BY <1>3, <1>4, <1>5, ReportStep

(* A step that leaves the log and what polls have seen alone reports nothing*)
(* new and loses nothing.                                                  *)
LEMMA NothingNewReports ==
  ASSUME TypeOK, PolledOnce, ReportedStays, NEW q \in DOMAIN poll,
         DOMAIN poll' = DOMAIN poll,
         poll'[q].host = poll[q].host,
         \A p \in DOMAIN poll : p # q => poll'[p] = poll[p],
         Applied(q)' \subseteq Applied(q),
         \A g \in Host : Keeps(g),
         UNCHANGED <<purge, active>>
  PROVE  PolledOnce' /\ ReportedStays'
<1> DEFINE now == {}
<1>1. /\ now \in SUBSET Subject
      /\ Applied(q)' \subseteq Applied(q) \cup now
      /\ \A g \in Host, s \in now : g = poll[q].host => Has(g, s)'
  OBVIOUS
<1> HIDE DEF now
<1> QED
  BY <1>1, GoOnReports

(* What was reported is still there in a log that is the same.             *)
LEMMA SameLogKeeps ==
  ASSUME dataList' = dataList, NEW g
  PROVE  Keeps(g)
BY DEF Keeps

(* The steps between the first and the last of a poll.                     *)
LEMMA MiddleReports ==
  ASSUME TypeOK, Separate, PolledOnce, ReportedStays, NEW q \in DOMAIN poll,
         \/ PollConnect(q) \/ PollFetch(q) \/ \E pid \in Pid : PollRow(q, pid)
         \/ PollRowsDone(q) \/ PollSlave(q) \/ PollLag(q) \/ PollFail(q)
  PROVE  PolledOnce' /\ ReportedStays'
<1>1. /\ UNCHANGED <<purge, active>>
      /\ DOMAIN poll' = DOMAIN poll
      /\ \A p \in DOMAIN poll : p # q => poll'[p] = poll[p]
  BY DEF PollConnect, PollFetch, PollRow, PollRowsDone, PollSlave, PollLag,
         PollFail, Moved, settings
<1>2. /\ poll[q] \in Poll /\ IsLog(dataList)
      /\ LagPid \notin Pid /\ Pid \subseteq Subject /\ LagPid \in Subject
  BY PidAssumption DEF TypeOK, Subject
<1>3. CASE PollConnect(q) \/ PollRowsDone(q)
  <2>1. dataList' = dataList
    BY <1>3 DEF PollConnect, PollRowsDone
  <2>2. PICK at : poll' = [poll EXCEPT ![q].at = at] /\ at # "lag" /\ poll[q].at # "lag"
    BY <1>3 DEF PollConnect, PollRowsDone, Moved, AfterFetch
  <2>3. poll'[q].host = poll[q].host /\ Applied(q)' = Applied(q)
    BY <1>2, <2>2 DEF Applied, Poll
  <2> QED
    BY <1>1, <2>1, <2>3, SameLogKeeps, NothingNewReports
<1>4. CASE PollFetch(q)
  <2>1. dataList' = dataList
    BY <1>4 DEF PollFetch
  <2>2. CASE poll' = [poll EXCEPT
                        ![q].at   = "rows",
                        ![q].seen = [report[poll[q].host] EXCEPT ![LagPid] = "none"],
                        ![q].left = {s \in Pid : report[poll[q].host][s] # "none"}]
    <3>1. report[poll[q].host] \in [Subject -> Level]
      BY <1>2 DEF TypeOK, Poll
    <3> DEFINE seen == [report[poll[q].host] EXCEPT ![LagPid] = "none"]
    <3>2. /\ seen[LagPid] = "none"
          /\ \A s \in Pid : seen[s] = report[poll[q].host][s]
      BY <1>2, <3>1
    <3>3. /\ poll'[q].host = poll[q].host
          /\ poll'[q].seen = seen
          /\ poll'[q].left = {s \in Pid : report[poll[q].host][s] # "none"}
      BY <1>2, <2>2 DEF Poll
    <3> HIDE DEF seen
    <3>4. Applied(q)' = {}
      BY <1>2, <3>2, <3>3 DEF Applied, Subject
    <3> QED
      BY <1>1, <2>1, <3>3, <3>4, SameLogKeeps, NothingNewReports
  <2>3. CASE Moved(q, AfterFetch(poll[q].host))
    <3>1. PICK at : poll' = [poll EXCEPT ![q].at = at] /\ at # "lag" /\ poll[q].at # "lag"
      BY <1>4, <2>3 DEF PollFetch, Moved, AfterFetch
    <3>2. poll'[q].host = poll[q].host /\ Applied(q)' = Applied(q)
      BY <1>2, <3>1 DEF Applied, Poll
    <3> QED
      BY <1>1, <2>1, <3>2, SameLogKeeps, NothingNewReports
  <2> QED
    BY <1>4, <2>2, <2>3 DEF PollFetch
<1>5. CASE \E pid \in Pid : PollRow(q, pid)
  <2>1. PICK pid \in Pid : PollRow(q, pid)
    BY <1>5
  <2>2. /\ poll[q].host \in Host /\ poll[q].seen[pid] \in Level
    BY <1>2 DEF Poll
  <2>3. PICK h \in Host : h = poll[q].host
    BY <2>2
  <2>4. Has(h, pid)' /\ \A g \in Host : Keeps(g)
    BY <1>2, <2>1, <2>2, <2>3, UpdateReports DEF PollRow
  <2>5. poll'[q].host = poll[q].host /\ Applied(q)' \subseteq Applied(q) \cup {pid}
    BY <1>2, <2>1 DEF PollRow, Applied, Poll
  <2> QED
    BY <1>1, <1>2, <2>3, <2>4, <2>5, GoOnReports
<1>6. CASE PollSlave(q)
  <2>1. dataList' = dataList
    BY <1>6 DEF PollSlave
  <2>2. CASE poll' = [poll EXCEPT ![q].at = "lag",
                                  ![q].seen[LagPid] = report[poll[q].host][LagPid]]
    <3>1. /\ poll'[q].host = poll[q].host /\ poll'[q].at = "lag"
          /\ poll'[q].left = poll[q].left
          /\ \A s \in Pid : poll'[q].seen[s] = poll[q].seen[s]
      BY <1>2, <2>2 DEF Poll
    <3>2. Applied(q)' \subseteq Applied(q)
      BY <1>2, <3>1 DEF Applied, Subject
    <3> QED
      BY <1>1, <2>1, <3>1, <3>2, SameLogKeeps, NothingNewReports
  <2>3. CASE Moved(q, "discard")
    <3>1. poll' = [poll EXCEPT ![q].at = "discard"] /\ poll[q].at # "lag"
      BY <1>6, <2>3 DEF PollSlave, Moved
    <3>2. poll'[q].host = poll[q].host /\ Applied(q)' = Applied(q)
      BY <1>2, <3>1 DEF Applied, Poll
    <3> QED
      BY <1>1, <2>1, <3>2, SameLogKeeps, NothingNewReports
  <2> QED
    BY <1>6, <2>2, <2>3 DEF PollSlave
<1>7. CASE PollLag(q)
  <2>1. /\ poll[q].host \in Host /\ poll[q].seen[LagPid] \in Level
    BY <1>2 DEF Poll
  <2>2. PICK h \in Host : h = poll[q].host
    BY <2>1
  <2>3. Has(h, LagPid)' /\ \A g \in Host : Keeps(g)
    BY <1>2, <1>7, <2>1, <2>2, UpdateReports DEF PollLag
  <2>4. poll'[q].host = poll[q].host /\ Applied(q)' \subseteq Applied(q) \cup {LagPid}
    BY <1>2, <1>7 DEF PollLag, Moved, Applied, Poll
  <2> QED
    BY <1>1, <1>2, <2>2, <2>3, <2>4, GoOnReports
<1>8. CASE PollFail(q)
  <2>1. poll[q].host \in Host /\ "slow" \in Level
    BY <1>2 DEF Poll, Level
  <2>2. PICK h \in Host : h = poll[q].host
    BY <2>1
  <2>3. \A g \in Host : Keeps(g)
    BY <1>2, <1>8, <2>1, <2>2, UpdateReports DEF PollFail
  <2>4. poll' = [poll EXCEPT ![q].at = "discard"] /\ poll[q].at = "fail"
    BY <1>8 DEF PollFail, Moved
  <2>5. poll'[q].host = poll[q].host /\ Applied(q)' = Applied(q)
    BY <1>2, <2>4 DEF Applied, Poll
  <2> QED
    BY <1>1, <2>3, <2>5, NothingNewReports
<1> QED
  BY <1>3, <1>4, <1>5, <1>6, <1>7, <1>8

(* A step at which no poll goes on or starts.                              *)
LEMMA FewerReports ==
  ASSUME TypeOK, PolledOnce, ReportedStays,
         DOMAIN poll' \subseteq DOMAIN poll,
         \A p \in DOMAIN poll' : poll'[p] = poll[p],
         \A g : Keeps(g), UNCHANGED active,
         \A g \in Host : purge'[g] # "none" => purge[g] # "none"
  PROVE  PolledOnce' /\ ReportedStays'
<1>1. PolledOnce'
  BY DEF PolledOnce
<1>2. SUFFICES ASSUME NEW p \in DOMAIN poll', NEW s \in Applied(p)', NEW g, g = poll'[p].host
               PROVE  Has(g, s)'
  BY <1>1 DEF ReportedStays, Has
<1>3. p \in DOMAIN poll /\ g = poll[p].host /\ s \in Applied(p)
  BY <1>2 DEF Applied
<1> QED
  BY <1>3, ReportStep

(* The purge clears the marks of inactive hosts only, and none of them is  *)
(* polled.                                                                 *)
LEMMA PurgeClearReports ==
  ASSUME TypeOK, Separate, PolledOnce, ReportedStays,
         NEW h \in Host, PurgeClear(h)
  PROVE  PolledOnce' /\ ReportedStays'
<1>1. /\ ~active[h]
      /\ dataList' = clearUpdates(h)
      /\ purge' = [purge EXCEPT ![h] = "discard"]
      /\ UNCHANGED <<poll, active>>
  BY DEF PurgeClear, PolledOnce, settings
<1>2. PolledOnce'
  BY <1>1 DEF PolledOnce, TypeOK
<1>3. SUFFICES ASSUME NEW p \in DOMAIN poll', NEW s \in Applied(p)', NEW g, g = poll'[p].host
               PROVE  Has(g, s)'
  BY <1>2 DEF ReportedStays, Has
<1>4. p \in DOMAIN poll /\ g = poll[p].host /\ s \in Applied(p)
  BY <1>1, <1>3 DEF Applied
<1>5. g \in Host /\ g # h
  BY <1>1, <1>4 DEF TypeOK, Poll, PolledOnce
<1>6. Keeps(g)
  BY <1>1, <1>5, ClearKeeps DEF TypeOK
<1> QED
  BY <1>4, <1>6, ReportStep

(* Every step of separate polls keeps what they have reported.             *)
LEMMA ReportedStep ==
  ASSUME TypeOK, Separate, PolledOnce, ReportedStays, [Next]_vars
  PROVE  PolledOnce' /\ ReportedStays'
<1>1. IsLog(dataList)
  BY DEF TypeOK
<1>2. CASE \E p \in Poller, h \in Host : PollClear(p, h)
  BY <1>2, ClearReports
<1>3. CASE \E p \in Poller : PollStep(p)
  <2>1. PICK p \in DOMAIN poll : PollStep(p)
    BY <1>3 DEF PollStep
  <2>2. CASE PollDiscard(p)
    <3>1. /\ dataList' = discardMySQLDead(dataList, {poll[p].host})
          /\ poll' = [q \in DOMAIN poll \ {p} |-> poll[q]]
          /\ UNCHANGED <<purge, active>>
      BY <2>2 DEF PollDiscard, settings
    <3>2. ASSUME NEW g PROVE Keeps(g)
      <4>1. PICK hosts : dataList' = discardMySQLDead(dataList, hosts)
        BY <3>1
      <4> QED
        BY <4>1, DiscardKeeps
    <3> QED
      BY <3>1, <3>2, FewerReports
  <2> QED
    BY <2>1, <2>2, MiddleReports DEF PollStep
<1>4. CASE RefreshSweep
  <2>1. ASSUME NEW g PROVE Keeps(g)
    <3>1. PICK log, hosts : log = Swept /\ dataList' = discardMySQLDead(log, hosts)
      BY <1>4 DEF RefreshSweep
    <3>2. /\ DOMAIN log = DOMAIN dataList
          /\ \A e \in DOMAIN dataList : /\ log[e].host = dataList[e].host
                                       /\ log[e].pid = dataList[e].pid
                                       /\ log[e].updated = dataList[e].updated
      BY <1>1, <3>1, SweptLog
    <3> QED
      BY <3>1, <3>2, DiscardKeeps
  <2> QED
    BY <1>4, <2>1, FewerReports DEF RefreshSweep, settings
<1>5. CASE \E h \in Host : PurgeStep(h)
  <2>1. PICK h \in Host : PurgeStep(h)
    BY <1>5
  <2>2. CASE PurgeClear(h)
    BY <1>1, <2>2, PurgeClearReports
  <2>3. CASE PurgeDiscard(h)
    <3>1. ASSUME NEW g PROVE Keeps(g)
      <4>1. PICK hosts : dataList' = discardMySQLDead(dataList, hosts)
        BY <2>3 DEF PurgeDiscard
      <4> QED
        BY <4>1, DiscardKeeps
    <3>2. \A g \in Host : purge'[g] # "none" => purge[g] # "none"
      BY <2>3 DEF PurgeDiscard, TypeOK
    <3> QED
      BY <2>3, <3>1, <3>2, FewerReports DEF PurgeDiscard, settings
  <2> QED
    BY <2>1, <2>2, <2>3 DEF PurgeStep
<1>6. CASE \E e \in DOMAIN dataList : Expire(e)
  <2>1. PICK e \in DOMAIN dataList : Expire(e)
    BY <1>6
  <2>2. ASSUME NEW x \in DOMAIN dataList
        PROVE  /\ x \in DOMAIN dataList'
               /\ dataList'[x].host = dataList[x].host
               /\ dataList'[x].pid = dataList[x].pid
               /\ dataList'[x].updated = dataList[x].updated
    <3>1. dataList[x] \in LogEntry
      BY <1>1 DEF IsLog
    <3> QED
      BY <2>1, <3>1 DEF Expire, LogEntry
  <2>3. ASSUME NEW g PROVE Keeps(g)
    BY <2>2 DEF Keeps
  <2> QED
    BY <2>1, <2>3, FewerReports DEF Expire, settings
<1>7. CASE UserStep
  <2>1. CASE \E setting \in [Host -> BOOLEAN] : Edit(setting)
    BY <2>1 DEF Edit, Separate
  <2>4. CASE \E hosts \in SUBSET Host : Reload(hosts)
    <3>1. PICK hosts \in SUBSET Host : Reload(hosts)
      BY <2>4
    <3>2. \A g \in Host : purge'[g] # "none" => ~active[g]
      BY <3>1 DEF Reload
    <3>3. PolledOnce'
      BY <3>1, <3>2 DEF Reload, PolledOnce, settings
    <3>4. ReportedStays'
      BY <3>1 DEF Reload, ReportedStays, Applied
    <3> QED
      BY <3>3, <3>4
  <2>2. CASE \E e \in DOMAIN dataList : Dismiss(e)
    <3>1. PICK e \in DOMAIN dataList : Dismiss(e)
      BY <2>2
    <3>2. dataList[e].pid \notin Subject
      BY <3>1, PidAssumption DEF Dismiss, Subject
    <3>3. ASSUME NEW g PROVE Keeps(g)
      BY <3>1, <3>2 DEF Dismiss, Keeps
    <3> QED
      BY <3>1, <3>3, FewerReports DEF Dismiss, settings
  <2>3. CASE ToggleTrack \/ detectChangedSlider
    <3>1. /\ UNCHANGED <<dataList, poll, purge, active>>
      BY <2>3 DEF ToggleTrack, detectChangedSlider
    <3> QED
      BY <3>1, SameLogKeeps, FewerReports
  <2> QED
    BY <1>7, <2>1, <2>2, <2>3, <2>4 DEF UserStep
<1>8. CASE ServerStep \/ UNCHANGED vars
  <2>1. UNCHANGED <<dataList, poll, purge, active>>
    BY <1>8 DEF ServerStep, Reports, Connectivity, vars, settings, servers
  <2> QED
    BY <2>1, SameLogKeeps, FewerReports
<1> QED
  BY <1>2, <1>3, <1>4, <1>5, <1>6, <1>7, <1>8 DEF Next

(* As long as hostnames differ, only active hosts are polled, none twice   *)
(* at a time, and the configuration stays as it is, a poll never discards  *)
(* what it has just reported, and no other poll, sweep, purge or click of  *)
(* the user takes it away.                                                 *)
THEOREM ReportsStay == Separate => (Spec => []ReportedStays)
<1>1. Init /\ Separate => PolledOnce /\ ReportedStays
  BY DEF Init, PolledOnce, ReportedStays
<1>2. TypeOK /\ Separate /\ PolledOnce /\ ReportedStays /\ [Next]_vars
        => PolledOnce' /\ ReportedStays'
  BY ReportedStep
<1>3. Separate => []Separate
  BY DEF Separate, SameName
<1> QED
  BY <1>1, <1>2, <1>3, TypeCorrect, PTL DEF Spec
=============================================================================
