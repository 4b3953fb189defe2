--------------------------- MODULE ProcessLogProofs ---------------------------
(***************************************************************************)
(* EventLog implements ProcessLog, for every set of hosts, processes, polls*)
(* and entries, and with polls that start late and overlap.                *)
(*                                                                         *)
(* The methods that rewrite the log are mapped one by one: clearUpdates to *)
(* nothing, UpdateEntry to Show or Meet, discardMySQLDead to Prune.        *)
(***************************************************************************)
EXTENDS EventLogProofs

(* What the log shows of an entry.                                         *)
LEMMA ShownRow ==
  /\ DOMAIN shown = DOMAIN dataList
  /\ \A e \in DOMAIN dataList :
       /\ shown[e].name = NameOf[dataList[e].host]
       /\ shown[e].process = dataList[e].pid
       /\ shown[e].held = Held(e)
       /\ Held(e) \in BOOLEAN
       /\ TypeOK => shown[e] \in Entries!Shown
<1>1. ASSUME NEW e \in DOMAIN dataList, TypeOK
      PROVE  shown[e] \in Entries!Shown
  <2>1. dataList[e].host \in Host
    BY <1>1 DEF TypeOK, IsLog, LogEntry
  <2>2. dataList[e].pid \in Pid \cup {LagPid, FailPid, DeadPid}
    BY <1>1 DEF TypeOK, IsLog, LogEntry
  <2>3. NameOf[dataList[e].host] \in Name
    BY <2>1, NameAssumption
  <2> QED
    BY <2>2, <2>3 DEF shown, Held, Entries!Shown
<1> QED
  BY <1>1 DEF shown, Held

(* A step that keeps hosts, processes and deadlines shows nothing new.     *)
LEMMA SameShown ==
  ASSUME UNCHANGED <<active, infinite>>,
         DOMAIN dataList' = DOMAIN dataList,
         \A e \in DOMAIN dataList :
           /\ dataList'[e].host = dataList[e].host
           /\ dataList'[e].pid = dataList[e].pid
           /\ dataList'[e].timeout = dataList[e].timeout
  PROVE  shown' = shown
  BY DEF shown, Held

(* So does a step that leaves the log and the settings alone.              *)
LEMMA NothingShown ==
  ASSUME UNCHANGED <<dataList, settings>>
  PROVE  UNCHANGED Entries!vars
<1>1. UNCHANGED <<active, track, infinite>>
  BY DEF settings
<1>2. shown' = shown
  BY <1>1, SameShown
<1> QED
  BY <1>1, <1>2 DEF Entries!vars

(* Clearing the marks shows nothing new.                                   *)
LEMMA ClearShows ==
  ASSUME TypeOK, NEW h, dataList' = clearUpdates(h),
         UNCHANGED <<active, infinite>>
  PROVE  shown' = shown
<1>1. DOMAIN dataList' = DOMAIN dataList
  BY DEF clearUpdates
<1>2. ASSUME NEW e \in DOMAIN dataList
      PROVE  /\ dataList'[e].host = dataList[e].host
             /\ dataList'[e].pid = dataList[e].pid
             /\ dataList'[e].timeout = dataList[e].timeout
  <2>1. dataList[e] \in LogEntry
    BY DEF TypeOK, IsLog
  <2>2. \/ dataList'[e] = dataList[e]
        \/ dataList'[e] = [dataList[e] EXCEPT !.updated = FALSE]
    BY DEF clearUpdates
  <2> QED
    BY <2>1, <2>2 DEF LogEntry
<1> QED
  BY <1>1, <1>2, SameShown

-----------------------------------------------------------------------------
(* Entries that come, and entries that are met again.                      *)

(* A poll's update gives a process its one entry, or meets it there.       *)
LEMMA UpdateShows ==
  ASSUME TypeOK, NEW h \in Host, NEW pid \in Pid \cup {LagPid, FailPid},
         NEW level \in Level, pid = FailPid => level = "slow",
         UpdateEntry(h, pid, level), UNCHANGED settings
  PROVE  Entries!Next
<1> DEFINE found == Matching(h, pid)
           own == IF found = {} THEN FreeEntry ELSE CHOOSE e \in found : TRUE
           entry == IF found = {} THEN NewEntry(h, pid) ELSE dataList[own]
           new == [entry EXCEPT !.updated = TRUE,
                                !.timeout = NextTimeout(entry, level)]
<1>1. dataList' = [e \in DOMAIN dataList \cup {own} |->
                     IF e = own THEN new ELSE dataList[e]]
  BY DEF UpdateEntry
<1>2. pid # DeadPid
  BY PidAssumption
<1>3. UNCHANGED <<active, track, infinite>>
  BY DEF settings
<1>4. IsLog(dataList')
  BY UpdatedLog DEF TypeOK, Evolves
<1>5. CASE found = {}
  <2>1. own \in Entry /\ own \notin DOMAIN dataList
    BY <1>5 DEF UpdateEntry, FreeEntry
  <2>2. entry = NewEntry(h, pid)
    BY <1>5
  <2>3. new.host = h /\ new.pid = pid
    BY <2>2 DEF NewEntry
  <2>4. \A f \in DOMAIN dataList :
          ~(NameOf[dataList[f].host] = NameOf[h] /\ dataList[f].pid = pid)
    BY <1>5 DEF Matching, SameName
  <2> HIDE DEF own, new
  <2>5. /\ DOMAIN dataList' = DOMAIN dataList \cup {own}
        /\ dataList'[own] = new
        /\ \A f \in DOMAIN dataList : dataList'[f] = dataList[f]
    BY <1>1, <2>1
  <2>6. shown'[own] \in Entries!Shown
    BY <1>4, <2>3, <2>5, NameAssumption DEF shown, Held, Entries!Shown
  <2>7. Entries!Show(own, shown'[own])
    BY <1>2, <1>3, <2>1, <2>3, <2>4, <2>5 DEF Entries!Show, shown, Held
  <2> QED
    BY <2>1, <2>6, <2>7 DEF Entries!Next
<1>6. CASE found # {}
  <2>1. PICK e \in found : e = own
    BY <1>6
  <2>2. e \in DOMAIN dataList /\ dataList[e].pid = pid
    BY <2>1 DEF Matching
  <2>3. entry = dataList[e]
    BY <1>6, <2>1
  <2>4. dataList[e] \in LogEntry
    BY <2>2 DEF TypeOK, IsLog
  <2>5. new.host = dataList[e].host /\ new.pid = pid
    BY <2>2, <2>3, <2>4 DEF LogEntry
  <2> HIDE DEF own, new
  <2>6. /\ DOMAIN dataList' = DOMAIN dataList
        /\ dataList'[e] = new
        /\ \A f \in DOMAIN dataList \ {e} : dataList'[f] = dataList[f]
    BY <1>1, <2>1, <2>2
  <2>7. Entries!Meet(e, Held(e)')
    BY <1>2, <1>3, <2>2, <2>5, <2>6 DEF Entries!Meet, shown, Held
  <2>8. e \in DOMAIN shown /\ Held(e)' \in BOOLEAN
    BY <2>2 DEF shown, Held
  <2> QED
    BY <2>7, <2>8 DEF Entries!Next
<1> QED
  BY <1>5, <1>6

-----------------------------------------------------------------------------
(* Entries that go.                                                        *)

(* What a pruned log may look like.                                        *)
LEMMA PruneShows ==
  ASSUME UNCHANGED settings,
         DOMAIN dataList' \subseteq DOMAIN dataList,
         \A e \in DOMAIN dataList' :
           /\ dataList'[e].host = dataList[e].host
           /\ \/ dataList'[e].pid = dataList[e].pid
              \/ dataList'[e].pid = DeadPid /\ track
           /\ Held(e)' = Held(e),
         \A e \in DOMAIN dataList \ DOMAIN dataList' : ~(track /\ Held(e))
  PROVE  Entries!Next
<1> DEFINE dying ==
             {e \in DOMAIN dataList' : dataList'[e].pid # dataList[e].pid}
<1>1. dying # {} => track
  OBVIOUS
<1>2. shown' = [e \in DOMAIN dataList' |->
                  IF e \in dying THEN [shown[e] EXCEPT !.process = DeadPid]
                                 ELSE shown[e]]
  BY DEF shown
<1>3. Entries!Prune(DOMAIN dataList', dying)
  BY <1>1, <1>2 DEF Entries!Prune, shown, settings
<1>4. /\ DOMAIN dataList' \in SUBSET DOMAIN shown
      /\ dying \in SUBSET DOMAIN shown
  BY DEF shown
<1> QED
  BY <1>3, <1>4 DEF Entries!Next

(* A poll or a purge that discards prunes the log.                         *)
LEMMA DiscardShows ==
  ASSUME TypeOK, NEW hosts, dataList' = discardMySQLDead(dataList, hosts),
         UNCHANGED settings
  PROVE  Entries!Next
<1>1. /\ DOMAIN dataList' \subseteq DOMAIN dataList
      /\ \A e \in DOMAIN dataList' :
           /\ dataList'[e].host = dataList[e].host
           /\ dataList'[e].timeout = dataList[e].timeout
           /\ \/ dataList'[e] = dataList[e]
              \/ dataList'[e].pid = DeadPid /\ track
      /\ \A e \in DOMAIN dataList \ DOMAIN dataList' :
           dataList[e].timeout = "nil" \/ ~track
  BY DiscardedLog DEF TypeOK
<1>2. \A e \in DOMAIN dataList' : Held(e)' = Held(e)
  BY <1>1 DEF Held, settings
<1>3. \A e \in DOMAIN dataList \ DOMAIN dataList' : ~(track /\ Held(e))
  BY <1>1 DEF Held
<1> QED
  BY <1>1, <1>2, <1>3, PruneShows

(* So does a sweep: the deadlines it takes away hold nothing.              *)
LEMMA SweepShows ==
  ASSUME TypeOK, RefreshSweep
  PROVE  Entries!Next
<1> DEFINE swept == Swept
<1>1. /\ IsLog(swept)
      /\ DOMAIN swept = DOMAIN dataList
      /\ \A e \in DOMAIN dataList :
           /\ swept[e].host = dataList[e].host
           /\ swept[e].pid = dataList[e].pid
           /\ swept[e].timeout \in {dataList[e].timeout, "nil"}
           /\ \/ swept[e].timeout = dataList[e].timeout
              \/ ~active[dataList[e].host]
              \/ dataList[e].timeout = "passed" /\ ~infinite
  BY SweptLog DEF TypeOK
<1>2. /\ dataList' = discardMySQLDead(swept, Inactive(dataList))
      /\ UNCHANGED settings
  BY DEF RefreshSweep
<1> HIDE DEF swept
<1>3. /\ DOMAIN dataList' \subseteq DOMAIN swept
      /\ \A e \in DOMAIN dataList' :
           /\ dataList'[e].host = swept[e].host
           /\ dataList'[e].timeout = swept[e].timeout
           /\ \/ dataList'[e] = swept[e]
              \/ dataList'[e].pid = DeadPid /\ track
      /\ \A e \in DOMAIN swept \ DOMAIN dataList' :
           swept[e].timeout = "nil" \/ ~track
  BY <1>1, <1>2, DiscardedLog
<1>4. \A e \in DOMAIN dataList' : Held(e)' = Held(e)
  BY <1>1, <1>2, <1>3 DEF Held, settings
<1>5. \A e \in DOMAIN dataList \ DOMAIN dataList' : ~(track /\ Held(e))
  BY <1>1, <1>3 DEF Held
<1> QED
  BY <1>1, <1>2, <1>3, <1>4, <1>5, PruneShows

(* A deadline that passes releases an entry, unless it counts for nothing. *)
LEMMA ExpireShows ==
  ASSUME TypeOK, NEW e \in DOMAIN dataList, Expire(e)
  PROVE  [Entries!Next]_Entries!vars
<1>1. dataList[e] \in LogEntry
  BY DEF TypeOK, IsLog
<1>2. /\ DOMAIN dataList' = DOMAIN dataList
      /\ \A x \in DOMAIN dataList :
           /\ dataList'[x].host = dataList[x].host
           /\ dataList'[x].pid = dataList[x].pid
           /\ x # e => dataList'[x] = dataList[x]
      /\ dataList'[e].timeout = "passed"
      /\ UNCHANGED <<active, track, infinite>>
  BY <1>1 DEF Expire, LogEntry, settings
<1>3. Held(e)' = Held(e) \/ Held(e)' = FALSE
  BY <1>2 DEF Held, Expire
<1>4. CASE Held(e)' = Held(e)
  <2>1. shown' = shown
    BY <1>2, <1>4 DEF shown, Held
  <2> QED
    BY <1>2, <2>1 DEF Entries!vars
<1>5. CASE Held(e)' = FALSE
  <2>1. Entries!Release(e)
    BY <1>2, <1>5 DEF Entries!Release, shown, Held
  <2> QED
    BY <2>1 DEF Entries!Next, shown
<1> QED
  BY <1>3, <1>4, <1>5

-----------------------------------------------------------------------------
(* The user.                                                               *)

(* A user who removes an entry, edits the hosts or moves the controls does *)
(* what ProcessLog lets him.                                               *)
LEMMA UserShows ==
  ASSUME TypeOK, UserStep
  PROVE  [Entries!Next]_Entries!vars
<1>1. CASE \E e \in DOMAIN dataList : Dismiss(e)
  <2>1. PICK e \in DOMAIN dataList : Dismiss(e)
    BY <1>1
  <2>2. Entries!Dismiss(e)
    BY <2>1 DEF Dismiss, Entries!Dismiss, shown, Held, settings
  <2> QED
    BY <2>2 DEF Entries!Next, shown
<1>2. CASE \/ detectChangedSlider
           \/ \E setting \in [Host -> BOOLEAN] : Edit(setting)
  <2> DEFINE held == [e \in DOMAIN dataList |-> Held(e)']
  <2>1. UNCHANGED <<dataList, track>>
    BY <1>2 DEF detectChangedSlider, Edit
  <2>2. Entries!Rehold(held)
    BY <2>1 DEF Entries!Rehold, shown, Held
  <2>3. held \in [DOMAIN shown -> BOOLEAN]
    BY DEF shown, Held
  <2> QED
    BY <2>2, <2>3 DEF Entries!Next
<1>3. CASE ToggleTrack
  <2>1. Entries!Toggle
    BY <1>3 DEF ToggleTrack, Entries!Toggle, shown, Held
  <2> QED
    BY <2>1 DEF Entries!Next
<1>4. CASE \E hosts \in SUBSET Host : Reload(hosts)
  BY <1>4, NothingShown DEF Reload
<1> QED
  BY <1>1, <1>2, <1>3, <1>4 DEF UserStep

-----------------------------------------------------------------------------
(* A poll does with the log what ProcessLog lets be done.                  *)
LEMMA PollShows ==
  ASSUME TypeOK, NEW p \in Poller, PollStep(p)
  PROVE  [Entries!Next]_Entries!vars
<1>1. p \in DOMAIN poll /\ poll[p] \in Poll
  BY DEF TypeOK, PollStep
<1>2. /\ poll[p].host \in Host
      /\ \A s \in Subject : poll[p].seen[s] \in Level
  BY <1>1 DEF Poll
<1>3. CASE PollConnect(p) \/ PollFetch(p) \/ PollRowsDone(p) \/ PollSlave(p)
  BY <1>3, NothingShown DEF PollConnect, PollFetch, PollRowsDone, PollSlave
<1>4. ASSUME NEW pid \in Pid, PollRow(p, pid)
      PROVE  Entries!Next
  <2>1. pid # FailPid /\ pid \in Subject
    BY PidAssumption DEF Subject
  <2> QED
    BY <1>2, <1>4, <2>1, UpdateShows DEF PollRow
<1>5. CASE PollLag(p)
  <2>1. LagPid # FailPid /\ LagPid \in Subject
    BY PidAssumption DEF Subject
  <2> QED
    BY <1>2, <1>5, <2>1, UpdateShows DEF PollLag
<1>6. CASE PollFail(p)
  <2>1. "slow" \in Level
    BY DEF Level
  <2> QED
    BY <1>2, <1>6, <2>1, UpdateShows DEF PollFail
<1>7. CASE PollDiscard(p)
  BY <1>7, DiscardShows DEF PollDiscard
<1> QED
  BY <1>3, <1>4, <1>5, <1>6, <1>7 DEF PollStep

(* Every step of the log is one of ProcessLog or shows nothing new.        *)
LEMMA EntriesStep ==
  ASSUME TypeOK, [Next]_vars
  PROVE  [Entries!Next]_Entries!vars
<1>1. CASE \/ \E p \in Poller, h \in Host : PollClear(p, h)
           \/ \E h \in Host : PurgeClear(h)
  <2>1. PICK h \in Host : dataList' = clearUpdates(h)
    BY <1>1 DEF PollClear, PurgeClear
  <2>2. UNCHANGED <<active, track, infinite>>
    BY <1>1 DEF PollClear, PurgeClear, settings
  <2> QED
    BY <2>1, <2>2, ClearShows DEF Entries!vars
<1>2. CASE \E p \in Poller : PollStep(p)
  BY <1>2, PollShows
<1>3. CASE RefreshSweep
  BY <1>3, SweepShows
<1>4. CASE \E h \in Host : PurgeDiscard(h)
  BY <1>4, DiscardShows DEF PurgeDiscard
<1>5. CASE \E e \in DOMAIN dataList : Expire(e)
  BY <1>5, ExpireShows
<1>6. CASE UserStep
  BY <1>6, UserShows
<1>7. CASE ServerStep \/ UNCHANGED vars
  BY <1>7, NothingShown DEF ServerStep, Reports, Connectivity, vars
<1> QED
  BY <1>1, <1>2, <1>3, <1>4, <1>5, <1>6, <1>7 DEF Next, PurgeStep

(* EventLog implements ProcessLog: however polls, sweeps and purges fall   *)
(* together, a process has one entry, an entry that is held under tracking *)
(* is not lost, and a Dead Process is not met again.                       *)
THEOREM EntriesImplemented == Spec => ImplementsEntries
<1>1. Init => Entries!Init
  BY DEF Init, Entries!Init, shown
<1> QED
  BY <1>1, EntriesStep, TypeCorrect, PTL
     DEF Spec, ImplementsEntries, Entries!Spec
=============================================================================
