-------------------------------- MODULE LogView --------------------------------
(***************************************************************************)
(* The table of the log view: which entry the user has chosen, what the    *)
(* details pane shows of it, and which process the kill button would kill. *)
(*                                                                         *)
(* The table knows its selection by row, the document the chosen entry by  *)
(* identity (currentLogEntry); polls and refreshes move entries to other   *)
(* rows.  Polls, refreshes, the main thread's blocks and the user's events *)
(* interleave; each is one critical section under @synchronized(dataList). *)
(* Which entries a poll adds, renames and drops is left open: EventLog     *)
(* decides that.                                                           *)
(*                                                                         *)
(* A definition named ...Slip is the one after it as a mistake in the code *)
(* would have made it: TLC refutes a property once it takes its place.     *)
(***************************************************************************)
EXTENDS Naturals, Sequences, FiniteSets

CONSTANTS
  Entry,      \* where the log entries are in memory
  Nil,        \* no entry
  Pid,        \* the ids of the processes that servers report
  LagPid,     \* "-1", the id of an entry on replication lag
  FailPid,    \* "-2", the id of an entry on a failed connection
  DeadPid,    \* "Dead Process"
  Reported,   \* what polls report: a bound on the entries they add
  MaxPosted   \* bound on the blocks for the details pane that wait

ASSUME EntryAssumption == IsFiniteSet(Entry) /\ Nil \notin Entry
ASSUME PidAssumption ==
  /\ {LagPid, FailPid, DeadPid} \cap Pid = {}
  /\ LagPid # FailPid /\ FailPid # DeadPid /\ DeadPid # LagPid
  /\ Reported \subseteq Pid \cup {LagPid, FailPid}
ASSUME PostedAssumption == MaxPosted \in Nat \ {0}

VARIABLES
  dataList,        \* the log: a sequence of entries
  processID,       \* what each entry is about
  selectedRow,     \* the row selected in logView, or 0
  numberOfRows,    \* how long the log was when logView last reloaded
  currentLogEntry, \* the entry the user chose, or Nil
  sorted,          \* whether the user has chosen a column to sort by
  display,         \* the view in mainDisplay
  mainQueue,       \* the blocks posted to the main queue, oldest first
  details,         \* what the details pane shows
  alert            \* the sheet that asks whether to kill, or NoAlert

selection == <<selectedRow, currentLogEntry>>
vars == <<dataList, processID, selection, numberOfRows, sorted, display,
          mainQueue, details, alert>>

ProcessID == Pid \cup {LagPid, FailPid, DeadPid}

(* Blocks that fill in the panes, and the one that asks whether to kill.   *)
StatusKind == {"statusNone", "statusSlave"}
Block == {block \in [kind  : {"none", "query", "slave", "alert"} \cup StatusKind,
                     entry : Entry \cup {Nil}] :
            block.kind \in {"none"} \cup StatusKind <=> block.entry = Nil}
NoAlert == [named |-> DeadPid, context |-> Nil]

(* A pane is blank when the status view has taken its content away, and of *)
(* no entry when it shows the replication of a host of the status view.    *)
Pane == [view : {"none", "query", "slave", "blank"}, entry : Entry \cup {Nil}]

MaxRows == Cardinality(Entry)
Rows(log) == {log[i] : i \in DOMAIN log}

(* A log holds an entry at most once.                                      *)
Log == {log \in UNION {[1 .. n -> Entry] : n \in 0 .. MaxRows} :
          \A i, j \in DOMAIN log : log[i] = log[j] => i = j}

TypeOK ==
  /\ dataList \in Log
  /\ processID \in [Entry -> ProcessID]
  /\ selectedRow \in 0 .. MaxRows
  /\ numberOfRows \in 0 .. MaxRows
  /\ currentLogEntry \in Entry \cup {Nil}
  /\ sorted \in BOOLEAN
  /\ display \in {"log", "status"}
  /\ mainQueue \in Seq(Block)
  /\ details \in Pane
  /\ alert \in [named : ProcessID, context : Entry \cup {Nil}]

-----------------------------------------------------------------------------
(* The log and the table.                                                  *)

EntryAt(log, row) == IF row \in DOMAIN log THEN log[row] ELSE Nil
RowOf(log, e) == CHOOSE i \in DOMAIN log : log[i] = e

(* What is left of the log when some entries go: in any order once it is   *)
(* sorted, as the keys of the entries change, and in its order before.     *)
Sortings(s) == {log \in Log : Rows(log) = s}
Without(gone) ==
  {log \in Sortings(Rows(dataList) \ gone) :
     \A i, j \in DOMAIN log :
       i < j => RowOf(dataList, log[i]) < RowOf(dataList, log[j])}

(* selectRowIndexes notifies the document only of a change.                *)
Select(row, log) ==
  /\ selectedRow' = row
  /\ currentLogEntry' = IF row # selectedRow THEN EntryAt(log, row)
                        ELSE currentLogEntry

(* The entries that something refers to: an alert does not retain its own. *)
Retained ==
  Rows(dataList) \cup {currentLogEntry} \cup {mainQueue[i].entry : i \in DOMAIN mainQueue}

(* Dropped entries go, renamed ones become Dead Processes.                 *)
Renamed(dead) ==
  [e \in Entry |-> IF e \in dead THEN DeadPid ELSE processID[e]]

Init ==
  /\ dataList = <<>>
  /\ processID = [e \in Entry |-> DeadPid]
  /\ selectedRow = 0
  /\ numberOfRows = 0
  /\ currentLogEntry = Nil
  /\ sorted = FALSE
  /\ display = "log"
  /\ mainQueue = <<>>
  /\ details = [view |-> "none", entry |-> Nil]
  /\ alert = NoAlert

-----------------------------------------------------------------------------
(* The polls.                                                              *)

AddEntrySlip(e, p) ==
  /\ p \in Pid => \A x \in Rows(dataList) : processID[x] # p
  /\ dataList' = Append(dataList, e)
  /\ processID' = [processID EXCEPT ![e] = p]
  /\ UNCHANGED <<selection, numberOfRows, sorted, display, mainQueue,
                 details, alert>>

(* A new entry comes last, in memory that is free.                         *)
AddEntry(e, p) ==
  /\ e \notin Retained
  /\ p \in Pid => \A x \in Rows(dataList) : processID[x] # p
  /\ dataList' = Append(dataList, e)
  /\ processID' = [processID EXCEPT ![e] = p]
  /\ UNCHANGED <<selection, numberOfRows, sorted, display, mainQueue,
                 details, alert>>

(* A failed connection has no deadline, so its entry is never renamed.     *)
Stale == [gone : SUBSET Rows(dataList),
          dead : SUBSET {e \in Rows(dataList) : processID[e] # FailPid}]

Discard(stale) ==
  /\ stale.gone \cup stale.dead # {}
  /\ dataList' \in Without(stale.gone)
  /\ processID' = Renamed(stale.dead)
  /\ UNCHANGED <<selection, numberOfRows, sorted, display, mainQueue,
                 details, alert>>

PollStep ==
  \/ \E e \in Entry, p \in Reported : AddEntry(e, p)
  \/ \E stale \in Stale : Discard(stale)

-----------------------------------------------------------------------------
(* The refresh.                                                            *)

ChosenSlip == EntryAt(dataList, selectedRow)

(* The entry it takes for selected: the one the user chose, if it is still *)
(* in the log or the selected row still holds it.                          *)
Chosen ==
  IF \/ EntryAt(dataList, selectedRow) = currentLogEntry
     \/ currentLogEntry \in Rows(dataList)
    THEN currentLogEntry
    ELSE Nil

(* The row it selects first, the log being as it finds it.                 *)
ChosenRow ==
  IF EntryAt(dataList, selectedRow) = currentLogEntry THEN selectedRow
  ELSE IF currentLogEntry \in Rows(dataList) THEN RowOf(dataList, currentLogEntry)
  ELSE 0

PaneBlocksSlip ==
  IF display # "log" \/ ChosenRow = selectedRow \/ Chosen = Nil THEN <<>>
  ELSE IF processID'[Chosen] = LagPid THEN <<[kind |-> "slave", entry |-> Chosen]>>
  ELSE <<[kind |-> "query", entry |-> Chosen]>>

(* The block it posts for the details pane.                                *)
PaneBlocks ==
  IF display # "log" THEN <<>>
  ELSE IF ChosenRow = 0 THEN <<[kind |-> "none", entry |-> Nil]>>
  ELSE IF Chosen = Nil THEN <<>>
  ELSE IF processID'[Chosen] = LagPid THEN <<[kind |-> "slave", entry |-> Chosen]>>
  ELSE <<[kind |-> "query", entry |-> Chosen]>>

SelectChosenSlip ==
  /\ selectedRow' = ChosenRow
  /\ currentLogEntry' = Chosen

(* The row it selects at last.  If the sweep has dropped the entry it asks *)
(* for the selection of nil, which leaves no row or the same row selected. *)
SelectChosen ==
  LET deselected == IF ChosenRow # selectedRow THEN Nil ELSE currentLogEntry
  IN  IF Chosen = Nil
        THEN /\ selectedRow' = ChosenRow
             /\ currentLogEntry' = deselected
      ELSE IF Chosen \in Rows(dataList')
        THEN /\ selectedRow' = RowOf(dataList', Chosen)
             /\ currentLogEntry' = Chosen
      ELSE \/ selectedRow' = 0 /\ currentLogEntry' = Nil
           \/ selectedRow' = ChosenRow /\ currentLogEntry' = Chosen

PendingPanes == {i \in DOMAIN mainQueue : mainQueue[i].kind # "alert"}

Refresh(stale) ==
  /\ Cardinality(PendingPanes) < MaxPosted
  /\ processID' = Renamed(stale.dead)
  /\ IF sorted THEN dataList' \in Sortings(Rows(dataList) \ stale.gone)
               ELSE dataList' \in Without(stale.gone)
  /\ SelectChosen
  /\ mainQueue' = mainQueue \o PaneBlocks
  /\ UNCHANGED <<numberOfRows, sorted, display, details, alert>>

RefreshStep == \E stale \in Stale : Refresh(stale)

(* Then, if the status view is displayed, the block for its own pane: with *)
(* replication if the host selected there is a slave.                      *)
RefreshStatus ==
  /\ display = "status"
  /\ Cardinality(PendingPanes) < MaxPosted
  /\ \E kind \in StatusKind :
       mainQueue' = Append(mainQueue, [kind |-> kind, entry |-> Nil])
  /\ UNCHANGED <<dataList, processID, selection, numberOfRows, sorted, display,
                 details, alert>>

-----------------------------------------------------------------------------
(* The blocks on the main queue.                                           *)

(* The view for replication is moved to the pane of the display: whose, is *)
(* only seen when the block runs.                                          *)
ShowSlave(e) ==
  details' = IF display = "log" THEN [view |-> "slave", entry |-> e]
             ELSE IF details.view = "slave" THEN [view |-> "blank", entry |-> Nil]
             ELSE details

(* There is one empty view as well, which the status pane takes for itself.*)
ClearStatus ==
  details' = IF details.view = "none" THEN [view |-> "blank", entry |-> Nil]
             ELSE details

(* The alert reads the selected row once more; with no such row there is   *)
(* an exception and no alert.                                              *)
ShowAlert(e) ==
  LET context == EntryAt(dataList, selectedRow)
  IN  alert' = IF context = Nil THEN NoAlert
               ELSE [named |-> processID[e], context |-> context]

RunBlock ==
  /\ mainQueue # <<>>
  /\ LET block == Head(mainQueue)
     IN  \/ /\ block.kind = "none"
            /\ details' = [view |-> "none", entry |-> Nil]
            /\ UNCHANGED alert
         \/ /\ block.kind = "query"
            /\ details' = [view |-> "query", entry |-> block.entry]
            /\ UNCHANGED alert
         \/ /\ block.kind \in {"slave", "statusSlave"}
            /\ ShowSlave(block.entry)
            /\ UNCHANGED alert
         \/ /\ block.kind = "statusNone"
            /\ ClearStatus
            /\ UNCHANGED alert
         \/ /\ block.kind = "alert"
            /\ ShowAlert(block.entry)
            /\ UNCHANGED details
  /\ mainQueue' = Tail(mainQueue)
  /\ UNCHANGED <<dataList, processID, selection, numberOfRows, sorted, display>>

(* logView asks for the number of rows, and gives up a selection beyond.   *)
(* Every refresh asks for a reload: whether one is pending is left open.   *)
ReloadData ==
  /\ numberOfRows' = Len(dataList)
  /\ Select(IF selectedRow > Len(dataList) THEN 0 ELSE selectedRow, dataList)
  /\ UNCHANGED <<dataList, processID, sorted, display, mainQueue, details, alert>>

-----------------------------------------------------------------------------
(* The user's events, on the main thread.                                  *)

(* The rows on screen are those of the last reload.                        *)
Click(row) ==
  /\ display = "log"
  /\ alert = NoAlert
  /\ row # selectedRow
  /\ Select(row, dataList)
  /\ UNCHANGED <<dataList, processID, numberOfRows, sorted, display, mainQueue,
                 details, alert>>

(* The other table has the same delegate, which looks at logView's row.    *)
DetailSelectionDidChange ==
  /\ currentLogEntry' = EntryAt(dataList, selectedRow)
  /\ UNCHANGED <<dataList, processID, selectedRow, numberOfRows, sorted, display,
                 mainQueue, details, alert>>

(* A click on a column header sorts the log and selects what was in the    *)
(* selected row.                                                           *)
SortDescriptorsDidChange ==
  LET selectedEntry == EntryAt(dataList, selectedRow)
  IN  /\ display = "log"
      /\ alert = NoAlert
      /\ dataList' \in Sortings(Rows(dataList))
      /\ \/ /\ selectedEntry # Nil
            /\ Select(RowOf(dataList', selectedEntry), dataList')
         \/ /\ selectedEntry = Nil
            /\ UNCHANGED selection
      /\ sorted' = TRUE
      /\ UNCHANGED <<processID, numberOfRows, display, mainQueue, details, alert>>

DetectChangedView ==
  /\ alert = NoAlert
  /\ display' = IF display = "log" THEN "status" ELSE "log"
  /\ UNCHANGED <<dataList, processID, selection, numberOfRows, sorted, mainQueue,
                 details, alert>>

(* The button is enabled while the pane shows a query.  It removes what    *)
(* stands for no process; for a process it posts a block that will ask.    *)
(* The next click waits for the answer: the alert is modal to the window.  *)
KillProcess ==
  LET entry == EntryAt(dataList, selectedRow)
  IN  /\ display = "log"
      /\ details.view = "query"
      /\ alert = NoAlert
      /\ \A i \in DOMAIN mainQueue : mainQueue[i].kind # "alert"
      /\ entry # Nil
      /\ \/ /\ processID[entry] \in {FailPid, DeadPid}
            /\ dataList' \in Without({entry})
            /\ UNCHANGED mainQueue
         \/ /\ processID[entry] \in Pid
            /\ mainQueue' = Append(mainQueue, [kind |-> "alert", entry |-> entry])
            /\ UNCHANGED dataList
      /\ UNCHANGED <<processID, selection, numberOfRows, sorted, display,
                     details, alert>>

(* killEnded kills the process of its context, or nothing.                 *)
KillEnded ==
  /\ alert # NoAlert
  /\ alert' = NoAlert
  /\ UNCHANGED <<dataList, processID, selection, numberOfRows, sorted, display,
                 mainQueue, details>>

UserStep ==
  \/ \E row \in 0 .. numberOfRows : Click(row)
  \/ DetailSelectionDidChange
  \/ SortDescriptorsDidChange
  \/ DetectChangedView
  \/ KillProcess
  \/ KillEnded

-----------------------------------------------------------------------------
Next ==
  \/ PollStep
  \/ RefreshStep
  \/ RefreshStatus
  \/ RunBlock
  \/ ReloadData
  \/ UserStep

Spec == Init /\ [][Next]_vars

(* The refresh loop goes on (see WatchQueue), and the main thread runs its *)
(* blocks and reloads the table.                                           *)
Fairness == WF_vars(RefreshStep) /\ WF_vars(RunBlock) /\ WF_vars(ReloadData)

FairSpec == Spec /\ Fairness

-----------------------------------------------------------------------------
(* Safety.                                                                 *)

(* Only the user chooses: however polls, refreshes and reloads of the table*)
(* move the entries, none makes another entry the chosen one.              *)
OnlyUserChooses ==
  [][currentLogEntry' \in {currentLogEntry, Nil} \/ UserStep]_vars

(* A refresh keeps the choice while the chosen entry is in the log, and    *)
(* selects its row, wherever polls, its own sweep and sorting have moved   *)
(* it; and when polls have dropped it, or there is none, no entry's row.   *)
(* (An entry that the sweep itself drops may leave another in its row for  *)
(* the next refresh to deselect: DBMDocument.m:307.)                       *)
RefreshSelectsChoice ==
  [][RefreshStep =>
       /\ currentLogEntry \in Rows(dataList') =>
            /\ currentLogEntry' = currentLogEntry
            /\ EntryAt(dataList', selectedRow') = currentLogEntry
       /\ currentLogEntry \notin Rows(dataList) =>
            EntryAt(dataList', selectedRow') = Nil]_vars

(* As the help has it, the confirmation dialog lets the user check that    *)
(* this is the process to kill: a process that ending the alert would kill *)
(* is the one that it names.  Memory that was freed may hold anything.     *)
AlertNamesVictim ==
  LET victims == IF alert.context \in Retained THEN {processID[alert.context]}
                 ELSE ProcessID
  IN  alert # NoAlert => victims \cap Pid \subseteq {alert.named}

-----------------------------------------------------------------------------
(* Liveness, under FairSpec.                                               *)

Stays(e) ==
  /\ display = "log"
  /\ currentLogEntry = e
  /\ IF e = Nil THEN selectedRow = 0 ELSE e \in Rows(dataList)

ShowsChoice(e) ==
  details.entry = e /\ details.view \in IF e = Nil THEN {"none"} ELSE {"query", "slave"}

(* The details pane catches up with the choice, whatever older blocks had  *)
(* still to run, those for the status view included, which move its views  *)
(* (DBMDocument.m:271-292, 316-337).                                       *)
PaneCatchesUp ==
  \A e \in Entry \cup {Nil} : <>[]Stays(e) => <>[]ShowsChoice(e)
=============================================================================
