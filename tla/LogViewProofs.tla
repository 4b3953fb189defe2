---------------------------- MODULE LogViewProofs ----------------------------
(***************************************************************************)
(* Theorems about LogView, for any number of entries, processes and blocks.*)
(***************************************************************************)
EXTENDS LogView, FiniteSetTheorems, TLAPS

-----------------------------------------------------------------------------
(* The log and its rows.                                                   *)

(* A log has finitely many rows.                                           *)
LEMMA MaxRowsType == MaxRows \in Nat
  BY EntryAssumption, FS_CardinalityType DEF MaxRows

(* A log is a sequence of different entries.                               *)
LEMMA LogType ==
  ASSUME NEW log \in Log
  PROVE  /\ log \in Seq(Entry)
         /\ Len(log) \in 0 .. MaxRows
         /\ DOMAIN log = 1 .. Len(log)
         /\ log \in [DOMAIN log -> Rows(log)]
         /\ Rows(log) \subseteq Entry
         /\ \A i, j \in DOMAIN log : log[i] = log[j] => i = j
<1>1. PICK n \in 0 .. MaxRows : log \in [1 .. n -> Entry]
  BY DEF Log
<1>2. n \in Nat /\ log \in Seq(Entry)
  BY <1>1, MaxRowsType
<1>3. Len(log) = n
  BY <1>1, <1>2
<1> QED
  BY <1>1, <1>2, <1>3 DEF Log, Rows

(* An entry of the log is in the row that RowOf finds.                     *)
LEMMA RowOfEntry ==
  ASSUME NEW log \in Log, NEW e \in Rows(log)
  PROVE  /\ RowOf(log, e) \in DOMAIN log
         /\ RowOf(log, e) \in 0 .. MaxRows
         /\ log[RowOf(log, e)] = e
         /\ EntryAt(log, RowOf(log, e)) = e
<1>1. \E i \in DOMAIN log : log[i] = e
  BY DEF Rows
<1>2. RowOf(log, e) \in DOMAIN log /\ log[RowOf(log, e)] = e
  BY <1>1 DEF RowOf
<1> QED
  BY <1>2, LogType, MaxRowsType DEF EntryAt

(* A row holds an entry of the log, or none; row 0 holds none.             *)
LEMMA EntryAtRow ==
  ASSUME NEW log \in Log, NEW row
  PROVE  /\ EntryAt(log, row) \in Rows(log) \cup {Nil}
         /\ EntryAt(log, row) # Nil => row \in DOMAIN log
         /\ EntryAt(log, 0) = Nil
<1>1. 0 \notin DOMAIN log
  BY LogType
<1> QED
  BY <1>1 DEF EntryAt, Rows

(* An entry that is not in the log fits at its end: the others take up     *)
(* fewer places than there are.                                            *)
LEMMA AppendedLog ==
  ASSUME NEW log \in Log, NEW e \in Entry \ Rows(log)
  PROVE  Append(log, e) \in Log
<1> DEFINE n == Len(log)
           new == Append(log, e)
<1>1. /\ log \in Seq(Entry)
      /\ n \in 0 .. MaxRows
      /\ DOMAIN log = 1 .. n
      /\ Rows(log) \subseteq Entry
      /\ \A i, j \in DOMAIN log : log[i] = log[j] => i = j
      /\ n \in Nat
  BY LogType, MaxRowsType
<1>2. /\ new \in [1 .. n + 1 -> Entry]
      /\ \A i \in 1 .. n : new[i] = log[i] /\ log[i] \in Rows(log)
      /\ new[n + 1] = e
  <2>1. /\ new \in Seq(Entry)
        /\ Len(new) = n + 1
        /\ \A i \in 1 .. n : new[i] = log[i]
        /\ new[n + 1] = e
    BY <1>1
  <2>2. \A i \in 1 .. n : log[i] \in Rows(log)
    BY <1>1 DEF Rows
  <2>3. new \in [1 .. n + 1 -> Entry]
    <3> HIDE DEF new, n
    <3>1. new \in [1 .. Len(new) -> Entry]
      BY <2>1
    <3> QED
      BY <2>1, <3>1
  <2> QED
    BY <2>1, <2>2, <2>3
<1> HIDE DEF new
<1>3. \A i, j \in 1 .. n + 1 : new[i] = new[j] => i = j
  <2>1. \A i \in 1 .. n : new[i] # e
    BY <1>2
  <2>2. \A i \in 1 .. n + 1 : i \in 1 .. n \/ i = n + 1
    BY <1>1
  <2> HIDE DEF n
  <2> QED
    BY <1>1, <1>2, <2>1, <2>2
<1>4. n + 1 \in 0 .. MaxRows
  <2>1. /\ IsFiniteSet(1 .. n + 1)
        /\ Cardinality(1 .. n + 1) = n + 1
    BY <1>1, FS_Interval
  <2>2. ~(MaxRows < n + 1)
    <3> SUFFICES ASSUME MaxRows < n + 1
                 PROVE  FALSE
      OBVIOUS
    <3>1. Cardinality(Entry) < Cardinality(1 .. n + 1)
      BY <2>1 DEF MaxRows
    <3>2. \E i, j \in 1 .. n + 1 : i # j /\ new[i] = new[j]
      BY <1>2, <2>1, <3>1, EntryAssumption, FS_PigeonHole
    <3> QED
      BY <1>3, <3>2
  <2> QED
    BY <1>1, <2>2, MaxRowsType
<1>5. DOMAIN new = 1 .. n + 1
  BY <1>2
<1>6. new \in UNION {[1 .. k -> Entry] : k \in 0 .. MaxRows}
  BY <1>2, <1>4
<1>7. new \in Log
  BY <1>3, <1>5, <1>6 DEF Log
<1> QED
  BY <1>7 DEF new

(* What is left of the log, sorted or not, is a log of what was in it.     *)
LEMMA LeftLog ==
  ASSUME NEW gone, NEW log,
         \/ log \in Without(gone)
         \/ log \in Sortings(Rows(dataList) \ gone)
  PROVE  log \in Log /\ Rows(log) = Rows(dataList) \ gone
  BY DEF Without, Sortings

(* A log of no other entries has no other rows.                            *)
LEMMA ShorterLog ==
  ASSUME NEW log \in Log, NEW left \in Log, Rows(left) \subseteq Rows(log)
  PROVE  DOMAIN left \subseteq DOMAIN log
<1> DEFINE row == [i \in 1 .. Len(left) |-> RowOf(log, left[i])]
<1>1. Len(log) \in Nat /\ Len(left) \in Nat
  BY LogType, MaxRowsType
<1>2. \A i \in 1 .. Len(left) : left[i] \in Rows(log)
  BY LogType DEF Rows
<1>3. /\ row \in [1 .. Len(left) -> 1 .. Len(log)]
      /\ \A i \in 1 .. Len(left) : log[row[i]] = left[i]
  BY <1>2, RowOfEntry, LogType
<1> HIDE DEF row
<1>4. \A i, j \in 1 .. Len(left) : row[i] = row[j] => i = j
  BY <1>3, LogType
<1>5. ~(Len(log) < Len(left))
  <2> SUFFICES ASSUME Len(log) < Len(left) PROVE FALSE
    OBVIOUS
  <2>1. ASSUME NEW n \in Nat
        PROVE  IsFiniteSet(1 .. n) /\ Cardinality(1 .. n) = n
    <3>1. /\ IsFiniteSet(1 .. n)
          /\ Cardinality(1 .. n) = IF 1 > n THEN 0 ELSE n - 1 + 1
      <4>1. 1 \in Int /\ n \in Int
        OBVIOUS
      <4> QED
        BY <4>1, FS_Interval, Zenon
    <3> QED
      BY <3>1
  <2> DEFINE S == 1 .. Len(left)
             T == 1 .. Len(log)
  <2>2. /\ IsFiniteSet(S) /\ IsFiniteSet(T)
        /\ Cardinality(T) < Cardinality(S)
        /\ row \in [S -> T]
    BY <1>1, <1>3, <2>1
  <2> HIDE DEF S, T
  <2>3. \E i, j \in S : i # j /\ row[i] = row[j]
    BY <2>2, FS_PigeonHole
  <2> USE DEF S
  <2> QED
    BY <1>4, <2>3
<1> QED
  BY <1>1, <1>5, LogType

(* Renaming keeps the types.                                               *)
LEMMA RenamedType ==
  ASSUME TypeOK, NEW dead
  PROVE  Renamed(dead) \in [Entry -> ProcessID]
  BY DEF TypeOK, Renamed, ProcessID

-----------------------------------------------------------------------------
(* Types.                                                                  *)

(* The empty log and table have their types.                               *)
LEMMA InitType == Init => TypeOK
<1> SUFFICES ASSUME Init
             PROVE  TypeOK
  OBVIOUS
<1>1. dataList \in Log
  <2>1. <<>> \in [1 .. 0 -> Entry] /\ 0 \in 0 .. MaxRows
    BY MaxRowsType
  <2> QED
    BY <2>1 DEF Init, Log
<1>2. NoAlert \in [named : ProcessID, context : Entry \cup {Nil}]
  BY DEF NoAlert, ProcessID
<1>3. mainQueue \in Seq(Block)
  BY DEF Init
<1>4. details \in Pane
  BY DEF Init, Pane
<1>5. processID \in [Entry -> ProcessID]
  BY DEF Init, ProcessID
<1>6. 0 \in 0 .. MaxRows
  BY MaxRowsType
<1> QED
  BY <1>1, <1>2, <1>3, <1>4, <1>5, <1>6 DEF Init, TypeOK

(* Selecting a row gives the choice to an entry of the log, or to none.    *)
LEMMA SelectType ==
  ASSUME TypeOK, NEW log \in Log, NEW row \in 0 .. MaxRows, Select(row, log)
  PROVE  /\ selectedRow' \in 0 .. MaxRows
         /\ currentLogEntry' \in Entry \cup {Nil}
<1>1. EntryAt(log, row) \in Entry \cup {Nil}
  BY EntryAtRow, LogType
<1> QED
  BY <1>1 DEF Select, TypeOK

(* What a refresh takes for selected.                                      *)
LEMMA ChosenType ==
  ASSUME TypeOK
  PROVE  /\ Chosen \in {currentLogEntry, Nil}
         /\ Chosen \in Rows(dataList) \cup {Nil}
         /\ Chosen \in Entry \cup {Nil}
         /\ ChosenRow \in 0 .. MaxRows
<1>1. dataList \in Log /\ selectedRow \in 0 .. MaxRows
  BY DEF TypeOK
<1>2. EntryAt(dataList, selectedRow) \in Rows(dataList) \cup {Nil}
  BY <1>1, EntryAtRow
<1>3. Rows(dataList) \subseteq Entry
  BY <1>1, LogType
<1>4. ChosenRow \in 0 .. MaxRows
  BY <1>1, RowOfEntry, MaxRowsType DEF ChosenRow
<1> QED
  BY <1>2, <1>3, <1>4 DEF Chosen

(* A refresh keeps the types: what it selects is a row of the new log.     *)
LEMMA RefreshType ==
  ASSUME TypeOK, NEW stale \in Stale, Refresh(stale)
  PROVE  TypeOK'
<1>1. dataList' \in Log
  BY LeftLog DEF Refresh
<1>2. processID' \in [Entry -> ProcessID]
  BY RenamedType DEF Refresh
<1>3. selectedRow' \in 0 .. MaxRows /\ currentLogEntry' \in Entry \cup {Nil}
  <2>1. SelectChosen
    BY DEF Refresh
  <2>2. Chosen \in Rows(dataList') => RowOf(dataList', Chosen) \in 0 .. MaxRows
    BY <1>1, RowOfEntry
  <2> QED
    BY <2>1, <2>2, ChosenType, MaxRowsType DEF SelectChosen, TypeOK
<1>4. mainQueue' \in Seq(Block)
  <2>1. PaneBlocks \in Seq(Block)
    <3>1. [kind |-> "none", entry |-> Nil] \in Block
      BY DEF Block, StatusKind
    <3>2. Chosen # Nil => /\ [kind |-> "slave", entry |-> Chosen] \in Block
                          /\ [kind |-> "query", entry |-> Chosen] \in Block
      BY ChosenType DEF Block, StatusKind
    <3> QED
      BY <3>1, <3>2 DEF PaneBlocks
  <2>2. mainQueue \in Seq(Block) /\ mainQueue' = mainQueue \o PaneBlocks
    BY DEF Refresh, TypeOK
  <2> HIDE DEF PaneBlocks
  <2> QED
    BY <2>1, <2>2
<1> QED
  BY <1>1, <1>2, <1>3, <1>4 DEF Refresh, TypeOK

(* A poll that adds, renames or drops entries keeps the types.             *)
LEMMA PollType ==
  ASSUME TypeOK, PollStep
  PROVE  TypeOK'
<1>1. ASSUME NEW e \in Entry, NEW p \in Reported, AddEntry(e, p)
      PROVE  TypeOK'
  <2>1. dataList' \in Log
    BY <1>1, AppendedLog DEF AddEntry, Retained, TypeOK
  <2>2. processID' \in [Entry -> ProcessID]
    BY <1>1, PidAssumption DEF AddEntry, TypeOK, ProcessID
  <2> QED
    BY <1>1, <2>1, <2>2 DEF AddEntry, TypeOK, selection
<1>2. ASSUME NEW stale \in Stale, Discard(stale)
      PROVE  TypeOK'
  BY <1>2, LeftLog, RenamedType DEF Discard, TypeOK, selection
<1> QED
  BY <1>1, <1>2 DEF PollStep

(* The blocks of the main queue keep the types.                            *)
LEMMA RunBlockType ==
  ASSUME TypeOK, RunBlock
  PROVE  TypeOK'
<1> DEFINE block == Head(mainQueue)
<1>1. block \in Block /\ mainQueue' \in Seq(Block)
  BY DEF RunBlock, TypeOK
<1>2. details' \in Pane
  BY <1>1 DEF RunBlock, ShowSlave, ClearStatus, Block, Pane, TypeOK
<1>3. alert' \in [named : ProcessID, context : Entry \cup {Nil}]
  <2>1. CASE block.kind = "alert"
    <3>1. NoAlert \in [named : ProcessID, context : Entry \cup {Nil}]
      BY DEF NoAlert, ProcessID
    <3>2. EntryAt(dataList, selectedRow) \in Entry \cup {Nil}
      BY EntryAtRow, LogType DEF TypeOK
    <3>3. processID[block.entry] \in ProcessID
      BY <1>1, <2>1 DEF Block, StatusKind, TypeOK
    <3> QED
      BY <2>1, <3>1, <3>2, <3>3 DEF RunBlock, ShowAlert
  <2> QED
    BY <2>1 DEF RunBlock, TypeOK
<1> QED
  BY <1>1, <1>2, <1>3 DEF RunBlock, TypeOK, selection

(* The events of the user keep the types.                                  *)
LEMMA UserType ==
  ASSUME TypeOK, UserStep
  PROVE  TypeOK'
<1>1. dataList \in Log /\ MaxRows \in Nat
  BY MaxRowsType DEF TypeOK
<1>2. ASSUME NEW row \in 0 .. numberOfRows, Click(row)
      PROVE  TypeOK'
  <2>1. row \in 0 .. MaxRows
    BY <1>1 DEF TypeOK
  <2> QED
    BY <1>1, <1>2, <2>1, SelectType DEF Click, TypeOK
<1>3. CASE DetailSelectionDidChange
  BY <1>1, <1>3, EntryAtRow, LogType DEF DetailSelectionDidChange, TypeOK
<1>4. CASE SortDescriptorsDidChange
  <2> DEFINE selectedEntry == EntryAt(dataList, selectedRow)
  <2>1. dataList' \in Log /\ Rows(dataList') = Rows(dataList)
    BY <1>4 DEF SortDescriptorsDidChange, Sortings
  <2>2. selectedRow' \in 0 .. MaxRows /\ currentLogEntry' \in Entry \cup {Nil}
    <3>1. CASE /\ selectedEntry # Nil
               /\ Select(RowOf(dataList', selectedEntry), dataList')
      <4>1. selectedEntry \in Rows(dataList')
        BY <1>1, <2>1, <3>1, EntryAtRow
      <4>2. RowOf(dataList', selectedEntry) \in 0 .. MaxRows
        BY <2>1, <4>1, RowOfEntry
      <4> HIDE DEF selectedEntry
      <4> QED
        BY <2>1, <3>1, <4>2, SelectType
    <3>2. CASE UNCHANGED selection
      BY <3>2 DEF selection, TypeOK
    <3> QED
      BY <1>4, <3>1, <3>2 DEF SortDescriptorsDidChange
  <2> QED
    BY <1>4, <2>1, <2>2 DEF SortDescriptorsDidChange, TypeOK
<1>5. CASE DetectChangedView
  BY <1>5 DEF DetectChangedView, TypeOK, selection
<1>6. CASE KillProcess
  <2> DEFINE entry == EntryAt(dataList, selectedRow)
  <2>1. entry # Nil => entry \in Entry
    BY <1>1, EntryAtRow, LogType
  <2>2. CASE dataList' \in Without({entry}) /\ UNCHANGED mainQueue
    BY <1>6, <2>2, LeftLog DEF KillProcess, TypeOK, selection
  <2>3. CASE /\ mainQueue' = Append(mainQueue, [kind |-> "alert", entry |-> entry])
             /\ UNCHANGED dataList
    <3>1. [kind |-> "alert", entry |-> entry] \in Block
      BY <1>6, <2>1 DEF KillProcess, Block, StatusKind
    <3>2. mainQueue' \in Seq(Block)
      BY <2>3, <3>1 DEF TypeOK
    <3> QED
      BY <1>6, <2>3, <3>2 DEF KillProcess, TypeOK, selection
  <2> QED
    BY <1>6, <2>2, <2>3 DEF KillProcess
<1>7. CASE KillEnded
  BY <1>7 DEF KillEnded, TypeOK, selection, NoAlert, ProcessID
<1> QED
  BY <1>2, <1>3, <1>4, <1>5, <1>6, <1>7 DEF UserStep

(* A reload of the table keeps the types.                                  *)
LEMMA ReloadType ==
  ASSUME TypeOK, ReloadData
  PROVE  TypeOK'
<1>1. dataList \in Log /\ Len(dataList) \in 0 .. MaxRows
  BY LogType DEF TypeOK
<1>2. (IF selectedRow > Len(dataList) THEN 0 ELSE selectedRow) \in 0 .. MaxRows
  BY MaxRowsType DEF TypeOK
<1>3. selectedRow' \in 0 .. MaxRows /\ currentLogEntry' \in Entry \cup {Nil}
  BY <1>1, <1>2, SelectType DEF ReloadData
<1> QED
  BY <1>1, <1>3 DEF ReloadData, TypeOK

(* Every step keeps the types.                                             *)
LEMMA TypeStep == TypeOK /\ [Next]_vars => TypeOK'
<1> SUFFICES ASSUME TypeOK, [Next]_vars
             PROVE  TypeOK'
  OBVIOUS
<1>1. CASE RefreshStep
  BY <1>1, RefreshType DEF RefreshStep
<1>2. CASE RefreshStatus
  <2>1. PICK kind \in StatusKind :
          mainQueue' = Append(mainQueue, [kind |-> kind, entry |-> Nil])
    BY <1>2 DEF RefreshStatus
  <2>2. [kind |-> kind, entry |-> Nil] \in Block
    BY DEF Block, StatusKind
  <2>3. mainQueue' \in Seq(Block)
    BY <2>1, <2>2 DEF TypeOK
  <2> QED
    BY <1>2, <2>3 DEF RefreshStatus, TypeOK, selection
<1>3. CASE UNCHANGED vars
  BY <1>3 DEF vars, TypeOK, selection
<1> QED
  BY <1>1, <1>2, <1>3, PollType, RunBlockType, ReloadType, UserType DEF Next

(* The log holds no entry twice and every row is one that it can have.     *)
THEOREM TypeCorrect == Spec => []TypeOK
  BY InitType, TypeStep, PTL DEF Spec

-----------------------------------------------------------------------------
(* The choice.                                                             *)

(* A refresh keeps the choice, or gives it up; what is in the log is kept  *)
(* and selected, and for want of such a choice no entry is.                *)
LEMMA RefreshChoice ==
  ASSUME TypeOK, NEW stale \in Stale, Refresh(stale)
  PROVE  /\ currentLogEntry' \in {currentLogEntry, Nil}
         /\ currentLogEntry \in Rows(dataList') =>
              /\ currentLogEntry' = currentLogEntry
              /\ EntryAt(dataList', selectedRow') = currentLogEntry
         /\ currentLogEntry \notin Rows(dataList) =>
              EntryAt(dataList', selectedRow') = Nil
<1>1. /\ dataList \in Log /\ dataList' \in Log
      /\ Rows(dataList') \subseteq Rows(dataList)
      /\ Nil \notin Rows(dataList)
      /\ DOMAIN dataList' \subseteq DOMAIN dataList
  <2>1. dataList \in Log /\ dataList' \in Log
    BY LeftLog DEF Refresh, TypeOK
  <2>2. Rows(dataList') \subseteq Rows(dataList)
    BY LeftLog DEF Refresh
  <2> QED
    BY <2>1, <2>2, LogType, ShorterLog, EntryAssumption
<1>2. SelectChosen
  BY DEF Refresh
<1>3. currentLogEntry' \in {currentLogEntry, Nil}
  BY <1>2, ChosenType DEF SelectChosen
<1>4. ASSUME currentLogEntry \in Rows(dataList')
      PROVE  /\ currentLogEntry' = currentLogEntry
             /\ EntryAt(dataList', selectedRow') = currentLogEntry
  <2>1. Chosen = currentLogEntry /\ Chosen # Nil
    BY <1>1, <1>4 DEF Chosen
  <2>2. selectedRow' = RowOf(dataList', Chosen) /\ currentLogEntry' = Chosen
    BY <1>2, <1>4, <2>1 DEF SelectChosen
  <2> QED
    BY <1>1, <1>4, <2>1, <2>2, RowOfEntry
<1>5. ASSUME currentLogEntry \notin Rows(dataList)
      PROVE  EntryAt(dataList', selectedRow') = Nil
  <2>1. EntryAt(dataList, selectedRow) \in Rows(dataList) \cup {Nil}
    BY <1>1, EntryAtRow
  <2>2. Chosen = Nil
    BY <1>5, <2>1 DEF Chosen
  <2>3. selectedRow' = ChosenRow
    BY <1>2, <2>2 DEF SelectChosen
  <2>4. CASE EntryAt(dataList, selectedRow) = currentLogEntry
    <3>1. EntryAt(dataList, selectedRow) = Nil /\ selectedRow' = selectedRow
      BY <1>5, <2>1, <2>3, <2>4 DEF ChosenRow
    <3>2. selectedRow \notin DOMAIN dataList
      BY <1>1, <3>1 DEF EntryAt, Rows
    <3> QED
      BY <1>1, <3>1, <3>2 DEF EntryAt
  <2>5. CASE EntryAt(dataList, selectedRow) # currentLogEntry
    <3>1. selectedRow' = 0
      BY <1>5, <2>3, <2>5 DEF ChosenRow
    <3> QED
      BY <1>1, <3>1, EntryAtRow
  <2> QED
    BY <2>4, <2>5
<1> QED
  BY <1>3, <1>4, <1>5

(* Polls, refreshes, blocks and reloads of the table choose no entry.      *)
THEOREM UserChooses == Spec => OnlyUserChooses
<1>1. TypeOK /\ [Next]_vars =>
        [currentLogEntry' \in {currentLogEntry, Nil} \/ UserStep]_vars
  <2> SUFFICES ASSUME TypeOK, Next
               PROVE  currentLogEntry' \in {currentLogEntry, Nil} \/ UserStep
    OBVIOUS
  <2>1. CASE ReloadData
    <3>1. EntryAt(dataList, 0) = Nil
      BY EntryAtRow DEF TypeOK
    <3> QED
      BY <2>1, <3>1 DEF ReloadData, Select
  <2>2. CASE PollStep
    BY <2>2 DEF PollStep, AddEntry, Discard, selection
  <2>3. CASE RefreshStep
    BY <2>3, RefreshChoice DEF RefreshStep
  <2>4. CASE RunBlock \/ RefreshStatus
    BY <2>4 DEF RunBlock, RefreshStatus, selection
  <2> QED
    BY <2>1, <2>2, <2>3, <2>4 DEF Next
<1> QED
  BY TypeCorrect, <1>1, PTL DEF Spec, OnlyUserChooses

(* A refresh finds the chosen entry again in whatever row it is by then,   *)
(* and selects no entry if it does not find it.                            *)
THEOREM RefreshSelects == Spec => RefreshSelectsChoice
<1>1. TypeOK /\ [Next]_vars =>
        [RefreshStep =>
           /\ currentLogEntry \in Rows(dataList') =>
                /\ currentLogEntry' = currentLogEntry
                /\ EntryAt(dataList', selectedRow') = currentLogEntry
           /\ currentLogEntry \notin Rows(dataList) =>
                EntryAt(dataList', selectedRow') = Nil]_vars
  BY RefreshChoice DEF RefreshStep
<1> QED
  BY TypeCorrect, <1>1, PTL DEF Spec, RefreshSelectsChoice
==============================================================================
