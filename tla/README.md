# A TLA+ model of DB Monitor

DB Monitor is a Cocoa document application that polls MySQL servers and shows
their slow queries, replication lag and failed connections in an event log, and
their statistics in a status panel. This directory holds TLA+ modules for its
core logic, TLC configurations that check them on small instances, and proofs
for TLAPS. All line numbers below are of `src/DB Monitor/DBMDocument.m` unless
another file is named.

## The system

| Component | State | Operations | Status |
|---|---|---|---|
| Polling machinery | `checkQueue` (an `NSOperationQueue`), the main queue, the configuration sheet | `generateRefreshOperation`, `generateMySQLOperation:`, `reloadDataWatchers`, `openConfigSheet:`, `endConfigSheet:` | `WatchQueue`, which implements `PollLoops` |
| Event log | `dataList`, an array of `DBMLogEntry`; tracking checkbox and slider | `clearUpdates:`, `updateMySQLQueries:host:`, `updateMySQLSlaveStatus:host:`, `updateMySQLFail:`, `discardMySQLDead:`, the sweep in a refresh (254-269), the purge in a reload (455-456), removal in `killProcess:` | `EventLog`, which implements `ProcessLog` |
| Status panel | `detailList`, an array of `DBMDetailEntry` | rebuilt in `reloadDataWatchers` (430-441), `updateMySQLStatistics:host:`, parts of the other updates (712-718, 805-811) | `StatusPanel` |
| Log view and kill button | selected row, `currentLogEntry`, sort descriptors, the panes, the kill alert | `tableViewSelection...`, `tableView:sortDescriptorsDidChange:`, `detectChangedView:`, `killProcess:`, `killEnded:code:context:`, the row bookkeeping of a refresh (239-310, 316-337), `refreshSlavePanel:`, `refreshMySQLQueryPanel:` | `LogView` |
| The two together | polls, sweeps and purges as the work of operations and of the main thread | the same, as they call one another | `Document`, which implements `WatchQueue` and `EventLog` |
| MySQL connector | connections and their sessions, exceptions | `connectToServer:`, `forceDisconnect`, `dealloc`, `fetchWithCommand:onConnection:`, `statusForConnection:`, `killProcess:processID:` | `Connector` |
| Configuration | Core Data objects `General`, `Pool`, `MySQLHost` | edited through bindings while the sheet is open | as inputs |
| Rest of the connector | - | inserts, updates, deletes, transactions, idle thread: never called by DB Monitor | not modelled |
| Application delegate, nibs, help, vendored headers | none | - | not modelled |

How they interact:

- Every operation on `checkQueue` is a block that ends by arranging for its own
  successor: a refresh adds it to the queue itself (356-360), a poll posts a
  block to the main queue which adds it (391-398). A *loop* is such a chain. It
  ends only by cancellation.
- The main thread runs posted blocks, opens and closes the sheet, and reloads:
  it cancels everything in the queue, starts one refresh, then visits the hosts
  of every pool, starting a poll for each active one and purging the entries of
  each other one.
- Polls of several hosts, refreshes and the main thread share `dataList` and
  `detailList`, each under `@synchronized` on the list. A poll takes the lock
  anew for every row it applies, and holds none during its requests.
- An entry of the log belongs to a host *name* (compared with `==`, that is, by
  pointer) and a process id.
- The table of the log knows its selection by row, the document the chosen entry
  by identity (`currentLogEntry`). Polls add and drop entries without a word to
  the table; a refresh, on its own thread, puts the two together again.
- A poll opens one connection, asks up to three requests on it and disconnects.
  A kill opens another on the main thread, and holds the lock on `dataList`
  until the server has answered.

The hard behaviours are the interleavings of loops with a purge that lands at
any point of them, polls of one host that overlap after a reload, requests that
fail half way through a poll or never end, entries that move while the user is
about to click, and what becomes of an entry afterwards. Nothing is persisted
but the configuration, so there is no recovery to model.

What makes each component correct: loops neither fork nor get lost, and die when
cancelled; the log shows a process once, does not lose what a poll has just
reported or what is to be tracked, and does not keep what is over; the status
panel shows each host's own and current numbers; the kill button kills what the
user selected; the connector leaves no session behind on any path.
`PROJECT.json` lists the hazards line by line.

## Modules

| Module | What it is |
|---|---|
| `PollLoops` | what the polling machinery promises, with no word of queues |
| `WatchQueue` | the polling machinery; its section on refinement maps it to `PollLoops` |
| `ProcessLog` | what the log promises, with no word of polls, marks or deadlines |
| `EventLog` | the event log, its polls, sweeps and purges, the user and the servers; mapped to `ProcessLog` |
| `Document` | the queue with the log: each operation of `WatchQueue` does its work in `EventLog` |
| `StatusPanel` | the status panel, the polls that fill it in, its rebuild in a reload |
| `LogView` | the log's table, the chosen entry, the details pane, the kill alert |
| `Connector` | the connections of polls and kills, and the lock a kill holds |
| `...Proofs` | the theorems about each of these |
| `MC...` | instances of each for TLC |

The specifications meet at a poll. `WatchQueue` says when polls run and nothing
of what they do (`RestPoll` stands for 374-389); `EventLog` says what a poll
does, step by step, and leaves open when one starts and whether two overlap
(`PollClear`). `Document` puts the two together. `StatusPanel` says what the
same poll does to the panel, `Connector` what it does with its connection and
when it waits for the lock, `LogView` what the user sees of the log, whatever
polls do to it. The log and the panel share nothing but the poll. Each module
over-approximates the others' parts, so a safety property that holds of one
holds of the program; `LatePolls`, `Overlap` and `Editable`, below, are where
the log depends on what the queue does, and `Document` is where that is shown.

### WatchQueue

`checkQueue` maps identities of unfinished operations to records: the host they
poll (or `Refresh`), how far they are, whether they are cancelled, and an
*epoch*, a history variable that names the reload whose loop they continue.
`mainQueue` is the FIFO of posted blocks. `main` says which handler the main
thread is in: while it is in one, no posted block runs.

- An operation that is cancelled while queued never runs its block
  (`SkipOperation`; the test at 237 or 372 comes to the same). A refresh adds
  its successor and finishes in one step (`RefreshAgain`). A poll rests, looks
  at `isCancelled` (`PassPoll`, `StopPoll`), and only then posts its block
  (`PostBlock`): a purge can fall between the two.
- `OpenConfigSheet` and `BeginSheet` are the two cancellations of
  `openConfigSheet:`; `EndConfigSheet`, `ReloadRefresh`, `ReloadHost` and
  `ReloadDone` are `endConfigSheet:` and `reloadDataWatchers`, split where other
  threads can come between. `Init` is the state in which the first reload, on
  loading the nib, has just purged the empty queue.
- `EditConfig` is the bindings of the sheet. A host is "on", "off" or "out" (of
  every pool); the order in which pools and hosts are visited is left open.

Abstractions: the thread limit of the queue and sleeps are left to interleaving;
an edit made by Undo with the sheet closed is not modelled (no reload follows
it, so the queue does not change until the next one); the main thread is taken
to run no posted block inside `beginSheet:`; a document that closes is not
modelled.

`PollLoops` has no operations, only loops: pairs of a target and a reload. A
reload starts one for each wanted target before it returns; loops of the latest
reload end only while the sheet is open; older ones may end at any time or
never. Under the mapping a loop goes on while an operation *or a block* carries
it (`Going`), so handing it on does not show, and a queue that lost or doubled a
loop on the way would not implement it.

### EventLog

`dataList` maps identities of entries to records of host, process id, `updated`,
`dead` and `displayTimeout` (absent, pending, or passed but not yet removed). A
poll is at one of the points between its critical sections and requests; it
carries what it has read (`seen`) and the rows it has yet to apply (`left`).

- `PollClear`, `PollConnect`, `PollFetch`, `PollRow`, `PollRowsDone`,
  `PollSlave`, `PollLag`, `PollFail`, `PollDiscard` are the poll, in the order
  of 374-388. Connecting and each request may fail: `PollFetch` then goes on
  without rows, as 706-709 does, and `PollSlave` without lag. The statistics
  request (382) touches no entry of the log, so it is left out.
- `UpdateEntry` is the find-or-create that 731-759, 778-803 and 857-873 repeat.
  What differs is when a deadline is set or removed: `NextTimeout`.
- `Swept` and `RefreshSweep` are 254-269, `PurgeClear` and `PurgeDiscard`
  455-456.
- `Edit` is an edit of the configuration, which takes effect at once; `Reload` is
  the reload that follows, with the hosts it will purge. An edit waits for the
  purge to end, because both are on the main thread.
- Durations, texts and the query itself are left out. Whether a row is slow
  enough to be shown, and over the tracking threshold, is its `Level`.
- `Expire` is time passing a deadline. At infinity the slider is -1, so a new
  deadline is past from the beginning, but the sweep then removes none (261).
- Hostnames are compared by pointer, so whether two hosts share one is a
  parameter, `NameOf`, not something the model derives from the text.
- `LatePolls`, `Overlap` and `Editable` say whether a host may be polled while
  it is inactive, whether two polls of one host may overlap, and whether the
  configuration is ever edited.

`ProcessLog` shows an entry as a name, a process and whether it is *held*: over
the threshold and its time not up. Entries are shown (`Show`), met again
(`Meet`), released, pruned or dismissed. A pruning takes no held entry while
there is tracking, and makes Dead Processes only then. Under the mapping an
entry is held while its host is active and its deadline is to come, or is past
with the slider at infinity (`Held`); the marks `updated` and `dead`, the polls
and the purges do not show.

### Document

The variables are those of `WatchQueue` and `EventLog`, except that `active` is
no variable but what `config` says of a host; `swept` is the refreshes that have
swept. `Queue` and `Log` are instances of the two modules, and each action is
one of both, or one of one that leaves the other alone:

- a poll's work is steps of a running operation: `BeginPoll` (374), `GoOnPoll`
  (376-387), `EndPoll`, which is the discard and the rest (388-389) and so both
  `Log!PollDiscard` and `Queue!RestPoll`. A refresh sweeps once (`Sweep`) before
  it adds its successor;
- a reload decides which hosts it will purge when it fetches the pools
  (`ReloadRefresh`, 408-427) and visits them one at a time: an active host gets
  an operation (`ReloadActive`), any other is cleared and then discarded
  (`PurgeClear`, `PurgeDiscard`, two critical sections). Posted blocks run only
  after it, polls and sweeps between any two of its steps;
- an edit takes effect in the queue's `config` and in the log's `active` at
  once. With the sheet up, the log is out of the user's reach (`UseLog`).

`OrderlyLog` is an instance of `EventLog` in which polls neither start late nor
overlap nor meet an edit unless the document is *reloaded* (`MaxReloads > 1`).
That a document implements it (`ImplementsLog`) is how what `EventLog` assumes
of polls is discharged by the queue.


### StatusPanel

An entry of the panel is identified by its host and the reload that made it, so
`detailList` is a set of such pairs and `detail` what each holds. A poll is at
one of the points between its requests and critical sections, and may hold an
entry (`held`, the local `myEntry`) that a reload has thrown out of the list
since.

- The panel is empty at first; loading the nib is the first `Rebuild`. It makes
  the entries of the active hosts (430-441) and starts their loops (443-453),
  beside the loops of the reload before, whose polls may be slow. A loop is
  identified by its host and reload, as in `PollLoops`: it makes one poll at a
  time, and may end between two of them (`EndLoop`).
- `PollStart` is the next poll of a loop when it has connected: one that has not
  never gets to the panel. It waits for no poll of another loop. `PollQueries`
  and `PollSlave` are the request and the loop over the list that follows it
  (712-718, 805-811).
- `updateMySQLStatistics:host:` is five steps: `PollFind` (816-822, locked),
  `PollTest` (823, not locked), `PollRequest` (826), then `PollApply` (833-847)
  or `PollCount` (849-851), locked. Each request may fail, and the poll then
  goes on or ends as the code does. A poll left over from before its host was
  set inactive finds no entry and holds nil: nil has zero polls left, so the
  request is made and its answer dropped.
- The countdown is unsigned, with `Width` values.
- What an entry holds is forgotten when it is out of the list and no poll holds
  it.
- Hostnames are compared as pointers in one place (807) and by what they read in
  the others (714, 818), so the constants give both: `NameOf` is the string
  object of a host and `TextOf` what a string reads.
- Statistics are abstracted to two things: which hosts' numbers an entry has
  been given, and at which moment of the server a sample was taken. Rates are
  the difference of two samples, so their order is what matters.
- The order of the list (sorting) only decides which of several matches is the
  last: `PollFind` leaves it open.

### LogView

`dataList` is a sequence here, `selectedRow` a row of it or 0 and `numberOfRows`
its length when the table last reloaded, which is what the user can click on.

- `AddEntry` and `Discard` are polls as the table meets them: entries come at
  the end, go, or become Dead Processes. Which ones, and when, is `EventLog`'s
  part.
- `Refresh` is 239-310 in one step, because the lock is held throughout: it
  finds the chosen entry (`Chosen`, `ChosenRow`), sweeps, posts a block for the
  details pane (`PaneBlocks`), sorts, and selects the entry's new row
  (`SelectChosen`). `RefreshStatus` is 316-337: the block for the pane of the
  status view. The two panes share one view for replication and one that is
  empty, and a view that one takes leaves the other blank.
- `RunBlock` runs the oldest block on the main queue, `ReloadData` the pending
  reload of the table, with the selection given up if its row is gone.
- `Click`, `DetailSelectionDidChange`, `SortDescriptorsDidChange`,
  `DetectChangedView`, `KillProcess` and `KillEnded` are the user's events. The
  button is enabled exactly while the details pane shows a query (164-166,
  213-216, 274-277).
- `killProcess:` posts a block; the alert comes up when that runs (`ShowAlert`),
  with the entry of the click in its text and the entry of the selected row as
  its context, which nothing retains: `Retained` leaves it out, and `AddEntry`
  may use its memory again.
- A notification for a selection made by a program is taken to come at once, on
  the thread that selects. An exception in an event handler (a row past the end
  of the log, 494 and 514) is taken for no effect, as AppKit catches it.

### Connector

Each poll, and the main thread for a kill, is at a `stage` and holds at most one
session. Sessions are what the *servers* have open for the monitor.

- `Connect`, `ConnectFails` and `SetCharacterSet` are `connectToServer:`, then
  each request is `Answered`, fails (`RequestFails`), ends the program
  (`ResultMissing`: MysqlSlaveStatus.m:57-67 reads the columns of a row that may
  be missing) or, with a host in `Hung`, goes on for ever. `ForceDisconnect` is
  383 and the end of the scope of `connection`.
- A request that fails raises an exception that holds the connection
  (MysqlException.m:27-38). ARC does not release what an exception unwinds past,
  so its `dealloc`, which would close the session, does not come: `raised`.
- `KillEnded` to `KillProcess` or `KillFails` is `killEnded:`, on the main
  thread: the user has confirmed (`KillEnded`), it waits for the lock
  (`KillLocks`) and keeps it until the server has answered (`InLog`). Without a
  connection it crashes
  (`KillConnectFails`); an exception there leaves its session behind (`left`).
- Steps that take the lock wait for `LogFree`; `PollAgain` waits for the main
  thread.
- `entry` is the entry being killed. `DiscardMySQLDead` may rename it until the
  kill has the lock, and the kill of a Dead Process fails.
- Statements, bindings and the conversion of columns are left out: a failed
  fetch does not free them (MysqlFetch.m:47), but nothing reads them again.

## Properties and runs

`WatchQueue`:

- `OneLoopPerReload`: no two operations or blocks continue the loop of one
  reload and host. `NoneForgotten`: when no handler runs and the sheet is
  closed, the refresh and every active host have a loop of the latest reload
  that is not cancelled. `CancelIsFinal`: a poll cancelled before its last look
  at `isCancelled` has no successor.
- `ActivePolled`, `CancelledDrain` (liveness): active hosts are polled again and
  again; a cancelled operation leaves.
- `ImplementsLoops`: the queue implements `PollLoops`.
- `OnlyWanted`: once a reload is over, its loops are for what the configuration
  asks for.
- `OneRefreshLoop` is what a comment says, and does not hold.

`EventLog`:

- `OneEntryPerProcess`; `ReportedStays`: what a poll has applied is there, under
  its own host and marked, until the poll discards (checked in `Document`, as
  `FirstReportsStay`); `DeadIsFinal`: nothing
  updates a Dead Process; `TrackedStays`: with tracking on, an entry of an
  active host stays until its deadline, unless the user removes it as a Dead
  Process.
- `ImplementsEntries`: the log implements `ProcessLog`.
- `DeadProcessIsDead` is what a comment says, and does not hold.

`Document`:

- `ImplementsQueue`, `ImplementsLog`: it implements `WatchQueue` and `EventLog`.
- `OverlapAcrossReloads`: two polls of one host that are under way at a time were
  started by different reloads. `LatePollsAreOld`: once a reload is over, polls
  of hosts that are not active are left over from earlier ones.
  `OneEntryPerProcess` and `DeadIsFinal` are `EventLog`'s.
- `FirstReportsStay`: until the document is reloaded, what a poll reports stays
  until it has discarded.
- `ProblemsShown` (liveness): what an active host that answers reports for good
  comes to be in the log for good. `DeadLeaves`: a Dead Process does not stay
  for ever, unless the slider stays at infinity. `QuietHostEmpties`: an active
  host with nothing to report comes to be absent from the log. All three are
  about a document that is not reloaded.
- `InactiveFiltered` is what the help says of setting a host to Inactive, and
  does not hold.

`StatusPanel`:

- `StatusSettles` (liveness): polls of two loops share an entry after a reload
  that meets a slow poll. Samples then come late, so that the unsigned
  differences of 845 and 846 wrap, and both polls may count down from 1, so that
  the countdown wraps. Once the older loop has ended and the server answers, an
  entry whose countdown has not wrapped gets samples again and again, and from
  some time on in the order in which they were taken. (One whose countdown has
  gets them after as many polls as there are values of an `NSUInteger`; TLC
  finds that this happens. Nothing in the repository says how often an entry is
  to be sampled, so it is listed as a hazard and is not a finding.)
- `OwnNumbers`: an entry in the panel has been given its own host's numbers
  only, whatever reloads came between finding it and applying a sample. It is
  what the help says of the panel, and does not hold when two hostnames read
  alike. When none do it holds: that is proved, and no run is spent on it.

`LogView`:

- `OnlyUserChooses`: polls, refreshes, blocks and reloads of the table may lose
  the choice with its entry but make no other entry the chosen one.
  `RefreshSelectsChoice`: after a refresh the chosen entry is still chosen and
  its row is the selected one, if it is in the log; if it was not when the
  refresh began, or there was none, the selected row holds no entry. (An entry
  that the refresh itself sweeps away may leave another in its row until the
  next one, 307.)
- `PaneCatchesUp` (liveness): once the log view is displayed for good and the
  choice stays, the details pane comes to show it for good, whatever blocks were
  still to run.
- `AlertNamesVictim` is what the help says of the confirmation dialog, and does
  not hold.

`Connector`:

- `SessionsAccounted`: a session serves a poll or a kill at work, or was left
  behind by a kill that raised; polls leave none, whatever failed.
- `PollsRepeat` (liveness): a host that answers is polled for ever, although
  another hangs, unless the program crashes, a kill waits for ever for a host
  that hangs, or the user never stops killing. A kill at a host that answers
  holds up all polls, but not for ever.

| Run | Shows |
|---|---|
| `queue` | `OneLoopPerReload`, `NoneForgotten`, `OnlyWanted`, `CancelIsFinal`, `ImplementsLoops`, `ActivePolled`, `CancelledDrain` for one host and two reloads |
| `queue_two_refreshes` | violated: a refresh caught in its block by the purge adds itself again (356-360), next to the new loop |
| `log` | `OneEntryPerProcess`, `DeadIsFinal`, `TrackedStays`, `ImplementsEntries` for polls of a slave host, late ones too, with edits |
| `log_dead_but_running` | violated: a poll whose server goes away before the process list is read discards all the same (388) |
| `document` | `ImplementsLog`, `FirstReportsStay`, `ProblemsShown`, `DeadLeaves`, `QuietHostEmpties` for one host and no reload but the first |
| `document_reload` | `ImplementsQueue`, `OverlapAcrossReloads`, `LatePollsAreOld`, `OneEntryPerProcess`, `DeadIsFinal` for one host and two reloads |
| `document_inactive_stays` | violated: a poll under way when its host is set inactive adds an entry after the purge, marked updated, that nothing discards (746, 882) |
| `status_panel` | `StatusSettles` for a slave that is loaded and reloaded, so that polls of two loops share an entry |
| `status_shared_name` | violated: entries are found by hostname whatever the port (714, 818), so of two hosts with hostnames that read alike one shows the other's numbers |
| `log_view` | `OnlyUserChooses`, `RefreshSelectsChoice`, `PaneCatchesUp` for two entries, one process and replication lag |
| `view_wrong_kill` | violated: an entry moves into the selected row between the click and the alert (514), which names one process and kills the other |
| `connector` | `SessionsAccounted`, `PollsRepeat` for a slave that answers and a host that hangs |

A violated run states what the help or a comment says, quoted in `PROJECT.json`
under `findings`; its counterexample is a behaviour of the code.

What else the code does otherwise than the help says is in the models, but no
run is spent on it, because it is one assignment: `dead` is never reset when a
host is active again (258), so entries that should be red stay gray
(`help/eventlog.html:52`); a host marked as slave that has no replication
crashes the program, although 196 is there to show "Slave Unconfigured"; and an
entry stands for a connection, so a shorter query on it takes the deadline of
the one that was to be kept (753-757, `help/eventlog.html:54`).

A host is also polled for ever after it was set inactive, if the block of its
poll was posted before the purge and runs after it (391-398): in `Document` this
breaks `InactiveFiltered` as well, and in `PollLoops` it is why loops of earlier
reloads need not end.

Each property of a passing run also has a *mutant*: a definition with a
plausible mistake (`Skip...Unfinished`, `...Slip`, and so on, kept beside the
definition it spoils) with which TLC refutes the property.

### Bounds, and why they are enough

- `Op`: the loops of all reloads, one operation or block each, fit; an `ASSUME`
  in `MCWatchQueue` says so, so `addOperation` never waits for an identity.
- `MaxReloads = 2`: loading, and one opening and closing of the sheet. Every
  interaction of an old loop with a purge and with the next reload needs just
  two reloads; epochs keep older ones apart, and the theorems hold for any
  number.
- `WatchQueue` has one host and the refresh: two targets, of which one can be
  switched off. A second host doubles the loops but meets the first nowhere, and
  is more than TLC does in minutes; the safety properties and the refinement are
  proved for any set of hosts.
- `Entry`: two to four, for one process id, lag, a failed connection and Dead
  Processes. Servers cause new trouble only while `Reserve` of them are free
  (`Room`). In `document` nothing then waits for room in a log that in the
  program is unbounded. In the other runs a poll may find no identity:
  behaviours with more entries are not explored there. Two Dead Processes at a
  time occur in the runs with more entries.
- `log`: one host, one poll at a time, any number of edits, which are what makes
  polls late; `log_dead_but_running` has no edits. Polls that overlap are in
  `document_reload`, two hosts, and hosts that share a hostname, in the
  theorems only.
- `document`: one host that is no slave, loaded once, so that two loops are all
  there are and three operations never wait for an identity. The servers, the
  controls and time are free. `QuietHostEmpties` is not checked for lag.
- `document_reload` and `document_inactive_stays`: two reloads; of the servers
  only the reports change, tracking is on and the slider finite (`CalmSpec`), as
  the behaviours with failing connections and moving controls are those of `log`
  and `document`. Three operations, interchangeable for `document_reload`: with
  both loops of the first reload and of the second alive at once a reload would
  need a fourth, and waits instead.
- `Overlap` (of `EventLog`): two polls of one host can overlap after a reload.
  `ReportedStays` is for `Overlap = FALSE`: it holds of a document in which every
  poll is over before the next of its host begins, and fails otherwise.
- `status_panel`: one host, since polls of others touch its entry only where
  hostnames read alike (`OwnNumbersShown` is for any hosts); `MaxReloads = 2`,
  loading and one reload, so that the second set of entries meets polls of two
  loops; three moments of the server (`MaxMoment = 2`), so that a late sample and
  two newer ones differ; `Width = 4`, one value more than the countdown needs, so
  that it can wrap. In this instance entries are reached with samples out of
  order and with wrapped countdowns after the older loop has ended.
  `status_shared_name` has two hosts and needs no second reload.
- `LogView`: two entries are enough for one to move into another's row and for
  every kind of block; a third only moves them further. `MaxPosted = 1`: one
  block for a pane waits at a time, besides the alert's; the queue is FIFO and a
  later block overwrites what an earlier one did. `view_wrong_kill` has two
  processes.
- `Connector`: two hosts, so that one can hang while the other must go on, and a
  kill of an entry of either; four sessions, one each and one left behind
  (`MaxLeft = 1`, a bound on when the next kill may begin). Deadlock is not
  checked there, because a crash ends the program.

### Fairness

- `WatchQueue`: every unfinished operation takes its next step: the queue gives
  each operation a thread in the end, and an operation's work ends because
  requests end. The main thread is never blocked for ever, so its steps are fair
  too. The user is not fair: the sheet may stay open.
- `Document`: the same, where an operation's steps are now those of its work as
  well; and time passes, so a pending deadline does. The servers are not fair.
- A request that never ends would break this: the connector sets a timeout for
  connecting but none for reading. The liveness results of `WatchQueue` and
  `Document` are about servers that answer or fail; what one that does not does
  to the others is `PollsRepeat`.
- `StatusPanel`: a loop that goes on starts its next poll, and a poll takes its
  next step: the queue gives it a thread, and its requests end. Loops, reloads
  and servers are not fair: that the older loop ends and the server answers for
  good is a condition of `StatusSettles`.
- `LogView`: the log is refreshed again and again (which `ActivePolled` shows),
  and the main thread runs its blocks and reloads the table. Polls and the user
  are not fair.
- `Connector`: threads run and connecting ends, at the latest with its timeout
  (30 s, MysqlServer.m:32). Hosts outside `Hung` answer, fail or crash the
  program; those in it need not. A kill ends if its host does not hang.

## Proofs

TLAPS checks the eight `...Proofs` modules for every value of the constants that
satisfies the named assumptions of the modules they are about
(`RefreshAssumption`, `ReloadsAssumption`; `NameAssumption`, `PidAssumption`,
`BoundsAssumption`, `PollAssumption`; `TextAssumption`, `WidthAssumption`,
`LimitAssumption`, `NobodyAssumption`; `EntryAssumption`, `PidAssumption`,
`PostedAssumption`; `HostAssumption`, `MainAssumption`, `SessionAssumption`;
`DocumentAssumption`, which is those of the queue and the log).

- `WatchQueueProofs`. Types need `SheetInv`: `endConfigSheet:` does not bound
  the reloads, but the sheet was opened below the bound. `OneLoopPerReload` is
  not inductive: a new loop must not meet an older operation of the same epoch,
  so `LoopInv` adds that no epoch exceeds `reloads`, and that a reload in
  progress has started nothing for the hosts it has still to visit.
  `NoneForgotten` is only about an idle main thread: `WatchInv` adds what
  already holds for visited hosts while a reload is under way. Every invariant
  is preserved by each action in turn. `CancelIsFinal` needs types only: no
  action clears a mark.
- `PollLoopsProofs`. `LoopsImplemented`: initial states map to initial states
  and every step to a step of `PollLoops` or a stutter. A step of an operation
  or of a posted block leaves `Going` as it is or ends a loop; that it ends none
  of the latest reload while the sheet is closed needs `FreshInv` (none of them
  is cancelled then), that a reload starts no loop twice needs `LoopInv`, and
  that it has started all of them when it returns needs `WatchInv`.
  `OnlyWantedGo` is proved of `PollLoops`, where it takes three lines
  (`LatestWanted`), and carried over by the refinement.
- `EventLogProofs`. One notion, `Evolves`, says how any single step may change
  the log: entries keep their host; they keep their process id or become Dead
  Processes; at most one entry is new, and its process has no other entry. It is
  proved once for each method (`ClearedLog`, `DiscardedLog`, `UpdatedLog`,
  `SweptLog`, ...), then for every step (`LogStep`). `OneEntry`, which is
  inductive as it stands, follows from it; `DeadStayDead` and `TrackedStay` also
  need `MarkInv`: a Dead Process is marked dead and not updated, and a failed
  connection has no deadline. They hold for any number of overlapping polls and
  edits and for shared hostnames, which the runs do not cover together.
  `ReportsStay` is about `Separate` polls: no two hosts share a hostname, polls
  of a host do not overlap, nothing is edited. Then whoever clears or discards
  entries of a host is the poll that reported them, or a sweep of what no poll
  has marked; every other step keeps the entry, its host and its mark (`Keeps`).
  Without these conditions it is false: a second poll of the host clears the
  first one's marks.
- `ProcessLogProofs`. `EntriesImplemented`: `clearUpdates:` maps to nothing,
  `UpdateEntry` to `Show` or `Meet` (`UpdateShows`), `discardMySQLDead:` to
  `Prune` (`PruneShows`), alone in a poll or a purge and after the sweep's own
  loop in a refresh: what that loop takes a deadline from was not held before
  (`SweptLog`). It needs types only, and no condition on polls.
- `DocumentProofs`. Every step of a document maps to a step of `WatchQueue` or a
  stutter (`QueueStep`), so `QueueImplemented` holds and with it every theorem
  about the queue. With those, every step maps to one of `EventLog` or a stutter
  (`LogStep`): `PollInv` has each poll be the work of a running operation, and
  `OnlyPoll` derives from `OneLoopPerReload` and `OnlyWanted` that in a document
  that is not reloaded no other poll of its host is under way and the host is
  active. `PurgeInv` has hosts be purged only while a reload has still to visit
  them. So `LogImplemented` holds, and `FirstReports`, `OneEntry`,
  `DeadStayDead`, `EntriesKept` and `LoopsKept` are the components' theorems,
  now about the whole. `FirstReports` is under `OwnName` (no two hosts share a
  hostname), without which polls of two hosts clear each other's marks.
  `OverlapsAreAcross` and `LatePollsOld` combine `PollInv` with the queue's
  invariants; types need `SweptInv` besides. The two lemmas `SameQueue` and
  `SameLog` only say that two instances of one module are the same.
- `StatusPanelProofs`. `PollsEvolve` says how a step may change a poll: it goes
  on with what it holds or has just found, or it is new. From it follows
  `HeldInv` (a poll holds no other host's entry) where no two hostnames read
  alike (`Distinct`). `OwnNumbersShown` needs `HeldInv` and a statement about
  every entry, in the list or not (`GivenInv`), since a poll may still apply to
  one that a reload has thrown out.
- `LogViewProofs`. Types need that a log is a sequence of *different* entries,
  so that it has no more rows than there are entries (`AppendedLog`, by the
  pigeonhole principle). `RefreshSelects` and `UserChooses` both follow from
  `RefreshChoice`, on the three ways a refresh can end: with no chosen entry,
  with it in its new row, with it swept away. With no chosen entry the row that
  stays selected is past the end of the log, and a refresh makes no log longer
  (`ShorterLog`).
- `ConnectorProofs`. Beside types and `SessionsAccounted` the inductive invariant
  has `HandleInv`: a connection is held only between connecting and
  disconnecting, no two hold one session, and none holds a session left behind.
  Then whoever lets a connection go either ends its session or, in `KillFails`,
  adds it to `left`.

Only model-checked: the liveness properties (`ActivePolled`, `CancelledDrain`,
`ProblemsShown`, `DeadLeaves`, `QuietHostEmpties`, `PaneCatchesUp`,
`StatusSettles`, `PollsRepeat`), because liveness under fairness is out of the
prover's reach, and everything that is violated. Every safety property of the
passing runs is also proved.

## Not modelled

- The product of `Document` with the panel or the connector, which would be out
  of TLC's reach. These modules are joined by what each leaves open to the
  others instead: `StatusPanel` lets loops end when they like, beside those of
  later reloads, `LogView` lets the log change as it likes, and `Connector` has
  its loops in the form that `PollLoops` promises.
- Selection and order in the table of the status view: a refresh follows them as
  it does the log's (311-355), but nothing is done to the chosen row.
- Texts, colours, durations, the values of statistics; saving, undo and the
  document's end.
- The parts of the connector that DB Monitor never calls, and the memory and the
  conversions inside a fetch.
- The headers under `trunk/include`: declarations of a library that is not in
  the repository. They are most of the header files by size, and there is no
  behaviour in them to translate.

## Where it could go on

- `StatusPanel` under `Document`'s queue, where the end of the older loop would
  be no condition of `StatusSettles` but follow from the purge, but for blocks
  that revive it.
- A `LogView` with exceptions of event handlers that end the program.
- Two reloads with two hosts in `WatchQueue` under fairness, with symmetry, once
  TLC allows it for liveness.
