------------------------------- MODULE Connector -------------------------------
(***************************************************************************)
(* The MySQL connections of the monitor: each poll opens one, asks its     *)
(* requests on it and disconnects; the kill button opens one on the main   *)
(* thread, and holds the lock on the log until the server has answered.    *)
(* A server may refuse, fail a request, end a session or never answer.     *)
(*                                                                         *)
(* A request that fails raises an exception that nothing ever frees        *)
(* (compiled without -fobjc-arc-exceptions, raiseConnection leaks its own  *)
(* reference as it unwinds).  The exception holds the connection, whose    *)
(* dealloc then never runs: only forceDisconnect ends its session.         *)
(*                                                                         *)
(* A definition named ...Slip is the one after it as a mistake in the code *)
(* would have made it: TLC refutes a property once it takes its place.     *)
(***************************************************************************)
EXTENDS Naturals, FiniteSets

CONSTANTS
  Host,       \* the hosts that are polled, each by one loop
  Slave,      \* those the configuration marks as slaves
  Hung,       \* those that need not answer a request
  Main,       \* the main thread, where kills run
  Session,    \* names for the sessions at the servers
  NoSession,  \* no connection
  MaxLeft     \* bound on the sessions left behind when a kill begins

ASSUME HostAssumption == IsFiniteSet(Host) /\ Slave \subseteq Host /\ Hung \subseteq Host
ASSUME MainAssumption == Main \notin Host
ASSUME SessionAssumption ==
  IsFiniteSet(Session) /\ NoSession \notin Session /\ MaxLeft \in Nat

VARIABLES
  running,    \* whether the program has not crashed
  stage,      \* where each poll is, and the kill
  handle,     \* the session of each one's connection, or NoSession
  sessions,   \* the sessions that the servers have open
  raised,     \* those whose connection an exception holds
  left,       \* the sessions left behind by kills that raised
  entry       \* the log entry being killed: its host and its process id

connections == <<handle, sessions, raised, left>>
vars == <<running, stage, connections, entry>>

Caller == Host \cup {Main}
ProcessID == {"process", "Dead Process"}
PollStage == {"waiting", "connecting", "naming", "queries", "logging", "slave",
              "lagging", "status", "closing", "failed", "discarding", "posted"}
KillStage == {"idle", "confirmed", "connecting", "naming", "killing"}

TypeOK ==
  /\ running \in BOOLEAN
  /\ stage \in [Caller -> PollStage \cup KillStage]
  /\ \A h \in Host : stage[h] \in PollStage
  /\ stage[Main] \in KillStage
  /\ handle \in [Caller -> Session \cup {NoSession}]
  /\ sessions \subseteq Session
  /\ raised \subseteq Host
  /\ left \subseteq sessions
  /\ entry \in [host : Host, id : ProcessID]

-----------------------------------------------------------------------------
(* The lock on the log: only killEnded keeps it from one step to the next. *)

InLogSlip(c) ==
  stage[c] \in IF c = Main THEN KillStage \ {"idle", "confirmed"} ELSE {"queries"}

InLog(c) == c = Main /\ stage[c] \in KillStage \ {"idle", "confirmed"}

LogFree(c) == \A other \in Caller \ {c} : ~InLog(other)

GoTo(c, next) == stage' = [stage EXCEPT ![c] = next]
Ask(c, request) == running /\ stage[c] = request /\ UNCHANGED <<running, entry>>

(* The sessions that end when c lets its connection go: dealloc disconnects*)
(* unless an exception holds the connection too.                           *)
Dealloc(c) == IF c \in raised THEN {} ELSE {handle[c]}

(* c lets its connection go, and with it the sessions in ended.            *)
Release(c, ended) ==
  /\ sessions' = sessions \ ended
  /\ handle' = [handle EXCEPT ![c] = NoSession]
  /\ raised' = raised \ {c}

(* A crash takes every connection of the program with it.                  *)
Crash ==
  /\ running' = FALSE
  /\ sessions' = {}
  /\ left' = {}
  /\ UNCHANGED <<stage, handle, raised, entry>>

Init ==
  /\ running = TRUE
  /\ stage = [c \in Caller |-> IF c = Main THEN "idle" ELSE "waiting"]
  /\ handle = [c \in Caller |-> NoSession]
  /\ sessions = {}
  /\ raised = {}
  /\ left = {}
  /\ entry \in [host : Host, id : ProcessID]

-----------------------------------------------------------------------------
(* Connecting.                                                             *)

NewSessions == Session \ (sessions \cup {handle[c] : c \in Caller})

Connect(c) ==
  /\ Ask(c, "connecting")
  /\ \E s \in NewSessions :
       /\ s = CHOOSE n \in NewSessions : TRUE
       /\ sessions' = sessions \cup {s}
       /\ handle' = [handle EXCEPT ![c] = s]
  /\ GoTo(c, "naming")
  /\ UNCHANGED <<raised, left>>

(* mysql_real_connect fails, at the latest when the connect timeout ends:  *)
(* the poll has no connection.                                             *)
ConnectFails(h) ==
  /\ Ask(h, "connecting")
  /\ GoTo(h, "failed")
  /\ UNCHANGED connections

KillConnectFailsSlip ==
  /\ Ask(Main, "connecting")
  /\ GoTo(Main, "failed")
  /\ UNCHANGED connections

(* The kill goes on without one, and mysql_query dereferences it.          *)
KillConnectFails ==
  /\ running /\ stage[Main] = "connecting"
  /\ Crash

(* set names utf8 has no timeout, and its failure no consequence.          *)
SetCharacterSet(c) ==
  /\ Ask(c, "naming")
  /\ GoTo(c, IF c = Main THEN "killing" ELSE "queries")
  /\ UNCHANGED connections

-----------------------------------------------------------------------------
(* The poll of a host.                                                     *)

ClearUpdates(h) ==
  /\ Ask(h, "waiting") /\ LogFree(h)
  /\ GoTo(h, "connecting")
  /\ UNCHANGED connections

(* After the queries come slaves' replication, statistics on some polls,   *)
(* and the end.                                                            *)
AfterStatus == {"closing"}
AfterSlave == {"status"} \cup AfterStatus
AfterQueries(h) == IF h \in Slave THEN {"slave"} ELSE AfterSlave
Following(h) == CASE stage[h] \in {"queries", "logging"} -> AfterQueries(h)
                  [] stage[h] \in {"slave", "lagging"}   -> AfterSlave
                  [] stage[h] = "status"                 -> AfterStatus

(* Queries and lag, if there are any to show, go to the log.               *)
Logged == [queries |-> {"logging"}, slave |-> {"lagging"}, status |-> {}]
Requests == DOMAIN Logged

Answered(h) ==
  /\ stage[h] \in Requests /\ Ask(h, stage[h])
  /\ handle[h] \in sessions
  /\ \E next \in Following(h) \cup Logged[stage[h]] : GoTo(h, next)
  /\ UNCHANGED connections

(* A failed request is caught, and the poll goes on with its connection.   *)
RequestFails(h) ==
  /\ stage[h] \in Requests /\ Ask(h, stage[h])
  /\ \E next \in Following(h) : GoTo(h, next)
  /\ raised' = raised \cup {h}
  /\ UNCHANGED <<handle, sessions, left>>

(* The columns of a missing row, or a result that is lost after the query  *)
(* succeeded, are read all the same.                                       *)
ResultMissing(h) ==
  /\ running /\ stage[h] \in Requests \ {"queries"}
  /\ handle[h] \in sessions
  /\ Crash

UpdateLog(h) ==
  /\ stage[h] \in {"logging", "lagging"} /\ Ask(h, stage[h])
  /\ LogFree(h)
  /\ \E next \in Following(h) : GoTo(h, next)
  /\ UNCHANGED connections

ForceDisconnectSlip(h) ==
  /\ Ask(h, "closing")
  /\ Release(h, Dealloc(h))
  /\ GoTo(h, "discarding")
  /\ UNCHANGED left

(* The poll disconnects, then lets its connection go.                      *)
ForceDisconnect(h) ==
  /\ Ask(h, "closing")
  /\ Release(h, {handle[h]} \cup Dealloc(h))
  /\ GoTo(h, "discarding")
  /\ UNCHANGED left

UpdateMySQLFail(h) ==
  /\ Ask(h, "failed") /\ LogFree(h)
  /\ GoTo(h, "discarding")
  /\ UNCHANGED connections

DiscardMySQLDead(h) ==
  /\ running /\ stage[h] = "discarding" /\ LogFree(h)
  /\ \E id \in IF entry.host = h THEN {entry.id, "Dead Process"} ELSE {entry.id} :
       entry' = [entry EXCEPT !.id = id]
  /\ GoTo(h, "posted")
  /\ UNCHANGED <<running, connections>>

(* The block that queues the next poll needs the main thread.              *)
PollAgain(h) ==
  /\ Ask(h, "posted") /\ stage[Main] = "idle"
  /\ GoTo(h, "waiting")
  /\ UNCHANGED connections

-----------------------------------------------------------------------------
(* The kill.                                                               *)

(* The user confirms, whatever the entry is by now; and from here on the   *)
(* main thread has no time for blocks.                                     *)
KillEnded ==
  /\ running /\ stage[Main] = "idle"
  /\ Cardinality(left) < MaxLeft
  /\ entry' \in [host : Host, id : ProcessID]
  /\ GoTo(Main, "confirmed")
  /\ UNCHANGED <<running, connections>>

(* It waits for the lock, and polls may rename the entry meanwhile.        *)
KillLocks ==
  /\ Ask(Main, "confirmed") /\ LogFree(Main)
  /\ GoTo(Main, "connecting")
  /\ UNCHANGED connections

KillProcess ==
  /\ Ask(Main, "killing")
  /\ handle[Main] \in sessions /\ entry.id = "process"
  /\ Release(Main, Dealloc(Main))
  /\ GoTo(Main, "idle")
  /\ UNCHANGED left

(* The exception that nobody catches keeps the connection as it is.        *)
KillFails ==
  /\ Ask(Main, "killing")
  /\ left' = left \cup ({handle[Main]} \cap sessions)
  /\ Release(Main, {})
  /\ GoTo(Main, "idle")

(* A server ends a session: it shuts down, or has waited long enough.      *)
SessionEnds(s) ==
  /\ running /\ s \in sessions
  /\ sessions' = sessions \ {s}
  /\ left' = left \ {s}
  /\ UNCHANGED <<running, stage, handle, raised, entry>>

-----------------------------------------------------------------------------
Connecting(h) == Connect(h) \/ ConnectFails(h)
Answering(h) == SetCharacterSet(h) \/ Answered(h) \/ RequestFails(h) \/ ResultMissing(h)
Working(h) ==
  \/ ClearUpdates(h) \/ UpdateLog(h) \/ ForceDisconnect(h)
  \/ UpdateMySQLFail(h) \/ DiscardMySQLDead(h) \/ PollAgain(h)
Killing == SetCharacterSet(Main) \/ KillProcess \/ KillFails

Next ==
  \/ \E h \in Host : Connecting(h) \/ Answering(h) \/ Working(h)
  \/ KillEnded \/ KillLocks \/ Connect(Main) \/ KillConnectFails \/ Killing
  \/ \E s \in Session : SessionEnds(s)

(* Threads run, connecting has a timeout, and the hosts that do not hang   *)
(* answer.                                                                 *)
Fairness ==
  /\ \A h \in Host : WF_vars(Connecting(h)) /\ WF_vars(Working(h))
  /\ \A h \in Host \ Hung : WF_vars(Answering(h))
  /\ WF_vars(KillLocks) /\ WF_vars(Connect(Main) \/ KillConnectFails)
  /\ WF_vars(entry.host \notin Hung /\ Killing)

Spec == Init /\ [][Next]_vars
FairSpec == Spec /\ Fairness

-----------------------------------------------------------------------------
(* A session that a server holds for the monitor serves a poll or a kill   *)
(* that is at work, or was left behind by a kill that raised: whatever     *)
(* requests failed, polls leave none (DBMDocument.m:376-384, :483).        *)
SessionsAccounted ==
  \A s \in sessions : s \in left \/ \E c \in Caller : handle[c] = s

(* A host that answers is polled for ever, although another hangs.  Only a *)
(* crash stops its polls, a kill at a host that hangs, which keeps the lock*)
(* and the main thread, or a user who never stops killing: a kill at a host*)
(* that answers holds them up for a while (DBMDocument.m:370-403, :481).   *)
PollsRepeat ==
  \A h \in Host \ Hung :
    \/ []<>(stage[h] = "connecting")
    \/ <>~running
    \/ <>[](stage[Main] # "idle" /\ entry.host \in Hung)
    \/ []<>(stage[Main] # "idle") /\ []<>(stage[Main] = "idle")
================================================================================
