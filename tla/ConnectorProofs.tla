---------------------------- MODULE ConnectorProofs ----------------------------
(* Proofs about the monitor's connections, for any hosts, any number of    *)
(* which hang, and any number of sessions.                                 *)
EXTENDS Connector, TLAPS

(* Where a connection is in use.                                           *)
Connected == {"naming", "queries", "logging", "slave", "lagging", "status",
              "closing", "killing"}

(* A connection exists only while it is in use; two never share a session, *)
(* and none is of a session left behind.                                   *)
HandleInv ==
  /\ \A c \in Caller : handle[c] # NoSession => stage[c] \in Connected
  /\ \A c \in Caller : handle[c] \notin left
  /\ \A c, d \in Caller : handle[c] = handle[d] /\ handle[c] # NoSession => c = d

IInv == TypeOK /\ SessionsAccounted /\ HandleInv

USE HostAssumption, MainAssumption, SessionAssumption
    DEF Caller, PollStage, KillStage, ProcessID, connections

-----------------------------------------------------------------------------
(* The monitor starts with no connection and no kill.                      *)
LEMMA InitInv == Init => IInv
BY DEF Init, IInv, TypeOK, SessionsAccounted, HandleInv

(* What no step changes stays true.                                        *)
LEMMA StutterInv == IInv /\ UNCHANGED vars => IInv'
BY DEF vars, IInv, TypeOK, SessionsAccounted, HandleInv

(* A step of a poll that leaves every connection and the kill alone.       *)
LEMMA PollMoves ==
  ASSUME IInv, NEW h \in Host, NEW next \in PollStage, GoTo(h, next),
         handle[h] = NoSession \/ next \in Connected,
         UNCHANGED <<running, handle, sessions, left, entry>>,
         raised' \in SUBSET Host
  PROVE  IInv'
<1>1. TypeOK'
  BY DEF IInv, TypeOK, GoTo
<1>3. SessionsAccounted'
  BY DEF IInv, SessionsAccounted
<1>4. HandleInv'
  BY DEF IInv, TypeOK, HandleInv, GoTo
<1> QED BY <1>1, <1>3, <1>4 DEF IInv

(* A crash leaves no session to account for.                               *)
LEMMA CrashInv == ASSUME IInv, Crash PROVE IInv'
BY DEF IInv, Crash, TypeOK, SessionsAccounted, HandleInv

-----------------------------------------------------------------------------
(* A new connection has a session that no other has and no kill left.      *)
LEMMA ConnectInv == ASSUME IInv, NEW c \in Caller, Connect(c) PROVE IInv'
<1>1. PICK s \in NewSessions : /\ sessions' = sessions \cup {s}
                               /\ handle' = [handle EXCEPT ![c] = s]
  BY DEF Connect
<1>2. /\ s \in Session /\ s \notin sessions /\ \A d \in Caller : handle[d] # s
      /\ s # NoSession
  BY <1>1 DEF NewSessions
<1>3. /\ stage[c] = "connecting" /\ stage' = [stage EXCEPT ![c] = "naming"]
      /\ UNCHANGED <<running, raised, left, entry>>
  BY DEF Connect, Ask, GoTo
<1>4. handle[c] = NoSession
  BY <1>3 DEF IInv, HandleInv, Connected
<1>5. TypeOK'
  BY <1>1, <1>2, <1>3 DEF IInv, TypeOK
<1>6. SessionsAccounted'
  <2>1. handle'[c] = s /\ \A d \in Caller \ {c} : handle'[d] = handle[d]
    BY <1>1 DEF IInv, TypeOK
  <2>2. SUFFICES ASSUME NEW t \in sessions', t # s
                 PROVE  t \in left' \/ \E d \in Caller : handle'[d] = t
    BY <2>1 DEF SessionsAccounted
  <2>3. t \in sessions /\ t # NoSession /\ left' = left
    BY <1>1, <1>3, <2>2 DEF IInv, TypeOK
  <2>4. t \in left \/ \E d \in Caller : handle[d] = t
    BY <2>3 DEF IInv, SessionsAccounted
  <2> QED BY <1>4, <2>1, <2>3, <2>4
<1>7. HandleInv'
  <2>1. \A d \in Caller : handle'[d] = IF d = c THEN s ELSE handle[d]
    BY <1>1 DEF IInv, TypeOK
  <2>2. s \notin left
    BY <1>2 DEF IInv, TypeOK
  <2>3. \A d \in Caller : handle'[d] # NoSession => stage'[d] \in Connected
    BY <1>3, <2>1 DEF IInv, TypeOK, HandleInv, Connected
  <2> QED BY <1>2, <1>3, <2>1, <2>2, <2>3 DEF IInv, HandleInv
<1> QED BY <1>5, <1>6, <1>7 DEF IInv

(* Letting a connection go and ending its session leaves no other's.       *)
LEMMA ReleaseInv ==
  ASSUME IInv, NEW c \in Caller, Release(c, {handle[c]}),
         UNCHANGED <<left, entry>>, UNCHANGED running,
         NEW next, GoTo(c, next),
         IF c = Main THEN next = "idle" ELSE next \in PollStage
  PROVE  IInv'
<1>1. /\ \A d \in Caller : handle'[d] = IF d = c THEN NoSession ELSE handle[d]
      /\ \A d \in Caller : stage'[d] = IF d = c THEN next ELSE stage[d]
  BY DEF IInv, TypeOK, Release, GoTo
<1>2. TypeOK'
  <2>1. left' \subseteq sessions'
    <3>1. left \subseteq sessions /\ handle[c] \notin left
      BY DEF IInv, TypeOK, HandleInv
    <3>2. left' = left /\ sessions' = sessions \ {handle[c]}
      BY DEF Release
    <3> QED BY <3>1, <3>2
  <2>2. stage' \in [Caller -> PollStage \cup KillStage]
    BY DEF IInv, TypeOK, GoTo
  <2>3. handle' \in [Caller -> Session \cup {NoSession}]
    BY DEF IInv, TypeOK, Release
  <2> QED BY <1>1, <2>1, <2>2, <2>3 DEF IInv, TypeOK, Release
<1>3. SessionsAccounted'
  BY <1>1 DEF IInv, TypeOK, SessionsAccounted, Release
<1>4. HandleInv'
  <2>1. NoSession \notin left /\ left' = left
    BY DEF IInv, TypeOK
  <2>2. \A d \in Caller : handle'[d] # NoSession => stage'[d] \in Connected
    BY <1>1 DEF IInv, HandleInv
  <2>3. \A d \in Caller : handle'[d] \notin left'
    BY <1>1, <2>1 DEF IInv, HandleInv
  <2>4. \A d, e \in Caller : handle'[d] = handle'[e] /\ handle'[d] # NoSession => d = e
    BY <1>1 DEF IInv, HandleInv
  <2> QED BY <2>2, <2>3, <2>4 DEF HandleInv
<1> QED BY <1>2, <1>3, <1>4 DEF IInv

(* A poll that goes on from a request stays among the stages of a poll.    *)
LEMMA FollowingStages ==
  ASSUME NEW h \in Host,
         stage[h] \in {"queries", "logging", "slave", "lagging", "status"}
  PROVE  Following(h) \subseteq PollStage \cap Connected
BY DEF Following, AfterQueries, AfterSlave, AfterStatus, Connected

-----------------------------------------------------------------------------
(* A poll that connects holds its new session, or none.                    *)
LEMMA ConnectingInv == ASSUME IInv, NEW h \in Host, Connecting(h) PROVE IInv'
<1>1. CASE Connect(h)
  BY <1>1, ConnectInv
<1>2. CASE ConnectFails(h)
  <2>1. /\ stage[h] = "connecting" /\ GoTo(h, "failed") /\ raised' \in SUBSET Host
        /\ UNCHANGED <<running, handle, sessions, left, entry>>
    BY <1>2 DEF ConnectFails, Ask, IInv, TypeOK
  <2>2. handle[h] = NoSession
    BY <2>1 DEF IInv, HandleInv, Connected
  <2> QED BY <2>1, <2>2, PollMoves
<1> QED BY <1>1, <1>2 DEF Connecting

(* A request, answered or not, leaves the poll its session.                *)
LEMMA AnsweringInv == ASSUME IInv, NEW h \in Host, Answering(h) PROVE IInv'
<1>1. CASE SetCharacterSet(h)
  <2>1. /\ GoTo(h, "queries") /\ raised' \in SUBSET Host
        /\ UNCHANGED <<running, handle, sessions, left, entry>>
    BY <1>1 DEF SetCharacterSet, Ask, IInv, TypeOK
  <2> QED BY <2>1, PollMoves DEF Connected
<1>2. CASE Answered(h)
  <2>1. /\ stage[h] \in {"queries", "slave", "status"} /\ raised' \in SUBSET Host
        /\ UNCHANGED <<running, handle, sessions, left, entry>>
    BY <1>2 DEF Answered, Ask, Requests, Logged, IInv, TypeOK
  <2>2. PICK next \in Following(h) \cup Logged[stage[h]] : GoTo(h, next)
    BY <1>2 DEF Answered
  <2>3. next \in PollStage /\ next \in Connected
    BY <2>1, <2>2, FollowingStages DEF Logged, Connected
  <2> QED BY <2>1, <2>2, <2>3, PollMoves
<1>3. CASE RequestFails(h)
  <2>1. /\ stage[h] \in {"queries", "slave", "status"} /\ raised' \in SUBSET Host
        /\ UNCHANGED <<running, handle, sessions, left, entry>>
    BY <1>3 DEF RequestFails, Ask, Requests, Logged, IInv, TypeOK
  <2>2. PICK next \in Following(h) : GoTo(h, next)
    BY <1>3 DEF RequestFails
  <2>3. next \in PollStage /\ next \in Connected
    BY <2>1, <2>2, FollowingStages
  <2> QED BY <2>1, <2>2, <2>3, PollMoves
<1>4. CASE ResultMissing(h)
  BY <1>4, CrashInv DEF ResultMissing
<1> QED BY <1>1, <1>2, <1>3, <1>4 DEF Answering

(* What a poll does by itself: it is ForceDisconnect that gives up a       *)
(* session, and takes it from the server.                                  *)
LEMMA WorkingInv == ASSUME IInv, NEW h \in Host, Working(h) PROVE IInv'
<1>1. CASE ClearUpdates(h)
  <2>1. /\ stage[h] = "waiting" /\ GoTo(h, "connecting") /\ raised' \in SUBSET Host
        /\ UNCHANGED <<running, handle, sessions, left, entry>>
    BY <1>1 DEF ClearUpdates, Ask, IInv, TypeOK
  <2>2. handle[h] = NoSession
    BY <2>1 DEF IInv, HandleInv, Connected
  <2> QED BY <2>1, <2>2, PollMoves
<1>2. CASE UpdateLog(h)
  <2>1. /\ stage[h] \in {"logging", "lagging"} /\ raised' \in SUBSET Host
        /\ UNCHANGED <<running, handle, sessions, left, entry>>
    BY <1>2 DEF UpdateLog, Ask, IInv, TypeOK
  <2>2. PICK next \in Following(h) : GoTo(h, next)
    BY <1>2 DEF UpdateLog
  <2>3. next \in PollStage /\ next \in Connected
    BY <2>1, <2>2, FollowingStages
  <2> QED BY <2>1, <2>2, <2>3, PollMoves
<1>3. CASE ForceDisconnect(h)
  <2>1. {handle[h]} \cup Dealloc(h) = {handle[h]}
    BY DEF Dealloc
  <2>2. /\ Release(h, {handle[h]}) /\ GoTo(h, "discarding")
        /\ UNCHANGED <<left, entry>> /\ UNCHANGED running
    BY <1>3, <2>1 DEF ForceDisconnect, Ask
  <2> QED BY <2>2, ReleaseInv
<1>4. CASE UpdateMySQLFail(h)
  <2>1. /\ stage[h] = "failed" /\ GoTo(h, "discarding") /\ raised' \in SUBSET Host
        /\ UNCHANGED <<running, handle, sessions, left, entry>>
    BY <1>4 DEF UpdateMySQLFail, Ask, IInv, TypeOK
  <2>2. handle[h] = NoSession
    BY <2>1 DEF IInv, HandleInv, Connected
  <2> QED BY <2>1, <2>2, PollMoves
<1>5. CASE DiscardMySQLDead(h)
  <2>1. PICK id \in {entry.id, "Dead Process"} : entry' = [entry EXCEPT !.id = id]
    BY <1>5 DEF DiscardMySQLDead
  <2>2. /\ stage[h] = "discarding" /\ stage' = [stage EXCEPT ![h] = "posted"]
        /\ UNCHANGED <<running, handle, sessions, raised, left>>
    BY <1>5 DEF DiscardMySQLDead, GoTo
  <2>3. handle[h] = NoSession
    BY <2>2 DEF IInv, HandleInv, Connected
  <2>4. TypeOK'
    BY <2>1, <2>2 DEF IInv, TypeOK
  <2>5. SessionsAccounted'
    BY <2>2 DEF IInv, SessionsAccounted
  <2>6. HandleInv'
    BY <2>2, <2>3 DEF IInv, TypeOK, HandleInv
  <2> QED BY <2>4, <2>5, <2>6 DEF IInv
<1>6. CASE PollAgain(h)
  <2>1. /\ stage[h] = "posted" /\ GoTo(h, "waiting") /\ raised' \in SUBSET Host
        /\ UNCHANGED <<running, handle, sessions, left, entry>>
    BY <1>6 DEF PollAgain, Ask, IInv, TypeOK
  <2>2. handle[h] = NoSession
    BY <2>1 DEF IInv, HandleInv, Connected
  <2> QED BY <2>1, <2>2, PollMoves
<1> QED BY <1>1, <1>2, <1>3, <1>4, <1>5, <1>6 DEF Working

(* A kill that is confirmed, or has the lock, has no connection yet.       *)
LEMMA KillBegins ==
  ASSUME IInv, stage[Main] \in {"idle", "confirmed"},
         NEW next \in KillStage, GoTo(Main, next),
         entry' \in [host : Host, id : ProcessID],
         UNCHANGED <<running, connections>>
  PROVE  IInv'
<1>1. handle[Main] = NoSession
  BY DEF IInv, HandleInv, Connected
<1>2. TypeOK'
  BY DEF IInv, TypeOK, GoTo
<1>3. SessionsAccounted'
  BY DEF IInv, SessionsAccounted
<1>4. HandleInv'
  BY <1>1 DEF IInv, TypeOK, HandleInv, GoTo
<1> QED BY <1>2, <1>3, <1>4 DEF IInv

(* A kill ends its session or leaves it behind, and none goes astray.      *)
LEMMA KillingInv == ASSUME IInv, Killing PROVE IInv'
<1>1. CASE SetCharacterSet(Main)
  <2>1. /\ stage[Main] = "naming" /\ stage' = [stage EXCEPT ![Main] = "killing"]
        /\ UNCHANGED <<running, handle, sessions, raised, left, entry>>
    BY <1>1 DEF SetCharacterSet, Ask, GoTo
  <2>2. TypeOK'
    BY <2>1 DEF IInv, TypeOK
  <2>3. SessionsAccounted'
    BY <2>1 DEF IInv, SessionsAccounted
  <2>4. HandleInv'
    BY <2>1 DEF IInv, TypeOK, HandleInv, Connected
  <2> QED BY <2>2, <2>3, <2>4 DEF IInv
<1>2. CASE KillProcess
  <2>1. Dealloc(Main) = {handle[Main]}
    BY DEF Dealloc, IInv, TypeOK
  <2>2. /\ Release(Main, {handle[Main]}) /\ GoTo(Main, "idle")
        /\ UNCHANGED <<left, entry>> /\ UNCHANGED running
    BY <1>2, <2>1 DEF KillProcess, Ask
  <2> QED BY <2>2, ReleaseInv
<1>3. CASE KillFails
  <2>1. /\ stage' = [stage EXCEPT ![Main] = "idle"]
        /\ handle' = [handle EXCEPT ![Main] = NoSession]
        /\ sessions' = sessions /\ raised' = raised \ {Main}
        /\ left' = left \cup ({handle[Main]} \cap sessions)
        /\ UNCHANGED <<running, entry>>
    BY <1>3 DEF KillFails, Ask, GoTo, Release
  <2>2. \A c \in Caller : /\ handle'[c] = IF c = Main THEN NoSession ELSE handle[c]
                          /\ stage'[c] = IF c = Main THEN "idle" ELSE stage[c]
    BY <2>1 DEF IInv, TypeOK
  <2>3. TypeOK'
    <3>1. left' \subseteq sessions' /\ sessions' \subseteq Session
      BY <2>1 DEF IInv, TypeOK
    <3>2. stage' \in [Caller -> PollStage \cup KillStage]
      BY <2>1 DEF IInv, TypeOK
    <3>3. handle' \in [Caller -> Session \cup {NoSession}]
      BY <2>1 DEF IInv, TypeOK
    <3> QED BY <2>1, <2>2, <3>1, <3>2, <3>3 DEF IInv, TypeOK
  <2>4. SessionsAccounted'
    BY <2>1, <2>2 DEF IInv, SessionsAccounted
  <2>5. HandleInv'
    <3>1. NoSession \notin left'
      BY <2>1 DEF IInv, TypeOK
    <3>2. ASSUME NEW c \in Host PROVE handle'[c] \notin left'
      <4>1. handle'[c] = handle[c] /\ c # Main
        BY <2>2
      <4>2. handle[c] = handle[Main] => handle[c] = NoSession
        BY <4>1 DEF IInv, HandleInv
      <4> QED BY <2>1, <3>1, <4>1, <4>2 DEF IInv, HandleInv
    <3> QED BY <2>2, <3>1, <3>2 DEF IInv, HandleInv
  <2> QED BY <2>3, <2>4, <2>5 DEF IInv
<1> QED BY <1>1, <1>2, <1>3 DEF Killing

(* A session that the server ends needs no account.                        *)
LEMMA SessionEndsInv == ASSUME IInv, NEW s \in Session, SessionEnds(s) PROVE IInv'
<1>1. TypeOK'
  BY DEF IInv, SessionEnds, TypeOK
<1>2. SessionsAccounted'
  BY DEF IInv, SessionEnds, SessionsAccounted
<1>3. HandleInv'
  BY DEF IInv, SessionEnds, HandleInv
<1> QED BY <1>1, <1>2, <1>3 DEF IInv

(* Every step preserves the invariant.                                     *)
LEMMA NextInv == IInv /\ [Next]_vars => IInv'
<1> SUFFICES ASSUME IInv, [Next]_vars PROVE IInv'
  OBVIOUS
<1>1. ASSUME NEW h \in Host, Connecting(h) \/ Answering(h) \/ Working(h) PROVE IInv'
  BY <1>1, ConnectingInv, AnsweringInv, WorkingInv
<1>2. CASE KillEnded \/ KillLocks
  BY <1>2, KillBegins DEF KillEnded, KillLocks, Ask, IInv, TypeOK
<1>3. CASE Connect(Main)
  BY <1>3, ConnectInv
<1>4. CASE KillConnectFails
  BY <1>4, CrashInv DEF KillConnectFails
<1>5. CASE Killing
  BY <1>5, KillingInv
<1>6. ASSUME NEW s \in Session, SessionEnds(s) PROVE IInv'
  BY <1>6, SessionEndsInv
<1>7. CASE UNCHANGED vars
  BY <1>7, StutterInv
<1> QED BY <1>1, <1>2, <1>3, <1>4, <1>5, <1>6, <1>7 DEF Next

(* The inductive invariant holds in every state of the specification.      *)
THEOREM Invariance == Spec => []IInv
BY InitInv, NextInv, PTL DEF Spec

-----------------------------------------------------------------------------
(* The connector's state has its types in every reachable state.           *)
THEOREM TypeCorrect == Spec => []TypeOK
<1>1. IInv => TypeOK
  BY DEF IInv
<1> QED BY <1>1, Invariance, PTL

(* However requests fail, each session at a server is in use, or a kill    *)
(* that raised left it (DBMDocument.m:376-384, :483).                      *)
THEOREM PollsLeaveNoSession == Spec => []SessionsAccounted
<1>1. IInv => SessionsAccounted
  BY DEF IInv
<1> QED BY <1>1, Invariance, PTL
================================================================================
