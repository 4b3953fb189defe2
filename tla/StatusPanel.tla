----------------------------- MODULE StatusPanel -----------------------------
(***************************************************************************)
(* The status panel of a DBMDocument: detailList, the DBMDetailEntry       *)
(* objects in it, and the polls that fill them in.                         *)
(*                                                                         *)
(* A poll finds its entry under the lock, and then reads how many polls    *)
(* the entry is to let pass before the next sample, asks the server for    *)
(* one and at last applies it, all without having kept the lock.  A reload *)
(* may have thrown the entry out of the list meanwhile, and has started a  *)
(* second loop of polls for the host: the loops are those of PollLoops.    *)
(*                                                                         *)
(* A poll that does not connect never gets to the panel, so that a poll    *)
(* begins here when it has connected.                                      *)
(*                                                                         *)
(* A definition named ...Slip is the one after it as a mistake in the code *)
(* would have made it: TLC refutes a property once it takes its place.     *)
(***************************************************************************)
EXTENDS Naturals

CONSTANTS
  Host,        \* the MySQLHost objects
  Name,        \* the NSString objects that hold their hostnames
  NameOf,      \* which one each holds
  Text,        \* what hostnames can read
  TextOf,      \* what each of the strings reads
  Slave,       \* the hosts marked as replication slaves
  Nobody,      \* nil: no entry
  Width,       \* how many values an NSUInteger has
  MaxMoment,   \* bound on the changes of a server's counters
  MaxReloads   \* bound on the number of times reloadDataWatchers runs

(* The number of polls that pass between two samples.                      *)
PollsBetween == 2

ASSUME TextAssumption ==
  /\ NameOf \in [Host -> Name]
  /\ TextOf \in [Name -> Text]
  /\ Slave \subseteq Host
ASSUME WidthAssumption == Width \in Nat /\ Width > PollsBetween
ASSUME LimitAssumption == MaxMoment \in Nat /\ MaxReloads \in Nat

(* A reload makes one entry and one loop for each active host, so that a   *)
(* host and a reload identify either.                                      *)
Detail == Host \X (1 .. MaxReloads)
Loop == Detail

ASSUME NobodyAssumption == Nobody \notin Detail

VARIABLES
  detailList,  \* the entries in the panel
  detail,      \* what every entry holds
  going,       \* the loops that go on, one poll at a time
  poll,        \* the polls under way: a function on a subset of Loop
  reloads,     \* how many times the panel has been rebuilt
  moment,      \* how many times each server's counters have changed
  up           \* whether each server can be reached

servers == <<moment, up>>
vars == <<detailList, detail, going, poll, reloads, servers>>

(* Whose numbers an entry has been given (active queries, slave status or  *)
(* statistics), the polls left before the next sample, and the moments of  *)
(* its last two samples, whose difference makes the rates.                 *)
DetailEntry == [given                 : SUBSET Host,
                pollsLeftBeforeStatus : 0 .. Width - 1,
                last                  : 0 .. MaxMoment,
                current               : 0 .. MaxMoment]

Poll == [at     : {"queries", "slave", "find", "test", "request", "apply",
                   "count"},
         held   : Detail \cup {Nobody},   \* myEntry
         sample : 0 .. MaxMoment]         \* serverStatus

TypeOK ==
  /\ detailList \subseteq Detail
  /\ detail \in [Detail -> DetailEntry]
  /\ going \subseteq Loop
  /\ DOMAIN poll \subseteq going /\ poll \in [DOMAIN poll -> Poll]
  /\ reloads \in 0 .. MaxReloads
  /\ moment \in [Host -> 0 .. MaxMoment]
  /\ up \in [Host -> BOOLEAN]

-----------------------------------------------------------------------------
HostOf(d) == d[1]

(* The fields of an entry are zero or nil at first.                        *)
NewDetail == [given |-> {}, pollsLeftBeforeStatus |-> 0,
              last |-> 0, current |-> 0]

(* Some methods compare hostnames by what they read, others as pointers.   *)
Matching(h) ==
  {d \in detailList : TextOf[NameOf[HostOf(d)]] = TextOf[NameOf[h]]}

MatchingPointer(h) == {d \in detailList : NameOf[HostOf(d)] = NameOf[h]}

(* myEntry: the last match counts, and sorting puts any of them last.      *)
Found(h) == IF Matching(h) = {} THEN {Nobody} ELSE Matching(h)

(* No panel and no loop until the nib is loaded.                           *)
Init ==
  /\ detailList = {}
  /\ detail = [d \in Detail |-> NewDetail]
  /\ going = {}
  /\ poll = [l \in {} |-> l]
  /\ reloads = 0
  /\ moment = [h \in Host |-> 0]
  /\ up \in [Host -> BOOLEAN]

-----------------------------------------------------------------------------
(* The polls that have connected.                                          *)

Moved(l, at) == poll' = [poll EXCEPT ![l].at = at]

Ended(l) == poll' = [k \in DOMAIN poll \ {l} |-> poll[k]]

Give(entries, h) ==
  detail' = [d \in Detail |->
               IF d \in entries THEN [detail[d] EXCEPT !.given = @ \cup {h}]
               ELSE detail[d]]

AfterQueries(h) == IF h \in Slave THEN "slave" ELSE "find"

(* The next poll of a loop starts when its last one is over, whatever the  *)
(* polls of other loops are doing.                                         *)
PollStart(l) ==
  /\ l \in going \ DOMAIN poll
  /\ up[HostOf(l)]
  /\ poll' = [k \in DOMAIN poll \cup {l} |->
                IF k = l THEN [at |-> "queries", held |-> Nobody, sample |-> 0]
                ELSE poll[k]]
  /\ UNCHANGED <<detailList, detail, going, reloads, servers>>

(* updateMySQLQueries returns early if the process list cannot be read.    *)
PollQueries(l) ==
  LET h == HostOf(l)
  IN  /\ poll[l].at = "queries"
      /\ \/ up[h] /\ Give(Matching(h), h)
         \/ ~up[h] /\ UNCHANGED detail
      /\ Moved(l, AfterQueries(h))
      /\ UNCHANGED <<detailList, going, reloads, servers>>

(* So does updateMySQLSlaveStatus.                                         *)
PollSlave(l) ==
  LET h == HostOf(l)
  IN  /\ poll[l].at = "slave"
      /\ \/ up[h] /\ Give(MatchingPointer(h), h)
         \/ ~up[h] /\ UNCHANGED detail
      /\ Moved(l, "find")
      /\ UNCHANGED <<detailList, going, reloads, servers>>

(* updateMySQLStatistics.                                                  *)
PollFind(l) ==
  /\ poll[l].at = "find"
  /\ \E d \in Found(HostOf(l)) :
       poll' = [poll EXCEPT ![l].at = "test", ![l].held = d]
  /\ UNCHANGED <<detailList, detail, going, reloads, servers>>

(* The countdown is read without the lock; nil has zero polls left.        *)
PollTest(l) ==
  LET held == poll[l].held
  IN  /\ poll[l].at = "test"
      /\ Moved(l, IF held = Nobody \/ detail[held].pollsLeftBeforeStatus < 1
                    THEN "request" ELSE "count")
      /\ UNCHANGED <<detailList, detail, going, reloads, servers>>

PollRequest(l) ==
  LET h == HostOf(l)
  IN  /\ poll[l].at = "request"
      /\ \/ /\ up[h]
            /\ poll' = [poll EXCEPT ![l].at = "apply", ![l].sample = moment[h]]
         \/ ~up[h] /\ Ended(l)
      /\ UNCHANGED <<detailList, detail, going, reloads, servers>>

PollApplySlip(l) ==
  LET held == poll[l].held
  IN  /\ poll[l].at = "apply"
      /\ IF held = Nobody
           THEN UNCHANGED detail
           ELSE detail' = [detail EXCEPT
                             ![held].given    = @ \cup {HostOf(l)},
                             ![held].last     = poll[l].sample,
                             ![held].pollsLeftBeforeStatus = PollsBetween]
      /\ Ended(l)
      /\ UNCHANGED <<detailList, going, reloads, servers>>

(* The entry may be out of the list by now; messages to nil do nothing.    *)
PollApply(l) ==
  LET held == poll[l].held
  IN  /\ poll[l].at = "apply"
      /\ IF held = Nobody
           THEN UNCHANGED detail
           ELSE detail' = [detail EXCEPT
                             ![held].given    = @ \cup {HostOf(l)},
                             ![held].last     = detail[held].current,
                             ![held].current  = poll[l].sample,
                             ![held].pollsLeftBeforeStatus = PollsBetween]
      /\ Ended(l)
      /\ UNCHANGED <<detailList, going, reloads, servers>>

PollCountSlip(l) ==
  /\ poll[l].at = "count"
  /\ detail' = [detail EXCEPT ![poll[l].held].pollsLeftBeforeStatus = @ + 1]
  /\ Ended(l)
  /\ UNCHANGED <<detailList, going, reloads, servers>>

(* The countdown is unsigned: below zero it wraps round.                   *)
PollCount(l) ==
  /\ poll[l].at = "count"
  /\ detail' = [detail EXCEPT ![poll[l].held].pollsLeftBeforeStatus =
                                IF @ = 0 THEN Width - 1 ELSE @ - 1]
  /\ Ended(l)
  /\ UNCHANGED <<detailList, going, reloads, servers>>

PollStep(l) ==
  /\ l \in DOMAIN poll
  /\ \/ PollQueries(l)
     \/ PollSlave(l)
     \/ PollFind(l)
     \/ PollTest(l)
     \/ PollRequest(l)
     \/ PollApply(l)
     \/ PollCount(l)

-----------------------------------------------------------------------------
(* The reloads.                                                            *)

Held == {poll[l].held : l \in DOMAIN poll}

(* What an entry holds is gone once no poll holds the entry.               *)
Kept == [d \in Detail |-> IF d \in Held THEN detail[d] ELSE NewDetail]

(* A reload puts new entries for the active hosts in place of the old ones,*)
(* and then starts their loops: each has its first poll some time later.   *)
Rebuild(hosts) ==
  /\ reloads < MaxReloads
  /\ reloads' = reloads + 1
  /\ detailList' = hosts \X {reloads + 1}
  /\ going' = going \cup hosts \X {reloads + 1}
  /\ detail' = Kept
  /\ UNCHANGED <<poll, servers>>

(* A loop that was cancelled, when the sheet opened or by a reload, ends   *)
(* after its poll, or goes on for ever: PollLoops leaves that open.        *)
EndLoop(l) ==
  /\ l \notin DOMAIN poll
  /\ going' = going \ {l}
  /\ UNCHANGED <<detailList, detail, poll, reloads, servers>>

-----------------------------------------------------------------------------
(* The counters of a server grow, or start again with the server.          *)
Change(h) ==
  /\ moment[h] < MaxMoment
  /\ moment' = [moment EXCEPT ![h] = @ + 1]
  /\ UNCHANGED <<detailList, detail, going, poll, reloads, up>>

Connectivity(h) ==
  /\ up' = [up EXCEPT ![h] = ~@]
  /\ UNCHANGED <<detailList, detail, going, poll, reloads, moment>>

Next ==
  \/ \E l \in going : PollStart(l) \/ EndLoop(l)
  \/ \E l \in Loop : PollStep(l)
  \/ \E hosts \in SUBSET Host : Rebuild(hosts)
  \/ \E h \in Host : Change(h) \/ Connectivity(h)

(* A loop that goes on starts its next poll, and polls come to an end.     *)
Fairness ==
  \A l \in Loop : WF_vars(PollStart(l)) /\ WF_vars(PollStep(l))

Spec == Init /\ [][Next]_vars
FairSpec == Spec /\ Fairness

-----------------------------------------------------------------------------
(* Each entry in the panel shows the numbers of its own host, and of no    *)
(* other, whatever reloads come between finding the entry and applying.    *)
OwnNumbers ==
  \A d \in detailList : detail[d].given \subseteq {HostOf(d)}

-----------------------------------------------------------------------------
(* Liveness, under FairSpec.                                               *)

(* The server answers and the host's only loop is that of the last reload. *)
Settled(h) == up[h] /\ {l \in going : HostOf(l) = h} = {<<h, reloads>>}

(* Its countdown has wrapped round: sampling waits for Width polls.        *)
Wrapped(h) ==
  \E d \in detailList :
    HostOf(d) = h /\ detail[d].pollsLeftBeforeStatus > PollsBetween

(* A poll is about to apply a sample to an entry of the host in the panel. *)
Sampled(h) ==
  \E d \in detailList :
    /\ HostOf(d) = h
    /\ \E l \in DOMAIN poll : poll[l].at = "apply" /\ poll[l].held = d

InOrder(h) ==
  \A d \in detailList : HostOf(d) = h => detail[d].last <= detail[d].current

(* Polls of two loops may share an entry after a reload, and the sample of *)
(* a slow one comes late.  Once the older loop has ended, and unless they  *)
(* have made the countdown wrap, the entry gets samples again and again,   *)
(* and in the order in which they were taken, so that its rates are right  *)
(* from some time on (DBMDocument.m:814-853).                              *)
StatusSettles ==
  \A h \in Host :
    <>[](Settled(h) /\ ~Wrapped(h)) => []<>Sampled(h) /\ <>[]InOrder(h)
=============================================================================
