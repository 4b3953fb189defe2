-------------------------- MODULE StatusPanelProofs --------------------------
(***************************************************************************)
(* Theorems about StatusPanel, for any hosts and any number of reloads.    *)
(***************************************************************************)
EXTENDS StatusPanel, TLAPS

(* No two hosts have hostnames that read alike.                            *)
Distinct ==
  \A g, h \in Host : TextOf[NameOf[g]] = TextOf[NameOf[h]] => g = h

-----------------------------------------------------------------------------
(* Types.                                                                  *)

(* An entry identifies its host, and so does a loop.                       *)
LEMMA HostOfType == ASSUME NEW d \in Detail PROVE HostOf(d) \in Host
BY DEF Detail, HostOf

(* The entries of some hosts, made in one reload, are entries.             *)
LEMMA MadeEntries ==
  ASSUME NEW hosts \in SUBSET Host, NEW n \in 1 .. MaxReloads
  PROVE  hosts \X {n} \subseteq Detail
BY DEF Detail

(* A new entry has the type of an entry.                                   *)
LEMMA NewDetailType == NewDetail \in DetailEntry
BY WidthAssumption, LimitAssumption DEF NewDetail, DetailEntry, PollsBetween

(* Taking a poll out of the polls keeps their type.                        *)
LEMMA EndedType ==
  ASSUME TypeOK, NEW l, Ended(l)
  PROVE  DOMAIN poll' \subseteq going /\ poll' \in [DOMAIN poll' -> Poll]
BY DEF TypeOK, Ended

(* A poll is that of a host.                                               *)
LEMMA LoopHost ==
  ASSUME TypeOK, NEW l \in DOMAIN poll PROVE HostOf(l) \in Host
BY HostOfType DEF TypeOK, Loop

(* Giving entries the numbers of a host keeps their type.                  *)
LEMMA GiveType ==
  ASSUME TypeOK, NEW entries, NEW h \in Host, Give(entries, h)
  PROVE  detail' \in [Detail -> DetailEntry]
BY DEF TypeOK, Give, DetailEntry

(* myEntry is an entry of the panel, or nil.                               *)
LEMMA FoundType ==
  ASSUME TypeOK, NEW h, NEW d \in Found(h)
  PROVE  d \in Detail \cup {Nobody}
BY DEF TypeOK, Found, Matching

(* Each step keeps the types.                                              *)
LEMMA TypeStep == TypeOK /\ [Next]_vars => TypeOK'
<1> SUFFICES ASSUME TypeOK, [Next]_vars PROVE TypeOK' OBVIOUS
<1>1. ASSUME NEW l \in going, PollStart(l) PROVE TypeOK'
  BY <1>1, LimitAssumption DEF PollStart, TypeOK, Poll, servers
<1>2. ASSUME NEW l \in DOMAIN poll, PollQueries(l) PROVE TypeOK'
  <2>1. HostOf(l) \in Host BY LoopHost
  <2>2. detail' \in [Detail -> DetailEntry]
    BY <1>2, <2>1, GiveType DEF PollQueries, TypeOK
  <2>3. AfterQueries(HostOf(l)) \in {"slave", "find"}
    BY DEF AfterQueries
  <2> QED BY <1>2, <2>2, <2>3 DEF PollQueries, Moved, TypeOK, Poll, servers
<1>3. ASSUME NEW l \in DOMAIN poll, PollSlave(l) PROVE TypeOK'
  <2>1. HostOf(l) \in Host BY LoopHost
  <2>2. detail' \in [Detail -> DetailEntry]
    BY <1>3, <2>1, GiveType DEF PollSlave, TypeOK
  <2> QED BY <1>3, <2>2 DEF PollSlave, Moved, TypeOK, Poll, servers
<1>4. ASSUME NEW l \in DOMAIN poll, PollFind(l) PROVE TypeOK'
  BY <1>4, FoundType DEF PollFind, TypeOK, Poll, servers
<1>5. ASSUME NEW l \in DOMAIN poll, PollTest(l) PROVE TypeOK'
  BY <1>5 DEF PollTest, Moved, TypeOK, Poll, servers
<1>6. ASSUME NEW l \in DOMAIN poll, PollRequest(l) PROVE TypeOK'
  <2>1. CASE Ended(l)
    BY <1>6, <2>1, EndedType DEF PollRequest, TypeOK, servers
  <2>2. CASE poll' = [poll EXCEPT ![l].at = "apply",
                                  ![l].sample = moment[HostOf(l)]]
    BY <1>6, <2>2 DEF PollRequest, TypeOK, Poll, servers
  <2> QED BY <1>6, <2>1, <2>2 DEF PollRequest
<1>7. ASSUME NEW l \in DOMAIN poll, PollApply(l) PROVE TypeOK'
  <2>1. PollsBetween \in 0 .. Width - 1
    BY WidthAssumption DEF PollsBetween
  <2>2. detail' \in [Detail -> DetailEntry]
    BY <1>7, <2>1, LoopHost DEF PollApply, TypeOK, Poll, DetailEntry
  <2> QED BY <1>7, <2>2, EndedType DEF PollApply, TypeOK, servers
<1>8. ASSUME NEW l \in DOMAIN poll, PollCount(l) PROVE TypeOK'
  <2>1. \A n \in 0 .. Width - 1 :
          (IF n = 0 THEN Width - 1 ELSE n - 1) \in 0 .. Width - 1
    BY WidthAssumption
  <2> DEFINE n == detail[poll[l].held].pollsLeftBeforeStatus
             left == IF n = 0 THEN Width - 1 ELSE n - 1
  <2>2. detail' \in [Detail -> DetailEntry]
    <3>1. CASE poll[l].held \in Detail
      <4>1. n \in 0 .. Width - 1 BY <3>1 DEF TypeOK, DetailEntry
      <4>2. left \in 0 .. Width - 1 BY <2>1, <4>1
      <4>3. detail' = [detail EXCEPT ![poll[l].held].pollsLeftBeforeStatus = left]
        BY <1>8 DEF PollCount
      <4> HIDE DEF left
      <4> QED BY <3>1, <4>2, <4>3 DEF TypeOK, DetailEntry
    <3>2. CASE poll[l].held \notin Detail
      BY <1>8, <3>2 DEF PollCount, TypeOK
    <3> QED BY <3>1, <3>2
  <2> QED BY <1>8, <2>2, EndedType DEF PollCount, TypeOK, servers
<1>9. ASSUME NEW hosts \in SUBSET Host, Rebuild(hosts) PROVE TypeOK'
  <2>1. reloads + 1 \in 1 .. MaxReloads
    BY <1>9, LimitAssumption DEF Rebuild, TypeOK
  <2>2. detail' \in [Detail -> DetailEntry]
    BY <1>9, NewDetailType DEF Rebuild, Kept, TypeOK
  <2>3. hosts \X {reloads + 1} \subseteq Detail BY <2>1, MadeEntries
  <2> QED BY <1>9, <2>1, <2>2, <2>3 DEF Rebuild, Loop, TypeOK, servers
<1>10. ASSUME NEW h \in Host, Change(h) PROVE TypeOK'
  BY <1>10, LimitAssumption DEF Change, TypeOK
<1>11. ASSUME NEW h \in Host, Connectivity(h) PROVE TypeOK'
  BY <1>11 DEF Connectivity, TypeOK
<1>12. ASSUME NEW l \in going, EndLoop(l) PROVE TypeOK'
  BY <1>12 DEF EndLoop, TypeOK, servers
<1>13. ASSUME UNCHANGED vars PROVE TypeOK'
  BY <1>13 DEF vars, servers, TypeOK
<1> QED
  BY <1>1, <1>2, <1>3, <1>4, <1>5, <1>6, <1>7, <1>8, <1>9, <1>10, <1>11,
     <1>12, <1>13 DEF Next, PollStep

(* The entries, the loops, the polls and the servers keep their types.     *)
THEOREM TypeCorrect == Spec => []TypeOK
<1>1. Init => TypeOK
  BY NewDetailType, LimitAssumption DEF Init, TypeOK
<1> QED BY <1>1, TypeStep, PTL DEF Spec

-----------------------------------------------------------------------------
(* Polls and the entries they hold.                                        *)

(* A poll holds no other host's entry.                                     *)
HeldInv ==
  \A l \in DOMAIN poll :
    poll[l].held \in Detail => HostOf(poll[l].held) = HostOf(l)

(* A poll goes on with what it holds or has just found.                    *)
GoesOn(q) ==
  /\ q \in DOMAIN poll
  /\ \/ poll'[q].held = poll[q].held
     \/ poll'[q].held \in Found(HostOf(q))

(* Or it is new, and holds nothing.                                        *)
IsNew(q) ==
  /\ q \notin DOMAIN poll
  /\ poll'[q].held = Nobody

(* Only the poll that takes a step changes, or leaves.                     *)
LEMMA OthersStay ==
  ASSUME TypeOK, NEW l \in DOMAIN poll, PollStep(l)
  PROVE  /\ DOMAIN poll' \subseteq DOMAIN poll
         /\ DOMAIN poll \ {l} \subseteq DOMAIN poll'
         /\ \A q \in DOMAIN poll' : q # l => poll'[q] = poll[q]
<1>1. CASE Ended(l) BY <1>1 DEF Ended
<1>2. CASE \E r : poll' = [poll EXCEPT ![l] = r] BY <1>2 DEF TypeOK
<1>3. ASSUME NEW at, Moved(l, at) PROVE \E r : poll' = [poll EXCEPT ![l] = r]
  BY <1>3 DEF Moved
<1>4. ASSUME PollFind(l) PROVE \E r : poll' = [poll EXCEPT ![l] = r]
  BY <1>4 DEF PollFind
<1>5. ASSUME PollRequest(l)
      PROVE  Ended(l) \/ \E r : poll' = [poll EXCEPT ![l] = r]
  BY <1>5 DEF PollRequest
<1> QED
  BY <1>1, <1>2, <1>3, <1>4, <1>5
     DEF PollStep, PollQueries, PollSlave, PollTest, PollApply, PollCount

(* The poll that takes a step finds its entry, at most.                    *)
LEMMA OwnStep ==
  ASSUME TypeOK, NEW l \in DOMAIN poll, PollStep(l), l \in DOMAIN poll'
  PROVE  \/ poll'[l].held = poll[l].held
         \/ poll'[l].held \in Found(HostOf(l))
<1> USE DEF TypeOK, Poll
<1>1. ASSUME NEW at, Moved(l, at) PROVE poll'[l].held = poll[l].held
  BY <1>1 DEF Moved
<1>2. ~Ended(l) BY DEF Ended
<1>3. CASE PollFind(l) BY <1>3 DEF PollFind
<1>4. CASE PollRequest(l) BY <1>2, <1>4 DEF PollRequest
<1> QED
  BY <1>1, <1>2, <1>3, <1>4
     DEF PollStep, PollQueries, PollSlave, PollTest, PollApply, PollCount

(* Each poll after a step went on or is new.                               *)
LEMMA PollsEvolve ==
  ASSUME TypeOK, [Next]_vars, NEW q \in DOMAIN poll'
  PROVE  GoesOn(q) \/ IsNew(q)
<1>1. ASSUME NEW l \in going, PollStart(l) PROVE GoesOn(q) \/ IsNew(q)
  BY <1>1 DEF PollStart, GoesOn, IsNew
<1>2. ASSUME NEW l \in DOMAIN poll, PollStep(l) PROVE GoesOn(q)
  BY <1>2, OthersStay, OwnStep DEF GoesOn
<1>3. CASE UNCHANGED poll BY <1>3 DEF GoesOn
<1> QED
  BY <1>1, <1>2, <1>3
     DEF Next, PollStep, EndLoop, Rebuild, Change, Connectivity, vars

(* What is found is the host's own.                                        *)
LEMMA FoundOwn ==
  ASSUME TypeOK, Distinct, NEW h \in Host, NEW d \in Detail, d \in Found(h)
  PROVE  HostOf(d) = h
BY HostOfType, NobodyAssumption DEF Found, Matching, Distinct, TypeOK

(* Nothing but the host's own entries match, however they are compared.    *)
LEMMA MatchingOwn ==
  ASSUME TypeOK, Distinct, NEW h \in Host, NEW d \in Detail,
         d \in Matching(h) \cup MatchingPointer(h)
  PROVE  HostOf(d) = h
BY HostOfType DEF Matching, MatchingPointer, Distinct

(* Each step keeps HeldInv.                                                *)
LEMMA HeldStep ==
  ASSUME Distinct, TypeOK, HeldInv, [Next]_vars PROVE HeldInv'
<1> SUFFICES ASSUME NEW q \in DOMAIN poll', poll'[q].held \in Detail
             PROVE  HostOf(poll'[q].held) = HostOf(q)
  BY DEF HeldInv, Detail, HostOf
<1>1. CASE GoesOn(q)
  <2>1. HostOf(q) \in Host BY <1>1, LoopHost DEF GoesOn
  <2> QED BY <1>1, <2>1, FoundOwn DEF GoesOn, HeldInv
<1>2. CASE IsNew(q) BY <1>2, NobodyAssumption DEF IsNew
<1> QED BY <1>1, <1>2, PollsEvolve

-----------------------------------------------------------------------------
(* Whose numbers an entry shows.                                           *)

(* No entry, in the panel or not, has another host's numbers.              *)
GivenInv == \A d \in Detail : detail[d].given \subseteq {HostOf(d)}

(* Each step keeps GivenInv.                                               *)
LEMMA GivenStep ==
  ASSUME Distinct, TypeOK, HeldInv, GivenInv, [Next]_vars PROVE GivenInv'
<1> SUFFICES ASSUME NEW d \in Detail
             PROVE  detail'[d].given \subseteq {HostOf(d)}
  BY DEF GivenInv, Detail, HostOf
<1>0. detail[d].given \subseteq {HostOf(d)} BY DEF GivenInv
<1>1. ASSUME NEW h \in Host, NEW entries, Give(entries, h),
             d \in entries => HostOf(d) = h
      PROVE  detail'[d].given \subseteq {HostOf(d)}
  BY <1>0, <1>1 DEF Give, TypeOK, DetailEntry
<1>2. ASSUME NEW l \in DOMAIN poll, PollQueries(l) \/ PollSlave(l)
      PROVE  detail'[d].given \subseteq {HostOf(d)}
  <2>1. HostOf(l) \in Host BY LoopHost
  <2> QED
    BY <1>0, <1>1, <1>2, <2>1, MatchingOwn DEF PollQueries, PollSlave
<1>3. ASSUME NEW l \in DOMAIN poll, PollApply(l)
      PROVE  detail'[d].given \subseteq {HostOf(d)}
  BY <1>0, <1>3 DEF PollApply, HeldInv, TypeOK, DetailEntry
<1>4. ASSUME NEW l \in DOMAIN poll, PollCount(l)
      PROVE  detail'[d].given \subseteq {HostOf(d)}
  BY <1>0, <1>4 DEF PollCount, TypeOK, DetailEntry
<1>5. ASSUME NEW hosts, Rebuild(hosts)
      PROVE  detail'[d].given \subseteq {HostOf(d)}
  BY <1>0, <1>5 DEF Rebuild, Kept, NewDetail
<1>6. ASSUME UNCHANGED detail PROVE detail'[d].given \subseteq {HostOf(d)}
  BY <1>0, <1>6
<1> QED
  BY <1>2, <1>3, <1>4, <1>5, <1>6
     DEF Next, PollStart, PollStep, PollFind, PollTest, PollRequest, EndLoop,
         Change, Connectivity, vars

(* Where no two hostnames read alike, an entry shows its own host's        *)
(* numbers, however polls overlap and whenever the panel is rebuilt.       *)
THEOREM OwnNumbersShown == ASSUME Distinct PROVE Spec => []OwnNumbers
<1>1. Init => TypeOK /\ HeldInv /\ GivenInv
  BY NewDetailType, LimitAssumption
     DEF Init, TypeOK, HeldInv, GivenInv, NewDetail
<1>2. TypeOK /\ HeldInv /\ GivenInv /\ [Next]_vars
        => (TypeOK /\ HeldInv /\ GivenInv)'
  BY TypeStep, HeldStep, GivenStep
<1>3. TypeOK /\ GivenInv => OwnNumbers BY DEF TypeOK, GivenInv, OwnNumbers
<1> QED BY <1>1, <1>2, <1>3, PTL DEF Spec
=============================================================================
