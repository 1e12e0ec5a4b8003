------------------------------ MODULE SwarmProofs ------------------------------
(***************************************************************************)
(* StopReaches and RecordedFirst follow from Kept, which is inductive:     *)
(* what the host may have got has a record, and an unfailed stop has       *)
(* reached every record that it does not have to ask for any more.         *)
(***************************************************************************)
EXTENDS Swarm, FiniteSetTheorems, TLAPS

\* The host knows the task, and it has ended or was told to stop.
Reached(t) == host[t] # None /\ (host[t].told \/ host[t].state \in Ended)

\* Nothing goes on in a conversation that was deleted, and no turn in one that is about to be.
DeletedRests ==
  /\ ~alive => job = None /\ MutexFree
  /\ stop # None /\ stop.of = "deletion" => job = None

\* What was submitted, or is about to be, has a record.
SentRecorded ==
  alive => \A t \in Tasks :
    \/ t \in sent \/ t \in wire \/ host[t] # None
    \/ dispatch # None /\ t \in dispatch.submit
    => row[t] # None

\* A receipt that ended is the host's.
ReceiptsTrue ==
  \A t \in Tasks : row[t] # None /\ row[t].state \in Ended => Reached(t)

\* Where a stop of the conversation has nothing left to ask, the task is reached.
StopUnderWay ==
  stop # None /\ ~stop.failed /\ stop.of # "tasks" =>
    \A t \in Tasks : row[t] # None /\ t \notin stop.ask => Reached(t)

\* A confirmed stop has reached what it covers.
CoveredReached == \A t \in covered : Reached(t)

\* Records are counted one by one.
Counted ==
  \A reply \in 1..MaxReplies :
    IsFiniteSet(Recorded(reply)) /\ Cardinality(Recorded(reply)) <= Limit

Kept ==
  /\ TypeOK /\ (dispatch = None \/ stop = None)
  /\ DeletedRests /\ SentRecorded /\ ReceiptsTrue /\ StopUnderWay /\ CoveredReached /\ Counted

\* What an instance must satisfy beside its bounds, spelled out for the provers.
LEMMA NoneIsNoRecord ==
  ASSUME SwarmAssumption
  PROVE  None \notin Receipt /\ None \notin HostTask /\ None \notin Job
         /\ None \notin Dispatching /\ None \notin Stopping
  BY DEF SwarmAssumption

\* A receipt, or a task of the host, that is marked as told to stop keeps its state.
LEMMA MarkingKeepsState ==
  /\ \A r \in Receipt : LET marked == [r EXCEPT !.cancelled = TRUE]
                       IN  marked \in Receipt /\ marked.state = r.state
  /\ \A h \in HostTask : LET marked == [h EXCEPT !.told = TRUE]
                        IN  marked \in HostTask /\ marked.state = h.state /\ marked.told
  BY DEF Receipt, HostTask

\* A count depends on the records alone.
LEMMA SameRecordsCounted ==
  ASSUME Counted, \A t \in Tasks : row'[t] = None <=> row[t] = None
  PROVE  Counted'
<1>1. \A reply : Recorded(reply)' = Recorded(reply) BY DEF Recorded
<1> QED BY <1>1 DEF Counted

-----------------------------------------------------------------------------
(* The turns                                                                *)

\* A turn begins in a conversation that exists, with the mutex free.
LEMMA BeginKeeps ==
  ASSUME SwarmAssumption, Kept, NEW reply \in 1..MaxReplies, Begin(reply)
  PROVE  Kept'
<1> USE DEF Kept, Begin, MutexFree
<1>1. TypeOK' BY DEF TypeOK, Job, SwarmAssumption
<1>2. Counted' BY SameRecordsCounted
<1> QED BY <1>1, <1>2 DEF DeletedRests, SentRecorded, ReceiptsTrue, StopUnderWay,
           CoveredReached, Reached

\* A turn ends.
LEMMA EndKeeps ==
  ASSUME SwarmAssumption, Kept, End
  PROVE  Kept'
<1> USE DEF Kept, End, MutexFree
<1>1. TypeOK' BY DEF TypeOK
<1>2. Counted' BY SameRecordsCounted
<1> QED BY <1>1, <1>2 DEF DeletedRests, SentRecorded, ReceiptsTrue, StopUnderWay,
           CoveredReached, Reached

-----------------------------------------------------------------------------
(* Dispatch                                                                 *)

\* A dispatch takes the mutex: it has submitted nothing yet.
LEMMA DispatchKeeps ==
  ASSUME SwarmAssumption, Kept, NEW tasks \in SUBSET Tasks, Dispatch(tasks)
  PROVE  Kept'
<1> USE DEF Kept, Dispatch, MutexFree
<1>1. TypeOK' BY DEF TypeOK, Dispatching
<1>2. Counted' BY SameRecordsCounted
<1>3. SentRecorded' BY DEF SentRecorded
<1> QED BY <1>1, <1>2, <1>3 DEF DeletedRests, ReceiptsTrue, StopUnderWay, CoveredReached, Reached

\* A record is added below the limit only, and no other is touched.
LEMMA RecordCounts ==
  ASSUME SwarmAssumption, Kept, NEW t \in Tasks, Record(t)
  PROVE  Counted'
<1> USE DEF Kept, Record
<1>1. CASE Full(t.reply) \/ row[t] # None
  <2>1. row' = row BY <1>1 DEF TypeOK
  <2> QED BY <2>1, SameRecordsCounted
<1>2. CASE ~Full(t.reply) /\ row[t] = None
  <2> SUFFICES ASSUME NEW reply \in 1..MaxReplies
      PROVE  IsFiniteSet(Recorded(reply)') /\ Cardinality(Recorded(reply)') <= Limit
    BY DEF Counted
  <2> DEFINE receipt == [state |-> "unconfirmed", cancelled |-> FALSE]
  <2>0. receipt \in Receipt BY DEF Receipt
  <2>1. row' = [row EXCEPT ![t] = receipt] /\ row'[t] = receipt
    BY <1>2 DEF TypeOK
  <2>4. row'[t] # None BY <2>0, <2>1, NoneIsNoRecord
  <2>2. CASE reply # t.reply
    <3>1. Recorded(reply)' = Recorded(reply) BY <1>2, <2>2 DEF Recorded, TypeOK
    <3> QED BY <3>1 DEF Counted
  <2>3. CASE reply = t.reply
    <3>1. \A u \in Tasks : u # t => row'[u] = row[u] BY <1>2 DEF TypeOK
    <3>2. Recorded(reply)' = Recorded(reply) \cup {t} /\ t \notin Recorded(reply)
      BY <1>2, <2>4, <2>3, <3>1 DEF Recorded
    <3>3. IsFiniteSet(Recorded(reply)) /\ Cardinality(Recorded(reply)) \in Nat
          /\ Cardinality(Recorded(reply)) < Limit
      BY <1>2, <2>3, FS_CardinalityType DEF Counted, Full, SwarmAssumption
    <3>4. Limit \in Nat BY DEF SwarmAssumption
    <3>5. IsFiniteSet(Recorded(reply)')
          /\ Cardinality(Recorded(reply)') = Cardinality(Recorded(reply)) + 1
      BY <3>2, <3>3, FS_AddElement
    <3> QED BY <3>3, <3>4, <3>5
  <2> QED BY <2>2, <2>3
<1> QED BY <1>1, <1>2

\* What is to be submitted is recorded first; nothing else changes.
LEMMA RecordKeeps ==
  ASSUME SwarmAssumption, Kept, NEW t \in Tasks, Record(t)
  PROVE  Kept'
<1> USE NoneIsNoRecord DEF Kept, Record
<1>1. dispatch # None /\ dispatch \in Dispatching /\ stop = None /\ alive
  BY DEF TypeOK, DeletedRests, MutexFree
<1>2. \/ row'[t] # None /\ row' \in [Tasks -> Receipt \cup {None}]
      \/ Full(t.reply) /\ row' = row
  <2>2. CASE Full(t.reply) BY <2>2
  <2>3. CASE ~Full(t.reply)
    <3> DEFINE receipt == [state |-> "unconfirmed", cancelled |-> FALSE]
    <3>1. receipt \in Receipt BY DEF Receipt
    <3> HIDE DEF receipt
    <3>2. row' = [row EXCEPT ![t] = IF @ = None THEN receipt ELSE @] BY <2>3 DEF receipt
    <3> QED BY <3>1, <3>2 DEF TypeOK
  <2> QED BY <2>2, <2>3
<1>3. \A u \in Tasks : row[u] # None => row'[u] = row[u]
  BY DEF TypeOK
<1>4. \A u \in Tasks : row[u] = None /\ row'[u] # None => row'[u].state = "unconfirmed"
  BY DEF TypeOK
<1>5. TypeOK' BY <1>1, <1>2 DEF TypeOK, Dispatching
<1>6. SentRecorded'
  BY <1>1, <1>2, <1>3, <1>5 DEF SentRecorded, TypeOK, Dispatching
<1>7. ReceiptsTrue' BY <1>3, <1>4 DEF ReceiptsTrue, Reached, Ended
<1>8. Counted' BY RecordCounts
<1> QED BY <1>1, <1>5, <1>6, <1>7, <1>8 DEF DeletedRests, StopUnderWay, CoveredReached, Reached

\* A submission that is answered, or given up, was recorded before.
LEMMA SubmitKeeps ==
  ASSUME SwarmAssumption, Kept, NEW t \in Tasks, Submit(t) \/ SubmitLost(t)
  PROVE  Kept'
<1> USE NoneIsNoRecord DEF Kept, Submit, SubmitLost, Submitting, Answered, Taken
<1>1. dispatch \in Dispatching /\ t \in dispatch.submit /\ stop = None /\ alive
  BY DEF TypeOK, DeletedRests, MutexFree
<1>2. dispatch' \in Dispatching /\ dispatch'.submit \subseteq dispatch.submit
  BY <1>1 DEF Dispatching
<1>3. host' \in [Tasks -> HostTask \cup {None}]
  <2> DEFINE task == [state |-> "queued", told |-> FALSE]
  <2>1. task \in HostTask BY DEF HostTask
  <2> HIDE DEF task
  <2>2. host' = host \/ host' = [host EXCEPT ![t] = IF @ = None THEN task ELSE @] BY DEF task
  <2> QED BY <2>1, <2>2 DEF TypeOK
<1>4. \A u \in Tasks : host[u] # None => host'[u] = host[u] BY DEF TypeOK
<1>5. \A u \in Tasks : u # t => host'[u] = host[u] BY DEF TypeOK
<1>6. TypeOK' BY <1>2, <1>3 DEF TypeOK
<1>7. SentRecorded' BY <1>1, <1>2, <1>5 DEF SentRecorded, TypeOK
<1>8. ReceiptsTrue' BY <1>4 DEF ReceiptsTrue, Reached
<1>9. CoveredReached' BY <1>4 DEF CoveredReached, Reached, TypeOK
<1>10. Counted' BY SameRecordsCounted
<1>11. DeletedRests' BY <1>1 DEF DeletedRests
<1>12. StopUnderWay' BY <1>1 DEF StopUnderWay
<1> QED BY <1>1, <1>6, <1>7, <1>8, <1>9, <1>10, <1>11, <1>12

\* The dispatch gives the mutex back.
LEMMA DispatchedKeeps ==
  ASSUME SwarmAssumption, Kept, Dispatched
  PROVE  Kept'
<1> USE DEF Kept, Dispatched, MutexFree
<1>1. TypeOK' BY DEF TypeOK
<1>2. Counted' BY SameRecordsCounted
<1> QED BY <1>1, <1>2 DEF DeletedRests, SentRecorded, ReceiptsTrue, StopUnderWay,
           CoveredReached, Reached

-----------------------------------------------------------------------------
(* Stopping                                                                 *)

\* A stop asks for every record that has not ended: what it does not ask for is reached.
LEMMA StopKeeps ==
  ASSUME SwarmAssumption, Kept, NEW of \in {"conversation", "deletion", "tasks"},
         NEW tasks \in SUBSET Tasks, Stop(of, tasks)
  PROVE  Kept'
<1> DEFINE open == {t \in tasks : row[t] # None /\ row[t].state \notin Ended}
<1> USE NoneIsNoRecord DEF Kept, Stop, MutexFree
<1>1. /\ row' = [t \in Tasks |-> IF t \in open THEN [row[t] EXCEPT !.cancelled = TRUE] ELSE row[t]]
      /\ stop' = [of |-> of, ask |-> open, failed |-> FALSE]
  BY Zenon
<1>2. \A t \in Tasks : row'[t] \in Receipt \cup {None} /\ (row'[t] = None <=> row[t] = None)
  BY <1>1, MarkingKeepsState DEF TypeOK
<1>3. \A t \in Tasks : row[t] # None => row'[t].state = row[t].state
  BY <1>1, MarkingKeepsState DEF TypeOK
<1>4. stop' \in Stopping BY <1>1 DEF Stopping
<1>5. job' \in Job \cup {None} BY DEF TypeOK, Job
<1>6. TypeOK' BY <1>1, <1>2, <1>4, <1>5 DEF TypeOK
<1>7. ReceiptsTrue' BY <1>2, <1>3 DEF ReceiptsTrue, Reached
<1>8. StopUnderWay'
  <2> SUFFICES ASSUME of # "tasks", NEW t \in Tasks, row'[t] # None, t \notin open
      PROVE  Reached(t)'
    BY <1>1 DEF StopUnderWay
  <2>1. row[t] # None /\ row[t].state \in Ended BY <1>2
  <2> QED BY <2>1 DEF ReceiptsTrue, Reached
<1>9. Counted' BY <1>2, SameRecordsCounted
<1>10. SentRecorded' BY <1>2 DEF SentRecorded
<1> QED BY <1>6, <1>7, <1>8, <1>9, <1>10 DEF DeletedRests, CoveredReached, Reached

\* An answer that is no error comes from a host that knows the task, and tells it.
LEMMA AskKeeps ==
  ASSUME SwarmAssumption, Kept, NEW t \in Tasks, Ask(t) \/ AskLost(t)
  PROVE  Kept'
<1> USE NoneIsNoRecord DEF Kept, Ask, AskLost, Heard, Confirmed, Told
<1>1. stop \in Stopping /\ dispatch = None /\ alive BY DEF TypeOK, DeletedRests, MutexFree
<1>2. /\ stop' \in Stopping /\ stop'.of = stop.of /\ stop'.ask = stop.ask \ {t}
      /\ ~stop'.failed => ~stop.failed /\ host[t] # None /\ host'[t].told
  <2>1. CASE Ask(t)
    BY <1>1, <2>1, MarkingKeepsState DEF Stopping, TypeOK
  <2>2. CASE AskLost(t)
    BY <1>1, <2>2 DEF Stopping
  <2> QED BY <2>1, <2>2
<1>3. \A u \in Tasks : /\ host'[u] \in HostTask \cup {None}
                       /\ host[u] = None <=> host'[u] = None
                       /\ Reached(u) => Reached(u)'
  <2>1. host' = host \/ (host[t] # None /\ host' = Told(t)) OBVIOUS
  <2>2. CASE host' = host BY <2>2 DEF TypeOK, Reached
  <2>3. CASE host[t] # None /\ host' = Told(t)
    <3>1. host[t] \in HostTask BY <2>3 DEF TypeOK
    <3>2. host'[t] = [host[t] EXCEPT !.told = TRUE] BY <2>3 DEF TypeOK
    <3>3. host'[t] \in HostTask /\ host'[t].state = host[t].state /\ host'[t].told
      BY <3>1, <3>2, MarkingKeepsState
    <3>4. \A u \in Tasks : u # t => host'[u] = host[u] BY <2>3 DEF TypeOK
    <3> QED BY <2>3, <3>3, <3>4 DEF TypeOK, Reached
  <2> QED BY <2>1, <2>2, <2>3
<1>4. TypeOK'
  <2>1. host' = host \/ host' = Told(t) OBVIOUS
  <2> QED BY <1>2, <1>3, <2>1 DEF TypeOK
<1>5. StopUnderWay'
  <2> SUFFICES ASSUME ~stop'.failed, stop'.of # "tasks",
                      NEW u \in Tasks, row[u] # None, u \notin stop'.ask
      PROVE  Reached(u)'
    BY DEF StopUnderWay
  <2>1. CASE u = t BY <1>2, <1>3, <2>1 DEF Reached
  <2>2. CASE u # t BY <1>2, <1>3, <2>2 DEF StopUnderWay
  <2> QED BY <2>1, <2>2
<1>6. Counted' BY SameRecordsCounted
<1>7. SentRecorded' BY <1>3 DEF SentRecorded
<1>8. ReceiptsTrue' BY <1>3 DEF ReceiptsTrue
<1>9. CoveredReached' BY <1>3 DEF CoveredReached, TypeOK
<1> QED BY <1>1, <1>2, <1>4, <1>5, <1>6, <1>7, <1>8, <1>9 DEF DeletedRests

\* A stop that is confirmed covers what was submitted: all of it has a record.
LEMMA StoppedKeeps ==
  ASSUME SwarmAssumption, Kept, Stopped
  PROVE  Kept'
<1> DEFINE whole == ~stop.failed /\ stop.of # "tasks"
<1> USE NoneIsNoRecord DEF Kept, Stopped
<1>1. stop \in Stopping /\ dispatch = None /\ alive /\ stop.ask = {}
  BY DEF TypeOK, DeletedRests, MutexFree
<1>2. whole => \A t \in sent : Reached(t)
  BY <1>1 DEF StopUnderWay, SentRecorded, TypeOK
<1>3. CoveredReached' BY <1>2 DEF CoveredReached, Reached
<1>4. row' = [t \in Tasks |-> None] \/ row' = row OBVIOUS
<1>5. TypeOK' BY <1>4 DEF TypeOK
<1>6. Counted'
  <2>1. CASE row' = row BY <2>1, SameRecordsCounted
  <2>2. CASE row' = [t \in Tasks |-> None]
    <3>1. \A reply : Recorded(reply)' = {} BY <2>2 DEF Recorded
    <3> QED BY <3>1, FS_EmptySet DEF Counted, SwarmAssumption
  <2> QED BY <1>4, <2>1, <2>2
<1>7. ReceiptsTrue' BY <1>4 DEF ReceiptsTrue, Reached
<1>8. SentRecorded' BY <1>1, <1>4 DEF SentRecorded
<1>9. DeletedRests'
  <2>1. alive' = alive \/ stop.of = "deletion" OBVIOUS
  <2> QED BY <1>1, <2>1 DEF DeletedRests, MutexFree
<1> QED BY <1>1, <1>3, <1>5, <1>6, <1>7, <1>8, <1>9 DEF StopUnderWay

\* Whoever is dropped, or killed, leaves submissions on their way that were recorded before.
LEMMA DropKeeps ==
  ASSUME SwarmAssumption, Kept, Dropped \/ Crash
  PROVE  Kept'
<1> USE NoneIsNoRecord DEF Kept, Dropped, Crash
<1>1. PICK late \in SUBSET Submitting : wire' = wire \cup late /\ sent' = sent \cup late
  OBVIOUS
<1>2. late \subseteq Tasks
      /\ (late # {} => dispatch # None /\ alive /\ late \subseteq dispatch.submit)
  BY <1>1 DEF Submitting, TypeOK, Dispatching, DeletedRests, MutexFree
<1>3. TypeOK' BY <1>1, <1>2 DEF TypeOK
<1>4. SentRecorded' BY <1>1, <1>2 DEF SentRecorded
<1>5. Counted' BY SameRecordsCounted
<1> QED BY <1>3, <1>4, <1>5 DEF DeletedRests, MutexFree, ReceiptsTrue, StopUnderWay,
           CoveredReached, Reached

-----------------------------------------------------------------------------
(* The host                                                                 *)

\* A late submission was recorded, and changes no task that the host has.
LEMMA ArriveKeeps ==
  ASSUME SwarmAssumption, Kept, NEW t \in Tasks, Arrive(t)
  PROVE  Kept'
<1> DEFINE task == [state |-> "queued", told |-> FALSE]
<1> USE NoneIsNoRecord DEF Kept, Arrive
<1>1. task \in HostTask BY DEF HostTask
<1>2. host' = [host EXCEPT ![t] = IF @ = None THEN task ELSE @] BY DEF Taken
<1> HIDE DEF task
<1>3. host' \in [Tasks -> HostTask \cup {None}] BY <1>1, <1>2 DEF TypeOK
<1>4. \A u \in Tasks : host[u] # None => host'[u] = host[u] BY <1>2 DEF TypeOK
<1>5. \A u \in Tasks : u # t => host'[u] = host[u] BY <1>2 DEF TypeOK
<1>6. TypeOK' BY <1>3 DEF TypeOK
<1>7. SentRecorded' BY <1>5 DEF SentRecorded, TypeOK
<1>8. ReceiptsTrue' BY <1>4 DEF ReceiptsTrue, Reached
<1>9. StopUnderWay' BY <1>4 DEF StopUnderWay, Reached
<1>10. CoveredReached' BY <1>4 DEF CoveredReached, Reached, TypeOK
<1>11. Counted' BY SameRecordsCounted
<1> QED BY <1>6, <1>7, <1>8, <1>9, <1>10, <1>11 DEF DeletedRests, MutexFree

\* A device does not take a task back that has ended, nor one that was told to stop.
LEMMA WorkKeeps ==
  ASSUME SwarmAssumption, Kept, NEW t \in Tasks, NEW state \in {"running"} \cup Ended,
         Work(t, state)
  PROVE  Kept'
<1> USE NoneIsNoRecord DEF Kept, Work
<1>1. host[t] \in HostTask /\ host[t].state \notin Ended BY DEF TypeOK, Ended
<1>2. \A s \in {"running"} \cup Ended : LET moved == [host[t] EXCEPT !.state = s]
      IN  moved \in HostTask /\ moved.state = s /\ moved.told = host[t].told
  BY <1>1 DEF HostTask
<1>3. \A u \in Tasks : /\ host'[u] \in HostTask \cup {None}
                       /\ host[u] = None <=> host'[u] = None
                       /\ Reached(u) => Reached(u)'
  BY <1>1, <1>2 DEF TypeOK, Reached
<1>4. TypeOK' BY <1>3 DEF TypeOK
<1>5. SentRecorded' BY <1>3 DEF SentRecorded
<1>6. ReceiptsTrue' BY <1>3 DEF ReceiptsTrue
<1>7. StopUnderWay' BY <1>3 DEF StopUnderWay
<1>8. CoveredReached' BY <1>3 DEF CoveredReached, TypeOK
<1>9. Counted' BY SameRecordsCounted
<1> QED BY <1>4, <1>5, <1>6, <1>7, <1>8, <1>9 DEF DeletedRests, MutexFree

\* A receipt is kept when the host's task has ended.
LEMMA ReadKeeps ==
  ASSUME SwarmAssumption, Kept, NEW t \in Tasks, Read(t)
  PROVE  Kept'
<1> USE NoneIsNoRecord DEF Kept, Read
<1>1. \A s \in Ended : LET kept == [row[t] EXCEPT !.state = s]
      IN  kept \in Receipt /\ kept.state = s
  BY DEF TypeOK, Receipt
<1>2. \A u \in Tasks : /\ row'[u] \in Receipt \cup {None}
                       /\ row[u] = None <=> row'[u] = None
                       /\ u # t => row'[u] = row[u]
  BY <1>1 DEF TypeOK
<1>3. TypeOK' BY <1>2 DEF TypeOK
<1>4. SentRecorded' BY <1>2 DEF SentRecorded
<1>5. ReceiptsTrue' BY <1>2 DEF ReceiptsTrue, Reached
<1>6. StopUnderWay' BY <1>2 DEF StopUnderWay, Reached
<1>7. Counted' BY <1>2, SameRecordsCounted
<1> QED BY <1>3, <1>4, <1>5, <1>6, <1>7 DEF DeletedRests, MutexFree, CoveredReached, Reached

-----------------------------------------------------------------------------
(* The invariant and the theorems                                           *)

\* At first there is nothing.
LEMMA InitKept == SwarmAssumption /\ Init => Kept
<1> SUFFICES ASSUME SwarmAssumption, Init PROVE Kept OBVIOUS
<1>1. TypeOK BY DEF TypeOK, Init, SwarmAssumption
<1>2. \A reply : Recorded(reply) = {} BY DEF Recorded, Init
<1>3. Counted BY <1>2, FS_EmptySet DEF Counted, SwarmAssumption
<1> QED BY <1>1, <1>3 DEF Kept, Init, DeletedRests, SentRecorded, ReceiptsTrue, StopUnderWay,
           CoveredReached, MutexFree

\* Every step keeps Kept.
LEMMA NextKeeps == SwarmAssumption /\ Kept /\ [Next]_vars => Kept'
<1> SUFFICES ASSUME SwarmAssumption, Kept, [Next]_vars PROVE Kept' OBVIOUS
<1>1. CASE UNCHANGED vars
  <2>1. Counted' BY <1>1, SameRecordsCounted DEF vars, Kept
  <2> QED BY <1>1, <2>1 DEF vars, Kept, TypeOK, DeletedRests, SentRecorded, ReceiptsTrue,
             StopUnderWay, CoveredReached, Reached, MutexFree
<1>2. CASE \E reply \in 1..MaxReplies : Begin(reply) BY <1>2, BeginKeeps
<1>3. CASE End \/ Dispatched \/ Stopped \/ Dropped \/ Crash
  BY <1>3, EndKeeps, DispatchedKeeps, StoppedKeeps, DropKeeps
<1>4. CASE \E tasks \in SUBSET Tasks :
             Dispatch(tasks) \/ \E of \in {"conversation", "deletion", "tasks"} : Stop(of, tasks)
  BY <1>4, DispatchKeeps, StopKeeps
<1>5. CASE \E t \in Tasks : Record(t) \/ Submit(t) \/ SubmitLost(t) \/ Ask(t) \/ AskLost(t)
  BY <1>5, RecordKeeps, SubmitKeeps, AskKeeps
<1>6. CASE \E t \in Tasks : Arrive(t) \/ Read(t) \/ \E state \in {"running"} \cup Ended : Work(t, state)
  BY <1>6, ArriveKeeps, ReadKeeps, WorkKeeps
<1> QED BY <1>1, <1>2, <1>3, <1>4, <1>5, <1>6 DEF Next

\* Kept says what the properties of the device tasks say.
LEMMA KeptSuffices == SwarmAssumption /\ Kept => TypeOK /\ StopReaches /\ RecordedFirst
  BY DEF Kept, TypeOK, CoveredReached, Reached, StopReaches, SentRecorded, Counted, RecordedFirst

\* Every value stays of its type; a confirmed stop reaches what was submitted before it; and
\* what a device may be working on has a record (swarm_store.rs 13-29, 174-209).
THEOREM TasksTheorem ==
  ASSUME SwarmAssumption
  PROVE  Spec => [](TypeOK /\ StopReaches /\ RecordedFirst)
<1>1. Init => Kept BY InitKept
<1>2. Kept /\ [Next]_vars => Kept' BY NextKeeps
<1>3. Kept => TypeOK /\ StopReaches /\ RecordedFirst BY KeptSuffices
<1> QED BY <1>1, <1>2, <1>3, PTL DEF Spec
=============================================================================
