--------------------------- MODULE ContractProofs ---------------------------
(***************************************************************************)
(* Conversation implements TurnContract: every step of the backend is a    *)
(* step of the contract or changes nothing that the contract speaks of.    *)
(***************************************************************************)
EXTENDS ConversationContract, ConversationProofs

\* What the contract speaks of is unchanged when the rows and the history are.
LEMMA Stutters == UNCHANGED <<reply, question, lost>> => UNCHANGED Contract!vars
  BY DEF Contract!vars, shown, told

\* recover, and the start of the next process, interrupt generating turns.
LEMMA Interrupts ==
  ASSUME NEW S \in SUBSET Requests, \A r \in S : reply[r] = "generating",
         reply' = [r \in Requests |-> IF r \in S THEN "interrupted" ELSE reply[r]],
         UNCHANGED <<question, lost>>
  PROVE  Contract!Interrupt
<1>1. told' = told BY DEF told
<1>2. S \ lost \in SUBSET Contract!Generating BY DEF Contract!Generating, shown
<1>3. shown' = Contract!Become(S \ lost, "interrupted") BY DEF Contract!Become, shown
<1> QED BY <1>1, <1>2, <1>3 DEF Contract!Interrupt

\* A turn becomes a lost one; what was generating may be interrupted.
LEMMA Loses ==
  ASSUME NEW t \in Requests, t \notin lost, lost' = lost \cup {t},
         NEW S \in SUBSET Requests, \A r \in S : reply[r] = "generating",
         \A r \in Requests \ {t} : reply'[r] = IF r \in S THEN "interrupted" ELSE reply[r],
         \A q \in Questions : q[1] # t => question'[q] = question[q],
         \A r \in Requests : reply[r] # "unknown"
  PROVE  Contract!Lose(t)
<1>1. shown[t] # "unknown" BY DEF shown
<1>2. S \ lost \in SUBSET Contract!Generating BY DEF Contract!Generating, shown
<1>3. shown' = [Contract!Become(S \ lost, "interrupted") EXCEPT ![t] = "unknown"]
  BY DEF Contract!Become, shown
<1>4. told' = [q \in Questions |-> IF q[1] = t THEN "unknown" ELSE told[q]] BY DEF told
<1> QED BY <1>1, <1>2, <1>3, <1>4 DEF Contract!Lose, Contract!Questions, Questions

\* A turn becomes a lost one and nothing else changes.
LEMMA LosesOne ==
  ASSUME NEW t \in Requests, t \notin lost, lost' = lost \cup {t},
         \A r \in Requests \ {t} : reply'[r] = reply[r],
         \A q \in Questions : q[1] # t => question'[q] = question[q],
         \A r \in Requests : reply[r] # "unknown"
  PROVE  Contract!Lose(t)
<1> DEFINE S == {r \in Requests : FALSE}
<1>1. S \in SUBSET Requests /\ \A r \in S : reply[r] = "generating" OBVIOUS
<1>2. \A r \in Requests \ {t} : reply'[r] = IF r \in S THEN "interrupted" ELSE reply[r] OBVIOUS
<1> HIDE DEF S
<1> QED BY <1>1, <1>2, Loses

\* No row of the tables is in a state of the contract's own.
LEMMA Known == TypeOK => \A r \in Requests : reply[r] # "unknown"
  BY DEF TypeOK, Status, Settled

\* The turns of a conversation are the same in both.
LEMMA TurnsAgree == \A c : Contract!Turns(c) = Turns(c)
  BY DEF Contract!Turns, Turns

\* A message that arrives is a turn the contract has not seen.
LEMMA ReceiveRefines ==
  ASSUME Consistent, NEW r \in Requests, Receive(r)
  PROVE  Contract!Send(r)
<1>1. reply[r] = "none" /\ r \notin lost BY DEF Receive, Consistent, QueueInv
<1>2. shown' = [shown EXCEPT ![r] = "queued"] /\ told' = told
  BY <1>1 DEF Receive, history, shown, told, Consistent, TypeOK
<1> QED BY <1>1, <1>2 DEF Contract!Send, shown

\* A reply without a model ends a queued turn: the worker has not marked its row.
LEMMA WriteReplyRefines ==
  ASSUME Consistent, WriteReply
  PROVE  [Contract!Next]_(Contract!vars)
<1>1. row \in Requests BY DEF Consistent, WorkerInv, TypeOK, WriteReply, AtRow
<1>2. PICK s \in {"complete", "failed"} : reply' = [reply EXCEPT ![row] = s] BY DEF WriteReply
<1>3. UNCHANGED <<question, lost>> BY DEF WriteReply, history
<1>4. CASE row \in lost
  <2>1. shown' = shown /\ told' = told BY <1>1, <1>2, <1>3, <1>4 DEF shown, told, Consistent, TypeOK
  <2> QED BY <2>1 DEF Contract!vars
<1>5. CASE row \notin lost
  <2>1. reply[row] = "queued"
    BY <1>1, <1>5 DEF WriteReply, AtRow, Consistent, WorkerInv, QueueInv, TypeOK
  <2>2. shown' = [shown EXCEPT ![row] = s] /\ told' = told
    BY <1>1, <1>2, <1>3, <1>5 DEF shown, told, Consistent, TypeOK
  <2>3. Contract!Reply(row) BY <1>1, <1>5, <2>1, <2>2 DEF Contract!Reply, shown
  <2> QED BY <1>1, <2>3 DEF Contract!Next
<1> QED BY <1>4, <1>5

\* The four ways in which a turn starts generating, or is left so.
LEMMA StartRefines ==
  ASSUME Consistent, AtRow("respond"), MayStart(ConversationOf[row]),
         reply' = [Recovered(ConversationOf[row]) EXCEPT ![row] = "generating"],
         question' = question, lost' \in {lost, lost \cup {row}}
  PROVE  [Contract!Next]_(Contract!vars)
<1> DEFINE c == ConversationOf[row]
           S == {r \in Turns(c) \ {row} : reply[r] = "generating"}
<1>1. row \in Requests /\ c \in Conversations /\ row \in Turns(c)
  BY ConversationAssumption DEF Consistent, WorkerInv, TypeOK, AtRow, Turns
<1>2. row \in lost \/ reply[row] = "queued"
  BY <1>1 DEF AtRow, Consistent, WorkerInv, QueueInv, TypeOK
<1>3. reply' = [r \in Requests |-> IF r = row THEN "generating"
                                   ELSE IF r \in S THEN "interrupted" ELSE reply[r]]
  BY <1>1 DEF Recovered, MayStart
<1>4. S \in SUBSET Requests /\ \A r \in S : reply[r] = "generating" BY DEF Turns
<1>5. CASE row \in lost
  <2>1. lost' = lost BY <1>5
  <2>2. told' = told BY <2>1 DEF told
  <2>3. S \ lost \in SUBSET Contract!Generating BY <1>4 DEF Contract!Generating, shown
  <2>4. shown' = Contract!Become(S \ lost, "interrupted")
    BY <1>3, <1>5, <2>1 DEF Contract!Become, shown
  <2> QED BY <2>2, <2>3, <2>4 DEF Contract!Interrupt, Contract!Next
<1>6. CASE row \notin lost /\ lost' = lost \cup {row}
  <2>1. Contract!Lose(row) BY <1>1, <1>3, <1>4, <1>6, Loses, Known DEF Consistent
  <2> QED BY <1>1, <2>1 DEF Contract!Next
<1>7. CASE row \notin lost /\ lost' = lost
  <2>1. shown[row] = "queued" BY <1>1, <1>2, <1>7 DEF shown
  <2>2. ASSUME NEW s \in Turns(c) PROVE shown[s] # "awaiting_input"
    BY <1>1, <2>2 DEF MayStart, Consistent, QuestionMatchesReply, shown, Turns
  <2>3. Contract!Generating \cap Turns(c) = S \ lost
    BY <1>2, <1>7 DEF Contract!Generating, shown, Turns
  <2>4. shown' = [Contract!Become(S \ lost, "interrupted") EXCEPT ![row] = "generating"]
    BY <1>1, <1>3, <1>7 DEF Contract!Become, shown
  <2>5. told' = told BY <1>7 DEF told
  <2>6. Contract!Start(row)
    BY <2>1, <2>2, <2>3, <2>4, <2>5, TurnsAgree DEF Contract!Start
  <2> QED BY <1>1, <2>6 DEF Contract!Next
<1> QED BY <1>5, <1>6, <1>7

\* The question and its turn change together, or the turn is lost.
LEMMA SaveQuestionRefines ==
  ASSUME Consistent, NEW c \in Conversations, SaveQuestion(c) \/ SaveUnconfirmed(c)
  PROVE  [Contract!Next]_(Contract!vars)
<1>1. turn[c] \in Requests /\ phase[c] \in Working
  BY DEF SaveQuestion, SaveUnconfirmed, Consistent, JobsInv, HasJob, Turns, Working
<1>2. PICK k \in 1..MaxQuestions :
         /\ question[<<turn[c], k>>] = "none"
         /\ question' = [question EXCEPT ![<<turn[c], k>>] = "pending"]
  BY DEF SaveQuestion, SaveUnconfirmed, PutQuestion
<1>3. reply' = [reply EXCEPT ![turn[c]] = "awaiting_input"]
  BY DEF SaveQuestion, SaveUnconfirmed, PutQuestion
<1>4. lost' \in {lost, lost \cup {turn[c]}} BY DEF SaveQuestion, SaveUnconfirmed, history
<1>5. <<turn[c], k>> \in Questions BY <1>1 DEF Questions
<1>6. question \in [Questions -> QuestionState] /\ reply \in [Requests -> Status]
  BY DEF Consistent, TypeOK
<1>7. CASE turn[c] \in lost
  <2>1. lost' = lost BY <1>4, <1>7
  <2>2. shown' = shown BY <1>1, <1>3, <1>6, <1>7, <2>1 DEF shown
  <2>3. told' = told BY <1>2, <1>5, <1>6, <1>7, <2>1 DEF told
  <2> QED BY <2>2, <2>3 DEF Contract!vars
<1>8. CASE turn[c] \notin lost /\ lost' = lost \cup {turn[c]}
  <2>1. \A q \in Questions : q[1] # turn[c] => question'[q] = question[q]
    BY <1>2, <1>5, <1>6
  <2>2. Contract!Lose(turn[c])
    BY <1>1, <1>3, <1>6, <1>8, <2>1, LosesOne, Known DEF Consistent
  <2> QED BY <1>1, <2>2 DEF Contract!Next
<1>9. CASE turn[c] \notin lost /\ lost' = lost
  <2>1. reply[turn[c]] = "generating" BY <1>1, <1>9 DEF Consistent, JobOwnsReply
  <2>2. shown' = [shown EXCEPT ![turn[c]] = "awaiting_input"]
    BY <1>1, <1>3, <1>6, <1>9 DEF shown
  <2>3. told' = [told EXCEPT ![<<turn[c], k>>] = "pending"]
    <3>1. ASSUME NEW q \in Questions
          PROVE  told'[q] = IF q = <<turn[c], k>> THEN "pending" ELSE told[q]
      BY <1>2, <1>5, <1>6, <1>9 DEF told
    <3> QED BY <3>1 DEF told
  <2>4. told[<<turn[c], k>>] = "none" BY <1>2, <1>5, <1>9 DEF told
  <2>5. shown[turn[c]] = "generating" BY <1>1, <1>9, <2>1 DEF shown
  <2>6. Contract!Ask(turn[c]) BY <2>2, <2>3, <2>4, <2>5 DEF Contract!Ask
  <2> QED BY <1>1, <2>6 DEF Contract!Next
<1> QED BY <1>4, <1>7, <1>8, <1>9

\* The outcome of a task ends its turn, or the write was lost and the row stays.
LEMMA FinishRefines ==
  ASSUME Consistent, NEW c \in Conversations, Finish(c)
  PROVE  [Contract!Next]_(Contract!vars)
<1>1. turn[c] \in Requests /\ phase[c] \in Working
  BY DEF Finish, Consistent, JobsInv, HasJob, Turns, Working, Saving
<1>2. UNCHANGED <<question, lost>> BY DEF Finish, history
<1>3. told' = told BY <1>2 DEF told
<1>4. CASE reply' = reply \/ turn[c] \in lost
  <2>1. shown' = shown BY <1>1, <1>2, <1>4 DEF Finish, shown, Consistent, TypeOK
  <2> QED BY <1>3, <2>1 DEF Contract!vars
<1>5. CASE reply' = [reply EXCEPT ![turn[c]] = phase[c]] /\ turn[c] \notin lost
  <2>1. shown[turn[c]] = "generating" BY <1>1, <1>5 DEF Consistent, JobOwnsReply, shown
  <2>2. shown' = [shown EXCEPT ![turn[c]] = phase[c]]
    BY <1>1, <1>2, <1>5 DEF shown, Consistent, TypeOK
  <2>3. phase[c] \in Contract!Ended BY DEF Finish, Saving, Contract!Ended
  <2>4. Contract!End(turn[c]) BY <1>3, <2>1, <2>2, <2>3 DEF Contract!End
  <2> QED BY <1>1, <2>4 DEF Contract!Next
<1> QED BY <1>4, <1>5 DEF Finish

\* The second look at the question makes a late answer harmless.
LEMMA AnswerRefines ==
  ASSUME Consistent, AnswerCommits \/ AnswerUnconfirmed
  PROVE  [Contract!Next]_(Contract!vars)
<1> DEFINE q == lock[1]
           t == q[1]
<1>1. /\ q \in Questions /\ t \in Requests /\ lock[2] \in Answers /\ question[q] = "pending"
      /\ t \in Turns(ConversationOf[t]) /\ ConversationOf[t] \in Conversations
      /\ q \in Asked(ConversationOf[t])
  BY ConversationAssumption
     DEF AnswerCommits, AnswerUnconfirmed, AnswerApplies, Consistent, TypeOK, Questions, Turns, Asked
<1>2. /\ question' = [question EXCEPT ![q] = lock[2]] /\ reply' = [reply EXCEPT ![t] = "generating"]
      /\ lost' \in {lost, lost \cup {t}}
  BY DEF AnswerCommits, AnswerUnconfirmed, AnswerApplies, history
<1>3. question \in [Questions -> QuestionState] /\ reply \in [Requests -> Status]
  BY DEF Consistent, TypeOK
<1>4. CASE t \in lost
  <2>1. lost' = lost BY <1>2, <1>4
  <2>2. shown' = shown BY <1>1, <1>2, <1>3, <1>4, <2>1 DEF shown
  <2>3. told' = told BY <1>1, <1>2, <1>3, <1>4, <2>1 DEF told
  <2> QED BY <2>2, <2>3 DEF Contract!vars
<1>5. CASE t \notin lost /\ lost' = lost \cup {t}
  <2>1. \A p \in Questions : p[1] # t => question'[p] = question[p] BY <1>1, <1>2, <1>3
  <2>2. Contract!Lose(t) BY <1>1, <1>2, <1>3, <1>5, <2>1, LosesOne, Known DEF Consistent
  <2> QED BY <1>1, <2>2 DEF Contract!Next
<1>6. CASE t \notin lost /\ lost' = lost
  <2>1. shown[t] = "awaiting_input"
    BY <1>1, <1>6 DEF Consistent, QuestionMatchesReply, shown
  <2>2. told[q] = "pending" BY <1>1, <1>6 DEF told
  <2>3. shown' = [shown EXCEPT ![t] = "generating"] BY <1>1, <1>2, <1>3, <1>6 DEF shown
  <2>4. told' = [told EXCEPT ![q] = lock[2]]
    <3>1. ASSUME NEW p \in Questions PROVE told'[p] = IF p = q THEN lock[2] ELSE told[p]
      BY <1>1, <1>2, <1>3, <1>6 DEF told
    <3> QED BY <1>1, <3>1 DEF told
  <2>5. Contract!Answer(q, lock[2]) BY <2>1, <2>2, <2>3, <2>4 DEF Contract!Answer
  <2> QED BY <1>1, <2>5 DEF Contract!Next, Contract!Questions, Questions
<1> QED BY <1>2, <1>4, <1>5, <1>6

\* A stop cancels the question together with the turn that waits for it.
LEMMA StopCancelsRefines ==
  ASSUME Consistent, NEW c \in Conversations, StopCancelsInputs(c)
  PROVE  Contract!Stop(c)
<1>1. lost' = lost BY DEF StopCancelsInputs, history
<1>2. shown' = Contract!Become({r \in Contract!Turns(c) : shown[r] = "awaiting_input"}, "cancelled")
  BY <1>1, TurnsAgree DEF StopCancelsInputs, Contract!Become, shown, Turns
<1>3. told' = [q \in Questions |-> IF q[1] \in Contract!Turns(c) /\ told[q] = "pending"
                                     THEN "cancelled" ELSE told[q]]
  BY <1>1, TurnsAgree DEF StopCancelsInputs, told, Turns, Asked, Questions
<1> QED BY <1>2, <1>3 DEF Contract!Stop, Contract!Questions, Questions

\* Deleting a conversation drops its turns and their questions.
LEMMA DeleteRefines ==
  ASSUME Consistent, NEW c \in Conversations, Delete(c)
  PROVE  Contract!Drop(c)
<1>1. lost' = lost BY DEF Delete
<1>2. \A r \in Requests : shown[r] # "unknown" <=> r \notin lost
  BY Known DEF shown, Consistent
<1>3. shown' = Contract!Become({r \in Contract!Turns(c) : shown[r] # "unknown"}, "none")
  BY <1>1, <1>2, TurnsAgree DEF Delete, Contract!Become, shown, Turns
<1>4. told' = [q \in Questions |-> IF q[1] \in Contract!Turns(c) /\ shown[q[1]] # "unknown"
                                     THEN "none" ELSE told[q]]
  BY <1>1, <1>2, TurnsAgree DEF Delete, told, Turns, Questions
<1> QED BY <1>3, <1>4 DEF Contract!Drop, Contract!Questions, Questions

\* A mark, or the mark in progress when the worker is dropped, is lost.
LEMMA MarkLostRefines ==
  ASSUME Consistent, UNCHANGED <<reply, question>>,
         lost' = lost \/ (step = "mark" /\ lost' = lost \cup {row})
  PROVE  [Contract!Next]_(Contract!vars)
<1>1. CASE lost' = lost BY <1>1, Stutters
<1>2. CASE step = "mark" /\ row \notin lost /\ lost' = lost \cup {row}
  <2>1. row \in Requests BY <1>2 DEF Consistent, WorkerInv, TypeOK
  <2>2. Contract!Lose(row) BY <1>2, <2>1, LosesOne, Known DEF Consistent
  <2> QED BY <2>1, <2>2 DEF Contract!Next
<1>3. CASE step = "mark" /\ row \in lost /\ lost' = lost \cup {row}
  <2>1. lost' = lost BY <1>3
  <2> QED BY <2>1, Stutters
<1> QED BY <1>1, <1>2, <1>3

\* A read, a refused start or the end of a stop applies recover.
LEMMA RecoverRefines ==
  ASSUME NEW c \in Conversations, reply' \in {reply, Recovered(c)}, UNCHANGED <<question, lost>>
  PROVE  [Contract!Next]_(Contract!vars)
<1>1. CASE reply' = reply BY <1>1, Stutters
<1>2. CASE reply' = Recovered(c)
  <2> DEFINE S == {r \in Turns(c) : reply[r] = "generating" /\ ~HasJob(c)}
  <2>1. S \in SUBSET Requests /\ \A r \in S : reply[r] = "generating" BY DEF Turns
  <2>2. reply' = [r \in Requests |-> IF r \in S THEN "interrupted" ELSE reply[r]]
    BY <1>2 DEF Recovered
  <2> HIDE DEF S
  <2>3. Contract!Interrupt BY <2>1, <2>2, Interrupts
  <2> QED BY <2>3 DEF Contract!Next
<1> QED BY <1>1, <1>2

\* The first state of the backend is the first state of the contract.
LEMMA InitRefines == Init => Contract!Init
<1> SUFFICES ASSUME Init PROVE Contract!Init OBVIOUS
<1> QED BY DEF Init, Contract!Init, Contract!Questions, Questions, shown, told

\* Every step from a consistent state is allowed, or is a stutter.
LEMMA NextRefines ==
  ASSUME Consistent, [Next]_vars
  PROVE  [Contract!Next]_(Contract!vars)
<1>1. CASE WorkerNext
  <2>1. CASE WriteReply BY <2>1, WriteReplyRefines
  <2>2. CASE RespondStarts \/ RespondUnread
    BY <2>2, StartRefines DEF RespondStarts, RespondUnread, StartTurn
  <2>3. CASE RespondUnconfirmed BY <2>3, StartRefines DEF RespondUnconfirmed
  <2>4. CASE RespondConflict \/ RespondRejects \/ RespondFails
    <3>1. ConversationOf[row] \in Conversations
      BY <2>4, ConversationAssumption
         DEF RespondConflict, RespondRejects, RespondFails, AtRow, Consistent, WorkerInv, TypeOK
    <3> QED BY <2>4, <3>1, RecoverRefines DEF RespondConflict, RespondRejects, RespondFails, history
  <2>5. CASE MarkFails BY <2>5, MarkLostRefines DEF MarkFails, AtRow
  <2>6. CASE Fetch \/ EndPass \/ SkipDeleted \/ Capture \/ Gate \/ WriteReplyFails \/ Mark
    BY <2>6, Stutters DEF Fetch, EndPass, SkipDeleted, Capture, Gate, WriteReplyFails, Mark,
       database, history
  <2>7. ASSUME NEW r \in Requests, NextRow(r) PROVE [Contract!Next]_(Contract!vars)
    BY <2>7, Stutters DEF NextRow, database, history
  <2> QED BY <1>1, <2>1, <2>2, <2>3, <2>4, <2>5, <2>6, <2>7 DEF WorkerNext
<1>2. ASSUME NEW c \in Conversations, JobNext(c) PROVE [Contract!Next]_(Contract!vars)
  <2>1. CASE SaveQuestion(c) \/ SaveUnconfirmed(c) BY <2>1, SaveQuestionRefines
  <2>2. CASE Finish(c) BY <2>2, FinishRefines
  <2>3. CASE \/ JobStopped(c) \/ JobEnds(c) \/ JobAsks(c) \/ SaveStopped(c) \/ SaveFails(c)
             \/ RemoveJob(c)
    BY <2>3, Stutters DEF JobStopped, JobEnds, JobAsks, SaveStopped, SaveFails, RemoveJob,
       database, history
  <2> QED BY <1>2, <2>1, <2>2, <2>3 DEF JobNext
<1>3. CASE ClientNext
  <2>1. CASE AnswerCommits \/ AnswerUnconfirmed BY <2>1, AnswerRefines
  <2>2. ASSUME NEW c \in Conversations, StopCancelsInputs(c) PROVE [Contract!Next]_(Contract!vars)
    BY <2>2, StopCancelsRefines DEF Contract!Next
  <2>3. ASSUME NEW c \in Conversations, Delete(c) PROVE [Contract!Next]_(Contract!vars)
    BY <2>3, DeleteRefines DEF Contract!Next
  <2>4. ASSUME NEW c \in Conversations, StopReturns(c) \/ Read(c)
        PROVE  [Contract!Next]_(Contract!vars)
    BY <2>4, RecoverRefines DEF StopReturns, Read, history
  <2>5. ASSUME NEW c \in Conversations, StopBegins(c) \/ StopFails(c)
        PROVE  [Contract!Next]_(Contract!vars)
    BY <2>5, Stutters DEF StopBegins, StopFails, database, history
  <2>6. ASSUME NEW r \in Requests, Receive(r) PROVE [Contract!Next]_(Contract!vars)
    BY <2>6, ReceiveRefines DEF Contract!Next
  <2>7. CASE AnswerRefused BY <2>7, Stutters DEF AnswerRefused, database, history
  <2>8. ASSUME NEW q \in Questions, NEW a \in Answers, AnswerBegins(q, a)
        PROVE  [Contract!Next]_(Contract!vars)
    BY <2>8, Stutters DEF AnswerBegins, database, history
  <2> QED BY <1>3, <2>1, <2>2, <2>3, <2>4, <2>5, <2>6, <2>7, <2>8 DEF ClientNext
<1>4. CASE ProcessNext
  <2>1. CASE Borrow \/ GiveBack BY <2>1, Stutters DEF Borrow, GiveBack, database, history
  <2>2. ASSUME NEW r \in Requests, BackoffEnds(r) PROVE [Contract!Next]_(Contract!vars)
    BY <2>2, Stutters DEF BackoffEnds, history
  <2>3. CASE Shutdown \/ Exit \/ Crash
    BY <2>3, MarkLostRefines DEF Shutdown, Exit, Crash, Down, DropWorker, database
  <2>4. CASE Connect
    <3> DEFINE S == {r \in Requests : reply[r] = "generating"}
    <3>1. S \in SUBSET Requests /\ \A r \in S : reply[r] = "generating" OBVIOUS
    <3>2. reply' = [r \in Requests |-> IF r \in S THEN "interrupted" ELSE reply[r]]
      BY <2>4 DEF Connect
    <3> HIDE DEF S
    <3>3. Contract!Interrupt BY <2>4, <3>1, <3>2, Interrupts DEF Connect, history
    <3> QED BY <3>3 DEF Contract!Next
  <2> QED BY <1>4, <2>1, <2>2, <2>3, <2>4 DEF ProcessNext
<1>5. CASE UNCHANGED vars BY <1>5, Stutters DEF vars, database, history
<1> QED BY <1>1, <1>2, <1>3, <1>4, <1>5 DEF Next

\* The backend keeps the contract of its turns, for all sets of conversations and
\* requests and under any failures and interleavings.
THEOREM ContractTheorem == Spec => ContractHolds
<1>1. Consistent /\ [Next]_vars => [Contract!Next]_(Contract!vars) BY NextRefines
<1> QED BY <1>1, InitRefines, Invariance, PTL DEF Spec, ContractHolds, Contract!Spec
=============================================================================
