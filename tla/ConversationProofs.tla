-------------------------- MODULE ConversationProofs --------------------------
(***************************************************************************)
(* Consistent is an inductive invariant of Conversation: one lemma for each *)
(* action, and in it one step for each conjunct that the action may        *)
(* disturb.  The theorems at the end follow.                               *)
(***************************************************************************)
EXTENDS ConversationInv, FiniteSetTheorems, TLAPS

(* Counting the tasks at work *)

\* There are finitely many tasks at work.
LEMMA WorkFinite == IsFiniteSet(AtWork) /\ Cardinality(AtWork) \in Nat
  BY QuotaAssumption, FS_Subset, FS_CardinalityType DEF AtWork

\* A task that starts is one more at work.
LEMMA WorkBegins ==
  ASSUME TypeOK, NEW c \in Conversations, ~HasJob(c), phase' = [phase EXCEPT ![c] = "running"]
  PROVE  Cardinality(AtWork') = Cardinality(AtWork) + 1
<1>1. AtWork' = AtWork \cup {c} /\ c \notin AtWork
  BY DEF AtWork, HasJob, Working, Saving, TypeOK
<1> QED BY <1>1, WorkFinite, FS_AddElement

\* A task that goes on at work changes no count.
LEMMA WorkGoesOn ==
  ASSUME TypeOK, NEW c \in Conversations, phase[c] \in Working, NEW p \in Working,
         phase' = [phase EXCEPT ![c] = p]
  PROVE  AtWork' = AtWork
  BY DEF AtWork, TypeOK

\* A task that leaves was at work and is no longer.
LEMMA WorkEnds ==
  ASSUME TypeOK, NEW c \in Conversations, phase[c] \in Working,
         phase' = [phase EXCEPT ![c] = "leaving"]
  PROVE  Cardinality(AtWork') = Cardinality(AtWork) - 1 /\ Cardinality(AtWork) > 0
<1>1. AtWork' = AtWork \ {c} /\ c \in AtWork
  BY DEF AtWork, Working, Saving, TypeOK
<1> QED BY <1>1, WorkFinite, FS_RemoveElement, FS_EmptySet

-----------------------------------------------------------------------------
(* Sending *)

\* A received message is queued and was unknown before.
LEMMA ReceiveQueues ==
  ASSUME Consistent, NEW r \in Requests, Receive(r)
  PROVE  TypeOK' /\ QueueInv'
<1>1. Cardinality({q \in Requests : sequence[q] # 0}) \in Nat
  BY RequestAssumption, FS_Subset, FS_CardinalityType
<1>2. TypeOK'
  BY <1>1 DEF Receive, Consistent, TypeOK, Status, jobs, worker, stops, process, history
<1>3. sequence'[r] # 0 BY <1>1 DEF Receive, Consistent, TypeOK
<1>4. reply[r] = "none" /\ intake[r] = "none" /\ r \notin lost BY DEF Receive, Consistent, QueueInv
<1>5. QueueInv'
  <2> SUFFICES ASSUME NEW s \in Requests
      PROVE  /\ reply'[s] = "none" <=> intake'[s] = "none"
             /\ reply'[s] # "none" => sequence'[s] # 0 /\ ConversationOf[s] \in alive
             /\ s \in due' => reply'[s] # "none"
             /\ s \in lost => sequence'[s] # 0
             /\ s \notin lost /\ intake'[s] \in {"pending", "captured"} /\ ~(step = "mark" /\ row = s)
                  => reply'[s] = "queued"
    BY DEF QueueInv, Receive, worker, history
  <2>1. CASE s = r BY <2>1, <1>3, <1>4 DEF Receive, Consistent, TypeOK
  <2>2. CASE s # r
    BY <2>2 DEF Receive, Consistent, TypeOK, QueueInv
  <2> QED BY <2>1, <2>2
<1> QED BY <1>2, <1>5

\* A message gets its two rows; no actor knew the request before.
LEMMA ReceiveKeeps ==
  ASSUME Consistent, NEW r \in Requests, Receive(r)
  PROVE  Consistent'
<1> USE DEF Consistent, Receive, Serving, jobs, worker, stops, process, history
<1>1. TypeOK' BY ReceiveQueues
<1>2. JobsInv' BY DEF TypeOK, JobsInv, HasJob, Turns
<1>3. WorkerInv' BY DEF TypeOK, WorkerInv
<1>4. QueueInv' BY ReceiveQueues
<1>5. AskedInv' BY DEF TypeOK, AskedInv, HasJob, Questions
<1>6. StopInv' BY DEF TypeOK, StopInv, SawStopped, Quiet
<1>7. JobOwnsReply' BY DEF QueueInv, JobOwnsReply, Turns, Asked, Saving, Working
<1>8. OneGeneration' BY DEF TypeOK, OneGeneration, Turns
<1>9. QuestionMatchesReply' BY DEF TypeOK, QuestionMatchesReply, Turns, Asked, Questions
<1>10. WaitingHoldsNothing' BY DEF TypeOK, WaitingHoldsNothing, Turns, Asked, Questions,
      Saving
\* what reads no variable that the step writes
<1>11. ServerInv' /\ PermitAccounting'
  BY DEF ServerInv, PermitAccounting, HasJob, AtWork
<1> QED BY <1>1, <1>2, <1>3, <1>4, <1>5, <1>6, <1>7, <1>8, <1>9, <1>10, <1>11

-----------------------------------------------------------------------------
(* The delivery worker *)

\* Only rows that wait in the queue enter the batch.
LEMMA FetchKeeps ==
  ASSUME Consistent, Fetch
  PROVE  Consistent'
<1> USE DEF Consistent, Fetch, Deliverable, Oldest, database, jobs, stops, process, history
<1>1. TypeOK' BY DEF TypeOK, Questions, QuestionState, Settled, Status, Saving, Phase, Step,
      Kind
<1>2. ServerInv' BY DEF TypeOK, ServerInv, HasJob
<1>3. WorkerInv' BY RequestAssumption DEF TypeOK, WorkerInv, QueueInv
<1>4. QueueInv' BY DEF TypeOK, QueueInv
\* what reads no variable that the step writes
<1>5. JobsInv' /\ AskedInv' /\ StopInv' /\ JobOwnsReply' /\ OneGeneration' /\
      QuestionMatchesReply' /\ WaitingHoldsNothing' /\ PermitAccounting'
  BY DEF JobsInv, AskedInv, StopInv, JobOwnsReply, OneGeneration, QuestionMatchesReply,
      WaitingHoldsNothing, PermitAccounting, HasJob, Turns, Asked, SawStopped, Quiet,
      Serving, AtWork
<1> QED BY <1>1, <1>2, <1>3, <1>4, <1>5

\* The row leaves the batch and becomes the row in hand.
LEMMA NextRowKeeps ==
  ASSUME Consistent, NEW r \in Requests, NextRow(r)
  PROVE  Consistent'
<1> USE DEF Consistent, NextRow, Oldest, database, jobs, stops, process, history
<1>1. TypeOK' BY DEF TypeOK, Questions, QuestionState, Settled, Status, Saving, Phase, Step,
      Kind
<1>2. ServerInv' BY DEF TypeOK, ServerInv, HasJob
<1>3. WorkerInv' BY DEF TypeOK, WorkerInv
<1>4. QueueInv' BY DEF TypeOK, QueueInv
\* what reads no variable that the step writes
<1>5. JobsInv' /\ AskedInv' /\ StopInv' /\ JobOwnsReply' /\ OneGeneration' /\
      QuestionMatchesReply' /\ WaitingHoldsNothing' /\ PermitAccounting'
  BY DEF JobsInv, AskedInv, StopInv, JobOwnsReply, OneGeneration, QuestionMatchesReply,
      WaitingHoldsNothing, PermitAccounting, HasJob, Turns, Asked, SawStopped, Quiet,
      Serving, AtWork
<1> QED BY <1>1, <1>2, <1>3, <1>4, <1>5

\* The pass ends with nothing in hand.
LEMMA EndPassKeeps ==
  ASSUME Consistent, EndPass
  PROVE  Consistent'
<1> USE DEF Consistent, EndPass, database, jobs, stops, process, history
<1>1. TypeOK' BY DEF TypeOK, Questions, QuestionState, Settled, Status, Saving, Phase, Step,
      Kind
<1>2. ServerInv' BY DEF TypeOK, ServerInv, HasJob
<1>3. WorkerInv' BY DEF TypeOK, WorkerInv
<1>4. QueueInv' BY DEF TypeOK, QueueInv
\* what reads no variable that the step writes
<1>5. JobsInv' /\ AskedInv' /\ StopInv' /\ JobOwnsReply' /\ OneGeneration' /\
      QuestionMatchesReply' /\ WaitingHoldsNothing' /\ PermitAccounting'
  BY DEF JobsInv, AskedInv, StopInv, JobOwnsReply, OneGeneration, QuestionMatchesReply,
      WaitingHoldsNothing, PermitAccounting, HasJob, Turns, Asked, SawStopped, Quiet,
      Serving, AtWork
<1> QED BY <1>1, <1>2, <1>3, <1>4, <1>5

\* A deleted row is dropped: no table knows it any more.
LEMMA SkipDeletedKeeps ==
  ASSUME Consistent, SkipDeleted
  PROVE  Consistent'
<1> USE DEF Consistent, SkipDeleted, LeaveRow, database, jobs, stops, process, history
<1>1. TypeOK' BY DEF TypeOK, Questions, QuestionState, Settled, Status, Saving, Phase, Step,
      Kind
<1>2. ServerInv' BY DEF ServerInv, WorkerInv, HasJob
<1>3. WorkerInv' BY RequestAssumption DEF TypeOK, WorkerInv
<1>4. QueueInv' BY DEF TypeOK, QueueInv
\* what reads no variable that the step writes
<1>5. JobsInv' /\ AskedInv' /\ StopInv' /\ JobOwnsReply' /\ OneGeneration' /\
      QuestionMatchesReply' /\ WaitingHoldsNothing' /\ PermitAccounting'
  BY DEF JobsInv, AskedInv, StopInv, JobOwnsReply, OneGeneration, QuestionMatchesReply,
      WaitingHoldsNothing, PermitAccounting, HasJob, Turns, Asked, SawStopped, Quiet,
      Serving, AtWork
<1> QED BY <1>1, <1>2, <1>3, <1>4, <1>5

\* A captured row is still in the queue.
LEMMA CaptureKeeps ==
  ASSUME Consistent, Capture
  PROVE  Consistent'
<1> USE DEF Consistent, Capture, AtRow, Fault, Backoff, LeaveRow, jobs, stops, history
<1>1. TypeOK' BY BoundAssumption DEF TypeOK, Questions, QuestionState, Settled, Status,
      Saving, Phase, Step, Kind
<1>2. ServerInv' BY DEF TypeOK, ServerInv, HasJob
<1>3. WorkerInv' BY RequestAssumption DEF TypeOK, WorkerInv
<1>4. QueueInv' BY DEF TypeOK, WorkerInv, QueueInv
\* what reads no variable that the step writes
<1>5. JobsInv' /\ AskedInv' /\ StopInv' /\ JobOwnsReply' /\ OneGeneration' /\
      QuestionMatchesReply' /\ WaitingHoldsNothing' /\ PermitAccounting'
  BY DEF JobsInv, AskedInv, StopInv, JobOwnsReply, OneGeneration, QuestionMatchesReply,
      WaitingHoldsNothing, PermitAccounting, HasJob, Turns, Asked, SawStopped, Quiet,
      Serving, AtWork
<1> QED BY <1>1, <1>2, <1>3, <1>4, <1>5

\* The gate reads the jobs map and writes no table but the backoff.
LEMMA GateKeeps ==
  ASSUME Consistent, Gate
  PROVE  Consistent'
<1> USE DEF Consistent, Gate, AtRow, LockFree, LeaveRow, Fault, Backoff, jobs, stops,
      history
<1>1. TypeOK' BY BoundAssumption DEF TypeOK, Questions, QuestionState, Settled, Status,
      Saving, Phase, Step, Kind
<1>2. ServerInv' BY DEF TypeOK, ServerInv, HasJob
<1>3. WorkerInv' BY RequestAssumption DEF TypeOK, WorkerInv
<1>4. QueueInv' BY DEF TypeOK, QueueInv
\* what reads no variable that the step writes
<1>5. JobsInv' /\ AskedInv' /\ StopInv' /\ JobOwnsReply' /\ OneGeneration' /\
      QuestionMatchesReply' /\ WaitingHoldsNothing' /\ PermitAccounting'
  BY DEF JobsInv, AskedInv, StopInv, JobOwnsReply, OneGeneration, QuestionMatchesReply,
      WaitingHoldsNothing, PermitAccounting, HasJob, Turns, Asked, SawStopped, Quiet,
      Serving, AtWork
<1> QED BY <1>1, <1>2, <1>3, <1>4, <1>5

\* The unconditional write of the reply meets a queued turn, or one whose mark was lost.
LEMMA WriteReplyKeeps ==
  ASSUME Consistent, WriteReply
  PROVE  Consistent'
<1> USE DEF Consistent, WriteReply, AtRow, jobs, stops, process, history
<1>1. TypeOK' BY DEF TypeOK, Questions, QuestionState, Settled, Status, Saving, Phase, Step,
      Kind
<1>2. JobsInv' BY DEF TypeOK, JobsInv, HasJob, Turns
<1>3. ServerInv' BY DEF TypeOK, ServerInv, HasJob
<1>4. WorkerInv' BY DEF TypeOK, WorkerInv
<1>5. QueueInv' BY DEF TypeOK, QueueInv
<1>6. AskedInv' BY DEF TypeOK, AskedInv, HasJob, Serving, Questions
<1>7. StopInv' BY DEF TypeOK, StopInv, SawStopped, Quiet
<1>8. JobOwnsReply' BY DEF TypeOK, WorkerInv, QueueInv, JobOwnsReply, Turns, Saving, Working
<1>9. OneGeneration' BY DEF TypeOK, OneGeneration, Turns
<1>10. QuestionMatchesReply' BY DEF TypeOK, WorkerInv, QueueInv, QuestionMatchesReply,
      Turns, Asked, Questions
<1>11. WaitingHoldsNothing' BY DEF TypeOK, WaitingHoldsNothing, Turns, Asked, Questions,
      Saving
\* what reads no variable that the step writes
<1>12. PermitAccounting'
  BY DEF PermitAccounting, AtWork
<1> QED BY <1>1, <1>2, <1>3, <1>4, <1>5, <1>6, <1>7, <1>8, <1>9, <1>10, <1>11, <1>12

\* A failed write leaves the row in the queue.
LEMMA WriteReplyFailsKeeps ==
  ASSUME Consistent, WriteReplyFails
  PROVE  Consistent'
<1> USE DEF Consistent, WriteReplyFails, Fault, AtRow, Backoff, LeaveRow, jobs, stops,
      history
<1>1. TypeOK' BY BoundAssumption DEF TypeOK, Questions, QuestionState, Settled, Status,
      Saving, Phase, Step, Kind
<1>2. ServerInv' BY DEF TypeOK, ServerInv, HasJob
<1>3. WorkerInv' BY RequestAssumption DEF TypeOK, WorkerInv
<1>4. QueueInv' BY DEF TypeOK, QueueInv
\* what reads no variable that the step writes
<1>5. JobsInv' /\ AskedInv' /\ StopInv' /\ JobOwnsReply' /\ OneGeneration' /\
      QuestionMatchesReply' /\ WaitingHoldsNothing' /\ PermitAccounting'
  BY DEF JobsInv, AskedInv, StopInv, JobOwnsReply, OneGeneration, QuestionMatchesReply,
      WaitingHoldsNothing, PermitAccounting, HasJob, Turns, Asked, SawStopped, Quiet,
      Serving, AtWork
<1> QED BY <1>1, <1>2, <1>3, <1>4, <1>5

\* A marked row leaves the queue: no later step finds it there.
LEMMA MarkKeeps ==
  ASSUME Consistent, Mark
  PROVE  Consistent'
<1> USE DEF Consistent, Mark, AtRow, LeaveRow, jobs, stops, process, history
<1>1. TypeOK' BY DEF TypeOK, Questions, QuestionState, Settled, Status, Saving, Phase, Step,
      Kind
<1>2. ServerInv' BY DEF TypeOK, ServerInv, HasJob
<1>3. WorkerInv' BY RequestAssumption DEF TypeOK, WorkerInv
<1>4. QueueInv' BY DEF TypeOK, QueueInv
\* what reads no variable that the step writes
<1>5. JobsInv' /\ AskedInv' /\ StopInv' /\ JobOwnsReply' /\ OneGeneration' /\
      QuestionMatchesReply' /\ WaitingHoldsNothing' /\ PermitAccounting'
  BY DEF JobsInv, AskedInv, StopInv, JobOwnsReply, OneGeneration, QuestionMatchesReply,
      WaitingHoldsNothing, PermitAccounting, HasJob, Turns, Asked, SawStopped, Quiet,
      Serving, AtWork
<1> QED BY <1>1, <1>2, <1>3, <1>4, <1>5

\* A lost mark is remembered in the history.
LEMMA MarkFailsKeeps ==
  ASSUME Consistent, MarkFails
  PROVE  Consistent'
<1> USE DEF Consistent, MarkFails, Fault, AtRow, Backoff, LeaveRow, jobs, stops
<1>1. TypeOK' BY BoundAssumption DEF TypeOK, WorkerInv, Questions, QuestionState, Settled,
      Status, Saving, Phase, Step, Kind
<1>2. ServerInv' BY DEF TypeOK, ServerInv, HasJob
<1>3. WorkerInv' BY RequestAssumption DEF TypeOK, WorkerInv
<1>4. QueueInv' BY DEF TypeOK, QueueInv
<1>5. StopInv' BY DEF TypeOK, StopInv, SawStopped, Quiet
<1>6. JobOwnsReply' BY DEF TypeOK, JobOwnsReply, Turns, Saving, Working
<1>7. QuestionMatchesReply' BY DEF TypeOK, QuestionMatchesReply, Turns, Asked, Questions
<1>8. WaitingHoldsNothing' BY DEF TypeOK, WaitingHoldsNothing, Turns, Asked, Questions,
      Saving
\* what reads no variable that the step writes
<1>9. JobsInv' /\ AskedInv' /\ OneGeneration' /\ PermitAccounting'
  BY DEF JobsInv, AskedInv, OneGeneration, PermitAccounting, HasJob, Turns, Serving, AtWork
<1> QED BY <1>1, <1>2, <1>3, <1>4, <1>5, <1>6, <1>7, <1>8, <1>9

\* The end of a backoff makes a row of the queue due again.
LEMMA BackoffEndsKeeps ==
  ASSUME Consistent, NEW r \in Requests, BackoffEnds(r)
  PROVE  Consistent'
<1> USE DEF Consistent, BackoffEnds, jobs, worker, stops, process, history
<1>1. TypeOK' BY DEF TypeOK, Questions, QuestionState, Settled, Status, Saving, Phase, Step,
      Kind
<1>2. QueueInv' BY DEF TypeOK, QueueInv
\* what reads no variable that the step writes
<1>3. JobsInv' /\ ServerInv' /\ WorkerInv' /\ AskedInv' /\ StopInv' /\ JobOwnsReply' /\
      OneGeneration' /\ QuestionMatchesReply' /\ WaitingHoldsNothing' /\ PermitAccounting'
  BY DEF JobsInv, ServerInv, WorkerInv, AskedInv, StopInv, JobOwnsReply, OneGeneration,
      QuestionMatchesReply, WaitingHoldsNothing, PermitAccounting, HasJob, Turns, Asked,
      SawStopped, Quiet, Serving, AtWork
<1> QED BY <1>1, <1>2, <1>3

-----------------------------------------------------------------------------
(* respond *)

\* recover interrupts only what no task owns.
LEMMA RespondConflictKeeps ==
  ASSUME Consistent, RespondConflict
  PROVE  Consistent'
<1> USE DEF Consistent, RespondConflict, AtRow, LockFree, MayStart, Recovered, LeaveRow,
      jobs, stops, process, history
<1>1. TypeOK' BY DEF TypeOK, Questions, QuestionState, Settled, Status, Saving, Phase, Step,
      Kind
<1>2. JobsInv' BY DEF TypeOK, JobsInv, HasJob, Turns
<1>3. ServerInv' BY DEF TypeOK, ServerInv, HasJob
<1>4. WorkerInv' BY RequestAssumption DEF TypeOK, WorkerInv
<1>5. QueueInv' BY DEF TypeOK, QueueInv
<1>6. AskedInv' BY DEF TypeOK, AskedInv, HasJob, Serving, Questions
<1>7. StopInv' BY DEF TypeOK, StopInv, SawStopped, Quiet
<1>8. JobOwnsReply' BY DEF JobOwnsReply, HasJob, Turns, Asked, Saving, Working
<1>9. OneGeneration' BY DEF TypeOK, OneGeneration, Turns
<1>10. QuestionMatchesReply' BY DEF TypeOK, QuestionMatchesReply, Turns, Asked, Questions
<1>11. WaitingHoldsNothing' BY DEF TypeOK, WaitingHoldsNothing, Turns, Asked, Questions,
      Saving
\* what reads no variable that the step writes
<1>12. PermitAccounting'
  BY DEF PermitAccounting, AtWork
<1> QED BY <1>1, <1>2, <1>3, <1>4, <1>5, <1>6, <1>7, <1>8, <1>9, <1>10, <1>11, <1>12

\* The worker drops the row and nothing is written.
LEMMA RespondFailsKeeps ==
  ASSUME Consistent, RespondFails
  PROVE  Consistent'
<1> USE DEF Consistent, RespondFails, Fault, AtRow, LockFree, Recovered, LeaveRow, jobs,
      stops, history
<1>1. TypeOK' BY BoundAssumption DEF TypeOK, Questions, QuestionState, Settled, Status,
      Saving, Phase, Step, Kind
<1>2. JobsInv' BY DEF TypeOK, JobsInv, HasJob, Turns
<1>3. ServerInv' BY DEF TypeOK, ServerInv, HasJob
<1>4. WorkerInv' BY RequestAssumption DEF TypeOK, WorkerInv
<1>5. QueueInv' BY DEF TypeOK, QueueInv
<1>6. AskedInv' BY DEF TypeOK, AskedInv, HasJob, Serving, Questions
<1>7. StopInv' BY DEF TypeOK, StopInv, SawStopped, Quiet
<1>8. JobOwnsReply' BY DEF JobOwnsReply, HasJob, Turns, Asked, Saving, Working
<1>9. OneGeneration' BY DEF TypeOK, OneGeneration, Turns
<1>10. QuestionMatchesReply' BY DEF TypeOK, QuestionMatchesReply, Turns, Asked, Questions
<1>11. WaitingHoldsNothing' BY DEF TypeOK, WaitingHoldsNothing, Turns, Asked, Questions,
      Saving
\* what reads no variable that the step writes
<1>12. PermitAccounting'
  BY DEF PermitAccounting, AtWork
<1> QED BY <1>1, <1>2, <1>3, <1>4, <1>5, <1>6, <1>7, <1>8, <1>9, <1>10, <1>11, <1>12

\* A rejected turn is still queued when the worker goes on to fail it.
LEMMA RespondRejectsKeeps ==
  ASSUME Consistent, RespondRejects
  PROVE  Consistent'
<1> USE DEF Consistent, RespondRejects, AtRow, LockFree, MayStart, Recovered, jobs, stops,
      process, history
<1>1. TypeOK' BY DEF TypeOK, Questions, QuestionState, Settled, Status, Saving, Phase, Step,
      Kind
<1>2. JobsInv' BY DEF TypeOK, JobsInv, HasJob, Turns
<1>3. ServerInv' BY DEF TypeOK, ServerInv, HasJob
<1>4. WorkerInv' BY DEF TypeOK, WorkerInv
<1>5. QueueInv' BY DEF TypeOK, QueueInv
<1>6. AskedInv' BY DEF TypeOK, AskedInv, HasJob, Serving, Questions
<1>7. StopInv' BY DEF TypeOK, StopInv, SawStopped, Quiet
<1>8. JobOwnsReply' BY DEF JobOwnsReply, HasJob, Turns, Asked, Saving, Working
<1>9. OneGeneration' BY DEF TypeOK, OneGeneration, Turns
<1>10. QuestionMatchesReply' BY DEF TypeOK, QuestionMatchesReply, Turns, Asked, Questions
<1>11. WaitingHoldsNothing' BY DEF TypeOK, WaitingHoldsNothing, Turns, Asked, Questions,
      Saving
\* what reads no variable that the step writes
<1>12. PermitAccounting'
  BY DEF PermitAccounting, AtWork
<1> QED BY <1>1, <1>2, <1>3, <1>4, <1>5, <1>6, <1>7, <1>8, <1>9, <1>10, <1>11, <1>12

\* A turn that was stopped is not the one that respond starts.
LEMMA StartTurnIsAnother ==
  ASSUME Consistent, StartTurn, lost \subseteq lost'
  PROVE  StopInv'
<1> DEFINE c == ConversationOf[row]
<1>1. row \in Requests /\ c \in Conversations
  BY ConversationAssumption DEF Consistent, WorkerInv, TypeOK, StartTurn, AtRow
<1>2. row \in lost \/ reply[row] = "queued"
  BY <1>1 DEF Consistent, WorkerInv, QueueInv, TypeOK, StartTurn, AtRow
<1>3. \A r \in Requests : reply'[r] = "awaiting_input" => reply[r] = "awaiting_input"
  BY <1>1 DEF StartTurn, Recovered
<1>4. \A r \in Requests : reply'[r] = "queued" => reply[r] = "queued"
  BY <1>1 DEF StartTurn, Recovered
<1>5. /\ phase' = [phase EXCEPT ![c] = "running"] /\ turn' = [turn EXCEPT ![c] = row]
      /\ \A d \in Conversations : d # c /\ d \in stopped => d \in stopped'
  BY DEF StartTurn, EnterJob
<1>6. ASSUME NEW r \in Requests, r # row, Quiet(r) PROVE Quiet(r)'
  BY <1>1, <1>3, <1>5, <1>6 DEF Quiet, Consistent, TypeOK
<1>7. UNCHANGED <<halted, target, sequence>>
  BY DEF StartTurn, stops
<1>8. ASSUME NEW h \in Requests \X Kind, SawStopped(h) PROVE SawStopped(h)'
  BY <1>2, <1>4, <1>6, <1>7, <1>8 DEF SawStopped
<1> QED BY <1>7, <1>8 DEF StopInv, Consistent, TypeOK

\* respond takes one permit for one more task.
LEMMA StartTurnTakesPermit ==
  ASSUME Consistent, StartTurn
  PROVE  PermitAccounting'
<1>1. WorkerInv /\ TypeOK /\ PermitAccounting BY DEF Consistent
<1>2. row \in Requests BY <1>1 DEF WorkerInv, TypeOK, StartTurn, AtRow
<1>3. ConversationOf[row] \in Conversations BY <1>2, ConversationAssumption
<1>4. Cardinality(AtWork') = Cardinality(AtWork) + 1
  BY <1>1, <1>3, WorkBegins DEF StartTurn, EnterJob, MayStart
<1> QED BY <1>1, <1>4, WorkFinite, QuotaAssumption DEF StartTurn, EnterJob, PermitAccounting, TypeOK

\* The new task owns the only generating row of its conversation: recover interrupted every
\* other.
LEMMA RespondStartsKeeps ==
  ASSUME Consistent, RespondStarts
  PROVE  Consistent'
<1> USE DEF Consistent, RespondStarts, StartTurn, AtRow, LockFree, MayStart, Recovered,
      EnterJob, stops
<1>1. TypeOK' BY BoundAssumption, ConversationAssumption DEF TypeOK, WorkerInv, HasJob,
      Turns, Asked, Questions, QuestionState, Settled, Status, Saving, Phase, Step, Kind
<1>2. JobsInv' BY DEF TypeOK, JobsInv, WorkerInv, HasJob, Turns, Asked
<1>3. ServerInv' BY DEF TypeOK, ServerInv, HasJob
<1>4. WorkerInv' BY DEF TypeOK, WorkerInv
<1>5. QueueInv' BY DEF TypeOK, QueueInv
<1>6. AskedInv' BY DEF TypeOK, AskedInv, HasJob, Serving, Questions
<1>7. StopInv' BY StartTurnIsAnother
<1>8. JobOwnsReply' BY DEF TypeOK, WorkerInv, JobOwnsReply, HasJob, Turns, Asked, Saving,
      Working
<1>9. OneGeneration' BY DEF TypeOK, OneGeneration, Turns
<1>10. QuestionMatchesReply' BY DEF TypeOK, QuestionMatchesReply, Turns, Asked, Questions
<1>11. WaitingHoldsNothing' BY DEF TypeOK, WaitingHoldsNothing, Turns, Asked, Questions,
      Saving
<1>12. PermitAccounting' BY StartTurnTakesPermit
<1> QED BY <1>1, <1>2, <1>3, <1>4, <1>5, <1>6, <1>7, <1>8, <1>9, <1>10, <1>11, <1>12

\* The same when the row goes back to the queue: the turn is a lost one.
LEMMA RespondUnreadKeeps ==
  ASSUME Consistent, RespondUnread
  PROVE  Consistent'
<1> USE DEF Consistent, RespondUnread, Fault, StartTurn, AtRow, LockFree, MayStart,
      Recovered, EnterJob, stops, LeaveRow
<1>1. TypeOK' BY BoundAssumption, ConversationAssumption DEF TypeOK, WorkerInv, HasJob,
      Turns, Asked, Questions, QuestionState, Settled, Status, Saving, Phase, Step, Kind
<1>2. JobsInv' BY DEF TypeOK, JobsInv, WorkerInv, HasJob, Turns, Asked
<1>3. ServerInv' BY DEF TypeOK, ServerInv, HasJob
<1>4. WorkerInv' BY RequestAssumption DEF TypeOK, WorkerInv
<1>5. QueueInv' BY DEF TypeOK, QueueInv
<1>6. AskedInv' BY DEF TypeOK, AskedInv, HasJob, Serving, Questions
<1>7. StopInv' BY StartTurnIsAnother
<1>8. JobOwnsReply' BY DEF TypeOK, WorkerInv, JobOwnsReply, HasJob, Turns, Asked, Saving,
      Working
<1>9. OneGeneration' BY DEF TypeOK, OneGeneration, Turns
<1>10. QuestionMatchesReply' BY DEF TypeOK, QuestionMatchesReply, Turns, Asked, Questions
<1>11. WaitingHoldsNothing' BY DEF TypeOK, WaitingHoldsNothing, Turns, Asked, Questions,
      Saving
<1>12. PermitAccounting' BY StartTurnTakesPermit
<1> QED BY <1>1, <1>2, <1>3, <1>4, <1>5, <1>6, <1>7, <1>8, <1>9, <1>10, <1>11, <1>12

\* A generating row without a task is a lost turn, and the only one of its conversation.
LEMMA RespondUnconfirmedKeeps ==
  ASSUME Consistent, RespondUnconfirmed
  PROVE  Consistent'
<1> USE DEF Consistent, RespondUnconfirmed, Fault, AtRow, LockFree, MayStart, Recovered,
      LeaveRow, jobs, stops
<1>1. TypeOK' BY BoundAssumption, ConversationAssumption DEF TypeOK, WorkerInv, HasJob,
      Turns, Asked, Questions, QuestionState, Settled, Status, Saving, Phase, Step, Kind
<1>2. JobsInv' BY DEF TypeOK, JobsInv, HasJob, Turns
<1>3. ServerInv' BY DEF TypeOK, ServerInv, HasJob
<1>4. WorkerInv' BY RequestAssumption DEF TypeOK, WorkerInv
<1>5. QueueInv' BY DEF TypeOK, QueueInv
<1>6. AskedInv' BY DEF TypeOK, AskedInv, HasJob, Serving, Questions
<1>7. StopInv' BY DEF TypeOK, StopInv, SawStopped, Quiet
<1>8. JobOwnsReply' BY DEF JobOwnsReply, HasJob, Turns, Asked, Saving, Working
<1>9. OneGeneration' BY DEF TypeOK, OneGeneration, Turns
<1>10. QuestionMatchesReply' BY DEF TypeOK, QuestionMatchesReply, Turns, Asked, Questions
<1>11. WaitingHoldsNothing' BY DEF TypeOK, WaitingHoldsNothing, Turns, Asked, Questions,
      Saving
\* what reads no variable that the step writes
<1>12. PermitAccounting'
  BY DEF PermitAccounting, AtWork
<1> QED BY <1>1, <1>2, <1>3, <1>4, <1>5, <1>6, <1>7, <1>8, <1>9, <1>10, <1>11, <1>12

-----------------------------------------------------------------------------
(* The generation task *)

\* A cancelled task goes to its outcome with its permit.
LEMMA JobStoppedKeeps ==
  ASSUME Consistent, NEW c \in Conversations, JobStopped(c)
  PROVE  Consistent'
<1> USE DEF Consistent, JobStopped, database, worker, stops, process, history
<1>1. TypeOK' BY DEF TypeOK, Questions, QuestionState, Settled, Status, Saving, Phase, Step,
      Kind
<1>2. JobsInv' BY DEF TypeOK, JobsInv, HasJob, Turns
<1>3. ServerInv' BY DEF TypeOK, ServerInv, HasJob
<1>4. AskedInv' BY DEF TypeOK, AskedInv, HasJob, Serving, Questions
<1>5. StopInv' BY DEF TypeOK, StopInv, SawStopped, Quiet
<1>6. JobOwnsReply' BY DEF TypeOK, JobOwnsReply, Turns, Saving, Working
<1>7. WaitingHoldsNothing' BY DEF TypeOK, WaitingHoldsNothing, Turns, Asked, Questions,
      Saving
<1>8. PermitAccounting' BY DEF TypeOK, PermitAccounting, Saving, Working, AtWork
\* what reads no variable that the step writes
<1>9. WorkerInv' /\ QueueInv' /\ OneGeneration' /\ QuestionMatchesReply'
  BY DEF WorkerInv, QueueInv, OneGeneration, QuestionMatchesReply, Turns, Asked
<1> QED BY <1>1, <1>2, <1>3, <1>4, <1>5, <1>6, <1>7, <1>8, <1>9

\* A task holds its permit until its outcome is written.
LEMMA JobEndsHoldsPermit ==
  ASSUME Consistent, NEW c \in Conversations, JobEnds(c)
  PROVE  PermitAccounting'
<1>1. PICK p \in {"complete", "failed"} : phase' = [phase EXCEPT ![c] = p] BY DEF JobEnds
<1>2. AtWork' = AtWork BY <1>1, WorkGoesOn DEF JobEnds, Working, Saving, Consistent
<1> QED BY <1>2 DEF Consistent, JobEnds, PermitAccounting

\* An outcome is reached in memory; the row is still generating.
LEMMA JobEndsKeeps ==
  ASSUME Consistent, NEW c \in Conversations, JobEnds(c)
  PROVE  Consistent'
<1> USE DEF Consistent, JobEnds, database, worker, stops, process, history
<1>1. TypeOK' BY DEF TypeOK, Questions, QuestionState, Settled, Status, Saving, Phase, Step,
      Kind
<1>2. JobsInv' BY DEF TypeOK, JobsInv, HasJob, Turns
<1>3. ServerInv' BY DEF TypeOK, ServerInv, HasJob
<1>4. AskedInv' BY DEF TypeOK, AskedInv, HasJob, Serving, Questions
<1>5. StopInv' BY DEF TypeOK, StopInv, SawStopped, Quiet
<1>6. JobOwnsReply' BY DEF TypeOK, JobOwnsReply, Turns, Saving, Working
<1>7. WaitingHoldsNothing' BY DEF TypeOK, WaitingHoldsNothing, Turns, Asked, Questions,
      Saving
<1>8. PermitAccounting' BY JobEndsHoldsPermit
\* what reads no variable that the step writes
<1>9. WorkerInv' /\ QueueInv' /\ OneGeneration' /\ QuestionMatchesReply'
  BY DEF WorkerInv, QueueInv, OneGeneration, QuestionMatchesReply, Turns, Asked
<1> QED BY <1>1, <1>2, <1>3, <1>4, <1>5, <1>6, <1>7, <1>8, <1>9

\* A task that asks still owns its row.
LEMMA JobAsksKeeps ==
  ASSUME Consistent, NEW c \in Conversations, JobAsks(c)
  PROVE  Consistent'
<1> USE DEF Consistent, JobAsks, database, worker, stops, process, history
<1>1. TypeOK' BY DEF TypeOK, Questions, QuestionState, Settled, Status, Saving, Phase, Step,
      Kind
<1>2. JobsInv' BY DEF TypeOK, JobsInv, HasJob, Turns
<1>3. ServerInv' BY DEF TypeOK, ServerInv, HasJob
<1>4. AskedInv' BY DEF TypeOK, AskedInv, HasJob, Serving, Questions
<1>5. StopInv' BY DEF TypeOK, StopInv, SawStopped, Quiet
<1>6. JobOwnsReply' BY DEF TypeOK, JobOwnsReply, Turns, Saving, Working
<1>7. WaitingHoldsNothing' BY DEF TypeOK, WaitingHoldsNothing, Turns, Asked, Questions,
      Saving
<1>8. PermitAccounting' BY DEF TypeOK, PermitAccounting, Saving, Working, AtWork
\* what reads no variable that the step writes
<1>9. WorkerInv' /\ QueueInv' /\ OneGeneration' /\ QuestionMatchesReply'
  BY DEF WorkerInv, QueueInv, OneGeneration, QuestionMatchesReply, Turns, Asked
<1> QED BY <1>1, <1>2, <1>3, <1>4, <1>5, <1>6, <1>7, <1>8, <1>9

\* The last look at the token, under the mutex, ends a stopped task.
LEMMA SaveStoppedKeeps ==
  ASSUME Consistent, NEW c \in Conversations, SaveStopped(c)
  PROVE  Consistent'
<1> USE DEF Consistent, SaveStopped, LockFree, database, worker, stops, process, history
<1>1. TypeOK' BY DEF TypeOK, Questions, QuestionState, Settled, Status, Saving, Phase, Step,
      Kind
<1>2. JobsInv' BY DEF TypeOK, JobsInv, HasJob, Turns
<1>3. ServerInv' BY DEF TypeOK, ServerInv, HasJob
<1>4. AskedInv' BY DEF TypeOK, AskedInv, HasJob, Serving, Questions
<1>5. StopInv' BY DEF TypeOK, StopInv, SawStopped, Quiet
<1>6. JobOwnsReply' BY DEF TypeOK, JobOwnsReply, Turns, Saving, Working
<1>7. WaitingHoldsNothing' BY DEF TypeOK, WaitingHoldsNothing, Turns, Asked, Questions,
      Saving
<1>8. PermitAccounting' BY DEF TypeOK, PermitAccounting, Saving, Working, AtWork
\* what reads no variable that the step writes
<1>9. WorkerInv' /\ QueueInv' /\ OneGeneration' /\ QuestionMatchesReply'
  BY DEF WorkerInv, QueueInv, OneGeneration, QuestionMatchesReply, Turns, Asked
<1> QED BY <1>1, <1>2, <1>3, <1>4, <1>5, <1>6, <1>7, <1>8, <1>9

\* A saved question is the only pending one of its conversation, and frees a permit.
LEMMA SaveQuestionAsks ==
  ASSUME Consistent, NEW c \in Conversations, SaveQuestion(c)
  PROVE  TypeOK' /\ PermitAccounting' /\ QuestionMatchesReply'
<1>1. Cardinality(AtWork') = Cardinality(AtWork) - 1 /\ Cardinality(AtWork) > 0
  BY WorkEnds DEF SaveQuestion, Consistent, Working
<1>2. PermitAccounting'
  BY <1>1, WorkFinite, QuotaAssumption DEF SaveQuestion, Consistent, PermitAccounting, TypeOK
<1>3. free' \in 0..Quota
  BY <1>1, WorkFinite, QuotaAssumption, BoundAssumption DEF SaveQuestion, Consistent, PermitAccounting, TypeOK
<1>4. PICK k \in 1..MaxQuestions :
         /\ question[<<turn[c], k>>] = "none"
         /\ question' = [question EXCEPT ![<<turn[c], k>>] = "pending"]
  BY DEF SaveQuestion, PutQuestion
<1>5. turn[c] \in Turns(c) /\ Asked(c) = {}
  BY DEF SaveQuestion, Consistent, JobsInv, HasJob, WaitingHoldsNothing
<1>6. reply' = [reply EXCEPT ![turn[c]] = "awaiting_input"] BY DEF SaveQuestion, PutQuestion
<1>7. TypeOK'
  BY <1>3, <1>4, <1>5, <1>6 DEF SaveQuestion, Consistent, TypeOK, QuestionState, Phase, Status, Turns,
     worker, stops, process, history
<1>8. <<turn[c], k>> \in Questions BY <1>5 DEF Questions, Turns
<1>9. ASSUME NEW d \in Conversations PROVE Asked(d)' = IF d = c THEN {<<turn[c], k>>} ELSE Asked(d)
  BY <1>4, <1>5, <1>8 DEF Asked, Consistent, TypeOK, Turns
<1>10. QuestionMatchesReply'
  <2> SUFFICES ASSUME NEW d \in Conversations
               PROVE  /\ \A p, q \in Asked(d)' : p = q
                      /\ \A r \in Turns(d) \ lost :
                           reply'[r] = "awaiting_input" <=> \E q \in Asked(d)' : q[1] = r
    BY DEF QuestionMatchesReply, SaveQuestion, history, Turns
  <2>1. CASE d = c
    <3>1. Asked(d)' = {<<turn[c], k>>} BY <2>1, <1>9
    <3>2. ASSUME NEW r \in Turns(d) \ lost PROVE reply'[r] = "awaiting_input" <=> r = turn[c]
      BY <2>1, <1>5, <1>6 DEF QuestionMatchesReply, Consistent, TypeOK, Turns
    <3> QED BY <3>1, <3>2
  <2>2. CASE d # c
    BY <2>2, <1>5, <1>6, <1>9 DEF QuestionMatchesReply, Consistent, TypeOK, Turns
  <2> QED BY <2>1, <2>2
<1> QED BY <1>2, <1>7, <1>10

\* The question and the reply change together, and the permit goes back with them.
LEMMA SaveQuestionKeeps ==
  ASSUME Consistent, NEW c \in Conversations, SaveQuestion(c)
  PROVE  Consistent'
<1> USE DEF Consistent, SaveQuestion, LockFree, PutQuestion, worker, stops, process, history
<1>1. TypeOK' BY SaveQuestionAsks
<1>2. JobsInv' BY DEF TypeOK, JobsInv, HasJob, Turns
<1>3. ServerInv' BY DEF TypeOK, ServerInv, HasJob
<1>4. QueueInv' BY DEF JobsInv, QueueInv, JobOwnsReply, HasJob, Turns, Saving, Working
<1>5. AskedInv' BY DEF TypeOK, AskedInv, HasJob, Serving, Questions
<1>6. StopInv' BY DEF TypeOK, StopInv, SawStopped, Quiet
<1>7. JobOwnsReply' BY DEF TypeOK, JobOwnsReply, Turns, Saving, Working
<1>8. OneGeneration' BY DEF TypeOK, OneGeneration, Turns
<1>9. QuestionMatchesReply' BY SaveQuestionAsks
<1>10. WaitingHoldsNothing' BY DEF TypeOK, JobOwnsReply, WaitingHoldsNothing, Turns, Asked,
      Questions, Saving, Working
<1>11. PermitAccounting' BY SaveQuestionAsks
\* what reads no variable that the step writes
<1>12. WorkerInv'
  BY DEF WorkerInv
<1> QED BY <1>1, <1>2, <1>3, <1>4, <1>5, <1>6, <1>7, <1>8, <1>9, <1>10, <1>11, <1>12

\* A failed save ends the task as failed.
LEMMA SaveFailsKeeps ==
  ASSUME Consistent, NEW c \in Conversations, SaveFails(c)
  PROVE  Consistent'
<1> USE DEF Consistent, SaveFails, Fault, LockFree, database, worker, stops, history
<1>1. TypeOK' BY BoundAssumption DEF TypeOK, Questions, QuestionState, Settled, Status,
      Saving, Phase, Step, Kind
<1>2. JobsInv' BY DEF TypeOK, JobsInv, HasJob, Turns
<1>3. ServerInv' BY DEF TypeOK, ServerInv, HasJob
<1>4. AskedInv' BY DEF TypeOK, AskedInv, HasJob, Serving, Questions
<1>5. StopInv' BY DEF TypeOK, StopInv, SawStopped, Quiet
<1>6. JobOwnsReply' BY DEF TypeOK, JobOwnsReply, Turns, Saving, Working
<1>7. WaitingHoldsNothing' BY DEF TypeOK, WaitingHoldsNothing, Turns, Asked, Questions,
      Saving
<1>8. PermitAccounting' BY DEF TypeOK, PermitAccounting, Saving, Working, AtWork
\* what reads no variable that the step writes
<1>9. WorkerInv' /\ QueueInv' /\ OneGeneration' /\ QuestionMatchesReply'
  BY DEF WorkerInv, QueueInv, OneGeneration, QuestionMatchesReply, Turns, Asked
<1> QED BY <1>1, <1>2, <1>3, <1>4, <1>5, <1>6, <1>7, <1>8, <1>9

\* The phantom question is the only pending one of its conversation.
LEMMA SaveUnconfirmedAsks ==
  ASSUME Consistent, NEW c \in Conversations, SaveUnconfirmed(c)
  PROVE  PermitAccounting' /\ QuestionMatchesReply'
<1>1. AtWork' = AtWork BY WorkGoesOn DEF SaveUnconfirmed, Working, Saving, Consistent
<1>2. PermitAccounting' BY <1>1 DEF SaveUnconfirmed, Consistent, PermitAccounting
<1>3. PICK k \in 1..MaxQuestions :
         /\ question[<<turn[c], k>>] = "none"
         /\ question' = [question EXCEPT ![<<turn[c], k>>] = "pending"]
  BY DEF SaveUnconfirmed, PutQuestion
<1>4. turn[c] \in Turns(c) /\ Asked(c) = {}
  BY DEF SaveUnconfirmed, Consistent, JobsInv, HasJob, WaitingHoldsNothing
<1>5. reply' = [reply EXCEPT ![turn[c]] = "awaiting_input"] /\ lost' = lost \cup {turn[c]}
  BY DEF SaveUnconfirmed, PutQuestion
<1>6. <<turn[c], k>> \in Questions BY <1>4 DEF Questions, Turns
<1>7. ASSUME NEW d \in Conversations PROVE Asked(d)' = IF d = c THEN {<<turn[c], k>>} ELSE Asked(d)
  BY <1>3, <1>4, <1>6 DEF Asked, Consistent, TypeOK, Turns
<1>8. QuestionMatchesReply'
  <2> SUFFICES ASSUME NEW d \in Conversations
               PROVE  /\ \A p, q \in Asked(d)' : p = q
                      /\ \A r \in Turns(d) \ lost' :
                           reply'[r] = "awaiting_input" <=> \E q \in Asked(d)' : q[1] = r
    BY DEF QuestionMatchesReply, Turns
  <2>1. CASE d = c
    <3>1. Asked(d)' = {<<turn[c], k>>} BY <2>1, <1>7
    <3>2. ASSUME NEW r \in Turns(d) \ lost' PROVE reply'[r] # "awaiting_input" /\ r # turn[c]
      BY <2>1, <1>4, <1>5 DEF QuestionMatchesReply, Consistent, TypeOK, Turns
    <3> QED BY <3>1, <3>2
  <2>2. CASE d # c
    BY <2>2, <1>4, <1>5, <1>7 DEF QuestionMatchesReply, Consistent, TypeOK, Turns
  <2> QED BY <2>1, <2>2
<1> QED BY <1>2, <1>8

\* A question saved without confirmation belongs to a lost turn.
LEMMA SaveUnconfirmedKeeps ==
  ASSUME Consistent, NEW c \in Conversations, SaveUnconfirmed(c)
  PROVE  Consistent'
<1> USE DEF Consistent, SaveUnconfirmed, Fault, LockFree, PutQuestion, worker, stops
<1>1. TypeOK' BY BoundAssumption DEF TypeOK, JobsInv, HasJob, Turns, Questions,
      QuestionState, Settled, Status, Saving, Phase, Step, Kind
<1>2. JobsInv' BY DEF TypeOK, JobsInv, HasJob, Turns
<1>3. ServerInv' BY DEF TypeOK, ServerInv, HasJob
<1>4. QueueInv' BY DEF JobsInv, QueueInv, HasJob, Turns
<1>5. AskedInv' BY DEF TypeOK, AskedInv, HasJob, Serving, Questions
<1>6. StopInv' BY DEF TypeOK, StopInv, SawStopped, Quiet
<1>7. JobOwnsReply' BY DEF TypeOK, JobOwnsReply, Turns, Saving, Working
<1>8. OneGeneration' BY DEF TypeOK, OneGeneration, Turns
<1>9. QuestionMatchesReply' BY SaveUnconfirmedAsks
<1>10. WaitingHoldsNothing' BY DEF TypeOK, JobOwnsReply, WaitingHoldsNothing, Turns, Asked,
      Questions, Saving, Working
<1>11. PermitAccounting' BY SaveUnconfirmedAsks
\* what reads no variable that the step writes
<1>12. WorkerInv'
  BY DEF WorkerInv
<1> QED BY <1>1, <1>2, <1>3, <1>4, <1>5, <1>6, <1>7, <1>8, <1>9, <1>10, <1>11, <1>12

\* finish returns the permit whether or not it could write.
LEMMA FinishGivesPermitBack ==
  ASSUME Consistent, NEW c \in Conversations, Finish(c)
  PROVE  TypeOK' /\ PermitAccounting'
<1>1. Cardinality(AtWork') = Cardinality(AtWork) - 1 /\ Cardinality(AtWork) > 0
  BY WorkEnds DEF Finish, Consistent, Working
<1>2. PermitAccounting'
  BY <1>1, WorkFinite, QuotaAssumption DEF Finish, Consistent, PermitAccounting, TypeOK
<1>3. free' \in 0..Quota
  BY <1>1, WorkFinite, QuotaAssumption, BoundAssumption DEF Finish, Consistent, PermitAccounting, TypeOK
<1>4. spent' \in 0..MaxFaults BY BoundAssumption DEF Finish, Fault, Consistent, TypeOK
<1>5. turn[c] \in Requests BY DEF Finish, Consistent, JobsInv, HasJob, Turns, Saving
<1>6. reply' \in [Requests -> Status]
  BY <1>5 DEF Finish, Consistent, TypeOK, Saving, Settled, Status
<1>7. TypeOK'
  BY <1>3, <1>4, <1>6 DEF Finish, Consistent, TypeOK, Phase, worker, stops, history
<1> QED BY <1>2, <1>7

\* The outcome is written to the row the task owns, or the row stays as it is.
LEMMA FinishKeeps ==
  ASSUME Consistent, NEW c \in Conversations, Finish(c)
  PROVE  Consistent'
<1> USE DEF Consistent, Finish, Fault, worker, stops, history
<1>1. TypeOK' BY FinishGivesPermitBack
<1>2. JobsInv' BY DEF TypeOK, JobsInv, HasJob, Turns, Questions, QuestionState, Settled,
      Status, Saving, Phase, Step, Kind
<1>3. ServerInv' BY DEF ServerInv, HasJob, Saving
<1>4. QueueInv' BY DEF TypeOK, JobsInv, QueueInv, JobOwnsReply, HasJob, Turns, Saving,
      Working
<1>5. AskedInv' BY DEF TypeOK, AskedInv, HasJob, Serving, Questions, QuestionState, Settled,
      Status, Saving, Phase, Step, Kind
<1>6. StopInv' BY DEF TypeOK, StopInv, SawStopped, Quiet, Questions, QuestionState, Settled,
      Status, Saving, Phase, Step, Kind
<1>7. JobOwnsReply' BY DEF TypeOK, JobOwnsReply, Turns, Saving, Working
<1>8. OneGeneration' BY DEF TypeOK, OneGeneration, Turns, Questions, QuestionState, Settled,
      Status, Saving, Phase, Step, Kind
<1>9. QuestionMatchesReply' BY DEF TypeOK, JobOwnsReply, QuestionMatchesReply, Turns, Asked,
      Questions, Saving, Working
<1>10. WaitingHoldsNothing' BY DEF TypeOK, WaitingHoldsNothing, Turns, Asked, Questions,
      Saving
<1>11. PermitAccounting' BY FinishGivesPermitBack
\* what reads no variable that the step writes
<1>12. WorkerInv'
  BY DEF WorkerInv
<1> QED BY <1>1, <1>2, <1>3, <1>4, <1>5, <1>6, <1>7, <1>8, <1>9, <1>10, <1>11, <1>12

\* The entry goes when the task has written its outcome and left its permit.
LEMMA RemoveJobKeeps ==
  ASSUME Consistent, NEW c \in Conversations, RemoveJob(c)
  PROVE  Consistent'
<1> USE DEF Consistent, RemoveJob, LockFree, database, worker, stops, process, history
<1>1. TypeOK' BY DEF TypeOK, Questions, QuestionState, Settled, Status, Saving, Phase, Step,
      Kind
<1>2. JobsInv' BY DEF TypeOK, JobsInv, HasJob, Turns
<1>3. ServerInv' BY DEF TypeOK, ServerInv, HasJob
<1>4. AskedInv' BY DEF TypeOK, AskedInv, HasJob, Serving, Questions
<1>5. StopInv' BY DEF TypeOK, StopInv, SawStopped, Quiet
<1>6. JobOwnsReply' BY DEF TypeOK, JobOwnsReply, Turns, Saving, Working
<1>7. WaitingHoldsNothing' BY DEF TypeOK, WaitingHoldsNothing, Turns, Asked, Questions,
      Saving
<1>8. PermitAccounting' BY DEF TypeOK, PermitAccounting, Saving, Working, AtWork
\* what reads no variable that the step writes
<1>9. WorkerInv' /\ QueueInv' /\ OneGeneration' /\ QuestionMatchesReply'
  BY DEF WorkerInv, QueueInv, OneGeneration, QuestionMatchesReply, Turns, Asked
<1> QED BY <1>1, <1>2, <1>3, <1>4, <1>5, <1>6, <1>7, <1>8, <1>9

-----------------------------------------------------------------------------
(* Answering *)

\* The mutex is taken for a conversation without a task.
LEMMA AnswerBeginsKeeps ==
  ASSUME Consistent, NEW q \in Questions, NEW a \in Answers, AnswerBegins(q, a)
  PROVE  Consistent'
<1> USE DEF Consistent, AnswerBegins, Serving, LockFree, database, jobs, worker, stops,
      process, history
<1>1. TypeOK' BY DEF TypeOK, Questions, QuestionState, Settled, Status, Saving, Phase, Step,
      Kind
<1>2. ServerInv' BY DEF TypeOK, ServerInv, HasJob
<1>3. AskedInv' BY DEF TypeOK, AskedInv, HasJob, Questions
\* what reads no variable that the step writes
<1>4. JobsInv' /\ WorkerInv' /\ QueueInv' /\ StopInv' /\ JobOwnsReply' /\ OneGeneration' /\
      QuestionMatchesReply' /\ WaitingHoldsNothing' /\ PermitAccounting'
  BY DEF JobsInv, WorkerInv, QueueInv, StopInv, JobOwnsReply, OneGeneration,
      QuestionMatchesReply, WaitingHoldsNothing, PermitAccounting, HasJob, Turns, Asked,
      SawStopped, Quiet, AtWork
<1> QED BY <1>1, <1>2, <1>3, <1>4

\* An answered turn was not stopped while it was generating; its conversation had no task
\* and nothing generating.
LEMMA AnswerCommitsResumes ==
  ASSUME Consistent, AnswerCommits
  PROVE  TypeOK' /\ JobsInv' /\ QueueInv' /\ StopInv' /\ JobOwnsReply' /\ OneGeneration' /\ PermitAccounting'
<1> DEFINE q == lock[1]
           r == q[1]
           c == ConversationOf[r]
<1>1. /\ q \in Questions /\ r \in Requests /\ c \in Conversations /\ r \in Turns(c)
      /\ question[q] = "pending" /\ q \in Asked(c)
  BY ConversationAssumption DEF AnswerCommits, AnswerApplies, Consistent, TypeOK, Questions, Turns, Asked
<1>2. ~HasJob(c) BY DEF AnswerCommits, AnswerApplies, Consistent, AskedInv
<1>3. /\ phase' = [phase EXCEPT ![c] = "running"] /\ turn' = [turn EXCEPT ![c] = r]
      /\ reply' = [reply EXCEPT ![r] = "generating"]
      /\ free' = free - 1
      /\ \A d \in Conversations : d # c /\ d \in stopped => d \in stopped'
      /\ UNCHANGED <<borrowed, halted, target, sequence, lost>>
  BY DEF AnswerCommits, AnswerApplies, EnterJob, stops, history
<1>4. \A s \in Turns(c) : reply[s] # "generating" BY <1>1 DEF Consistent, WaitingHoldsNothing
<1>5. r \in lost \/ reply[r] = "awaiting_input" BY <1>1 DEF Consistent, QuestionMatchesReply
<1>6. PermitAccounting'
  <2>1. Cardinality(AtWork') = Cardinality(AtWork) + 1
    BY <1>1, <1>2, <1>3, WorkBegins DEF Consistent
  <2> QED BY <2>1, <1>3, WorkFinite, QuotaAssumption DEF Consistent, PermitAccounting, TypeOK
<1>7. OneGeneration'
  BY <1>1, <1>3, <1>4 DEF OneGeneration, Consistent, TypeOK, Turns
<1>8. JobOwnsReply'
  <2> SUFFICES ASSUME NEW d \in Conversations, phase'[d] \in Working
               PROVE  /\ turn'[d] \in Turns(d)
                      /\ turn'[d] \notin lost => reply'[turn'[d]] = "generating"
                      /\ \A s \in Turns(d) : reply'[s] = "generating" => s = turn'[d]
    BY <1>3 DEF JobOwnsReply, Turns
  <2>1. CASE d = c BY <2>1, <1>1, <1>3, <1>4 DEF Consistent, TypeOK, Turns
  <2>2. CASE d # c BY <2>2, <1>1, <1>3 DEF JobOwnsReply, Consistent, TypeOK, Turns
  <2> QED BY <2>1, <2>2
<1>9. ASSUME NEW s \in Requests, s # r, Quiet(s) PROVE Quiet(s)'
  BY <1>1, <1>3, <1>9 DEF Quiet, Consistent, TypeOK
<1>10. StopInv'
  <2>1. Quiet(r) => r \in lost BY <1>5 DEF Quiet
  <2>2. ASSUME NEW h \in Requests \X Kind, SawStopped(h) PROVE SawStopped(h)'
    BY <1>1, <1>3, <1>9, <2>1, <2>2 DEF SawStopped, Consistent, TypeOK
  <2> QED BY <1>3, <2>2 DEF StopInv, Consistent, TypeOK
<1>11. TypeOK'
  <2>1. lock[2] \in Answers /\ question' = [question EXCEPT ![q] = lock[2]]
    BY DEF AnswerCommits, AnswerApplies, Consistent, TypeOK
  <2>2. free' \in 0..Quota
    BY BoundAssumption DEF AnswerCommits, AnswerApplies, EnterJob, Consistent, TypeOK
  <2>3. stopped' \subseteq Conversations
    BY <1>1 DEF AnswerCommits, EnterJob, Consistent, TypeOK
  <2>4. lock' = None BY DEF AnswerCommits
  <2>5. reply' \in [Requests -> Status] /\ question' \in [Questions -> QuestionState]
    BY <1>1, <1>3, <2>1 DEF Consistent, TypeOK, Status, QuestionState
  <2>6. phase' \in [Conversations -> Phase] /\ turn' \in [Conversations -> Requests \cup {None}]
    BY <1>1, <1>3 DEF Consistent, TypeOK, Phase
  <2> QED BY <2>2, <2>3, <2>4, <2>5, <2>6
          DEF AnswerCommits, Consistent, TypeOK, worker, stops, process, history
<1>12. JobsInv'
  <2> SUFFICES ASSUME NEW d \in Conversations
               PROVE  /\ HasJob(d)' <=> turn'[d] # None
                      /\ HasJob(d)' => turn'[d] \in Turns(d) /\ reply'[turn'[d]] # "none"
                      /\ d \in stopped' => HasJob(d)'
                      /\ server' = "stopping" /\ HasJob(d)' => d \in stopped'
    BY DEF JobsInv, Turns
  <2>1. stopped' = IF server = "stopping" THEN stopped \cup {c} ELSE stopped \ {c}
    BY DEF AnswerCommits, EnterJob
  <2>2. server' = server BY DEF AnswerCommits, process
  <2>3. CASE d = c
    BY <2>1, <2>2, <2>3, <1>1, <1>3, RequestAssumption DEF Consistent, TypeOK, HasJob
  <2>4. CASE d # c
    BY <2>1, <2>2, <2>4, <1>1, <1>3 DEF Consistent, TypeOK, JobsInv, HasJob, Turns
  <2> QED BY <2>3, <2>4
<1>13. QueueInv'
  <2>1. reply[r] # "none" BY <1>1 DEF Consistent, AskedInv
  <2>2. \A s \in Requests : reply'[s] = IF s = r THEN "generating" ELSE reply[s]
    BY <1>1, <1>3 DEF Consistent, TypeOK
  <2>3. UNCHANGED <<alive, sequence, intake, due, step, row, lost>>
    BY DEF AnswerCommits, worker, history
  <2> QED BY <1>5, <2>1, <2>2, <2>3 DEF Consistent, QueueInv
<1> QED BY <1>6, <1>7, <1>8, <1>10, <1>11, <1>12, <1>13

\* The answered turn is generating again, and nothing else of its conversation is.
LEMMA AnswerCommitsKeeps ==
  ASSUME Consistent, AnswerCommits
  PROVE  Consistent'
<1> USE DEF Consistent, AnswerCommits, AnswerApplies, EnterJob, worker, stops, process,
      history
<1>1. TypeOK' BY AnswerCommitsResumes
<1>2. JobsInv' BY AnswerCommitsResumes
<1>3. ServerInv' BY DEF TypeOK, ServerInv, HasJob
<1>4. QueueInv' BY AnswerCommitsResumes
<1>5. AskedInv' BY DEF TypeOK, AskedInv, HasJob, Serving, Questions
<1>6. StopInv' BY AnswerCommitsResumes
<1>7. JobOwnsReply' BY AnswerCommitsResumes
<1>8. OneGeneration' BY AnswerCommitsResumes
<1>9. QuestionMatchesReply' BY AnswerAssumption DEF TypeOK, QuestionMatchesReply, Turns,
      Asked, Questions
<1>10. WaitingHoldsNothing' BY AnswerAssumption DEF TypeOK, QuestionMatchesReply,
      WaitingHoldsNothing, Turns, Asked, Questions, Saving
<1>11. PermitAccounting' BY AnswerCommitsResumes
\* what reads no variable that the step writes
<1>12. WorkerInv'
  BY DEF WorkerInv
<1> QED BY <1>1, <1>2, <1>3, <1>4, <1>5, <1>6, <1>7, <1>8, <1>9, <1>10, <1>11, <1>12

\* An answer applied without confirmation leaves a lost turn without a task.
LEMMA AnswerUnconfirmedKeeps ==
  ASSUME Consistent, AnswerUnconfirmed
  PROVE  Consistent'
<1> USE DEF Consistent, AnswerUnconfirmed, Fault, AnswerApplies, jobs, worker, stops
<1>1. TypeOK' BY BoundAssumption, ConversationAssumption DEF TypeOK, Questions,
      QuestionState, Settled, Status, Saving, Phase, Step, Kind
<1>2. JobsInv' BY DEF TypeOK, JobsInv, HasJob, Turns
<1>3. ServerInv' BY DEF TypeOK, ServerInv, HasJob
<1>4. QueueInv' BY DEF TypeOK, QueueInv, AskedInv, HasJob, Serving, Questions
<1>5. AskedInv' BY DEF TypeOK, AskedInv, HasJob, Serving, Questions
<1>6. StopInv' BY DEF TypeOK, StopInv, SawStopped, Quiet
<1>7. JobOwnsReply' BY DEF AskedInv, JobOwnsReply, HasJob, Turns, Serving, Questions,
      Saving, Working
<1>8. OneGeneration' BY DEF TypeOK, JobsInv, QueueInv, AskedInv, JobOwnsReply,
      OneGeneration, WaitingHoldsNothing, HasJob, Turns, Asked, Serving, Questions, Saving,
      Working
<1>9. QuestionMatchesReply' BY AnswerAssumption DEF TypeOK, QuestionMatchesReply, Turns,
      Asked, Questions
<1>10. WaitingHoldsNothing' BY AnswerAssumption DEF TypeOK, QuestionMatchesReply,
      WaitingHoldsNothing, Turns, Asked, Questions, Saving
\* what reads no variable that the step writes
<1>11. WorkerInv' /\ PermitAccounting'
  BY DEF WorkerInv, PermitAccounting, AtWork
<1> QED BY <1>1, <1>2, <1>3, <1>4, <1>5, <1>6, <1>7, <1>8, <1>9, <1>10, <1>11

\* A refusal only releases the mutex.
LEMMA AnswerRefusedKeeps ==
  ASSUME Consistent, AnswerRefused
  PROVE  Consistent'
<1> USE DEF Consistent, AnswerRefused, database, jobs, worker, stops, process, history
<1>1. TypeOK' BY DEF TypeOK, Questions, QuestionState, Settled, Status, Saving, Phase, Step,
      Kind
<1>2. ServerInv' BY DEF TypeOK, ServerInv, HasJob
<1>3. AskedInv' BY DEF TypeOK, AskedInv, HasJob, Serving, Questions
\* what reads no variable that the step writes
<1>4. JobsInv' /\ WorkerInv' /\ QueueInv' /\ StopInv' /\ JobOwnsReply' /\ OneGeneration' /\
      QuestionMatchesReply' /\ WaitingHoldsNothing' /\ PermitAccounting'
  BY DEF JobsInv, WorkerInv, QueueInv, StopInv, JobOwnsReply, OneGeneration,
      QuestionMatchesReply, WaitingHoldsNothing, PermitAccounting, HasJob, Turns, Asked,
      SawStopped, Quiet, AtWork
<1> QED BY <1>1, <1>2, <1>3, <1>4

-----------------------------------------------------------------------------
(* Stopping *)

\* A stop notes a turn of the conversation, or none.
LEMMA StopBeginsAims ==
  ASSUME Consistent, NEW c \in Conversations, StopBegins(c)
  PROVE  TypeOK'
<1>1. spent' \in 0..MaxFaults BY BoundAssumption DEF StopBegins, Fault, Consistent, TypeOK
<1>2. LiveTurn(c) \subseteq Requests \X Kind BY DEF LiveTurn, Turns
<1>3. /\ stop' \in [Conversations -> {"idle", "inputs", "reread"}]
      /\ target' \in [Conversations -> (Requests \X Kind) \cup {None}]
  <2>1. CASE UNCHANGED stops BY <2>1 DEF Consistent, TypeOK, stops
  <2>2. CASE stop' = [stop EXCEPT ![c] = "inputs"] /\ \E t \in IF LiveTurn(c) = {} THEN {None} ELSE LiveTurn(c) :
             target' = [target EXCEPT ![c] = t]
    BY <2>2, <1>2 DEF Consistent, TypeOK
  <2> QED BY <2>1, <2>2 DEF StopBegins
<1>4. stopped' \subseteq Conversations BY DEF StopBegins, Consistent, TypeOK
<1> QED BY <1>1, <1>3, <1>4 DEF StopBegins, Consistent, TypeOK, database, worker, history

\* The stop cancels the token of the task that runs, before it notes what it saw working.
LEMMA StopBeginsKeeps ==
  ASSUME Consistent, NEW c \in Conversations, StopBegins(c)
  PROVE  Consistent'
<1> USE DEF Consistent, StopBegins, Serving, LockFree, LiveTurn, Fault, stops, database,
      worker, history
<1>1. TypeOK' BY StopBeginsAims
<1>2. JobsInv' BY DEF TypeOK, JobsInv, HasJob, Turns
<1>3. ServerInv' BY DEF TypeOK, ServerInv, HasJob
<1>4. StopInv' BY DEF TypeOK, QueueInv, StopInv, JobOwnsReply, HasJob, Turns, SawStopped,
      Quiet, Questions, QuestionState, Settled, Status, Saving, Phase, Working, Step, Kind
\* what reads no variable that the step writes
<1>5. WorkerInv' /\ QueueInv' /\ AskedInv' /\ JobOwnsReply' /\ OneGeneration' /\
      QuestionMatchesReply' /\ WaitingHoldsNothing' /\ PermitAccounting'
  BY DEF WorkerInv, QueueInv, AskedInv, JobOwnsReply, OneGeneration, QuestionMatchesReply,
      WaitingHoldsNothing, PermitAccounting, HasJob, Turns, Asked, AtWork
<1> QED BY <1>1, <1>2, <1>3, <1>4, <1>5

\* After the second half of a stop the conversation has no pending question and no waiting
\* reply.
LEMMA StopCancelsAsked ==
  ASSUME Consistent, NEW c \in Conversations, StopCancelsInputs(c)
  PROVE  QuestionMatchesReply'
<1>1. ASSUME NEW d \in Conversations PROVE Asked(d)' = IF d = c THEN {} ELSE Asked(d)
  BY DEF StopCancelsInputs, Asked, Consistent, TypeOK
<1>2. ASSUME NEW d \in Conversations, NEW r \in Turns(d)
      PROVE  reply'[r] = "awaiting_input" <=> d # c /\ reply[r] = "awaiting_input"
  BY DEF StopCancelsInputs, Turns
<1>3. lost' = lost BY DEF StopCancelsInputs, history
<1>4. \A d \in Conversations : Turns(d)' = Turns(d) BY DEF Turns
<1> QED BY <1>1, <1>2, <1>3, <1>4 DEF QuestionMatchesReply, Consistent, Turns

\* The pending questions and the waiting replies of the conversation are cancelled together.
LEMMA StopCancelsInputsKeeps ==
  ASSUME Consistent, NEW c \in Conversations, StopCancelsInputs(c)
  PROVE  Consistent'
<1> USE DEF Consistent, StopCancelsInputs, jobs, worker, process, history
<1>1. TypeOK' BY DEF TypeOK, Questions, QuestionState, Settled, Status, Saving, Phase, Step,
      Kind
<1>2. JobsInv' BY DEF TypeOK, JobsInv, HasJob, Turns
<1>3. ServerInv' BY DEF TypeOK, ServerInv, HasJob
<1>4. QueueInv' BY DEF TypeOK, QueueInv
<1>5. AskedInv' BY DEF AskedInv, HasJob, Turns, Asked, Serving, Questions
<1>6. StopInv' BY DEF TypeOK, StopInv, SawStopped, Quiet
<1>7. JobOwnsReply' BY DEF TypeOK, JobOwnsReply, Turns, Saving, Working
<1>8. OneGeneration' BY DEF TypeOK, OneGeneration, Turns
<1>9. QuestionMatchesReply' BY StopCancelsAsked
<1>10. WaitingHoldsNothing' BY DEF TypeOK, WaitingHoldsNothing, Turns, Asked, Questions,
      Saving
\* what reads no variable that the step writes
<1>11. WorkerInv' /\ PermitAccounting'
  BY DEF WorkerInv, PermitAccounting, AtWork
<1> QED BY <1>1, <1>2, <1>3, <1>4, <1>5, <1>6, <1>7, <1>8, <1>9, <1>10, <1>11

\* A failed stop forgets what it saw.
LEMMA StopFailsKeeps ==
  ASSUME Consistent, NEW c \in Conversations, StopFails(c)
  PROVE  Consistent'
<1> USE DEF Consistent, StopFails, Fault, database, jobs, worker, history
<1>1. TypeOK' BY BoundAssumption DEF TypeOK, Questions, QuestionState, Settled, Status,
      Saving, Phase, Step, Kind
<1>2. ServerInv' BY DEF TypeOK, ServerInv, HasJob
<1>3. StopInv' BY DEF TypeOK, StopInv, SawStopped, Quiet
\* what reads no variable that the step writes
<1>4. JobsInv' /\ WorkerInv' /\ QueueInv' /\ AskedInv' /\ JobOwnsReply' /\ OneGeneration' /\
      QuestionMatchesReply' /\ WaitingHoldsNothing' /\ PermitAccounting'
  BY DEF JobsInv, WorkerInv, QueueInv, AskedInv, JobOwnsReply, OneGeneration,
      QuestionMatchesReply, WaitingHoldsNothing, PermitAccounting, HasJob, Turns, Asked,
      Serving, AtWork
<1> QED BY <1>1, <1>2, <1>3, <1>4

\* What the stop saw becomes history when it returns.
LEMMA StopReturnsKeeps ==
  ASSUME Consistent, NEW c \in Conversations, StopReturns(c)
  PROVE  Consistent'
<1> USE DEF Consistent, StopReturns, LockFree, Recovered, jobs, worker, process
<1>1. TypeOK' BY DEF TypeOK, Questions, QuestionState, Settled, Status, Saving, Phase, Step,
      Kind
<1>2. JobsInv' BY DEF TypeOK, JobsInv, HasJob, Turns
<1>3. ServerInv' BY DEF TypeOK, ServerInv, HasJob
<1>4. QueueInv' BY DEF TypeOK, QueueInv
<1>5. AskedInv' BY DEF TypeOK, AskedInv, HasJob, Serving, Questions
<1>6. StopInv' BY DEF TypeOK, StopInv, SawStopped, Quiet
<1>7. JobOwnsReply' BY DEF JobOwnsReply, HasJob, Turns, Saving, Working
<1>8. OneGeneration' BY DEF TypeOK, OneGeneration, Turns
<1>9. QuestionMatchesReply' BY DEF TypeOK, QuestionMatchesReply, Turns, Asked, Questions
<1>10. WaitingHoldsNothing' BY DEF TypeOK, WaitingHoldsNothing, Turns, Asked, Questions,
      Saving
\* what reads no variable that the step writes
<1>11. WorkerInv' /\ PermitAccounting'
  BY DEF WorkerInv, PermitAccounting, AtWork
<1> QED BY <1>1, <1>2, <1>3, <1>4, <1>5, <1>6, <1>7, <1>8, <1>9, <1>10, <1>11

-----------------------------------------------------------------------------
(* Reading, deleting and the other users of the semaphore *)

\* recover interrupts only what no task owns.
LEMMA ReadKeeps ==
  ASSUME Consistent, NEW c \in Conversations, Read(c)
  PROVE  Consistent'
<1> USE DEF Consistent, Read, Serving, LockFree, Recovered, jobs, worker, stops, process,
      history
<1>1. TypeOK' BY DEF TypeOK, Questions, QuestionState, Settled, Status, Saving, Phase, Step,
      Kind
<1>2. JobsInv' BY DEF TypeOK, JobsInv, HasJob, Turns
<1>3. QueueInv' BY DEF TypeOK, QueueInv
<1>4. AskedInv' BY DEF TypeOK, AskedInv, HasJob, Questions
<1>5. StopInv' BY DEF TypeOK, StopInv, SawStopped, Quiet
<1>6. JobOwnsReply' BY DEF JobOwnsReply, HasJob, Turns, Saving, Working
<1>7. OneGeneration' BY DEF TypeOK, OneGeneration, Turns
<1>8. QuestionMatchesReply' BY DEF TypeOK, QuestionMatchesReply, Turns, Asked, Questions
<1>9. WaitingHoldsNothing' BY DEF TypeOK, WaitingHoldsNothing, Turns, Asked, Questions,
      Saving
\* what reads no variable that the step writes
<1>10. ServerInv' /\ WorkerInv' /\ PermitAccounting'
  BY DEF ServerInv, WorkerInv, PermitAccounting, HasJob, AtWork
<1> QED BY <1>1, <1>2, <1>3, <1>4, <1>5, <1>6, <1>7, <1>8, <1>9, <1>10

\* A deleted conversation has no pending question and no waiting reply.
LEMMA DeleteDropsAsked ==
  ASSUME Consistent, NEW c \in Conversations, Delete(c)
  PROVE  QuestionMatchesReply'
<1>1. ASSUME NEW d \in Conversations PROVE Asked(d)' = IF d = c THEN {} ELSE Asked(d)
  BY DEF Delete, Asked, Consistent, TypeOK
<1>2. ASSUME NEW d \in Conversations, NEW r \in Turns(d)
      PROVE  reply'[r] = "awaiting_input" <=> d # c /\ reply[r] = "awaiting_input"
  BY DEF Delete, Turns
<1>3. lost' = lost BY DEF Delete
<1> QED BY <1>1, <1>2, <1>3 DEF QuestionMatchesReply, Consistent, Turns

\* All rows of the conversation go at once; no task or answer is using them.
LEMMA DeleteKeeps ==
  ASSUME Consistent, NEW c \in Conversations, Delete(c)
  PROVE  Consistent'
<1> USE DEF Consistent, Delete, Serving, LockFree, jobs, worker, process
<1>1. TypeOK' BY DEF TypeOK, Questions, QuestionState, Settled, Status, Saving, Phase, Step,
      Kind
<1>2. JobsInv' BY DEF TypeOK, JobsInv, HasJob, Turns
<1>3. WorkerInv' BY DEF TypeOK, WorkerInv
<1>4. QueueInv' BY DEF QueueInv, HasJob, Turns
<1>5. AskedInv' BY DEF AskedInv, HasJob, Turns, Questions
<1>6. StopInv' BY DEF TypeOK, StopInv, SawStopped, Quiet
<1>7. JobOwnsReply' BY DEF JobOwnsReply, HasJob, Turns, Saving, Working
<1>8. OneGeneration' BY DEF TypeOK, OneGeneration, Turns
<1>9. QuestionMatchesReply' BY DeleteDropsAsked
<1>10. WaitingHoldsNothing' BY DEF TypeOK, WaitingHoldsNothing, Turns, Asked, Questions,
      Saving
\* what reads no variable that the step writes
<1>11. ServerInv' /\ PermitAccounting'
  BY DEF ServerInv, PermitAccounting, HasJob, AtWork
<1> QED BY <1>1, <1>2, <1>3, <1>4, <1>5, <1>6, <1>7, <1>8, <1>9, <1>10, <1>11

\* A permit goes to another user of the semaphore.
LEMMA BorrowKeeps ==
  ASSUME Consistent, Borrow
  PROVE  Consistent'
<1> USE DEF Consistent, Borrow, database, worker, stops, process, history
<1>1. TypeOK' BY BoundAssumption DEF TypeOK, Questions, QuestionState, Settled, Status,
      Saving, Phase, Step, Kind
<1>2. PermitAccounting' BY WorkFinite DEF TypeOK, PermitAccounting, AtWork
\* what reads no variable that the step writes
<1>3. JobsInv' /\ ServerInv' /\ WorkerInv' /\ QueueInv' /\ AskedInv' /\ StopInv' /\
      JobOwnsReply' /\ OneGeneration' /\ QuestionMatchesReply' /\ WaitingHoldsNothing'
  BY DEF JobsInv, ServerInv, WorkerInv, QueueInv, AskedInv, StopInv, JobOwnsReply,
      OneGeneration, QuestionMatchesReply, WaitingHoldsNothing, HasJob, Turns, Asked,
      SawStopped, Quiet, Serving
<1> QED BY <1>1, <1>2, <1>3

\* A permit that comes back fits into the semaphore.
LEMMA GiveBackFits ==
  ASSUME Consistent, GiveBack
  PROVE  TypeOK'
<1>1. free' \in 0..Quota /\ borrowed' \in 0..MaxBorrowed
  BY WorkFinite, QuotaAssumption, BoundAssumption DEF GiveBack, Consistent, PermitAccounting, TypeOK
<1> QED BY <1>1 DEF GiveBack, Consistent, TypeOK, database, worker, stops, process, history

\* A borrowed permit comes back.
LEMMA GiveBackKeeps ==
  ASSUME Consistent, GiveBack
  PROVE  Consistent'
<1> USE DEF Consistent, GiveBack, database, worker, stops, process, history
<1>1. TypeOK' BY GiveBackFits
<1>2. PermitAccounting' BY WorkFinite DEF TypeOK, PermitAccounting, AtWork
\* what reads no variable that the step writes
<1>3. JobsInv' /\ ServerInv' /\ WorkerInv' /\ QueueInv' /\ AskedInv' /\ StopInv' /\
      JobOwnsReply' /\ OneGeneration' /\ QuestionMatchesReply' /\ WaitingHoldsNothing'
  BY DEF JobsInv, ServerInv, WorkerInv, QueueInv, AskedInv, StopInv, JobOwnsReply,
      OneGeneration, QuestionMatchesReply, WaitingHoldsNothing, HasJob, Turns, Asked,
      SawStopped, Quiet, Serving
<1> QED BY <1>1, <1>2, <1>3

-----------------------------------------------------------------------------
(* The process *)

\* Every task is cancelled and the worker is dropped at its await.
LEMMA ShutdownKeeps ==
  ASSUME Consistent, Shutdown
  PROVE  Consistent'
<1> USE DEF Consistent, Shutdown, Fault, DropWorker, database, stops
<1>1. TypeOK' BY BoundAssumption DEF TypeOK, WorkerInv, HasJob, Questions, QuestionState,
      Settled, Status, Saving, Phase, Step, Kind
<1>2. JobsInv' BY DEF TypeOK, JobsInv, HasJob, Turns
<1>3. ServerInv' BY DEF TypeOK, ServerInv, HasJob
<1>4. WorkerInv' BY DEF TypeOK, WorkerInv
<1>5. QueueInv' BY DEF WorkerInv, QueueInv, HasJob
<1>6. AskedInv' BY DEF TypeOK, AskedInv, HasJob, Serving, Questions
<1>7. StopInv' BY DEF StopInv, HasJob, SawStopped, Quiet
<1>8. JobOwnsReply' BY DEF TypeOK, JobOwnsReply, Turns, Saving, Working
<1>9. QuestionMatchesReply' BY DEF TypeOK, QuestionMatchesReply, Turns, Asked, Questions
<1>10. WaitingHoldsNothing' BY DEF TypeOK, WaitingHoldsNothing, Turns, Asked, Questions,
      Saving
\* what reads no variable that the step writes
<1>11. OneGeneration' /\ PermitAccounting'
  BY DEF OneGeneration, PermitAccounting, Turns, AtWork
<1> QED BY <1>1, <1>2, <1>3, <1>4, <1>5, <1>6, <1>7, <1>8, <1>9, <1>10, <1>11

\* The next process starts with all its permits.
LEMMA DownFreesAll ==
  ASSUME Consistent, Down
  PROVE  PermitAccounting'
<1>1. AtWork' = {} BY DEF AtWork, Down, Working, Saving
<1>2. Cardinality(AtWork') = 0 BY <1>1, FS_EmptySet
<1> QED BY <1>2, BoundAssumption DEF Down, PermitAccounting

\* Nothing is left in memory when the process ends.
LEMMA ExitKeeps ==
  ASSUME Consistent, Exit
  PROVE  Consistent'
<1> USE DEF Consistent, Exit, LockFree, Down, DropWorker, database
<1>1. TypeOK' BY BoundAssumption DEF TypeOK, ServerInv, HasJob, Questions, QuestionState,
      Settled, Status, Saving, Phase, Step, Kind
<1>2. JobsInv' BY DEF TypeOK, JobsInv, HasJob, Turns
<1>3. ServerInv' BY DEF TypeOK, ServerInv, HasJob
<1>4. WorkerInv' BY DEF TypeOK, WorkerInv
<1>5. QueueInv' BY DEF ServerInv, QueueInv, HasJob
<1>6. AskedInv' BY DEF TypeOK, AskedInv, HasJob, Serving, Questions
<1>7. StopInv' BY DEF TypeOK, StopInv, SawStopped, Quiet
<1>8. JobOwnsReply' BY DEF TypeOK, JobOwnsReply, Turns, Saving, Working
<1>9. OneGeneration' BY DEF TypeOK, OneGeneration, Turns
<1>10. QuestionMatchesReply' BY DEF TypeOK, QuestionMatchesReply, Turns, Asked, Questions
<1>11. WaitingHoldsNothing' BY DEF TypeOK, WaitingHoldsNothing, Turns, Asked, Questions,
      Saving
<1>12. PermitAccounting' BY DownFreesAll
<1> QED BY <1>1, <1>2, <1>3, <1>4, <1>5, <1>6, <1>7, <1>8, <1>9, <1>10, <1>11, <1>12

\* What was in memory is gone; the tables stay.
LEMMA CrashKeeps ==
  ASSUME Consistent, Crash
  PROVE  Consistent'
<1> USE DEF Consistent, Crash, Fault, Down, DropWorker, database
<1>1. TypeOK' BY BoundAssumption DEF TypeOK, WorkerInv, Questions, QuestionState, Settled,
      Status, Saving, Phase, Step, Kind
<1>2. JobsInv' BY DEF TypeOK, JobsInv, HasJob, Turns
<1>3. ServerInv' BY DEF TypeOK, ServerInv, HasJob
<1>4. WorkerInv' BY DEF TypeOK, WorkerInv
<1>5. QueueInv' BY DEF WorkerInv, QueueInv
<1>6. AskedInv' BY DEF TypeOK, AskedInv, HasJob, Serving, Questions
<1>7. StopInv' BY DEF TypeOK, StopInv, SawStopped, Quiet
<1>8. JobOwnsReply' BY DEF TypeOK, JobOwnsReply, Turns, Saving, Working
<1>9. OneGeneration' BY DEF TypeOK, OneGeneration, Turns
<1>10. QuestionMatchesReply' BY DEF TypeOK, QuestionMatchesReply, Turns, Asked, Questions
<1>11. WaitingHoldsNothing' BY DEF TypeOK, WaitingHoldsNothing, Turns, Asked, Questions,
      Saving
<1>12. PermitAccounting' BY DownFreesAll
<1> QED BY <1>1, <1>2, <1>3, <1>4, <1>5, <1>6, <1>7, <1>8, <1>9, <1>10, <1>11, <1>12

\* A generating row of the previous process is interrupted before the worker starts.
LEMMA ConnectKeeps ==
  ASSUME Consistent, Connect
  PROVE  Consistent'
<1> USE DEF Consistent, Connect, jobs, stops, history
<1>1. TypeOK' BY DEF TypeOK, Questions, QuestionState, Settled, Status, Saving, Phase, Step,
      Kind
<1>2. JobsInv' BY DEF TypeOK, JobsInv, HasJob, Turns
<1>3. ServerInv' BY DEF TypeOK, ServerInv, HasJob
<1>4. WorkerInv' BY DEF ServerInv, WorkerInv, HasJob
<1>5. QueueInv' BY DEF ServerInv, QueueInv, HasJob
<1>6. AskedInv' BY DEF TypeOK, AskedInv, HasJob, Serving, Questions
<1>7. StopInv' BY DEF TypeOK, StopInv, SawStopped, Quiet
<1>8. JobOwnsReply' BY DEF ServerInv, JobOwnsReply, HasJob, Turns, Saving, Working
<1>9. OneGeneration' BY DEF TypeOK, OneGeneration, Turns
<1>10. QuestionMatchesReply' BY DEF TypeOK, QuestionMatchesReply, Turns, Asked, Questions
<1>11. WaitingHoldsNothing' BY DEF TypeOK, WaitingHoldsNothing, Turns, Asked, Questions,
      Saving
\* what reads no variable that the step writes
<1>12. PermitAccounting'
  BY DEF PermitAccounting, AtWork
<1> QED BY <1>1, <1>2, <1>3, <1>4, <1>5, <1>6, <1>7, <1>8, <1>9, <1>10, <1>11, <1>12

-----------------------------------------------------------------------------
(* The theorems *)

\* The first process finds no message, no task and all its permits.
LEMMA InitConsistent == Init => Consistent
<1> SUFFICES ASSUME Init PROVE Consistent OBVIOUS
<1>1. TypeOK
  BY BoundAssumption DEF Init, TypeOK, Status, QuestionState, Phase, Step
<1>2. AtWork = {} BY DEF Init, AtWork, Working, Saving
<1>3. Cardinality(AtWork) = 0 BY <1>2, FS_EmptySet
<1>4. PermitAccounting BY <1>3, BoundAssumption DEF Init, PermitAccounting
<1>5. JobsInv /\ ServerInv /\ JobOwnsReply
  BY DEF Init, JobsInv, ServerInv, JobOwnsReply, HasJob, Working, Saving
<1>6. WorkerInv BY DEF Init, WorkerInv
<1>7. QueueInv BY DEF Init, QueueInv
<1>8. AskedInv /\ StopInv BY DEF Init, AskedInv, StopInv
<1>9. OneGeneration BY DEF Init, OneGeneration, Turns
<1>10. \A c \in Conversations : Asked(c) = {} BY DEF Init, Asked
<1>11. QuestionMatchesReply /\ WaitingHoldsNothing
  BY <1>10 DEF Init, QuestionMatchesReply, WaitingHoldsNothing, Turns
<1> QED BY <1>1, <1>4, <1>5, <1>6, <1>7, <1>8, <1>9, <1>11 DEF Consistent

\* A step that changes no variable.
LEMMA StutterKeeps == Consistent /\ UNCHANGED vars => Consistent'
<1> SUFFICES ASSUME Consistent, UNCHANGED vars PROVE Consistent' OBVIOUS
<1> USE DEF Consistent, vars, database, jobs, worker, stops, process, history
<1>1. TypeOK' BY DEF TypeOK
<1>2. JobsInv' /\ ServerInv' BY DEF JobsInv, ServerInv, HasJob, Turns
<1>3. WorkerInv' /\ QueueInv' BY DEF WorkerInv, QueueInv
<1>4. AskedInv' /\ StopInv' BY DEF AskedInv, StopInv, SawStopped, HasJob, Serving, Quiet
<1>5. JobOwnsReply' /\ OneGeneration' BY DEF JobOwnsReply, OneGeneration, Turns
<1>6. QuestionMatchesReply' /\ WaitingHoldsNothing'
  BY DEF QuestionMatchesReply, WaitingHoldsNothing, Asked, Turns
<1>7. PermitAccounting' BY DEF PermitAccounting, AtWork
<1> QED BY <1>1, <1>2, <1>3, <1>4, <1>5, <1>6, <1>7

\* Every step keeps the invariant: one case for each action of the four actors.
LEMMA NextKeeps == Consistent /\ [Next]_vars => Consistent'
<1> SUFFICES ASSUME Consistent, [Next]_vars PROVE Consistent' OBVIOUS
<1>1. CASE WorkerNext
  <2>1. CASE Fetch BY <2>1, FetchKeeps
  <2>2. CASE EndPass BY <2>2, EndPassKeeps
  <2>3. CASE SkipDeleted BY <2>3, SkipDeletedKeeps
  <2>4. CASE Capture BY <2>4, CaptureKeeps
  <2>5. CASE Gate BY <2>5, GateKeeps
  <2>6. CASE WriteReply BY <2>6, WriteReplyKeeps
  <2>7. CASE WriteReplyFails BY <2>7, WriteReplyFailsKeeps
  <2>8. CASE Mark BY <2>8, MarkKeeps
  <2>9. CASE MarkFails BY <2>9, MarkFailsKeeps
  <2>10. CASE RespondConflict BY <2>10, RespondConflictKeeps
  <2>11. CASE RespondFails BY <2>11, RespondFailsKeeps
  <2>12. CASE RespondRejects BY <2>12, RespondRejectsKeeps
  <2>13. CASE RespondStarts BY <2>13, RespondStartsKeeps
  <2>14. CASE RespondUnread BY <2>14, RespondUnreadKeeps
  <2>15. CASE RespondUnconfirmed BY <2>15, RespondUnconfirmedKeeps
  <2>16. ASSUME NEW r \in Requests, NextRow(r) PROVE Consistent' BY <2>16, NextRowKeeps
  <2> QED BY <1>1, <2>1, <2>2, <2>3, <2>4, <2>5, <2>6, <2>7, <2>8, <2>9, <2>10, <2>11,
         <2>12, <2>13, <2>14, <2>15, <2>16 DEF WorkerNext
<1>2. ASSUME NEW c \in Conversations, JobNext(c) PROVE Consistent'
  <2>1. CASE JobStopped(c) BY <2>1, JobStoppedKeeps
  <2>2. CASE JobEnds(c) BY <2>2, JobEndsKeeps
  <2>3. CASE JobAsks(c) BY <2>3, JobAsksKeeps
  <2>4. CASE SaveStopped(c) BY <2>4, SaveStoppedKeeps
  <2>5. CASE SaveQuestion(c) BY <2>5, SaveQuestionKeeps
  <2>6. CASE SaveFails(c) BY <2>6, SaveFailsKeeps
  <2>7. CASE SaveUnconfirmed(c) BY <2>7, SaveUnconfirmedKeeps
  <2>8. CASE Finish(c) BY <2>8, FinishKeeps
  <2>9. CASE RemoveJob(c) BY <2>9, RemoveJobKeeps
  <2> QED BY <1>2, <2>1, <2>2, <2>3, <2>4, <2>5, <2>6, <2>7, <2>8, <2>9 DEF JobNext
<1>3. CASE ClientNext
  <2>1. ASSUME NEW r \in Requests, Receive(r) PROVE Consistent' BY <2>1, ReceiveKeeps
  <2>2. ASSUME NEW q \in Questions, NEW a \in Answers, AnswerBegins(q, a) PROVE Consistent' BY <2>2, AnswerBeginsKeeps
  <2>3. CASE AnswerCommits BY <2>3, AnswerCommitsKeeps
  <2>4. CASE AnswerUnconfirmed BY <2>4, AnswerUnconfirmedKeeps
  <2>5. CASE AnswerRefused BY <2>5, AnswerRefusedKeeps
  <2>6. ASSUME NEW c \in Conversations, StopBegins(c) PROVE Consistent' BY <2>6, StopBeginsKeeps
  <2>7. ASSUME NEW c \in Conversations, StopCancelsInputs(c) PROVE Consistent' BY <2>7, StopCancelsInputsKeeps
  <2>8. ASSUME NEW c \in Conversations, StopFails(c) PROVE Consistent' BY <2>8, StopFailsKeeps
  <2>9. ASSUME NEW c \in Conversations, StopReturns(c) PROVE Consistent' BY <2>9, StopReturnsKeeps
  <2>10. ASSUME NEW c \in Conversations, Read(c) PROVE Consistent' BY <2>10, ReadKeeps
  <2>11. ASSUME NEW c \in Conversations, Delete(c) PROVE Consistent' BY <2>11, DeleteKeeps
  <2> QED BY <1>3, <2>1, <2>2, <2>3, <2>4, <2>5, <2>6, <2>7, <2>8, <2>9, <2>10, <2>11 DEF
         ClientNext
<1>4. CASE ProcessNext
  <2>1. CASE Borrow BY <2>1, BorrowKeeps
  <2>2. CASE GiveBack BY <2>2, GiveBackKeeps
  <2>3. CASE Shutdown BY <2>3, ShutdownKeeps
  <2>4. CASE Exit BY <2>4, ExitKeeps
  <2>5. CASE Crash BY <2>5, CrashKeeps
  <2>6. CASE Connect BY <2>6, ConnectKeeps
  <2>7. ASSUME NEW r \in Requests, BackoffEnds(r) PROVE Consistent' BY <2>7, BackoffEndsKeeps
  <2> QED BY <1>4, <2>1, <2>2, <2>3, <2>4, <2>5, <2>6, <2>7 DEF ProcessNext
<1>5. CASE UNCHANGED vars BY <1>5, StutterKeeps
<1> QED BY <1>1, <1>2, <1>3, <1>4, <1>5 DEF Next

\* Consistent holds in every state, for all sets of conversations, requests and
\* answers, all quotas and batch sizes, and any number of failures of any kind.
THEOREM Invariance == Spec => []Consistent
  BY InitConsistent, NextKeeps, PTL DEF Spec

\* Every variable keeps its type: in particular the semaphore never runs below zero
\* or above its quota.
THEOREM TypeCorrect == Spec => []TypeOK
<1>1. Consistent => TypeOK BY DEF Consistent
<1> QED BY <1>1, Invariance, PTL

\* The row a task will write is its own: generating, and the only generating row of
\* its conversation (the jobs map, the mutex and recover together).
THEOREM OwnerTheorem == Spec => []JobOwnsReply
<1>1. Consistent => JobOwnsReply BY DEF Consistent
<1> QED BY <1>1, Invariance, PTL

\* No conversation ever has two generating replies, whatever failed and however
\* often the process was killed: the unique index is never hit.
THEOREM OneGenerationTheorem == Spec => []OneGeneration
<1>1. Consistent => OneGeneration BY DEF Consistent
<1> QED BY <1>1, Invariance, PTL

\* A conversation never has two pending questions, and a turn whose writes were
\* confirmed waits exactly while one of them is its own.
THEOREM QuestionTheorem == Spec => []QuestionMatchesReply
<1>1. Consistent => QuestionMatchesReply BY DEF Consistent
<1> QED BY <1>1, Invariance, PTL

\* A conversation that waits for its user generates nothing and holds no permit.
THEOREM WaitingTheorem == Spec => []WaitingHoldsNothing
<1>1. Consistent => WaitingHoldsNothing BY DEF Consistent
<1> QED BY <1>1, Invariance, PTL

\* No permit is lost or returned twice, on every path by which a task ends.
THEOREM PermitTheorem == Spec => []PermitAccounting
<1>1. Consistent => PermitAccounting BY DEF Consistent
<1> QED BY <1>1, Invariance, PTL

\* After a stop has returned, the turn it saw generating never waits for an answer
\* and its task never runs on (the second look at the token under the mutex).
THEOREM StoppedRunTheorem == Spec => []StoppedRunStaysStopped
<1>1. Consistent => StoppedRunStaysStopped
  BY DEF Consistent, StopInv, SawStopped, StoppedRunStaysStopped
<1> QED BY <1>1, Invariance, PTL

\* Only the generation task, an answer, a stop and a deletion write questions.
LEMMA QuestionSteps ==
  ASSUME Consistent, [Next]_vars, NEW q \in Questions, question[q] \in {"cancelled"} \cup Answers
  PROVE  question'[q] \in {question[q], "none"}
<1>1. question \in [Questions -> QuestionState] /\ question[q] \notin {"none", "pending"}
  BY AnswerAssumption DEF Consistent, TypeOK
<1>2. CASE WorkerNext
  BY <1>2 DEF WorkerNext, Fetch, EndPass, SkipDeleted, Capture, Gate, WriteReply, WriteReplyFails,
     Mark, MarkFails, RespondConflict, RespondFails, RespondRejects, StartTurn, RespondStarts,
     RespondUnread, RespondUnconfirmed, NextRow, database
<1>3. ASSUME NEW c \in Conversations, JobNext(c) PROVE question'[q] \in {question[q], "none"}
  <2>1. CASE SaveQuestion(c) \/ SaveUnconfirmed(c)
    BY <2>1, <1>1 DEF SaveQuestion, SaveUnconfirmed, PutQuestion
  <2>2. CASE \/ JobStopped(c) \/ JobEnds(c) \/ JobAsks(c) \/ SaveStopped(c) \/ SaveFails(c)
             \/ Finish(c) \/ RemoveJob(c)
    BY <2>2 DEF JobStopped, JobEnds, JobAsks, SaveStopped, SaveFails, Finish, RemoveJob, database
  <2> QED BY <1>3, <2>1, <2>2 DEF JobNext
<1>4. CASE ClientNext
  <2>1. CASE AnswerCommits \/ AnswerUnconfirmed
    BY <2>1, <1>1 DEF AnswerCommits, AnswerUnconfirmed, AnswerApplies
  <2>2. ASSUME NEW c \in Conversations, StopCancelsInputs(c) \/ Delete(c)
        PROVE  question'[q] \in {question[q], "none"}
    BY <2>2, <1>1 DEF StopCancelsInputs, Delete, Asked
  <2>3. ASSUME NEW c \in Conversations, StopBegins(c) \/ StopFails(c) \/ StopReturns(c) \/ Read(c)
        PROVE  question'[q] \in {question[q], "none"}
    BY <2>3 DEF StopBegins, StopFails, StopReturns, Read, database
  <2>4. CASE AnswerRefused BY <2>4 DEF AnswerRefused, database
  <2>5. ASSUME NEW r \in Requests, Receive(r) PROVE question'[q] \in {question[q], "none"}
    BY <2>5 DEF Receive
  <2>6. ASSUME NEW p \in Questions, NEW a \in Answers, AnswerBegins(p, a)
        PROVE  question'[q] \in {question[q], "none"}
    BY <2>6 DEF AnswerBegins, database
  <2> QED BY <1>4, <2>1, <2>2, <2>3, <2>4, <2>5, <2>6 DEF ClientNext
<1>5. CASE ProcessNext
  BY <1>5 DEF ProcessNext, Borrow, GiveBack, Shutdown, Exit, Crash, Down, Connect, BackoffEnds, database
<1>6. CASE UNCHANGED vars BY <1>6 DEF vars, database
<1> QED BY <1>2, <1>3, <1>4, <1>5, <1>6 DEF Next

\* An answer is recorded once, a cancelled question stays cancelled: a late or a
\* second answer changes nothing, whichever way it races the stop.
THEOREM QuestionsFinalTheorem == Spec => QuestionsFinal
<1>1. Consistent /\ [Next]_vars =>
        \A q \in Questions :
          question[q] \in {"cancelled"} \cup Answers => question'[q] \in {question[q], "none"}
  BY QuestionSteps
<1> QED BY <1>1, Invariance, PTL DEF Spec, QuestionsFinal

\* A settled turn whose bookkeeping was confirmed is neither in the queue nor owned
\* by a task, so nobody writes it again.
LEMMA ReplySteps ==
  ASSUME Consistent, [Next]_vars, NEW r \in Requests \ lost, reply[r] \in Settled
  PROVE  reply'[r] \in {reply[r], "none"}
<1>1. /\ reply \in [Requests -> Status]
      /\ reply[r] \notin {"none", "queued", "generating", "awaiting_input"}
  BY DEF Consistent, TypeOK, Settled
<1>2. CASE WorkerNext
  <2>1. CASE WriteReply
    <3>1. row # r
      BY <2>1, <1>1 DEF WriteReply, AtRow, Consistent, WorkerInv, QueueInv, TypeOK
    <3> QED BY <2>1, <3>1, <1>1 DEF WriteReply
  <2>2. CASE StartTurn \/ RespondUnconfirmed
    <3>1. row # r
      BY <2>2, <1>1 DEF StartTurn, RespondUnconfirmed, AtRow, Consistent, WorkerInv, QueueInv, TypeOK
    <3> QED BY <2>2, <3>1, <1>1 DEF StartTurn, RespondUnconfirmed, Recovered
  <2>3. CASE RespondConflict \/ RespondRejects \/ RespondFails
    BY <2>3, <1>1 DEF RespondConflict, RespondRejects, RespondFails, Recovered
  <2>4. CASE \/ Fetch \/ EndPass \/ SkipDeleted \/ Capture \/ Gate \/ WriteReplyFails \/ Mark
             \/ MarkFails
    BY <2>4 DEF Fetch, EndPass, SkipDeleted, Capture, Gate, WriteReplyFails, Mark, MarkFails, database
  <2>5. ASSUME NEW s \in Requests, NextRow(s) PROVE reply'[r] \in {reply[r], "none"}
    BY <2>5 DEF NextRow, database
  <2> QED BY <1>2, <2>1, <2>2, <2>3, <2>4, <2>5 DEF WorkerNext, RespondStarts, RespondUnread
<1>3. ASSUME NEW c \in Conversations, JobNext(c) PROVE reply'[r] \in {reply[r], "none"}
  <2>1. CASE SaveQuestion(c) \/ SaveUnconfirmed(c) \/ Finish(c)
    <3>1. turn[c] # r
      BY <2>1, <1>1 DEF SaveQuestion, SaveUnconfirmed, Finish, Consistent, JobOwnsReply, Working
    <3> QED BY <2>1, <3>1, <1>1 DEF SaveQuestion, SaveUnconfirmed, Finish, PutQuestion
  <2>2. CASE \/ JobStopped(c) \/ JobEnds(c) \/ JobAsks(c) \/ SaveStopped(c) \/ SaveFails(c)
             \/ RemoveJob(c)
    BY <2>2 DEF JobStopped, JobEnds, JobAsks, SaveStopped, SaveFails, RemoveJob, database
  <2> QED BY <1>3, <2>1, <2>2 DEF JobNext
<1>4. CASE ClientNext
  <2>1. CASE AnswerCommits \/ AnswerUnconfirmed
    <3>1. lock[1] \in Questions /\ question[lock[1]] = "pending"
      BY <2>1 DEF AnswerCommits, AnswerUnconfirmed, AnswerApplies, Consistent, TypeOK
    <3>2. lock[1][1] # r
      BY <3>1, <1>1, ConversationAssumption
         DEF Consistent, QuestionMatchesReply, Asked, Turns, Questions
    <3> QED BY <2>1, <3>2, <1>1 DEF AnswerCommits, AnswerUnconfirmed, AnswerApplies
  <2>2. ASSUME NEW c \in Conversations, StopCancelsInputs(c) \/ Delete(c) \/ StopReturns(c) \/ Read(c)
        PROVE  reply'[r] \in {reply[r], "none"}
    BY <2>2, <1>1 DEF StopCancelsInputs, Delete, StopReturns, Read, Recovered
  <2>3. ASSUME NEW c \in Conversations, StopBegins(c) \/ StopFails(c)
        PROVE  reply'[r] \in {reply[r], "none"}
    BY <2>3 DEF StopBegins, StopFails, database
  <2>4. CASE AnswerRefused BY <2>4 DEF AnswerRefused, database
  <2>5. ASSUME NEW s \in Requests, Receive(s) PROVE reply'[r] \in {reply[r], "none"}
    BY <2>5, <1>1 DEF Receive, Consistent, QueueInv
  <2>6. ASSUME NEW p \in Questions, NEW a \in Answers, AnswerBegins(p, a)
        PROVE  reply'[r] \in {reply[r], "none"}
    BY <2>6 DEF AnswerBegins, database
  <2> QED BY <1>4, <2>1, <2>2, <2>3, <2>4, <2>5, <2>6 DEF ClientNext
<1>5. CASE ProcessNext
  BY <1>5, <1>1 DEF ProcessNext, Borrow, GiveBack, Shutdown, Exit, Crash, Down, Connect, BackoffEnds,
     database
<1>6. CASE UNCHANGED vars BY <1>6 DEF vars, database
<1> QED BY <1>2, <1>3, <1>4, <1>5, <1>6 DEF Next

\* What has ended is not executed again: no redelivery, late write or restart
\* changes a settled reply, unless the confirmation of one of its writes was lost.
THEOREM RepliesFinalTheorem == Spec => RepliesFinal
<1>1. Consistent /\ [Next]_vars =>
        \A r \in Requests \ lost : reply[r] \in Settled => reply'[r] \in {reply[r], "none"}
  BY ReplySteps
<1> QED BY <1>1, Invariance, PTL DEF Spec, RepliesFinal
=============================================================================
