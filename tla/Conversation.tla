---------------------------- MODULE Conversation ----------------------------
(***************************************************************************)
(* One conversation turn in the AIO Agent backend, from the message that   *)
(* the browser sends to the reply that is shown.  Four actors share the    *)
(* PostgreSQL rows and the in-memory map of running generations:           *)
(*   - the HTTP handlers (send, answer, cancel, read, delete),             *)
(*   - the delivery worker, which walks the intake queue in batches,       *)
(*   - one generation task for each entry of the jobs map,                 *)
(*   - the process itself, which is stopped, killed and started again.     *)
(* Only the jobs mutex and row locks order them.  Every statement between  *)
(* two awaits of one actor is a step; a database transaction is a step.    *)
(*                                                                         *)
(* A definition introduced with "As if" is not part of the model: it is the *)
(* next one with a plausible mistake, kept to see which property notices.  *)
(***************************************************************************)
EXTENDS Integers, FiniteSets

CONSTANTS
  Conversations,   \* conversation ids
  Requests,        \* request ids: one user row and one assistant row each
  ConversationOf,  \* the conversation a request is sent to
  Answers,         \* contents a user may answer a question with
  MaxQuestions,    \* bound: questions one turn asks
  Quota,           \* permits of the generation semaphore (4 in the source)
  MaxBorrowed,     \* bound: permits held by other users of the semaphore
  BatchLimit,      \* rows of the intake queue one pass reads (8 in the source)
  Faults,          \* the kinds of failure the environment may inject
  MaxFaults,       \* bound: how many of them it injects
  None             \* no request

Failures == {"memory", "database", "mark", "finish", "save", "commit", "stop", "shutdown", "crash"}

ASSUME ConversationAssumption == ConversationOf \in [Requests -> Conversations]
ASSUME AnswerAssumption == Answers \cap {"none", "pending", "cancelled"} = {}
ASSUME BoundAssumption ==
  /\ MaxQuestions \in Nat
  /\ Quota \in Nat
  /\ MaxBorrowed \in Nat
  /\ BatchLimit \in Nat \ {0}
  /\ MaxFaults \in Nat
ASSUME RequestAssumption == IsFiniteSet(Requests) /\ None \notin Requests
ASSUME QuotaAssumption == IsFiniteSet(Conversations)
ASSUME FaultAssumption == Faults \subseteq Failures

VARIABLES
  \* PostgreSQL
  alive,      \* conversations that have a row
  sequence,   \* order of arrival of the messages; 0 before the send
  reply,      \* status of the assistant row
  intake,     \* state of the intake row
  due,        \* intake rows whose available_at has passed
  question,   \* state of each agent_user_inputs row; an answer once answered
  \* the jobs map, its mutex and the semaphore
  phase,      \* where the generation task of a conversation is; idle: no entry
  turn,       \* the request that task generates
  stopped,    \* conversations whose job token is cancelled
  lock,       \* the answer that holds the jobs mutex over its awaits, or None
  free,       \* permits left in the semaphore
  borrowed,   \* permits held by catalog reads, enhancement and compilation
  \* the delivery worker
  step, batch, row,
  \* cancel requests in progress
  stop, target,
  \* the process
  server,
  spent,      \* failures injected so far
  \* history: turns whose bookkeeping write was lost, and stops that returned
  lost, halted

database == <<alive, sequence, reply, intake, due, question>>
jobs == <<phase, turn, stopped, free>>
worker == <<step, batch, row>>
stops == <<stop, target>>
process == <<server, spent>>
history == <<lost, halted>>
vars == <<database, jobs, lock, borrowed, worker, stops, process, history>>

Questions == Requests \X (1..MaxQuestions)
QuestionState == {"none", "pending", "cancelled"} \cup Answers

Settled == {"complete", "cancelled", "failed", "interrupted"}
Status == {"none", "queued", "generating", "awaiting_input"} \cup Settled

\* The last three are the outcome a task has reached and has yet to save.
Saving == {"complete", "cancelled", "failed"}
Phase == {"idle", "running", "asking", "leaving"} \cup Saving
Working == {"running", "asking"} \cup Saving

Step == {"gone", "sleep", "next", "capture", "gate", "respond", "local", "reject", "mark"}
Kind == {"generating", "awaiting_input"}

TypeOK ==
  /\ alive \subseteq Conversations
  /\ sequence \in [Requests -> Nat]
  /\ reply \in [Requests -> Status]
  /\ intake \in [Requests -> {"none", "pending", "captured", "complete"}]
  /\ due \subseteq Requests
  /\ question \in [Questions -> QuestionState]
  /\ phase \in [Conversations -> Phase]
  /\ turn \in [Conversations -> Requests \cup {None}]
  /\ stopped \subseteq Conversations
  /\ lock \in (Questions \X Answers) \cup {None}
  /\ free \in 0..Quota
  /\ borrowed \in 0..MaxBorrowed
  /\ step \in Step
  /\ batch \subseteq Requests
  /\ row \in Requests \cup {None}
  /\ stop \in [Conversations -> {"idle", "inputs", "reread"}]
  /\ target \in [Conversations -> (Requests \X Kind) \cup {None}]
  /\ server \in {"up", "stopping", "down"}
  /\ spent \in 0..MaxFaults
  /\ lost \subseteq Requests
  /\ halted \subseteq Requests \X Kind

\* The environment injects a failure of this kind.
Fault(kind) ==
  /\ kind \in Faults
  /\ spent < MaxFaults
  /\ spent' = spent + 1

Serving == server \in {"up", "stopping"}
LockFree == lock = None
HasJob(c) == phase[c] # "idle"
AtWork == {c \in Conversations : phase[c] \in Working}
Turns(c) == {r \in Requests : ConversationOf[r] = c}
Asked(c) == {q \in Questions : ConversationOf[q[1]] = c /\ question[q] = "pending"}

\* As if recover did not look at the jobs map.
RecoveredAll(c) ==
  [r \in Requests |-> IF r \in Turns(c) /\ reply[r] = "generating" THEN "interrupted" ELSE reply[r]]

\* As if a thread were read without recover.
RecoveredNone(c) == reply

\* Turns of c after recover: a generating row that no task owns is interrupted.
Recovered(c) ==
  [r \in Requests |-> IF r \in Turns(c) /\ reply[r] = "generating" /\ ~HasJob(c)
                        THEN "interrupted" ELSE reply[r]]

Init ==
  /\ alive = Conversations
  /\ sequence = [r \in Requests |-> 0]
  /\ reply = [r \in Requests |-> "none"]
  /\ intake = [r \in Requests |-> "none"]
  /\ due = {}
  /\ question = [q \in Questions |-> "none"]
  /\ phase = [c \in Conversations |-> "idle"]
  /\ turn = [c \in Conversations |-> None]
  /\ stopped = {}
  /\ lock = None
  /\ free = Quota
  /\ borrowed = 0
  /\ step = "sleep" /\ batch = {} /\ row = None
  /\ stop = [c \in Conversations |-> "idle"]
  /\ target = [c \in Conversations |-> None]
  /\ server = "up" /\ spent = 0
  /\ lost = {} /\ halted = {}

-----------------------------------------------------------------------------
(* Sending *)

\* The message and its intake row are stored in one transaction.  A repeated
\* request id returns the first receipt and changes nothing.  The pending check
\* precedes the transaction; a question asked in between leaves the message
\* queued behind it, as one sent while its predecessor is generating.
Receive(r) ==
  /\ Serving
  /\ ConversationOf[r] \in alive
  /\ sequence[r] = 0
  /\ Asked(ConversationOf[r]) = {}
  /\ sequence' = [sequence EXCEPT ![r] = Cardinality({q \in Requests : sequence[q] # 0}) + 1]
  /\ reply' = [reply EXCEPT ![r] = "queued"]
  /\ intake' = [intake EXCEPT ![r] = "pending"]
  /\ due' = due \cup {r}
  /\ UNCHANGED <<alive, question, jobs, lock, borrowed, worker, stops, process, history>>

-----------------------------------------------------------------------------
(* The delivery worker *)

Deliverable == {r \in due : intake[r] \in {"pending", "captured"}}
Oldest(S, n) == {r \in S : Cardinality({q \in S : sequence[q] < sequence[r]}) < n}

\* One pass reads the oldest due rows, whatever their conversation is doing.
Fetch ==
  /\ step = "sleep"
  /\ Deliverable # {}
  /\ batch' = Oldest(Deliverable, BatchLimit)
  /\ step' = "next"
  /\ UNCHANGED <<database, jobs, lock, borrowed, row, stops, process, history>>

NextRow(r) ==
  /\ step = "next"
  /\ r \in Oldest(batch, 1)
  /\ batch' = batch \ {r}
  /\ row' = r
  /\ step' = IF intake[r] = "pending" THEN "capture" ELSE "gate"
  /\ UNCHANGED <<database, jobs, lock, borrowed, stops, process, history>>

EndPass ==
  /\ step = "next"
  /\ batch = {}
  /\ step' = "sleep"
  /\ UNCHANGED <<database, jobs, lock, borrowed, batch, row, stops, process, history>>

AtRow(s) == step = s /\ reply[row] # "none"
LeaveRow == step' = "next" /\ row' = None /\ UNCHANGED batch
Backoff == due' = due \ {row} /\ LeaveRow

\* The conversation was deleted during the pass: what is left to do for the row
\* matches no row.
SkipDeleted ==
  /\ row # None
  /\ reply[row] = "none"
  /\ LeaveRow
  /\ UNCHANGED <<database, jobs, lock, borrowed, stops, process, history>>

\* Memory takes the source (idempotent on the request id) and the row is captured.
Capture ==
  /\ AtRow("capture")
  /\ \/ /\ intake' = [intake EXCEPT ![row] = "captured"]
        /\ step' = "gate"
        /\ UNCHANGED <<due, batch, row, spent>>
     \/ /\ Fault("memory")
        /\ Backoff
        /\ UNCHANGED intake
  /\ UNCHANGED <<alive, sequence, reply, question, jobs, lock, borrowed, stops, server, history>>

\* A running job leaves the row for a later pass; otherwise Memory routes it.
Gate ==
  /\ AtRow("gate")
  /\ LockFree
  /\ \/ /\ HasJob(ConversationOf[row])
        /\ LeaveRow
        /\ UNCHANGED <<due, spent>>
     \/ /\ ~HasJob(ConversationOf[row])
        /\ step' \in {"respond", "local"}
        /\ UNCHANGED <<due, batch, row, spent>>
     \/ /\ ~HasJob(ConversationOf[row])
        /\ Fault("memory")
        /\ Backoff
  /\ UNCHANGED <<alive, sequence, reply, intake, question, jobs, lock, borrowed, stops, server>>
  /\ UNCHANGED <<history>>

\* The reply needs no model, or was refused for good: it is written without a
\* look at what the row holds.
WriteReply ==
  /\ \/ AtRow("local") /\ reply' = [reply EXCEPT ![row] = "complete"]
     \/ AtRow("reject") /\ reply' = [reply EXCEPT ![row] = "failed"]
  /\ step' = "mark"
  /\ UNCHANGED <<alive, sequence, intake, due, question, jobs, lock, borrowed, batch, row>>
  /\ UNCHANGED <<stops, process, history>>

WriteReplyFails ==
  /\ Fault("database")
  /\ AtRow("local") \/ AtRow("reject")
  /\ Backoff
  /\ UNCHANGED <<alive, sequence, reply, intake, question, jobs, lock, borrowed, stops, server>>
  /\ UNCHANGED <<history>>

\* The delivered row leaves the queue by a statement of its own.
Mark ==
  /\ AtRow("mark")
  /\ intake' = [intake EXCEPT ![row] = "complete"]
  /\ LeaveRow
  /\ UNCHANGED <<alive, sequence, reply, due, question, jobs, lock, borrowed, stops, process>>
  /\ UNCHANGED <<history>>

MarkFails ==
  /\ Fault("mark")
  /\ AtRow("mark")
  /\ Backoff
  /\ lost' = lost \cup {row}
  /\ UNCHANGED <<alive, sequence, reply, intake, question, jobs, lock, borrowed, stops, server>>
  /\ UNCHANGED <<halted>>

BackoffEnds(r) ==
  /\ r \in Requests \ due
  /\ intake[r] \in {"pending", "captured"}
  /\ due' = due \cup {r}
  /\ UNCHANGED <<alive, sequence, reply, intake, question, jobs, lock, borrowed, worker, stops>>
  /\ UNCHANGED <<process, history>>

-----------------------------------------------------------------------------
(* respond: the worker starts a generation, under the jobs mutex *)

\* The entry, its token (a child of the shutdown token) and the permit.
EnterJob(c, r) ==
  /\ phase' = [phase EXCEPT ![c] = "running"]
  /\ turn' = [turn EXCEPT ![c] = r]
  /\ stopped' = IF server = "stopping" THEN stopped \cup {c} ELSE stopped \ {c}
  /\ free' = free - 1

\* As if respond did not take a permit, or did not look for a pending question.
MayStartOverQuota(c) == ~HasJob(c) /\ Asked(c) = {}
MayStartWhileAsked(c) == ~HasJob(c) /\ free > 0

MayStart(c) == ~HasJob(c) /\ Asked(c) = {} /\ free > 0

\* As if the worker took a conflict for a delivery.
RespondConflictDelivers ==
  /\ AtRow("respond")
  /\ LockFree
  /\ ~MayStart(ConversationOf[row])
  /\ reply' = Recovered(ConversationOf[row])
  /\ step' = "mark"
  /\ UNCHANGED <<alive, sequence, intake, due, question, jobs, lock, borrowed, batch, row>>
  /\ UNCHANGED <<stops, process, history>>

\* Conflicts: a question is pending, a job runs or the quota is used up.
\* The row stays captured and due.
RespondConflict ==
  /\ AtRow("respond")
  /\ LockFree
  /\ ~MayStart(ConversationOf[row])
  /\ reply' = Recovered(ConversationOf[row])
  /\ LeaveRow
  /\ UNCHANGED <<alive, sequence, intake, due, question, jobs, lock, borrowed, stops, process>>
  /\ UNCHANGED <<history>>

\* A server error before the commit is handled as a conflict.
RespondFails ==
  /\ Fault("database")
  /\ AtRow("respond")
  /\ \/ UNCHANGED reply
     \/ LockFree /\ reply' = Recovered(ConversationOf[row])
  /\ LeaveRow
  /\ UNCHANGED <<alive, sequence, intake, due, question, jobs, lock, borrowed, stops, server>>
  /\ UNCHANGED <<history>>

\* The source is gone (before the mutex), or the context is too long (after it).
RespondRejects ==
  /\ AtRow("respond")
  /\ \/ UNCHANGED reply
     \/ /\ LockFree
        /\ MayStart(ConversationOf[row])
        /\ reply' = Recovered(ConversationOf[row])
  /\ step' = "reject"
  /\ UNCHANGED <<alive, sequence, intake, due, question, jobs, lock, borrowed, batch, row>>
  /\ UNCHANGED <<stops, process, history>>

StartTurn ==
  /\ AtRow("respond")
  /\ LockFree
  /\ MayStart(ConversationOf[row])
  /\ reply' = [Recovered(ConversationOf[row]) EXCEPT ![row] = "generating"]
  /\ EnterJob(ConversationOf[row], row)
  /\ UNCHANGED <<alive, sequence, intake, due, question, lock, borrowed, stops, server, halted>>

RespondStarts ==
  /\ StartTurn
  /\ step' = "mark"
  /\ UNCHANGED <<batch, row, spent, lost>>

\* The task runs, and the thread that respond returns cannot be read: the worker
\* takes the server error for a conflict, and the row is still due.
RespondUnread ==
  /\ Fault("database")
  /\ StartTurn
  /\ lost' = lost \cup {row}
  /\ LeaveRow

\* The commit is applied and its confirmation is lost: no task is spawned.
RespondUnconfirmed ==
  /\ Fault("commit")
  /\ AtRow("respond")
  /\ LockFree
  /\ MayStart(ConversationOf[row])
  /\ reply' = [Recovered(ConversationOf[row]) EXCEPT ![row] = "generating"]
  /\ lost' = lost \cup {row}
  /\ LeaveRow
  /\ UNCHANGED <<alive, sequence, intake, due, question, jobs, lock, borrowed, stops, server>>
  /\ UNCHANGED <<halted>>

-----------------------------------------------------------------------------
(* run: the generation task *)

\* The token is polled first, so a cancelled task reaches no other outcome.
JobStopped(c) ==
  /\ phase[c] = "running"
  /\ c \in stopped
  /\ phase' = [phase EXCEPT ![c] = "cancelled"]
  /\ UNCHANGED <<database, turn, stopped, free, lock, borrowed, worker, stops, process, history>>

JobEnds(c) ==
  /\ phase[c] = "running"
  /\ c \notin stopped
  /\ \E outcome \in {"complete", "failed"} : phase' = [phase EXCEPT ![c] = outcome]
  /\ UNCHANGED <<database, turn, stopped, free, lock, borrowed, worker, stops, process, history>>

JobAsks(c) ==
  /\ phase[c] = "running"
  /\ c \notin stopped
  /\ \E k \in 1..MaxQuestions : question[<<turn[c], k>>] = "none"
  /\ phase' = [phase EXCEPT ![c] = "asking"]
  /\ UNCHANGED <<database, turn, stopped, free, lock, borrowed, worker, stops, process, history>>

\* The checkpoint is saved under the jobs mutex, after a last look at the token.
SaveStopped(c) ==
  /\ phase[c] = "asking"
  /\ LockFree
  /\ c \in stopped
  /\ phase' = [phase EXCEPT ![c] = "cancelled"]
  /\ UNCHANGED <<database, turn, stopped, free, lock, borrowed, worker, stops, process, history>>

PutQuestion(r) ==
  /\ \E k \in 1..MaxQuestions :
       /\ question[<<r, k>>] = "none"
       /\ \A j \in 1..(k - 1) : question[<<r, j>>] # "none"
       /\ question' = [question EXCEPT ![<<r, k>>] = "pending"]
  /\ reply' = [reply EXCEPT ![r] = "awaiting_input"]

\* As if the token were not looked at again under the mutex.
SaveQuestionUnchecked(c) ==
  /\ phase[c] = "asking"
  /\ LockFree
  /\ PutQuestion(turn[c])
  /\ phase' = [phase EXCEPT ![c] = "leaving"]
  /\ free' = free + 1
  /\ UNCHANGED <<alive, sequence, intake, due, turn, stopped, lock, borrowed, worker, stops>>
  /\ UNCHANGED <<process, history>>

\* The task ends with its question saved, and gives its permit back.
SaveQuestion(c) ==
  /\ phase[c] = "asking"
  /\ LockFree
  /\ c \notin stopped
  /\ PutQuestion(turn[c])
  /\ phase' = [phase EXCEPT ![c] = "leaving"]
  /\ free' = free + 1
  /\ UNCHANGED <<alive, sequence, intake, due, turn, stopped, lock, borrowed, worker, stops>>
  /\ UNCHANGED <<process, history>>

SaveFails(c) ==
  /\ Fault("save")
  /\ phase[c] = "asking"
  /\ LockFree
  /\ c \notin stopped
  /\ phase' = [phase EXCEPT ![c] = "failed"]
  /\ UNCHANGED <<database, turn, stopped, free, lock, borrowed, worker, stops, server, history>>

SaveUnconfirmed(c) ==
  /\ Fault("commit")
  /\ phase[c] = "asking"
  /\ LockFree
  /\ c \notin stopped
  /\ PutQuestion(turn[c])
  /\ phase' = [phase EXCEPT ![c] = "failed"]
  /\ lost' = lost \cup {turn[c]}
  /\ UNCHANGED <<alive, sequence, intake, due, turn, stopped, free, lock, borrowed, worker>>
  /\ UNCHANGED <<stops, server, halted>>

\* As if the error of finish returned before the permit is given back.
FinishKeepsPermit(c) ==
  /\ phase[c] \in Saving
  /\ \/ reply' = [reply EXCEPT ![turn[c]] = phase[c]] /\ free' = free + 1 /\ UNCHANGED spent
     \/ Fault("finish") /\ UNCHANGED <<reply, free>>
  /\ phase' = [phase EXCEPT ![c] = "leaving"]
  /\ UNCHANGED <<alive, sequence, intake, due, question, turn, stopped, lock, borrowed, worker>>
  /\ UNCHANGED <<stops, server, history>>

\* finish writes the outcome; when it cannot, the row stays generating.  (The
\* metering call, and the permit after it, follow at once: they touch no row.)
Finish(c) ==
  /\ phase[c] \in Saving
  /\ \/ reply' = [reply EXCEPT ![turn[c]] = phase[c]] /\ UNCHANGED spent
     \/ Fault("finish") /\ UNCHANGED reply
  /\ phase' = [phase EXCEPT ![c] = "leaving"]
  /\ free' = free + 1
  /\ UNCHANGED <<alive, sequence, intake, due, question, turn, stopped, lock, borrowed, worker>>
  /\ UNCHANGED <<stops, server, history>>

RemoveJob(c) ==
  /\ phase[c] = "leaving"
  /\ LockFree
  /\ phase' = [phase EXCEPT ![c] = "idle"]
  /\ turn' = [turn EXCEPT ![c] = None]
  /\ stopped' = stopped \ {c}
  /\ UNCHANGED <<database, free, lock, borrowed, worker, stops, process, history>>

-----------------------------------------------------------------------------
(* Answering: the jobs mutex is held while devices and the model are checked *)

\* Only a pending question of a conversation without a job is answered.  The
\* status of the reply was read before the mutex and may be out of date, so it
\* settles nothing here.  Every other submission is refused or returns the thread
\* (the same answer to an answered question) and changes nothing.
AnswerBegins(q, a) ==
  /\ Serving
  /\ LockFree
  /\ ConversationOf[q[1]] \in alive
  /\ question[q] = "pending"
  /\ ~HasJob(ConversationOf[q[1]])
  /\ lock' = <<q, a>>
  /\ UNCHANGED <<database, jobs, borrowed, worker, stops, process, history>>

\* As if the transaction trusted the look it took before the device checks.
AnswerAppliesUnchecked ==
  /\ lock # None
  /\ free > 0
  /\ question' = [question EXCEPT ![lock[1]] = lock[2]]
  /\ reply' = [reply EXCEPT ![lock[1][1]] = "generating"]

\* The transaction locks the conversation and looks at the question again: a stop
\* cancels it without the mutex.
AnswerApplies ==
  /\ lock # None
  /\ question[lock[1]] = "pending"
  /\ free > 0
  /\ question' = [question EXCEPT ![lock[1]] = lock[2]]
  /\ reply' = [reply EXCEPT ![lock[1][1]] = "generating"]

AnswerCommits ==
  /\ AnswerApplies
  /\ EnterJob(ConversationOf[lock[1][1]], lock[1][1])
  /\ lock' = None
  /\ UNCHANGED <<alive, sequence, intake, due, borrowed, worker, stops, process, history>>

AnswerUnconfirmed ==
  /\ Fault("commit")
  /\ AnswerApplies
  /\ lost' = lost \cup {lock[1][1]}
  /\ lock' = None
  /\ UNCHANGED <<alive, sequence, intake, due, jobs, borrowed, worker, stops, server, halted>>

\* As if the refusal of a question that was stopped meanwhile kept the mutex.
AnswerRefusedKeepsLock ==
  /\ lock # None
  /\ question[lock[1]] = "pending"
  /\ lock' = None
  /\ UNCHANGED <<database, jobs, borrowed, worker, stops, process, history>>

\* An invalid answer, an offline device, no model, no permit, or a question
\* that is no longer pending.
AnswerRefused ==
  /\ lock # None
  /\ lock' = None
  /\ UNCHANGED <<database, jobs, borrowed, worker, stops, process, history>>

-----------------------------------------------------------------------------
(* Stopping a conversation *)

\* What the user sees working when the stop arrives.
LiveTurn(c) ==
  {<<r, reply[r]>> : r \in {r \in Turns(c) : reply[r] \in Kind}}

\* First half, under the mutex: cancel the token, then the device tasks.
StopBegins(c) ==
  /\ Serving
  /\ LockFree
  /\ c \in alive
  /\ stop[c] = "idle"
  /\ stopped' = IF HasJob(c) THEN stopped \cup {c} ELSE stopped
  /\ \/ /\ stop' = [stop EXCEPT ![c] = "inputs"]
        /\ \E t \in IF LiveTurn(c) = {} THEN {None} ELSE LiveTurn(c) :
             target' = [target EXCEPT ![c] = t]
        /\ UNCHANGED spent
     \/ /\ Fault("stop")   \* a device did not confirm: the handler returns the error
        /\ UNCHANGED stops
  /\ UNCHANGED <<database, phase, turn, free, lock, borrowed, worker, server, history>>

\* As if the questions were cancelled and not the replies that wait for them.
StopCancelsQuestions(c) ==
  /\ stop[c] = "inputs"
  /\ question' = [q \in Questions |-> IF q \in Asked(c) THEN "cancelled" ELSE question[q]]
  /\ stop' = [stop EXCEPT ![c] = "reread"]
  /\ UNCHANGED <<alive, sequence, reply, intake, due, jobs, lock, borrowed, worker, target>>
  /\ UNCHANGED <<process, history>>

\* Second half, without the mutex: the questions of the conversation.
StopCancelsInputs(c) ==
  /\ stop[c] = "inputs"
  /\ reply' = [r \in Requests |-> IF r \in Turns(c) /\ reply[r] = "awaiting_input"
                                    THEN "cancelled" ELSE reply[r]]
  /\ question' = [q \in Questions |-> IF q \in Asked(c) THEN "cancelled" ELSE question[q]]
  /\ stop' = [stop EXCEPT ![c] = "reread"]
  /\ UNCHANGED <<alive, sequence, intake, due, jobs, lock, borrowed, worker, target, process>>
  /\ UNCHANGED <<history>>

StopFails(c) ==
  /\ Fault("stop")
  /\ stop[c] = "inputs"
  /\ stop' = [stop EXCEPT ![c] = "idle"]
  /\ target' = [target EXCEPT ![c] = None]
  /\ UNCHANGED <<database, jobs, lock, borrowed, worker, server, history>>

\* The handler returns the thread it reads.
StopReturns(c) ==
  /\ stop[c] = "reread"
  /\ LockFree
  /\ reply' = Recovered(c)
  /\ stop' = [stop EXCEPT ![c] = "idle"]
  /\ target' = [target EXCEPT ![c] = None]
  /\ halted' = IF target[c] = None THEN halted ELSE halted \cup {target[c]}
  /\ UNCHANGED <<alive, sequence, intake, due, question, jobs, lock, borrowed, worker, process>>
  /\ UNCHANGED <<lost>>

-----------------------------------------------------------------------------
(* Reading and deleting a conversation; the other users of the semaphore *)

\* thread(): the browser polls it every second.
Read(c) ==
  /\ Serving
  /\ LockFree
  /\ c \in alive
  /\ Recovered(c) # reply
  /\ reply' = Recovered(c)
  /\ UNCHANGED <<alive, sequence, intake, due, question, jobs, lock, borrowed, worker, stops>>
  /\ UNCHANGED <<process, history>>

\* The rows of the conversation go with it.
Delete(c) ==
  /\ Serving
  /\ LockFree
  /\ c \in alive
  /\ ~HasJob(c)
  /\ alive' = alive \ {c}
  /\ reply' = [r \in Requests |-> IF r \in Turns(c) THEN "none" ELSE reply[r]]
  /\ intake' = [r \in Requests |-> IF r \in Turns(c) THEN "none" ELSE intake[r]]
  /\ question' = [q \in Questions |-> IF ConversationOf[q[1]] = c THEN "none" ELSE question[q]]
  /\ due' = due \ Turns(c)
  /\ target' = [target EXCEPT ![c] = None]
  /\ halted' = {h \in halted : h[1] \notin Turns(c)}
  /\ UNCHANGED <<sequence, jobs, lock, borrowed, worker, stop, process, lost>>

Borrow ==
  /\ server # "down"
  /\ free > 0
  /\ borrowed < MaxBorrowed
  /\ free' = free - 1
  /\ borrowed' = borrowed + 1
  /\ UNCHANGED <<database, phase, turn, stopped, lock, worker, stops, process, history>>

GiveBack ==
  /\ borrowed > 0
  /\ free' = free + 1
  /\ borrowed' = borrowed - 1
  /\ UNCHANGED <<database, phase, turn, stopped, lock, worker, stops, process, history>>

-----------------------------------------------------------------------------
(* The process *)

\* The worker is dropped at whichever await it has reached.
DropWorker ==
  /\ step' = "gone" /\ batch' = {} /\ row' = None
  /\ lost' = IF step = "mark" THEN lost \cup {row} ELSE lost

\* shutdown: every job token is cancelled.  The server still accepts requests
\* until the jobs are gone or five seconds have passed.
Shutdown ==
  /\ server = "up"
  /\ Fault("shutdown")
  /\ server' = "stopping"
  /\ stopped' = {c \in Conversations : HasJob(c)}
  /\ DropWorker
  /\ UNCHANGED <<database, phase, turn, free, lock, borrowed, stops, halted>>

Down ==
  /\ server' = "down"
  /\ phase' = [c \in Conversations |-> "idle"]
  /\ turn' = [c \in Conversations |-> None]
  /\ stopped' = {}
  /\ lock' = None
  /\ free' = Quota
  /\ borrowed' = 0
  /\ stop' = [c \in Conversations |-> "idle"]
  /\ target' = [c \in Conversations |-> None]
  /\ DropWorker
  /\ UNCHANGED <<database, halted>>

\* The requests in progress are drained first.
Exit ==
  /\ server = "stopping"
  /\ LockFree
  /\ \A c \in Conversations : stop[c] = "idle"
  /\ Down
  /\ UNCHANGED spent

Crash == Fault("crash") /\ server # "down" /\ Down

\* connect: what was generating is interrupted, then the worker starts.
Connect ==
  /\ server = "down"
  /\ server' = "up"
  /\ reply' = [r \in Requests |-> IF reply[r] = "generating" THEN "interrupted" ELSE reply[r]]
  /\ step' = "sleep"
  /\ UNCHANGED <<alive, sequence, intake, due, question, jobs, lock, borrowed, batch, row>>
  /\ UNCHANGED <<stops, spent, history>>

-----------------------------------------------------------------------------
WorkerNext ==
  \/ Fetch \/ EndPass \/ SkipDeleted \/ Capture \/ Gate \/ WriteReply \/ WriteReplyFails
  \/ Mark \/ MarkFails \/ RespondConflict \/ RespondFails \/ RespondRejects
  \/ RespondStarts \/ RespondUnread \/ RespondUnconfirmed
  \/ \E r \in Requests : NextRow(r)

JobNext(c) ==
  \/ JobStopped(c) \/ JobEnds(c) \/ JobAsks(c) \/ SaveStopped(c) \/ SaveQuestion(c)
  \/ SaveFails(c) \/ SaveUnconfirmed(c) \/ Finish(c) \/ RemoveJob(c)

ClientNext ==
  \/ \E r \in Requests : Receive(r)
  \/ \E q \in Questions, a \in Answers : AnswerBegins(q, a)
  \/ AnswerCommits \/ AnswerUnconfirmed \/ AnswerRefused
  \/ \E c \in Conversations :
       \/ StopBegins(c) \/ StopCancelsInputs(c) \/ StopFails(c) \/ StopReturns(c)
       \/ Read(c) \/ Delete(c)

ProcessNext ==
  \/ Borrow \/ GiveBack \/ Shutdown \/ Exit \/ Crash \/ Connect
  \/ \E r \in Requests : BackoffEnds(r)

Next ==
  \/ WorkerNext
  \/ \E c \in Conversations : JobNext(c)
  \/ ClientNext
  \/ ProcessNext

Spec == Init /\ [][Next]_vars

\* What the runtime guarantees.  A spawned task, the worker and a handler go on
\* (WF); the mutex is a fair queue, so whoever waits for it gets it although
\* others take it in between (SF); the process is started again.  A failed step
\* is retried after its backoff, and the failures are finitely many (MaxFaults).
WorkerFairness ==
  /\ WF_vars(Fetch) /\ WF_vars(EndPass) /\ WF_vars(SkipDeleted)
  /\ WF_vars(Capture) /\ WF_vars(WriteReply) /\ WF_vars(Mark)
  /\ SF_vars(Gate) /\ SF_vars(RespondConflict \/ RespondStarts)
  /\ \A r \in Requests : WF_vars(NextRow(r)) /\ WF_vars(BackoffEnds(r))

JobFairness(c) ==
  /\ WF_vars(JobStopped(c)) /\ WF_vars(JobEnds(c)) /\ WF_vars(Finish(c))
  /\ SF_vars(SaveStopped(c) \/ SaveQuestion(c))
  /\ SF_vars(RemoveJob(c))

StopFairness(c) == WF_vars(StopCancelsInputs(c)) /\ SF_vars(StopReturns(c))

Fairness ==
  /\ WorkerFairness
  /\ \A c \in Conversations : JobFairness(c) /\ StopFairness(c) /\ SF_vars(Read(c))
  /\ WF_vars(AnswerCommits \/ AnswerRefused)
  /\ WF_vars(Connect) /\ WF_vars(GiveBack) /\ SF_vars(Exit)

FairSpec == Spec /\ Fairness

-----------------------------------------------------------------------------
(* Properties *)

\* A task works on a row that is generating, and no other row of the
\* conversation is: the rows a task writes are its own (the map, the mutex and
\* recover keep agent_one_generation from ever being hit).
JobOwnsReply ==
  \A c \in Conversations : phase[c] \in Working =>
    /\ turn[c] \in Turns(c)
    /\ turn[c] \notin lost => reply[turn[c]] = "generating"
    /\ \A r \in Turns(c) : reply[r] = "generating" => r = turn[c]

\* At most one reply of a conversation is generating, in every failure mode.
OneGeneration ==
  \A c \in Conversations : \A r, s \in Turns(c) :
    reply[r] = "generating" /\ reply[s] = "generating" => r = s

\* A conversation has at most one pending question, and a turn whose writes all
\* arrived waits exactly when it has one.
QuestionMatchesReply ==
  \A c \in Conversations :
    /\ \A p, q \in Asked(c) : p = q
    /\ \A r \in Turns(c) \ lost :
         reply[r] = "awaiting_input" <=> \E q \in Asked(c) : q[1] = r

\* While a question is pending nothing of the conversation is generating, and
\* no task of it holds a permit, except one that has yet to notice that its
\* question was saved.
WaitingHoldsNothing ==
  \A c \in Conversations : Asked(c) # {} =>
    /\ \A r \in Turns(c) : reply[r] # "generating"
    /\ phase[c] \notin {"running", "asking"}
    /\ phase[c] \in Saving => turn[c] \in lost

\* Every permit is in the semaphore, with a working task or with another user.
PermitAccounting ==
  free + borrowed + Cardinality(AtWork) = Quota

\* After a stop has returned, the turn that was generating when it began is not
\* waiting for an answer and no task of it runs on.
Quiet(r) ==
  /\ reply[r] # "awaiting_input"
  /\ \A c \in Conversations : turn[c] = r /\ phase[c] \in {"running", "asking"} => c \in stopped
StoppedRunStaysStopped ==
  \A h \in halted : h[2] = "generating" /\ h[1] \notin lost => Quiet(h[1])

\* The same for a turn that waited for an answer when the stop began.
StoppedQuestionStaysStopped ==
  \A h \in halted : h[2] = "awaiting_input" /\ h[1] \notin lost => Quiet(h[1])

\* An answer is recorded once and a cancelled question is never answered: the
\* state of a question that is no longer pending changes only with its deletion.
QuestionsFinal ==
  [][\A q \in Questions :
       question[q] \in {"cancelled"} \cup Answers => question'[q] \in {question[q], "none"}]_vars

\* A settled reply is never written again, unless its bookkeeping was lost.
RepliesFinal ==
  [][\A r \in Requests \ lost :
       reply[r] \in Settled => reply'[r] \in {reply[r], "none"}]_vars

\* A turn that was interrupted after the user had answered it is not executed
\* again: what it did may have had effects.
ResumedNotReplayed ==
  [][\A r \in Requests :
       reply[r] = "interrupted" /\ (\E k \in 1..MaxQuestions : question[<<r, k>>] \in Answers)
         => reply'[r] \in {"interrupted", "none"}]_vars

\* A message does not stay in the queue for ever, unless a question of its
\* conversation is for ever pending.
Delivered ==
  \A r \in Requests :
    \/ []<>(reply[r] # "queued")
    \/ <>[](Asked(ConversationOf[r]) # {})

\* A generation ends, and a stop request returns.
Settles ==
  \A r \in Requests : reply[r] = "generating" ~> reply[r] # "generating"
StopsReturn ==
  \A c \in Conversations : stop[c] # "idle" ~> stop[c] = "idle"
=============================================================================
