--------------------------- MODULE ConversationInv ---------------------------
(***************************************************************************)
(* The inductive invariant behind the safety properties of Conversation:   *)
(* what relates the tables, the jobs map, the worker's row and the stops    *)
(* in progress at every await of every actor.                               *)
(***************************************************************************)
EXTENDS Conversation

\* The jobs map: an entry has a turn of a live conversation, whose row exists.
JobsInv ==
  \A c \in Conversations :
    /\ HasJob(c) <=> turn[c] # None
    /\ HasJob(c) => /\ turn[c] \in Turns(c)
                    /\ reply[turn[c]] # "none"
    /\ c \in stopped => HasJob(c)
    /\ server = "stopping" /\ HasJob(c) => c \in stopped

\* The process: a worker exists while it is up, and nothing when it is down.
ServerInv ==
  /\ server = "up" <=> step # "gone"
  /\ server = "down" =>
       /\ lock = None
       /\ \A c \in Conversations : ~HasJob(c) /\ stop[c] = "idle"

\* The worker reads a row again before it completes it, and only it does.
WorkerInv ==
  /\ step \in {"gone", "sleep", "next"} <=> row = None
  /\ step \in {"gone", "sleep"} => batch = {}
  /\ row \notin batch
  /\ \A r \in batch : intake[r] # "complete" /\ sequence[r] # 0
  /\ row # None =>
       /\ sequence[row] # 0
       /\ intake[row] # "complete"
       /\ step # "capture" => intake[row] # "pending"

\* A message has its two rows until its conversation is deleted; its turn waits
\* in the queue until the worker is about to mark it, unless a mark was lost.
QueueInv ==
  \A r \in Requests :
    /\ reply[r] = "none" <=> intake[r] = "none"
    /\ reply[r] # "none" => sequence[r] # 0 /\ ConversationOf[r] \in alive
    /\ r \in due => reply[r] # "none"
    /\ r \in lost => sequence[r] # 0
    /\ r \notin lost /\ intake[r] \in {"pending", "captured"} /\ ~(step = "mark" /\ row = r)
         => reply[r] = "queued"

\* A question belongs to a turn that exists; an answer in progress keeps the
\* conversation without a job and undeleted.
AskedInv ==
  /\ \A q \in Questions : question[q] # "none" => reply[q[1]] # "none"
  /\ lock # None =>
       /\ ~HasJob(ConversationOf[lock[1][1]])
       /\ Serving

\* From the moment a stop cancels the token until for ever after it returned.
SawStopped(h) ==
  /\ sequence[h[1]] # 0
  /\ h[2] = "generating" /\ h[1] \notin lost => Quiet(h[1]) /\ reply[h[1]] # "queued"

StopInv ==
  /\ \A h \in halted : SawStopped(h)
  /\ \A c \in Conversations : target[c] # None => SawStopped(target[c])

Consistent ==
  /\ TypeOK
  /\ JobsInv
  /\ ServerInv
  /\ WorkerInv
  /\ QueueInv
  /\ AskedInv
  /\ StopInv
  /\ JobOwnsReply
  /\ OneGeneration
  /\ QuestionMatchesReply
  /\ WaitingHoldsNothing
  /\ PermitAccounting
==============================================================================
