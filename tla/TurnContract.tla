---------------------------- MODULE TurnContract ----------------------------
(***************************************************************************)
(* What the backend promises about the turns of a conversation, without a   *)
(* queue, tasks, a mutex, permits or a process: how the reply and the       *)
(* questions of a turn may change.  A turn of which a confirmation was lost *)
(* is unknown, and nothing more is promised about it.                       *)
(***************************************************************************)
EXTENDS Integers

CONSTANTS Conversations, Requests, ConversationOf, Answers, MaxQuestions

VARIABLES
  status,  \* what the user sees of each turn
  asked    \* what became of each question of each turn

vars == <<status, asked>>

Questions == Requests \X (1..MaxQuestions)
Turns(c) == {r \in Requests : ConversationOf[r] = c}
Generating == {r \in Requests : status[r] = "generating"}

Ended == {"complete", "cancelled", "failed", "interrupted"}

Init ==
  /\ status = [r \in Requests |-> "none"]
  /\ asked = [q \in Questions |-> "none"]

\* These turns become s, and so do those that were generating and are let go.
Become(S, s) == [r \in Requests |-> IF r \in S THEN s ELSE status[r]]

Send(r) ==
  /\ status[r] = "none"
  /\ status' = [status EXCEPT ![r] = "queued"]
  /\ UNCHANGED asked

\* Answered without a model, or refused for good.
Reply(r) ==
  /\ status[r] = "queued"
  /\ \E s \in {"complete", "failed"} : status' = [status EXCEPT ![r] = s]
  /\ UNCHANGED asked

\* A turn starts when no turn of its conversation waits for the user.  One that
\* was left generating is interrupted.
Start(r) ==
  /\ status[r] = "queued"
  /\ \A s \in Turns(ConversationOf[r]) : status[s] # "awaiting_input"
  /\ status' = [Become(Generating \cap Turns(ConversationOf[r]), "interrupted")
                  EXCEPT ![r] = "generating"]
  /\ UNCHANGED asked

Ask(r) ==
  /\ status[r] = "generating"
  /\ \E k \in 1..MaxQuestions :
       /\ asked[<<r, k>>] = "none"
       /\ asked' = [asked EXCEPT ![<<r, k>>] = "pending"]
  /\ status' = [status EXCEPT ![r] = "awaiting_input"]

Answer(q, a) ==
  /\ status[q[1]] = "awaiting_input"
  /\ asked[q] = "pending"
  /\ asked' = [asked EXCEPT ![q] = a]
  /\ status' = [status EXCEPT ![q[1]] = "generating"]

End(r) ==
  /\ status[r] = "generating"
  /\ \E s \in Ended : status' = [status EXCEPT ![r] = s]
  /\ UNCHANGED asked

\* After a restart, or a write that failed, what nobody works on is interrupted.
Interrupt ==
  /\ \E S \in SUBSET Generating : status' = Become(S, "interrupted")
  /\ UNCHANGED asked

\* A stop cancels the question together with the turn that waits for it.
Stop(c) ==
  /\ status' = Become({r \in Turns(c) : status[r] = "awaiting_input"}, "cancelled")
  /\ asked' = [q \in Questions |-> IF q[1] \in Turns(c) /\ asked[q] = "pending"
                                     THEN "cancelled" ELSE asked[q]]

Drop(c) ==
  /\ status' = Become({r \in Turns(c) : status[r] # "unknown"}, "none")
  /\ asked' = [q \in Questions |-> IF q[1] \in Turns(c) /\ status[q[1]] # "unknown"
                                     THEN "none" ELSE asked[q]]

\* A confirmation is lost; the step that lost it may have interrupted others.
Lose(r) ==
  /\ status[r] # "unknown"
  /\ \E S \in SUBSET Generating : status' = [Become(S, "interrupted") EXCEPT ![r] = "unknown"]
  /\ asked' = [q \in Questions |-> IF q[1] = r THEN "unknown" ELSE asked[q]]

Next ==
  \/ \E r \in Requests : Send(r) \/ Reply(r) \/ Start(r) \/ Ask(r) \/ End(r) \/ Lose(r)
  \/ \E q \in Questions, a \in Answers : Answer(q, a)
  \/ \E c \in Conversations : Stop(c) \/ Drop(c)
  \/ Interrupt

Spec == Init /\ [][Next]_vars
=============================================================================
