------------------------------- MODULE Engine -------------------------------
(***************************************************************************)
(* The agent engine: rounds of a request to the model and of the tool      *)
(* calls it answers with, until the model says something without a call.   *)
(* A tool may need the user: the state is then handed to the host, saved,  *)
(* and taken up again with the answer, perhaps by a later version of the   *)
(* engine.  Desktop tools return images, which the model is shown once per *)
(* round and which a model that cannot read them makes the engine give up. *)
(*                                                                         *)
(* A definition introduced with "As if" is not part of the model: it is the *)
(* next one with a plausible mistake, kept to see which property notices.  *)
(***************************************************************************)
EXTENDS Integers, FiniteSets, SequencesExt

CONSTANTS
  Ids,          \* call ids a model may choose
  NoId,         \* the id of an item that is neither a call nor an output
  Budget,       \* rounds of one run (8, or 32 with a desktop, in the source)
  MaxCalls,     \* calls of one round (8 in the source)
  MaxImages,    \* images of one round (2 in the source)
  Checkpoints   \* states saved by the engine before the Responses protocol

ASSUME BudgetAssumption == Budget \in Nat /\ MaxCalls \in Nat /\ MaxImages \in Nat
ASSUME IdAssumption == NoId \notin Ids

VARIABLES
  messages,     \* input items of the next request, in order
  pending,      \* ids of the calls of this round that have no output yet
  rounds_left,
  observations, \* images of this round that are not yet in the messages
  observation_indices,
  text_only,    \* the model refused images: text_observations_only
  protocol_version,
  retry,        \* the tool that asked is to be called again with the answer
  phase,
  executed,     \* history: the calls whose tool has run, <<rounds left, id>>
  requests      \* history: requests sent

saved == <<messages, pending, rounds_left, observations, observation_indices, text_only>>
vars == <<saved, protocol_version, retry, phase, executed, requests>>

Item(kind) == [kind |-> kind, id |-> NoId]
Call(id) == [kind |-> "call", id |-> id]
Output(id) == [kind |-> "output", id |-> id]
Shown == {"image", "released", "note"}   \* what became of an observation

TypeOK ==
  /\ pending \in Seq(Ids) /\ Len(pending) <= MaxCalls
  /\ rounds_left \in 0..Budget
  /\ observations \in 0..MaxImages
  /\ observation_indices \subseteq DOMAIN messages
  /\ text_only \in BOOLEAN /\ retry \in BOOLEAN
  /\ protocol_version \in {0, 1}
  /\ phase \in {"round", "sent", "resent", "calls", "waiting", "complete", "ended"}

Fresh ==
  /\ messages = <<Item("prompt")>>
  /\ pending = <<>>
  /\ rounds_left = Budget
  /\ observations = 0
  /\ protocol_version = 1
  /\ phase = "round"
  /\ text_only = FALSE /\ retry = FALSE
  /\ requests = 0

\* A conversation that was waiting for its user when the engine was replaced.
Restored(c) ==
  /\ messages = c.messages
  /\ pending = c.pending
  /\ rounds_left = c.rounds_left
  /\ observations = c.observations
  /\ protocol_version = 0
  /\ phase = "waiting"
  /\ text_only = c.text_only /\ retry = c.retry
  /\ requests = Budget - c.rounds_left + (IF text_only THEN 1 ELSE 0)

Init ==
  /\ Fresh \/ \E c \in Checkpoints : Restored(c)
  /\ observation_indices = {}
  /\ executed = <<>>

-----------------------------------------------------------------------------
(* Rounds *)

Relabel(items, places, kind) ==
  [i \in DOMAIN items |-> IF i \in places THEN Item(kind) ELSE items[i]]

\* The images of the last round are shown once, and all older ones are released.
Show ==
  IF observations = 0
    THEN UNCHANGED <<messages, observation_indices>>
    ELSE /\ messages' = Append(Relabel(messages, observation_indices, "released"),
                               Item(IF text_only THEN "note" ELSE "image"))
         /\ observation_indices' = observation_indices \cup {Len(messages) + 1}

\* As if a round were started without a look at the budget.
StartRoundUnbounded ==
  /\ phase = "round"
  /\ pending = <<>>
  /\ Show
  /\ observations' = 0
  /\ rounds_left' = rounds_left - 1
  /\ phase' = "sent"
  /\ requests' = requests + 1
  /\ UNCHANGED <<pending, text_only, protocol_version, retry, executed>>

StartRound ==
  /\ phase = "round"
  /\ pending = <<>>
  /\ rounds_left > 0
  /\ Show
  /\ observations' = 0
  /\ rounds_left' = rounds_left - 1
  /\ phase' = "sent"
  /\ requests' = requests + 1
  /\ UNCHANGED <<pending, text_only, protocol_version, retry, executed>>

\* HTTP 400 before any output: the request is repeated once, without images.
TextFallback ==
  /\ phase = "sent"
  /\ ~text_only
  /\ \E i \in observation_indices : messages[i].kind = "image"
  /\ text_only' = TRUE
  /\ messages' = Relabel(messages, observation_indices, "note")
  /\ phase' = "resent"
  /\ requests' = requests + 1
  /\ UNCHANGED <<pending, rounds_left, observations, observation_indices>>
  /\ UNCHANGED <<protocol_version, retry, executed>>

\* The stream is complete and holds no call.
Complete ==
  /\ phase \in {"sent", "resent"}
  /\ phase' = "complete"
  /\ UNCHANGED <<saved, protocol_version, retry, executed, requests>>

\* The items of the completed response, and its calls in their order.  Ids are
\* distinct within the response; a later one may use them again.
Calls ==
  /\ phase \in {"sent", "resent"}
  /\ \E n \in 1..MaxCalls, said \in BOOLEAN : \E ids \in [1..n -> Ids] :
       /\ \A i, j \in 1..n : ids[i] = ids[j] => i = j
       /\ messages' = messages \o (IF said THEN <<Item("text")>> ELSE <<>>)
                               \o [i \in 1..n |-> Call(ids[i])]
       /\ pending' = ids
  /\ phase' = "calls"
  /\ UNCHANGED <<rounds_left, observations, observation_indices, text_only>>
  /\ UNCHANGED <<protocol_version, retry, executed, requests>>

-----------------------------------------------------------------------------
(* Tool calls *)

Ran == Append(executed, <<rounds_left, Head(pending)>>)

\* As if the images were put into the messages as soon as they arrive.
ReplyShowsAtOnce(images) ==
  /\ messages' = Append(messages, Output(Head(pending)))
                   \o [i \in 1..images |-> Item("image")]
  /\ observation_indices' = observation_indices \cup (Len(messages) + 2)..(Len(messages) + 1 + images)
  /\ pending' = Tail(pending)
  /\ phase' = IF Len(pending) = 1 THEN "round" ELSE "calls"
  /\ UNCHANGED <<observations, rounds_left, text_only, protocol_version, retry, requests>>

\* The first pending call gets its output; images wait for the end of the round.
Reply(images) ==
  /\ messages' = Append(messages, Output(Head(pending)))
  /\ observations' = observations + images
  /\ pending' = Tail(pending)
  /\ phase' = IF Len(pending) = 1 THEN "round" ELSE "calls"
  /\ UNCHANGED <<observation_indices, rounds_left, text_only, protocol_version, retry, requests>>

\* The tool runs, and returns a result or an error.
Invoke ==
  /\ phase = "calls"
  /\ \E images \in 0..(MaxImages - observations) : Reply(images)
  /\ executed' = Ran

\* Arguments that are not JSON: the model is told, and the tool does not run.
Malformed ==
  /\ phase = "calls"
  /\ Reply(0)
  /\ UNCHANGED executed

\* As if a tool asked after it had acted.
AskUserTooLate ==
  /\ phase = "calls"
  /\ phase' = "waiting"
  /\ retry' \in BOOLEAN
  /\ executed' = Ran
  /\ UNCHANGED <<saved, protocol_version, requests>>

\* The tool needs the user, before it has done anything: the state goes to the
\* host.  A device tool is to be called again, a question is answered.
AskUser ==
  /\ phase = "calls"
  /\ phase' = "waiting"
  /\ retry' \in BOOLEAN
  /\ UNCHANGED <<saved, protocol_version, executed, requests>>

-----------------------------------------------------------------------------
(* Resuming *)

UpgradeItem(m) ==
  CASE m.kind = "tool" -> <<Output(m.id)>>
    [] m.kind = "assistant" -> (IF m.content THEN <<Item("text")>> ELSE <<>>)
                                 \o [i \in DOMAIN m.calls |-> Call(m.calls[i])]
    [] m.kind = "device_observation" -> <<Item(m.content)>>
    [] m.kind = "prompt" -> <<Item("prompt")>>

\* Where the new items of the old message i begin, less one.
Before(old, i) == Len(FlattenSeq([j \in 1..(i - 1) |-> UpgradeItem(old[j])]))

Observed(old) == {i \in DOMAIN old : old[i].kind = "device_observation"}

Upgraded(old) ==
  [items |-> FlattenSeq([i \in DOMAIN old |-> UpgradeItem(old[i])]),
   shown |-> {Before(old, i) + 1 : i \in Observed(old)}]

\* As if an observation kept the place it had among the old messages.
UpgradeKeepsPlaces ==
  IF protocol_version = 1
    THEN [items |-> messages, shown |-> observation_indices]
    ELSE [Upgraded(messages) EXCEPT !.shown = Observed(messages)]

\* The chat messages of an old checkpoint become input items, once.
Upgrade ==
  IF protocol_version = 1
    THEN [items |-> messages, shown |-> observation_indices]
    ELSE Upgraded(messages)

\* As if the call that asked were called again although it has its answer.
ResumeCallsAgain ==
  /\ phase = "waiting"
  /\ messages' = Upgrade.items \o (IF retry THEN <<>> ELSE <<Output(Head(pending))>>)
  /\ observation_indices' = Upgrade.shown
  /\ protocol_version' = 1
  /\ phase' = "calls"
  /\ retry' = FALSE
  /\ UNCHANGED <<pending, rounds_left, observations, text_only, executed, requests>>

\* As if the budget were counted from the last pause.
ResumeResetsRounds ==
  /\ phase = "waiting"
  /\ messages' = Upgrade.items \o (IF retry THEN <<>> ELSE <<Output(Head(pending))>>)
  /\ observation_indices' = Upgrade.shown
  /\ protocol_version' = 1
  /\ pending' = IF retry THEN pending ELSE Tail(pending)
  /\ phase' = IF pending' = <<>> THEN "round" ELSE "calls"
  /\ rounds_left' = Budget
  /\ retry' = FALSE
  /\ UNCHANGED <<observations, text_only, executed, requests>>

\* The answer is the output of the call that asked, unless that is called again.
Resume ==
  /\ phase = "waiting"
  /\ messages' = Upgrade.items \o (IF retry THEN <<>> ELSE <<Output(Head(pending))>>)
  /\ observation_indices' = Upgrade.shown
  /\ protocol_version' = 1
  /\ pending' = IF retry THEN pending ELSE Tail(pending)
  /\ phase' = IF pending' = <<>> THEN "round" ELSE "calls"
  /\ retry' = FALSE
  /\ UNCHANGED <<rounds_left, observations, text_only, executed, requests>>

-----------------------------------------------------------------------------
\* An error, the timeout or a cancellation: the state is dropped, and a tool in
\* progress may have done its work.
End ==
  /\ phase \in {"round", "sent", "resent", "calls"}
  /\ phase' = "ended"
  /\ executed' \in {executed} \cup (IF phase = "calls" THEN {Ran} ELSE {})
  /\ UNCHANGED <<saved, protocol_version, retry, requests>>

Next ==
  \/ StartRound \/ TextFallback \/ Complete \/ Calls
  \/ Invoke \/ Malformed \/ AskUser
  \/ Resume \/ End

Spec == Init /\ [][Next]_vars

-----------------------------------------------------------------------------
(* Properties *)

Count(items, kind, p) == Cardinality({q \in 1..p : items[q].kind = kind})

\* The n-th call comes before the n-th output, which names it, or it waits in its place.
Agree(items, waiting) ==
  LET calls == {p \in DOMAIN items : items[p].kind = "call"}
      answered == Count(items, "output", Len(items))
      turn(p) == Count(items, "call", p)
  IN  /\ Count(items, "call", Len(items)) = answered + Len(waiting)
      /\ \A p \in calls : turn(p) > answered => items[p].id = waiting[turn(p) - answered]
      /\ \A p \in calls : turn(p) <= answered =>
           \E q \in DOMAIN items : /\ q > p /\ items[q] = Output(items[p].id)
                                   /\ Count(items, "output", q) = turn(p)

\* Every call the model made has exactly one output, in the order of the calls,
\* but for those still pending: also across pauses, restarts and an upgrade of
\* the checkpoint.
Ledger == protocol_version = 1 => Agree(messages, pending)

\* No tool runs twice for one call, however often the run was paused.
ExecutedOnce ==
  \A i, j \in DOMAIN executed : executed[i] = executed[j] => i = j

Answered(items) ==
  \A p \in DOMAIN items : items[p].kind \in Shown => Count(items, "call", p) = Count(items, "output", p)

\* An observation never stands between a call and its output: the API refuses
\* a request in which it does.
AnsweredBeforeShown == protocol_version = 1 => Answered(messages)

Latest(items, places, refused) ==
  /\ places = {p \in DOMAIN items : items[p].kind \in Shown}
  /\ \A p, q \in places : items[p].kind = "image" => q <= p
  /\ refused => \A p \in places : items[p].kind # "image"

\* The engine knows where its observations are (so that it never replaces the
\* user's own images), shows the images of the latest only, and none to a model
\* that has refused them.
LatestImagesOnly == protocol_version = 1 => Latest(messages, observation_indices, text_only)

\* Pauses do not renew the budget, and the refused images cost one request.
BudgetKept ==
  requests + rounds_left = Budget + (IF text_only THEN 1 ELSE 0)

-----------------------------------------------------------------------------
\* What the old engine saved: it kept the ledger in its own form, so that the items made of
\* its messages keep it in this one.
ItemType == [kind : {"prompt", "text", "call", "output"} \cup Shown, id : Ids \cup {NoId}]

ASSUME CheckpointAssumption ==
  \A c \in Checkpoints :
    /\ c.pending \in Seq(Ids) /\ Len(c.pending) \in 1..MaxCalls
    /\ \A i, j \in DOMAIN c.pending : c.pending[i] = c.pending[j] => i = j
    /\ c.rounds_left \in 0..Budget /\ c.observations \in 0..MaxImages
    /\ c.text_only \in BOOLEAN /\ c.retry \in BOOLEAN
    /\ LET new == Upgraded(c.messages)
       IN  /\ new.items \in Seq(ItemType) /\ Agree(new.items, c.pending) /\ Answered(new.items)
           /\ Latest(new.items, new.shown, c.text_only)
=============================================================================
