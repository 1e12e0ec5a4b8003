-------------------------------- MODULE Swarm --------------------------------
(***************************************************************************)
(* The device tasks of a conversation (swarm_store.rs, and the tools of    *)
(* swarm_tools.rs and desktop_tools.rs): recorded, then submitted to the   *)
(* host, which gives them to a device; read until they end; stopped one by *)
(* one, with the conversation, or before its deletion.                     *)
(*                                                                         *)
(* A dispatch and a stop hold the jobs mutex over their requests, so that  *)
(* there is one of them at a time.  Either may be dropped at any await:    *)
(* the turn times out, the caller goes away, the process dies.  A request  *)
(* that was under way may still arrive, or not.                            *)
(*                                                                         *)
(* A definition introduced with "As if" is not part of the model: it is the *)
(* next one with a plausible mistake, kept to see which property notices.  *)
(***************************************************************************)
EXTENDS Integers, FiniteSets

CONSTANTS
  None,
  Inputs,     \* work for a device: its id is made of the reply, the device and the work
  Actions,    \* desktop actions: each is dispatched under an id of its own
  MaxReplies, \* bound of the replies of the conversation
  MaxFaults,  \* bound of what is lost or dropped
  Limit       \* tasks of one reply (32)

Tasks == [reply : 1..MaxReplies, work : Inputs \cup Actions]
Ended == {"complete", "failed", "cancelled"}  \* one that was interrupted ends like one that failed

Receipt == [state : {"unconfirmed"} \cup Ended, cancelled : BOOLEAN]
HostTask == [state : {"queued", "running"} \cup Ended, told : BOOLEAN]
Job == [reply : 1..MaxReplies, cancelled : BOOLEAN]
Dispatching == [record : SUBSET Tasks, submit : SUBSET Tasks]
Stopping == [of : {"conversation", "deletion", "tasks"}, ask : SUBSET Tasks, failed : BOOLEAN]

\* What an instance must satisfy.
SwarmAssumption ==
  /\ {MaxReplies, MaxFaults, Limit} \subseteq Nat /\ Inputs \cap Actions = {}
  /\ None \notin Receipt \cup HostTask \cup Job \cup Dispatching \cup Stopping

VARIABLES
  row,      \* agent_swarm_tasks: a receipt that ended, and whether it was told to stop
  alive,    \* the conversation exists
  job,      \* its entry in the jobs map: the reply, and whether its token is cancelled
  replies,  \* replies so far
  dispatch, \* the dispatch that holds the mutex: what it has to record and to submit
  stop,     \* the stop that holds it: what it has to ask, and whether an answer was an error
  host,     \* the tasks of the host, and which of them were told to stop
  wire,     \* submissions given up, still on their way
  faults,
  sent,     \* history: tasks that were submitted
  covered   \* history: those submitted before the last stop of the conversation that was confirmed

vars == <<row, alive, job, replies, dispatch, stop, host, wire, faults, sent, covered>>

TypeOK ==
  /\ row \in [Tasks -> Receipt \cup {None}] /\ host \in [Tasks -> HostTask \cup {None}]
  /\ alive \in BOOLEAN /\ replies \in 0..MaxReplies
  /\ job \in Job \cup {None}
  /\ dispatch \in Dispatching \cup {None} /\ stop \in Stopping \cup {None}
  /\ wire \subseteq Tasks /\ covered \subseteq sent /\ sent \subseteq Tasks

Init ==
  /\ row = [t \in Tasks |-> None] /\ alive = TRUE
  /\ job = None /\ replies = 0 /\ dispatch = None /\ stop = None
  /\ host = [t \in Tasks |-> None] /\ wire = {} /\ faults = 0
  /\ sent = {} /\ covered = {}

Fault == faults < MaxFaults /\ faults' = faults + 1

MutexFree == dispatch = None /\ stop = None

-----------------------------------------------------------------------------
(* The turns.                                                               *)

\* A turn begins; one that was interrupted, or waited for its user, is taken up again.
Begin(reply) ==
  /\ alive /\ job = None /\ MutexFree
  /\ reply \in {replies, replies + 1} \cap 1..MaxReplies
  /\ job' = [reply |-> reply, cancelled |-> FALSE] /\ replies' = reply
  /\ UNCHANGED <<row, alive, dispatch, stop, host, wire, faults, sent, covered>>

End ==
  /\ job # None /\ MutexFree /\ job' = None
  /\ UNCHANGED <<row, alive, replies, dispatch, stop, host, wire, faults, sent, covered>>

-----------------------------------------------------------------------------
(* Dispatch.                                                                *)

\* The devices are known: the mutex is taken, unless the turn was stopped.
Dispatch(tasks) ==
  /\ job # None /\ ~job.cancelled /\ MutexFree
  /\ tasks # {} /\ \A t \in tasks : t.reply = job.reply
  /\ \/ \A t \in tasks : t.work \in Inputs
     \/ \E t \in tasks : tasks = {t} /\ t.work \in Actions /\ row[t] = None
  /\ dispatch' = [record |-> tasks, submit |-> {}]
  /\ UNCHANGED <<row, alive, job, replies, stop, host, wire, faults, sent, covered>>

Recorded(reply) == {t \in Tasks : t.reply = reply /\ row[t] # None}
Full(reply) == Cardinality(Recorded(reply)) >= Limit

\* A task is recorded, once; what was told to stop is not submitted again.  At the limit the
\* whole dispatch is an error, also when other tasks of it are recorded already.
Record(t) ==
  /\ dispatch # None /\ t \in dispatch.record
  /\ IF Full(t.reply) THEN dispatch' = None /\ UNCHANGED row
     ELSE /\ row' = [row EXCEPT ![t] = IF @ = None THEN [state |-> "unconfirmed", cancelled |-> FALSE] ELSE @]
          /\ dispatch' = [record |-> dispatch.record \ {t},
                          submit |-> dispatch.submit \cup (IF row'[t].cancelled THEN {} ELSE {t})]
  /\ UNCHANGED <<alive, job, replies, stop, host, wire, faults, sent, covered>>

Submitting == IF dispatch # None /\ dispatch.record = {} THEN dispatch.submit ELSE {}

\* The host knows a task by its id.
Taken(t) == [host EXCEPT ![t] = IF @ = None THEN [state |-> "queued", told |-> FALSE] ELSE @]
Answered(t) == dispatch' = [dispatch EXCEPT !.submit = @ \ {t}] /\ sent' = sent \cup {t}

Submit(t) ==
  /\ t \in Submitting /\ Answered(t) /\ host' = Taken(t)
  /\ UNCHANGED <<row, alive, job, replies, stop, wire, faults, covered>>

\* No answer in ten seconds: the task is reported as unconfirmed.
SubmitLost(t) ==
  /\ Fault /\ t \in Submitting /\ Answered(t)
  /\ \/ host' = Taken(t) /\ UNCHANGED wire
     \/ wire' = wire \cup {t} /\ UNCHANGED host
     \/ UNCHANGED <<host, wire>>
  /\ UNCHANGED <<row, alive, job, replies, stop, covered>>

Dispatched ==
  /\ dispatch = [record |-> {}, submit |-> {}] /\ dispatch' = None
  /\ UNCHANGED <<row, alive, job, replies, stop, host, wire, faults, sent, covered>>

-----------------------------------------------------------------------------
(* Stopping.                                                                *)

\* The tasks that have not ended are told to stop: all of the conversation's, of which
\* nothing may be running when it is to be deleted, or those the model or the user names.
Stop(of, tasks) ==
  /\ alive /\ MutexFree
  /\ IF of = "tasks" THEN tasks # {} /\ \A t \in tasks : row[t] # None ELSE tasks = Tasks
  /\ of = "deletion" => job = None
  /\ job' = IF of = "conversation" /\ job # None THEN [job EXCEPT !.cancelled = TRUE] ELSE job
  /\ LET open == {t \in tasks : row[t] # None /\ row[t].state \notin Ended}
     IN  /\ row' = [t \in Tasks |-> IF t \in open THEN [row[t] EXCEPT !.cancelled = TRUE] ELSE row[t]]
         /\ stop' = [of |-> of, ask |-> open, failed |-> FALSE]
  /\ UNCHANGED <<alive, replies, dispatch, host, wire, faults, sent, covered>>

Told(t) == [host EXCEPT ![t].told = TRUE]

\* As if only the last answer was looked at.
SomeConfirmed(t, confirmed) == confirmed \/ Cardinality(stop.ask) > 1
Confirmed(t, confirmed) == confirmed

Heard(t, confirmed) ==
  stop' = [stop EXCEPT !.ask = @ \ {t}, !.failed = @ \/ ~Confirmed(t, confirmed)]

\* The host passes the word on; it does not know a task that was never submitted.
Ask(t) ==
  /\ stop # None /\ t \in stop.ask
  /\ host' = IF host[t] # None THEN Told(t) ELSE host
  /\ Heard(t, host[t] # None)
  /\ UNCHANGED <<row, alive, job, replies, dispatch, wire, faults, sent, covered>>

\* No answer; one that reaches the host later only tells a task to stop.
AskLost(t) ==
  /\ Fault /\ stop # None /\ t \in stop.ask
  /\ host' \in {host} \cup (IF host[t] # None THEN {Told(t)} ELSE {})
  /\ Heard(t, FALSE)
  /\ UNCHANGED <<row, alive, job, replies, dispatch, wire, sent, covered>>

\* All have answered: the stop is confirmed, or an error; a deletion goes on.
Stopped ==
  /\ stop # None /\ stop.ask = {} /\ stop' = None
  /\ LET whole == ~stop.failed /\ stop.of # "tasks"
     IN  /\ covered' = IF whole THEN sent ELSE covered
         /\ IF whole /\ stop.of = "deletion"
            THEN alive' = FALSE /\ row' = [t \in Tasks |-> None]
            ELSE UNCHANGED <<alive, row>>
  /\ UNCHANGED <<job, replies, dispatch, host, wire, faults, sent>>

\* The handler or the tool is dropped, or a statement of its own fails.
Dropped ==
  /\ Fault /\ ~MutexFree
  /\ dispatch' = None /\ stop' = None
  /\ \E late \in SUBSET Submitting : wire' = wire \cup late /\ sent' = sent \cup late
  /\ UNCHANGED <<row, alive, job, replies, host, covered>>

Crash ==
  /\ Fault /\ job' = None
  /\ dispatch' = None /\ stop' = None
  /\ \E late \in SUBSET Submitting : wire' = wire \cup late /\ sent' = sent \cup late
  /\ UNCHANGED <<row, alive, replies, host, covered>>

-----------------------------------------------------------------------------
(* The host, its devices, and the receipts.                                 *)

Arrive(t) ==
  /\ t \in wire /\ wire' = wire \ {t} /\ host' = Taken(t)
  /\ UNCHANGED <<row, alive, job, replies, dispatch, stop, faults, sent, covered>>

\* A device takes a task, and ends it; one that was told to stop may end as it would.
Work(t, state) ==
  /\ host[t] # None
  /\ \/ host[t].state = "queued" /\ ~host[t].told /\ state = "running"
     \/ host[t].state = "running" /\ state \in {"complete", "failed"}
     \/ host[t].state \in {"queued", "running"} /\ host[t].told /\ state = "cancelled"
  /\ host' = [host EXCEPT ![t].state = state]
  /\ UNCHANGED <<row, alive, job, replies, dispatch, stop, wire, faults, sent, covered>>

\* Somebody reads the tasks, or waits for one: what has ended is kept.
Read(t) ==
  /\ row[t] # None /\ row[t].state \notin Ended
  /\ host[t] # None /\ host[t].state \in Ended
  /\ row' = [row EXCEPT ![t].state = host[t].state]
  /\ UNCHANGED <<alive, job, replies, dispatch, stop, host, wire, faults, sent, covered>>

-----------------------------------------------------------------------------

Next ==
  \/ \E reply \in 1..MaxReplies : Begin(reply)
  \/ End \/ Dispatched \/ Stopped \/ Dropped \/ Crash
  \/ \E tasks \in SUBSET Tasks :
       Dispatch(tasks) \/ \E of \in {"conversation", "deletion", "tasks"} : Stop(of, tasks)
  \/ \E t \in Tasks :
       \/ Record(t) \/ Submit(t) \/ SubmitLost(t) \/ Ask(t) \/ AskLost(t)
       \/ Arrive(t) \/ Read(t)
       \/ \E state \in {"running"} \cup Ended : Work(t, state)

Spec == Init /\ [][Next]_vars

-----------------------------------------------------------------------------
(* Properties.                                                              *)

\* A confirmed stop or deletion reaches every task that was submitted before it, also one
\* whose dispatch was dropped or whose answer was lost: it has ended, was told to stop, or
\* never arrives (swarm_store.rs 174-209, docs/swarm-execution.md:30).
StopReaches ==
  \A t \in covered :
    IF host[t] = None THEN t \notin wire \cup Submitting
    ELSE host[t].told \/ host[t].state \in Ended

\* What a device may be working on has a record, while the conversation exists, and a reply
\* has no more of them than the limit (swarm_store.rs 13-29).
RecordedFirst ==
  /\ alive => \A t \in Tasks : host[t] # None \/ t \in wire => row[t] # None
  /\ \A reply \in 1..MaxReplies : Cardinality(Recorded(reply)) <= Limit
=============================================================================
