------------------------------ MODULE MCEngine ------------------------------
(* A small instance of Engine, and beside it one of Swarm, the device tasks  *)
(* its tools dispatch.  The two share no state: what the engine knows of a   *)
(* task is the output of a call.  The first state says which of them moves.  *)
EXTENDS Engine

CONSTANTS a, b, None, Inputs, Actions, MaxReplies, MaxFaults, Limit

VARIABLES
  part, \* what moves: the rounds of the engine, or the device tasks
  row, alive, job, replies, dispatch, stop, host, wire, faults, sent, covered

S == INSTANCE SwarmProofs  \* Swarm, with what is proved of it

ASSUME TasksAssumption == S!SwarmAssumption

\* Chat messages as the engine saved them before the Responses protocol.
Prompt == [kind |-> "prompt"]
Assistant(said, ids) == [kind |-> "assistant", content |-> said, calls |-> ids]
Tool(id) == [kind |-> "tool", id |-> id]
Observation(as) == [kind |-> "device_observation", content |-> as]

\* A question in the first round, before or after another call, in the second
\* after the images of the first, and in the third after those of both.
Waiting(items, ids, round, images, text) ==
  {[messages |-> items, pending |-> ids, rounds_left |-> Budget - round,
    observations |-> images, text_only |-> text, retry |-> again] : again \in BOOLEAN}
Viewed(text, id, as) == <<Assistant(text, <<id>>), Tool(id), Observation(as)>>

Old == UNION {
  UNION {
    Waiting(<<Prompt, Assistant(said, <<a, b>>)>>, <<a, b>>, 1, 0, FALSE),
    Waiting(<<Prompt, Assistant(said, <<a, b>>), Tool(a)>>, <<b>>, 1, 0, FALSE),
    Waiting(<<Prompt, Assistant(said, <<a, b>>), Tool(a)>>, <<b>>, 1, MaxImages, FALSE),
    Waiting(<<Prompt>> \o Viewed(said, b, "image") \o <<Assistant(said, <<a>>)>>, <<a>>, 2, 0, FALSE),
    Waiting(<<Prompt>> \o Viewed(said, b, "note") \o <<Assistant(said, <<a>>)>>, <<a>>, 2, 0, TRUE),
    Waiting(<<Prompt>> \o Viewed(said, a, "released") \o Viewed(said, b, "image")
              \o <<Assistant(said, <<a>>)>>, <<a>>, 3, 0, FALSE)} : said \in BOOLEAN}

tasks == <<row, alive, job, replies, dispatch, stop, host, wire, faults, sent, covered>>

RoundsOrTasks ==
  /\ part \in {"rounds", "tasks"} /\ S!Init
  /\ Init /\ (part = "tasks" => Fresh)

Steps ==
  /\ UNCHANGED part
  /\ \/ part = "rounds" /\ Next /\ UNCHANGED tasks
     \/ part = "tasks" /\ S!Next /\ UNCHANGED vars

StepsSpec == RoundsOrTasks /\ [][Steps]_<<part, vars, tasks>>

\* A confirmed stop reaches every device task submitted before it, and what a device may be
\* working on has a record (Swarm!StopReaches, Swarm!RecordedFirst; swarm_store.rs 13-29, 174-209).
TasksKept == S!TypeOK /\ S!StopReaches /\ S!RecordedFirst
=============================================================================
