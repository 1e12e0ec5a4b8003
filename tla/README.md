# Verification of the AIO Agent

TLA+ models of the AIO Agent plugin, TLC runs on small instances and TLAPS proofs for
every instance. The models are translated from the sources in this repository; paths
below are relative to its root, and `C/` stands for `backend/src/generated/conversation/`.

## 1. The system

The Agent is one process per data space (`main.rs` takes an advisory lock in `connect`)
in front of a PostgreSQL schema. A user sends messages to conversations; a background
worker has the Memory plugin sanitise and route each message, starts a generation against
a language model, and the generation may call tools (devices, memory, skills, web), ask
the user a question and wait for the answer.

| Component | State | Operations | Interacts with |
| --- | --- | --- | --- |
| Intake (`C/intake.rs`) | `agent_messages`, `agent_intake` | `receive`, `protect_history` | worker, through the tables |
| Delivery worker (`C/worker.rs`) | the rows of one pass, the row in hand | `deliver`, `deliver_message`, `synchronize` | intake, Memory, `respond` |
| Generation (`C/generation.rs`, `C/store.rs`) | `jobs` map and mutex, semaphore of 4, reply rows | `respond`, `run`, `recover`, `finish` | worker, engine, tools |
| User input (`C/user_input.rs`, `C/input_tool.rs`) | `agent_user_inputs` with an encrypted checkpoint | `save`, `answer`, `pending`, `cancel`, device and workspace selection | generation, devices |
| Service (`C/service_impl.rs`, `main.rs`) | the `Core`: pool, jobs, semaphore, shutdown token, worker handle | `connect`, `thread`, `send`, `cancel`, `delete`, `shutdown` | all of the above |
| Compilation worker (`C/worker.rs` 200-356) | a lease in Memory | `compile_one`, `compile` | Memory, semaphore |
| Swarm (`C/swarm_*.rs`) | `agent_swarm_tasks`, the broker's tasks | dispatch, wait, cancel, list | generation, devices, `cancel`, `delete` |
| Device and desktop tools (`C/device_*.rs`, `C/desktop_tools.rs`) | one observation per reply | list, open, control | generation, user input |
| Engine (`engine/`) | `RunState`: messages, queued calls, rounds, tokens | `run`, `resume`, `answer` | model API, tools |
| Memory client (`C/memory*.rs`, `C/model*.rs`) | model grants | `invoke`, `route`, `safe_thread` | Memory plugin |
| Metering (`C/metering.rs`) | none (idempotency key = reply id) | `record_tokens` | host |
| Enhancement (`backend/src/generated/enhancement`) | none | `enhancement_source` | semaphore, engine |
| Skills (`backend/src/generated/skills`) | skill files with versions and tombstones | CRUD, tools | generation |
| Notes watcher (`cli/src/notes/watch.mjs`, `apple.mjs`, `launch.mjs`) | `apple-watch.json`, a lock file, the LaunchAgent | rounds of `watch`, `watch-install`, `watch-remove` | Apple Notes, Memory, the session profile |
| Notes pipeline (`cli/src/notes/pipeline.mjs`, `cleanup.mjs`, `cli/src/memory/wiki.mjs`) | `state.json`, a lock file, wiki files and manifests, the trash | `run`: capture, export, cleanup | the user's files, Memory |
| Conversation page (`frontend/web/app.js`, `interactions.js`) | `state`: thread, epoch, draft, pending submission, busy; the address | select, create, send, stop, poll, restore | service, SDK bridge |
| Dialogs and panel (`frontend/web/dialogs.js`, `native-workspace.js`) | `dialogs`: current dialog, epoch, confirmation, revealed secrets, panel | open, close, submit, confirm, reveal | service, page |
| Fragments, models (`frontend/web/transport.js`, `models.js`) | message caches, render versions | `render`, `discoverModels` | service |
| Cloud Codex (`frontend/web/cloud.js`) | a view and a JSON-RPC connection, pending calls, approvals | connect, call, answer, close, merge | a cloud computer |
| SDK bridge (`sdk/web/host.mjs`, `guest.js`) | pending calls on both sides, the drop subscription | request, file drop | page, host |

### What is hard here

* Four kinds of actor (handlers, worker, one task per generation, the process) write the
  same rows. Only `answer` holds the jobs mutex over a long series of awaits; `respond`,
  `save`, `delete` and the first half of `cancel` hold it for their whole length; `finish`,
  the second half of `cancel` and the worker's own writes do not take it at all.
* A reply row and the intake row, a question and its reply, a task and its permit are
  pairs that change in separate steps, and each step may fail or be the last before a crash.
* A transaction may be applied and its confirmation lost.
* The tasks of a process die with it, its rows do not: `recover` and `connect` repair them.
* The command line keeps its progress in files: every write may be the last, and the notes,
  the user's files, the login and Memory change between any two of its steps.
* The page has no locks. Each handler runs from await to await, and what it read before one
  (the conversation, the dialog, the connection) may be another after it; epochs, versions
  and generations say so where the code looks.

PROJECT.json lists these hazards one by one, each at its line, with the property that
watches it. For each component the properties that make it correct are:

* intake and worker: a message is answered once and not forgotten;
* generation: one generation per conversation, rows written by their owner only, settled
  replies final, permits conserved, every generation ends;
* user input: one question at a time, answered once, nothing held while waiting;
* service: what is stopped stays stopped; a restart leaves nothing generating;
* swarm: what a device works on has a record, and a confirmed stop reaches every task that
  was submitted before it;
* engine: each tool call is answered once, also across a pause; the budget is respected;
* skills: no lost update, no resurrection;
* notes: a note is captured under one request id per text and not forgotten; no file of the
  user is lost; what is cleaned up is held by Memory and exported;
* page: a message is sent once, the composer and the conversation shown agree with the
  service in the end, late answers change nothing they no longer concern;
* bridge and connections: places, timers, views and calls are given back.

## 2. Modules

| Module | Models |
| --- | --- |
| `TurnContract` | What a user may rely on: how the status of a turn and of its questions may change. No queue, tasks, mutex, permits or process. |
| `Conversation` | The backend's side of a turn: intake, worker, `respond`, `run`, `answer`, `cancel`, `thread`, `delete`, shutdown, crash and restart, one action per stretch between two awaits. Its properties. |
| `ConversationInv` | The inductive invariant `Consistent`. |
| `ConversationContract` | The refinement mapping from `Conversation` to `TurnContract`. |
| `ConversationProofs` | Proofs: the invariant, the safety properties, the action properties. |
| `ContractProofs` | Proof that `Conversation` implements `TurnContract`. |
| `EngineProofs`, `SwarmProofs`, `WatchProofs`, `PipelineProofs`, `ChatProofs`, `PageProofs` | The inductive invariant of each of these components, of `PageProofs` one of each part in `MCPage`, and the proofs of their properties. |
| `Engine` | The engine's loop: rounds, tool calls, images, pauses for the user, checkpoints of the old protocol. Its properties. |
| `Swarm` | The device tasks of a conversation: recorded, submitted to the host, stopped one by one or with the conversation. |
| `Watch` | The notes watcher: rounds, records and request ids, its lock, the LaunchAgent, and Memory as far as it is captured to. |
| `Pipeline` | A run of the notes pipeline: order, capture, export with its recheck, cleanup, among the user's and Memory's changes. |
| `Chat` | The page of a conversation: its handlers from await to await, the poll, the address. |
| `Dialogs`, `Panel` | The dialog with its operations, buttons and secrets; the panel beside the conversation. |
| `Fragments`, `Discovery` | Drawing an element from fragments; the list of models. |
| `Cloud`, `Transcript` | Connections to a cloud computer and what is under way on them; the conversation merged from the device's answers and reports. |
| `Bridge` | Calls and dropped files between the page and its host. |
| `MCConversation`, `MCEngine`, `MCWatch`, `MCPipeline`, `MCChat`, `MCPage` | Instances for TLC; `MCEngine` holds the old checkpoints and an instance of `Swarm`, `MCPage` one instance of each part of the page that shares no state with the others. `MCEngine` takes `Swarm` with what is proved of it (`INSTANCE SwarmProofs`), so that `EngineProofs` can cite it. |

### How Conversation corresponds to the code

*State.* `reply`, `intake`, `due`, `question`, `alive` and `sequence` are the columns
`agent_messages.status` (assistant row), `agent_intake.state` and `available_at`,
`agent_user_inputs.state`, the conversation row and `agent_messages.sequence`. A question
is named by its turn and its number in the turn, and its state holds the answer once there
is one. `phase`, `turn`, `stopped` are the jobs map: what the task of a conversation is
doing, for which reply, and whether its token is cancelled. `lock` is the jobs mutex while
`answer` holds it over its awaits; every other holder is one step, guarded by `LockFree`.
`free` and `borrowed` are the semaphore. `step`, `batch`, `row` are the worker between its
awaits. `stop` is a cancel request between its two halves and `target` the turn it found
working. `server` is the process: `stopping` is the time in which `main.rs` still serves
requests while `shutdown` waits for the tasks.

*History variables.* `lost` holds the turns of which the backend missed a confirmation: a
mark that failed or was cut off, a commit reported as failed, a started task reported as
an error. `halted` holds what a stop that has returned found working. No action reads them.

*Actions.* `Receive` is one transaction. The worker's pass is `Fetch`, then per row
`NextRow`, `Capture`, `Gate`, one of `RespondStarts`/`RespondConflict`/`RespondRejects`/
`RespondFails`/`RespondUnread`/`RespondUnconfirmed` or `WriteReply`, and `Mark`. A task is
`JobStopped`/`JobEnds`/`JobAsks`, then `SaveQuestion` (or `SaveStopped`, `SaveFails`,
`SaveUnconfirmed`) or `Finish`, and `RemoveJob`. Answering is `AnswerBegins` and one of
`AnswerCommits`, `AnswerUnconfirmed`, `AnswerRefused`. Stopping is `StopBegins`,
`StopCancelsInputs`, `StopReturns`, or `StopFails`. `Read` is the recovery in `thread`.
`Shutdown`, `Exit`, `Crash`, `Connect` are the process.

*Failures* are actions guarded by `Fault(kind)`: `Faults` says which kinds an instance
has, `MaxFaults` how many in all. The kinds are Memory unavailable (`memory`), a failed
statement before anything was applied (`database`, `finish`, `save`, `mark`), an applied
commit reported as failed (`commit`), a device that does not confirm a stop (`stop`), a
termination signal (`shutdown`) and a kill (`crash`).

*Abstractions.* Texts, citations, history and tools are left out: a task ends in some
outcome. A refused answer is one action whatever the reason. Metering follows `Finish`
and touches no row. Not in this module: the 398-row limit and the content fingerprint of
`receive`, `protect_history`, `synchronize`, device and workspace selection, the swarm
tasks that `cancel` and `delete` stop first (their failure is the kind `stop`; `Swarm` models
them), a failure
of the worker's backoff write itself, a failure of the last read of a stop, panics.

### How Engine corresponds to the code

*State.* `messages`, `pending`, `rounds_left`, `observations`, `observation_indices`,
`text_only` and `protocol_version` are the fields of `RunState` (`engine/src/model.rs`); an
item is its kind and, for a call or an output, the call id, and `observations` is a number.
`retry` is `InputRequired.retry` of the question that is open. `phase` is the place in
`resume` (`engine/src/execution.rs`): before a request, after it, after its repetition,
in the tool calls, or outside, waiting for the user. `executed` and `requests` are history.
An old checkpoint is read through `Upgraded`, the items its chat messages become and the
places of their observations (`checkpoint.rs`); `Upgrade` is that of the state in hand.

*Actions.* A round is `StartRound`, perhaps `TextFallback`, then `Complete` or `Calls`;
each pending call is `Invoke`, `Malformed` or `AskUser`. `Resume` is `RunState::answer` (for
a question), the upgrade of the checkpoint, and the return to the loop: the upgrade runs
first in both, and nothing comes between. `End` is every error, timeout or cancellation,
after which the state is dropped. In `Conversation` all this is one task: `JobAsks` is
`AskUser` seen from the host, `AnswerCommits` is `Resume`, and the outcomes of `JobEnds`
are `Complete` and `End`.

*Abstractions.* Texts and arguments, reasoning items, quotas in bytes, the token count, the
assembly of a response from its stream (`stream.rs`). The ids of a response are distinct,
as `finish` requires; a later response may use one again.

### How Swarm corresponds to the code

*State.* `row` is `agent_swarm_tasks`, `job` the conversation's entry in the jobs map. A
task is named by what `request_id` hashes: the reply and the work (with its device); a
desktop action gets an id of its own, so it is dispatched once. `dispatch` and `stop` are
`invoke` and `cancel` while they hold the jobs mutex over their requests. `host` are the
host's tasks, `wire` submissions whose sender gave up and that may still arrive. `sent` and
`covered` are history: what was submitted, and what of it before a confirmed stop.

*Actions.* `Dispatch` takes the mutex, `Record` is one `record`, `Submit` or `SubmitLost` one
request; `Stop` is the update of `cancel`, `Ask` or `AskLost` one of its requests, `Stopped`
its end, after which a deletion removes the rows. `Read` keeps what a task ended with.
`Dropped` is a turn that times out or a caller who goes away, at any await. The host is
external: it knows a task by its id and refuses to stop one it does not know, as the
fixture of `swarm_tests.rs` 38-69 does.

*Abstractions.* Choice of the device, inputs and results; the engine does not look into a
task, so that `MCEngine` sums the two modules: its first state says which one moves. Two
groups of one dispatch are not the same work. A stop is one update for all of its tasks.

### How Watch corresponds to the code

*State.* `disk` is `apple-watch.json`, with a record per note; `mem` are the records of the
round in memory, `listed` and `batch` what `apple.mjs` selected and read. A record's
`settled` and `later` are what the time of a round makes of `observedAt` and `retryAt`;
`Elapse` lets the time pass. `lock` is the lock file: between its creation and the write of
its pid it is "empty", and a later start cannot read it. `sources` is Memory, where an
intake happens once per user and request id, and `flight` are captures whose client gave up.
`sent` is history: the last submission of each note and whether the user edited it since.

*Actions.* A round is `StartRound` (session, state, the metadata pass with its order),
`ReadNotes`, per note `Process` (up to the write that precedes the capture), `Captured` or
`Failed`, `WriteAnswer`, and `EndRound`. `RoundFails` is any other error of a round,
`Crash` a kill at any step, `Admin` an install or removal, `Login` another user.

*Abstractions.* Texts are of four kinds: accepted, refused, too long, blank. The reports
written to the terminal are left out; backoffs end by `Elapse` whatever their length. One
watcher: launchd starts no second one, so the race of two starters for a stale lock is not
in the model.

### How Pipeline corresponds to the code

*State.* `files`, `trash`, `entries`, `manifest`, `disk` and `lock` are files; a note file is
its text, its inode and whether it is old enough. `source` is Memory: status, version of its
nodes, secrets. `mem`, `notes`, `todo`, `count`, `cur`, `proof` are the variables of a run.
History: `owned` (what the user wrote and did not overwrite itself), `touched`, `late`,
`held`.

*Actions.* `Start`, `Collect`, then per note in the order of attempts `Skip` or `Begin`,
`Capture`, `Export`, `WriteEntries`, `Recheck`, `CheckKept`, `CheckCurrent`, `Move`,
`CheckMoved`, perhaps `GiveBack`, and `SaveRecord` or `SaveFailure`; `Finish`. The steps of
the cleanup are those between which the user may act: that is what the properties are about.

Paths are numbered in the order the walk visits them, and a file that is there at first has
the number of its path for an inode; a new file gets a new one.

*Abstractions.* All files have one base name, so equal texts are duplicates; a text has one
wiki version, which stands for all its nodes; attachments are left out.

### How the page's modules correspond to the code

`Chat`: `shown`, `pending`, `busy` are fields of `state`, `draft` the composer, `url` the
address, `navigating` and `following` the flags of app.js. A `task` is a handler that waits;
`at` names the await, `data` is the answer once the service gave it, and `fresh` says that
`state.epoch` is still the one the handler started in. The service is `conv`, seen through
snapshots; `mail` are messages whose sender gave up. `Lose` is an answer that never comes.
`moved` is history: the texts that were in the composer or on their way when the page turned
to another conversation, by a command or by the late answer of a handler (`Turned`). Of those
the page forgets which request id they were sent under.

`Dialogs`: `current`, `confirm`, `generation` are fields of `dialogs`; `drawn` lags behind
`current` until the fragment is there. Epochs appear as `fresh` (`dialogs.epoch` is still the
one an operation read) and `attached` (the page still holds its button). An operation reads
the epoch when it begins, but the list of files or archived conversations only after its first
fragment has come (native-workspace.js:75-76): `Panel` opens it, `Rendered`, `RenderFails` or
`PanelOpened` end that await, and `PanelRead` opens it with what was read. `Panel`,
`Fragments` and `Discovery` follow the functions they name one to one; a fragment is
identified with the content it was made of.

`Cloud`: a connection is its phase, the closed flag, whether it is dialled and whether its
view is open; `work` are the page's operations on it.

`Transcript`: `device` is the truth, `toDevice` and `toPage` the messages of one connection in
order, `shown` is `state.native`, `selection` counts `state.epoch` and `selecting` says how far
`select` has come: before the answer to `thread/resume`, after it (with the status it gave), or
broken off. `Select` shows an empty conversation at once and asks for it; `Receive` is any
answer or report that reaches the page, with what the handler does with it: an answer to an
earlier epoch is dropped, reports are applied to whatever is shown. The user may send
(`Send`), ask for earlier turns, also twice (`Earlier`), open the conversation again or leave
it by the address (`Leave`) at any of these moments. `Serve` may answer every call with an
error; `TimesOut` gives a call up after forty seconds, though its answer may still come and is
then ignored; `Disconnect` fails every call, and `Reconnect` shows nothing until the
conversation is opened again. After an error in `thread/resume` or in the reads the page keeps
what was reported since, with nothing under way: `TranscriptWhole` says of such a conversation
only that what it shows is right, and that it is complete of one whose opening did not break
off. The text of a turn is the sequence of its deltas; a turn's end is reported with its whole
text or in summary only. The reads of `history` are one call.

The device is not in this repository. What `Transcript` assumes of it: messages of a connection
arrive in order; it starts a turn only for a connection that has resumed the conversation, and
answers the start before it reports on the turn; it works on one turn at a time.

What `native-workspace.js` does with whole conversations (fork, revert, archive) is not in the
model; each ends in a `select`.

`Bridge`: `awaited` is the guest's map of pending calls, `inflight` the host's count;
`subscription`, `armed`, `inert`, `timer`, `epoch` are the variables of `mountFileDrop`.
Messages of one direction arrive in order, as `postMessage` delivers them. `Load` is a load of
the page with both sides in one step: that the host sees the load event later than the guest
begins is not modelled.

`MCPage` sums these parts: its first state chooses one, and only that one moves, so that the
states add and do not multiply. No part reads a variable of another; calls and drops share
the bridge and its messages and are two parts of one module.

### As if

The definitions introduced with "As if" are not part of the specification: each is the
following definition with a plausible mistake, and PROJECT.json says which property
notices it.

## 3. Runs

| Run | Instance | Shows |
| --- | --- | --- |
| `turn_faults` | one turn, one question, two answers, one other user of a semaphore of one, any three failures | types, task/row ownership, question/reply agreement, permits, stops, finality of questions. About 107 000 states. |
| `two_turns` | two symmetric turns of one conversation, any one failure | mutual exclusion of turns, finality of replies, refinement of the contract. About 389 000 states. |
| `queue_liveness` | two turns, no failure, fair | every message leaves the queue |
| `turn_liveness` | one turn, any one failure, fair | generations settle, stops return |
| `lost_stop` | one turn, no failure | counterexample, see below |
| `resumed_replay` | one turn, `mark` and `crash` failures | counterexample, see below |
| `notes_watch` | two notes, batches of one, one edit, two faults (of crash, lost answer, failed write, login, administration), fair | records agree with Memory, one id per text, nothing overlooked, nothing starved. About 124 000 states. |
| `notes_run` | two paths, batches of one, two events (of the user, Memory or faults), three policies, fair | no file lost, exports complete, cleanup only of what is held, every note verified. About 484 000 states. |
| `chat_page` | two conversations, one text, three events (commands and lost answers), fair | one record per message, one writer, no text lost from the composer, the page catches up. About 457 000 states. |
| `page_parts` | one small instance of each part, fair | see `MCPage`: what is given is given once, secrets are hidden, what is shown is whole, every part comes to rest; what the page shows of a conversation of the device is right, and complete unless opening it broke off. About 792 000 states. |
| `late_poll` | two conversations, two commands, no lost answer | counterexample, see below |
| `rounds` | three rounds of up to two calls, one image per round, 24 old checkpoints | calls and outputs agree, no tool runs twice, images stay out of open rounds and only the latest is shown, the budget. Beside it `Swarm`, three tasks of one reply, a limit of two, two faults: a confirmed stop reaches what was submitted. About 1 019 000 states. |

*Bounds.* `Quota = 1` instead of 4 makes the semaphore run out with a single task or
borrower. Two turns in one conversation are the least for exclusion, overtaking and the
conflict paths; three failures in one turn let a lost commit be followed by a crash and a
failed last write. `MaxQuestions = 1`: a second question of a turn meets the same rows in
the same states, and the proofs cover every number. `BatchLimit = 1` makes a pass miss
rows. All of these are constants of the module, and the theorems hold for all of them.
`Engine`: three rounds are one that shows images, one that releases them and one more; two
calls with a choice of ids allow reuse of an id, and a pause before, between and after other
calls; one image per round is enough to misplace it. `Swarm`: three tasks of one reply under
a limit of two refuse a dispatch that is half recorded; two faults are a lost submission and
a drop, or a drop and a crash.

`Watch`: two notes with batches of one let a note starve the other; of two faults one can
lose an answer and the other the process. `Pipeline`: two paths are a file and its copy; two
events are a change and its undoing, or a change and a crash, between any two steps. `Chat`:
two handlers and the poll, each over its awaits; three events are two commands and a lost
answer, or a command, its loss and its repetition. `MCPage`: a window of one call with two
calls refuses one; two listeners and four moves let a drop be overtaken by another and by a
new subscription; two slots of operations overlap; three connections are one that closes, one
that is made and one that replaces both; three drawings of up to two messages, fetched one by
one, overlap; three providers, two at a time. The transcript has three turns, of which an
answer lists two, so that earlier ones are loaded; two selections are one that is overtaken by
another. Its other bounds are guards: `Paced` and `Patient` limit what is under way to two
messages before the device or the user goes on (an answer and the reports that overtake it),
and `Recent` says that fewer turns begin while a snapshot or a report is under way than one
answer lists (30 in the code): of more, `mergeTurns` would put those that were reported before
the snapshot behind the later ones it lists. The theorem keeps `Recent` and holds for every
value of the other bounds.

*Deadlock* is not checked: the messages, questions and failures of an instance are finite,
so an instance that has used them up stops, as the real system does when nobody sends. A
run of the engine ends by design.

*Fairness* (`FairSpec`). A spawned task, the worker and a handler in progress go on (WF:
the tokio scheduler polls what is ready). Whoever waits for the jobs mutex gets it although
others take it in between (SF: tokio's mutex queues its waiters). Backoffs end and the
process is started again (WF). The browser polls the thread that it shows generating (SF
on `Read`); nothing else would repair a row whose last write failed while the process
lives and no new message arrives. A task ends: it has a timeout (`generation.rs` 191-204).
In `Watch` and `Pipeline` the process goes on, launchd or the scheduler starts it again and
Memory answers (WF of `Steps`); time passes between rounds again and again, though a round
may be in progress whenever one looks (SF of `Elapse` and `Age`). On the page the service
answers, a refused or lost call ends at its timeout, and timers fire (WF of each handler's
answer); nothing is assumed of the user.
No fairness is given to users: nobody need answer, stop or send; nor to failures. In
`queue_liveness` nobody borrows the semaphore for ever: with `Quota = 1` and a borrower
that returns each time the worker looks, a message can be refused for ever, because
`try_acquire` does not queue.

### Counterexamples

* `lost_stop`. docs/device-orchestration.md:44 promises that stopping a task invalidates
  its question and that a late answer does not wake it. A stop takes the jobs mutex to
  cancel the token (there is none: the turn is waiting), releases it, and cancels the
  questions afterwards. An answer accepted between the two starts a task and leaves no
  pending question: the stop has nothing left to cancel, returns success, and the turn
  runs on. `StoppedRunStaysStopped`, the same promise for a turn that was generating,
  holds and is proved.
* `resumed_replay`. docs/device-orchestration.md:45 promises that a turn whose process
  dies after it was resumed stays interrupted and is not executed again. The intake row of
  the turn is marked by a statement after `respond` has returned. When the process dies
  before it (or the statement fails), the next process interrupts the turn and its worker
  then delivers the row again. `RepliesFinal` shows that this is the only way: settled
  replies of turns whose confirmations arrived never change.
* `late_poll`. A late answer must not replace the conversation the page has turned to
  (frontend/web/transport.js:50, and the comparison of epochs at app.js:733). The form of a
  new conversation shows what it created without advancing the epoch. A poll of the earlier
  conversation that is under way passes the comparison and puts that conversation back. The
  shortest trace ends there, before the page writes the new conversation into the address
  (app.js:453); if it has done so, or does so later, page and address disagree.
  `EventuallyFresh` still holds: what is shown is polled again, but it is not the conversation
  that was created.

## 4. Proofs

Every safety invariant and action property the runs check is proved for all values of the
constants.

| Module | Proves | Inductive invariant |
| --- | --- | --- |
| `ConversationProofs` | `Consistent` and every safety property of `Conversation` without a counterexample | `Consistent` (`ConversationInv`) |
| `ContractProofs` | `Conversation` implements `TurnContract` | `Consistent` |
| `EngineProofs` | `TypeOK`, `Ledger`, `ExecutedOnce`, `AnsweredBeforeShown`, `LatestImagesOnly`, `BudgetKept`; and, for the sum in `MCEngine`, `TasksKept` | `Whole` |
| `SwarmProofs` | `TypeOK`, `StopReaches`, `RecordedFirst` | `Kept` |
| `WatchProofs` | `TypeOK`, `SavedIsHeld`, `OneIdPerText` | `Kept` |
| `PipelineProofs` | `TypeOK`, `NothingLost`, `ExportBacked`, `CleanedIsHeld`, `CopyStays` | `Kept` |
| `ChatProofs` | `TypeOK`, `OneWriter`, `RecordedOnce`, `ClearedIsRecorded` | `Kept` |
| `PageProofs` | `GivenOnce`, `ShownWhole` and `TranscriptWhole` of `MCPage`: the bridge, connections, the dialog, the panel, the models, the drawings and the transcript | `PageKept` |

*Assumptions.* Only the named `ASSUME`s of the modules, which TLC evaluates in each run:
finite sets of requests, notes and paths (a database, a folder and a memory are finite),
natural bounds, batches that are not empty (constants of the code), deltas for the turns
`Transcript` begins with (`MaxText`, a bound), and `None` told from
whatever may stand where it stands. Paths are numbered (`PathsAssumption`) because the walk
visits them in an order. `SwarmAssumption` is an operator, since `Swarm` has no run of its
own; `MCEngine` assumes it of its instance. `CheckpointAssumption` is the only one about
data: what the old engine saved becomes, when it is upgraded, a list of items in which every
call has its output. TLC evaluates it on 24 checkpoints. It is assumed because the upgrade
concatenates the items of any number of messages, and induction over data is out of the
prover's reach; everything the engine does to the list afterwards is proved.

### Conversation

None of the properties is inductive alone. `JobsInv` ties each entry of
the map to an existing turn of its conversation and says that a stopping server has only
cancelled tasks; `WorkerInv` and `QueueInv` say that the row in the worker's hands has not
been marked and that a turn not yet marked, by a worker that is not about to, is still
queued (so that starting it overwrites nothing); `AskedInv` says that while an answer holds
the mutex its conversation has no task (so that committing it does not replace one);
`ServerInv` says that a process that is down has neither; `StopInv` says of every stop in
progress, not only of those that returned, that its turn is quiet (so that returning adds
nothing). `PermitAccounting` needs that `Working` is exactly what holds a permit, and rests
on three lemmas about `Cardinality`. The refinement has one lemma per action that the
contract can see, and `Stutters` for the rest.

### Engine and device tasks

`Whole` says of the items what the three properties of `messages` say (`Sound`), but of the
items as they will be upgraded: a run that waits for its user may hold an old checkpoint,
and the upgrade at its resumption must find what the loop left. The lemmas are about
sequences: what an output, a call, an image or a release adds keeps the agreement of calls
and outputs, which is stated by counting those before each place, so that it can be carried
through an append. `InRound` says which phases have calls to answer; `RunsBefore` says that
what ran belongs to an earlier round or is not among the calls that wait, which is why a
response may use an id again. `BudgetKept` and the types come with them.

`Kept` of `SwarmProofs` adds to the two properties what holds while a request is on its way:
what is submitted or about to be has a record (`SentRecorded`), what a receipt says has ended
has ended at the host (`ReceiptsTrue`), what a stop in progress has not left to ask is reached
(`StopUnderWay`, so that its return covers nothing unreached), and nothing moves in a
conversation that is deleted (`DeletedRests`). `Counted` says that the limit is counted over
a finite set. That a stop goes through a fixed set of records is sound only because it holds
the mutex a dispatch needs. `MCEngine` lets one of the two modules move: each theorem of the
sum follows from the invariant of its part and a step that leaves the other alone.

### Command line

`SavedIsHeld` compares a record with Memory and with a note that may be edited at any
moment. `Kept` of `WatchProofs` needs, beyond it, that an id stands for one text in all the
places that carry it (`OneTextPerId`: records on disk and in memory, captures in flight and
received; an answer that arrives late can then be taken for its text), that whatever carries
the note's time carries its text (`AllDated`: the filter on times passes over no edit), that
a round works on the state of the user who is logged in and leaves nothing in memory (`InRound`), and that what was sent
last is still known by its record (`SentFollowed`, for `OneIdPerText`).

`Kept` of `PipelineProofs` follows one note through the run: what its steps may still rely on
after the user, Memory or another export has intervened. `Exported` and `NotNewer` order the
versions of manifest, wiki files and source; `Permitted` says that what is about to move was
held in this run; `CopyThere` says that a duplicate to be moved has a copy that was read
again, or the user touched it; `Taken` says that what is checked after the move is in the
trash, and that a file at its path when it is given back came late: giving it back then loses
nothing but what `NothingLost` leaves out. That the copy which stays is well defined
(`CanonicalHolds`) rests on the least element of a set of naturals, from the library's
well-foundedness of finite sets.

### Conversation page

`Kept` of `ChatProofs` says of every handler that waits what it may rely on when its answer
comes (`Sound`): the conversations it names exist, its answer is about the one it asked for,
a text being sent is the composer's or was cleared. `Single` is the page's only mutual
exclusion: `busy` is true exactly while one handler writes. `Named` is about the submissions
that are recorded, on their way, to be confirmed or about to be sent (`Carried`): numbers are
drawn in order (`Numbered`), a number stands for one text, a text that the page did not turn
away from has one submission (`OneText`, `OneSubmission`), the one in the composer is the one
to be confirmed (`Composed`), and one whose conversation is still being created has none yet
(`Unsent`). `RecordedOnce` is `OneSubmission` for what is recorded.

The search for `Kept` showed that `moved` had left out the page's turns by a late answer of a
stop, a poll or a selection: `RecordedOnce` then failed in behaviours longer than those of the
run. The page turns there as it does by a command, and loses the request id of what it was
sending; `Turned` is now part of each of these steps.

### Parts of the page

`PageKept` has one inductive invariant per part; `PartsMove` says that a step of the page is a
step of one part and leaves the others alone. `BridgeKept` follows the drops from the frame to
the listener: of those being read only the last is still valid, and it is later than all that
were sent or given (`ReadLast`), those sent arrive after those given, in their order
(`GivenInOrder`). For the limits on calls it says that the host counts what the service works
on, since a request is under way once and is not taken again (`CallsOnce`). `DialogKept` counts
the reveals that are awaited: each was begun by the user, which bounds the timers. `CloudKept`
says that an approval the page lists was asked for and not answered (`Listed`). `PanelKept`
bounds the reads of the graph by the uses; the types are not inductive without it. `ModelsKept`
says that a search asks and lists only providers it knows; that a list is whole when nothing is
left to ask follows from `NearestSome`: while a provider is open, one is asked. `NearestFew`
bounds how many. `DrawingKept` says that a drawing has, as far as it came, the fragments of its
own data, whatever the cache held (`Follows`, `Faithful`), and that the drawing of the current
version, if any, is of the latest data.

### Transcript

What the page shows and what the device has agree only when nothing is under way; the
invariant `TranscriptKept` says how they differ until then. The messages to the page tell
through which states the device went (`WentThrough`): there is a sequence of devices, one longer
than the messages, each message `Reports` the step from one to the next, and the last is the
device as it is. An error, an answer, or the answer to a start that was given up reports no
step. The page shows the *first* of them (`Shows`): its latest turns in a row, each `Agrees`
with that device as far as it is known, and once the conversation is loaded it is known in full,
back to `earlier`. Of a conversation whose opening broke off only the first part is claimed. A
message that is received moves the page to the next device (`EventShows`, `ReadShows`,
`EarlierShows`); a step of the device, or its answer, adds a device at the end (`TellsMore`).
With no message under way the first is the last, which is `TranscriptWhole`. When no
connection is open there are no messages either, and the page shows some device of the past.

More is needed while a conversation is shown on an open connection (`Live`). At most one call
that opens it is pending, and it was made for what is shown now (`OnePending`, `Fits`): an
answer to an earlier selection, or to a call that was given up, is dropped, and the one that is
accepted finds what it was asked for. Earlier turns may be asked for again while they are under
way, so their answers may overlap: each lists the turns up to those that are shown or beyond,
and a later answer never begins after an earlier one (`EarlierJoins`, `EarlierOrdered`). The
snapshot lists the turns just before those that were reported meanwhile, so that joining both
leaves no gap (`ReportsNear`, `Near`); this is where the bound `Recent` is used. The answer to a
start comes just before the report of the turn (`StartsPaired`), so that it may be dropped. And
the last turn is the only one that changes (`Changes`), so that a report is combined with a turn
in its place.

`mergeTurns` is a loop; `Merged` states what it leaves: the turns in their places, each
combined with the one of its id, followed by those that are not known. That is so as long as
no turn is twice in either argument, which `Shows` and `ListingIs` establish for every merge that
happens. The lemmas about it (`MergedKnown`, `MergedNext`, `MergedOne`) say what it does to
rows of consecutive turns.

*Layout.* One lemma per action (`ReceiveKeeps`, `FinishKeeps`, ...) with one step per
conjunct the action can disturb; `NextKeeps` collects them by cases of `Next`; the
theorems are `PTL` steps over it. Each module begins with the lemmas about its data that
several actions need: counting and sequences (`EngineProofs`), finite sets (`SwarmProofs`),
files and inodes (`PipelineProofs`), handlers and submissions (`ChatProofs`, where
`StepKeeps`, `GoKeeps` and `EndKeeps` say what a handler's step leaves alone), numbers and
rows of turns (`PageProofs`).

*Only model-checked:* the soundness of upgraded checkpoints, as said; and liveness
(`Delivered`, `Settles`, `StopsReturn`, `EventuallyCaptured`, `EventuallyVerified`,
`EventuallyFresh`, `ComesToRest`), which is out of the prover's reach, as is any use of
ENABLED. The three counterexamples are TLC's.

## 5. Not modelled

* Device tools but for the dispatch of a desktop action, metering, the skill store and the
  compilation worker: the backend's remaining state, next in the plan.
* Web search, transport, configuration, page rendering, the CLI's dispatch: no state of
  their own, or pure input and output.
* Forks, reverts and archived conversations of a device (native-workspace.js:196-265).
* In the parts that are modelled: the limits in bytes and rows, the wording of messages and
  questions, attachments, menus and keyboard handling, the focus, scroll position and open
  sections that a drawing preserves, the discovery of a transport on the local network, the
  conversion of a device's items into messages.
* `Cloud` reaches a state no property forbids: a device switch that waits for `old.close()`
  (app.js:344) goes on although a second switch has made its connection meanwhile, replaces
  `state.cloud` by its own and then closes that one as outdated. The connection of the second
  switch stays open and is no longer the page's.
* `Cloud` reaches another: the dialog of an approval stays open when the user changes the
  device, and its buttons answer by the bare id of the request (dialogs.js:178-213) over the
  connection the page has by then. If the other device has a request of the same id, the user
  answers that one, having read the first. `AnsweredOnce` counts the answers of each connection
  and request: no request is answered twice, but one may get the answer meant for another.
* `Dialogs` reaches a state that frontend/web/README.md:7 and the comment at
  native-workspace.js:29 exclude: answers for files and asynchronous dialogs are bound, they say,
  to the device and page version they were begun with. `restore` opens the panel of files,
  awaits its first fragment (75) and only then reads the version of the dialog it will compare
  (76). A user who closes the panel during that await sees it open again when the files are read
  (110-111); one who opened another dialog loses it to the panel.
* A conversation created on a device (`newThread`, app.js:404-422) is shown without a new epoch,
  as in `late_poll`: the answers of a selection or of earlier turns that are under way are merged
  into it. `Transcript` has one conversation and does not model this.
* `Swarm` reaches another: a task that was recorded and never submitted (the limit was reached
  in the middle of a dispatch, or it was dropped) is unknown to the host, which refuses to stop
  it. Every later stop of the conversation is then an error, and it cannot be deleted, unless
  the same work is dispatched again; at the limit that is refused too.
* Two late answers of the same read may arrive out of order (the graph in dialogs.js:715, a
  list of models in app.js:134): the older one then stays until the next read. No document
  promises otherwise, so no property says so; `ListWhole` says that either list is complete.

## 6. Plan

In order, each with its abstract specification and its theorems:

1. `Compile`: leases with expiry and pre-emption by messages.
2. `Skills`: compare-and-set with tombstones, refining a map of registers.
3. `Intake` limits and `protect_history`, device and workspace selection against `answer`.
4. `Chat` over `TurnContract` instead of its own service.
5. Metering against crashes; stream assembly and history selection as pure operators.
