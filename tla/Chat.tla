-------------------------------- MODULE Chat --------------------------------
(***************************************************************************)
(* The page of an ordinary conversation (app.js, interactions.js): the     *)
(* conversation shown, the one the address names, the draft, and the       *)
(* handlers that choose, create, send, stop and poll.  A handler runs      *)
(* until it awaits an answer; other handlers run meanwhile, and what they  *)
(* changed is there when it goes on.                                       *)
(*                                                                         *)
(* The service is seen through its answers: the texts a conversation has   *)
(* recorded, and whether one is queued or being answered.  A text is typed *)
(* once, so that recording it twice is recording a message twice.          *)
(*                                                                         *)
(* A definition introduced with "As if" is not part of the model: it is the *)
(* next one with a plausible mistake, kept to see which property notices.  *)
(***************************************************************************)
EXTENDS Integers, FiniteSets

CONSTANTS
  Ids,          \* conversations
  Initial,      \* those that exist when the page opens
  None,
  MaxTyped,     \* bound: texts the user types
  Lossy,        \* an answer may never come
  MaxEvents     \* bound: what the user asks of the page, and answers that never come

ASSUME IdsAssumption == Initial \subseteq Ids
ASSUME BoundsAssumption == {MaxTyped, MaxEvents} \subseteq Nat /\ Lossy \in BOOLEAN

VARIABLES
  conv,         \* the conversations of the service
  mail,         \* messages whose sender gave up, still on their way
  shown,        \* state.thread: the conversation on the page, as last answered
  draft,        \* the text in the composer, 0 when empty
  pending,      \* state.pending: the submission that is not confirmed
  busy,         \* state.busy
  url,          \* the conversation the address names
  navigating, following,
  task,         \* the handlers that wait for an answer
  polling,      \* "waiting" for the page to open, then "on", or "never"
  typed, events,
  requests,     \* request ids made so far
  moved         \* history: texts that were in the composer or on their way when the
                \* page turned to another conversation

page == <<shown, draft, pending, busy, url, navigating, following, polling>>
limits == <<typed, events, requests>>
vars == <<conv, mail, page, task, limits, moved>>

Slots == {1, 2}                 \* handlers of the user
Poller == 0                     \* the timer of the poll
Handlers == Slots \cup {Poller}
First == 1                      \* the slot of the handler that opens the page
Texts == 1..MaxTyped
MaxRequests == MaxEvents
Message == [text : Texts, request : 1..MaxRequests]
Conversation == [posts : SUBSET Message, queued : BOOLEAN, running : BOOLEAN]
Thread == [id : Ids, posts : SUBSET Message, queued : BOOLEAN, running : BOOLEAN]
Prompt == [id : Ids, text : Texts, request : 1..MaxRequests]

Task == [kind : {"select", "restore", "send", "create", "stop", "poll"},
         at : {"get", "spaces", "create", "open", "list", "host", "draw",
               "post", "reread", "wrap", "cancel"},
         id : Ids \cup {None},          \* the conversation asked about
         text : 0..MaxTyped, request : 0..MaxRequests,  \* what a send submits
         fresh : BOOLEAN,               \* state.epoch is still the one it started in
         data : Thread \cup {None}]     \* the answer, once the service gave it

ASSUME NoneAssumption == None \notin Ids \cup Conversation \cup Thread \cup Prompt \cup Task

TypeOK ==
  /\ conv \in [Ids -> Conversation \cup {None}]
  /\ mail \subseteq Prompt
  /\ shown \in Thread \cup {None} /\ draft \in 0..MaxTyped
  /\ pending \in Prompt \cup {None}
  /\ url \in Ids \cup {None} /\ {busy, navigating, following} \subseteq BOOLEAN
  /\ task \in [Handlers -> Task \cup {None}]
  /\ polling \in {"waiting", "on", "never"}
  /\ typed \in 0..MaxTyped /\ events \in 0..MaxEvents
  /\ requests \in 0..MaxRequests
  /\ moved \subseteq Texts

-----------------------------------------------------------------------------
(* The service.                                                             *)

Exists(c) == c \in Ids /\ conv[c] # None

\* As if the answers of the service did not name their conversation.
Unnamed(c) == conv[c]
Snapshot(c) == [id |-> c, posts |-> conv[c].posts,
                queued |-> conv[c].queued, running |-> conv[c].running]

\* A message is recorded unless its request id already was.
Recorded(c, prompt) ==
  IF \E m \in conv[c].posts : m.request = prompt.request THEN conv[c]
  ELSE [conv[c] EXCEPT !.posts = @ \cup {[text |-> prompt.text, request |-> prompt.request]},
                       !.queued = TRUE]

\* The queued message is captured and answered; the answer ends.
Advance(c) ==
  /\ Exists(c)
  /\ \/ conv[c].queued /\ ~conv[c].running
        /\ conv' = [conv EXCEPT ![c].queued = FALSE, ![c].running = TRUE]
     \/ conv[c].running /\ conv' = [conv EXCEPT ![c].running = FALSE]
  /\ UNCHANGED <<mail, page, task, limits, moved>>

\* A message arrives after the page stopped waiting for its answer.
Arrive(prompt) ==
  /\ prompt \in mail
  /\ mail' = mail \ {prompt}
  /\ conv' = [conv EXCEPT ![prompt.id] = Recorded(prompt.id, prompt)]
  /\ UNCHANGED <<page, task, limits, moved>>

-----------------------------------------------------------------------------
(* Handlers.                                                                *)

Handler(kind, at, id) == [kind |-> kind, at |-> at, id |-> id, text |-> 0, request |-> 0,
                          fresh |-> TRUE, data |-> None]
Begin(h, kind, at, id) == task' = [task EXCEPT ![h] = Handler(kind, at, id)]
Go(h, at) == task' = [task EXCEPT ![h].at = at, ![h].data = None]
Answered(h, at) == task[h] # None /\ task[h].at = at /\ task[h].data # None
At(h, at) == task[h] # None /\ task[h].at = at

\* The answers that compare epochs and are still awaited now belong to an earlier one.
Invalidated == [h \in Handlers |->
                  IF At(h, "get") THEN [task[h] EXCEPT !.fresh = FALSE] ELSE task[h]]

Interrupted == moved \cup (({draft} \cup {task[h].text : h \in {i \in Slots : task[i] # None}}) \ {0})

\* The page shows an answer: it may turn it to another conversation than the one it showed.
IdOf(thread) == IF thread = None THEN None ELSE thread.id
Turned(thread) == IF IdOf(thread) = IdOf(shown) THEN moved ELSE Interrupted

\* A conversation is chosen: the draft and the submission are dropped and it is read.
Choose(h, kind, id) ==
  /\ task' = [Invalidated EXCEPT ![h] = Handler(kind, "get", id)]
  /\ draft' = 0 /\ pending' = None /\ moved' = Interrupted

\* The address names no conversation: none is shown.
Leave(h) ==
  /\ Begin(h, "restore", "draw", None)
  /\ shown' = None /\ moved' = Interrupted /\ UNCHANGED <<draft, pending>>

\* The address is followed, from the conversation on the page that is thread.
Restore(h, thread) ==
  /\ following' = TRUE
  /\ IF url # None
     THEN Choose(h, "restore", url) /\ shown' = thread
     ELSE Leave(h)

\* As if a command that fails left the page busy.
KeepsBusy(h, failed) == busy /\ (task[h].kind \notin {"send", "create"} \/ failed)
StaysBusy(h, failed) == busy /\ task[h].kind \notin {"send", "create"}

\* A handler ends, its finally clauses with it; following the address starts
\* again when it has changed meanwhile.
End(h, thread, failed) ==
  /\ busy' = StaysBusy(h, failed)
  /\ IF task[h].kind = "restore" /\ url # task[h].id /\ ~navigating
     THEN Restore(h, thread)
     ELSE /\ task' = [task EXCEPT ![h] = None]
          /\ following' = (following /\ task[h].kind # "restore")
          /\ shown' = thread /\ moved' = Turned(thread) /\ UNCHANGED <<draft, pending>>
  /\ polling' = IF h = First /\ polling = "waiting"
                THEN (IF failed THEN "never" ELSE "on") ELSE polling

\* The address is made to name id; the host answers later.
Navigate(h, id, then) ==
  /\ url' = id
  /\ IF url = id THEN Go(h, then) /\ UNCHANGED navigating
                 ELSE Go(h, "host") /\ navigating' = TRUE

-----------------------------------------------------------------------------
(* What the user does.                                                      *)

Event == events < MaxEvents /\ events' = events + 1

\* The user asks for something; the handler takes the first slot that is free.
Ask(h) == task[h] = None /\ (\A i \in 1..(h - 1) : task[i] # None) /\ Event
Waiting == shown # None /\ (shown.queued \/ shown.running)

Type ==
  /\ draft = 0 /\ ~busy /\ typed < MaxTyped
  /\ typed' = typed + 1 /\ draft' = typed'
  /\ UNCHANGED <<conv, mail, shown, pending, busy, url, navigating, following, polling,
                 task, events, requests, moved>>

\* A conversation is picked in the history.
Select(h, id) ==
  /\ Ask(h) /\ ~busy /\ Exists(id)
  /\ Choose(h, "select", id)
  /\ UNCHANGED <<conv, mail, shown, busy, url, navigating, following, polling, typed, requests>>

\* The browser goes back or forward.
Back(h, id) ==
  /\ Ask(h) /\ id # url /\ id \in {None} \cup {c \in Ids : Exists(c)}
  /\ url' = id
  /\ IF navigating \/ following
     THEN UNCHANGED <<task, following, shown, draft, pending, moved>>
     ELSE /\ following' = TRUE
          /\ IF id # None THEN Choose(h, "restore", id) /\ UNCHANGED shown ELSE Leave(h)
  /\ UNCHANGED <<conv, mail, busy, navigating, polling, typed, requests>>

\* As if sending did not look whether something is being sent.
SendAnyway == draft # 0 /\ ~Waiting
MaySend == ~busy /\ draft # 0 /\ ~Waiting

\* Also a plausible mistake for Submission: as if every submission had a new request id.
NewPrompt(id, text) == [id |-> id, text |-> text, request |-> requests + 1]
\* A text that is not confirmed is submitted again under its request id.
Submission(id, text) ==
  IF pending # None /\ pending.id = id /\ pending.text = text THEN pending
  ELSE NewPrompt(id, text)

\* As if the composer was emptied as soon as the message is on its way.
Emptied == 0
DraftWhileSending == draft

\* The text is submitted to the conversation shown.
Submit(h, text) ==
  LET prompt == Submission(shown.id, text)
  IN  /\ pending' = prompt
      /\ requests' = IF prompt.request > requests THEN prompt.request ELSE requests
      /\ draft' = DraftWhileSending
      /\ task' = [task EXCEPT ![h] = [Handler("send", "post", shown.id) EXCEPT
                                       !.text = text, !.request = prompt.request]]

Send(h) ==
  /\ Ask(h) /\ MaySend /\ shown # None
  /\ busy' = TRUE
  /\ Submit(h, draft)
  /\ UNCHANGED <<conv, mail, shown, url, navigating, following, polling, typed, moved>>

\* A message is sent and no conversation is shown, or the form of a new one is sent.
Create(h, kind) ==
  /\ Ask(h)
  /\ IF kind = "send" THEN MaySend /\ shown = None ELSE ~busy
  /\ busy' = TRUE
  /\ task' = [task EXCEPT ![h] = [Handler(kind, "create", None) EXCEPT
                                   !.text = IF kind = "send" THEN draft ELSE 0]]
  /\ moved' = IF kind = "create" THEN Interrupted ELSE moved
  /\ UNCHANGED <<conv, mail, shown, draft, pending, url, navigating, following, polling,
                 typed, requests>>

Stop(h) ==
  /\ Ask(h) /\ shown # None /\ shown.running
  /\ Begin(h, "stop", "cancel", shown.id)
  /\ UNCHANGED <<conv, mail, page, typed, requests, moved>>

Poll ==
  /\ polling = "on" /\ task[Poller] = None /\ ~busy /\ shown # None
  /\ Begin(Poller, "poll", "get", shown.id)
  /\ UNCHANGED <<conv, mail, page, limits, moved>>

-----------------------------------------------------------------------------
(* What the service answers.                                                *)

Unanswered(h, at) == task[h] # None /\ task[h].at = at /\ task[h].data = None

Read(h) ==
  /\ \E at \in {"get", "open", "reread"} : Unanswered(h, at)
  /\ task' = [task EXCEPT ![h].data = Snapshot(task[h].id)]
  /\ UNCHANGED <<conv, mail, page, limits, moved>>

\* The conversation is created; its name is answered and it is read.
MakeConversation(h) ==
  /\ Unanswered(h, "create")
  /\ \E id \in Ids :
       /\ ~Exists(id)
       /\ conv' = [conv EXCEPT ![id] = [posts |-> {}, queued |-> FALSE, running |-> FALSE]]
       /\ task' = [task EXCEPT ![h].at = "open", ![h].id = id]
  /\ UNCHANGED <<mail, page, limits, moved>>

\* The service refuses another conversation.
RefuseConversation(h) ==
  /\ Unanswered(h, "create") /\ \A id \in Ids : Exists(id)
  /\ End(h, shown, TRUE)
  /\ UNCHANGED <<conv, mail, url, navigating, limits>>

\* The message is recorded; the conversation is read again.
Record(h) ==
  /\ Unanswered(h, "post")
  /\ conv' = [conv EXCEPT ![task[h].id] = Recorded(task[h].id, task[h])]
  /\ Go(h, "reread")
  /\ UNCHANGED <<mail, page, limits, moved>>

Cancel(h) ==
  /\ Unanswered(h, "cancel")
  /\ conv' = [conv EXCEPT ![task[h].id].running = FALSE]
  /\ task' = [task EXCEPT ![h].data = [Snapshot(task[h].id) EXCEPT !.running = FALSE]]
  /\ UNCHANGED <<mail, page, limits, moved>>

\* An answer does not come: the handler fails.  A message may still arrive.
Lose(h) ==
  /\ Lossy /\ Event
  /\ task[h] # None
  /\ End(h, shown, TRUE)
  /\ navigating' = (navigating /\ task[h].at # "host")
  /\ \/ mail' = mail
     \/ At(h, "post") /\ mail' = mail \cup
          {[id |-> task[h].id, text |-> task[h].text, request |-> task[h].request]}
  /\ UNCHANGED <<conv, url, typed, requests>>

-----------------------------------------------------------------------------
(* What a handler does with an answer.                                      *)

\* The conversation chosen is shown, unless another was chosen meanwhile.
Selected(h) ==
  /\ Answered(h, "get") /\ task[h].kind \in {"select", "restore"}
  /\ \/ ~task[h].fresh
        /\ End(h, shown, FALSE) /\ UNCHANGED <<url, navigating>>
     \/ task[h].fresh
        /\ shown' = task[h].data /\ moved' = Turned(task[h].data)
        /\ Go(h, IF task[h].kind = "select" THEN "spaces" ELSE "draw")
        /\ UNCHANGED <<draft, pending, busy, url, navigating, following, polling>>
  /\ UNCHANGED <<conv, mail, limits>>

\* The projects of its device are known, if it has one: the address follows.
Placed(h) ==
  /\ At(h, "spaces")
  /\ IF url = task[h].id
     THEN End(h, shown, FALSE) /\ UNCHANGED <<url, navigating>>
     ELSE /\ Navigate(h, task[h].id, "draw")
          /\ UNCHANGED <<shown, draft, pending, busy, following, polling, moved>>
  /\ UNCHANGED <<conv, mail, limits>>

Polled ==
  /\ Answered(Poller, "get")
  /\ End(Poller, IF task[Poller].fresh THEN task[Poller].data ELSE shown, FALSE)
  /\ UNCHANGED <<conv, mail, url, navigating, limits>>

\* The new conversation is shown; its settings are stored and the list is read.
Opened(h) ==
  /\ Answered(h, "open")
  /\ shown' = task[h].data /\ Go(h, "list")
  /\ UNCHANGED <<conv, mail, draft, pending, busy, url, navigating, following, polling,
                 limits, moved>>

Listed(h) ==
  /\ At(h, "list")
  /\ Navigate(h, IdOf(shown), "draw")
  /\ UNCHANGED <<conv, mail, shown, draft, pending, busy, following, polling, limits, moved>>

Hosted(h) ==
  /\ At(h, "host")
  /\ navigating' = FALSE
  /\ IF task[h].kind = "select" THEN End(h, shown, FALSE)
     ELSE /\ Go(h, "draw")
          /\ UNCHANGED <<shown, draft, pending, busy, following, polling, moved>>
  /\ UNCHANGED <<conv, mail, url, limits>>

\* The page is drawn: a handler ends, or sends what it created a conversation for.
Drawn(h) ==
  /\ At(h, "draw")
  /\ IF task[h].kind = "send" /\ shown # None
     THEN /\ Submit(h, task[h].text)
          /\ UNCHANGED <<shown, busy, following, polling, moved>>
     ELSE End(h, shown, task[h].kind = "send") /\ UNCHANGED requests
  /\ UNCHANGED <<conv, mail, url, navigating, typed, events>>

\* The message is confirmed: its conversation is shown and the composer emptied.
Sent(h) ==
  /\ Answered(h, "reread")
  /\ shown' = task[h].data /\ pending' = None /\ draft' = 0
  /\ Begin(h, "send", "wrap", None)
  /\ UNCHANGED <<conv, mail, busy, url, navigating, following, polling, limits, moved>>

Wrapped(h) ==
  /\ At(h, "wrap") /\ End(h, shown, FALSE)
  /\ UNCHANGED <<conv, mail, url, navigating, limits>>

Stopped(h) ==
  /\ Answered(h, "cancel")
  /\ End(h, task[h].data, FALSE)
  /\ UNCHANGED <<conv, mail, url, navigating, limits>>

-----------------------------------------------------------------------------

\* The page has loaded its lists: it shows the first conversation, or follows the address.
Init ==
  /\ conv = [c \in Ids |-> IF c \in Initial THEN [posts |-> {}, queued |-> FALSE, running |-> FALSE]
                           ELSE None]
  /\ mail = {} /\ shown = None /\ draft = 0 /\ pending = None /\ busy = FALSE
  /\ url \in Initial \cup {None} /\ navigating = FALSE /\ polling = "waiting"
  /\ \E kind \in {"select", "restore"}, at \in {"get", "draw"}, id \in Initial \cup {None} :
       /\ (kind = "select") <=> (url = None /\ Initial # {})
       /\ (at = "get") <=> (id # None)
       /\ url # None => id = url
       /\ kind = "select" => id # None
       /\ following = (kind = "restore")
       /\ task = [h \in Handlers |-> IF h = First THEN Handler(kind, at, id) ELSE None]
  /\ typed = 0 /\ events = 0 /\ requests = 0
  /\ moved = {}

Command(h) ==
  \/ \E id \in Ids : Select(h, id)
  \/ \E id \in Ids \cup {None} : Back(h, id)
  \/ Send(h) \/ Stop(h)
  \/ \E kind \in {"send", "create"} : Create(h, kind)

Serve(h) == Read(h) \/ MakeConversation(h) \/ RefuseConversation(h) \/ Record(h) \/ Cancel(h)

Continue(h) ==
  \/ Selected(h) \/ Placed(h) \/ Opened(h) \/ Listed(h) \/ Hosted(h)
  \/ Drawn(h) \/ Sent(h) \/ Wrapped(h) \/ Stopped(h)

Next ==
  \/ Type \/ Poll \/ Polled
  \/ \E c \in Ids : Advance(c)
  \/ \E prompt \in mail : Arrive(prompt)
  \/ \E h \in Slots : Command(h) \/ Continue(h)
  \/ \E h \in Handlers : Serve(h) \/ Lose(h)

Spec == Init /\ [][Next]_vars

\* The service answers, the timer of the poll fires, and an answer is handled.
Fairness ==
  /\ WF_vars(Poll)
  /\ WF_vars(\E c \in Ids : Advance(c))
  /\ WF_vars(\E prompt \in mail : Arrive(prompt))
  /\ WF_vars(Serve(Poller) \/ Polled)
  /\ \A h \in Slots : WF_vars(Serve(h) \/ Continue(h))

FairSpec == Spec /\ Fairness

-----------------------------------------------------------------------------
(* Properties.                                                              *)

\* A message is recorded at most once, however often its answer is lost and it is sent
\* again, unless the page turned to another conversation meanwhile (app.js 492-499: the
\* submission that is not confirmed keeps its request id).
RecordedOnce ==
  \A c \in Ids, text \in Texts \ moved :
    Exists(c) => Cardinality({m \in conv[c].posts : m.text = text}) <= 1

\* The page is busy exactly while one message is being sent or one conversation created:
\* no second one starts before the first is confirmed, and none leaves the page busy
\* (app.js 472-507, interactions.js 66-77 and 248-269).
OneWriter ==
  LET writers == {h \in Slots : task[h] # None /\ task[h].kind \in {"send", "create"}}
  IN  Cardinality(writers) <= 1 /\ (busy <=> writers # {})

\* A text leaves the composer only when its conversation has recorded it, or because
\* the page turned to another conversation (app.js 500-502, 236).
ClearedIsRecorded ==
  [][draft # 0 /\ draft' # draft /\ draft \notin moved' =>
       \E c \in Ids : Exists(c) /\ \E m \in conv[c].posts : m.text = draft]_vars

\* Once the page polls, what it shows is in the end what the service holds: no late
\* answer, failure or interrupted command leaves an old answer on it (app.js 726-746).
EventuallyFresh ==
  <>[](polling = "on" /\ shown # None => shown = Snapshot(shown.id))

\* transport.js 50 ("过期响应不能覆盖已切换的会话": an outdated response must not overwrite the
\* conversation switched to): an answer to the poll never replaces the conversation on
\* the page by another one.
PollKeepsConversation ==
  [][task[Poller] # None /\ task'[Poller] = None /\ shown # None => IdOf(shown') = IdOf(shown)]_vars
=============================================================================
