----------------------------- MODULE Transcript -----------------------------
(***************************************************************************)
(* The conversation of a cloud computer as the page shows it (cloud.js     *)
(* mergeTurns, applyEvent and history; app.js select and send): a snapshot *)
(* of its turns that is asked for while events of the same turns already   *)
(* arrive, earlier turns that are added later, and the page's own turn.    *)
(* Every call may be answered with an error, be given up after forty       *)
(* seconds, or be lost with the connection.                                *)
(*                                                                         *)
(* A turn has one item, whose text is the sequence of its deltas.  The     *)
(* device answers and reports over one connection, in order; it starts a   *)
(* turn for a connection that has resumed the conversation, and answers    *)
(* the start before it reports on the turn.                                *)
(*                                                                         *)
(* A definition introduced with "As if" is not part of the model: it is the *)
(* next one with a plausible mistake, kept to see which property notices.  *)
(***************************************************************************)
EXTENDS Integers, Sequences, FiniteSets

CONSTANTS
  None,
  MaxTurns,     \* bound of the turns of the conversation
  Before,       \* how many it may have at first
  MaxText,      \* bound of the deltas of an item, of which a turn has one at first
  MaxSelections,\* bound of the times the conversation is opened
  PageOfTurns,  \* turns of one answer (30)
  MaxUnderWay   \* bound of the messages under way before the device or the user goes on

\* What an instance must satisfy.
TranscriptAssumption ==
  /\ {MaxTurns, MaxText, MaxSelections, MaxUnderWay} \subseteq Nat
  /\ Before \subseteq 0..MaxTurns /\ MaxText # 0 /\ PageOfTurns \in Nat \ {0}
  /\ None \notin {"", "active", "idle", "failed", "running", "done"}

VARIABLES
  device,    \* the turns on the device: how much text, whether it reported it whole
  subscribed,\* the device reports to this connection
  connected, \* the connection is open
  toDevice, toPage, \* messages under way
  selection, \* state.epoch: how often the conversation was opened
  selecting, \* select is under way: the status of the answer to resume, "" before it;
             \* or it broke off: "failed"
  shown,     \* state.native
  partial    \* history: turns whose text was joined in the middle

vars == <<device, subscribed, connected, toDevice, toPage, selection, selecting, shown, partial>>
page == <<selection, selecting, shown, partial>>

Turns == 1..MaxTurns
Text(n) == [i \in 1..n |-> i]
Active == \E t \in DOMAIN device : ~device[t].done
Status == IF Active THEN "active" ELSE "idle"

TypeOK ==
  /\ \A t \in DOMAIN device : device[t].text \in 0..MaxText /\ device[t].done \in BOOLEAN
  /\ {subscribed, connected} \subseteq BOOLEAN /\ selection \in 0..MaxSelections
  /\ selecting \in {None, "", "active", "idle", "failed"}
  /\ shown # None =>
       /\ shown.status \in {None, "active", "idle"} /\ shown.earlier \in 0..MaxTurns
       /\ \A i \in DOMAIN shown.turns :
            shown.turns[i].turn \in Turns /\ shown.turns[i].status \in {None, "running", "done"}
  /\ partial \subseteq Turns

-----------------------------------------------------------------------------
(* Merging.                                                                 *)

\* As if the text that comes later always replaced the one that was there.
LaterText(before, after) == after
\* A report that holds no text leaves the text that was received.
FullerText(before, after) == IF after = <<>> THEN before ELSE after

Combined(before, after) ==
  [turn |-> before.turn,
   status |-> IF after.status = None THEN before.status ELSE after.status,
   text |-> IF after.item THEN FullerText(before.text, after.text) ELSE before.text,
   item |-> before.item \/ after.item]

\* Where a turn is, 0 if it is not known.
Place(turns, t) ==
  LET places == {i \in DOMAIN turns : turns[i].turn = t}
  IN  IF places = {} THEN 0 ELSE CHOOSE i \in places : TRUE

\* Turns that are not known, in their order.
Unknown(before, after) ==
  LET new == {i \in DOMAIN after : Place(before, after[i].turn) = 0}
      Nth(n) == CHOOSE i \in new : Cardinality({other \in new : other <= i}) = n
  IN  [n \in 1..Cardinality(new) |-> after[Nth(n)]]

\* Turns that are known are combined in their place, others follow.  No turn is twice in
\* either argument.
Merged(before, after) ==
  LET With(turn) == LET at == Place(after, turn.turn)
                    IN  IF at = 0 THEN turn ELSE Combined(turn, after[at])
  IN  [i \in 1..Len(before) |-> With(before[i])] \o Unknown(before, after)

\* What the page holds of a turn, of which nothing or something is known.
Known(t) ==
  LET at == Place(shown.turns, t)
  IN  IF at = 0 THEN [turn |-> t, status |-> None, text |-> <<>>, item |-> FALSE]
      ELSE shown.turns[at]

\* The turn as the device would list it.
Listed(t) ==
  [turn |-> t, status |-> IF device[t].done THEN "done" ELSE "running",
   text |-> Text(device[t].text), item |-> device[t].text > 0]

-----------------------------------------------------------------------------
(* The device.                                                              *)

Report(message) == toPage' = IF subscribed THEN Append(toPage, message) ELSE toPage

\* Messages that answer a call, and those about a turn.
Answers == {"resume", "read", "earlier", "error"}
Events == {"start", "started", "delta", "item", "completed"}

Opening == selecting \in {"", "active", "idle"}

\* Bound: the turns that begin while a snapshot or a report is under way are fewer than
\* one answer lists.
Recent ==
  LET reported == {toPage[i].turn : i \in {i \in DOMAIN toPage : toPage[i].kind \in Events}}
      held == IF Opening /\ shown # None THEN {shown.turns[i].turn : i \in DOMAIN shown.turns}
              ELSE {}
  IN  \A t \in reported \cup held : Len(device) + 1 - t < PageOfTurns

Paced == Len(toPage) < MaxUnderWay

\* The next turn begins.
NextTurn ==
  /\ ~Active /\ Len(device) < MaxTurns /\ Recent /\ Paced
  /\ device' = Append(device, [text |-> 0, done |-> FALSE, whole |-> FALSE])

\* A turn is started on the device itself, or by another client.
TurnStarts ==
  /\ NextTurn
  /\ Report([kind |-> "started", turn |-> Len(device) + 1])
  /\ UNCHANGED <<subscribed, connected, toDevice, page>>

Delta ==
  /\ Active /\ Paced /\ device[Len(device)].text < MaxText
  /\ device' = [device EXCEPT ![Len(device)].text = @ + 1]
  /\ Report([kind |-> "delta", turn |-> Len(device), delta |-> device'[Len(device)].text])
  /\ UNCHANGED <<subscribed, connected, toDevice, page>>

\* The turn ends: its item is reported, with its text or only in summary, then the turn.
TurnEnds(whole) ==
  /\ Active /\ Paced
  /\ device' = [device EXCEPT ![Len(device)].done = TRUE, ![Len(device)].whole = whole]
  /\ toPage' = IF subscribed
       THEN toPage \o <<[kind |-> "item", turn |-> Len(device),
                         text |-> IF whole THEN Text(device[Len(device)].text) ELSE <<>>],
                        [kind |-> "completed", turn |-> Len(device)]>>
       ELSE toPage
  /\ UNCHANGED <<subscribed, connected, toDevice, page>>

\* The turns of an answer: those before the cursor, the latest ones of them.
Listing(call, before, limit) ==
  LET from == IF before > limit THEN before - limit ELSE 0
  IN  [kind |-> call.kind, call |-> call,
       turns |-> [i \in 1..(before - from) |-> Listed(from + i)], earlier |-> from]

\* The device serves a call of the page, or answers it with an error.
Serve ==
  /\ toDevice # <<>> /\ toDevice' = Tail(toDevice)
  /\ LET call == Head(toDevice)
     IN  \/ /\ toPage' = Append(toPage, [kind |-> "error", call |-> call])
            /\ UNCHANGED <<device, subscribed>>
         \/ /\ call.kind = "resume" /\ subscribed' = TRUE
            /\ toPage' = Append(toPage, [kind |-> "resume", call |-> call, status |-> Status])
            /\ UNCHANGED device
         \/ /\ call.kind \in {"read", "earlier"}
            /\ LET before == IF call.kind = "read" THEN Len(device) ELSE call.cursor
               IN  \E limit \in {PageOfTurns} \cup (IF call.kind = "read" THEN {MaxTurns} ELSE {}) :
                     toPage' = Append(toPage, Listing(call, before, limit))
            /\ UNCHANGED <<device, subscribed>>
         \/ /\ call.kind = "start" /\ subscribed /\ NextTurn
            /\ toPage' = toPage \o <<[kind |-> "start", call |-> call, turn |-> Len(device')],
                                     [kind |-> "started", turn |-> Len(device')]>>
            /\ UNCHANGED subscribed
  /\ UNCHANGED <<connected, page>>

-----------------------------------------------------------------------------
(* The page.                                                                *)

\* The conversation is opened, or opened again: nothing of it is known at first.  Without
\* a connection that is all.
Select ==
  /\ selection < MaxSelections /\ selection' = selection + 1
  /\ partial' = {} /\ shown' = [status |-> None, turns |-> <<>>, earlier |-> 0]
  /\ IF connected
     THEN /\ selecting' = ""
          /\ toDevice' = Append(toDevice, [kind |-> "resume", epoch |-> selection'])
     ELSE selecting' = "failed" /\ UNCHANGED toDevice
  /\ UNCHANGED <<device, subscribed, connected, toPage>>

\* The address names no conversation any more: none is shown, and what was asked for is
\* still awaited.
Leave ==
  /\ shown # None /\ shown' = None /\ partial' = {}
  /\ UNCHANGED <<device, subscribed, connected, toDevice, toPage, selection, selecting>>

\* Bound: the user waits when much is under way.
Patient == Len(toDevice) + Len(toPage) < MaxUnderWay

\* Earlier turns are asked for, also while they are already under way.
Earlier ==
  /\ connected /\ Patient /\ shown # None /\ shown.earlier > 0
  /\ toDevice' = Append(toDevice, [kind |-> "earlier", epoch |-> selection, cursor |-> shown.earlier])
  /\ UNCHANGED <<device, subscribed, connected, toPage, page>>

Running == shown.status = "active" \/ \E i \in DOMAIN shown.turns : shown.turns[i].status = "running"

\* A message is being sent: its call is awaited, not given up.
Busy ==
  \/ \E i \in DOMAIN toDevice : toDevice[i].kind = "start" /\ toDevice[i].epoch # 0
  \/ \E i \in DOMAIN toPage :
       /\ toPage[i].kind \in {"start", "error"}
       /\ toPage[i].call.kind = "start" /\ toPage[i].call.epoch # 0

\* The user sends a message, also while the conversation is being opened.
Send ==
  /\ connected /\ Patient /\ shown # None /\ ~Running /\ ~Busy
  /\ toDevice' = Append(toDevice, [kind |-> "start", epoch |-> selection])
  /\ UNCHANGED <<device, subscribed, connected, toPage, page>>

\* A call ends with an error: what opens the conversation breaks off.
Failed(call) ==
  IF call.kind \in {"resume", "read"} /\ call.epoch = selection THEN "failed" ELSE selecting

\* After forty seconds a call is given up: its epoch is 0, and its answer comes too late.
\* Only of a call whose answer would count.
Counts(call) == call.epoch = selection \/ (call.kind = "start" /\ call.epoch # 0)
TimesOut ==
  /\ \/ \E i \in DOMAIN toDevice :
          /\ Counts(toDevice[i]) /\ selecting' = Failed(toDevice[i])
          /\ toDevice' = [toDevice EXCEPT ![i].epoch = 0] /\ UNCHANGED toPage
     \/ \E i \in DOMAIN toPage :
          /\ toPage[i].kind \in Answers \cup {"start"}
          /\ Counts(toPage[i].call) /\ selecting' = Failed(toPage[i].call)
          /\ toPage' = [toPage EXCEPT ![i].call.epoch = 0] /\ UNCHANGED toDevice
  /\ UNCHANGED <<device, subscribed, connected, selection, shown, partial>>

\* The connection breaks: every call fails, and what the page shows stays as it is.
Disconnect ==
  /\ connected /\ connected' = FALSE
  /\ toDevice' = <<>> /\ toPage' = <<>> /\ subscribed' = FALSE
  /\ selecting' = IF Opening THEN "failed" ELSE selecting
  /\ UNCHANGED <<device, selection, shown, partial>>

\* The device is connected again, and nothing is shown: state.epoch moves on, which no call
\* is left to notice.
Reconnect ==
  /\ ~connected /\ connected' = TRUE
  /\ selecting' = None /\ shown' = None /\ partial' = {}
  /\ UNCHANGED <<device, subscribed, toDevice, toPage, selection>>

\* An event changes the conversation on the page.
Applied(message) ==
  LET known == Known(message.turn)
      Changed(turn) == Merged(shown.turns, <<turn>>)
  IN  CASE message.kind = "started" ->
             [shown EXCEPT !.status = "active",
                           !.turns = Changed([turn |-> message.turn, status |-> "running",
                                              text |-> <<>>, item |-> FALSE])]
        [] message.kind = "completed" ->
             [shown EXCEPT !.status = "idle",
                           !.turns = Changed([turn |-> message.turn, status |-> "done",
                                              text |-> <<>>, item |-> FALSE])]
        [] message.kind = "delta" ->
             [shown EXCEPT !.turns = Changed([turn |-> message.turn, status |-> None, item |-> TRUE,
                                              text |-> Append(known.text, message.delta)])]
        [] message.kind = "item" ->
             [shown EXCEPT !.turns = Changed([turn |-> message.turn, status |-> None, item |-> TRUE,
                                              text |-> message.text])]

\* A message of the device reaches the page: the answer to a conversation that was opened
\* again since, or to a call that was given up, is dropped; events are applied to what is
\* shown by now.
Receive ==
  /\ toPage # <<>> /\ toPage' = Tail(toPage)
  /\ LET message == Head(toPage)
         current == message.kind \in Answers /\ message.call.epoch = selection
     IN  CASE message.kind = "resume" ->
                /\ IF current
                   THEN /\ selecting' = message.status
                        /\ toDevice' = Append(toDevice, [kind |-> "read", epoch |-> selection])
                   ELSE UNCHANGED <<selecting, toDevice>>
                /\ UNCHANGED <<shown, partial>>
           [] message.kind = "read" ->
                /\ IF current /\ shown # None
                   THEN /\ selecting' = None
                        /\ shown' = [status |-> IF shown.status = None THEN selecting ELSE shown.status,
                                     turns |-> Merged(message.turns, shown.turns),
                                     earlier |-> message.earlier]
                   ELSE selecting' = Failed(message.call) /\ UNCHANGED shown
                /\ UNCHANGED <<toDevice, partial>>
           [] message.kind = "earlier" ->
                /\ shown' = IF current /\ shown # None
                     THEN [shown EXCEPT !.turns = Merged(message.turns, @),
                                        !.earlier = message.earlier]
                     ELSE shown
                /\ UNCHANGED <<selecting, toDevice, partial>>
           [] message.kind = "error" ->
                selecting' = Failed(message.call) /\ UNCHANGED <<toDevice, shown, partial>>
           [] message.kind = "start" ->
                /\ shown' = IF shown = None \/ message.call.epoch = 0 THEN shown
                     ELSE [shown EXCEPT
                            !.turns = IF \E i \in DOMAIN @ : @[i].turn = message.turn THEN @
                                      ELSE Append(@, [turn |-> message.turn, status |-> "running",
                                                      text |-> <<>>, item |-> FALSE]),
                            !.status = "active"]
                /\ UNCHANGED <<selecting, toDevice, partial>>
           [] OTHER ->
                /\ IF shown = None THEN UNCHANGED <<shown, partial>>
                   ELSE /\ shown' = Applied(message)
                        /\ partial' = IF /\ message.kind = "delta"
                                         /\ message.delta # Len(Known(message.turn).text) + 1
                                      THEN partial \cup {message.turn} ELSE partial
                /\ UNCHANGED <<selecting, toDevice>>
  /\ UNCHANGED <<device, subscribed, connected, selection>>

-----------------------------------------------------------------------------

\* The conversation has some turns already, the last of which may be running.
Init ==
  /\ \E n \in Before, done \in BOOLEAN :
       device = [t \in 1..n |-> [text |-> 1, done |-> t < n \/ done, whole |-> FALSE]]
  /\ subscribed = FALSE /\ connected = TRUE /\ toDevice = <<>> /\ toPage = <<>>
  /\ selection = 0 /\ selecting = None /\ shown = None /\ partial = {}

Next ==
  \/ TurnStarts \/ Delta \/ (\E whole \in BOOLEAN : TurnEnds(whole)) \/ Serve
  \/ Select \/ Leave \/ Earlier \/ Send \/ Receive \/ TimesOut \/ Disconnect \/ Reconnect

Spec == Init /\ [][Next]_vars

-----------------------------------------------------------------------------
(* Properties.                                                              *)

\* When nothing is under way on an open connection, the page shows the latest turns of the
\* device in order and once, and of none a state or a text that is not its own: if opening
\* broke off, those that were reported since.  If it did not, the page shows every turn from
\* the first that was loaded on, with its state, and the whole text of a turn that is done.
\* Only a text that was joined in the middle, and whose end was reported in summary, may
\* lack its beginning (cloud.js 79-82, 138-177, 198-229 and 285-340, app.js 230-258).
TranscriptWhole ==
  shown # None /\ connected /\ ~Opening /\ toPage = <<>> /\ toDevice = <<>> =>
    LET n == Len(shown.turns)
        State(t) == IF device[t].done THEN "done" ELSE "running"
        Trusted(t) == t \notin partial \/ device[t].whole
    IN  /\ n <= Len(device) /\ shown.status \in {None, Status}
        /\ \A i \in 1..n :
             LET t == shown.turns[i].turn
             IN  /\ t = Len(device) - n + i
                 /\ shown.turns[i].status \in {None, State(t)}
                 /\ Trusted(t) => shown.turns[i].text \in {<<>>, Text(device[t].text)}
        /\ selecting = None =>
             /\ n + shown.earlier = Len(device) /\ shown.status # None
             /\ \A i \in 1..n :
                  LET t == shown.turns[i].turn
                  IN  /\ shown.turns[i].status # None
                      /\ device[t].done /\ Trusted(t) =>
                           shown.turns[i].text = Text(device[t].text)
=============================================================================
