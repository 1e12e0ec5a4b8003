------------------------------- MODULE MCPage -------------------------------
(* A small instance of the parts of the page that share no state with one    *)
(* another: the bridge to the host, the dialog, the connection to a cloud    *)
(* computer and the conversation shown from it, the panel beside the         *)
(* conversation, the list of models and the drawing of an element.  The      *)
(* first state says which part moves; the others stay as they begin.  Calls  *)
(* and drops are two parts: they have in common the messages, which are      *)
(* taken in order, and whether the bridge is there.                          *)
EXTENDS Integers, Sequences, FiniteSets

CONSTANTS None, Window, MaxCalls, MaxListeners, MaxMoves, MaxOperations,
          MaxConnections, MaxRequests, MaxWork,
          MaxTurns, Before, MaxText, MaxSelections, PageOfTurns, MaxUnderWay,
          MaxUses, MaxProviders, Width, MaxSearches,
          MaxMessages, MaxContent, Chunk, MaxDrawings,
          Parts \* the parts that may move

VARIABLES
  part, \* the part of the page that moves
  awaited, inflight, invoked, calls, registered, listeners, toHost, toGuest, active,
  subscription, armed, inert, timer, epoch, hidden, reading, moves, drops, received,
  current, rendering, drawn, outdated, disabled, confirm, operation, secrets, displayed,
  generation, reveals, timers, begun,
  connection, releasing, cloud, work, started, approvals, asking, asked, answers,
  device, subscribed, connected, toDevice, toPage, selection, selecting, shown, partial,
  panel, reads, fetching, filled, missed, uses,
  providers, searches, offered, sought,
  version, drawings, cache, element, latest, lost

B == INSTANCE Bridge
D == INSTANCE Dialogs
C == INSTANCE Cloud
T == INSTANCE Transcript
P == INSTANCE Panel
M == INSTANCE Discovery
F == INSTANCE Fragments

ASSUME PageAssumption ==
  /\ B!BridgeAssumption /\ D!OperationsAssumption /\ C!CloudAssumption
  /\ T!TranscriptAssumption /\ P!PanelAssumption /\ M!DiscoveryAssumption
  /\ F!FragmentsAssumption
  /\ Parts \subseteq {"calls", "drops", "dialog", "cloud", "transcript", "panel", "models", "drawing"}

bridge == <<awaited, inflight, invoked, calls, registered, listeners, toHost, toGuest, active,
            subscription, armed, inert, timer, epoch, hidden, reading, moves, drops, received>>
dialog == <<current, rendering, drawn, outdated, disabled, confirm, operation, secrets,
            displayed, generation, reveals, timers, begun>>
connections == <<connection, releasing, cloud, work, started, approvals, asking, asked, answers>>
transcript == <<device, subscribed, connected, toDevice, toPage, selection, selecting, shown, partial>>
side == <<panel, reads, fetching, filled, missed, uses>>
models == <<providers, searches, offered, sought>>
drawing == <<version, drawings, cache, element, latest, lost>>
vars == <<part, bridge, dialog, connections, transcript, side, models, drawing>>

Init ==
  /\ part \in Parts
  /\ B!Init /\ D!Init /\ C!Init /\ P!Init /\ F!Init
  /\ M!Init /\ (part # "models" => providers = {})
  /\ IF part = "transcript" THEN T!Init
     ELSE /\ device = <<>> /\ subscribed = FALSE /\ connected = TRUE /\ toDevice = <<>> /\ toPage = <<>>
          /\ selection = 0 /\ selecting = None /\ shown = None /\ partial = {}

\* One part moves: the state of the others is unchanged.
Only(name, state) ==
  /\ part = name /\ UNCHANGED part
  /\ UNCHANGED state

Next ==
  \/ /\ Only("calls", <<dialog, connections, transcript, side, models, drawing>>)
     /\ B!Next /\ listeners' = listeners
  \/ /\ Only("drops", <<dialog, connections, transcript, side, models, drawing>>)
     /\ B!Next /\ calls' = calls
  \/ Only("dialog", <<bridge, connections, transcript, side, models, drawing>>) /\ D!Next
  \/ Only("cloud", <<bridge, dialog, transcript, side, models, drawing>>) /\ C!Next
  \/ Only("transcript", <<bridge, dialog, connections, side, models, drawing>>) /\ T!Next
  \/ Only("panel", <<bridge, dialog, connections, transcript, models, drawing>>) /\ P!Next
  \/ Only("models", <<bridge, dialog, connections, transcript, side, drawing>>) /\ M!Next
  \/ Only("drawing", <<bridge, dialog, connections, transcript, side, models>>) /\ F!Next

Spec ==
  /\ Init /\ [][Next]_vars
  /\ B!Fairness /\ D!Fairness /\ C!Fairness /\ P!Fairness /\ M!Fairness /\ F!Fairness

-----------------------------------------------------------------------------
(* The properties of the parts, and their types.                            *)

\* A dropped file reaches the guest in order, a request for approval is answered at most
\* once: what is given once is not given again (Bridge!DropDelivered, Cloud!AnsweredOnce).
GivenOnce == B!TypeOK /\ B!DropDelivered /\ C!TypeOK /\ C!AnsweredOnce

\* What the page shows is whole, and not longer there than it may be: a revealed secret is
\* about to be hidden, a list of models has those of every provider, and an element holds one
\* drawing and the latest (Dialogs!SecretTimed, Discovery!ListWhole, Fragments!LatestShown).
ShownWhole ==
  /\ D!TypeOK /\ D!SecretTimed /\ P!TypeOK
  /\ M!TypeOK /\ M!ListWhole /\ F!TypeOK /\ F!LatestShown

\* The conversation of a cloud computer is shown as the device has it
\* (Transcript!TranscriptWhole).
TranscriptWhole == T!TypeOK /\ T!TranscriptWhole

\* Every part comes to rest: no call, no change and no connection waits for ever, and a
\* visible panel holds what its buttons act on (the ComesToRest of the parts).
ComesToRest ==
  /\ B!ComesToRest /\ D!ComesToRest /\ C!ComesToRest
  /\ P!ComesToRest /\ M!ComesToRest /\ F!ComesToRest
=============================================================================
