------------------------------- MODULE Cloud -------------------------------
(***************************************************************************)
(* The page's connection to the Codex of a cloud computer (CloudCodex in   *)
(* cloud.js, the native branches of app.js and native-workspace.js): views *)
(* that are opened, fail and are released, a switch of the device while    *)
(* another one is still being made, the calls that are under way when the  *)
(* connection goes, and the requests for approval that the device sends.   *)
(*                                                                         *)
(* Request ids are those of the device's own counter: two connections may  *)
(* use the same ones.                                                      *)
(*                                                                         *)
(* A definition introduced with "As if" is not part of the model: it is the *)
(* next one with a plausible mistake, kept to see which property notices.  *)
(***************************************************************************)
EXTENDS Integers, FiniteSets

CONSTANTS
  None,
  MaxConnections, \* bound of the connections the page makes
  MaxRequests,    \* bound of the ids the device uses on a connection
  MaxWork         \* bound of what the user begins

\* What an instance must satisfy.
CloudAssumption == MaxConnections \in Nat /\ MaxRequests \in Nat /\ MaxWork \in Nat

Connections == 1..MaxConnections
Requests == 1..MaxRequests
Slots == 1..2

VARIABLES
  connection,  \* what is known of each connection
  releasing,   \* connections whose view is being given back
  cloud,       \* state.cloud: the connection the page uses
  work,        \* the page's operations under way
  started,     \* how many the user began
  approvals,   \* requests for approval a connection lists
  asking,      \* the request whose dialog is open
  asked,       \* history: requests the device sent on a connection
  answers      \* history: how often a request was answered on a connection

views == <<connection, releasing, cloud>>
requests == <<approvals, asking, asked, answers>>
vars == <<views, work, started, requests>>

Unused == [phase |-> "unused", closed |-> FALSE, connected |-> FALSE, view |-> FALSE]

TypeOK ==
  /\ connection \in [Connections ->
       [phase : {"unused", "viewing", "dialing", "ready", "failed"},
        closed : BOOLEAN, connected : BOOLEAN, view : BOOLEAN]]
  /\ releasing \subseteq Connections /\ cloud \in Connections \cup {None}
  /\ \A s \in Slots : work[s] \in {None} \cup
       [kind : {"switch", "select", "send", "change", "workspace"},
        step : {"closing", "opening", "call"}, on : Connections, to : {"cloud", "device"},
        left : 0..3, fresh : BOOLEAN]
  /\ started \in 0..MaxWork
  /\ approvals \in [Connections -> SUBSET Requests] /\ asking \in Requests \cup {None}
  /\ asked \in [Connections -> SUBSET Requests]
  /\ answers \in [Connections -> [Requests -> 0..2]]

Connected(c) == connection[c].connected
Usable == cloud # None /\ Connected(cloud)

\* The page refuses to begin a change while another one is under way.
Busy == \E s \in Slots : work[s] # None /\ work[s].kind \in {"send", "change"}

-----------------------------------------------------------------------------
(* The end of a connection.                                                 *)

\* Operations that wait for a call on one of the connections end in an error.
Rejected(operations, gone) ==
  [s \in Slots |-> IF operations[s] # None /\ operations[s].step = "call"
                      /\ operations[s].on \in gone
                   THEN None ELSE operations[s]]

\* A view that is held is given back.
Closed(c) == [connection EXCEPT ![c].closed = TRUE, ![c].connected = FALSE, ![c].view = FALSE]

Close(c, operations) ==
  /\ connection' = Closed(c)
  /\ releasing' = IF connection[c].view THEN releasing \cup {c} ELSE releasing
  /\ approvals' = [approvals EXCEPT ![c] = {}]
  /\ work' = Rejected(operations, {c})

\* The attempt to open a connection is over: whoever awaited it gets an error.
Abandoned(c) ==
  [s \in Slots |-> IF work[s] # None /\ work[s].step = "opening" /\ work[s].on = c
                   THEN None ELSE work[s]]

\* An error of the connection: it is closed unless that was done before.
Fail(c) ==
  /\ connection' = [(IF connection[c].closed THEN connection ELSE Closed(c))
                     EXCEPT ![c].phase = "failed", ![c].connected = FALSE]
  /\ releasing' = IF connection[c].view THEN releasing \cup {c} ELSE releasing
  /\ approvals' = [approvals EXCEPT ![c] = {}]
  /\ work' = Rejected(Abandoned(c), {c})
  /\ UNCHANGED <<cloud, started, asking, asked, answers>>

-----------------------------------------------------------------------------
(* Opening a connection.                                                    *)

\* As if a connection closed while its view was asked for went on with the view.
Onward(c) == FALSE
ClosedMeanwhile(c) == connection[c].closed

\* The host has opened a view: the socket is dialled, unless the page has closed the
\* connection in the meantime.
ViewOpened(c) ==
  /\ connection[c].phase = "viewing"
  /\ IF ClosedMeanwhile(c)
     THEN /\ connection' = [connection EXCEPT ![c].phase = "failed"]
          /\ releasing' = releasing \cup {c}
          /\ work' = Abandoned(c)
     ELSE /\ connection' = [connection EXCEPT ![c].phase = "dialing", ![c].view = TRUE]
          /\ UNCHANGED <<releasing, work>>
  /\ UNCHANGED <<cloud, started, requests>>

ViewRefused(c) ==
  /\ connection[c].phase = "viewing"
  /\ connection' = [connection EXCEPT ![c].phase = "failed"]
  /\ work' = Abandoned(c)
  /\ UNCHANGED <<releasing, cloud, started, requests>>

\* The device is ready: the switch that opened it goes on, or closes it when another one
\* has begun since.
Ready(c) ==
  /\ connection[c].phase = "dialing" /\ ~connection[c].closed
  /\ \E s \in Slots :
       /\ work[s] # None /\ work[s].step = "opening" /\ work[s].on = c
       /\ IF work[s].fresh
          THEN /\ connection' = [connection EXCEPT ![c].phase = "ready", ![c].connected = TRUE]
               /\ work' = [work EXCEPT ![s] =
                    IF cloud # None /\ (cloud = c \/ Connected(cloud))
                    THEN [work[s] EXCEPT !.step = "call", !.on = cloud, !.left = 1]
                    ELSE None]
               /\ UNCHANGED releasing
          ELSE /\ connection' = [Closed(c) EXCEPT ![c].phase = "ready"]
               /\ releasing' = releasing \cup {c}
               /\ work' = [work EXCEPT ![s] = None]
  /\ UNCHANGED <<cloud, started, requests>>

\* Not ready in thirty seconds, also when it was closed in the meantime.
OpenTimesOut(c) == connection[c].phase = "dialing" /\ Fail(c)

\* The socket breaks, or the device reports an error.
Lost(c) ==
  /\ connection[c].phase \in {"dialing", "ready"} /\ ~connection[c].closed
  /\ Fail(c)

-----------------------------------------------------------------------------
(* The user chooses a device.                                               *)

\* No answer to what was begun before may change the page.
Stale(operations) ==
  [s \in Slots |-> IF operations[s] = None THEN None ELSE [operations[s] EXCEPT !.fresh = FALSE]]

Free(s) == work[s] = None /\ \A i \in 1..(s - 1) : work[i] # None
Start(s) == Free(s) /\ started < MaxWork /\ started' = started + 1
Unopened == {c \in Connections : connection[c].phase = "unused"}

Switching(step, c, to) ==
  [kind |-> "switch", step |-> step, on |-> c, to |-> to, left |-> 0, fresh |-> TRUE]

\* A new connection becomes the page's, and its view is asked for.
Opening(s, known, operations, operation) ==
  LET c == CHOOSE c \in Unopened : \A d \in Unopened : c <= d
  IN  /\ cloud' = c
      /\ connection' = [known EXCEPT ![c].phase = "viewing"]
      /\ work' = [operations EXCEPT ![s] = [operation EXCEPT !.step = "opening", !.on = c]]

\* The device is changed, or connected again.  The old connection is closed first.
Switch(s, to) ==
  /\ Start(s) /\ Unopened # {}
  /\ IF cloud # None /\ connection[cloud].view
     THEN /\ Close(cloud, [Stale(work) EXCEPT ![s] = Switching("closing", cloud, to)])
          /\ cloud' = None
     ELSE LET known == IF cloud = None THEN connection ELSE Closed(cloud)
          IN  /\ IF to = "cloud" THEN Opening(s, known, Stale(work), Switching("opening", 1, to))
                 ELSE cloud' = None /\ connection' = known /\ work' = Stale(work)
              /\ UNCHANGED <<releasing, approvals>>
  /\ UNCHANGED <<asking, asked, answers>>

\* The host has taken the view back.  A switch that waited for it goes on, even when
\* another one has begun.
ViewReleased(c) ==
  /\ c \in releasing /\ releasing' = releasing \ {c}
  /\ IF \E s \in Slots : work[s] # None /\ work[s].step = "closing" /\ work[s].on = c
     THEN \E s \in Slots :
            /\ work[s] # None /\ work[s].step = "closing" /\ work[s].on = c
            /\ IF work[s].to = "cloud" /\ Unopened # {}
               THEN Opening(s, connection, work, work[s])
               ELSE work' = [work EXCEPT ![s] = None] /\ UNCHANGED <<cloud, connection>>
     ELSE UNCHANGED <<cloud, connection, work>>
  /\ UNCHANGED <<started, requests>>

\* The host does not take it back: a switch that waited for it ends.
ReleaseFails(c) ==
  /\ c \in releasing /\ releasing' = releasing \ {c}
  /\ work' = [s \in Slots |-> IF work[s] # None /\ work[s].step = "closing" /\ work[s].on = c
                              THEN None ELSE work[s]]
  /\ UNCHANGED <<connection, cloud, started, requests>>

\* The page is left.
Hide ==
  /\ cloud # None /\ ~connection[cloud].closed
  /\ Close(cloud, work)
  /\ UNCHANGED <<cloud, started, asking, asked, answers>>

-----------------------------------------------------------------------------
(* Calls.                                                                   *)

Calling(kind, left) ==
  [kind |-> kind, step |-> "call", on |-> cloud, to |-> "cloud", left |-> left, fresh |-> TRUE]

\* A conversation is opened: resumed, read, and its projects listed.
Select(s) ==
  /\ Usable /\ Start(s)
  /\ work' = [Stale(work) EXCEPT ![s] = Calling("select", 3)]
  /\ UNCHANGED <<views, requests>>

\* A message is sent (with a new conversation first), or a conversation is branched,
\* reverted, restored, renamed or compacted.
Change(s, kind, left) ==
  /\ Usable /\ ~Busy /\ Start(s)
  /\ work' = [work EXCEPT ![s] = Calling(kind, left)]
  /\ UNCHANGED <<views, requests>>

\* Another project: the device checks it first.
ChangeWorkspace(s) ==
  /\ Usable /\ Start(s)
  /\ work' = [work EXCEPT ![s] = Calling("workspace", 3)]
  /\ UNCHANGED <<views, requests>>

\* An operation goes on with its next call, or ends.
Continued(s) ==
  LET w == work[s]
      next == IF w.left > 1 THEN [w EXCEPT !.left = @ - 1] ELSE None
  IN  CASE w.kind = "select" -> [work EXCEPT ![s] = IF w.fresh THEN next ELSE None]
        [] w.kind = "change" /\ w.left = 3 ->
             IF w.fresh /\ w.on = cloud THEN [Stale(work) EXCEPT ![s] = [next EXCEPT !.fresh = TRUE]]
             ELSE [work EXCEPT ![s] = None]
        [] w.kind = "workspace" /\ w.left = 3 ->
             [Stale(work) EXCEPT ![s] = [next EXCEPT !.fresh = TRUE]]
        [] OTHER -> [work EXCEPT ![s] = next]

Answered(s) ==
  /\ work[s] # None /\ work[s].step = "call" /\ Connected(work[s].on)
  /\ work' = Continued(s)
  /\ UNCHANGED <<views, started, requests>>

\* An error, or no answer in forty seconds.
CallFails(s) ==
  /\ work[s] # None /\ work[s].step = "call"
  /\ work' = [work EXCEPT ![s] = None]
  /\ UNCHANGED <<views, started, requests>>

-----------------------------------------------------------------------------
(* Requests for approval.                                                   *)

\* The device asks.
Asked(c, r) ==
  /\ Connected(c) /\ r \notin asked[c]
  /\ asked' = [asked EXCEPT ![c] = @ \cup {r}]
  /\ approvals' = [approvals EXCEPT ![c] = @ \cup {r}]
  /\ UNCHANGED <<views, work, started, asking, answers>>

\* Another client has answered, or the turn has ended.
Resolved(c, r) ==
  /\ Connected(c) /\ r \in approvals[c]
  /\ approvals' = [approvals EXCEPT ![c] = @ \ {r}]
  /\ UNCHANGED <<views, work, started, asking, asked, answers>>

OpenApproval(r) ==
  /\ cloud # None /\ r \in approvals[cloud] /\ asking' = r
  /\ UNCHANGED <<views, work, started, approvals, asked, answers>>

\* The user decides: the answer goes to the connection the page uses by now, if that one
\* lists the request.  A form stays open until the page is drawn again.
Respond ==
  /\ asking # None /\ Usable /\ asking \in approvals[cloud]
  /\ answers' = [answers EXCEPT ![cloud][asking] = IF @ < 2 THEN @ + 1 ELSE @]
  /\ approvals' = [approvals EXCEPT ![cloud] = @ \ {asking}]
  /\ asking' \in {asking, None}
  /\ UNCHANGED <<views, work, started, asked>>

CloseApproval ==
  /\ asking # None /\ asking' = None
  /\ UNCHANGED <<views, work, started, approvals, asked, answers>>

-----------------------------------------------------------------------------

Init ==
  /\ connection = [c \in Connections |-> Unused] /\ releasing = {} /\ cloud = None
  /\ work = [s \in Slots |-> None] /\ started = 0
  /\ approvals = [c \in Connections |-> {}] /\ asking = None
  /\ asked = [c \in Connections |-> {}]
  /\ answers = [c \in Connections |-> [r \in Requests |-> 0]]

Opens(c) == ViewOpened(c) \/ ViewRefused(c) \/ Ready(c) \/ OpenTimesOut(c)
Releases(c) == ViewReleased(c) \/ ReleaseFails(c)
Ends(s) == Answered(s) \/ CallFails(s)

Next ==
  \/ \E c \in Connections :
       \/ Opens(c) \/ Releases(c) \/ Lost(c)
       \/ \E r \in Requests : Asked(c, r) \/ Resolved(c, r)
  \/ \E s \in Slots :
       \/ \E to \in {"cloud", "device"} : Switch(s, to)
       \/ Select(s) \/ ChangeWorkspace(s)
       \/ \E left \in {2, 3} : Change(s, "send", left)
       \/ Change(s, "change", 3)
       \/ Ends(s)
  \/ \E r \in Requests : OpenApproval(r)
  \/ Hide \/ Respond \/ CloseApproval

Spec == Init /\ [][Next]_vars

\* The host and the device answer, or the page stops to wait.
Fairness ==
  /\ \A c \in Connections : WF_vars(Opens(c)) /\ WF_vars(Releases(c))
  /\ \A s \in Slots : WF_vars(Ends(s))

-----------------------------------------------------------------------------
(* Properties.                                                              *)

\* A request for approval is answered at most once on a connection, and only on one on
\* which the device asked (cloud.js 131-137, docs/cloud-codex.md:47).
AnsweredOnce ==
  \A c \in Connections, r \in Requests :
    answers[c][r] <= 1 /\ (answers[c][r] > 0 => r \in asked[c])

\* In the end nothing waits and no connection that was closed holds its view, also when
\* it was closed while the view was being opened (cloud.js 11-21, 30-46 and 180-195).
ComesToRest ==
  <>[](/\ \A s \in Slots : work[s] = None
       /\ \A c \in Connections :
            /\ connection[c].phase \notin {"viewing", "dialing"}
            /\ connection[c].closed => ~connection[c].view
       /\ releasing = {})
=============================================================================
