------------------------------- MODULE Bridge -------------------------------
(***************************************************************************)
(* The bridge between a plugin page in its sandboxed frame (guest.js) and  *)
(* the host page (host.mjs): calls that both sides count and the guest     *)
(* gives up after a time, and files dropped on the frame, which only the   *)
(* host can read and hands to the listener that was subscribed.            *)
(*                                                                         *)
(* Messages of each direction arrive in order.  The host reads a dropped   *)
(* directory in many steps; any of them may be the one that is awaited     *)
(* when the page changes.                                                  *)
(*                                                                         *)
(* A definition introduced with "As if" is not part of the model: it is the *)
(* next one with a plausible mistake, kept to see which property notices.  *)
(***************************************************************************)
EXTENDS Integers, Sequences, FiniteSets

CONSTANTS
  None,
  Window,      \* calls that may be pending, and in flight (16)
  MaxCalls,    \* bound of the calls
  MaxListeners,\* bound of the registrations of a drop listener
  MaxMoves     \* bound of what the mouse and the page do

\* What an instance must satisfy.
BridgeAssumption ==
  Window \in Nat \ {0} /\ {MaxCalls, MaxListeners, MaxMoves} \subseteq Nat

VARIABLES
  awaited,     \* guest: pending, the calls that wait
  inflight,    \* host: how many calls it counts
  invoked,     \* host: calls the service works on
  calls,       \* calls made so far
  registered,  \* guest: fileDrop, the current registration
  listeners,   \* registrations made so far
  toHost, toGuest, \* messages under way
  active,      \* the bridge is mounted
  subscription, armed, inert, timer, epoch, \* host: the state of mountFileDrop
  hidden,      \* the frame is not visible, or its permission is gone
  reading,     \* host: drops being read: number, subscription and epoch
  moves, drops,
  received     \* history: the drops the guest was given, in order

bridge == <<awaited, inflight, invoked, calls>>
guest == <<registered, listeners, received>>
frame == <<subscription, armed, inert, timer, epoch>>
world == <<hidden, moves, drops>>
vars == <<bridge, guest, frame, world, toHost, toGuest, active, reading>>

Registrations == 1..MaxListeners
Calls == 1..MaxCalls
Drops == 1..MaxMoves

TypeOK ==
  /\ awaited \subseteq Calls /\ Cardinality(awaited) <= Window
  /\ invoked \subseteq Calls /\ inflight \in 0..Window /\ calls \in 0..MaxCalls
  /\ registered \in Registrations \cup {None} /\ listeners \in 0..MaxListeners
  /\ subscription \in Registrations \cup {None}
  /\ {armed, inert, timer, active, hidden} \subseteq BOOLEAN
  /\ moves \in 0..MaxMoves /\ drops \in 0..MaxMoves
  /\ \A r \in reading : r.drop \in Drops /\ r.id \in Registrations

-----------------------------------------------------------------------------
(* Calls.                                                                   *)

\* The guest sends a call unless too many wait.
Call ==
  /\ calls < MaxCalls /\ Cardinality(awaited) < Window
  /\ calls' = calls + 1
  /\ awaited' = awaited \cup {calls'}
  /\ toHost' = Append(toHost, [kind |-> "request", id |-> calls'])
  /\ UNCHANGED <<inflight, invoked, guest, frame, world, toGuest, active, reading>>

\* The guest waits no longer.
GiveUp(c) ==
  /\ c \in awaited
  /\ awaited' = awaited \ {c}
  /\ UNCHANGED <<inflight, invoked, calls, guest, frame, world, toHost, toGuest, active, reading>>

\* The host takes a call, or refuses it when too many are in flight.
TakeCall(c) ==
  IF inflight >= Window
  THEN /\ toGuest' = Append(toGuest, [kind |-> "response", id |-> c])
       /\ UNCHANGED <<inflight, invoked>>
  ELSE inflight' = inflight + 1 /\ invoked' = invoked \cup {c} /\ UNCHANGED toGuest

\* The service answers, or fails: the host answers in its place.
Invoked(c) ==
  /\ c \in invoked
  /\ invoked' = invoked \ {c} /\ inflight' = inflight - 1
  /\ toGuest' = IF active THEN Append(toGuest, [kind |-> "response", id |-> c]) ELSE toGuest
  /\ UNCHANGED <<awaited, calls, guest, frame, world, toHost, active, reading>>

-----------------------------------------------------------------------------
(* Dropped files, on the side of the host.                                  *)

Allowed == active /\ ~hidden

Reset ==
  /\ timer' = FALSE /\ armed' = FALSE
  /\ inert' = (inert /\ ~armed)

\* The frame lets events through to the host for a while.
Arm == armed' = TRUE /\ inert' = TRUE /\ timer' = TRUE

\* The subscription changes: no drop that was begun is valid any more.
Subscribe(id) ==
  /\ Reset
  /\ epoch' = epoch + 1 /\ subscription' = id

\* The guest says that a file is dragged over it.
Dragged(id) ==
  IF id = subscription /\ Allowed /\ (~inert \/ armed)
  THEN Arm /\ UNCHANGED <<subscription, epoch>>
  ELSE UNCHANGED frame

Move == moves < MaxMoves /\ moves' = moves + 1

\* A file is dragged over the frame, seen by the host.
Over ==
  /\ Move
  /\ IF armed /\ ~Allowed THEN Reset
     ELSE IF armed \/ (subscription # None /\ Allowed /\ ~inert)
     THEN Arm ELSE UNCHANGED <<armed, inert, timer>>
  /\ UNCHANGED <<subscription, epoch, bridge, guest, hidden, drops, toHost, toGuest, active, reading>>

\* The file leaves the frame, or the drag ends.
DragLeaves ==
  /\ Move /\ armed /\ Reset
  /\ UNCHANGED <<subscription, epoch, bridge, guest, hidden, drops, toHost, toGuest, active, reading>>

\* No file was seen over the frame for a second and a half.
TimerFires ==
  /\ timer /\ Reset
  /\ UNCHANGED <<subscription, epoch, bridge, guest, world, toHost, toGuest, active, reading>>

\* Files are dropped: the host starts to read them, unless the frame is not allowed to.
Drop ==
  /\ Move /\ armed
  /\ Reset /\ epoch' = epoch + 1
  /\ drops' = drops + 1
  /\ reading' = IF Allowed /\ subscription # None
                THEN reading \cup {[drop |-> drops', id |-> subscription, epoch |-> epoch']}
                ELSE reading
  /\ UNCHANGED <<subscription, bridge, guest, hidden, toHost, toGuest, active>>

\* As if a drop stayed valid when another one is made.
StillSubscribed(r) == r.id = subscription /\ Allowed
Valid(r) == r.epoch = epoch /\ r.id = subscription /\ Allowed

\* A drop has been read, or a limit or a failure ended the reading.
ReadDrop(r) ==
  /\ r \in reading
  /\ reading' = reading \ {r}
  /\ toGuest' = IF Valid(r) THEN Append(toGuest, [kind |-> "drop", id |-> r.id, drop |-> r.drop])
                ELSE toGuest
  /\ UNCHANGED <<bridge, guest, frame, world, toHost, active>>

\* The frame is hidden or shown, or its permission changes.
Hide ==
  /\ Move /\ hidden' = ~hidden
  /\ UNCHANGED <<bridge, guest, frame, drops, toHost, toGuest, active, reading>>

\* Another document is loaded in the frame: its state is gone.
Load ==
  /\ Move
  /\ Subscribe(None)
  /\ awaited' = {} /\ registered' = None
  /\ UNCHANGED <<inflight, invoked, calls, listeners, received, hidden, drops, toHost, toGuest, active, reading>>

\* The host takes the bridge down.
Dispose ==
  /\ Move /\ active
  /\ active' = FALSE /\ Subscribe(None)
  /\ UNCHANGED <<bridge, guest, hidden, drops, toHost, toGuest, reading>>

-----------------------------------------------------------------------------
(* Dropped files, on the side of the guest, and the messages.               *)

\* The page listens for drops; an earlier listener is replaced.
OnFileDrop ==
  /\ listeners < MaxListeners
  /\ listeners' = listeners + 1 /\ registered' = listeners'
  /\ toHost' = Append(toHost, [kind |-> "subscribe", id |-> listeners', enabled |-> TRUE])
  /\ UNCHANGED <<received, bridge, frame, world, toGuest, active, reading>>

\* A listener is removed, unless it was replaced.
OffFileDrop ==
  /\ registered # None
  /\ registered' = None
  /\ toHost' = Append(toHost, [kind |-> "subscribe", id |-> registered, enabled |-> FALSE])
  /\ UNCHANGED <<listeners, received, bridge, frame, world, toGuest, active, reading>>

FileDrag ==
  /\ Move /\ registered # None
  /\ toHost' = Append(toHost, [kind |-> "drag", id |-> registered])
  /\ UNCHANGED <<bridge, guest, frame, hidden, drops, toGuest, active, reading>>

\* A message of the guest reaches the host.
HostReceives ==
  /\ toHost # <<>>
  /\ LET message == Head(toHost)
     IN  IF ~active THEN UNCHANGED <<inflight, invoked, toGuest, frame>>
         ELSE IF message.kind = "request"
         THEN TakeCall(message.id) /\ UNCHANGED frame
         ELSE /\ UNCHANGED <<inflight, invoked, toGuest>>
              /\ IF message.kind = "subscribe"
                 THEN Subscribe(IF message.enabled THEN message.id ELSE None)
                 ELSE Dragged(message.id)
  /\ toHost' = Tail(toHost)
  /\ UNCHANGED <<awaited, calls, guest, world, active, reading>>

\* A message of the host reaches the guest: late answers and drops are ignored.
GuestReceives ==
  /\ toGuest # <<>>
  /\ LET message == Head(toGuest)
     IN  IF message.kind = "response"
         THEN awaited' = awaited \ {message.id} /\ UNCHANGED received
         ELSE /\ received' = IF registered = message.id
                  THEN Append(received, message.drop)
                  ELSE received
              /\ UNCHANGED awaited
  /\ toGuest' = Tail(toGuest)
  /\ UNCHANGED <<inflight, invoked, calls, registered, listeners, frame, world, toHost, active, reading>>

-----------------------------------------------------------------------------

Init ==
  /\ awaited = {} /\ inflight = 0 /\ invoked = {} /\ calls = 0
  /\ registered = None /\ listeners = 0 /\ received = <<>>
  /\ toHost = <<>> /\ toGuest = <<>> /\ active = TRUE
  /\ subscription = None /\ armed = FALSE /\ inert = FALSE /\ timer = FALSE /\ epoch = 0
  /\ hidden = FALSE /\ moves = 0 /\ drops = 0 /\ reading = {}

Runs == \/ HostReceives \/ GuestReceives \/ TimerFires
        \/ \E c \in Calls : Invoked(c)
        \/ \E r \in reading : ReadDrop(r)

Next ==
  \/ Call \/ \E c \in Calls : GiveUp(c)
  \/ OnFileDrop \/ OffFileDrop \/ FileDrag
  \/ Over \/ DragLeaves \/ Drop \/ Hide \/ Load \/ Dispose
  \/ Runs

Spec == Init /\ [][Next]_vars

\* Messages arrive, timers fire, and the service and the files answer.
Fairness ==
  /\ WF_vars(HostReceives) /\ WF_vars(GuestReceives) /\ WF_vars(TimerFires)
  /\ WF_vars(\E c \in Calls : Invoked(c))
  /\ WF_vars(\E c \in Calls : GiveUp(c))
  /\ WF_vars(\E r \in reading : ReadDrop(r))

-----------------------------------------------------------------------------
(* Properties.                                                              *)

\* A listener is given the drops in the order they were made, each at most once: one
\* whose reading ends after a later drop is never delivered, however slow the files of
\* it were (host.mjs 92-170, guest.js 60-65).
DropDelivered == \A i, j \in DOMAIN received : i < j => received[i] < received[j]

\* In the end no call waits, the host counts none, and the frame is not inert: no order
\* of calls, refusals, reloads and drags uses up a place or blocks the frame for good
\* (host.mjs 9-41 and 57-70, guest.js 66-88).
ComesToRest == <>[](awaited = {} /\ inflight = 0 /\ ~inert)
=============================================================================
