------------------------------ MODULE Dialogs ------------------------------
(***************************************************************************)
(* The dialog of the page (dialogs.js, and the panels and forms of         *)
(* native-workspace.js): one dialog at a time, whose fragment is rendered  *)
(* by the service, operations that await an answer while the user opens    *)
(* and closes others, and a secret that is revealed for thirty seconds.    *)
(*                                                                         *)
(* What the page shows lags behind the dialog that is current: a fragment  *)
(* replaces it when it is answered, and not at all when that fails.        *)
(*                                                                         *)
(* A definition introduced with "As if" is not part of the model: it is the *)
(* next one with a plausible mistake, kept to see which property notices.  *)
(***************************************************************************)
EXTENDS Integers, FiniteSets

CONSTANTS
  None,
  MaxOperations \* bound: operations begun by the user

\* "entry" shows a secret, "form" and "confirm" have a button that starts a change,
\* "tasks" is refreshed by the poll, "panel" is a file or archive list.
Kinds == {"entry", "form", "confirm", "tasks", "panel", "other"}
Slots == 1..2

\* What an instance must satisfy.
OperationsAssumption == MaxOperations \in Nat

VARIABLES
  current,     \* the kind of the dialog that is open
  rendering,   \* its fragment is awaited
  drawn,       \* the kind of the dialog on the page
  outdated,    \* another dialog was opened since it was drawn
  disabled,    \* the button on the page is disabled
  confirm,     \* there is an action to confirm
  operation,   \* operations that await an answer
  secrets,     \* the value is kept, to be copied or hidden
  displayed,   \* the value is on the page
  generation,  \* the reveal whose timer counts, 0 for none
  reveals,     \* reveals answered so far
  timers,      \* timers of reveals: generation, and whether the epoch is theirs
  begun

dialog == <<current, rendering, drawn, outdated, disabled, confirm>>
secret == <<secrets, displayed, generation, reveals, timers>>
vars == <<dialog, operation, secret, begun>>

Operation == [kind : {"load", "confirm", "submit", "opening", "panel", "rename", "reveal", "poll"},
              to : Kinds \cup {None},  \* the dialog its answer opens, None for closing
              fresh : BOOLEAN,         \* dialogs.epoch is still the one it read
              attached : BOOLEAN]      \* the page still shows the dialog it began on

TypeOK ==
  /\ {current, drawn} \subseteq Kinds \cup {None}
  /\ {rendering, outdated, disabled, confirm, secrets, displayed} \subseteq BOOLEAN
  /\ \A s \in Slots : operation[s] \in Operation \cup {None}
  /\ generation \in 0..MaxOperations /\ reveals \in 0..MaxOperations
  /\ timers \subseteq [generation : 1..MaxOperations, fresh : BOOLEAN]
  /\ begun \in 0..MaxOperations

-----------------------------------------------------------------------------

\* The epoch moves on: what was begun or timed before belongs to an earlier one.
Aged(operations) ==
  [s \in Slots |-> IF operations[s] = None THEN None ELSE [operations[s] EXCEPT !.fresh = FALSE]]
Detached(operations) ==
  [s \in Slots |-> IF operations[s] = None THEN None
                   ELSE [operations[s] EXCEPT !.attached = FALSE]]
Outdated == {[t EXCEPT !.fresh = FALSE] : t \in timers}

\* A dialog is opened in place of the one that is open; its fragment is awaited.
OpenIn(kind, operations) ==
  /\ current' = kind /\ rendering' = TRUE /\ outdated' = TRUE
  /\ confirm' = (confirm \/ kind = "confirm")
  /\ operation' = Aged(operations)
  /\ timers' = Outdated
  /\ UNCHANGED <<drawn, secrets, displayed, generation, reveals>>

\* The dialog is closed: the page is empty at once and no fragment replaces it.
CloseIn(operations) ==
  /\ current' = None /\ rendering' = FALSE /\ drawn' = None /\ outdated' = FALSE
  /\ disabled' = FALSE
  /\ confirm' = FALSE
  /\ operation' = Detached(Aged(operations))
  /\ timers' = Outdated
  /\ secrets' = FALSE /\ displayed' = FALSE
  /\ UNCHANGED <<generation, reveals>>

Without(s) == [operation EXCEPT ![s] = None]
Beginning(kind, to) == [kind |-> kind, to |-> to, fresh |-> TRUE, attached |-> TRUE]
Begins(s, kind, to) == [operation EXCEPT ![s] = Beginning(kind, to)]
Polling == \E s \in Slots : operation[s] # None /\ operation[s].kind = "poll"

\* The user begins something, in the first slot that is free.
Begin(s) ==
  /\ operation[s] = None /\ (\A i \in 1..(s - 1) : operation[i] # None)
  /\ begun < MaxOperations /\ begun' = begun + 1

-----------------------------------------------------------------------------
(* The user.                                                                *)

\* Settings, a provider, a question, an approval, a confirmation: opened at once.
Open(kind) ==
  /\ begun < MaxOperations /\ begun' = begun + 1
  /\ OpenIn(kind, operation) /\ UNCHANGED disabled

Close ==
  /\ current # None
  /\ CloseIn(operation)
  /\ UNCHANGED begun

\* Tasks, skills, a source, an entry, spaces: read first, then opened.
Load(s, kind) ==
  /\ Begin(s)
  /\ operation' = Begins(s, "load", kind)
  /\ UNCHANGED <<dialog, secret>>

\* The poll refreshes the list of tasks.
PollTasks(s) ==
  /\ current = "tasks" /\ operation[s] = None /\ ~Polling
  /\ operation' = Begins(s, "poll", "tasks")
  /\ UNCHANGED <<dialog, secret, begun>>

\* The files or the archived conversations of the device: opened, then read once the
\* fragment is there.
Panel(s) ==
  /\ Begin(s)
  /\ current' = "panel" /\ rendering' = TRUE /\ outdated' = TRUE
  /\ operation' = [Aged(operation) EXCEPT ![s] = Beginning("opening", "panel")]
  /\ timers' = Outdated
  /\ UNCHANGED <<drawn, disabled, confirm, secrets, displayed, generation, reveals>>

\* More of the archived conversations is read.
More(s) ==
  /\ drawn = "panel" /\ current = "panel" /\ Begin(s)
  /\ operation' = Begins(s, "panel", "panel")
  /\ UNCHANGED <<dialog, secret>>

\* The button of a confirmation, of a form, or of the new name of a conversation.
Press(s, kind, to) ==
  /\ Begin(s) /\ ~disabled
  /\ IF kind = "confirm" THEN drawn = "confirm" /\ confirm ELSE drawn = "form"
  /\ disabled' = TRUE
  /\ operation' = Begins(s, kind, to)
  /\ UNCHANGED <<current, rendering, drawn, outdated, confirm, secret>>

\* A secret is revealed, or hidden when its value is there.
Reveal(s) ==
  /\ drawn = "entry" /\ ~secrets /\ Begin(s)
  /\ operation' = Begins(s, "reveal", None)
  /\ UNCHANGED <<dialog, secret>>

HideSecret ==
  /\ drawn = "entry" /\ secrets
  /\ secrets' = FALSE /\ displayed' = FALSE
  /\ UNCHANGED <<dialog, operation, generation, reveals, timers, begun>>

-----------------------------------------------------------------------------
(* Answers and timers.                                                      *)

\* The panel that awaits the fragment of the dialog that is current.
Awaiting(s) == operation[s] # None /\ operation[s].kind = "opening" /\ operation[s].fresh
PanelsGoOn ==
  [s \in Slots |-> IF Awaiting(s) THEN [operation[s] EXCEPT !.kind = "panel"] ELSE operation[s]]
PanelsEnd == [s \in Slots |-> IF Awaiting(s) THEN None ELSE operation[s]]

\* The fragment of the dialog that is current replaces what the page shows; a panel that
\* awaited it is read.
Rendered ==
  /\ rendering /\ rendering' = FALSE
  /\ drawn' = current /\ outdated' = FALSE /\ disabled' = FALSE
  /\ displayed' = FALSE
  /\ operation' = Detached(PanelsGoOn)
  /\ UNCHANGED <<current, confirm, secrets, generation, reveals, timers, begun>>

\* Without its fragment a panel is not read.
RenderFails ==
  /\ rendering /\ rendering' = FALSE
  /\ operation' = PanelsEnd
  /\ UNCHANGED <<current, drawn, outdated, disabled, confirm, secret, begun>>

\* The fragment of a panel comes after another dialog was opened, or none: the panel is
\* read all the same, and dialogs.epoch is the one of now.
PanelOpened(s) ==
  /\ operation[s] # None /\ operation[s].kind = "opening" /\ ~operation[s].fresh
  /\ operation' = [operation EXCEPT ![s].kind = "panel", ![s].fresh = TRUE]
  /\ UNCHANGED <<dialog, secret, begun>>

\* What was read is opened, whatever dialog is open by now.
Loaded(s) ==
  /\ operation[s] # None /\ operation[s].kind \in {"load", "poll"}
  /\ OpenIn(operation[s].to, Without(s))
  /\ UNCHANGED <<disabled, begun>>

\* What was read of a panel, or the error instead of it, is opened while dialogs.epoch is
\* the one it read after its fragment: also in place of what was opened before that, or
\* after it was closed.
PanelRead(s) ==
  /\ operation[s] # None /\ operation[s].kind = "panel"
  /\ IF operation[s].fresh THEN OpenIn("panel", Without(s)) /\ UNCHANGED disabled
     ELSE operation' = Without(s) /\ UNCHANGED <<dialog, secret>>
  /\ UNCHANGED begun

\* The button is given back when the page still has it.
StillDisabled(s) == disabled /\ ~operation[s].attached

\* The change is done, in a dialog that another one has replaced: only the button is left.
Superseded(s) ==
  /\ ~operation[s].fresh
  /\ operation' = Without(s) /\ disabled' = StillDisabled(s)
  /\ UNCHANGED <<current, rendering, drawn, outdated, confirm, secret, begun>>

\* A confirmed action closes its own dialog only.
Confirmed(s) ==
  /\ operation[s] # None /\ operation[s].kind = "confirm"
  /\ \/ Superseded(s)
     \/ operation[s].fresh /\ CloseIn(Without(s)) /\ UNCHANGED begun

\* So does the new name of a conversation.
Renamed(s) ==
  /\ operation[s] # None /\ operation[s].kind = "rename"
  /\ \/ Superseded(s)
     \/ operation[s].fresh /\ CloseIn(Without(s)) /\ UNCHANGED begun

\* A form closes the dialog that is open, or opens the list it changed.
Changed(s) ==
  /\ operation[s] # None /\ operation[s].kind = "submit"
  /\ IF operation[s].to = None THEN CloseIn(Without(s))
     ELSE OpenIn(operation[s].to, Without(s)) /\ disabled' = StillDisabled(s)
  /\ UNCHANGED begun

\* As if only the first reveal of a secret was told its timer.
FirstGeneration == IF generation = 0 THEN reveals' ELSE generation
NextGeneration == reveals'

\* The value is shown, unless the dialog is another one by now.
Revealed(s) ==
  /\ operation[s] # None /\ operation[s].kind = "reveal"
  /\ operation' = Without(s)
  /\ IF operation[s].fresh
     THEN /\ reveals' = reveals + 1 /\ generation' = NextGeneration
          /\ secrets' = TRUE /\ displayed' = (displayed \/ operation[s].attached)
          /\ timers' = timers \cup {[generation |-> reveals', fresh |-> TRUE]}
     ELSE UNCHANGED secret
  /\ UNCHANGED <<dialog, begun>>

\* Thirty seconds later the value is hidden, unless it was revealed again or the dialog
\* is another one.
TimerFires(t) ==
  /\ t \in timers /\ timers' = timers \ {t}
  /\ IF t.fresh /\ generation = t.generation
     THEN secrets' = FALSE /\ displayed' = FALSE
     ELSE UNCHANGED <<secrets, displayed>>
  /\ UNCHANGED <<dialog, operation, generation, reveals, begun>>

\* An answer is an error: it is reported in the dialog, and the button works again.  So ends
\* a panel whose device is no longer the page's.
Fails(s) ==
  /\ operation[s] # None /\ ~Awaiting(s)
  /\ operation' = Without(s)
  /\ disabled' = IF operation[s].kind \in {"confirm", "rename", "submit"}
                 THEN StillDisabled(s) ELSE disabled
  /\ UNCHANGED <<current, rendering, drawn, outdated, confirm, secret, begun>>

-----------------------------------------------------------------------------

Init ==
  /\ current = None /\ rendering = FALSE /\ drawn = None /\ outdated = FALSE
  /\ disabled = FALSE /\ confirm = FALSE
  /\ operation = [s \in Slots |-> None] /\ begun = 0
  /\ secrets = FALSE /\ displayed = FALSE /\ generation = 0 /\ reveals = 0 /\ timers = {}

Answers(s) ==
  \/ Loaded(s) \/ PanelOpened(s) \/ PanelRead(s) \/ Confirmed(s) \/ Renamed(s) \/ Changed(s)
  \/ Revealed(s) \/ Fails(s)

Next ==
  \/ \E kind \in {"form", "confirm", "other"} : Open(kind)
  \/ Close \/ HideSecret \/ Rendered \/ RenderFails
  \/ \E s \in Slots :
       \/ \E kind \in {"entry", "tasks", "other"} : Load(s, kind)
       \/ PollTasks(s) \/ Panel(s) \/ More(s) \/ Reveal(s)
       \/ \E kind \in {"confirm", "rename"} : Press(s, kind, None)
       \/ \E to \in {None, "other"} : Press(s, "submit", to)
       \/ Answers(s)
  \/ \E t \in timers : TimerFires(t)

Spec == Init /\ [][Next]_vars

\* Answers come, or their timers fire.
Fairness ==
  /\ WF_vars(Rendered \/ RenderFails)
  /\ \A s \in Slots : WF_vars(Answers(s))
  /\ WF_vars(\E t \in timers : TimerFires(t))

-----------------------------------------------------------------------------
(* Properties.                                                              *)

\* A secret on the page is about to be hidden: the timer of its last reveal still runs in
\* this epoch.  Only a dialog that was opened over it, whose fragment is still missing or
\* never came, leaves it there longer (dialogs.js 320-355, 26-46).
SecretTimed ==
  displayed /\ ~outdated => \E t \in timers : t.fresh /\ t.generation = generation

\* In the end no timer is left and no button stays disabled (dialogs.js 62-77, 408-564).
ComesToRest == <>[](timers = {} /\ ~disabled)
=============================================================================
