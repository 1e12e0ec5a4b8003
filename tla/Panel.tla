-------------------------------- MODULE Panel --------------------------------
(***************************************************************************)
(* The panel beside the conversation (dialogs.js environment, graph,       *)
(* showPanel and the operations on it): the environment is shown at once,  *)
(* the graph once the service has answered.  A fragment that was asked for *)
(* is still under way when the panel is closed or shows something else.    *)
(***************************************************************************)
EXTENDS Integers

CONSTANTS
  None,
  MaxUses       \* bound of what the user asks of the panel

\* What an instance must satisfy.
PanelAssumption == MaxUses \in Nat

VARIABLES
  panel,     \* dialogs.panel: what the panel shows, None when it is hidden
  reads,     \* reads of the graph that await an answer
  fetching,  \* what the fragment that is awaited shows
  filled,    \* what the element holds, hidden or not
  missed,    \* history: the last fragment asked for never came
  uses

vars == <<panel, reads, fetching, filled, missed, uses>>

Contents == {None, "environment", "graph"}

TypeOK ==
  /\ {panel, fetching, filled} \subseteq Contents
  /\ missed \in BOOLEAN /\ reads \in 0..MaxUses /\ uses \in 0..MaxUses

Init ==
  /\ panel = None /\ fetching = None /\ filled = None
  /\ reads = 0 /\ uses = 0 /\ missed = FALSE

Use == uses < MaxUses /\ uses' = uses + 1

\* The panel appears with what it held before; its new fragment is awaited, and one that
\* was awaited is outdated.
ShowPanel(content) ==
  panel' = content /\ fetching' = content /\ missed' = FALSE /\ UNCHANGED filled

Environment == Use /\ ShowPanel("environment") /\ UNCHANGED reads

\* The graph of the latest answer, or of the one that was chosen, is read.
Graph == Use /\ reads' = reads + 1 /\ UNCHANGED <<panel, fetching, filled, missed>>

\* The panel reads again what it shows.
Refresh == panel # None /\ IF panel = "graph" THEN Graph ELSE Environment

\* The panel is emptied and hidden; what it awaits is not given up.
ClosePanel ==
  /\ panel # None /\ panel' = None /\ filled' = None
  /\ UNCHANGED <<reads, fetching, missed, uses>>

\* The answer opens the panel, whatever it shows by now.
GraphRead ==
  /\ reads > 0 /\ reads' = reads - 1
  /\ ShowPanel("graph") /\ UNCHANGED uses

GraphFails == reads > 0 /\ reads' = reads - 1 /\ UNCHANGED <<panel, fetching, filled, missed, uses>>

Filled ==
  /\ fetching # None /\ filled' = fetching /\ fetching' = None
  /\ UNCHANGED <<panel, reads, missed, uses>>

FillFails ==
  /\ fetching # None /\ fetching' = None /\ missed' = TRUE
  /\ UNCHANGED <<panel, reads, filled, uses>>

Next ==
  \/ Environment \/ Graph \/ Refresh \/ ClosePanel
  \/ GraphRead \/ GraphFails \/ Filled \/ FillFails

Spec == Init /\ [][Next]_vars

\* The service answers, or the page stops to wait.
Fairness == WF_vars(GraphRead \/ GraphFails) /\ WF_vars(Filled \/ FillFails)

\* In the end nothing is awaited, and a panel that is visible holds what its buttons act
\* on, unless its fragment could not be fetched: a fragment that comes after the panel was
\* closed or changed does not stay in it (dialogs.js 272-287, 671-746).
ComesToRest ==
  <>[](reads = 0 /\ fetching = None /\ (panel # None /\ ~missed => filled = panel))
=============================================================================
