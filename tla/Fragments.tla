------------------------------ MODULE Fragments ------------------------------
(***************************************************************************)
(* Drawing an element from fragments of the service (transport.js render,  *)
(* messagesFragment, cancelRender): messages are fetched one by one, a few *)
(* at a time, unless the fragment of the same content is in the cache.     *)
(* Several drawings of the element may be under way; they take the cache   *)
(* as it is when they begin and replace it when they end.                  *)
(***************************************************************************)
EXTENDS Integers, FiniteSets, Sequences

CONSTANTS
  None,
  MaxMessages, MaxContent,  \* bounds of what is drawn
  Chunk,                    \* fragments fetched at a time (4)
  MaxDrawings               \* bound of the drawings

VARIABLES
  version,   \* versions: of the element
  drawings,  \* those under way
  cache,     \* messageCaches: the content of a message and its fragment
  element,   \* the fragments on the page
  latest,    \* history: what was last to be drawn
  lost       \* history: that was cancelled, or could not be fetched

vars == <<version, drawings, cache, element, latest, lost>>

Drawings == 1..MaxDrawings
Contents == 1..MaxContent
Data == UNION {[1..n -> Contents] : n \in 0..MaxMessages}
Entry == [content : Contents, html : Contents]
Cache == UNION {[1..n -> Entry] : n \in 0..MaxMessages}

Drawing == [data : Data, version : 1..MaxDrawings, previous : Cache, next : Cache]

\* What an instance must satisfy.
FragmentsAssumption ==
  /\ {MaxMessages, MaxContent, MaxDrawings} \subseteq Nat /\ Chunk \in Nat \ {0}
  /\ None \notin Drawing

TypeOK ==
  /\ version \in 0..(MaxDrawings + 1) /\ cache \in Cache
  /\ drawings \in [Drawings -> Drawing \cup {None}]
  /\ element \in Data /\ latest \in Data /\ lost \in BOOLEAN

Init ==
  /\ version = 0 /\ drawings = [d \in Drawings |-> None] /\ cache = <<>>
  /\ element = <<>> /\ latest = <<>> /\ lost = FALSE

\* A conversation is to be drawn, or drawn again.
Render(data) ==
  /\ version < MaxDrawings /\ version' = version + 1
  /\ \E d \in Drawings :
       /\ drawings[d] = None /\ \A e \in 1..(d - 1) : drawings[e] # None
       /\ drawings' = [drawings EXCEPT ![d] =
            [data |-> data, version |-> version', previous |-> cache, next |-> <<>>]]
  /\ latest' = data /\ lost' = FALSE
  /\ UNCHANGED <<cache, element>>

\* What is being drawn is given up: another conversation, or the dialog is closed.
CancelRender ==
  /\ \E d \in Drawings : drawings[d] # None /\ drawings[d].version = version
  /\ version' = version + 1 /\ lost' = TRUE
  /\ UNCHANGED <<drawings, cache, element, latest>>

\* The entry of a message: from the cache if its content is the same, else fetched.
Fragment(drawing, i) ==
  IF i \in DOMAIN drawing.previous /\ drawing.previous[i].content = drawing.data[i]
  THEN drawing.previous[i]
  ELSE [content |-> drawing.data[i], html |-> drawing.data[i]]

\* The fragments of a chunk are there.
MessagesFragment(d) ==
  LET drawing == drawings[d]
      done == Len(drawing.next)
      upTo == IF done + Chunk < Len(drawing.data) THEN done + Chunk ELSE Len(drawing.data)
  IN  /\ drawing # None /\ done < Len(drawing.data)
      /\ drawings' = [drawings EXCEPT ![d].next =
           [i \in 1..upTo |-> IF i <= done THEN drawing.next[i] ELSE Fragment(drawing, i)]]
      /\ UNCHANGED <<version, cache, element, latest, lost>>

\* All are there: they are kept, and shown unless something else is to be drawn by now.
Rendered(d) ==
  LET drawing == drawings[d]
  IN  /\ drawing # None /\ Len(drawing.next) = Len(drawing.data)
      /\ drawings' = [drawings EXCEPT ![d] = None]
      /\ cache' = drawing.next
      /\ element' = IF drawing.version = version
                    THEN [i \in DOMAIN drawing.next |-> drawing.next[i].html] ELSE element
      /\ UNCHANGED <<version, latest, lost>>

\* A fragment could not be fetched.
RenderFails(d) ==
  /\ drawings[d] # None /\ Len(drawings[d].next) < Len(drawings[d].data)
  /\ drawings' = [drawings EXCEPT ![d] = None]
  /\ lost' = (lost \/ drawings[d].version = version)
  /\ UNCHANGED <<version, cache, element, latest>>

Goes(d) == MessagesFragment(d) \/ Rendered(d) \/ RenderFails(d)

Next ==
  \/ \E data \in Data : Render(data)
  \/ CancelRender
  \/ \E d \in Drawings : Goes(d)

Spec == Init /\ [][Next]_vars

\* The service answers or the call times out.
Fairness == \A d \in Drawings : WF_vars(Goes(d))

\* The page never shows a mixture of two drawings or a message in the content of another:
\* with nothing under way it is what was last to be drawn, unless that was cancelled or could
\* not be fetched (transport.js 12-66, 122-126).
LatestShown ==
  (\A d \in Drawings : drawings[d] = None) /\ ~lost => element = latest

\* Every drawing ends.
ComesToRest == <>[](\A d \in Drawings : drawings[d] = None)
=============================================================================
