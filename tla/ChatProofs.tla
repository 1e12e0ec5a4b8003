------------------------------ MODULE ChatProofs -------------------------------
(***************************************************************************)
(* A handler that awaited an answer goes on with a page that others may    *)
(* have changed.  What it may rely on is the inductive invariant Kept: the *)
(* conversations that are named exist, one command writes at a time, and a *)
(* text keeps one request id until the page turns away from it.            *)
(***************************************************************************)
EXTENDS Chat, FiniteSetTheorems, TLAPS

\* The waits of a handler.
Awaits(kind, at) ==
  \/ kind = "select" /\ at \in {"get", "spaces", "host", "draw"}
  \/ kind = "restore" /\ at \in {"get", "draw"}
  \/ kind = "send" /\ at \in {"create", "open", "list", "host", "draw", "post", "reread", "wrap"}
  \/ kind = "create" /\ at \in {"create", "open", "list", "host", "draw"}
  \/ kind = "stop" /\ at = "cancel"
  \/ kind = "poll" /\ at = "get"

Writer(h) == task[h] # None /\ task[h].kind \in {"send", "create"}

\* A text whose conversation is still being created.
Early(h) ==
  /\ task[h] # None /\ task[h].kind = "send"
  /\ task[h].at \in {"create", "open", "list", "host", "draw"}

\* What is true of a handler that waits.
Sound(h) == task[h] # None =>
  /\ Awaits(task[h].kind, task[h].at) /\ (h = Poller <=> task[h].kind = "poll")
  /\ task[h].at \in {"get", "open", "spaces", "post", "reread", "cancel"} =>
       task[h].id \in Ids /\ conv[task[h].id] # None
  /\ task[h].data # None => task[h].at \in {"get", "open", "reread", "cancel"}
                            /\ task[h].data.id = task[h].id
  /\ task[h].kind = "send" => /\ draft \in {0, task[h].text}
                              /\ task[h].at # "wrap" => task[h].text \in Texts
  /\ task[h].kind = "create" => draft \in {0} \cup moved
  /\ task[h].kind # "send" => task[h].text = 0
  /\ task[h].at = "post" => task[h].request \in 1..requests
  /\ task[h].at = "reread" => \E m \in conv[task[h].id].posts : m.text = task[h].text
  /\ task[h].text <= typed
  /\ Early(h) => requests < events

\* What is named exists, and numbers are drawn in order.
Known ==
  /\ shown # None => conv[shown.id] # None
  /\ url # None => conv[url] # None
  /\ \A p \in mail : conv[p.id] # None
  /\ draft <= typed /\ \A t \in moved : t <= typed
  /\ requests <= events

\* The page is busy while one command writes.
Single ==
  /\ \A h, i \in Slots : Writer(h) /\ Writer(i) => h = i
  /\ busy <=> \E h \in Slots : Writer(h)

\* Submissions that are recorded, on their way, to be confirmed or about to be sent.
Carries(p) ==
  \/ conv[p.id] # None /\ [text |-> p.text, request |-> p.request] \in conv[p.id].posts
  \/ p \in mail
  \/ pending = p
  \/ \E h \in Slots : /\ task[h] # None /\ task[h].at = "post" /\ task[h].id = p.id
                      /\ task[h].text = p.text /\ task[h].request = p.request
Carried == {p \in Prompt : Carries(p)}

\* A request id stands for one text.  A text has one submission while the page stays where
\* it is, and the one that is in the composer is the one to be confirmed.
Numbered == \A p \in Carried : p.request <= requests /\ p.text <= typed
OneText == \A p, q \in Carried : p.request = q.request => p.text = q.text
OneSubmission == \A p, q \in Carried : p.text = q.text /\ p.text \notin moved => p = q
Composed ==
  \A p \in Carried : p.text = draft /\ draft \notin moved =>
    pending = p /\ shown # None /\ shown.id = p.id
Unsent ==
  \A h \in Slots : Early(h) /\ task[h].text \notin moved =>
    draft = task[h].text /\ \A p \in Carried : p.text # task[h].text

Named == Numbered /\ OneText /\ OneSubmission /\ Composed /\ Unsent
Kept == TypeOK /\ (\A h \in Handlers : Sound(h)) /\ Known /\ Single /\ Named

-----------------------------------------------------------------------------
(* Handlers and what they carry                                             *)

\* None is told from whatever is kept where it may stand.
LEMMA NoneIsNothing ==
  /\ None \notin Ids /\ None \notin Conversation /\ None \notin Thread /\ None \notin Prompt
  /\ None \notin Task
  BY NoneAssumption

Kinds == {"select", "restore", "send", "create", "stop", "poll"}
Waits == {"get", "spaces", "create", "open", "list", "host", "draw", "post", "reread", "wrap", "cancel"}

\* A handler as it begins.
LEMMA HandlerIs ==
  ASSUME NEW kind \in Kinds, NEW at \in Waits, NEW id \in Ids \cup {None}
  PROVE  /\ Handler(kind, at, id) \in Task /\ Handler(kind, at, id) # None
         /\ Handler(kind, at, id).kind = kind /\ Handler(kind, at, id).at = at
         /\ Handler(kind, at, id).id = id /\ Handler(kind, at, id).text = 0
         /\ Handler(kind, at, id).request = 0 /\ Handler(kind, at, id).data = None
<1>1. 0 \in 0..MaxTyped /\ 0 \in 0..MaxRequests BY BoundsAssumption DEF MaxRequests
<1>2. Handler(kind, at, id) \in Task BY <1>1 DEF Handler, Task, Kinds, Waits
<1> QED BY <1>2, NoneIsNothing DEF Handler

\* A handler is still what it was, except that an epoch may have gone by.
SameTask(i) ==
  IF task[i] = None THEN task'[i] = None
  ELSE /\ task'[i] # None /\ task'[i].kind = task[i].kind /\ task'[i].at = task[i].at
       /\ task'[i].id = task[i].id /\ task'[i].text = task[i].text
       /\ task'[i].request = task[i].request /\ task'[i].data = task[i].data

LEMMA Begun ==
  ASSUME TypeOK, NEW h \in Handlers, NEW kind \in Kinds, NEW at \in Waits,
         NEW id \in Ids \cup {None}, Begin(h, kind, at, id)
  PROVE  /\ task' \in [Handlers -> Task \cup {None}] /\ task'[h] = Handler(kind, at, id)
         /\ \A i \in Handlers \ {h} : task'[i] = task[i] /\ SameTask(i)
<1>1. Handler(kind, at, id) \in Task BY HandlerIs
<1> QED BY <1>1 DEF Begin, TypeOK, SameTask

LEMMA Went ==
  ASSUME TypeOK, NEW h \in Handlers, task[h] # None, NEW at \in Waits, Go(h, at)
  PROVE  /\ task' \in [Handlers -> Task \cup {None}] /\ task'[h] # None
         /\ task'[h].kind = task[h].kind /\ task'[h].at = at /\ task'[h].id = task[h].id
         /\ task'[h].text = task[h].text /\ task'[h].request = task[h].request
         /\ task'[h].data = None
         /\ \A i \in Handlers \ {h} : task'[i] = task[i] /\ SameTask(i)
<1>1. task[h] \in Task BY DEF TypeOK
<1> DEFINE new == [task[h] EXCEPT !.at = at, !.data = None]
<1>2. /\ new \in Task /\ new.kind = task[h].kind /\ new.at = at /\ new.id = task[h].id
      /\ new.text = task[h].text /\ new.request = task[h].request /\ new.data = None
  BY <1>1 DEF Task, Waits
<1>3. task' = [task EXCEPT ![h] = new] BY DEF Go, TypeOK
<1> HIDE DEF new
<1>4. new # None BY <1>2, NoneIsNothing
<1> QED BY <1>2, <1>3, <1>4 DEF TypeOK, SameTask

LEMMA Chosen ==
  ASSUME TypeOK, NEW h \in Handlers, NEW kind \in {"select", "restore"}, NEW id \in Ids,
         Choose(h, kind, id)
  PROVE  /\ task' \in [Handlers -> Task \cup {None}] /\ task'[h] = Handler(kind, "get", id)
         /\ \A i \in Handlers \ {h} : SameTask(i)
<1>1. Handler(kind, "get", id) \in Task BY HandlerIs DEF Kinds, Waits
<1>2. ASSUME NEW i \in Handlers
      PROVE  /\ Invalidated[i] \in Task \cup {None} /\ (task[i] = None => Invalidated[i] = None)
             /\ task[i] # None =>
                  /\ Invalidated[i] # None
                  /\ Invalidated[i].kind = task[i].kind /\ Invalidated[i].at = task[i].at
                  /\ Invalidated[i].id = task[i].id /\ Invalidated[i].text = task[i].text
                  /\ Invalidated[i].request = task[i].request /\ Invalidated[i].data = task[i].data
  <2>1. CASE ~At(i, "get")
    <3>1. Invalidated[i] = task[i] BY <2>1 DEF Invalidated
    <3> QED BY <3>1 DEF TypeOK
  <2>2. CASE At(i, "get")
    <3>1. Invalidated[i] = [task[i] EXCEPT !.fresh = FALSE] BY <2>2 DEF Invalidated
    <3>2. task[i] # None /\ task[i] \in Task BY <2>2 DEF At, TypeOK
    <3>3. /\ Invalidated[i] \in Task
          /\ Invalidated[i].kind = task[i].kind /\ Invalidated[i].at = task[i].at
          /\ Invalidated[i].id = task[i].id /\ Invalidated[i].text = task[i].text
          /\ Invalidated[i].request = task[i].request /\ Invalidated[i].data = task[i].data
      BY <3>1, <3>2 DEF Task
    <3> QED BY <3>2, <3>3, NoneIsNothing
  <2> QED BY <2>1, <2>2
<1>3. task' = [Invalidated EXCEPT ![h] = Handler(kind, "get", id)] BY DEF Choose
<1>4. Invalidated \in [Handlers -> Task \cup {None}]
  <2>1. Invalidated = [i \in Handlers |-> Invalidated[i]] BY DEF Invalidated
  <2> QED BY <1>2, <2>1
<1>5. /\ task' \in [Handlers -> Task \cup {None}] /\ task'[h] = Handler(kind, "get", id)
      /\ \A i \in Handlers \ {h} : task'[i] = Invalidated[i]
  BY <1>1, <1>3, <1>4
<1> QED BY <1>2, <1>5 DEF SameTask

-----------------------------------------------------------------------------
(* What a step leaves as it was                                             *)

\* Conversations stay, and what they have recorded.
Grows == \A c \in Ids : conv[c] # None => conv'[c] # None /\ conv[c].posts \subseteq conv'[c].posts

\* Counters go up, texts stay moved.
Onward ==
  /\ requests <= requests' /\ typed <= typed' /\ events <= events'
  /\ moved \subseteq moved'

LEMMA Numbers ==
  ASSUME TypeOK
  PROVE  /\ draft \in Nat /\ typed \in Nat /\ events \in Nat /\ requests \in Nat
         /\ MaxTyped \in Nat /\ MaxEvents \in Nat /\ MaxRequests = MaxEvents
         /\ \A h \in Handlers : task[h] # None =>
              task[h] \in Task /\ task[h].text \in Nat /\ task[h].request \in Nat
<1>1. MaxTyped \in Nat /\ MaxEvents \in Nat /\ MaxRequests = MaxEvents
  BY BoundsAssumption DEF MaxRequests
<1>2. \A t \in Task : t.text \in Nat /\ t.request \in Nat BY <1>1 DEF Task
<1> QED BY <1>1, <1>2 DEF TypeOK

\* A handler that a step leaves alone stays sound.
LEMMA OthersSound ==
  ASSUME Kept, TypeOK', NEW i \in Handlers, SameTask(i), Grows, Onward,
         draft' \in {0, draft} \/ ~Writer(i), requests' = requests \/ ~Writer(i)
  PROVE  Sound(i)'
<1> SUFFICES ASSUME task'[i] # None PROVE Sound(i)'
  BY DEF Sound
<1>1. /\ task[i] # None /\ task'[i].kind = task[i].kind /\ task'[i].at = task[i].at
      /\ task'[i].id = task[i].id /\ task'[i].text = task[i].text
      /\ task'[i].request = task[i].request /\ task'[i].data = task[i].data
  BY DEF SameTask
<1>2. Sound(i) BY DEF Kept
<1>3. task[i].text \in Nat /\ task[i].request \in Nat BY <1>1, Numbers DEF Kept
<1>4. Awaits(task'[i].kind, task'[i].at) /\ (i = Poller <=> task'[i].kind = "poll")
  BY <1>1, <1>2 DEF Sound
<1>5. task'[i].at \in {"get", "open", "spaces", "post", "reread", "cancel"} =>
        task'[i].id \in Ids /\ conv'[task'[i].id] # None
  BY <1>1, <1>2 DEF Sound, Grows
<1>6. task'[i].data # None => /\ task'[i].at \in {"get", "open", "reread", "cancel"}
                              /\ task'[i].data.id = task'[i].id
  BY <1>1, <1>2 DEF Sound
<1>7. task'[i].kind = "send" => /\ draft' \in {0, task'[i].text}
                                /\ task'[i].at # "wrap" => task'[i].text \in Texts
  BY <1>1, <1>2 DEF Sound, Writer
<1>8. task'[i].kind = "create" => draft' \in {0} \cup moved'
  BY <1>1, <1>2 DEF Sound, Writer, Onward
<1>9. task'[i].kind # "send" => task'[i].text = 0 BY <1>1, <1>2 DEF Sound
<1>10. task'[i].at = "post" => task'[i].request \in 1..requests'
  <2>1. requests \in Nat /\ requests' \in Nat BY Numbers, BoundsAssumption DEF Kept, TypeOK, MaxRequests
  <2> QED BY <1>1, <1>2, <2>1 DEF Sound, Onward
<1>11. task'[i].at = "reread" => \E m \in conv'[task'[i].id].posts : m.text = task'[i].text
  BY <1>1, <1>2 DEF Sound, Grows
<1>12. task'[i].text <= typed'
  <2>1. typed \in Nat /\ typed' \in Nat BY Numbers, BoundsAssumption DEF Kept, TypeOK
  <2> QED BY <1>1, <1>2, <1>3, <2>1 DEF Sound, Onward
<1>13. Early(i)' => requests' < events'
  <2>1. /\ requests \in Nat /\ requests' \in Nat /\ events \in Nat /\ events' \in Nat
    BY Numbers, BoundsAssumption DEF Kept, TypeOK, MaxRequests
  <2>2. Early(i)' => Early(i) /\ Writer(i) BY <1>1 DEF Early, Writer
  <2> QED BY <1>1, <1>2, <2>1, <2>2 DEF Sound, Onward
<1> QED BY <1>4, <1>5, <1>6, <1>7, <1>8, <1>9, <1>10, <1>11, <1>12, <1>13 DEF Sound

\* The same commands write.
LEMMA SingleStays ==
  ASSUME Single, NEW h \in Handlers, \A i \in Handlers \ {h} : SameTask(i),
         Writer(h)' <=> Writer(h), busy' = busy
  PROVE  Single'
<1>1. \A i \in Slots : Writer(i)' <=> Writer(i)
  <2> SUFFICES ASSUME NEW i \in Slots, i # h PROVE Writer(i)' <=> Writer(i) OBVIOUS
  <2>1. SameTask(i) BY DEF Handlers
  <2> QED BY <2>1 DEF SameTask, Writer
<1> HIDE DEF Writer
<1> QED BY <1>1 DEF Single

\* The command that writes is done.
LEMMA SingleEnds ==
  ASSUME Single, NEW h \in Slots, \A i \in Handlers \ {h} : SameTask(i),
         Writer(h), ~Writer(h)', busy' = FALSE
  PROVE  Single'
<1>1. \A i \in Slots : ~Writer(i)'
  <2> SUFFICES ASSUME NEW i \in Slots, i # h PROVE ~Writer(i)' OBVIOUS
  <2>1. SameTask(i) BY DEF Handlers
  <2>2. Writer(i)' <=> Writer(i) BY <2>1 DEF SameTask, Writer
  <2> QED BY <2>2 DEF Single
<1> HIDE DEF Writer
<1> QED BY <1>1 DEF Single

\* A command begins to write.
LEMMA SingleBegins ==
  ASSUME Single, NEW h \in Slots, \A i \in Handlers \ {h} : SameTask(i),
         ~busy, Writer(h)', busy' = TRUE
  PROVE  Single'
<1>1. \A i \in Slots : Writer(i)' <=> i = h
  <2> SUFFICES ASSUME NEW i \in Slots, i # h PROVE ~Writer(i)' OBVIOUS
  <2>1. SameTask(i) BY DEF Handlers
  <2>2. Writer(i)' <=> Writer(i) BY <2>1 DEF SameTask, Writer
  <2> QED BY <2>2 DEF Single
<1> HIDE DEF Writer
<1> QED BY <1>1 DEF Single

\* Nothing carries a submission that nothing carried.
LEMMA CarriedStays ==
  ASSUME \A p \in Prompt : conv'[p.id] # None =>
           ([text |-> p.text, request |-> p.request] \in conv'[p.id].posts => p \in Carried),
         \A p \in Prompt : p \in mail' => p \in Carried,
         pending' \in {pending, None},
         \A h \in Slots : task'[h] # None /\ task'[h].at = "post" =>
           /\ task[h] # None /\ task[h].at = "post" /\ task'[h].id = task[h].id
           /\ task'[h].text = task[h].text /\ task'[h].request = task[h].request
  PROVE  Carried' \subseteq Carried
<1> SUFFICES ASSUME NEW p \in Prompt, Carries(p)' PROVE p \in Carried
  BY DEF Carried, Prompt, Texts, MaxRequests
<1>1. CASE conv'[p.id] # None /\ [text |-> p.text, request |-> p.request] \in conv'[p.id].posts
  BY <1>1
<1>2. CASE p \in mail' BY <1>2
<1>3. CASE pending' = p BY <1>3, NoneIsNothing DEF Carried, Carries
<1>4. CASE \E h \in Slots : /\ task'[h] # None /\ task'[h].at = "post" /\ task'[h].id = p.id
                            /\ task'[h].text = p.text /\ task'[h].request = p.request
  BY <1>4 DEF Carried, Carries
<1> QED BY <1>1, <1>2, <1>3, <1>4 DEF Carries

\* A step of one handler that is not about to send, and that records nothing.
LEMMA CarriedSame ==
  ASSUME NEW h \in Handlers, \A i \in Handlers \ {h} : SameTask(i),
         task'[h] # None => task'[h].at # "post",
         \A c \in Ids : conv'[c] # None =>
           conv'[c].posts = {} \/ (conv[c] # None /\ conv'[c].posts = conv[c].posts),
         mail' \subseteq Carried, pending' \in {pending, None}
  PROVE  Carried' \subseteq Carried
<1>1. \A p \in Prompt : conv'[p.id] # None =>
        ([text |-> p.text, request |-> p.request] \in conv'[p.id].posts => p \in Carried)
  <2> SUFFICES ASSUME NEW p \in Prompt, conv'[p.id] # None,
                      [text |-> p.text, request |-> p.request] \in conv'[p.id].posts
               PROVE  p \in Carried
    OBVIOUS
  <2>1. p.id \in Ids BY DEF Prompt
  <2>2. conv[p.id] # None /\ [text |-> p.text, request |-> p.request] \in conv[p.id].posts
    BY <2>1
  <2> QED BY <2>2 DEF Carried, Carries
<1>2. \A p \in Prompt : p \in mail' => p \in Carried OBVIOUS
<1>3. \A i \in Slots : task'[i] # None /\ task'[i].at = "post" =>
         /\ task[i] # None /\ task[i].at = "post" /\ task'[i].id = task[i].id
         /\ task'[i].text = task[i].text /\ task'[i].request = task[i].request
  BY DEF SameTask, Handlers
<1> QED BY <1>1, <1>2, <1>3, CarriedStays

\* The page keeps the text in the composer with its conversation, or turns away from it.
Composing ==
  \/ draft' = 0 \/ draft' \in moved'
  \/ \A p \in Carried : p.text # draft'
  \/ draft' = draft /\ pending' = pending /\ IdOf(shown') = IdOf(shown)

LEMMA NamedStays ==
  ASSUME Kept, TypeOK', Carried' \subseteq Carried, Onward, Composing, Unsent'
  PROVE  Named'
<1>1. Numbered'
  <2>1. \A p \in Carried : p.request <= requests /\ p.text <= typed BY DEF Kept, Named, Numbered
  <2>2. \A p \in Prompt : p.request \in Nat /\ p.text \in Nat
    BY BoundsAssumption DEF Prompt, Texts, MaxRequests
  <2>3. Carried \subseteq Prompt BY DEF Carried
  <2>4. requests \in Nat /\ requests' \in Nat /\ typed \in Nat /\ typed' \in Nat
    BY Numbers, BoundsAssumption DEF Kept, TypeOK, MaxRequests
  <2> QED BY <2>1, <2>2, <2>3, <2>4 DEF Numbered, Onward
<1>2. OneText' /\ OneSubmission' BY DEF Kept, Named, OneText, OneSubmission, Onward
<1>3. Composed'
  <2> SUFFICES ASSUME NEW p \in Carried', p.text = draft', draft' \notin moved'
               PROVE  pending' = p /\ shown' # None /\ shown'.id = p.id
    BY DEF Composed
  <2>1. p \in Carried /\ p \in Prompt /\ p.text \in Texts /\ p.id \in Ids BY DEF Carried, Prompt
  <2>2. p.text # 0 BY <2>1, BoundsAssumption DEF Texts
  <2>3. draft' = draft /\ pending' = pending /\ IdOf(shown') = IdOf(shown)
    BY <2>1, <2>2 DEF Composing
  <2>4. pending = p /\ shown # None /\ shown.id = p.id
    BY <2>1, <2>3 DEF Kept, Named, Composed, Onward
  <2> QED BY <2>1, <2>3, <2>4, NoneIsNothing DEF IdOf
<1> QED BY <1>1, <1>2, <1>3 DEF Named

\* A text that is not sent yet stays so.
LEMMA UnsentStays ==
  ASSUME Kept, Carried' \subseteq Carried, Onward,
         \A h \in Slots : Early(h)' /\ task'[h].text \notin moved' =>
           Early(h) /\ task'[h].text = task[h].text /\ draft' = draft
  PROVE  Unsent'
<1> SUFFICES ASSUME NEW h \in Slots, Early(h)', task'[h].text \notin moved'
    PROVE  draft' = task'[h].text /\ \A p \in Carried' : p.text # task'[h].text
  BY DEF Unsent
<1>1. Early(h) /\ task'[h].text = task[h].text /\ draft' = draft OBVIOUS
<1>2. task[h].text \notin moved BY <1>1 DEF Onward
<1> HIDE DEF Early
<1> QED BY <1>1, <1>2 DEF Kept, Named, Unsent

\* What the page turns away from: texts that were typed, in the composer or in a handler.
LEMMA InterruptedIs ==
  ASSUME Kept
  PROVE  /\ Interrupted \subseteq Texts /\ moved \subseteq Interrupted
         /\ \A t \in Interrupted : t <= typed
         /\ draft \in {0} \cup Interrupted
         /\ \A h \in Slots : task[h] # None => task[h].text \in {0} \cup Interrupted
<1>1. /\ draft \in 0..MaxTyped /\ draft <= typed /\ MaxTyped \in Nat
      /\ moved \subseteq Texts /\ \A t \in moved : t <= typed
  BY Numbers DEF Kept, TypeOK, Known
<1>2. \A h \in Slots : task[h] # None => task[h].text \in 0..MaxTyped /\ task[h].text <= typed
  BY DEF Kept, TypeOK, Task, Sound, Handlers
<1> DEFINE carried == {task[h].text : h \in {i \in Slots : task[i] # None}}
<1>3. Interrupted = moved \cup (({draft} \cup carried) \ {0}) BY DEF Interrupted
<1>4. \A t \in carried : t \in 0..MaxTyped /\ t <= typed BY <1>2
<1>5. \A h \in Slots : task[h] # None => task[h].text \in carried OBVIOUS
<1> HIDE DEF carried
<1>6. \A t \in (({draft} \cup carried) \ {0}) : t \in Texts /\ t <= typed BY <1>1, <1>4 DEF Texts
<1> QED BY <1>1, <1>3, <1>5, <1>6

\* A step of one handler, while no other is writing or what is composed stays or is dropped.
LEMMA KeptStep ==
  ASSUME Kept, TypeOK', NEW h \in Handlers, \A i \in Handlers \ {h} : SameTask(i),
         Sound(h)', Single', Grows, Onward, Named', Known',
         \/ draft' \in {0, draft} /\ requests' = requests
         \/ \A i \in Handlers \ {h} : ~Writer(i)
  PROVE  Kept'
<1>1. \A i \in Handlers : Sound(i)'
  <2> SUFFICES ASSUME NEW i \in Handlers, i # h PROVE Sound(i)' OBVIOUS
  <2> QED BY OthersSound
<1> QED BY <1>1 DEF Kept

\* A step that draws no request id and types nothing.
LEMMA StepKeeps ==
  ASSUME Kept, TypeOK', NEW h \in Handlers, \A i \in Handlers \ {h} : SameTask(i),
         Sound(h)', Single', Grows, Onward, Carried' \subseteq Carried, Composing,
         requests' = requests, draft' \in {0, draft},
         \A t \in moved' : t <= typed',
         shown' # None => conv'[shown'.id] # None, url' # None => conv'[url'] # None,
         \A p \in mail' : conv'[p.id] # None,
         \A i \in Slots : draft' = draft \/ ~Early(i) \/ task[i].text \in moved',
         h \in Slots /\ Early(h)' => Early(h) /\ task'[h].text = task[h].text
  PROVE  Kept'
<1>2. Known'
  <2>1. /\ typed \in Nat /\ typed' \in Nat /\ draft \in Nat /\ requests \in Nat /\ events \in Nat
        /\ events' \in Nat
    BY Numbers, BoundsAssumption DEF Kept, TypeOK
  <2> QED BY <2>1 DEF Kept, Known, Onward
<1>3. Unsent'
  <2> SUFFICES ASSUME NEW i \in Slots, Early(i)', task'[i].text \notin moved'
               PROVE  Early(i) /\ task'[i].text = task[i].text /\ draft' = draft
    BY UnsentStays
  <2>1. Early(i) /\ task'[i].text = task[i].text
    <3>1. CASE i = h BY <3>1
    <3>2. CASE i # h
      <4>1. SameTask(i) BY <3>2 DEF Handlers
      <4> QED BY <4>1 DEF SameTask, Early
    <3> QED BY <3>1, <3>2
  <2> QED BY <2>1
<1>4. Named' BY <1>3, NamedStays
<1> QED BY <1>2, <1>4, KeptStep

\* A handler of the user chooses a conversation: what was composed is dropped.
LEMMA ChooseKeeps ==
  ASSUME Kept, NEW h \in Slots, ~Writer(h), NEW kind \in {"select", "restore"}, NEW id \in Ids,
         conv[id] # None, Choose(h, kind, id),
         UNCHANGED <<conv, busy, typed, requests>>,
         events' \in 0..MaxEvents, events <= events',
         mail' \subseteq Carried, \A p \in mail' : conv[p.id] # None,
         shown' \in Thread \cup {None}, shown' # None => conv[shown'.id] # None,
         url' \in Ids \cup {None}, url' # None => conv[url'] # None,
         navigating' \in BOOLEAN, following' \in BOOLEAN, polling' \in {"waiting", "on", "never"}
  PROVE  Kept'
<1>0. h \in Handlers BY DEF Handlers
<1>1. /\ task' \in [Handlers -> Task \cup {None}] /\ task'[h] = Handler(kind, "get", id)
      /\ \A i \in Handlers \ {h} : SameTask(i)
  BY <1>0, Chosen DEF Kept
<1>2. /\ task'[h] # None /\ task'[h].kind = kind /\ task'[h].at = "get" /\ task'[h].id = id
      /\ task'[h].text = 0 /\ task'[h].data = None
  BY <1>1, HandlerIs DEF Kinds, Waits
<1>3. draft' = 0 /\ pending' = None /\ moved' = Interrupted BY DEF Choose
<1>4. TypeOK'
  BY <1>1, <1>3, InterruptedIs, BoundsAssumption DEF Kept, TypeOK, Carried
<1>5. Grows /\ Onward BY <1>3, InterruptedIs, Numbers DEF Grows, Onward, Kept
<1>6. Sound(h)'
  <2>1. typed \in Nat BY Numbers DEF Kept
  <2> QED BY <1>2, <2>1 DEF Sound, Awaits, Early, Slots, Poller
<1>7. Single' BY <1>0, <1>1, <1>2, SingleStays DEF Kept, Writer
<1>8. Carried' \subseteq Carried BY <1>0, <1>1, <1>2, <1>3, CarriedSame
<1>9. Composing BY <1>3 DEF Composing
<1>10. \A i \in Slots : ~Early(i) \/ task[i].text \in moved'
  <2> SUFFICES ASSUME NEW i \in Slots, Early(i) PROVE task[i].text \in moved' OBVIOUS
  <2>1. task[i] # None /\ task[i].text \in Texts BY DEF Early, Kept, Sound, Handlers
  <2>2. task[i].text # 0 BY <2>1, BoundsAssumption DEF Texts
  <2> QED BY <1>3, <2>1, <2>2, InterruptedIs
<1>11. ~Early(h)' BY <1>2 DEF Early
<1> QED BY <1>0, <1>1, <1>3, <1>4, <1>5, <1>6, <1>7, <1>8, <1>9, <1>10, <1>11, InterruptedIs,
           StepKeeps DEF Kept, Known

\* The address names no conversation: what is composed stays, and the page shows none.
LEMMA LeaveKeeps ==
  ASSUME Kept, NEW h \in Slots, ~Writer(h), Leave(h),
         UNCHANGED <<conv, busy, typed, requests>>,
         events' \in 0..MaxEvents, events <= events',
         mail' \subseteq Carried, \A p \in mail' : conv[p.id] # None,
         url' \in Ids \cup {None}, url' # None => conv[url'] # None,
         navigating' \in BOOLEAN, following' \in BOOLEAN, polling' \in {"waiting", "on", "never"}
  PROVE  Kept'
<1>0. h \in Handlers BY DEF Handlers
<1>1. /\ task' \in [Handlers -> Task \cup {None}] /\ task'[h] = Handler("restore", "draw", None)
      /\ \A i \in Handlers \ {h} : SameTask(i)
  BY <1>0, Begun DEF Kept, Leave, Kinds, Waits
<1>2. /\ task'[h] # None /\ task'[h].kind = "restore" /\ task'[h].at = "draw"
      /\ task'[h].text = 0 /\ task'[h].data = None
  BY <1>1, HandlerIs DEF Kinds, Waits
<1>3. draft' = draft /\ pending' = pending /\ moved' = Interrupted /\ shown' = None BY DEF Leave
<1>4. TypeOK'
  BY <1>1, <1>3, InterruptedIs, BoundsAssumption DEF Kept, TypeOK, Carried
<1>5. Grows /\ Onward BY <1>3, InterruptedIs, Numbers DEF Grows, Onward, Kept
<1>6. Sound(h)'
  <2>1. typed \in Nat BY Numbers DEF Kept
  <2> QED BY <1>2, <2>1 DEF Sound, Awaits, Early, Slots, Poller
<1>7. Single' BY <1>0, <1>1, <1>2, SingleStays DEF Kept, Writer
<1>8. Carried' \subseteq Carried BY <1>0, <1>1, <1>2, <1>3, CarriedSame
<1>9. Composing BY <1>3, InterruptedIs DEF Composing
<1>10. ~Early(h)' BY <1>2 DEF Early
<1> QED BY <1>0, <1>1, <1>3, <1>4, <1>5, <1>6, <1>7, <1>8, <1>9, <1>10, InterruptedIs,
           StepKeeps DEF Kept, Known

\* While the page is not busy no command writes, and the poll never does.
LEMMA Idle ==
  ASSUME Kept
  PROVE  ~Writer(Poller) /\ (~busy => \A h \in Handlers : ~Writer(h))
<1>1. ~Writer(Poller) BY DEF Kept, Sound, Handlers, Writer
<1>2. ~busy => \A h \in Slots : ~Writer(h) BY DEF Kept, Single
<1> HIDE DEF Writer
<1> QED BY <1>1, <1>2 DEF Handlers

LEMMA MailCarried == ASSUME Kept PROVE mail \subseteq Carried
BY DEF Kept, TypeOK, Carried, Carries

\* A handler ends, or follows the address again.
LEMMA EndKeeps ==
  ASSUME Kept, NEW h \in Handlers, task[h] # None, NEW thread \in Thread \cup {None},
         thread # None => conv[thread.id] # None, NEW failed, End(h, thread, failed),
         UNCHANGED <<conv, url, typed, requests>>,
         events' \in 0..MaxEvents, events <= events',
         mail' \subseteq Carried, \A p \in mail' : conv[p.id] # None,
         navigating' \in BOOLEAN
  PROVE  Kept'
<1>1. /\ busy \in BOOLEAN /\ busy' = (busy /\ task[h].kind \notin {"send", "create"})
      /\ polling' \in {"waiting", "on", "never"}
  BY DEF End, StaysBusy, Kept, TypeOK
<1>2. /\ url \in Ids \cup {None} /\ (url # None => conv[url] # None)
      /\ following \in BOOLEAN
  BY DEF Kept, TypeOK, Known
<1>3. CASE task[h].kind = "restore" /\ url # task[h].id /\ ~navigating
  <2>1. ~Writer(h) /\ busy' = busy BY <1>1, <1>3 DEF Writer
  <2>2. h \in Slots BY <1>3 DEF Kept, Sound, Handlers
  <2>3. Restore(h, thread) BY <1>3 DEF End
  <2>4. following' = TRUE BY <2>3 DEF Restore
  <2>5. CASE url # None
    <3>1. Choose(h, "restore", url) /\ shown' = thread BY <2>3, <2>5 DEF Restore
    <3> HIDE DEF Choose, Writer
    <3> QED BY <1>1, <1>2, <2>1, <2>2, <2>4, <2>5, <3>1, ChooseKeeps
  <2>6. CASE url = None
    <3>1. Leave(h) BY <2>3, <2>6 DEF Restore
    <3> HIDE DEF Leave, Writer
    <3> QED BY <1>1, <1>2, <2>1, <2>2, <2>4, <3>1, LeaveKeeps
  <2> QED BY <2>5, <2>6
<1>4. CASE ~(task[h].kind = "restore" /\ url # task[h].id /\ ~navigating)
  <2>1. /\ task' = [task EXCEPT ![h] = None]
        /\ following' = (following /\ task[h].kind # "restore")
        /\ shown' = thread /\ moved' = Turned(thread) /\ draft' = draft /\ pending' = pending
    BY <1>4 DEF End
  <2>2. /\ task' \in [Handlers -> Task \cup {None}] /\ task'[h] = None
        /\ \A i \in Handlers \ {h} : SameTask(i)
    BY <2>1 DEF Kept, TypeOK, SameTask
  <2>3. moved \subseteq moved' /\ moved' \subseteq Texts /\ \A t \in moved' : t <= typed
    BY <2>1, InterruptedIs DEF Turned, Kept, TypeOK, Known
  <2>4. TypeOK' BY <1>1, <1>2, <2>1, <2>2, <2>3 DEF Kept, TypeOK, Carried
  <2>5. Sound(h)' BY <2>2 DEF Sound
  <2>6. ~Writer(h)' BY <2>2 DEF Writer
  <2>7. Single'
    <3>1. CASE Writer(h)
      <4>1. busy' = FALSE BY <1>1, <3>1 DEF Writer
      <4>2. h \in Slots BY <3>1, Idle DEF Handlers
      <4> QED BY <2>2, <2>6, <3>1, <4>1, <4>2, SingleEnds DEF Kept
    <3>2. CASE ~Writer(h)
      <4>1. busy' = busy BY <1>1, <3>2 DEF Writer
      <4> QED BY <2>2, <2>6, <3>2, <4>1, SingleStays DEF Kept
    <3> QED BY <3>1, <3>2
  <2>8. Grows /\ Onward BY <2>3, Numbers DEF Grows, Onward, Kept
  <2>9. Carried' \subseteq Carried BY <2>1, <2>2, CarriedSame
  <2>10. Composing BY <2>1, InterruptedIs DEF Composing, Turned
  <2>11. ~Early(h)' BY <2>2 DEF Early
  <2> HIDE DEF Early
  <2> QED BY <1>2, <2>1, <2>2, <2>3, <2>4, <2>5, <2>7, <2>8, <2>9, <2>10, <2>11, StepKeeps
<1> QED BY <1>3, <1>4

-----------------------------------------------------------------------------
(* The steps                                                                *)

LEMMA InitKeeps == Init => Kept
<1> SUFFICES ASSUME Init PROVE Kept OBVIOUS
<1>1. PICK kind \in {"select", "restore"}, at \in {"get", "draw"}, id \in Initial \cup {None} :
        /\ (at = "get") <=> (id # None)
        /\ kind = "select" => id # None
        /\ following = (kind = "restore")
        /\ task = [h \in Handlers |-> IF h = First THEN Handler(kind, at, id) ELSE None]
  BY DEF Init
<1>2. id \in Ids \cup {None} /\ (id # None => id \in Initial) BY IdsAssumption
<1>3. /\ Handler(kind, at, id) \in Task /\ Handler(kind, at, id) # None
      /\ Handler(kind, at, id).kind = kind /\ Handler(kind, at, id).at = at
      /\ Handler(kind, at, id).id = id /\ Handler(kind, at, id).text = 0
      /\ Handler(kind, at, id).data = None
  BY <1>2, HandlerIs DEF Kinds, Waits
<1>4. /\ task[First] = Handler(kind, at, id) /\ \A h \in Handlers \ {First} : task[h] = None
      /\ task \in [Handlers -> Task \cup {None}]
  BY <1>1, <1>3 DEF Handlers, Slots, First
<1>5. /\ mail = {} /\ shown = None /\ draft = 0 /\ pending = None /\ busy = FALSE
      /\ url \in Initial \cup {None} /\ navigating = FALSE /\ polling = "waiting"
      /\ typed = 0 /\ events = 0 /\ requests = 0 /\ moved = {}
  BY DEF Init
<1>6. /\ conv \in [Ids -> Conversation \cup {None}]
      /\ \A c \in Ids : conv[c] # None => conv[c].posts = {}
      /\ \A c \in Initial : conv[c] # None
  <2>1. [posts |-> {}, queued |-> FALSE, running |-> FALSE] \in Conversation BY DEF Conversation
  <2>2. [posts |-> {}, queued |-> FALSE, running |-> FALSE] # None BY <2>1, NoneIsNothing
  <2> QED BY <2>1, <2>2, IdsAssumption DEF Init
<1>7. MaxTyped \in Nat /\ MaxEvents \in Nat /\ MaxRequests \in Nat
  BY BoundsAssumption DEF MaxRequests
<1>8. TypeOK
  <2>1. following \in BOOLEAN BY <1>1
  <2>2. url \in Ids \cup {None} BY <1>5, IdsAssumption
  <2>3. {busy, navigating, following} \subseteq BOOLEAN BY <1>5, <2>1
  <2>4. polling \in {"waiting", "on", "never"} BY <1>5
  <2>5. /\ draft \in 0..MaxTyped /\ typed \in 0..MaxTyped /\ events \in 0..MaxEvents
        /\ requests \in 0..MaxRequests
    BY <1>5, <1>7
  <2>6. /\ mail \subseteq Prompt /\ shown \in Thread \cup {None} /\ pending \in Prompt \cup {None}
        /\ moved \subseteq Texts
    BY <1>5
  <2> QED BY <1>4, <1>6, <2>2, <2>3, <2>4, <2>5, <2>6 DEF TypeOK
<1>9. \A h \in Handlers : Sound(h)
  <2>1. Sound(First)
    <3>1. /\ First # Poller /\ kind # "poll"
          /\ Awaits(kind, at)
      BY <1>1 DEF First, Poller, Awaits
    <3>2. at = "get" => id \in Ids /\ conv[id] # None BY <1>1, <1>2, <1>6
    <3> QED BY <1>3, <1>4, <1>5, <3>1, <3>2 DEF Sound, Early
  <2>2. \A h \in Handlers \ {First} : Sound(h) BY <1>4 DEF Sound
  <2> QED BY <2>1, <2>2
<1>10. Known BY <1>5, <1>6 DEF Known
<1>11. Single
  <2>1. \A h \in Slots : ~Writer(h) BY <1>3, <1>4 DEF Writer, Handlers
  <2> HIDE DEF Writer
  <2> QED BY <1>5, <2>1 DEF Single
<1>12. Named
  <2>1. Carried = {}
    <3> SUFFICES ASSUME NEW p \in Prompt, Carries(p) PROVE FALSE BY DEF Carried
    <3>1. p.id \in Ids BY DEF Prompt
    <3>2. \A h \in Slots : task[h] # None => task[h].at # "post" BY <1>3, <1>4 DEF Handlers
    <3> QED BY <1>5, <1>6, <3>1, <3>2, NoneIsNothing DEF Carries
  <2>2. Unsent
    <3>1. \A h \in Slots : ~Early(h) BY <1>3, <1>4 DEF Early, Handlers
    <3> HIDE DEF Early
    <3> QED BY <3>1 DEF Unsent
  <2> QED BY <2>1, <2>2 DEF Named, Numbered, OneText, OneSubmission, Composed
<1> QED BY <1>8, <1>9, <1>10, <1>11, <1>12 DEF Kept

\* A step of the service or of the page that no handler takes, and that writes nothing.
LEMMA NoHandler ==
  ASSUME Kept, TypeOK', UNCHANGED <<shown, draft, pending, busy, url, task, requests, typed, moved>>,
         events <= events', Grows, Carried' \subseteq Carried, \A p \in mail' : conv'[p.id] # None
  PROVE  Kept'
<1>1. \A i \in Handlers : SameTask(i) BY DEF SameTask
<1>2. Onward BY Numbers DEF Onward, Kept
<1>3. Sound(Poller)' BY <1>1, <1>2, OthersSound DEF Handlers
<1>4. Single' BY DEF Kept, Single, Writer
<1>5. Composing BY DEF Composing
<1>6. Poller \in Handlers /\ Poller \notin Slots BY DEF Handlers, Poller, Slots
<1>7. /\ \A t \in moved' : t <= typed'
      /\ shown' # None => conv'[shown'.id] # None
      /\ url' # None => conv'[url'] # None
  BY DEF Kept, Known, Grows, TypeOK, Thread
<1> QED BY <1>1, <1>2, <1>3, <1>4, <1>5, <1>6, <1>7, StepKeeps

LEMMA AdvanceKeeps == ASSUME Kept, NEW c \in Ids, Advance(c) PROVE Kept'
<1>1. conv[c] # None /\ conv[c] \in Conversation BY DEF Advance, Exists, Kept, TypeOK
<1>2. PICK q \in BOOLEAN, r \in BOOLEAN :
        conv' = [conv EXCEPT ![c] = [@ EXCEPT !.queued = q, !.running = r]]
  <2>1. CASE conv' = [conv EXCEPT ![c].queued = FALSE, ![c].running = TRUE]
    BY <2>1, <1>1 DEF Conversation, Kept, TypeOK
  <2>2. CASE conv' = [conv EXCEPT ![c].running = FALSE]
    <3>1. conv[c] = [conv[c] EXCEPT !.queued = conv[c].queued] BY <1>1 DEF Conversation
    <3>2. conv' = [conv EXCEPT ![c] = [@ EXCEPT !.queued = conv[c].queued, !.running = FALSE]]
      BY <1>1, <2>2, <3>1 DEF Conversation, Kept, TypeOK
    <3> QED BY <1>1, <3>2 DEF Conversation
  <2> QED BY <2>1, <2>2 DEF Advance
<1> DEFINE new == [conv[c] EXCEPT !.queued = q, !.running = r]
<1>3. new \in Conversation /\ new.posts = conv[c].posts BY <1>1 DEF Conversation
<1>4. conv' = [conv EXCEPT ![c] = new] BY <1>2
<1> HIDE DEF new
<1>5. new # None BY <1>3, NoneIsNothing
<1>6. /\ conv' \in [Ids -> Conversation \cup {None}]
      /\ \A d \in Ids : /\ conv'[d] # None => conv[d] # None /\ conv'[d].posts = conv[d].posts
                        /\ conv[d] # None => conv'[d] # None /\ conv'[d].posts = conv[d].posts
  BY <1>1, <1>3, <1>4, <1>5 DEF Kept, TypeOK
<1>7. Grows BY <1>6 DEF Grows
<1>8. UNCHANGED <<mail, page, task, limits, moved>> BY DEF Advance
<1>9. TypeOK' BY <1>6, <1>8 DEF Kept, TypeOK, page, limits
<1>10. Carried' \subseteq Carried
  <2>1. \A p \in Prompt : Carries(p)' => Carries(p)
    BY <1>6, <1>8 DEF Carries, page, Prompt
  <2> QED BY <2>1 DEF Carried, Prompt, Texts, MaxRequests
<1>11. \A p \in mail' : conv'[p.id] # None
  BY <1>6, <1>8 DEF Kept, Known, TypeOK, Prompt
<1>12. events <= events' BY <1>8, Numbers DEF Kept, limits
<1> QED BY <1>7, <1>8, <1>9, <1>10, <1>11, <1>12, NoHandler DEF page, limits

\* A submission that is recorded is one that was carried.
LEMMA RecordedIs ==
  ASSUME Kept, NEW p, p \in Carried, conv[p.id] # None,
         conv' = [conv EXCEPT ![p.id] = Recorded(p.id, p)]
  PROVE  /\ conv' \in [Ids -> Conversation \cup {None}] /\ Grows
         /\ \A d \in Ids, m \in Message : conv'[d] # None /\ m \in conv'[d].posts =>
              \/ conv[d] # None /\ m \in conv[d].posts
              \/ d = p.id /\ m = [text |-> p.text, request |-> p.request]
         /\ conv'[p.id] # None /\ \E m \in conv'[p.id].posts : m.text = p.text
<1>1. p \in Prompt /\ p.id \in Ids /\ p.text \in Texts /\ p.request \in 1..MaxRequests
  BY DEF Carried, Prompt
<1>2. conv[p.id] \in Conversation BY <1>1 DEF Kept, TypeOK
<1> DEFINE own == [text |-> p.text, request |-> p.request]
           new == Recorded(p.id, p)
<1>3. own \in Message BY <1>1 DEF Message
<1>4. /\ new \in Conversation /\ conv[p.id].posts \subseteq new.posts
      /\ new.posts \subseteq conv[p.id].posts \cup {own}
      /\ \E m \in new.posts : m.text = p.text
  <2>1. CASE \E m \in conv[p.id].posts : m.request = p.request
    <3>1. new = conv[p.id] BY <2>1 DEF Recorded
    <3>2. PICK m \in conv[p.id].posts : m.request = p.request BY <2>1
    <3>3. m \in Message BY <1>2, <3>2 DEF Conversation
    <3> DEFINE same == [id |-> p.id, text |-> m.text, request |-> m.request]
    <3>4. same \in Prompt /\ same.id = p.id /\ same.text = m.text /\ same.request = m.request
      BY <1>1, <3>3 DEF Prompt, Message
    <3>5. [text |-> same.text, request |-> same.request] = m BY <3>3, <3>4 DEF Message
    <3> HIDE DEF same
    <3>6. same \in Carried BY <3>2, <3>4, <3>5 DEF Carried, Carries
    <3>7. m.text = p.text BY <3>2, <3>4, <3>6 DEF Kept, Named, OneText
    <3> QED BY <1>2, <3>1, <3>2, <3>7
  <2>2. CASE ~\E m \in conv[p.id].posts : m.request = p.request
    <3>1. new = [conv[p.id] EXCEPT !.posts = @ \cup {own}, !.queued = TRUE]
      BY <2>2 DEF Recorded
    <3> HIDE DEF new, own
    <3>2. new \in Conversation /\ new.posts = conv[p.id].posts \cup {own}
      BY <1>2, <1>3, <3>1 DEF Conversation
    <3>3. own.text = p.text BY DEF own
    <3> QED BY <3>2, <3>3
  <2> QED BY <2>1, <2>2
<1>5. conv' = [conv EXCEPT ![p.id] = new] OBVIOUS
<1> HIDE DEF new, own
<1>6. new # None BY <1>4, NoneIsNothing
<1>7. /\ conv' \in [Ids -> Conversation \cup {None}] /\ conv'[p.id] = new
      /\ \A d \in Ids \ {p.id} : conv'[d] = conv[d]
  BY <1>1, <1>4, <1>5 DEF Kept, TypeOK
<1>8. Grows BY <1>4, <1>6, <1>7 DEF Grows
<1>9. \A d \in Ids, m \in Message : conv'[d] # None /\ m \in conv'[d].posts =>
        (conv[d] # None /\ m \in conv[d].posts) \/ (d = p.id /\ m = own)
  BY <1>1, <1>4, <1>7
<1> QED BY <1>4, <1>6, <1>7, <1>8, <1>9 DEF own

LEMMA ArriveKeeps == ASSUME Kept, NEW p \in mail, Arrive(p) PROVE Kept'
<1>1. p \in Carried /\ p \in Prompt /\ conv[p.id] # None BY MailCarried DEF Carried, Kept, Known
<1>2. /\ mail' = mail \ {p} /\ conv' = [conv EXCEPT ![p.id] = Recorded(p.id, p)]
      /\ UNCHANGED <<page, task, limits, moved>>
  BY DEF Arrive
<1>3. /\ conv' \in [Ids -> Conversation \cup {None}] /\ Grows
      /\ \A d \in Ids, m \in Message : conv'[d] # None /\ m \in conv'[d].posts =>
           \/ conv[d] # None /\ m \in conv[d].posts
           \/ d = p.id /\ m = [text |-> p.text, request |-> p.request]
  BY <1>1, <1>2, RecordedIs
<1>4. TypeOK' BY <1>2, <1>3 DEF Kept, TypeOK, page, limits
<1>5. Carried' \subseteq Carried
  <2>1. ASSUME NEW q \in Prompt, conv'[q.id] # None,
               [text |-> q.text, request |-> q.request] \in conv'[q.id].posts
        PROVE  q \in Carried
    <3> DEFINE m == [text |-> q.text, request |-> q.request]
    <3>1. q.id \in Ids /\ m \in Message BY DEF Prompt, Message
    <3>2. CASE conv[q.id] # None /\ m \in conv[q.id].posts BY <3>2 DEF Carried, Carries
    <3>3. CASE q.id = p.id /\ m = [text |-> p.text, request |-> p.request]
      <4>1. q.text = p.text /\ q.request = p.request BY <3>3
      <4>2. q = p BY <1>1, <3>3, <4>1 DEF Prompt
      <4> QED BY <1>1, <4>2
    <3> HIDE DEF m
    <3>4. m \in conv'[q.id].posts BY <2>1 DEF m
    <3> QED BY <1>3, <2>1, <3>1, <3>2, <3>3, <3>4
  <2>2. \A q \in Prompt : q \in mail' => q \in Carried BY <1>2, MailCarried
  <2> QED BY <1>2, <2>1, <2>2, CarriedStays DEF page
<1>6. \A q \in mail' : conv'[q.id] # None
  BY <1>2, <1>3 DEF Kept, Known, TypeOK, Prompt, Grows
<1>7. events <= events' BY <1>2, Numbers DEF Kept, limits
<1> QED BY <1>2, <1>3, <1>4, <1>5, <1>6, <1>7, NoHandler DEF page, limits

LEMMA EventIs == ASSUME Kept, Event PROVE events' = events + 1 /\ events' \in 0..MaxEvents /\ events < events'
BY Numbers DEF Event, Kept, TypeOK

LEMMA TypeKeeps == ASSUME Kept, Type PROVE Kept'
<1>1. /\ draft = 0 /\ ~busy /\ typed < MaxTyped /\ typed' = typed + 1 /\ draft' = typed'
      /\ UNCHANGED <<conv, mail, shown, pending, busy, url, navigating, following, polling,
                     task, events, requests, moved>>
  BY DEF Type
<1>2. TypeOK' BY <1>1, Numbers DEF Kept, TypeOK
<1>3. \A i \in Handlers : SameTask(i) BY <1>1 DEF SameTask
<1>4. \A i \in Handlers : ~Writer(i) BY <1>1, Idle
<1>5. Grows /\ Onward BY <1>1, Numbers DEF Grows, Onward, Kept
<1>6. Poller \in Handlers BY DEF Handlers
<1>7. Sound(Poller)' BY <1>2, <1>3, <1>4, <1>5, <1>6, OthersSound
<1>8. Single' BY <1>1 DEF Kept, Single, Writer
<1>9. Known'
  <2>1. \A t \in moved : t \in Nat BY BoundsAssumption DEF Kept, TypeOK, Texts
  <2> QED BY <1>1, <2>1, Numbers DEF Kept, Known
<1>10. Carried' \subseteq Carried BY <1>1 DEF Carried, Carries
<1>11. Composing
  <2>1. \A p \in Carried : p.text <= typed /\ p.text \in Nat
    BY BoundsAssumption DEF Kept, Named, Numbered, Carried, Prompt, Texts
  <2> QED BY <1>1, <2>1, Numbers DEF Composing, Kept
<1>12. Unsent'
  <2>1. \A h \in Slots : ~Early(h)' BY <1>1, <1>4 DEF Early, Writer, Handlers
  <2> HIDE DEF Early
  <2> QED BY <2>1 DEF Unsent
<1>13. Named' BY <1>2, <1>5, <1>10, <1>11, <1>12, NamedStays
<1> QED BY <1>2, <1>3, <1>4, <1>5, <1>6, <1>7, <1>8, <1>9, <1>13, KeptStep

\* A handler begins that writes nothing.
LEMMA BeginKeeps ==
  ASSUME Kept, NEW h \in Handlers, task[h] = None, NEW kind \in {"stop", "poll"},
         NEW at \in {"cancel", "get"}, Awaits(kind, at), h = Poller <=> kind = "poll",
         NEW id \in Ids, conv[id] # None, Begin(h, kind, at, id),
         UNCHANGED <<conv, mail, page, typed, requests, moved>>,
         events' \in 0..MaxEvents, events <= events'
  PROVE  Kept'
<1>0. UNCHANGED <<shown, draft, pending, busy, url, navigating, following, polling>> BY DEF page
<1>1. /\ task' \in [Handlers -> Task \cup {None}] /\ task'[h] = Handler(kind, at, id)
      /\ \A i \in Handlers \ {h} : SameTask(i)
  BY Begun DEF Kept, Kinds, Waits
<1>2. /\ task'[h] # None /\ task'[h].kind = kind /\ task'[h].at = at /\ task'[h].id = id
      /\ task'[h].text = 0 /\ task'[h].data = None
  BY <1>1, HandlerIs DEF Kinds, Waits
<1>3. TypeOK' BY <1>0, <1>1 DEF Kept, TypeOK
<1>4. Grows /\ Onward BY Numbers DEF Grows, Onward, Kept
<1>5. Sound(h)'
  <2>1. typed \in Nat BY Numbers DEF Kept
  <2> QED BY <1>2, <2>1 DEF Sound, Early
<1>6. ~Writer(h) /\ ~Writer(h)' BY <1>2 DEF Writer
<1>7. Single' BY <1>0, <1>1, <1>6, SingleStays DEF Kept
<1>8. mail' \subseteq Carried BY MailCarried
<1>9. Carried' \subseteq Carried BY <1>0, <1>1, <1>2, <1>8, CarriedSame
<1>10. Composing BY <1>0 DEF Composing
<1>11. ~Early(h)' BY <1>2 DEF Early
<1>12. /\ \A t \in moved' : t <= typed'
       /\ shown' # None => conv'[shown'.id] # None
       /\ url' # None => conv'[url'] # None
       /\ \A p \in mail' : conv'[p.id] # None
  BY <1>0 DEF Kept, Known
<1> HIDE DEF Early
<1> QED BY <1>0, <1>1, <1>3, <1>4, <1>5, <1>7, <1>9, <1>10, <1>11, <1>12, StepKeeps

LEMMA StopKeeps == ASSUME Kept, NEW h \in Slots, Stop(h) PROVE Kept'
<1>1. /\ task[h] = None /\ Event /\ shown # None /\ Begin(h, "stop", "cancel", shown.id)
      /\ UNCHANGED <<conv, mail, page, typed, requests, moved>>
  BY DEF Stop, Ask
<1>2. shown.id \in Ids /\ conv[shown.id] # None BY <1>1 DEF Kept, TypeOK, Known, Thread
<1>3. events' \in 0..MaxEvents /\ events <= events' BY <1>1, EventIs, Numbers DEF Kept
<1>4. h \in Handlers /\ h # Poller BY DEF Handlers, Slots, Poller
<1>5. Awaits("stop", "cancel") BY DEF Awaits
<1> HIDE DEF Begin
<1> QED BY <1>1, <1>2, <1>3, <1>4, <1>5, BeginKeeps

LEMMA PollKeeps == ASSUME Kept, Poll PROVE Kept'
<1>1. /\ task[Poller] = None /\ shown # None /\ Begin(Poller, "poll", "get", shown.id)
      /\ UNCHANGED <<conv, mail, page, limits, moved>>
  BY DEF Poll
<1>2. shown.id \in Ids /\ conv[shown.id] # None BY <1>1 DEF Kept, TypeOK, Known, Thread
<1>3. /\ events' \in 0..MaxEvents /\ events <= events' /\ typed' = typed /\ requests' = requests
  BY <1>1, Numbers DEF Kept, TypeOK, limits
<1>4. Poller \in Handlers BY DEF Handlers
<1>5. Awaits("poll", "get") BY DEF Awaits
<1> HIDE DEF Begin
<1> QED BY <1>1, <1>2, <1>3, <1>4, <1>5, BeginKeeps

\* A handler goes on to another wait.
LEMMA GoKeeps ==
  ASSUME Kept, NEW h \in Slots, task[h] # None, NEW at \in {"spaces", "list", "host", "draw"},
         Go(h, at), Awaits(task[h].kind, at), task[h].kind = "send" => Early(h),
         at = "spaces" => task[h].id \in Ids /\ conv[task[h].id] # None,
         UNCHANGED <<conv, mail, draft, pending, busy, following, polling, limits>>,
         shown' \in Thread \cup {None}, shown' # None => conv[shown'.id] # None,
         url' \in Ids \cup {None}, url' # None => conv[url'] # None,
         navigating' \in BOOLEAN, Composing,
         moved \subseteq moved', moved' \subseteq Texts, \A t \in moved' : t <= typed
  PROVE  Kept'
<1>0. UNCHANGED <<typed, events, requests>> /\ h \in Handlers /\ h # Poller
  BY DEF limits, Handlers, Slots, Poller
<1>1. /\ task' \in [Handlers -> Task \cup {None}] /\ task'[h] # None
      /\ task'[h].kind = task[h].kind /\ task'[h].at = at /\ task'[h].id = task[h].id
      /\ task'[h].text = task[h].text /\ task'[h].request = task[h].request
      /\ task'[h].data = None
      /\ \A i \in Handlers \ {h} : SameTask(i)
  BY <1>0, Went DEF Kept, Waits
<1>2. TypeOK' BY <1>0, <1>1 DEF Kept, TypeOK
<1>3. Grows /\ Onward BY <1>0, Numbers DEF Grows, Onward, Kept
<1>4. Sound(h) BY <1>0 DEF Kept
<1>5. task[h].kind = "send" => task[h].text \in Texts BY <1>4 DEF Sound, Early
<1>6. Early(h)' => Early(h) BY <1>1 DEF Early
<1>7. Early(h)' => requests' < events' BY <1>0, <1>4, <1>6 DEF Sound
<1>8. Sound(h)'
  <2> HIDE DEF Early
  <2> QED BY <1>0, <1>1, <1>4, <1>5, <1>7 DEF Sound
<1>9. Writer(h)' <=> Writer(h) BY <1>1 DEF Writer
<1>10. Single' BY <1>0, <1>1, <1>9, SingleStays DEF Kept
<1>11. mail' \subseteq Carried BY MailCarried
<1>12. Carried' \subseteq Carried BY <1>0, <1>1, <1>11, CarriedSame
<1>13. \A p \in mail' : conv'[p.id] # None BY DEF Kept, Known
<1> HIDE DEF Early, Composing, Go
<1> QED BY <1>0, <1>1, <1>2, <1>3, <1>6, <1>8, <1>10, <1>12, <1>13, StepKeeps

\* What an answer brings is a conversation that exists, the one that was asked about.
LEMMA AnswerIs ==
  ASSUME Kept, NEW h \in Handlers, task[h] # None, task[h].data # None
  PROVE  /\ task[h].data \in Thread /\ task[h].data.id = task[h].id
         /\ task[h].data.id \in Ids /\ conv[task[h].data.id] # None
<1>1. task[h] \in Task BY DEF Kept, TypeOK
<1>2. task[h].data \in Thread BY <1>1 DEF Task
<1> QED BY <1>2 DEF Kept, Sound

LEMMA ShownIs ==
  ASSUME Kept
  PROVE  /\ shown \in Thread \cup {None} /\ (shown # None => conv[shown.id] # None)
         /\ url \in Ids \cup {None} /\ (url # None => conv[url] # None)
         /\ navigating \in BOOLEAN /\ events \in 0..MaxEvents /\ events <= events
         /\ mail \subseteq Carried /\ \A p \in mail : conv[p.id] # None
BY MailCarried, Numbers DEF Kept, TypeOK, Known

\* A handler ends and nothing else happens.
LEMMA EndsAlone ==
  ASSUME Kept, NEW h \in Handlers, task[h] # None, NEW thread \in {shown, task[h].data},
         thread = shown \/ task[h].data # None, NEW failed, End(h, thread, failed),
         UNCHANGED <<conv, mail, url, limits>>, navigating' \in BOOLEAN
  PROVE  Kept'
<1>1. thread \in Thread \cup {None} /\ (thread # None => conv[thread.id] # None)
  BY ShownIs, AnswerIs
<1>2. UNCHANGED <<typed, events, requests>> BY DEF limits
<1> HIDE DEF End
<1> QED BY <1>1, <1>2, ShownIs, EndKeeps

LEMMA PolledKeeps == ASSUME Kept, Polled PROVE Kept'
<1>1. task[Poller] # None /\ task[Poller].data # None /\ Poller \in Handlers
  BY DEF Polled, Answered, Handlers
<1>2. PICK thread \in {shown, task[Poller].data} : End(Poller, thread, FALSE)
  BY DEF Polled
<1>3. UNCHANGED <<conv, mail, url, navigating, limits>> BY DEF Polled
<1> HIDE DEF End
<1> QED BY <1>1, <1>2, <1>3, ShownIs, EndsAlone

LEMMA WrappedKeeps == ASSUME Kept, NEW h \in Slots, Wrapped(h) PROVE Kept'
<1>1. /\ task[h] # None /\ h \in Handlers /\ End(h, shown, FALSE)
      /\ UNCHANGED <<conv, mail, url, navigating, limits>>
  BY DEF Wrapped, At, Handlers
<1> HIDE DEF End
<1> QED BY <1>1, ShownIs, EndsAlone

LEMMA StoppedKeeps == ASSUME Kept, NEW h \in Slots, Stopped(h) PROVE Kept'
<1>1. /\ task[h] # None /\ task[h].data # None /\ h \in Handlers /\ End(h, task[h].data, FALSE)
      /\ UNCHANGED <<conv, mail, url, navigating, limits>>
  BY DEF Stopped, Answered, Handlers
<1> HIDE DEF End
<1> QED BY <1>1, ShownIs, EndsAlone

LEMMA RefuseKeeps == ASSUME Kept, NEW h \in Handlers, RefuseConversation(h) PROVE Kept'
<1>1. /\ task[h] # None /\ End(h, shown, TRUE)
      /\ UNCHANGED <<conv, mail, url, navigating, limits>>
  BY DEF RefuseConversation, Unanswered
<1> HIDE DEF End
<1> QED BY <1>1, ShownIs, EndsAlone

LEMMA LoseKeeps == ASSUME Kept, NEW h \in Handlers, Lose(h) PROVE Kept'
<1>1. /\ task[h] # None /\ Event /\ End(h, shown, TRUE)
      /\ navigating' = (navigating /\ task[h].at # "host")
      /\ UNCHANGED <<conv, url, typed, requests>>
  BY DEF Lose
<1>2. navigating' \in BOOLEAN BY <1>1
<1>3. events' \in 0..MaxEvents /\ events <= events' BY <1>1, EventIs, Numbers DEF Kept
<1>4. mail' \subseteq Carried /\ \A p \in mail' : conv[p.id] # None
  <2>1. CASE mail' = mail BY <2>1, ShownIs
  <2>2. CASE At(h, "post") /\ mail' = mail \cup
               {[id |-> task[h].id, text |-> task[h].text, request |-> task[h].request]}
    <3> DEFINE own == [id |-> task[h].id, text |-> task[h].text, request |-> task[h].request]
    <3>1. h \in Slots /\ task[h].kind = "send" BY <2>2 DEF Kept, Sound, Awaits, At, Handlers
    <3>2. /\ task[h].id \in Ids /\ conv[task[h].id] # None /\ task[h].text \in Texts
          /\ task[h].request \in 1..MaxRequests
      <4>1. requests \in 0..MaxRequests /\ MaxRequests \in Nat
        BY BoundsAssumption DEF Kept, TypeOK, MaxRequests
      <4>2. /\ task[h].id \in Ids /\ conv[task[h].id] # None /\ task[h].text \in Texts
            /\ task[h].request \in 1..requests
        BY <2>2, <3>1 DEF Kept, Sound, At
      <4> QED BY <4>1, <4>2
    <3>3. own \in Prompt BY <3>2 DEF Prompt
    <3>4. Carries(own) BY <2>2, <3>1 DEF Carries, At
    <3>5. own \in Carried BY <3>3, <3>4 DEF Carried
    <3>6. conv[own.id] # None BY <3>2
    <3>7. mail' = mail \cup {own} BY <2>2
    <3> HIDE DEF own
    <3> QED BY <3>5, <3>6, <3>7, ShownIs
  <2> QED BY <2>1, <2>2 DEF Lose
<1> HIDE DEF End
<1> QED BY <1>1, <1>2, <1>3, <1>4, ShownIs, EndKeeps

LEMMA SelectKeeps == ASSUME Kept, NEW h \in Slots, NEW id \in Ids, Select(h, id) PROVE Kept'
<1>1. /\ task[h] = None /\ Event /\ conv[id] # None /\ Choose(h, "select", id)
      /\ UNCHANGED <<conv, mail, shown, busy, url, navigating, following, polling, typed, requests>>
  BY DEF Select, Ask, Exists
<1>2. ~Writer(h) BY <1>1 DEF Writer
<1>3. events' \in 0..MaxEvents /\ events <= events' BY <1>1, EventIs, Numbers DEF Kept
<1>4. navigating' \in BOOLEAN /\ following' \in BOOLEAN /\ polling' \in {"waiting", "on", "never"}
  BY <1>1 DEF Kept, TypeOK
<1> HIDE DEF Choose, Writer
<1> QED BY <1>1, <1>2, <1>3, <1>4, ShownIs, ChooseKeeps

LEMMA BackKeeps == ASSUME Kept, NEW h \in Slots, NEW id \in Ids \cup {None}, Back(h, id) PROVE Kept'
<1>1. /\ task[h] = None /\ Event /\ (id # None => id \in Ids /\ conv[id] # None) /\ url' = id
      /\ UNCHANGED <<conv, mail, busy, navigating, polling, typed, requests>>
  BY DEF Back, Ask, Exists
<1>2. ~Writer(h) BY <1>1 DEF Writer
<1>3. events' \in 0..MaxEvents /\ events <= events' BY <1>1, EventIs, Numbers DEF Kept
<1>4. navigating' \in BOOLEAN /\ polling' \in {"waiting", "on", "never"}
  BY <1>1 DEF Kept, TypeOK
<1>5. CASE UNCHANGED <<task, following, shown, draft, pending, moved>>
  <2>1. TypeOK' BY <1>1, <1>3, <1>5 DEF Kept, TypeOK
  <2>2. \A i \in Handlers : SameTask(i) BY <1>5 DEF SameTask
  <2>3. Grows /\ Onward BY <1>1, <1>3, <1>5, Numbers DEF Grows, Onward, Kept
  <2>4. Poller \in Handlers /\ Poller \notin Slots BY DEF Handlers, Slots, Poller
  <2>5. Sound(Poller)' BY <1>1, <1>5, <2>1, <2>2, <2>3, <2>4, OthersSound
  <2>6. Single' BY <1>1, <1>5 DEF Kept, Single, Writer
  <2>7. Carried' \subseteq Carried BY <1>1, <1>5 DEF Carried, Carries
  <2>8. Composing BY <1>5 DEF Composing
  <2>9. /\ \A t \in moved' : t <= typed'
        /\ shown' # None => conv'[shown'.id] # None
        /\ url' # None => conv'[url'] # None
        /\ \A p \in mail' : conv'[p.id] # None
    BY <1>1, <1>5 DEF Kept, Known
  <2> QED BY <1>1, <1>5, <2>1, <2>2, <2>3, <2>4, <2>5, <2>6, <2>7, <2>8, <2>9, StepKeeps
<1>6. CASE id # None /\ Choose(h, "restore", id) /\ following' = TRUE /\ shown' = shown
  <2> HIDE DEF Choose, Writer
  <2> QED BY <1>1, <1>2, <1>3, <1>4, <1>6, ShownIs, ChooseKeeps
<1>7. CASE following' = TRUE /\ Leave(h)
  <2> HIDE DEF Leave, Writer
  <2> QED BY <1>1, <1>2, <1>3, <1>4, <1>7, ShownIs, LeaveKeeps
<1> QED BY <1>5, <1>6, <1>7 DEF Back

\* The service answers a handler about its conversation.
LEMMA LearnKeeps ==
  ASSUME Kept, NEW h \in Handlers, task[h] # None, NEW answer \in Thread,
         answer.id = task[h].id, task[h].at \in {"get", "open", "reread", "cancel"},
         task' = [task EXCEPT ![h] = [task[h] EXCEPT !.data = answer]],
         conv' \in [Ids -> Conversation \cup {None}],
         \A d \in Ids : /\ (conv'[d] = None) <=> (conv[d] = None)
                        /\ conv[d] # None => conv'[d].posts = conv[d].posts,
         UNCHANGED <<mail, page, limits, moved>>
  PROVE  Kept'
<1>0. UNCHANGED <<shown, draft, pending, busy, url, navigating, following, polling, typed, events,
                  requests>>
  BY DEF page, limits
<1> DEFINE new == [task[h] EXCEPT !.data = answer]
<1>1. task[h] \in Task BY DEF Kept, TypeOK
<1>2. /\ new \in Task /\ new.kind = task[h].kind /\ new.at = task[h].at /\ new.id = task[h].id
      /\ new.text = task[h].text /\ new.request = task[h].request /\ new.data = answer
  BY <1>1 DEF Task
<1>3. task' = [task EXCEPT ![h] = new] OBVIOUS
<1> HIDE DEF new
<1>4. new # None BY <1>2, NoneIsNothing
<1>5. /\ task' \in [Handlers -> Task \cup {None}] /\ task'[h] = new
      /\ \A i \in Handlers \ {h} : task'[i] = task[i] /\ SameTask(i)
  BY <1>2, <1>3 DEF Kept, TypeOK, SameTask
<1>6. TypeOK' BY <1>0, <1>5 DEF Kept, TypeOK
<1>7. Grows /\ Onward BY <1>0, Numbers DEF Grows, Onward, Kept
<1>8. Sound(h) BY DEF Kept
<1>9. Early(h)' <=> Early(h) BY <1>2, <1>4, <1>5 DEF Early
<1>10. Sound(h)'
  <2>1. task[h].at = "reread" => \E m \in conv'[task[h].id].posts : m.text = task[h].text
    BY <1>8 DEF Sound
  <2>2. task[h].id \in Ids => (conv'[task[h].id] = None <=> conv[task[h].id] = None) OBVIOUS
  <2> HIDE DEF Early
  <2> QED BY <1>0, <1>2, <1>5, <1>8, <1>9, <2>1, <2>2 DEF Sound
<1>11. Writer(h)' <=> Writer(h) BY <1>2, <1>4, <1>5 DEF Writer
<1>12. Single' BY <1>0, <1>5, <1>11, SingleStays DEF Kept
<1>13. Carried' \subseteq Carried
  <2>1. \A i \in Slots : task'[i] # None => /\ task[i] # None /\ task'[i].at = task[i].at
          /\ task'[i].id = task[i].id /\ task'[i].text = task[i].text
          /\ task'[i].request = task[i].request
    BY <1>2, <1>5 DEF Handlers
  <2>2. \A p \in Prompt : Carries(p)' => Carries(p) BY <1>0, <2>1 DEF Carries, Prompt
  <2> QED BY <2>2 DEF Carried, Prompt, Texts, MaxRequests
<1>14. Composing BY <1>0 DEF Composing
<1>15. /\ \A t \in moved' : t <= typed'
       /\ shown' # None => conv'[shown'.id] # None
       /\ url' # None => conv'[url'] # None
       /\ \A p \in mail' : conv'[p.id] # None
  BY <1>0 DEF Kept, Known, TypeOK, Prompt, Thread
<1>16. Early(h)' => Early(h) /\ task'[h].text = task[h].text BY <1>2, <1>5, <1>9
<1> HIDE DEF Early
<1> QED BY <1>0, <1>5, <1>6, <1>7, <1>10, <1>12, <1>13, <1>14, <1>15, <1>16, StepKeeps

LEMMA SnapshotIs ==
  ASSUME Kept, NEW c \in Ids, conv[c] # None
  PROVE  Snapshot(c) \in Thread /\ Snapshot(c).id = c
BY DEF Kept, TypeOK, Conversation, Thread, Snapshot

LEMMA ReadKeeps == ASSUME Kept, NEW h \in Handlers, Read(h) PROVE Kept'
<1>1. /\ task[h] # None /\ task[h].at \in {"get", "open", "reread"}
      /\ task' = [task EXCEPT ![h].data = Snapshot(task[h].id)]
      /\ UNCHANGED <<conv, mail, page, limits, moved>>
  BY DEF Read, Unanswered
<1>2. task[h].id \in Ids /\ conv[task[h].id] # None BY <1>1 DEF Kept, Sound
<1>3. Snapshot(task[h].id) \in Thread /\ Snapshot(task[h].id).id = task[h].id
  BY <1>2, SnapshotIs
<1>4. conv' \in [Ids -> Conversation \cup {None}] BY <1>1 DEF Kept, TypeOK
<1> HIDE DEF Snapshot
<1> QED BY <1>1, <1>3, <1>4, LearnKeeps

LEMMA CancelKeeps == ASSUME Kept, NEW h \in Handlers, Cancel(h) PROVE Kept'
<1> DEFINE c == task[h].id
           new == [conv[c] EXCEPT !.running = FALSE]
           answer == [Snapshot(c) EXCEPT !.running = FALSE]
<1>1. /\ task[h] # None /\ task[h].at = "cancel"
      /\ conv' = [conv EXCEPT ![c] = new]
      /\ task' = [task EXCEPT ![h] = [task[h] EXCEPT !.data = answer]]
      /\ UNCHANGED <<mail, page, limits, moved>>
  BY DEF Cancel, Unanswered
<1>2. c \in Ids /\ conv[c] # None BY <1>1 DEF Kept, Sound
<1>3. conv[c] \in Conversation BY <1>2 DEF Kept, TypeOK
<1>4. new \in Conversation /\ new.posts = conv[c].posts BY <1>3 DEF Conversation
<1>5. answer \in Thread /\ answer.id = c
  <2>1. Snapshot(c) \in Thread /\ Snapshot(c).id = c BY <1>2, SnapshotIs
  <2> QED BY <2>1 DEF Thread
<1>6. new # None BY <1>4, NoneIsNothing
<1> HIDE DEF new, answer
<1>7. /\ conv' \in [Ids -> Conversation \cup {None}]
      /\ conv'[c] = new /\ \A d \in Ids \ {c} : conv'[d] = conv[d]
  BY <1>1, <1>2, <1>4 DEF Kept, TypeOK
<1>8. \A d \in Ids : /\ (conv'[d] = None) <=> (conv[d] = None)
                     /\ conv[d] # None => conv'[d].posts = conv[d].posts
  BY <1>2, <1>4, <1>6, <1>7
<1> QED BY <1>1, <1>5, <1>7, <1>8, LearnKeeps

LEMMA MakeKeeps == ASSUME Kept, NEW h \in Handlers, MakeConversation(h) PROVE Kept'
<1> DEFINE fresh == [posts |-> {}, queued |-> FALSE, running |-> FALSE]
<1>1. PICK id \in Ids :
        /\ conv[id] = None /\ conv' = [conv EXCEPT ![id] = fresh]
        /\ task' = [task EXCEPT ![h] = [task[h] EXCEPT !.at = "open", !.id = id]]
  BY DEF MakeConversation, Exists, Kept, TypeOK, Handlers
<1>2. /\ task[h] # None /\ task[h].at = "create" /\ task[h].data = None
      /\ UNCHANGED <<mail, page, limits, moved>>
  BY DEF MakeConversation, Unanswered
<1>3. UNCHANGED <<shown, draft, pending, busy, url, navigating, following, polling, typed, events,
                  requests>>
  BY <1>2 DEF page, limits
<1>4. fresh \in Conversation /\ fresh.posts = {} BY DEF Conversation
<1> DEFINE new == [task[h] EXCEPT !.at = "open", !.id = id]
<1>5. task[h] \in Task BY <1>2 DEF Kept, TypeOK
<1>6. /\ new \in Task /\ new.kind = task[h].kind /\ new.at = "open" /\ new.id = id
      /\ new.text = task[h].text /\ new.request = task[h].request /\ new.data = None
  BY <1>2, <1>5 DEF Task
<1>7. task' = [task EXCEPT ![h] = new] BY <1>1
<1> HIDE DEF new, fresh
<1>8. fresh # None /\ new # None BY <1>4, <1>6, NoneIsNothing
<1>9. /\ conv' \in [Ids -> Conversation \cup {None}] /\ conv'[id] = fresh
      /\ \A d \in Ids \ {id} : conv'[d] = conv[d]
  BY <1>1, <1>4 DEF Kept, TypeOK
<1>10. /\ task' \in [Handlers -> Task \cup {None}] /\ task'[h] = new
       /\ \A i \in Handlers \ {h} : task'[i] = task[i] /\ SameTask(i)
  BY <1>6, <1>7 DEF Kept, TypeOK, SameTask
<1>11. TypeOK' BY <1>2, <1>3, <1>9, <1>10 DEF Kept, TypeOK
<1>12. Grows /\ Onward BY <1>1, <1>2, <1>3, <1>9, Numbers DEF Grows, Onward, Kept
<1>13. Sound(h) BY DEF Kept
<1>14. task[h].kind \in {"send", "create"} BY <1>2, <1>13 DEF Sound, Awaits
<1>15. Early(h)' => Early(h) /\ task'[h].text = task[h].text BY <1>2, <1>6, <1>10 DEF Early
<1>16. Sound(h)'
  <2>1. Early(h)' => requests' < events'
    <3> HIDE DEF Early
    <3>1. Early(h) => requests < events BY <1>2, <1>13 DEF Sound
    <3> QED BY <1>3, <1>15, <3>1
  <2>2. Awaits(new.kind, new.at) BY <1>6, <1>14 DEF Awaits
  <2> HIDE DEF Early, Awaits
  <2> QED BY <1>2, <1>3, <1>6, <1>8, <1>9, <1>10, <1>13, <1>14, <2>1, <2>2 DEF Sound
<1>17. Writer(h)' <=> Writer(h) BY <1>2, <1>6, <1>8, <1>10 DEF Writer
<1>18. Single' BY <1>3, <1>10, <1>17, SingleStays DEF Kept
<1>19. \A d \in Ids : conv'[d] # None =>
         conv'[d].posts = {} \/ (conv[d] # None /\ conv'[d].posts = conv[d].posts)
  BY <1>4, <1>9
<1>20. mail' \subseteq Carried BY <1>2, MailCarried
<1>21. Carried' \subseteq Carried BY <1>3, <1>6, <1>10, <1>19, <1>20, CarriedSame
<1>22. Composing BY <1>3 DEF Composing
<1>23. /\ \A t \in moved' : t <= typed'
       /\ shown' # None => conv'[shown'.id] # None
       /\ url' # None => conv'[url'] # None
       /\ \A p \in mail' : conv'[p.id] # None
  BY <1>2, <1>3, <1>12 DEF Kept, Known, TypeOK, Prompt, Thread, Grows
<1> HIDE DEF Early
<1> QED BY <1>3, <1>10, <1>11, <1>12, <1>15, <1>16, <1>18, <1>21, <1>22, <1>23, StepKeeps

LEMMA RecordKeeps == ASSUME Kept, NEW h \in Handlers, Record(h) PROVE Kept'
<1> DEFINE own == [id |-> task[h].id, text |-> task[h].text, request |-> task[h].request]
<1>1. /\ task[h] # None /\ task[h].at = "post" /\ task[h].data = None
      /\ conv' = [conv EXCEPT ![task[h].id] = Recorded(task[h].id, task[h])]
      /\ Go(h, "reread") /\ UNCHANGED <<mail, page, limits, moved>>
  BY DEF Record, Unanswered
<1>2. UNCHANGED <<shown, draft, pending, busy, url, navigating, following, polling, typed, events,
                  requests>>
  BY <1>1 DEF page, limits
<1>3. Sound(h) BY DEF Kept
<1>4. h \in Slots /\ task[h].kind = "send" BY <1>1, <1>3 DEF Sound, Awaits, Handlers
<1>5. /\ task[h].id \in Ids /\ conv[task[h].id] # None /\ task[h].text \in Texts
      /\ task[h].request \in 1..MaxRequests
  <2>1. requests \in 0..MaxRequests /\ MaxRequests \in Nat
    BY BoundsAssumption DEF Kept, TypeOK, MaxRequests
  <2>2. /\ task[h].id \in Ids /\ conv[task[h].id] # None /\ task[h].text \in Texts
        /\ task[h].request \in 1..requests
    BY <1>1, <1>3, <1>4 DEF Sound
  <2> QED BY <2>1, <2>2
<1>6. own \in Prompt BY <1>5 DEF Prompt
<1>7. Carries(own) BY <1>1, <1>4 DEF Carries
<1>8. /\ own \in Carried /\ own.id = task[h].id /\ own.text = task[h].text
      /\ own.request = task[h].request
  BY <1>6, <1>7 DEF Carried
<1> HIDE DEF own
<1>9. Recorded(own.id, own) = Recorded(task[h].id, task[h]) BY <1>8 DEF Recorded
<1>10. conv' = [conv EXCEPT ![own.id] = Recorded(own.id, own)] BY <1>1, <1>8, <1>9
<1>11. conv[own.id] # None BY <1>5, <1>8
<1>12. /\ conv' \in [Ids -> Conversation \cup {None}] /\ Grows
       /\ \A d \in Ids, m \in Message : conv'[d] # None /\ m \in conv'[d].posts =>
            \/ conv[d] # None /\ m \in conv[d].posts
            \/ d = own.id /\ m = [text |-> own.text, request |-> own.request]
       /\ conv'[own.id] # None /\ \E m \in conv'[own.id].posts : m.text = own.text
  BY <1>8, <1>10, <1>11, RecordedIs
<1>13. /\ task' \in [Handlers -> Task \cup {None}] /\ task'[h] # None
       /\ task'[h].kind = task[h].kind /\ task'[h].at = "reread" /\ task'[h].id = task[h].id
       /\ task'[h].text = task[h].text /\ task'[h].request = task[h].request
       /\ task'[h].data = None
       /\ \A i \in Handlers \ {h} : task'[i] = task[i] /\ SameTask(i)
  BY <1>1, Went DEF Kept, Waits
<1>14. TypeOK' BY <1>1, <1>2, <1>12, <1>13 DEF Kept, TypeOK
<1>15. Onward BY <1>1, <1>2, Numbers DEF Onward, Kept
<1>16. Sound(h)'
  <2>1. Awaits("send", "reread") BY DEF Awaits
  <2>2. ~Early(h)' BY <1>13 DEF Early
  <2> HIDE DEF Early, Awaits
  <2> QED BY <1>1, <1>2, <1>3, <1>4, <1>5, <1>8, <1>12, <1>13, <2>1, <2>2 DEF Sound
<1>17. Writer(h)' <=> Writer(h) BY <1>1, <1>13 DEF Writer
<1>18. Single' BY <1>2, <1>13, <1>17, SingleStays DEF Kept
<1>19. Carried' \subseteq Carried
  <2>1. ASSUME NEW q \in Prompt, conv'[q.id] # None,
               [text |-> q.text, request |-> q.request] \in conv'[q.id].posts
        PROVE  q \in Carried
    <3> DEFINE m == [text |-> q.text, request |-> q.request]
    <3>1. q.id \in Ids /\ m \in Message BY DEF Prompt, Message
    <3>2. CASE conv[q.id] # None /\ m \in conv[q.id].posts BY <3>2 DEF Carried, Carries
    <3>3. CASE q.id = own.id /\ m = [text |-> own.text, request |-> own.request]
      <4>1. q.text = own.text /\ q.request = own.request BY <3>3
      <4>2. q = own BY <1>6, <3>3, <4>1 DEF Prompt
      <4> QED BY <1>8, <4>2
    <3> HIDE DEF m
    <3>4. m \in conv'[q.id].posts BY <2>1 DEF m
    <3> QED BY <1>12, <2>1, <3>1, <3>2, <3>3, <3>4
  <2>2. \A q \in Prompt : q \in mail' => q \in Carried BY <1>1, MailCarried
  <2>3. \A i \in Slots : task'[i] # None /\ task'[i].at = "post" =>
          /\ task[i] # None /\ task[i].at = "post" /\ task'[i].id = task[i].id
          /\ task'[i].text = task[i].text /\ task'[i].request = task[i].request
    BY <1>13 DEF Handlers
  <2>4. pending' \in {pending, None} BY <1>2
  <2> QED BY <2>1, <2>2, <2>3, <2>4, CarriedStays
<1>20. Composing BY <1>2 DEF Composing
<1>21. /\ \A t \in moved' : t <= typed'
       /\ shown' # None => conv'[shown'.id] # None
       /\ url' # None => conv'[url'] # None
       /\ \A p \in mail' : conv'[p.id] # None
  BY <1>1, <1>2, <1>12 DEF Kept, Known, TypeOK, Prompt, Thread, Grows
<1>22. ~Early(h)' BY <1>13 DEF Early
<1> HIDE DEF Early
<1> QED BY <1>2, <1>12, <1>13, <1>14, <1>15, <1>16, <1>18, <1>19, <1>20, <1>21, <1>22, StepKeeps

\* The page shows another answer: what it turns away from is noted.
LEMMA TurnedIs ==
  ASSUME Kept, NEW thread, shown' = thread, moved' = Turned(thread), draft' = draft,
         pending' = pending
  PROVE  /\ Composing /\ moved \subseteq moved' /\ moved' \subseteq Texts
         /\ \A t \in moved' : t <= typed
<1>1. moved \subseteq Texts /\ \A t \in moved : t <= typed BY DEF Kept, TypeOK, Known
<1> QED BY <1>1, InterruptedIs DEF Turned, Composing

LEMMA SelectedKeeps == ASSUME Kept, NEW h \in Slots, Selected(h) PROVE Kept'
<1>1. /\ task[h] # None /\ task[h].at = "get" /\ task[h].data # None
      /\ task[h].kind \in {"select", "restore"} /\ h \in Handlers
      /\ UNCHANGED <<conv, mail, limits>>
  BY DEF Selected, Answered, Handlers
<1>2. CASE End(h, shown, FALSE) /\ UNCHANGED <<url, navigating>>
  <2> HIDE DEF End
  <2> QED BY <1>1, <1>2, ShownIs, EndsAlone
<1>3. CASE /\ shown' = task[h].data /\ moved' = Turned(task[h].data)
           /\ Go(h, IF task[h].kind = "select" THEN "spaces" ELSE "draw")
           /\ UNCHANGED <<draft, pending, busy, url, navigating, following, polling>>
  <2>1. PICK at \in {"spaces", "draw"} : Go(h, at) /\ Awaits(task[h].kind, at)
    BY <1>1, <1>3 DEF Awaits
  <2>2. task[h].kind # "send" BY <1>1
  <2>3. task[h].id \in Ids /\ conv[task[h].id] # None BY <1>1 DEF Kept, Sound
  <2>4. /\ Composing /\ moved \subseteq moved' /\ moved' \subseteq Texts
        /\ \A t \in moved' : t <= typed
    BY <1>3, TurnedIs
  <2>5. shown' \in Thread \cup {None} /\ (shown' # None => conv[shown'.id] # None)
    BY <1>1, <1>3, AnswerIs
  <2> HIDE DEF Go, Composing, Awaits
  <2> QED BY <1>1, <1>3, <2>1, <2>2, <2>3, <2>4, <2>5, ShownIs, GoKeeps
<1> QED BY <1>2, <1>3 DEF Selected

LEMMA NavigateIs ==
  ASSUME NEW h, NEW id, NEW then, Navigate(h, id, then), navigating \in BOOLEAN
  PROVE  url' = id /\ navigating' \in BOOLEAN /\ \E at \in {then, "host"} : Go(h, at)
BY DEF Navigate

LEMMA PlacedKeeps == ASSUME Kept, NEW h \in Slots, Placed(h) PROVE Kept'
<1>1. /\ task[h] # None /\ task[h].at = "spaces" /\ h \in Handlers
      /\ UNCHANGED <<conv, mail, limits>>
  BY DEF Placed, At, Handlers
<1>2. CASE End(h, shown, FALSE) /\ UNCHANGED <<url, navigating>>
  <2> HIDE DEF End
  <2> QED BY <1>1, <1>2, ShownIs, EndsAlone
<1>3. CASE /\ Navigate(h, task[h].id, "draw")
           /\ UNCHANGED <<shown, draft, pending, busy, following, polling, moved>>
  <2>1. PICK at \in {"draw", "host"} : Go(h, at)
    BY <1>3, NavigateIs, ShownIs
  <2>2. url' = task[h].id /\ navigating' \in BOOLEAN BY <1>3, NavigateIs, ShownIs
  <2>3. task[h].kind = "select" /\ task[h].id \in Ids /\ conv[task[h].id] # None
    BY <1>1 DEF Kept, Sound, Awaits
  <2>4. Awaits(task[h].kind, at) BY <2>3 DEF Awaits
  <2>5. Composing BY <1>3 DEF Composing
  <2>6. moved \subseteq moved' /\ moved' \subseteq Texts /\ \A t \in moved' : t <= typed
    BY <1>3 DEF Kept, TypeOK, Known
  <2> HIDE DEF Go, Composing, Awaits
  <2> QED BY <1>1, <1>3, <2>1, <2>2, <2>3, <2>4, <2>5, <2>6, ShownIs, GoKeeps
<1> QED BY <1>2, <1>3 DEF Placed

LEMMA OpenedKeeps == ASSUME Kept, NEW h \in Slots, Opened(h) PROVE Kept'
<1>1. /\ task[h] # None /\ task[h].at = "open" /\ task[h].data # None /\ h \in Handlers
      /\ shown' = task[h].data /\ Go(h, "list")
      /\ UNCHANGED <<conv, mail, draft, pending, busy, url, navigating, following, polling,
                     limits, moved>>
  BY DEF Opened, Answered, Handlers
<1>2. Sound(h) BY <1>1 DEF Kept
<1>3. task[h].kind \in {"send", "create"} BY <1>1, <1>2 DEF Sound, Awaits
<1>4. Awaits(task[h].kind, "list") BY <1>3 DEF Awaits
<1>5. task[h].kind = "send" => Early(h) BY <1>1 DEF Early
<1>6. Composing
  <2>1. CASE task[h].kind = "create"
    <3>1. draft \in {0} \cup moved BY <1>1, <1>2, <2>1 DEF Sound
    <3> QED BY <1>1, <3>1 DEF Composing
  <2>2. CASE task[h].kind = "send"
    <3>1. draft \in {0, task[h].text} BY <1>1, <1>2, <2>2 DEF Sound
    <3>2. task[h].text \in moved \/ \A p \in Carried : p.text # task[h].text
      BY <1>5, <2>2 DEF Kept, Named, Unsent
    <3> QED BY <1>1, <3>1, <3>2 DEF Composing
  <2> QED BY <1>3, <2>1, <2>2
<1>7. moved \subseteq moved' /\ moved' \subseteq Texts /\ \A t \in moved' : t <= typed
  BY <1>1 DEF Kept, TypeOK, Known
<1>8. shown' \in Thread \cup {None} /\ (shown' # None => conv[shown'.id] # None)
  BY <1>1, AnswerIs
<1> HIDE DEF Go, Composing, Awaits, Early
<1> QED BY <1>1, <1>4, <1>5, <1>6, <1>7, <1>8, ShownIs, GoKeeps

LEMMA ListedKeeps == ASSUME Kept, NEW h \in Slots, Listed(h) PROVE Kept'
<1>1. /\ task[h] # None /\ task[h].at = "list" /\ h \in Handlers
      /\ Navigate(h, IdOf(shown), "draw")
      /\ UNCHANGED <<conv, mail, shown, draft, pending, busy, following, polling, limits, moved>>
  BY DEF Listed, At, Handlers
<1>2. PICK at \in {"draw", "host"} : Go(h, at) BY <1>1, NavigateIs, ShownIs
<1>3. url' = IdOf(shown) /\ navigating' \in BOOLEAN BY <1>1, NavigateIs, ShownIs
<1>4. url' \in Ids \cup {None} /\ (url' # None => conv[url'] # None)
  BY <1>3, ShownIs DEF IdOf, Thread
<1>5. task[h].kind \in {"send", "create"} BY <1>1 DEF Kept, Sound, Awaits
<1>6. Awaits(task[h].kind, at) BY <1>5 DEF Awaits
<1>7. task[h].kind = "send" => Early(h) BY <1>1 DEF Early
<1>8. Composing BY <1>1 DEF Composing
<1>9. moved \subseteq moved' /\ moved' \subseteq Texts /\ \A t \in moved' : t <= typed
  BY <1>1 DEF Kept, TypeOK, Known
<1> HIDE DEF Go, Composing, Awaits, Early
<1> QED BY <1>1, <1>2, <1>3, <1>4, <1>6, <1>7, <1>8, <1>9, ShownIs, GoKeeps

LEMMA HostedKeeps == ASSUME Kept, NEW h \in Slots, Hosted(h) PROVE Kept'
<1>1. /\ task[h] # None /\ task[h].at = "host" /\ h \in Handlers /\ navigating' = FALSE
      /\ UNCHANGED <<conv, mail, url, limits>>
  BY DEF Hosted, At, Handlers
<1>2. CASE End(h, shown, FALSE)
  <2> HIDE DEF End
  <2> QED BY <1>1, <1>2, ShownIs, EndsAlone
<1>3. CASE /\ task[h].kind # "select" /\ Go(h, "draw")
           /\ UNCHANGED <<shown, draft, pending, busy, following, polling, moved>>
  <2>1. task[h].kind \in {"send", "create"} BY <1>1, <1>3 DEF Kept, Sound, Awaits
  <2>2. Awaits(task[h].kind, "draw") BY <2>1 DEF Awaits
  <2>3. task[h].kind = "send" => Early(h) BY <1>1 DEF Early
  <2>4. Composing BY <1>3 DEF Composing
  <2>5. moved \subseteq moved' /\ moved' \subseteq Texts /\ \A t \in moved' : t <= typed
    BY <1>3 DEF Kept, TypeOK, Known
  <2> HIDE DEF Go, Composing, Awaits, Early
  <2> QED BY <1>1, <1>3, <2>2, <2>3, <2>4, <2>5, ShownIs, GoKeeps
<1> QED BY <1>2, <1>3 DEF Hosted

LEMMA SentKeeps == ASSUME Kept, NEW h \in Slots, Sent(h) PROVE Kept'
<1>1. /\ task[h] # None /\ task[h].at = "reread" /\ task[h].data # None /\ h \in Handlers
      /\ shown' = task[h].data /\ pending' = None /\ draft' = 0
      /\ Begin(h, "send", "wrap", None)
      /\ UNCHANGED <<conv, mail, busy, url, navigating, following, polling, typed, events, requests,
                     moved>>
  BY DEF Sent, Answered, Handlers, limits
<1>2. /\ task' \in [Handlers -> Task \cup {None}] /\ task'[h] = Handler("send", "wrap", None)
      /\ \A i \in Handlers \ {h} : SameTask(i)
  BY <1>1, Begun DEF Kept, Kinds, Waits
<1>3. /\ task'[h] # None /\ task'[h].kind = "send" /\ task'[h].at = "wrap"
      /\ task'[h].text = 0 /\ task'[h].data = None
  BY <1>2, HandlerIs DEF Kinds, Waits
<1>4. shown' \in Thread \cup {None} /\ (shown' # None => conv[shown'.id] # None)
  BY <1>1, AnswerIs
<1>5. TypeOK' BY <1>1, <1>2, <1>4, BoundsAssumption DEF Kept, TypeOK
<1>6. Grows /\ Onward BY <1>1, Numbers DEF Grows, Onward, Kept
<1>7. Sound(h)'
  <2>1. typed' \in Nat /\ h # Poller BY <1>1, Numbers DEF Kept, Slots, Poller
  <2> QED BY <1>1, <1>3, <2>1 DEF Sound, Awaits, Early
<1>8. task[h].kind = "send" BY <1>1 DEF Kept, Sound, Awaits
<1>9. Writer(h) /\ Writer(h)' BY <1>1, <1>3, <1>8 DEF Writer
<1>10. Single' BY <1>1, <1>2, <1>9, SingleStays DEF Kept
<1>11. mail' \subseteq Carried BY <1>1, MailCarried
<1>12. Carried' \subseteq Carried BY <1>1, <1>2, <1>3, <1>11, CarriedSame
<1>13. Composing BY <1>1 DEF Composing
<1>14. \A i \in Slots : ~Early(i)
  <2>1. ~Early(h) BY <1>1 DEF Early
  <2>2. \A i \in Slots : Early(i) => Writer(i) BY DEF Early, Writer
  <2>3. \A i \in Slots : Writer(i) => i = h BY <1>9 DEF Kept, Single
  <2> HIDE DEF Early, Writer
  <2> QED BY <2>1, <2>2, <2>3
<1>15. ~Early(h)' BY <1>3 DEF Early
<1>16. /\ \A t \in moved' : t <= typed'
       /\ shown' # None => conv'[shown'.id] # None
       /\ url' # None => conv'[url'] # None
       /\ \A p \in mail' : conv'[p.id] # None
  BY <1>1, <1>4 DEF Kept, Known
<1> HIDE DEF Early
<1> QED BY <1>1, <1>2, <1>5, <1>6, <1>7, <1>10, <1>12, <1>13, <1>14, <1>15, <1>16, StepKeeps

LEMMA CreateKeeps == ASSUME Kept, NEW h \in Slots, NEW kind \in {"send", "create"}, Create(h, kind)
                     PROVE  Kept'
<1> DEFINE text == IF kind = "send" THEN draft ELSE 0
           new == [Handler(kind, "create", None) EXCEPT !.text = text]
<1>1. /\ task[h] = None /\ Event /\ h \in Handlers /\ ~busy /\ busy' = TRUE
      /\ kind = "send" => draft # 0 /\ shown = None
      /\ task' = [task EXCEPT ![h] = new]
      /\ moved' = IF kind = "create" THEN Interrupted ELSE moved
      /\ UNCHANGED <<conv, mail, shown, draft, pending, url, navigating, following, polling,
                     typed, requests>>
  BY DEF Create, Ask, MaySend, Handlers
<1>2. events' = events + 1 /\ events' \in 0..MaxEvents BY <1>1, EventIs
<1>3. text \in 0..MaxTyped /\ text <= typed
  BY Numbers, BoundsAssumption DEF Kept, TypeOK, Known
<1>4. /\ Handler(kind, "create", None) \in Task /\ Handler(kind, "create", None).kind = kind
      /\ Handler(kind, "create", None).at = "create" /\ Handler(kind, "create", None).data = None
  BY HandlerIs DEF Kinds, Waits
<1> HIDE DEF text
<1>5. /\ new \in Task /\ new.kind = kind /\ new.at = "create" /\ new.text = text /\ new.data = None
  BY <1>3, <1>4 DEF Task
<1> HIDE DEF new
<1>6. new # None BY <1>5, NoneIsNothing
<1>7. /\ task' \in [Handlers -> Task \cup {None}] /\ task'[h] = new
      /\ \A i \in Handlers \ {h} : SameTask(i)
  BY <1>1, <1>5 DEF Kept, TypeOK, SameTask
<1>8. moved \subseteq moved' /\ moved' \subseteq Texts /\ \A t \in moved' : t <= typed
  BY <1>1, InterruptedIs DEF Kept, TypeOK, Known
<1>9. TypeOK' BY <1>1, <1>2, <1>7, <1>8 DEF Kept, TypeOK
<1>10. Grows /\ Onward BY <1>1, <1>2, <1>8, Numbers DEF Grows, Onward, Kept
<1>11. requests' < events' BY <1>1, <1>2, Numbers DEF Kept, Known
<1>12. Sound(h)'
  <2>1. kind = "send" => text = draft /\ text \in Texts
    BY <1>1, <1>3, BoundsAssumption DEF text, Texts
  <2>2. kind = "create" => text = 0 /\ draft \in {0} \cup moved'
    BY <1>1, InterruptedIs DEF text
  <2>3. Awaits(kind, "create") BY DEF Awaits
  <2>4. h # Poller BY DEF Slots, Poller
  <2> HIDE DEF Awaits, Early
  <2> QED BY <1>1, <1>3, <1>5, <1>7, <1>11, <2>1, <2>2, <2>3, <2>4 DEF Sound
<1>13. \A i \in Handlers : ~Writer(i) BY <1>1, Idle
<1>14. Writer(h)' BY <1>5, <1>6, <1>7 DEF Writer
<1>15. Single' BY <1>1, <1>7, <1>14, SingleBegins DEF Kept
<1>16. mail' \subseteq Carried BY <1>1, MailCarried
<1>17. Carried' \subseteq Carried BY <1>1, <1>5, <1>7, <1>16, CarriedSame
<1>18. Composing BY <1>1 DEF Composing
<1>19. Unsent'
  <2> SUFFICES ASSUME NEW i \in Slots, Early(i)', task'[i].text \notin moved'
               PROVE  draft' = task'[i].text /\ \A p \in Carried' : p.text # task'[i].text
    BY DEF Unsent
  <2>1. i = h
    <3> SUFFICES ASSUME i # h PROVE FALSE OBVIOUS
    <3>1. SameTask(i) BY <1>7 DEF Handlers
    <3>2. Writer(i) BY <3>1 DEF Early, Writer, SameTask
    <3> QED BY <1>13, <3>2 DEF Handlers
  <2>2. kind = "send" BY <1>5, <1>7, <2>1 DEF Early
  <2>3. task'[i].text = draft BY <1>5, <1>7, <2>1, <2>2 DEF text
  <2>4. \A p \in Carried : p.text # draft
    BY <1>1, <1>8, <2>2, <2>3 DEF Kept, Named, Composed
  <2> QED BY <1>1, <1>17, <2>3, <2>4
<1>20. Named' BY <1>9, <1>10, <1>17, <1>18, <1>19, NamedStays
<1>21. Known'
  <2>1. requests' <= events' BY <1>1, <1>2, <1>11, Numbers DEF Kept
  <2>2. /\ shown' # None => conv'[shown'.id] # None
        /\ url' # None => conv'[url'] # None
        /\ \A p \in mail' : conv'[p.id] # None
        /\ draft' <= typed' /\ \A t \in moved' : t <= typed'
    BY <1>1, <1>8 DEF Kept, Known
  <2> QED BY <2>1, <2>2 DEF Known
<1> HIDE DEF Writer
<1> QED BY <1>1, <1>7, <1>9, <1>10, <1>12, <1>13, <1>15, <1>20, <1>21, KeptStep

\* What is submitted: the submission to be confirmed, or one with a new request id.
LEMMA SubmissionIs ==
  ASSUME Kept, shown # None, NEW text \in Texts, requests < MaxRequests,
         text \notin moved => \A p \in Carried : p.text = text => pending = p /\ p.id = shown.id
  PROVE  /\ Submission(shown.id, text) \in Prompt
         /\ Submission(shown.id, text).id = shown.id /\ Submission(shown.id, text).text = text
         /\ \/ Submission(shown.id, text) = pending /\ pending \in Carried
               /\ pending.request <= requests
            \/ Submission(shown.id, text).request = requests + 1
         /\ text \notin moved => \A p \in Carried : p.text = text => p = Submission(shown.id, text)
<1>1. shown.id \in Ids BY DEF Kept, TypeOK, Thread
<1>2. requests \in Nat /\ MaxRequests \in Nat BY Numbers, BoundsAssumption DEF Kept, MaxRequests
<1>3. CASE pending # None /\ pending.id = shown.id /\ pending.text = text
  <2>1. Submission(shown.id, text) = pending BY <1>3 DEF Submission
  <2>2. pending \in Prompt BY <1>3 DEF Kept, TypeOK
  <2>3. pending \in Carried BY <2>2 DEF Carried, Carries
  <2>4. pending.request <= requests BY <2>3 DEF Kept, Named, Numbered
  <2> QED BY <1>3, <2>1, <2>2, <2>3, <2>4
<1>4. CASE ~(pending # None /\ pending.id = shown.id /\ pending.text = text)
  <2>1. Submission(shown.id, text) = [id |-> shown.id, text |-> text, request |-> requests + 1]
    BY <1>4 DEF Submission, NewPrompt
  <2>2. requests + 1 \in 1..MaxRequests BY <1>2
  <2>3. Submission(shown.id, text) \in Prompt BY <1>1, <2>1, <2>2 DEF Prompt
  <2>4. text \notin moved => \A p \in Carried : p.text # text
    <3> SUFFICES ASSUME text \notin moved, NEW p \in Carried, p.text = text PROVE FALSE OBVIOUS
    <3>1. pending = p /\ p.id = shown.id /\ p \in Prompt BY DEF Carried
    <3> QED BY <1>4, <3>1, NoneIsNothing
  <2> QED BY <2>1, <2>3, <2>4
<1> QED BY <1>3, <1>4

\* A text is submitted to the conversation on the page.
LEMMA SubmitKeeps ==
  ASSUME Kept, NEW h \in Slots, shown # None, NEW text \in Texts, Submit(h, text),
         draft \in {0, text}, text <= typed, requests < events', events' \in 0..MaxEvents,
         text \notin moved => \A p \in Carried : p.text = text => pending = p /\ p.id = shown.id,
         (Writer(h) /\ busy' = busy) \/ (~busy /\ busy' = TRUE),
         UNCHANGED <<conv, mail, shown, url, navigating, following, polling, typed, moved>>,
         events <= events'
  PROVE  Kept'
<1> DEFINE prompt == Submission(shown.id, text)
           started == Handler("send", "post", shown.id)
           new == [started EXCEPT !.text = text, !.request = prompt.request]
<1>1. /\ pending' = prompt
      /\ requests' = IF prompt.request > requests THEN prompt.request ELSE requests
      /\ draft' = draft /\ task' = [task EXCEPT ![h] = new]
  BY DEF Submit, DraftWhileSending
<1>2. /\ events \in Nat /\ events' \in Nat /\ requests \in Nat /\ MaxRequests = MaxEvents
      /\ MaxEvents \in Nat /\ typed \in Nat /\ requests < MaxRequests
  BY Numbers DEF Kept
<1>3. /\ prompt \in Prompt /\ prompt.id = shown.id /\ prompt.text = text
      /\ \/ prompt = pending /\ pending \in Carried /\ pending.request <= requests
         \/ prompt.request = requests + 1
      /\ text \notin moved => \A p \in Carried : p.text = text => p = prompt
  BY <1>2, SubmissionIs
<1>4. started \in Task /\ started.kind = "send" /\ started.at = "post" /\ started.id = shown.id
      /\ started.data = None
  <2>1. shown.id \in Ids \cup {None} BY DEF Kept, TypeOK, Thread
  <2>2. "send" \in Kinds /\ "post" \in Waits BY DEF Kinds, Waits
  <2> QED BY <2>1, <2>2, HandlerIs
<1> HIDE DEF prompt, started
<1>5. prompt.request \in 1..MaxRequests /\ prompt.request \in Nat BY <1>2, <1>3 DEF Prompt
<1>6. /\ requests' \in 0..MaxRequests /\ requests <= requests' /\ requests' <= events'
      /\ prompt.request \in 1..requests'
      /\ (prompt = pending /\ pending \in Carried) \/ (prompt.request = requests + 1)
  BY <1>1, <1>2, <1>3, <1>5
<1>7. /\ new \in Task /\ new.kind = "send" /\ new.at = "post" /\ new.id = shown.id
      /\ new.text = text /\ new.request = prompt.request /\ new.data = None
  <2>1. text \in 0..MaxTyped /\ prompt.request \in 0..MaxRequests
    BY <1>2, <1>5, BoundsAssumption DEF Texts
  <2> QED BY <1>4, <2>1 DEF Task
<1> HIDE DEF new
<1>8. new # None BY <1>7, NoneIsNothing
<1>9. h \in Handlers /\ h # Poller BY DEF Handlers, Slots, Poller
<1>10. /\ task' \in [Handlers -> Task \cup {None}] /\ task'[h] = new
       /\ \A i \in Handlers \ {h} : SameTask(i)
  BY <1>1, <1>7, <1>9 DEF Kept, TypeOK, SameTask
<1>11. TypeOK'
  <2>1. busy' \in BOOLEAN BY DEF Kept, TypeOK
  <2> QED BY <1>1, <1>3, <1>6, <1>10, <2>1 DEF Kept, TypeOK
<1>12. Grows /\ Onward BY <1>2, <1>6 DEF Grows, Onward, Kept
<1>13. \A i \in Handlers \ {h} : ~Writer(i)
  <2>1. CASE ~busy BY <2>1, Idle
  <2>2. CASE Writer(h)
    <3>1. ~Writer(Poller) BY Idle
    <3>2. \A i \in Slots : Writer(i) => i = h BY <2>2 DEF Kept, Single
    <3> HIDE DEF Writer
    <3> QED BY <3>1, <3>2 DEF Handlers
  <2> QED BY <2>1, <2>2
<1>14. Writer(h)' BY <1>7, <1>8, <1>10 DEF Writer
<1>15. Single'
  <2>1. CASE ~busy /\ busy' = TRUE BY <1>10, <1>14, <2>1, SingleBegins DEF Kept
  <2>2. CASE Writer(h) /\ busy' = busy BY <1>9, <1>10, <1>14, <2>2, SingleStays DEF Kept
  <2> QED BY <2>1, <2>2
<1>16. ~Early(h)' BY <1>7, <1>10 DEF Early
<1>17. Sound(h)'
  <2>1. Awaits("send", "post") BY DEF Awaits
  <2>2. shown.id \in Ids /\ conv[shown.id] # None BY DEF Kept, TypeOK, Known, Thread
  <2> HIDE DEF Awaits, Early
  <2> QED BY <1>1, <1>6, <1>7, <1>9, <1>10, <1>16, <2>1, <2>2 DEF Sound
<1>18. Known' BY <1>1, <1>6 DEF Kept, Known
<1>19. Carried' \subseteq Carried \cup {prompt}
  <2> SUFFICES ASSUME NEW p \in Prompt, Carries(p)', p # prompt PROVE Carries(p)
    BY DEF Carried, Prompt, Texts, MaxRequests
  <2>1. pending' # p BY <1>1
  <2>2. ASSUME NEW i \in Slots, task'[i] # None, task'[i].at = "post", task'[i].id = p.id,
               task'[i].text = p.text, task'[i].request = p.request
        PROVE  Carries(p)
    <3>1. i # h
      <4> SUFFICES ASSUME i = h PROVE FALSE OBVIOUS
      <4>1. p.id = prompt.id /\ p.text = prompt.text /\ p.request = prompt.request
        BY <1>3, <1>7, <1>10, <2>2
      <4>2. p = prompt BY <1>3, <4>1 DEF Prompt
      <4> QED BY <4>2
    <3>2. SameTask(i) BY <1>10, <3>1 DEF Handlers
    <3> QED BY <2>2, <3>2 DEF SameTask, Carries
  <2> QED BY <2>1, <2>2 DEF Carries
<1>20. \A p \in Carried' : p \in Carried \/ p = prompt BY <1>19
<1>21. \A p \in Carried : p.request <= requests /\ p.text <= typed /\ p.request \in Nat
  BY BoundsAssumption DEF Kept, Named, Numbered, Carried, Prompt, MaxRequests
<1>22. Named'
  <2>1. Numbered'
    <3>1. prompt.request <= requests' /\ prompt.text <= typed BY <1>2, <1>3, <1>6
    <3>2. \A p \in Carried : p.request <= requests' BY <1>2, <1>6, <1>21
    <3> QED BY <1>20, <1>21, <3>1, <3>2 DEF Numbered
  <2>2. OneText'
    <3>1. \A p, q \in Carried : p.request = q.request => p.text = q.text
      BY DEF Kept, Named, OneText
    <3>2. ASSUME NEW p \in Carried, p.request = prompt.request PROVE p.text = prompt.text
      BY <1>2, <1>6, <1>21, <3>1, <3>2
    <3> QED BY <1>20, <3>1, <3>2 DEF OneText
  <2>3. OneSubmission'
    <3>1. \A p, q \in Carried : p.text = q.text /\ p.text \notin moved => p = q
      BY DEF Kept, Named, OneSubmission
    <3> QED BY <1>3, <1>20, <3>1 DEF OneSubmission
  <2>4. Composed'
    <3> SUFFICES ASSUME NEW p \in Carried', p.text = draft', draft' \notin moved'
                 PROVE  pending' = p /\ shown' # None /\ shown'.id = p.id
      BY DEF Composed
    <3>1. p.text # 0 BY BoundsAssumption DEF Carried, Prompt, Texts
    <3>2. p.text = text /\ text \notin moved BY <1>1, <3>1
    <3>3. p = prompt BY <1>3, <1>20, <3>2
    <3> QED BY <1>1, <1>3, <3>3
  <2>5. Unsent'
    <3>1. \A i \in Slots : ~Early(i)'
      <4> SUFFICES ASSUME NEW i \in Slots, Early(i)', i # h PROVE FALSE BY <1>16
      <4>1. SameTask(i) BY <1>10 DEF Handlers
      <4>2. Writer(i) BY <4>1 DEF Early, Writer, SameTask
      <4> QED BY <1>13, <4>2 DEF Handlers
    <3> HIDE DEF Early
    <3> QED BY <3>1 DEF Unsent
  <2> QED BY <2>1, <2>2, <2>3, <2>4, <2>5 DEF Named
<1> HIDE DEF Writer
<1> QED BY <1>9, <1>10, <1>11, <1>12, <1>13, <1>15, <1>17, <1>18, <1>22, KeptStep

LEMMA SendKeeps == ASSUME Kept, NEW h \in Slots, Send(h) PROVE Kept'
<1>1. /\ task[h] = None /\ Event /\ ~busy /\ draft # 0 /\ shown # None /\ busy' = TRUE
      /\ Submit(h, draft)
      /\ UNCHANGED <<conv, mail, shown, url, navigating, following, polling, typed, moved>>
  BY DEF Send, Ask, MaySend
<1>2. draft \in Texts /\ draft <= typed BY <1>1, Numbers DEF Kept, TypeOK, Texts, Known
<1>3. events' \in 0..MaxEvents /\ events <= events' /\ requests < events'
  BY <1>1, EventIs, Numbers DEF Kept, Known
<1>4. draft \notin moved => \A p \in Carried : p.text = draft => pending = p /\ p.id = shown.id
  BY DEF Kept, Named, Composed
<1> HIDE DEF Submit
<1> QED BY <1>1, <1>2, <1>3, <1>4, SubmitKeeps

LEMMA DrawnKeeps == ASSUME Kept, NEW h \in Slots, Drawn(h) PROVE Kept'
<1>1. /\ task[h] # None /\ task[h].at = "draw" /\ h \in Handlers
      /\ UNCHANGED <<conv, mail, url, navigating, typed, events>>
  BY DEF Drawn, At, Handlers
<1>2. CASE End(h, shown, task[h].kind = "send") /\ UNCHANGED requests
  <2>1. UNCHANGED limits BY <1>1, <1>2 DEF limits
  <2> HIDE DEF End
  <2> QED BY <1>1, <1>2, <2>1, ShownIs, EndsAlone
<1>3. CASE /\ task[h].kind = "send" /\ shown # None /\ Submit(h, task[h].text)
           /\ UNCHANGED <<shown, busy, following, polling, moved>>
  <2>1. Early(h) /\ Writer(h) BY <1>1, <1>3 DEF Early, Writer
  <2>2. Sound(h) BY <1>1 DEF Kept
  <2>3. /\ task[h].text \in Texts /\ task[h].text <= typed /\ draft \in {0, task[h].text}
        /\ requests < events
    BY <1>1, <1>3, <2>1, <2>2 DEF Sound
  <2>4. task[h].text \notin moved => \A p \in Carried : p.text # task[h].text
    BY <2>1 DEF Kept, Named, Unsent
  <2>5. events' \in 0..MaxEvents /\ events <= events' /\ requests < events'
    BY <1>1, <2>3, ShownIs
  <2> HIDE DEF Submit, Writer, Early
  <2> QED BY <1>1, <1>3, <2>1, <2>3, <2>4, <2>5, SubmitKeeps
<1> QED BY <1>2, <1>3 DEF Drawn

LEMMA NextKeeps == ASSUME Kept, [Next]_vars PROVE Kept'
<1>1. CASE Type BY <1>1, TypeKeeps
<1>2. CASE Poll BY <1>2, PollKeeps
<1>3. CASE Polled BY <1>3, PolledKeeps
<1>4. ASSUME NEW c \in Ids, Advance(c) PROVE Kept' BY <1>4, AdvanceKeeps
<1>5. ASSUME NEW p \in mail, Arrive(p) PROVE Kept' BY <1>5, ArriveKeeps
<1>6. ASSUME NEW h \in Slots, Command(h) PROVE Kept'
  BY <1>6, SelectKeeps, BackKeeps, SendKeeps, StopKeeps, CreateKeeps DEF Command
<1>7. ASSUME NEW h \in Slots, Continue(h) PROVE Kept'
  BY <1>7, SelectedKeeps, PlacedKeeps, OpenedKeeps, ListedKeeps, HostedKeeps, DrawnKeeps,
     SentKeeps, WrappedKeeps, StoppedKeeps DEF Continue
<1>8. ASSUME NEW h \in Handlers, Serve(h) PROVE Kept'
  BY <1>8, ReadKeeps, MakeKeeps, RefuseKeeps, RecordKeeps, CancelKeeps DEF Serve
<1>9. ASSUME NEW h \in Handlers, Lose(h) PROVE Kept' BY <1>9, LoseKeeps
<1>10. CASE UNCHANGED vars
  <2>1. UNCHANGED <<conv, mail, shown, draft, pending, busy, url, navigating, following, polling,
                    task, typed, events, requests, moved>>
    BY <1>10 DEF vars, page, limits
  <2>2. Carried' = Carried BY <2>1 DEF Carried, Carries
  <2>3. TypeOK' BY <2>1 DEF Kept, TypeOK
  <2>4. \A h \in Handlers : Sound(h)' BY <2>1 DEF Kept, Sound, Early
  <2>5. Known' /\ Single' BY <2>1 DEF Kept, Known, Single, Writer
  <2>6. Named'
    BY <2>1, <2>2 DEF Kept, Named, Numbered, OneText, OneSubmission, Composed, Unsent, Early
  <2> QED BY <2>3, <2>4, <2>5, <2>6 DEF Kept
<1> QED BY <1>1, <1>2, <1>3, <1>4, <1>5, <1>6, <1>7, <1>8, <1>9, <1>10 DEF Next

-----------------------------------------------------------------------------
(* Theorems                                                                 *)

\* The page's invariant: what a handler relies on when it goes on (app.js 60-80, 226-262,
\* 472-536, 726-746; interactions.js 30-80, 248-269).
THEOREM KeptTheorem == Spec => []Kept
<1>1. Init => Kept BY InitKeeps
<1>2. Kept /\ [Next]_vars => Kept' BY NextKeeps
<1> QED BY <1>1, <1>2, PTL DEF Spec

\* Types hold: a handler waits for what its kind waits for, and history holds texts.
THEOREM ChatTypes == Spec => []TypeOK
<1>1. Kept => TypeOK BY DEF Kept
<1> QED BY <1>1, KeptTheorem, PTL

\* A set whose members are all the same has at most one.
LEMMA AtMostOne ==
  ASSUME NEW S, \A x, y \in S : x = y
  PROVE  Cardinality(S) <= 1
<1>1. CASE S = {} BY <1>1, FS_EmptySet
<1>2. CASE S # {}
  <2>1. PICK x : x \in S BY <1>2
  <2>2. S = {x} BY <2>1
  <2> QED BY <2>2, FS_Singleton
<1> QED BY <1>1, <1>2

\* One command writes at a time, and the page is busy exactly meanwhile.
THEOREM OneWriterTheorem == Spec => []OneWriter
<1>1. Kept => OneWriter
  <2> SUFFICES ASSUME Kept PROVE OneWriter OBVIOUS
  <2> DEFINE writers == {h \in Slots : task[h] # None /\ task[h].kind \in {"send", "create"}}
  <2>1. writers = {h \in Slots : Writer(h)} BY DEF Writer
  <2>2. \A h, i \in writers : h = i BY <2>1 DEF Kept, Single
  <2>3. busy <=> writers # {} BY <2>1 DEF Kept, Single
  <2>4. Cardinality(writers) <= 1 BY <2>2, AtMostOne
  <2> QED BY <2>3, <2>4 DEF OneWriter
<1> QED BY <1>1, KeptTheorem, PTL

\* However often the answer to a message is lost and it is sent again, it is recorded once,
\* unless the page turned to another conversation meanwhile.
THEOREM RecordedTheorem == Spec => []RecordedOnce
<1>1. Kept => RecordedOnce
  <2> SUFFICES ASSUME Kept, NEW c \in Ids, NEW text \in Texts \ moved, conv[c] # None
               PROVE  Cardinality({m \in conv[c].posts : m.text = text}) <= 1
    BY DEF RecordedOnce, Exists
  <2>1. conv[c].posts \subseteq Message BY DEF Kept, TypeOK, Conversation
  <2>2. ASSUME NEW m \in conv[c].posts
        PROVE  [id |-> c, text |-> m.text, request |-> m.request] \in Carried
    <3>1. m \in Message /\ m = [text |-> m.text, request |-> m.request] BY <2>1 DEF Message
    <3> DEFINE p == [id |-> c, text |-> m.text, request |-> m.request]
    <3>2. p \in Prompt BY <3>1 DEF Prompt, Message
    <3>3. Carries(p) BY <3>1 DEF Carries
    <3> QED BY <3>2, <3>3 DEF Carried
  <2>3. ASSUME NEW m \in conv[c].posts, NEW n \in conv[c].posts, m.text = text, n.text = text
        PROVE  m = n
    <3>1. [id |-> c, text |-> m.text, request |-> m.request]
            = [id |-> c, text |-> n.text, request |-> n.request]
      BY <2>2, <2>3 DEF Kept, Named, OneSubmission
    <3>2. m.request = n.request BY <3>1
    <3>3. m \in Message /\ n \in Message BY <2>1
    <3> QED BY <2>3, <3>2, <3>3 DEF Message
  <2> QED BY <2>3, AtMostOne
<1> QED BY <1>1, KeptTheorem, PTL

\* A step that changes the composer types into an empty one, turns away from what it held,
\* or confirms it.
LEMMA DraftIs ==
  ASSUME Kept, Next
  PROVE  draft = 0 \/ draft' = draft \/ draft \in moved' \/ \E h \in Slots : Sent(h)
<1>1. draft \in {0} \cup Interrupted BY InterruptedIs
<1>2. ASSUME NEW h, NEW thread, NEW failed, End(h, thread, failed)
      PROVE  draft = 0 \/ draft' = draft \/ draft \in moved'
  BY <1>1, <1>2 DEF End, Restore, Choose, Leave
<1>3. CASE Type BY <1>3 DEF Type
<1>4. CASE Poll BY <1>4 DEF Poll, page
<1>5. CASE Polled BY <1>2, <1>5 DEF Polled
<1>6. ASSUME NEW c, Advance(c) PROVE draft' = draft BY <1>6 DEF Advance, page
<1>7. ASSUME NEW p, Arrive(p) PROVE draft' = draft BY <1>7 DEF Arrive, page
<1>8. ASSUME NEW h \in Slots, Command(h) PROVE draft = 0 \/ draft' = draft \/ draft \in moved'
  BY <1>1, <1>8 DEF Command, Select, Back, Send, Stop, Create, Choose, Leave, Submit,
                    DraftWhileSending, page
<1>9. ASSUME NEW h \in Slots, Continue(h)
      PROVE  draft = 0 \/ draft' = draft \/ draft \in moved' \/ Sent(h)
  <2>1. CASE Selected(h) BY <1>2, <2>1 DEF Selected
  <2>2. CASE Placed(h) BY <1>2, <2>2 DEF Placed
  <2>3. CASE Opened(h) \/ Listed(h) BY <2>3 DEF Opened, Listed
  <2>4. CASE Hosted(h) BY <1>2, <2>4 DEF Hosted
  <2>5. CASE Drawn(h) BY <1>2, <2>5 DEF Drawn, Submit, DraftWhileSending
  <2>6. CASE Wrapped(h) \/ Stopped(h) BY <1>2, <2>6 DEF Wrapped, Stopped
  <2> QED BY <1>9, <2>1, <2>2, <2>3, <2>4, <2>5, <2>6 DEF Continue
<1>10. ASSUME NEW h \in Handlers, Serve(h) PROVE draft = 0 \/ draft' = draft \/ draft \in moved'
  BY <1>2, <1>10 DEF Serve, Read, MakeConversation, RefuseConversation, Record, Cancel, page
<1>11. ASSUME NEW h \in Handlers, Lose(h) PROVE draft = 0 \/ draft' = draft \/ draft \in moved'
  BY <1>2, <1>11 DEF Lose
<1> QED BY <1>3, <1>4, <1>5, <1>6, <1>7, <1>8, <1>9, <1>10, <1>11 DEF Next

\* The composer is emptied of a text only when a conversation has recorded it, or because
\* the page turned to another conversation.
THEOREM ClearedTheorem == Spec => ClearedIsRecorded
<1>1. ASSUME Kept, Next, draft # 0, draft' # draft, draft \notin moved'
      PROVE  \E c \in Ids : Exists(c) /\ \E m \in conv[c].posts : m.text = draft
  <2>1. PICK h \in Slots : Sent(h) BY <1>1, DraftIs
  <2>2. task[h] # None /\ task[h].at = "reread" BY <2>1 DEF Sent, Answered
  <2>3. /\ task[h].kind = "send" /\ task[h].id \in Ids /\ conv[task[h].id] # None
        /\ draft \in {0, task[h].text}
        /\ \E m \in conv[task[h].id].posts : m.text = task[h].text
    BY <1>1, <2>2 DEF Kept, Sound, Awaits, Handlers
  <2> QED BY <1>1, <2>3 DEF Exists
<1>2. Kept /\ [Next]_vars =>
        [draft # 0 /\ draft' # draft /\ draft \notin moved' =>
           \E c \in Ids : Exists(c) /\ \E m \in conv[c].posts : m.text = draft]_vars
  BY <1>1
<1> QED BY <1>2, KeptTheorem, PTL DEF Spec, ClearedIsRecorded
=============================================================================
