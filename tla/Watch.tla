------------------------------- MODULE Watch --------------------------------
(***************************************************************************)
(* The watcher of `aio-agent notes watch`: rounds that list the Apple      *)
(* notes, read a batch of them and submit what settled to Memory, while    *)
(* the user edits notes, logs in as somebody else, and the process loses   *)
(* answers, fails to write, is stopped, crashes and is started again by    *)
(* the LaunchAgent.                                                        *)
(*                                                                         *)
(* Records carry what the time of a round makes of their timestamps:       *)
(* "settled" is now - observedAt >= settleMs, "later" is retryAt > now.    *)
(*                                                                         *)
(* A definition introduced with "As if" is not part of the model: it is the *)
(* next one with a plausible mistake, kept to see which property notices.  *)
(***************************************************************************)
EXTENDS Integers, FiniteSets

CONSTANTS
  Notes,        \* note ids, as integers: the last criterion of the order
  Good,         \* texts that Memory accepts
  Refused,      \* texts that Memory always refuses
  Huge,         \* texts over the limit of an intake
  Blank,        \* texts of white space only
  Initial,      \* texts the notes may have at first
  Accounts,     \* users the profile may name
  None,
  Batch,        \* batchSize
  MaxAttempts,  \* bound: attempts are told apart up to here
  MaxEdits,     \* bound of the edits
  MaxFaults     \* bound of the faults, logins and administrative stops

Texts == Good \cup Refused \cup Huge \cup Blank

ASSUME NotesAssumption == Notes \subseteq Nat /\ IsFiniteSet(Notes)
ASSUME BatchAssumption == Batch \in Nat \ {0}
ASSUME BoundsAssumption == MaxEdits \in Nat /\ MaxFaults \in Nat /\ MaxAttempts \in Nat
\* A text that Memory accepts fails once per fault, so that only refused ones saturate.
ASSUME AttemptsAssumption == MaxAttempts > MaxFaults
ASSUME TextsAssumption ==
  /\ Good \cap (Refused \cup Huge \cup Blank) = {}
  /\ Initial \subseteq Texts
  /\ Refused \cap (Huge \cup Blank) = {} /\ Huge \cap Blank = {}

VARIABLES
  note,         \* the notes of the app: text and time of the last edit
  edits, faults,
  account,      \* the user of the session profile
  sources,      \* Memory: what was captured, for whom, under which request id
  flight,       \* captures the client gave up waiting for, still on their way
  disk,         \* apple-watch.json: the scope, and a record per note
  lock,         \* .apple-watch.lock: absent, empty, or a pid that is live or stale
  installed,    \* the LaunchAgent is loaded
  pc,           \* where the process is
  stop,         \* it was told to stop
  client,       \* the user whose session this round uses
  mem,          \* the records of this round, in memory
  listed,       \* notes chosen from the metadata
  batch,        \* their contents, those not yet processed
  posting,      \* the note being captured
  sent          \* history: the last submission of a note, and whether the user
                \* has changed its text since

world == <<note, edits, account>>
process == <<pc, stop, client, mem, listed, batch, posting>>
vars == <<world, faults, sources, flight, disk, lock, installed, process, sent>>

Record == [id : Nat, text : Texts \ Blank, modified : 0..MaxEdits, attempt : 0..MaxAttempts,
           settled : BOOLEAN, later : BOOLEAN, blocked : BOOLEAN, saved : BOOLEAN]
Records == [Notes -> Record \cup {None}]
NoRecords == [n \in Notes |-> None]
Source == [owner : Accounts, id : Nat, text : Texts]
Submission == [id : Nat, text : Texts, edited : BOOLEAN]

ASSUME NoneAssumption == None \notin Record \cup Submission \cup Accounts \cup Notes
ASSUME AccountsAssumption == Accounts # {}

TypeOK ==
  /\ note \in [Notes -> [text : Texts, modified : 0..MaxEdits]]
  /\ edits \in 0..MaxEdits /\ faults \in 0..MaxFaults
  /\ account \in Accounts /\ client \in Accounts \cup {None}
  /\ sources \cup flight \subseteq Source
  /\ disk \in [scope : Accounts \cup {None}, records : Records]
  /\ mem \in Records
  /\ sent \in [Notes -> Submission \cup {None}]
  /\ lock \in {"absent", "empty", "live", "stale"}
  /\ pc \in {"down", "opening", "idle", "listed", "notes", "posting", "write"}
  /\ installed \in BOOLEAN /\ stop \in BOOLEAN
  /\ listed \subseteq Notes /\ DOMAIN batch \subseteq Notes
  /\ posting \in Notes \cup {None}

Init ==
  /\ note \in [Notes -> [text : Initial, modified : {0}]]
  /\ edits = 0 /\ faults = 0
  /\ account = CHOOSE a \in Accounts : TRUE
  /\ sources = {} /\ flight = {}
  /\ disk = [scope |-> None, records |-> NoRecords]
  /\ lock = "absent" /\ installed = TRUE
  /\ pc = "down" /\ stop = FALSE /\ client = None
  /\ mem = NoRecords /\ listed = {} /\ batch = <<>> /\ posting = None
  /\ sent = NoRecords

Fault == faults < MaxFaults /\ faults' = faults + 1

(*---------------------------- the environment ----------------------------*)

\* The user saves a note, with another text or with the same.
Edit(n, t) ==
  /\ edits < MaxEdits /\ edits' = edits + 1
  /\ note' = [note EXCEPT ![n] = [text |-> t, modified |-> edits + 1]]
  /\ sent' = IF t = note[n].text \/ sent[n] = None THEN sent
             ELSE [sent EXCEPT ![n].edited = TRUE]
  /\ UNCHANGED <<account, faults, sources, flight, disk, lock, installed, process>>

\* The profile is written by a login, perhaps of another user.
Login(a) ==
  /\ Fault /\ a # account /\ account' = a
  /\ UNCHANGED <<note, edits, sources, flight, disk, lock, installed, process, sent>>

\* Time passes: what was observed is settled, and what failed may be retried.
Elapse(n) ==
  /\ pc = "idle" /\ disk.records[n] # None
  /\ ~disk.records[n].settled \/ disk.records[n].later
  /\ disk' = [disk EXCEPT !.records[n].settled = TRUE, !.records[n].later = FALSE]
  /\ UNCHANGED <<world, faults, sources, flight, lock, installed, process, sent>>

\* An intake is done once per request id.
Held(s) == \E h \in sources : h.owner = s.owner /\ h.id = s.id
Intake(s) == IF Held(s) THEN sources ELSE sources \cup {s}

\* A capture the client gave up is served after all.
ServeLate(s) ==
  /\ s \in flight /\ flight' = flight \ {s}
  /\ sources' = Intake(s)
  /\ UNCHANGED <<world, faults, disk, lock, installed, process, sent>>

(*------------------------------ the process ------------------------------*)

Down == /\ pc' = "down" /\ stop' = FALSE /\ client' = None /\ mem' = NoRecords
        /\ listed' = {} /\ batch' = <<>> /\ posting' = None
Pause == /\ pc' = "idle" /\ client' = None /\ mem' = NoRecords
         /\ listed' = {} /\ batch' = <<>> /\ posting' = None /\ UNCHANGED stop

\* launchd starts the process, which creates the lock, over one whose process
\* is gone.  A lock it cannot read is an error, and the process exits again.
Start ==
  /\ pc = "down" /\ installed /\ lock \in {"absent", "stale"}
  /\ lock' = "empty" /\ pc' = "opening"
  /\ UNCHANGED <<world, faults, sources, flight, disk, installed, stop, client, mem, listed,
                 batch, posting, sent>>

WriteLock ==
  /\ pc = "opening" /\ lock' = "live" /\ pc' = "idle"
  /\ UNCHANGED <<world, faults, sources, flight, disk, installed, stop, client, mem, listed,
                 batch, posting, sent>>

Exit ==
  /\ pc = "idle" /\ stop
  /\ lock' = "absent" /\ Down
  /\ UNCHANGED <<world, faults, sources, flight, disk, installed, sent>>

\* What the first pass over the metadata leaves out.
UpToDate(n, r) == /\ r # None /\ r.modified = note[n].modified
                  /\ r.saved \/ r.blocked \/ r.later
Attempt(n) == IF mem'[n] = None THEN 0 ELSE mem'[n].attempt
\* As if the newest note came first whatever was tried before.
NewestFirst(a, b) == \/ note[a].modified > note[b].modified
                     \/ note[a].modified = note[b].modified /\ a < b
Before(a, b) == \/ Attempt(a) < Attempt(b)
                \/ /\ Attempt(a) = Attempt(b)
                   /\ \/ note[a].modified > note[b].modified
                      \/ note[a].modified = note[b].modified /\ a < b
First(candidates) ==
  {n \in candidates : Cardinality({m \in candidates : Before(m, n)}) < Batch}

\* A round reads the session and the state, and lists the notes.  Under the
\* session of another user it ends with an error that changes nothing.
StartRound ==
  /\ pc = "idle" /\ ~stop
  /\ disk.scope \in {None, account}
  /\ client' = account
  /\ mem' = disk.records
  /\ listed' = First({n \in Notes : ~UpToDate(n, disk.records[n])})
  /\ pc' = "listed"
  /\ UNCHANGED <<world, faults, sources, flight, disk, lock, installed, stop, batch, posting, sent>>

\* The chosen notes are read at once; one that is being edited is skipped.
ReadNotes ==
  /\ pc = "listed" /\ pc' = "notes"
  /\ batch' = [n \in listed |-> note[n]]
  /\ listed' = {}
  /\ UNCHANGED <<world, faults, sources, flight, disk, lock, installed, stop, client, mem,
                 posting, sent>>

Save(records) == disk' = [scope |-> client, records |-> records]
Taken(n) == batch' = [m \in DOMAIN batch \ {n} |-> batch[m]]
Done(n) == Taken(n) /\ UNCHANGED <<pc, posting>>

\* The smallest id nobody has seen stands for a random one.
SeenIds == {s.id : s \in sources \cup flight}
             \cup {r.id : r \in ({disk.records[n] : n \in Notes} \cup {mem[n] : n \in Notes}
                                  \cup {sent[n] : n \in Notes}) \ {None}}
NewId == CHOOSE i \in 1..(Cardinality(SeenIds) + 1) : i \notin SeenIds

NewRecord(b) == [id |-> NewId, text |-> b.text, modified |-> b.modified, attempt |-> 0,
                 settled |-> FALSE, later |-> FALSE, blocked |-> FALSE, saved |-> FALSE]
SameText(r, b) == r # None /\ r.text = b.text
\* As if the record of a note kept its id and its state under another text.
OneRecordPerNote(r, b) ==
  IF r # None THEN [r EXCEPT !.text = b.text, !.modified = b.modified] ELSE NewRecord(b)
\* As if every attempt drew its own request id.
NewIdPerAttempt(r, b) ==
  IF SameText(r, b) THEN [r EXCEPT !.modified = b.modified,
                                   !.id = IF r.attempt = 0 THEN r.id ELSE NewId]
  ELSE NewRecord(b)
Observed(r, b) == IF SameText(r, b) THEN [r EXCEPT !.modified = b.modified] ELSE NewRecord(b)

\* As if notes without text were recorded like the others.
NeverEmpty(b) == FALSE
Empty(b) == b.text \in Blank

\* One note of the batch, up to its submission.  The record is written before
\* anything is sent, and a text that is too long is written off.
Process(n) ==
  LET b == batch[n]
      r == Observed(mem[n], b)
      records == [mem EXCEPT ![n] = r]
      attempted == [r EXCEPT !.attempt = IF @ < MaxAttempts THEN @ + 1 ELSE @]
  IN /\ pc = "notes" /\ ~stop /\ n \in DOMAIN batch
     /\ \/ Empty(b) /\ Done(n) /\ UNCHANGED <<mem, disk, sent>>
        \/ /\ ~Empty(b)
           /\ IF r.saved \/ r.blocked \/ r.later \/ (b.text \notin Huge /\ ~r.settled)
              THEN mem' = records /\ Save(records) /\ Done(n) /\ UNCHANGED sent
              ELSE \/ /\ b.text \in Huge
                      /\ mem' = [records EXCEPT ![n].blocked = TRUE]
                      /\ Save(mem') /\ Done(n) /\ UNCHANGED sent
                   \/ /\ b.text \notin Huge
                      /\ Save(records)
                      /\ mem' = [mem EXCEPT ![n] = attempted]
                      /\ pc' = "posting" /\ posting' = n /\ Taken(n)
                      /\ sent' = [sent EXCEPT ![n] = [id |-> r.id, text |-> r.text, edited |-> FALSE]]
     /\ UNCHANGED <<world, faults, sources, flight, lock, installed, stop, client, listed>>

Capture == [owner |-> client, id |-> mem[posting].id, text |-> mem[posting].text]

\* The answer of Memory: the note is saved there.
Captured ==
  /\ pc = "posting" /\ mem[posting].text \notin Refused
  /\ sources' = Intake(Capture)
  /\ mem' = [mem EXCEPT ![posting].saved = TRUE, ![posting].later = FALSE]
  /\ pc' = "write"
  /\ UNCHANGED <<world, faults, flight, disk, lock, installed, stop, client, listed, batch,
                 posting, sent>>

\* The capture fails: refused, or not served, or served with its answer lost,
\* or given up while it is still on its way.  It is tried again later.
Failed ==
  /\ pc = "posting"
  /\ \/ mem[posting].text \in Refused /\ UNCHANGED <<faults, sources, flight>>
     \/ Fault /\ UNCHANGED <<sources, flight>>
     \/ /\ Fault /\ mem[posting].text \notin Refused
        /\ \/ sources' = Intake(Capture) /\ UNCHANGED flight
           \/ flight' = flight \cup {Capture} /\ UNCHANGED sources
  /\ mem' = [mem EXCEPT ![posting].later = TRUE]
  /\ pc' = "write"
  /\ UNCHANGED <<world, disk, lock, installed, stop, client, listed, batch, posting, sent>>

\* The record of the answer is written; after a failure the rest of the batch
\* waits for the next round.
WriteAnswer ==
  /\ pc = "write" /\ Save(mem)
  /\ posting' = None
  /\ pc' = "notes" /\ batch' = IF mem[posting].later THEN <<>> ELSE batch
  /\ UNCHANGED <<world, faults, sources, flight, lock, installed, stop, client, mem, listed, sent>>

\* The round ends with its notes, or when told to stop.
EndRound ==
  /\ pc = "notes" /\ (stop \/ batch = <<>>)
  /\ Pause
  /\ UNCHANGED <<world, faults, sources, flight, disk, lock, installed, sent>>

(*------------------------ faults and administration ----------------------*)

\* Reading the session, the notes or the state fails, or a write of the state
\* does: the records of the round are forgotten.  When the report of the error
\* cannot be written either, the process exits.
RoundFails ==
  /\ pc \in {"idle", "listed", "notes", "write"} /\ Fault
  /\ \/ Pause /\ UNCHANGED lock
     \/ Down /\ lock' = "absent"
  /\ UNCHANGED <<world, sources, flight, disk, installed, sent>>

\* The process is killed; a capture it was waiting for may still be served.
\* A failed write of the pid ends it too, before it looks after the lock.
Crash ==
  /\ pc # "down" /\ Fault
  /\ lock' = IF pc = "opening" THEN "empty" ELSE "stale"
  /\ \/ UNCHANGED flight
     \/ /\ pc = "posting" /\ mem[posting].text \notin Refused
        /\ flight' = flight \cup {Capture}
  /\ Down
  /\ UNCHANGED <<world, sources, disk, installed, sent>>

\* watch-remove and watch-install both stop the process that runs.
Admin(load) ==
  /\ Fault /\ installed' = load
  /\ stop' = (pc # "down")
  /\ UNCHANGED <<world, sources, flight, disk, lock, pc, client, mem, listed, batch, posting, sent>>

Next ==
  \/ \E n \in Notes, t \in Texts : Edit(n, t)
  \/ \E a \in Accounts : Login(a)
  \/ \E n \in Notes : Elapse(n) \/ Process(n)
  \/ \E s \in flight : ServeLate(s)
  \/ Start \/ WriteLock \/ Exit
  \/ StartRound \/ ReadNotes \/ Captured \/ Failed \/ WriteAnswer \/ EndRound
  \/ RoundFails \/ Crash
  \/ \E load \in BOOLEAN : Admin(load)

Spec == Init /\ [][Next]_vars

\* launchd restarts the process, the process goes on, Memory answers, and the
\* pauses between rounds let time pass again and again.
Steps == \/ Start \/ WriteLock \/ Exit \/ StartRound \/ ReadNotes \/ WriteAnswer \/ EndRound
         \/ Captured \/ (Failed /\ faults' = faults)
         \/ \E n \in Notes : Process(n)
FairSpec == Spec /\ WF_vars(Steps) /\ \A n \in Notes : SF_vars(Elapse(n))

(*------------------------------ properties -------------------------------*)

\* A record that says its note is saved names a text Memory holds for the user
\* of the state file, whatever answers were lost, served late, or received
\* under another login (watch.mjs 61-95, 34-47).  Nor does the filter on
\* modification times leave out a text that is still to be captured: a note it
\* takes for saved is saved as it reads now, also when it was edited while its
\* batch was processed (apple.mjs 49-52, watch.mjs 59-76).
SavedIsHeld ==
  \A n \in Notes : LET r == disk.records[n]
                       Holds(text) == \E h \in sources : h.owner = disk.scope /\ h.text = text
                   IN  r # None /\ r.saved =>
                         /\ Holds(r.text)
                         /\ r.modified = note[n].modified => Holds(note[n].text)

\* A text is submitted again under the request id it had, until the user
\* changes it: across lost answers, failed writes and crashes (watch.mjs 54).
OneIdPerText ==
  [][\A n \in Notes :
       sent[n] # None /\ sent'[n].text = sent[n].text /\ ~sent[n].edited
         => sent'[n].id = sent[n].id]_vars

\* A note that the user leaves alone is captured in the end, unless another
\* user has logged in, the LaunchAgent was removed, the lock cannot be read, or
\* blank notes fill the batch of every round (watch.mjs 107-149, README 111).
Wedged == pc = "down" /\ lock = "empty"
Works == /\ installed /\ ~Wedged /\ disk.scope \in {None, account}
         /\ Cardinality({m \in Notes : note[m].text \in Blank}) < Batch
EventuallyCaptured ==
  \A n \in Notes, t \in Good :
    <>[](Works /\ note[n].text = t) => <>(\E s \in sources : s.owner = disk.scope /\ s.text = t)
=============================================================================
