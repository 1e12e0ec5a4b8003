----------------------------- MODULE WatchProofs ------------------------------
(***************************************************************************)
(* What a record says of its note stays true because an id, once drawn,    *)
(* stands for one text, and because an edit gives a note a time nothing    *)
(* has seen.  Both are part of the inductive invariant Kept.               *)
(***************************************************************************)
EXTENDS Watch, FiniteSetTheorems, TLAPS

Round == {"listed", "notes", "posting", "write"}

\* A round has a client and works on the state of its user; nothing outlives it in memory.
InRound ==
  /\ pc \in Round => client \in Accounts /\ disk.scope \in {None, client}
  /\ pc \notin Round => mem = NoRecords /\ DOMAIN batch = {}
  /\ pc \in {"posting", "write"} => posting \in Notes /\ mem[posting] # None
  /\ disk.scope = None => disk.records = NoRecords

\* What carries an id: captures, and the records on disk and in memory.
Known == sources \cup flight
           \cup (({disk.records[n] : n \in Notes} \cup {mem[n] : n \in Notes}) \ {None})

\* An id stands for one text.
OneTextPerId == \A k, l \in Known : k.id = l.id => k.text = l.text

\* What has the time of the note has its text.
Dated(n, seen) ==
  /\ seen.modified <= edits
  /\ seen.modified = note[n].modified => seen.text = note[n].text

AllDated ==
  \A n \in Notes :
    /\ note[n].modified <= edits
    /\ disk.records[n] # None => Dated(n, disk.records[n])
    /\ mem[n] # None => Dated(n, mem[n])
    /\ n \in DOMAIN batch => batch[n] \in [text : Texts, modified : 0..MaxEdits] /\ Dated(n, batch[n])

\* A text is held for a user.
HeldFor(user, text) == \E h \in sources : h.owner = user /\ h.text = text

\* A record that is saved is held, on disk for the user of the file and in memory for the client.
SavedHeld ==
  \A n \in Notes :
    /\ disk.records[n] # None /\ disk.records[n].saved => HeldFor(disk.scope, disk.records[n].text)
    /\ mem[n] # None /\ mem[n].saved => HeldFor(client, mem[n].text)

\* The record that belongs to a submission: it has its id, or the note has another text.
Follows(n, r) ==
  /\ r # None
  /\ r.text = sent[n].text => r.id = sent[n].id
  /\ r.text # sent[n].text => note[n].text # sent[n].text

\* While the user does not touch a note, what was read of it is what it says, and its records
\* follow its last submission.
SentFollowed ==
  \A n \in Notes :
    sent[n] # None /\ ~sent[n].edited =>
      /\ n \in DOMAIN batch => batch[n].text = note[n].text
      /\ Follows(n, disk.records[n])
      /\ pc \in Round => Follows(n, mem[n])

Kept ==
  /\ TypeOK /\ IsFiniteSet(sources) /\ IsFiniteSet(flight)
  /\ InRound /\ OneTextPerId /\ AllDated /\ SavedHeld /\ SentFollowed

-----------------------------------------------------------------------------
(* Records and ids                                                          *)

\* What a round or the time changes in a record leaves its id, its text and its date.
Like(r, new) ==
  new \in Record /\ new.id = r.id /\ new.text = r.text /\ new.modified = r.modified

LEMMA ChangesAreLike ==
  \A r \in Record :
    /\ LET new == [r EXCEPT !.settled = TRUE, !.later = FALSE] IN Like(r, new) /\ new.saved = r.saved
    /\ LET new == [r EXCEPT !.attempt = IF @ < MaxAttempts THEN @ + 1 ELSE @]
       IN  Like(r, new) /\ new.saved = r.saved
    /\ LET new == [r EXCEPT !.blocked = TRUE] IN Like(r, new) /\ new.saved = r.saved
    /\ LET new == [r EXCEPT !.later = TRUE] IN Like(r, new) /\ new.saved = r.saved
    /\ Like(r, [r EXCEPT !.saved = TRUE, !.later = FALSE])
<1> SUFFICES ASSUME NEW r \in Record
    PROVE  /\ LET new == [r EXCEPT !.settled = TRUE, !.later = FALSE]
              IN  Like(r, new) /\ new.saved = r.saved
           /\ LET new == [r EXCEPT !.attempt = IF @ < MaxAttempts THEN @ + 1 ELSE @]
              IN  Like(r, new) /\ new.saved = r.saved
           /\ LET new == [r EXCEPT !.blocked = TRUE] IN Like(r, new) /\ new.saved = r.saved
           /\ LET new == [r EXCEPT !.later = TRUE] IN Like(r, new) /\ new.saved = r.saved
           /\ Like(r, [r EXCEPT !.saved = TRUE, !.later = FALSE])
    OBVIOUS
<1>1. r.attempt \in 0..MaxAttempts BY DEF Record
<1>2. (IF r.attempt < MaxAttempts THEN r.attempt + 1 ELSE r.attempt) \in 0..MaxAttempts
  BY <1>1, BoundsAssumption
<1>3. LET new == [r EXCEPT !.attempt = IF @ < MaxAttempts THEN @ + 1 ELSE @]
      IN  Like(r, new) /\ new.saved = r.saved
  BY <1>2 DEF Like, Record
<1>4. LET new == [r EXCEPT !.settled = TRUE, !.later = FALSE] IN Like(r, new) /\ new.saved = r.saved
  BY DEF Like, Record
<1>5. LET new == [r EXCEPT !.blocked = TRUE] IN Like(r, new) /\ new.saved = r.saved
  BY DEF Like, Record
<1>6. LET new == [r EXCEPT !.later = TRUE] IN Like(r, new) /\ new.saved = r.saved
  BY DEF Like, Record
<1>7. Like(r, [r EXCEPT !.saved = TRUE, !.later = FALSE]) BY DEF Like, Record
<1> QED BY <1>3, <1>4, <1>5, <1>6, <1>7

\* None is told from whatever is kept where it may stand.
LEMMA NoneIsNothing ==
  /\ None \notin Record /\ None \notin Submission /\ None \notin Accounts /\ None \notin Notes
  BY NoneAssumption

\* Records stay records when one of them changes.
LEMMA RecordsChange ==
  ASSUME NEW records \in Records, NEW n \in Notes, NEW r \in Record,
         NEW new, new = [records EXCEPT ![n] = r]
  PROVE  /\ new \in Records /\ new[n] = r
         /\ \A m \in Notes : m # n => new[m] = records[m]
  BY DEF Records

\* The image of a finite set is finite.
LEMMA ImageIsFinite ==
  ASSUME NEW S, IsFiniteSet(S), NEW f, f = [x \in S |-> f[x]]
  PROVE  IsFiniteSet({f[x] : x \in S})
<1> DEFINE T == {f[x] : x \in S}
<1>1. f \in [S -> T] /\ \A t \in T : \E x \in S : f[x] = t OBVIOUS
<1>2. f \in Surjection(S, T) BY <1>1, Zenon DEF Surjection
<1> HIDE DEF T
<1>3. IsFiniteSet(T) BY <1>2, FS_Surjection
<1> QED BY <1>3 DEF T

\* Something carries an id that nothing has seen.
LEMMA NewIdIsNew ==
  ASSUME TypeOK, IsFiniteSet(sources), IsFiniteSet(flight)
  PROVE  NewId \in Nat /\ \A k \in Known : k.id # NewId
<1> DEFINE rows == {disk.records[n] : n \in Notes} \cup {mem[n] : n \in Notes}
                     \cup {sent[n] : n \in Notes}
           known == sources \cup flight
<1>1. IsFiniteSet(rows \ {None})
  <2>0. /\ disk.records = [n \in Notes |-> disk.records[n]] /\ mem = [n \in Notes |-> mem[n]]
        /\ sent = [n \in Notes |-> sent[n]] /\ IsFiniteSet(Notes)
    BY NotesAssumption DEF TypeOK, Records
  <2>1. IsFiniteSet({disk.records[n] : n \in Notes}) BY <2>0, ImageIsFinite
  <2>2. IsFiniteSet({mem[n] : n \in Notes}) BY <2>0, ImageIsFinite
  <2>3. IsFiniteSet({sent[n] : n \in Notes}) BY <2>0, ImageIsFinite
  <2>4. IsFiniteSet(rows) BY <2>1, <2>2, <2>3, FS_Union
  <2> QED BY <2>4, FS_RemoveElement
<1>2. IsFiniteSet(known) BY FS_Union
<1> HIDE DEF rows, known
<1>3. IsFiniteSet({s.id : s \in known})
  <2> DEFINE ids == [s \in known |-> s.id]
  <2>1. IsFiniteSet({ids[s] : s \in known}) BY <1>2, ImageIsFinite
  <2>2. {ids[s] : s \in known} = {s.id : s \in known} OBVIOUS
  <2> QED BY <2>1, <2>2
<1>4. IsFiniteSet({r.id : r \in rows \ {None}})
  <2> DEFINE ids == [r \in rows \ {None} |-> r.id]
  <2>1. IsFiniteSet({ids[r] : r \in rows \ {None}}) BY <1>1, ImageIsFinite
  <2>2. {ids[r] : r \in rows \ {None}} = {r.id : r \in rows \ {None}} OBVIOUS
  <2> QED BY <2>1, <2>2
<1>5. IsFiniteSet(SeenIds) BY <1>3, <1>4, FS_Union DEF SeenIds, rows, known
<1>6. \E i \in 1..(Cardinality(SeenIds) + 1) : i \notin SeenIds
  <2> DEFINE count == Cardinality(SeenIds)
  <2>1. count \in Nat BY <1>5, FS_CardinalityType
  <2>2. SUFFICES ASSUME 1..(count + 1) \subseteq SeenIds PROVE FALSE OBVIOUS
  <2>3. Cardinality(1..(count + 1)) = count + 1 BY <2>1, FS_Interval
  <2>4. Cardinality(1..(count + 1)) <= count BY <1>5, <2>2, FS_Subset
  <2> QED BY <2>1, <2>3, <2>4
<1>7. NewId \in 1..(Cardinality(SeenIds) + 1) /\ NewId \notin SeenIds BY <1>6 DEF NewId
<1>8. NewId \in Nat BY <1>5, <1>7, FS_CardinalityType
<1>9. \A k \in Known : k.id \in SeenIds
  BY DEF Known, SeenIds
<1> QED BY <1>7, <1>8, <1>9

\* No id is drawn: what carries one carried it before, with its text.
LEMMA SameNames ==
  ASSUME OneTextPerId,
         \A k \in Known' : \E old \in Known : old.id = k.id /\ old.text = k.text
  PROVE  OneTextPerId'
  BY DEF OneTextPerId

\* What is held stays held.
LEMMA HeldStays ==
  ASSUME sources \subseteq sources', NEW user, NEW text, HeldFor(user, text)
  PROVE  HeldFor(user, text)'
  BY DEF HeldFor

-----------------------------------------------------------------------------
(* The environment and the administration                                   *)

LEMMA InitKeeps == Init => Kept
<1> SUFFICES ASSUME Init PROVE Kept OBVIOUS
<1> USE DEF Init
<1>1. /\ NoRecords \in Records /\ \A n \in Notes : NoRecords[n] = None
      /\ NoRecords \in [Notes -> Submission \cup {None}]
  BY DEF Records, NoRecords
<1>2. account \in Accounts BY AccountsAssumption
<1>3. \A n \in Notes : note[n] \in [text : Texts, modified : 0..MaxEdits] /\ note[n].modified = 0
  BY TextsAssumption, BoundsAssumption
<1>4. TypeOK
  <2>1. note \in [Notes -> [text : Texts, modified : 0..MaxEdits]]
    BY TextsAssumption, BoundsAssumption
  <2>2. edits \in 0..MaxEdits /\ faults \in 0..MaxFaults BY BoundsAssumption
  <2>3. DOMAIN batch = {} OBVIOUS
  <2> QED BY <1>1, <1>2, <2>1, <2>2, <2>3 DEF TypeOK
<1>5. InRound BY DEF InRound, Round
<1>6. Known = {} BY <1>1 DEF Known
<1>7. OneTextPerId BY <1>6 DEF OneTextPerId
<1>8. AllDated
  <2>1. DOMAIN batch = {} OBVIOUS
  <2> QED BY <1>1, <1>3, <2>1 DEF AllDated
<1>9. SavedHeld /\ SentFollowed BY <1>1 DEF SavedHeld, SentFollowed
<1> QED BY <1>4, <1>5, <1>7, <1>8, <1>9, FS_EmptySet DEF Kept

\* The user saves a note: its time is one that nothing has.
LEMMA EditKeeps ==
  ASSUME Kept, NEW n \in Notes, NEW t \in Texts, Edit(n, t)
  PROVE  Kept'
<1> USE DEF Edit, process
<1>1. /\ note \in [Notes -> [text : Texts, modified : 0..MaxEdits]]
      /\ edits \in 0..MaxEdits /\ edits' = edits + 1 /\ edits' \in 0..MaxEdits
      /\ sent \in [Notes -> Submission \cup {None}]
  BY BoundsAssumption DEF Kept, TypeOK
<1>2. /\ note' \in [Notes -> [text : Texts, modified : 0..MaxEdits]]
      /\ note'[n].text = t /\ note'[n].modified = edits + 1
      /\ \A m \in Notes : m # n => note'[m] = note[m]
  BY <1>1
<1>3. /\ sent' \in [Notes -> Submission \cup {None}]
      /\ \A m \in Notes : m # n => sent'[m] = sent[m]
      /\ \/ sent'[n] = sent[n] /\ (t = note[n].text \/ sent[n] = None)
         \/ sent'[n].edited
  <2>1. CASE t = note[n].text \/ sent[n] = None BY <1>1, <2>1
  <2>2. CASE ~ (t = note[n].text \/ sent[n] = None)
    <3>1. sent[n] \in Submission BY <1>1, <2>2
    <3>2. [sent[n] EXCEPT !.edited = TRUE] \in Submission /\ [sent[n] EXCEPT !.edited = TRUE].edited
      BY <3>1 DEF Submission
    <3>3. sent' = [sent EXCEPT ![n] = [sent[n] EXCEPT !.edited = TRUE]] BY <2>2
    <3> QED BY <1>1, <3>2, <3>3
  <2> QED BY <2>1, <2>2
<1>4. TypeOK' BY <1>1, <1>2, <1>3 DEF Kept, TypeOK
<1>5. IsFiniteSet(sources') /\ IsFiniteSet(flight') /\ InRound' /\ OneTextPerId'
  BY DEF Kept, InRound, OneTextPerId, Known
<1>6. AllDated'
  <2>1. \A m \in Notes : note'[m].modified <= edits' BY <1>1, <1>2 DEF Kept, AllDated
  <2>2. ASSUME NEW m \in Notes, NEW seen, seen.modified \in Nat, Dated(m, seen)
        PROVE  /\ seen.modified <= edits'
               /\ seen.modified = note'[m].modified => seen.text = note'[m].text
    BY <1>1, <1>2, <2>2 DEF Dated
  <2>3. \A m \in Notes : disk.records[m] # None => Dated(m, disk.records[m])'
    <3>1. \A m \in Notes : disk.records[m] # None =>
            disk.records[m].modified \in Nat /\ Dated(m, disk.records[m])
      BY DEF Kept, AllDated, TypeOK, Records, Record
    <3> QED BY <2>2, <3>1 DEF Dated
  <2>4. \A m \in Notes : mem[m] # None => Dated(m, mem[m])'
    <3>1. \A m \in Notes : mem[m] # None => mem[m].modified \in Nat /\ Dated(m, mem[m])
      BY DEF Kept, AllDated, TypeOK, Records, Record
    <3> QED BY <2>2, <3>1 DEF Dated
  <2>5. \A m \in Notes : m \in DOMAIN batch =>
          batch[m] \in [text : Texts, modified : 0..MaxEdits] /\ Dated(m, batch[m])'
    <3>1. \A m \in Notes : m \in DOMAIN batch =>
            /\ batch[m] \in [text : Texts, modified : 0..MaxEdits]
            /\ batch[m].modified \in Nat /\ Dated(m, batch[m])
      BY DEF Kept, AllDated
    <3> QED BY <2>2, <3>1 DEF Dated
  <2> QED BY <2>1, <2>3, <2>4, <2>5 DEF AllDated
<1>7. SavedHeld' BY DEF Kept, SavedHeld, HeldFor
<1>8. SentFollowed'
  <2> SUFFICES ASSUME NEW m \in Notes, sent'[m] # None, ~sent'[m].edited
               PROVE  /\ m \in DOMAIN batch' => batch'[m].text = note'[m].text
                      /\ Follows(m, disk.records[m])'
                      /\ pc' \in Round => Follows(m, mem[m])'
    BY DEF SentFollowed
  <2>1. sent'[m] = sent[m] /\ note'[m].text = note[m].text BY <1>2, <1>3
  <2> QED BY <2>1 DEF Kept, SentFollowed, Follows
<1> QED BY <1>4, <1>5, <1>6, <1>7, <1>8 DEF Kept

\* Time passes for a record.
LEMMA ElapseKeeps ==
  ASSUME Kept, NEW n \in Notes, Elapse(n)
  PROVE  Kept'
<1> DEFINE new == [disk.records[n] EXCEPT !.settled = TRUE, !.later = FALSE]
<1> USE DEF Elapse, world, process
<1>1. disk.records \in Records /\ disk.records[n] \in Record BY DEF Kept, TypeOK, Records
<1>2. Like(disk.records[n], new) /\ new.saved = disk.records[n].saved BY <1>1, ChangesAreLike
<1>3. disk' = [disk EXCEPT !.records = [@ EXCEPT ![n] = new]]
  <2>1. disk = [scope |-> disk.scope, records |-> disk.records] BY DEF Kept, TypeOK
  <2> QED BY <1>1, <2>1 DEF Records
<1> HIDE DEF new
<1>4. /\ disk'.scope = disk.scope /\ disk'.records = [disk.records EXCEPT ![n] = new]
      /\ disk' = [scope |-> disk'.scope, records |-> disk'.records]
  BY <1>3 DEF Kept, TypeOK
<1>5. /\ disk'.records \in Records /\ disk'.records[n] = new
      /\ \A m \in Notes : m # n => disk'.records[m] = disk.records[m]
  <2>1. new \in Record BY <1>2 DEF Like
  <2>2. disk'.records = [disk.records EXCEPT ![n] = new] BY <1>4
  <2> QED BY <1>1, <2>1, <2>2 DEF Records
<1>6. \A m \in Notes :
        /\ disk'.records[m] # None <=> disk.records[m] # None
        /\ disk.records[m] # None => /\ Like(disk.records[m], disk'.records[m])
                                     /\ disk'.records[m].saved = disk.records[m].saved
  <2>1. None \notin Record BY NoneIsNothing
  <2>2. \A m \in Notes : disk.records[m] # None => Like(disk.records[m], disk.records[m])
    BY DEF Like, Kept, TypeOK, Records
  <2> QED BY <1>1, <1>2, <1>5, <2>1, <2>2 DEF Like
<1>7. TypeOK' BY <1>4, <1>5 DEF Kept, TypeOK
<1>8. InRound'
  <2>1. disk.scope # None
    BY <1>1, NoneIsNothing DEF Kept, InRound, NoRecords
  <2> QED BY <1>4, <2>1 DEF Kept, InRound, Round
<1>9. OneTextPerId'
  <2>1. Known' \subseteq Known \cup {new} BY <1>5 DEF Known
  <2>2. disk.records[n] \in Known BY <1>1, NoneIsNothing DEF Known
  <2> QED BY <1>2, <2>1, <2>2, SameNames DEF Kept, Like
<1>10. AllDated' BY <1>6 DEF Kept, AllDated, Dated, Like
<1>11. SavedHeld'
  <2>1. \A m \in Notes : disk.records[m] # None /\ disk.records[m].saved =>
          \E h \in sources : h.owner = disk.scope /\ h.text = disk.records[m].text
    BY DEF Kept, SavedHeld, HeldFor
  <2>2. \A m \in Notes : disk'.records[m] # None /\ disk'.records[m].saved =>
          \E h \in sources' : h.owner = disk'.scope /\ h.text = disk'.records[m].text
    <3> SUFFICES ASSUME NEW m \in Notes, disk'.records[m] # None, disk'.records[m].saved
                 PROVE  \E h \in sources' : h.owner = disk'.scope /\ h.text = disk'.records[m].text
      OBVIOUS
    <3>1. /\ disk.records[m] # None /\ disk.records[m].saved
          /\ disk'.records[m].text = disk.records[m].text
      BY <1>6 DEF Like
    <3> QED BY <1>4, <2>1, <3>1
  <2>3. \A m \in Notes : mem[m] # None /\ mem[m].saved => HeldFor(client, mem[m].text)'
    BY DEF Kept, SavedHeld, HeldFor
  <2> QED BY <2>2, <2>3 DEF SavedHeld, HeldFor
<1>12. SentFollowed'
  <2>1. \A m \in Notes : Follows(m, disk.records[m]) => Follows(m, disk.records[m])'
    BY <1>6 DEF Follows, Like
  <2>2. pc' \notin Round BY DEF Round
  <2> QED BY <2>1, <2>2 DEF Kept, SentFollowed
<1> QED BY <1>7, <1>8, <1>9, <1>10, <1>11, <1>12 DEF Kept

\* A step that changes nothing but the session, the lock, the LaunchAgent and what is listed.
LEMMA AsideKeeps ==
  ASSUME Kept, TypeOK', pc \in Round <=> pc' \in Round, posting' = posting,
         pc' \in {"posting", "write"} => pc \in {"posting", "write"},
         UNCHANGED <<note, edits, sources, flight, disk, mem, client, batch, sent>>
  PROVE  Kept'
<1>1. InRound' BY DEF Kept, InRound
<1>2. OneTextPerId' BY DEF Kept, OneTextPerId, Known
<1>3. AllDated' BY DEF Kept, AllDated, Dated
<1>4. SavedHeld' BY DEF Kept, SavedHeld, HeldFor
<1>5. SentFollowed' BY DEF Kept, SentFollowed, Follows
<1> QED BY <1>1, <1>2, <1>3, <1>4, <1>5 DEF Kept

LEMMA LoginKeeps ==
  ASSUME Kept, NEW user \in Accounts, Login(user)
  PROVE  Kept'
<1> USE DEF Login, process, Fault
<1>1. TypeOK' BY BoundsAssumption DEF Kept, TypeOK
<1> QED BY <1>1, AsideKeeps

LEMMA StartKeeps ==
  ASSUME Kept, Start
  PROVE  Kept'
<1> USE DEF Start, world, process, Round
<1>1. TypeOK' BY DEF Kept, TypeOK
<1> QED BY <1>1, AsideKeeps

LEMMA WriteLockKeeps ==
  ASSUME Kept, WriteLock
  PROVE  Kept'
<1> USE DEF WriteLock, world, process, Round
<1>1. TypeOK' BY DEF Kept, TypeOK
<1> QED BY <1>1, AsideKeeps

LEMMA AdminKeeps ==
  ASSUME Kept, NEW load \in BOOLEAN, Admin(load)
  PROVE  Kept'
<1> USE DEF Admin, world, Fault
<1>1. TypeOK' BY BoundsAssumption DEF Kept, TypeOK
<1> QED BY <1>1, AsideKeeps

\* A capture that was given up is served.
LEMMA ServeLateKeeps ==
  ASSUME Kept, NEW s \in flight, ServeLate(s)
  PROVE  Kept'
<1> USE DEF ServeLate, world, process
<1>1. /\ sources' \subseteq sources \cup {s} /\ sources \subseteq sources'
      /\ sources' = sources \/ sources' = sources \cup {s}
      /\ flight' = flight \ {s}
  BY DEF Intake
<1>2. TypeOK' BY <1>1 DEF Kept, TypeOK
<1>3. IsFiniteSet(sources') /\ IsFiniteSet(flight')
  BY <1>1, FS_AddElement, FS_RemoveElement DEF Kept
<1>4. InRound' BY DEF Kept, InRound
<1>5. OneTextPerId'
  <2>1. Known' \subseteq Known BY <1>1 DEF Known
  <2> QED BY <2>1 DEF Kept, OneTextPerId
<1>6. AllDated' BY DEF Kept, AllDated, Dated
<1>7. SavedHeld' BY <1>1 DEF Kept, SavedHeld, HeldFor
<1>8. SentFollowed' BY DEF Kept, SentFollowed, Follows
<1> QED BY <1>2, <1>3, <1>4, <1>5, <1>6, <1>7, <1>8 DEF Kept

-----------------------------------------------------------------------------
(* The end of a round                                                       *)

\* Whatever ends a round forgets what it has in memory; a capture on its way may be served.
LEMMA LeaveKeeps ==
  ASSUME Kept, TypeOK', pc' \notin Round, mem' = NoRecords, DOMAIN batch' = {},
         flight' = flight
           \/ (pc = "posting" /\ mem[posting].text \notin Refused /\ flight' = flight \cup {Capture}),
         UNCHANGED <<note, edits, sources, disk, sent>>
  PROVE  Kept'
<1>1. \A n \in Notes : mem'[n] = None BY DEF NoRecords
<1>2. IsFiniteSet(sources') /\ IsFiniteSet(flight')
  BY FS_AddElement DEF Kept
<1>3. InRound'
  BY DEF Kept, InRound, Round
<1>4. OneTextPerId'
  <2>1. ASSUME NEW k \in Known'
        PROVE  \E old \in Known : old.id = k.id /\ old.text = k.text
    <3>1. CASE k \in Known BY <3>1
    <3>2. CASE k \notin Known
      <4>1. pc = "posting" /\ k = Capture BY <1>1, <2>1, <3>2 DEF Known
      <4>2. mem[posting] \in Known BY <4>1 DEF Kept, InRound, Known
      <4>3. k.id = mem[posting].id /\ k.text = mem[posting].text BY <4>1 DEF Capture
      <4> QED BY <4>2, <4>3
    <3> QED BY <3>1, <3>2
  <2> QED BY <2>1, SameNames DEF Kept
<1>5. AllDated' BY <1>1 DEF Kept, AllDated, Dated
<1>6. SavedHeld' BY <1>1 DEF Kept, SavedHeld, HeldFor
<1>7. SentFollowed' BY DEF Kept, SentFollowed, Follows
<1> QED BY <1>2, <1>3, <1>4, <1>5, <1>6, <1>7 DEF Kept

\* A capture is a source: the user has an account, and its record has an id and a text.
LEMMA CaptureIsSource ==
  ASSUME Kept, pc = "posting"
  PROVE  Capture \in Source /\ mem[posting] \in Record /\ posting \in Notes
<1>1. posting \in Notes /\ mem[posting] # None /\ client \in Accounts
  BY DEF Kept, InRound, Round
<1>2. mem[posting] \in Record BY <1>1 DEF Kept, TypeOK, Records
<1> QED BY <1>1, <1>2 DEF Capture, Source, Record

\* Records that are gone, and an empty batch, are of their type.
LEMMA NothingIsTyped ==
  /\ NoRecords \in Records /\ DOMAIN (<<>>) = {}
  BY DEF NoRecords, Records

LEMMA ExitKeeps ==
  ASSUME Kept, Exit
  PROVE  Kept'
<1> USE DEF Exit, Down, world
<1>1. TypeOK' BY NothingIsTyped DEF Kept, TypeOK
<1> QED BY <1>1, NothingIsTyped, LeaveKeeps DEF Round

LEMMA EndRoundKeeps ==
  ASSUME Kept, EndRound
  PROVE  Kept'
<1> USE DEF EndRound, Pause, world
<1>1. TypeOK' BY NothingIsTyped DEF Kept, TypeOK
<1> QED BY <1>1, NothingIsTyped, LeaveKeeps DEF Round

LEMMA RoundFailsKeeps ==
  ASSUME Kept, RoundFails
  PROVE  Kept'
<1> USE DEF RoundFails, Pause, Down, world, Fault
<1>1. faults' \in 0..MaxFaults BY BoundsAssumption DEF Kept, TypeOK
<1>2. /\ pc' \in {"idle", "down"} /\ stop' \in BOOLEAN /\ lock' \in {"absent", lock}
      /\ client' = None /\ mem' = NoRecords /\ listed' = {} /\ batch' = <<>> /\ posting' = None
  BY DEF Kept, TypeOK
<1>3. TypeOK' BY <1>1, <1>2, NothingIsTyped DEF Kept, TypeOK
<1> QED BY <1>2, <1>3, NothingIsTyped, LeaveKeeps DEF Round

LEMMA CrashKeeps ==
  ASSUME Kept, Crash
  PROVE  Kept'
<1> USE DEF Crash, Down, world, Fault
<1>1. flight' = flight
        \/ (pc = "posting" /\ mem[posting].text \notin Refused /\ flight' = flight \cup {Capture})
  OBVIOUS
<1>2. TypeOK'
  <2>1. faults' \in 0..MaxFaults BY BoundsAssumption DEF Kept, TypeOK
  <2>2. sources' \cup flight' \subseteq Source BY <1>1, CaptureIsSource DEF Kept, TypeOK
  <2>3. lock' \in {"empty", "stale"} OBVIOUS
  <2> QED BY <2>1, <2>2, <2>3, NothingIsTyped DEF Kept, TypeOK
<1> QED BY <1>1, <1>2, NothingIsTyped, LeaveKeeps DEF Round

-----------------------------------------------------------------------------
(* The steps of a round                                                     *)

LEMMA StartRoundKeeps ==
  ASSUME Kept, StartRound
  PROVE  Kept'
<1> USE DEF StartRound, world
<1>1. pc' \in Round /\ pc \notin Round /\ pc' \notin {"posting", "write"} BY DEF Round
<1>2. listed' \subseteq Notes BY DEF First
<1>3. TypeOK' BY <1>2 DEF Kept, TypeOK
<1>4. InRound' BY <1>1 DEF Kept, InRound, TypeOK
<1>5. OneTextPerId'
  <2>1. Known' \subseteq Known BY DEF Known
  <2> QED BY <2>1 DEF Kept, OneTextPerId
<1>6. AllDated' BY DEF Kept, AllDated, Dated
<1>7. SavedHeld'
  <2>1. \A n \in Notes : disk.records[n] # None => disk.scope = client'
    BY DEF Kept, InRound, NoRecords
  <2> QED BY <2>1 DEF Kept, SavedHeld, HeldFor
<1>8. SentFollowed'
  <2>1. DOMAIN batch = {} BY <1>1 DEF Kept, InRound
  <2> QED BY <2>1 DEF Kept, SentFollowed, Follows
<1> QED BY <1>3, <1>4, <1>5, <1>6, <1>7, <1>8 DEF Kept

\* What is read of a note is what it says.
LEMMA ReadNotesKeeps ==
  ASSUME Kept, ReadNotes
  PROVE  Kept'
<1> USE DEF ReadNotes, world
<1>1. pc' \in Round /\ pc \in Round /\ pc' \notin {"posting", "write"} BY DEF Round
<1>2. DOMAIN batch' \subseteq Notes /\ \A n \in DOMAIN batch' : batch'[n] = note[n]
  BY DEF Kept, TypeOK
<1>3. TypeOK' BY <1>2 DEF Kept, TypeOK
<1>4. InRound' BY <1>1 DEF Kept, InRound
<1>5. OneTextPerId' BY DEF Kept, OneTextPerId, Known
<1>6. AllDated'
  <2>1. \A n \in Notes : note[n] \in [text : Texts, modified : 0..MaxEdits] BY DEF Kept, TypeOK
  <2>2. \A n \in DOMAIN batch' : Dated(n, batch[n])' BY <1>2 DEF Kept, AllDated, Dated
  <2> QED BY <1>2, <2>1, <2>2 DEF Kept, AllDated, Dated
<1>7. SavedHeld' BY DEF Kept, SavedHeld, HeldFor
<1>8. SentFollowed' BY <1>1, <1>2 DEF Kept, SentFollowed, Follows
<1> QED BY <1>3, <1>4, <1>5, <1>6, <1>7, <1>8 DEF Kept

\* The records in memory are written for the user of the session.
LEMMA WriteAnswerKeeps ==
  ASSUME Kept, WriteAnswer
  PROVE  Kept'
<1> USE DEF WriteAnswer, world, Save
<1>1. pc' \in Round /\ pc \in Round /\ pc' \notin {"posting", "write"} BY DEF Round
<1>2. client \in Accounts /\ client # None BY <1>1, NoneIsNothing DEF Kept, InRound
<1>3. \A n \in DOMAIN batch' : n \in DOMAIN batch /\ batch'[n] = batch[n]
  BY NothingIsTyped
<1>4. disk'.records = mem /\ disk'.scope = client OBVIOUS
<1>5. TypeOK' BY <1>2, <1>3 DEF Kept, TypeOK
<1>6. InRound' BY <1>1, <1>2, <1>4 DEF Kept, InRound
<1>7. OneTextPerId'
  <2>1. Known' \subseteq Known BY <1>4 DEF Known
  <2> QED BY <2>1 DEF Kept, OneTextPerId
<1>8. AllDated' BY <1>3, <1>4 DEF Kept, AllDated, Dated
<1>9. SavedHeld' BY <1>4 DEF Kept, SavedHeld, HeldFor
<1>10. SentFollowed' BY <1>1, <1>3, <1>4 DEF Kept, SentFollowed, Follows
<1> QED BY <1>5, <1>6, <1>7, <1>8, <1>9, <1>10 DEF Kept

\* The record of the note that was posted gets its answer; the capture may be served, or on its way.
LEMMA AnswerKeeps ==
  ASSUME Kept, TypeOK', pc = "posting", pc' = "write", NEW new, Like(mem[posting], new),
         mem' = [mem EXCEPT ![posting] = new],
         sources \subseteq sources', sources' \cup flight' \subseteq sources \cup flight \cup {Capture},
         IsFiniteSet(sources'), IsFiniteSet(flight'),
         mem'[posting].saved => mem[posting].saved \/ HeldFor(client, mem[posting].text)',
         UNCHANGED <<note, edits, client, disk, batch, posting, sent>>
  PROVE  Kept'
<1>1. pc' \in Round /\ pc \in Round BY DEF Round
<1>2. Capture \in Source /\ mem[posting] \in Record /\ posting \in Notes BY CaptureIsSource
<1>3. new \in Record /\ new # None /\ mem[posting] # None BY <1>2, NoneIsNothing DEF Like
<1>4. mem'[posting] = new /\ \A n \in Notes : n # posting => mem'[n] = mem[n]
  BY <1>2 DEF Kept, TypeOK, Records
<1>5. InRound' BY <1>1, <1>2, <1>3, <1>4 DEF Kept, InRound
<1>6. OneTextPerId'
  <2>1. mem[posting] \in Known BY <1>2, <1>3 DEF Known
  <2>2. ASSUME NEW k \in Known' PROVE \E old \in Known : old.id = k.id /\ old.text = k.text
    <3>1. k \in Known \/ k = new \/ k = Capture BY <1>2, <1>4, <2>2 DEF Known
    <3>2. new.id = mem[posting].id /\ new.text = mem[posting].text BY DEF Like
    <3>3. Capture.id = mem[posting].id /\ Capture.text = mem[posting].text BY DEF Capture
    <3> QED BY <2>1, <3>1, <3>2, <3>3
  <2> QED BY <2>2, SameNames DEF Kept
<1>7. AllDated'
  <2>1. Dated(posting, mem[posting])' BY <1>2, <1>3, <1>4 DEF Kept, AllDated, Dated, Like
  <2>2. \A n \in Notes : mem'[n] # None => Dated(n, mem[n])'
    BY <1>4, <2>1 DEF Kept, AllDated, Dated
  <2>3. \A n \in Notes : n \in DOMAIN batch' =>
          batch'[n] \in [text : Texts, modified : 0..MaxEdits] /\ Dated(n, batch[n])'
    BY DEF Kept, AllDated, Dated
  <2>4. \A n \in Notes : note'[n].modified <= edits'
                        /\ (disk'.records[n] # None => Dated(n, disk.records[n])')
    BY DEF Kept, AllDated, Dated
  <2> QED BY <2>2, <2>3, <2>4 DEF AllDated
<1>8. SavedHeld'
  <2>1. new.text = mem[posting].text BY DEF Like
  <2>2. \A n \in Notes : disk.records[n] # None /\ disk.records[n].saved =>
          \E h \in sources : h.owner = disk.scope /\ h.text = disk.records[n].text
    BY DEF Kept, SavedHeld, HeldFor
  <2>3. \A n \in Notes : mem[n] # None /\ mem[n].saved =>
          \E h \in sources : h.owner = client /\ h.text = mem[n].text
    BY DEF Kept, SavedHeld, HeldFor
  <2>4. mem'[posting].saved =>
          \E h \in sources' : h.owner = client /\ h.text = mem[posting].text
    <3>1. CASE mem[posting].saved BY <1>2, <1>3, <2>3, <3>1
    <3>2. CASE HeldFor(client, mem[posting].text)' BY <1>4, <2>1, <3>2 DEF HeldFor
    <3> QED BY <3>1, <3>2
  <2>5. \A n \in Notes : mem'[n] # None /\ mem'[n].saved =>
          \E h \in sources' : h.owner = client /\ h.text = mem'[n].text
    BY <1>4, <2>1, <2>3, <2>4
  <2> QED BY <2>2, <2>5 DEF SavedHeld, HeldFor
<1>9. SentFollowed'
  <2>1. \A n \in Notes : Follows(n, mem[n]) => Follows(n, mem[n])'
    BY <1>3, <1>4 DEF Follows, Like
  <2>2. \A n \in Notes : Follows(n, disk.records[n]) => Follows(n, disk.records[n])'
    BY DEF Follows
  <2> QED BY <1>1, <2>1, <2>2 DEF Kept, SentFollowed
<1> QED BY <1>5, <1>6, <1>7, <1>8, <1>9 DEF Kept

\* Memory answers: what is held under the id of the record has its text.
LEMMA CapturedKeeps ==
  ASSUME Kept, Captured
  PROVE  Kept'
<1> DEFINE new == [mem[posting] EXCEPT !.saved = TRUE, !.later = FALSE]
<1> USE DEF Captured, world
<1>1. Capture \in Source /\ mem[posting] \in Record /\ posting \in Notes BY CaptureIsSource
<1>2. Like(mem[posting], new) BY <1>1, ChangesAreLike
<1>3. mem' = [mem EXCEPT ![posting] = new]
  BY <1>1 DEF Kept, TypeOK, Records
<1>4. mem[posting] \in Known BY <1>1, NoneIsNothing DEF Known
<1> HIDE DEF new
<1>5. /\ sources \subseteq sources' /\ sources' \cup flight' \subseteq sources \cup flight \cup {Capture}
      /\ IsFiniteSet(sources') /\ IsFiniteSet(flight')
  BY FS_AddElement DEF Kept, Intake
<1>6. HeldFor(client, mem[posting].text)'
  <2>1. \E h \in sources' : h.owner = client /\ h.text = mem[posting].text
    <3>1. CASE Held(Capture)
      <4>1. PICK h \in sources : h.owner = client /\ h.id = mem[posting].id
        BY <3>1 DEF Held, Capture
      <4>2. h.text = mem[posting].text BY <1>4, <4>1 DEF Kept, OneTextPerId, Known
      <4> QED BY <1>5, <4>1, <4>2
    <3>2. CASE ~Held(Capture)
      <4>1. Capture \in sources' BY <3>2 DEF Intake
      <4> QED BY <4>1 DEF Capture
    <3> QED BY <3>1, <3>2
  <2>2. mem'[posting].text = mem[posting].text
    BY <1>1, <1>2, <1>3 DEF Like, Kept, TypeOK, Records
  <2> QED BY <2>1, <2>2 DEF HeldFor
<1>7. TypeOK'
  <2>1. mem' \in Records BY <1>1, <1>2, <1>3 DEF Kept, TypeOK, Records, Like
  <2> QED BY <1>1, <1>5, <2>1 DEF Kept, TypeOK
<1> QED BY <1>2, <1>3, <1>5, <1>6, <1>7, AnswerKeeps

\* The capture fails, whatever became of it.
LEMMA FailedKeeps ==
  ASSUME Kept, Failed
  PROVE  Kept'
<1> DEFINE new == [mem[posting] EXCEPT !.later = TRUE]
<1> USE DEF Failed, world, Fault
<1>1. Capture \in Source /\ mem[posting] \in Record /\ posting \in Notes BY CaptureIsSource
<1>2. Like(mem[posting], new) /\ new.saved = mem[posting].saved BY <1>1, ChangesAreLike
<1>3. mem' = [mem EXCEPT ![posting] = new] BY <1>1 DEF Kept, TypeOK, Records
<1> HIDE DEF new
<1>4. \/ sources' = sources /\ flight' = flight
      \/ sources' = Intake(Capture) /\ flight' = flight
      \/ sources' = sources /\ flight' = flight \cup {Capture}
  OBVIOUS
<1>5. /\ sources \subseteq sources' /\ sources' \cup flight' \subseteq sources \cup flight \cup {Capture}
      /\ IsFiniteSet(sources') /\ IsFiniteSet(flight')
  BY <1>4, FS_AddElement DEF Kept, Intake
<1>6. faults' \in 0..MaxFaults BY BoundsAssumption DEF Kept, TypeOK
<1>7. TypeOK'
  <2>1. mem' \in Records BY <1>1, <1>2, <1>3 DEF Kept, TypeOK, Records, Like
  <2> QED BY <1>1, <1>5, <1>6, <2>1 DEF Kept, TypeOK
<1>8. mem'[posting].saved => mem[posting].saved
  BY <1>1, <1>2, <1>3 DEF Kept, TypeOK, Records
<1> QED BY <1>2, <1>3, <1>5, <1>7, <1>8, AnswerKeeps

\* What is observed of a note: its record, or a new one under an id that nothing has seen.
LEMMA ObservedIs ==
  ASSUME Kept, NEW n \in Notes, NEW r, n \in DOMAIN batch, batch[n].text \notin Blank,
         r = Observed(mem[n], batch[n])
  PROVE  /\ r \in Record /\ r.text = batch[n].text /\ r.modified = batch[n].modified
         /\ \/ /\ mem[n] # None /\ mem[n].text = r.text
               /\ r.id = mem[n].id /\ r.saved = mem[n].saved
            \/ /\ mem[n] = None \/ mem[n].text # r.text
               /\ ~r.saved /\ \A k \in Known : k.id # r.id
<1>1. batch[n] \in [text : Texts, modified : 0..MaxEdits] BY DEF Kept, AllDated
<1>2. CASE SameText(mem[n], batch[n])
  <2>1. mem[n] \in Record BY <1>2 DEF SameText, Kept, TypeOK, Records
  <2>2. r = [mem[n] EXCEPT !.modified = batch[n].modified] BY <1>2 DEF Observed
  <2> QED BY <1>1, <1>2, <2>1, <2>2 DEF Record, SameText
<1>3. CASE ~SameText(mem[n], batch[n])
  <2>1. NewId \in Nat /\ \A k \in Known : k.id # NewId BY NewIdIsNew DEF Kept
  <2>2. r = NewRecord(batch[n]) BY <1>3 DEF Observed
  <2>3. 0 \in 0..MaxAttempts BY BoundsAssumption
  <2>4. /\ r \in Record /\ r.text = batch[n].text /\ r.modified = batch[n].modified
        /\ r.id = NewId /\ ~r.saved
    <3> HIDE DEF NewId
    <3> QED BY <1>1, <2>1, <2>2, <2>3 DEF NewRecord, Record
  <2> QED BY <1>3, <2>1, <2>4 DEF SameText
<1> QED BY <1>2, <1>3

\* The record of one note is written, and the note leaves the batch, perhaps to be posted.
LEMMA RecordKeeps ==
  ASSUME Kept, TypeOK', pc = "notes", NEW n \in Notes, n \in DOMAIN batch, batch[n].text \notin Blank,
         NEW r, r = Observed(mem[n], batch[n]),
         NEW kept, Like(r, kept), kept.saved = r.saved,
         NEW written, Like(r, written), written.saved = r.saved,
         mem' = [mem EXCEPT ![n] = kept],
         disk' = [scope |-> client, records |-> [mem EXCEPT ![n] = written]],
         DOMAIN batch' = DOMAIN batch \ {n}, \A m \in DOMAIN batch' : batch'[m] = batch[m],
         pc' = "notes" \/ (pc' = "posting" /\ posting' = n),
         sent' = sent \/ sent' = [sent EXCEPT ![n] = [id |-> r.id, text |-> r.text, edited |-> FALSE]],
         UNCHANGED <<note, edits, sources, flight, client>>
  PROVE  Kept'
<1>1. pc \in Round /\ pc' \in Round BY DEF Round
<1>2. /\ r \in Record /\ r.text = batch[n].text /\ r.modified = batch[n].modified
      /\ \/ /\ mem[n] # None /\ mem[n].text = r.text
            /\ r.id = mem[n].id /\ r.saved = mem[n].saved
         \/ /\ mem[n] = None \/ mem[n].text # r.text
            /\ ~r.saved /\ \A k \in Known : k.id # r.id
  BY ObservedIs
<1>3. /\ client \in Accounts /\ client # None /\ mem \in Records
      /\ sent \in [Notes -> Submission \cup {None}]
  BY <1>1, NoneIsNothing DEF Kept, InRound, TypeOK
<1>4. /\ mem'[n] = kept /\ disk'.records[n] = written /\ disk'.scope = client
      /\ \A m \in Notes : m # n => mem'[m] = mem[m] /\ disk'.records[m] = mem[m]
  BY <1>3 DEF Records
<1>5. kept # None /\ written # None BY NoneIsNothing DEF Like
<1>6. InRound' BY <1>1, <1>3, <1>4, <1>5 DEF InRound
<1>7. OneTextPerId'
  <2>1. ASSUME NEW k \in Known'
        PROVE  k \in Known \/ (k.id = r.id /\ k.text = r.text)
    <3>1. \A m \in Notes : mem[m] # None => mem[m] \in Known BY DEF Known
    <3>2. k \in Known \/ k = kept \/ k = written BY <1>4, <2>1, <3>1 DEF Known
    <3> QED BY <3>2 DEF Like
  <2>2. (\A k \in Known : k.id # r.id) \/ (\E k \in Known : k.id = r.id /\ k.text = r.text)
    <3>1. mem[n] # None => mem[n] \in Known BY DEF Known
    <3> QED BY <1>2, <3>1
  <2> QED BY <2>1, <2>2 DEF Kept, OneTextPerId
<1>8. AllDated'
  <2>1. Dated(n, batch[n]) BY DEF Kept, AllDated
  <2>2. Dated(n, mem[n])' /\ Dated(n, disk.records[n])'
    BY <1>2, <1>4, <2>1 DEF Dated, Like
  <2>3. \A m \in Notes : /\ mem'[m] # None => Dated(m, mem[m])'
                         /\ disk'.records[m] # None => Dated(m, disk.records[m])'
    BY <1>4, <2>2 DEF Kept, AllDated, Dated
  <2>4. \A m \in Notes : m \in DOMAIN batch' =>
          batch'[m] \in [text : Texts, modified : 0..MaxEdits] /\ Dated(m, batch[m])'
    BY DEF Kept, AllDated, Dated
  <2>5. \A m \in Notes : note'[m].modified <= edits' BY DEF Kept, AllDated
  <2> QED BY <2>3, <2>4, <2>5 DEF AllDated
<1>9. SavedHeld'
  <2>1. \A m \in Notes : mem[m] # None /\ mem[m].saved =>
          \E h \in sources : h.owner = client /\ h.text = mem[m].text
    BY DEF Kept, SavedHeld, HeldFor
  <2>2. r.saved => \E h \in sources : h.owner = client /\ h.text = r.text
    BY <1>2, <2>1
  <2>3. /\ kept.saved = r.saved /\ kept.text = r.text
        /\ written.saved = r.saved /\ written.text = r.text
    BY DEF Like
  <2>4. \A m \in Notes :
          /\ mem'[m] # None /\ mem'[m].saved =>
               \E h \in sources' : h.owner = client' /\ h.text = mem'[m].text
          /\ disk'.records[m] # None /\ disk'.records[m].saved =>
               \E h \in sources' : h.owner = disk'.scope /\ h.text = disk'.records[m].text
    BY <1>4, <2>1, <2>2, <2>3
  <2> QED BY <2>4 DEF SavedHeld, HeldFor
<1>10. SentFollowed'
  <2> SUFFICES ASSUME NEW m \in Notes, sent'[m] # None, ~sent'[m].edited
               PROVE  /\ m \in DOMAIN batch' => batch'[m].text = note'[m].text
                      /\ Follows(m, disk.records[m])' /\ Follows(m, mem[m])'
    BY DEF SentFollowed
  <2>1. CASE m # n
    <3>1. sent'[m] = sent[m] BY <1>3, <2>1
    <3>2. Follows(m, mem[m]) /\ (m \in DOMAIN batch => batch[m].text = note[m].text)
      BY <1>1, <3>1 DEF Kept, SentFollowed
    <3> QED BY <1>4, <2>1, <3>1, <3>2 DEF Follows
  <2>2. CASE m = n /\ sent'[n] = sent[n]
    <3>1. Follows(n, mem[n]) /\ batch[n].text = note[n].text
      BY <1>1, <2>2 DEF Kept, SentFollowed
    <3>2. r.text = sent[n].text => r.id = sent[n].id BY <1>2, <3>1 DEF Follows
    <3>3. r.text # sent[n].text => note[n].text # sent[n].text BY <1>2, <3>1
    <3> QED BY <1>4, <1>5, <2>2, <3>2, <3>3 DEF Follows, Like
  <2>3. CASE m = n /\ sent'[n] = [id |-> r.id, text |-> r.text, edited |-> FALSE]
    <3>1. sent'[n].id = r.id /\ sent'[n].text = r.text BY <2>3
    <3> QED BY <1>4, <1>5, <2>3, <3>1 DEF Follows, Like
  <2>4. sent'[n] = sent[n] \/ sent'[n] = [id |-> r.id, text |-> r.text, edited |-> FALSE]
    BY <1>3
  <2> QED BY <2>1, <2>2, <2>3, <2>4
<1> QED BY <1>6, <1>7, <1>8, <1>9, <1>10 DEF Kept

\* One note of the batch: it is empty, or recorded, or written off, or submitted.
LEMMA ProcessKeeps ==
  ASSUME Kept, NEW n \in Notes, Process(n)
  PROVE  Kept'
<1> DEFINE r == Observed(mem[n], batch[n])
           records == [mem EXCEPT ![n] = r]
           attempted == [r EXCEPT !.attempt = IF @ < MaxAttempts THEN @ + 1 ELSE @]
           blocked == [r EXCEPT !.blocked = TRUE]
           submitted == [id |-> r.id, text |-> r.text, edited |-> FALSE]
<1>1. /\ pc = "notes" /\ n \in DOMAIN batch
      /\ DOMAIN batch' = DOMAIN batch \ {n} /\ \A m \in DOMAIN batch' : batch'[m] = batch[m]
      /\ UNCHANGED <<note, edits, account, faults, sources, flight, lock, installed, stop, client, listed>>
  BY DEF Process, Done, Taken, world
<1>2. pc \in Round BY <1>1 DEF Round
<1>3. CASE Empty(batch[n]) /\ Done(n) /\ UNCHANGED <<mem, disk, sent>>
  <2> USE DEF Done
  <2>1. TypeOK' BY <1>1, <1>3 DEF Kept, TypeOK
  <2>2. InRound' BY <1>1, <1>2, <1>3 DEF Kept, InRound
  <2>3. OneTextPerId' BY <1>1, <1>3 DEF Kept, OneTextPerId, Known
  <2>4. AllDated' BY <1>1, <1>3 DEF Kept, AllDated, Dated
  <2>5. SavedHeld' BY <1>1, <1>3 DEF Kept, SavedHeld, HeldFor
  <2>6. SentFollowed' BY <1>1, <1>2, <1>3 DEF Kept, SentFollowed, Follows
  <2> QED BY <1>1, <2>1, <2>2, <2>3, <2>4, <2>5, <2>6 DEF Kept
<1>4. CASE ~Empty(batch[n])
  <2>1. batch[n].text \notin Blank BY <1>4 DEF Empty
  <2>2. r \in Record BY <1>1, <2>1, ObservedIs
  <2>3. /\ Like(r, r) /\ Like(r, attempted) /\ attempted.saved = r.saved
        /\ Like(r, blocked) /\ blocked.saved = r.saved
    BY <2>2, ChangesAreLike DEF Like
  <2>4. client \in Accounts /\ mem \in Records /\ DOMAIN mem = Notes
    BY <1>2 DEF Kept, InRound, TypeOK, Records
  <2>5. \/ /\ mem' = records /\ disk' = [scope |-> client, records |-> records]
           /\ pc' = "notes" /\ posting' = posting /\ sent' = sent
        \/ /\ mem' = [mem EXCEPT ![n] = blocked]
           /\ disk' = [scope |-> client, records |-> [mem EXCEPT ![n] = blocked]]
           /\ pc' = "notes" /\ posting' = posting /\ sent' = sent
        \/ /\ mem' = [mem EXCEPT ![n] = attempted]
           /\ disk' = [scope |-> client, records |-> records]
           /\ pc' = "posting" /\ posting' = n /\ sent' = [sent EXCEPT ![n] = submitted]
    <3>1. [records EXCEPT ![n].blocked = TRUE] = [mem EXCEPT ![n] = blocked]
      <4> HIDE DEF r
      <4> QED BY <2>4
    <3> HIDE DEF r, records, attempted, blocked
    <3> QED BY <1>1, <1>4, <3>1 DEF Process, Save, Done, r, records, attempted
  <2> HIDE DEF r, attempted, blocked
  <2>6. submitted \in Submission BY <2>2 DEF Submission, Record
  <2>7. /\ \A new \in Record : [mem EXCEPT ![n] = new] \in Records
        /\ sent \in [Notes -> Submission \cup {None}]
        /\ [sent EXCEPT ![n] = submitted] \in [Notes -> Submission \cup {None}]
    BY <2>4, <2>6 DEF Kept, TypeOK, Records
  <2>8. /\ r \in Record /\ attempted \in Record /\ blocked \in Record BY <2>3 DEF Like
  <2>9. TypeOK'
    <3>1. mem' \in Records BY <2>5, <2>7, <2>8
    <3>2. disk' \in [scope : Accounts \cup {None}, records : Records]
      BY <2>4, <2>5, <2>7, <2>8
    <3>3. sent' \in [Notes -> Submission \cup {None}] BY <2>5, <2>7
    <3>4. pc' \in {"notes", "posting"} /\ posting' \in {posting, n} BY <2>5
    <3> QED BY <1>1, <3>1, <3>2, <3>3, <3>4 DEF Kept, TypeOK
  <2>10. CASE mem' = records /\ disk' = [scope |-> client, records |-> records]
              /\ pc' = "notes" /\ posting' = posting /\ sent' = sent
    BY <1>1, <2>1, <2>3, <2>9, <2>10, RecordKeeps DEF r
  <2>11. CASE /\ mem' = [mem EXCEPT ![n] = blocked]
              /\ disk' = [scope |-> client, records |-> [mem EXCEPT ![n] = blocked]]
              /\ pc' = "notes" /\ posting' = posting /\ sent' = sent
    BY <1>1, <2>1, <2>3, <2>9, <2>11, RecordKeeps DEF r
  <2>12. CASE /\ mem' = [mem EXCEPT ![n] = attempted]
              /\ disk' = [scope |-> client, records |-> records]
              /\ pc' = "posting" /\ posting' = n /\ sent' = [sent EXCEPT ![n] = submitted]
    BY <1>1, <2>1, <2>3, <2>9, <2>12, RecordKeeps DEF r
  <2> QED BY <2>5, <2>10, <2>11, <2>12
<1> QED BY <1>3, <1>4 DEF Process

LEMMA NextKeeps ==
  ASSUME Kept, [Next]_vars
  PROVE  Kept'
<1>1. CASE UNCHANGED vars
  <2> USE <1>1 DEF vars, world, process
  <2>1. TypeOK' BY DEF Kept, TypeOK
  <2> QED BY <2>1, AsideKeeps
<1>2. CASE Next
  BY <1>2, EditKeeps, LoginKeeps, ElapseKeeps, ProcessKeeps, ServeLateKeeps, StartKeeps,
     WriteLockKeeps, ExitKeeps, StartRoundKeeps, ReadNotesKeeps, CapturedKeeps, FailedKeeps,
     WriteAnswerKeeps, EndRoundKeeps, RoundFailsKeeps, CrashKeeps, AdminKeeps DEF Next
<1> QED BY <1>1, <1>2

-----------------------------------------------------------------------------
(* What is proved                                                           *)

\* A record that is saved is held, and so is the note when it has the time of the record.
LEMMA KeptSaves ==
  ASSUME Kept
  PROVE  SavedIsHeld
<1> SUFFICES ASSUME NEW n \in Notes, disk.records[n] # None, disk.records[n].saved
             PROVE  /\ \E h \in sources : h.owner = disk.scope /\ h.text = disk.records[n].text
                    /\ disk.records[n].modified = note[n].modified =>
                         \E h \in sources : h.owner = disk.scope /\ h.text = note[n].text
  BY DEF SavedIsHeld
<1>1. \E h \in sources : h.owner = disk.scope /\ h.text = disk.records[n].text
  BY DEF Kept, SavedHeld, HeldFor
<1>2. disk.records[n].modified = note[n].modified => disk.records[n].text = note[n].text
  BY DEF Kept, AllDated, Dated
<1> QED BY <1>1, <1>2

\* A submission is changed by an edit, which keeps its id, or by the next submission.
LEMMA StepSubmits ==
  ASSUME Kept, [Next]_vars, NEW n \in Notes,
         sent[n] # None, sent'[n].text = sent[n].text, ~sent[n].edited
  PROVE  sent'[n].id = sent[n].id
<1>1. CASE sent' = sent BY <1>1
<1>2. ASSUME NEW m \in Notes, NEW t \in Texts, Edit(m, t) PROVE sent'[n].id = sent[n].id
  <2>1. CASE sent' = sent BY <2>1
  <2>2. CASE sent' # sent
    <3>1. sent' = [sent EXCEPT ![m].edited = TRUE] BY <1>2, <2>2 DEF Edit
    <3>2. sent[n] \in Submission BY DEF Kept, TypeOK
    <3> QED BY <3>1, <3>2 DEF Submission, Kept, TypeOK
  <2> QED BY <2>1, <2>2
<1>3. ASSUME NEW m \in Notes, Process(m) PROVE sent'[n].id = sent[n].id
  <2> DEFINE r == Observed(mem[m], batch[m])
  <2>1. pc = "notes" /\ m \in DOMAIN batch BY <1>3 DEF Process
  <2>2. CASE sent' = sent BY <2>2
  <2>3. CASE sent' # sent
    <3>1. /\ batch[m].text \notin Blank
          /\ sent' = [sent EXCEPT ![m] = [id |-> r.id, text |-> r.text, edited |-> FALSE]]
      <4> HIDE DEF r
      <4> QED BY <1>3, <2>3 DEF Process, Empty, Done, r
    <3>2. r.text = batch[m].text /\ (\/ mem[m] # None /\ mem[m].text = r.text /\ r.id = mem[m].id
                                     \/ mem[m] = None \/ mem[m].text # r.text)
      BY <2>1, <3>1, ObservedIs
    <3> HIDE DEF r
    <3>3. sent \in [Notes -> Submission \cup {None}] BY DEF Kept, TypeOK
    <3>4. CASE m # n BY <3>1, <3>3, <3>4
    <3>5. CASE m = n
      <4>1. sent'[n].id = r.id /\ sent'[n].text = r.text BY <3>1, <3>3, <3>5
      <4>2. Follows(n, mem[n]) /\ batch[n].text = note[n].text
        BY <2>1, <3>5 DEF Kept, SentFollowed, Round
      <4> QED BY <3>2, <3>5, <4>1, <4>2 DEF Follows
    <3> QED BY <3>4, <3>5
  <2> QED BY <2>2, <2>3
<1>4. CASE UNCHANGED vars BY <1>1, <1>4 DEF vars
<1>5. CASE Next /\ ~(\E m \in Notes, t \in Texts : Edit(m, t)) /\ ~(\E m \in Notes : Process(m))
  BY <1>1, <1>5 DEF Next, Login, Elapse, ServeLate, Start, WriteLock, Exit, StartRound, ReadNotes,
     Captured, Failed, WriteAnswer, EndRound, RoundFails, Crash, Admin
<1> QED BY <1>2, <1>3, <1>4, <1>5

\* Every variable of the watcher keeps its type.
THEOREM WatchTypes == Spec => []TypeOK
<1>1. Kept => TypeOK BY DEF Kept
<1> QED BY InitKeeps, NextKeeps, <1>1, PTL DEF Spec

\* What the state file says is saved is held by Memory for the user it belongs to, and a note the
\* time filter takes for saved is saved as it reads now.
THEOREM SavedTheorem == Spec => []SavedIsHeld
BY InitKeeps, NextKeeps, KeptSaves, PTL DEF Spec

\* A text is submitted under one request id until the user changes it.
THEOREM OneIdTheorem == Spec => OneIdPerText
<1>1. ASSUME Kept, [Next]_vars
      PROVE  [\A n \in Notes :
                sent[n] # None /\ sent'[n].text = sent[n].text /\ ~sent[n].edited
                  => sent'[n].id = sent[n].id]_vars
  BY <1>1, StepSubmits
<1> QED BY InitKeeps, NextKeeps, <1>1, PTL DEF Spec, OneIdPerText
=============================================================================
