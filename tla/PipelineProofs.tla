---------------------------- MODULE PipelineProofs -----------------------------
(***************************************************************************)
(* A run reads, decides and moves in separate steps.  What it may still    *)
(* assume between them, about its record, the export, the permission, the  *)
(* trash and the copies of the text, is the inductive invariant Kept.      *)
(***************************************************************************)
EXTENDS Pipeline, FiniteSetTheorems, WellFoundedInduction, TLAPS

Working == {"capture", "export", "entries", "recheck", "kept", "current", "rename", "moved",
            "giveback", "save", "failed"}

\* A note that is worked on has a record of its text, and room in the batch; its proof is
\* read by the export and forgotten with the note.
InRun ==
  /\ pc \in Working => /\ cur \in DOMAIN notes /\ mem[cur] # None
                       /\ mem[cur].text = notes[cur].text /\ count < Batch
  /\ pc \in {"entries", "recheck", "kept", "current", "rename", "moved", "giveback"} => proof # None
  /\ pc \in {"down", "opening"} => todo = {}
  /\ pc \in {"down", "opening", "next", "capture", "export"} => proof = None

\* A record in memory or on disk that says verified has a manifest.
Backed(records) ==
  \A p \in Paths : records[p] # None /\ records[p].verified => manifest[records[p].text] # None

\* A manifest is not newer than its source, nor than the wiki files beside it.
NotNewer ==
  \A t \in Texts :
    /\ source[t].version <= faults
    /\ manifest[t] # None => /\ manifest[t] <= source[t].version
                             /\ entries[t] # None /\ entries[t] >= manifest[t]

\* The export under way is not older than the one before, and ends with a manifest.
Exported ==
  /\ pc = "entries" /\ manifest[Text] # None => manifest[Text] <= proof.version
  /\ pc = "recheck" => entries[Text] = proof.version
  /\ pc \in {"kept", "current", "rename", "moved", "giveback", "save"} /\ proof # None
       => manifest[Text] # None

\* What is to be moved is held without secrets, and the policy moves it.
Permitted ==
  /\ pc \notin {"down", "opening"} => Clean \subseteq held
  /\ pc \in Working /\ proof # None => proof.secrets \/ Text \in held
  /\ pc \in {"current", "rename", "moved"} => ~proof.secrets /\ cleanup # "none"

\* What was moved is in the trash; what is at its path when it is given back came late.
Taken ==
  /\ pc \in {"moved", "giveback"} => \E m \in trash : m.path = cur
  /\ pc = "giveback" /\ files[cur] # None => files[cur].inode \in late

\* Under "duplicates" another copy is there, unless the user touched one.
CopyThere ==
  pc \in {"current", "rename", "moved"} /\ cleanup = "duplicates" =>
    \/ Text \in touched
    \/ \E p \in Paths : p # cur /\ files[p] # None /\ files[p].text = Text

Records == InRun /\ Backed(mem) /\ Backed(disk) /\ NotNewer /\ Exported /\ Permitted
Kept == TypeOK /\ Records /\ Taken /\ CopyThere /\ NothingLost

-----------------------------------------------------------------------------
(* The choices of a run                                                     *)

\* Naturals have a least one.
LEMMA LeastOfNaturals ==
  ASSUME NEW S \in SUBSET Nat, S # {}
  PROVE  \E least \in S : \A other \in S : least <= other
<1> DEFINE upto == {0..n : n \in S}
<1>1. \A n \in S : IsFiniteSet(0..n) /\ 0..n \in SUBSET Nat BY FS_Interval
<1>2. upto \subseteq FiniteSubsetsOf(Nat) /\ upto # {} BY <1>1 DEF FiniteSubsetsOf
<1>3. IsWellFoundedOn(StrictSubsetOrdering(Nat), FiniteSubsetsOf(Nat))
  BY FS_StrictSubsetOrderingWellFounded
<1>4. \E x \in upto : \A y \in upto : ~(<<y, x>> \in StrictSubsetOrdering(Nat))
  <2> HIDE DEF upto
  <2> QED BY <1>2, <1>3, WFMin
<1>5. PICK least \in S : \A other \in S : <<0..other, 0..least>> \notin StrictSubsetOrdering(Nat)
  BY <1>4
<1>6. ASSUME NEW other \in S, other < least PROVE FALSE
  <2>1. 0..other \subseteq 0..least /\ 0..other # 0..least
    <3>1. least \in 0..least /\ least \notin 0..other BY <1>6
    <3> QED BY <1>6, <3>1
  <2>2. 0..other \in SUBSET Nat /\ 0..least \in SUBSET Nat BY <1>1
  <2> HIDE <1>1
  <2>3. <<0..other, 0..least>> \in StrictSubsetOrdering(Nat) BY <2>1, <2>2, SMT DEF StrictSubsetOrdering
  <2> QED BY <1>5, <2>3
<1> QED BY <1>6

\* Paths are numbers, and so are inodes, one of them for each path.
LEMMA PathsAreInodes ==
  /\ Cardinality(Paths) \in Nat /\ IsFiniteSet(Paths)
  /\ Paths \subseteq Nat /\ Paths \subseteq Inodes
<1>1. Cardinality(Paths) \in Nat BY PathsAssumption, FS_CardinalityType
<1>2. Paths = 1..Cardinality(Paths) BY PathsAssumption
<1>3. Paths \subseteq Nat /\ \A p \in Paths : p <= Cardinality(Paths) BY <1>1, <1>2
<1>4. Paths \subseteq Inodes BY <1>1, <1>3, BoundsAssumption DEF Inodes
<1> QED BY <1>1, <1>3, <1>4, PathsAssumption

\* The copy that counts as the first holds the text.
LEMMA CanonicalHolds ==
  ASSUME TypeOK, cur \in DOMAIN notes
  PROVE  Canonical \in DOMAIN notes /\ notes[Canonical].text = Text
<1> DEFINE copies == {p \in DOMAIN notes : notes[p].text = Text}
<1>1. copies \in SUBSET Nat /\ copies # {} BY PathsAreInodes DEF TypeOK, Text
<1>2. PICK p \in copies : \A q \in copies : p <= q
  <2> HIDE DEF copies
  <2> QED BY <1>1, LeastOfNaturals
<1>3. /\ p \in DOMAIN notes /\ notes[p].text = Text
      /\ \A q \in DOMAIN notes : notes[q].text = Text => p <= q
  BY <1>2
<1> QED BY <1>3 DEF Canonical

\* What a run takes from the trash was moved from its path.
LEMMA TargetMoved ==
  ASSUME trash \subseteq Trashed, \E m \in trash : m.path = cur
  PROVE  Target \in trash /\ Target.path = cur
<1> DEFINE moves == {m \in trash : m.path = cur}
           top == MaxEvents + Cardinality(Paths)
           below == {top - m.object.inode : m \in moves}
<1>1. top \in Nat BY PathsAreInodes, BoundsAssumption
<1>2. \A m \in moves : m.object.inode \in 0..top BY DEF Trashed, Inodes
<1> HIDE DEF top, moves
<1>3. \A m \in moves : top - m.object.inode \in Nat BY <1>1, <1>2
<1>4. below \in SUBSET Nat /\ below # {} BY <1>3 DEF moves
<1>5. PICK least \in below : \A other \in below : least <= other
  <2> HIDE DEF below
  <2> QED BY <1>4, LeastOfNaturals
<1>6. PICK m \in moves : least = top - m.object.inode OBVIOUS
<1>7. ASSUME NEW x \in moves PROVE x.object.inode <= m.object.inode
  <2>1. top - m.object.inode <= top - x.object.inode BY <1>5, <1>6
  <2>2. m.object.inode \in Nat /\ x.object.inode \in Nat BY <1>2
  <2> QED BY <1>1, <2>1, <2>2
<1>8. m \in trash /\ m.path = cur /\ \A x \in trash : x.path = cur => x.object.inode <= m.object.inode
  BY <1>7 DEF moves
<1> QED BY <1>8 DEF Target

\* None is told from whatever is kept where it may stand.
LEMMA NoneIsNothing ==
  /\ None \notin File /\ None \notin Proof /\ None \notin Versions /\ None \notin Paths
  /\ None \notin Record /\ None \notin Latest /\ Record \subseteq Latest
  /\ \A r \in Latest : r.attempt \in Nat
<1>1. Record \subseteq Latest /\ \A r \in Latest : r.attempt \in Nat
  BY PathsAreInodes DEF Record, Latest, Numbered
<1> QED BY <1>1, NoneAssumption

\* Renumbering changes nothing else in a record, and gives it a number that is allowed.
LEMMA RenumberedIs ==
  ASSUME NEW records \in [Paths -> Latest \cup {None}]
  PROVE  /\ Renumbered(records) \in [Paths -> Record \cup {None}]
         /\ \A p \in Paths : Renumbered(records)[p] = None <=> records[p] = None
         /\ \A p \in Paths : records[p] # None =>
              /\ Renumbered(records)[p].text = records[p].text
              /\ Renumbered(records)[p].captured = records[p].captured
              /\ Renumbered(records)[p].verified = records[p].verified
<1> DEFINE there == {q \in Paths : records[q] # None}
           attempts == [q \in there |-> records[q].attempt]
           all == {attempts[q] : q \in there}
<1>1. IsFiniteSet(there) /\ Cardinality(there) <= Cardinality(Paths)
  BY PathsAreInodes, FS_Subset
<1>2. attempts \in Surjection(there, all) BY Zenon DEF Surjection
<1>3. IsFiniteSet(all) /\ Cardinality(all) <= Cardinality(there)
  <2> HIDE DEF there, attempts, all
  <2> QED BY <1>1, <1>2, FS_Surjection
<1>4. Attempts(records) \subseteq all BY DEF Attempts
<1>5. ASSUME NEW n \in Nat
      PROVE  Cardinality({a \in Attempts(records) : a <= n}) \in 0..Cardinality(Paths)
  <2> DEFINE low == {a \in Attempts(records) : a <= n}
  <2>1. low \in SUBSET all BY <1>4
  <2> HIDE DEF low, all, there
  <2>2. /\ IsFiniteSet(low) /\ Cardinality(low) <= Cardinality(all)
        /\ Cardinality(low) \in Nat /\ Cardinality(all) \in Nat /\ Cardinality(there) \in Nat
    BY <1>1, <1>3, <2>1, FS_Subset, FS_CardinalityType
  <2>3. Cardinality(low) \in 0..Cardinality(Paths) BY <1>1, <1>3, <2>2, PathsAreInodes
  <2> QED BY <2>3 DEF low
<1>6. ASSUME NEW r \in Latest, NEW k \in 0..Cardinality(Paths)
      PROVE  /\ [r EXCEPT !.attempt = k] \in Record /\ [r EXCEPT !.attempt = k].text = r.text
             /\ [r EXCEPT !.attempt = k].captured = r.captured
             /\ [r EXCEPT !.attempt = k].verified = r.verified
  BY DEF Latest, Record, Numbered
<1>7. ASSUME NEW p \in Paths, records[p] # None
      PROVE  /\ Renumbered(records)[p] \in Record
             /\ Renumbered(records)[p].text = records[p].text
             /\ Renumbered(records)[p].captured = records[p].captured
             /\ Renumbered(records)[p].verified = records[p].verified
  <2>1. records[p] \in Latest /\ records[p].attempt \in Nat BY <1>7, NoneIsNothing
  <2> DEFINE k == Cardinality({a \in Attempts(records) : a <= records[p].attempt})
  <2>2. k \in 0..Cardinality(Paths) BY <1>5, <2>1
  <2>3. Renumbered(records)[p] = [records[p] EXCEPT !.attempt = k] BY <1>7 DEF Renumbered
  <2> HIDE DEF k
  <2> QED BY <1>6, <2>1, <2>2, <2>3
<1>8. ASSUME NEW p \in Paths, records[p] = None PROVE Renumbered(records)[p] = None
  BY <1>8 DEF Renumbered
<1>9. Renumbered(records) \in [Paths -> Record \cup {None}]
  <2>1. \A p \in Paths : Renumbered(records)[p] \in Record \cup {None} BY <1>7, <1>8
  <2>2. Renumbered(records) = [p \in Paths |-> Renumbered(records)[p]] BY DEF Renumbered
  <2> QED BY <2>1, <2>2
<1> QED BY <1>7, <1>8, <1>9, NoneIsNothing

\* A note that is taken up has a record of its text, verified only if it was.
LEMMA AttemptedIs ==
  ASSUME TypeOK, NEW p \in DOMAIN notes
  PROVE  /\ Attempted(p) \in [Paths -> Record \cup {None}]
         /\ Attempted(p)[p] # None /\ Attempted(p)[p].text = notes[p].text
         /\ Attempted(p)[p].verified => mem[p] # None /\ mem[p].verified /\ mem[p].text = notes[p].text
         /\ \A q \in Paths \ {p} :
              /\ Attempted(p)[q] = None <=> mem[q] = None
              /\ mem[q] # None => /\ Attempted(p)[q].text = mem[q].text
                                 /\ Attempted(p)[q].verified = mem[q].verified
<1> DEFINE prior == IF Same(p) THEN mem[p]
                    ELSE [text |-> notes[p].text, captured |-> FALSE, verified |-> FALSE,
                          cleanup |-> None, attempt |-> 0, trash |-> FALSE]
           latest == [prior EXCEPT !.attempt = Cardinality(Paths) + 1]
           records == [mem EXCEPT ![p] = latest]
<1>1. /\ p \in Paths /\ notes[p].text \in Texts /\ mem \in [Paths -> Record \cup {None}]
  BY DEF TypeOK, File
<1>2. /\ prior \in Record /\ prior.text = notes[p].text
      /\ prior.verified => mem[p] # None /\ mem[p].verified /\ mem[p].text = notes[p].text
  <2>1. CASE Same(p) BY <1>1, <2>1 DEF Same
  <2>2. CASE ~Same(p)
    <3>1. prior = [text |-> notes[p].text, captured |-> FALSE, verified |-> FALSE,
                   cleanup |-> None, attempt |-> 0, trash |-> FALSE] BY <2>2
    <3> HIDE DEF prior
    <3>2. prior \in Record /\ prior.text = notes[p].text /\ ~prior.verified
      BY <1>1, <3>1, PathsAreInodes DEF Record, Numbered
    <3> QED BY <3>2
  <2> QED BY <2>1, <2>2
<1> HIDE DEF prior
<1>3. latest \in Latest /\ latest.text = prior.text /\ latest.verified = prior.verified
  BY <1>2, PathsAreInodes DEF Record, Latest, Numbered
<1> HIDE DEF latest
<1>4. /\ records \in [Paths -> Latest \cup {None}] /\ records[p] = latest
      /\ \A q \in Paths \ {p} : records[q] = mem[q]
  BY <1>1, <1>3, NoneIsNothing
<1>5. Attempted(p) = Renumbered(records) BY Zenon DEF Attempted, records, latest, prior
<1> HIDE DEF records
<1>6. latest # None BY <1>3, NoneIsNothing
<1> QED BY <1>1, <1>2, <1>3, <1>4, <1>5, <1>6, RenumberedIs

-----------------------------------------------------------------------------
(* The user and Memory                                                      *)

LEMMA InitKeeps == Init => Kept
<1> SUFFICES ASSUME Init PROVE Kept OBVIOUS
<1> USE DEF Init
<1>1. PICK f \in [Paths -> Initial] :
        files = [p \in Paths |-> [text |-> f[p], inode |-> p, old |-> TRUE]]
  OBVIOUS
<1>2. files \in [Paths -> File \cup {None}] /\ \A p \in Paths : files[p] \in File
  BY <1>1, PathsAreInodes, TextsAssumption DEF File, Texts
<1>3. DOMAIN notes = {} /\ notes \in [DOMAIN notes -> File] OBVIOUS
<1>4. NoRecords \in [Paths -> Record \cup {None}] /\ \A p \in Paths : NoRecords[p] = None
  BY DEF NoRecords
<1>5. TypeOK
  <2>1. source \in [Texts -> [status : {"none", "pending", "complete", "dropped"},
                              version : Versions, secrets : BOOLEAN]]
    BY BoundsAssumption DEF Versions
  <2>2. /\ edits \in Nat /\ faults \in Nat /\ edits + faults <= MaxEvents /\ count \in 0..Batch
        /\ entries \in [Texts -> Versions \cup {None}] /\ manifest \in [Texts -> Versions \cup {None}]
    BY BoundsAssumption
  <2> QED BY <1>2, <1>3, <1>4, <2>1, <2>2 DEF TypeOK, Stage
<1>6. Records
  <2>1. InRun BY DEF InRun, Working
  <2>2. Backed(mem) /\ Backed(disk) BY <1>4 DEF Backed
  <2>3. NotNewer BY DEF NotNewer
  <2>4. Exported /\ Permitted BY DEF Exported, Permitted, Working
  <2> QED BY <2>1, <2>2, <2>3, <2>4 DEF Records
<1>7. Taken /\ CopyThere BY DEF Taken, CopyThere
<1>8. NothingLost
  <2>1. \A p \in Paths : files[p] # None BY <1>2, NoneIsNothing
  <2> QED BY <2>1 DEF NothingLost
<1> QED BY <1>5, <1>6, <1>7, <1>8 DEF Kept

\* What the user does at paths and in the configuration leaves the records alone.
LEMMA UserLeavesRecords ==
  ASSUME Kept, UserOnly, cleanup' = cleanup \/ pc = "down"
  PROVE  Records'
<1> USE DEF UserOnly, memory, output, process
<1>1. InRun' BY DEF Kept, Records, InRun
<1>2. Backed(mem)' /\ Backed(disk)' BY DEF Kept, Records, Backed
<1>3. NotNewer' BY DEF Kept, Records, NotNewer
<1>4. Exported' BY DEF Kept, Records, Exported, Text
<1>5. Permitted' BY DEF Kept, Records, Permitted, Text, Clean, Working
<1> QED BY <1>1, <1>2, <1>3, <1>4, <1>5 DEF Records

\* A step of the user keeps the types when the files keep theirs.
LEMMA UserTyped ==
  ASSUME Kept, UserOnly, Edits \/ UNCHANGED edits,
         files' \in [Paths -> File \cup {None}], cleanup' \in Policies
  PROVE  TypeOK'
<1> USE DEF UserOnly, memory, output, process, Kept, TypeOK
<1>1. edits' \in Nat /\ edits' + faults' <= MaxEvents BY BoundsAssumption DEF Edits
<1> QED BY <1>1

LEMMA WriteKeeps ==
  ASSUME Kept, NEW p \in Paths, NEW t \in Texts, Write(p, t)
  PROVE  Kept'
<1>0. \A i \in Inodes : [text |-> t, inode |-> i, old |-> FALSE] \in File BY DEF File
<1> USE DEF Write
<1>1. PICK i \in {NewInode} \cup {f.inode : f \in Old(p)} :
        files' = [files EXCEPT ![p] = [text |-> t, inode |-> i, old |-> FALSE]]
  OBVIOUS
<1>2. i \in Inodes
  <2>1. NewInode \in Inodes
    BY PathsAreInodes, BoundsAssumption DEF NewInode, Edits, Inodes, Kept, TypeOK
  <2>2. \A f \in Old(p) : f.inode \in Inodes BY DEF Old, Kept, TypeOK, File
  <2> QED BY <2>1, <2>2
<1> DEFINE new == [text |-> t, inode |-> i, old |-> FALSE]
<1>3. new \in File /\ new # None BY <1>0, <1>2, NoneIsNothing
<1> HIDE DEF new
<1>4. /\ files' \in [Paths -> File \cup {None}] /\ files'[p] = new
      /\ \A q \in Paths \ {p} : files'[q] = files[q]
  BY <1>1, <1>3 DEF Kept, TypeOK, new
<1>5. TypeOK' BY <1>4, UserTyped DEF Kept, TypeOK
<1>6. Records' BY UserLeavesRecords
<1>7. Taken'
  BY <1>4 DEF Kept, Taken, PutsAt, UserOnly, process, TypeOK
<1>8. CopyThere'
  <2>1. pc # "down" => \A f \in Old(p) : f.text \in touched' BY DEF Touches
  <2>2. touched' = {} \/ touched \subseteq touched' BY DEF Touches
  <2> SUFFICES ASSUME pc \in {"current", "rename", "moved"}, cleanup = "duplicates",
                      Text \notin touched'
      PROVE  \E q \in Paths : q # cur /\ files'[q] # None /\ files'[q].text = Text
    BY DEF CopyThere, UserOnly, process, Text
  <2>3. touched \subseteq touched' BY DEF Touches
  <2>4. PICK q \in Paths : q # cur /\ files[q] # None /\ files[q].text = Text
    BY <2>3 DEF Kept, CopyThere
  <2>5. q # p BY <2>1, <2>4 DEF Old
  <2> QED BY <1>4, <2>4, <2>5
<1>9. NothingLost'
  <2> SUFFICES ASSUME NEW o \in owned'
      PROVE  \/ \E q \in Paths : files'[q] # None /\ Object(files'[q]) = o
             \/ \E m \in trash : m.object = o
             \/ o.inode \in late'
    BY DEF NothingLost, UserOnly, Object
  <2>1. CASE o = Object(files'[p]) BY <1>3, <1>4, <2>1
  <2>2. CASE o # Object(files'[p])
    <3>1. o \in owned /\ \A f \in Old(p) : o # Object(f) BY <2>2
    <3>2. late \subseteq late' BY DEF PutsAt
    <3>3. files[p] # None => Object(files[p]) # o BY <3>1 DEF Old
    <3> QED BY <1>4, <3>1, <3>2, <3>3 DEF Kept, NothingLost
  <2> QED BY <2>1, <2>2
<1> QED BY <1>5, <1>6, <1>7, <1>8, <1>9 DEF Kept

LEMMA RemoveKeeps ==
  ASSUME Kept, NEW p \in Paths, Remove(p)
  PROVE  Kept'
<1> USE DEF Remove
<1>1. /\ files' \in [Paths -> File \cup {None}] /\ files'[p] = None
      /\ \A q \in Paths \ {p} : files'[q] = files[q]
  BY DEF Kept, TypeOK
<1>2. TypeOK' BY <1>1, UserTyped DEF Kept, TypeOK
<1>3. Records' BY UserLeavesRecords
<1>4. Taken' BY <1>1 DEF Kept, Taken, UserOnly, process, TypeOK
<1>5. CopyThere'
  <2> SUFFICES ASSUME pc \in {"current", "rename", "moved"}, cleanup = "duplicates",
                      Text \notin touched'
      PROVE  \E q \in Paths : q # cur /\ files'[q] # None /\ files'[q].text = Text
    BY DEF CopyThere, UserOnly, process, Text
  <2>1. touched \subseteq touched' /\ files[p].text \in touched' BY DEF Touches, Old
  <2>2. PICK q \in Paths : q # cur /\ files[q] # None /\ files[q].text = Text
    BY <2>1 DEF Kept, CopyThere
  <2> QED BY <1>1, <2>1, <2>2
<1>6. NothingLost'
  BY <1>1 DEF NothingLost, UserOnly, Object, Kept
<1> QED BY <1>2, <1>3, <1>4, <1>5, <1>6 DEF Kept

LEMMA RenameKeeps ==
  ASSUME Kept, NEW p \in Paths, NEW q \in Paths, Rename(p, q)
  PROVE  Kept'
<1> USE DEF Rename
<1>1. /\ files' \in [Paths -> File \cup {None}] /\ files'[p] = None /\ files'[q] = files[p]
      /\ \A x \in Paths \ {p, q} : files'[x] = files[x]
  BY DEF Kept, TypeOK
<1>2. TypeOK' BY <1>1, UserTyped DEF Kept, TypeOK
<1>3. Records' BY UserLeavesRecords
<1>4. Taken'
  <2>1. pc = "giveback" => cur \in Paths BY DEF Kept, Records, InRun, Working, TypeOK
  <2>2. cur = q /\ pc = "giveback" => files'[q].inode \in late' BY DEF PutsAt
  <2>3. late \subseteq late' BY DEF PutsAt
  <2>4. pc = "giveback" /\ files'[cur] # None => files'[cur].inode \in late'
    BY <1>1, <2>1, <2>2, <2>3 DEF Kept, Taken
  <2> QED BY <2>4 DEF Kept, Taken, UserOnly, process
<1>5. CopyThere'
  <2> SUFFICES ASSUME pc \in {"current", "rename", "moved"}, cleanup = "duplicates",
                      Text \notin touched'
      PROVE  \E x \in Paths : x # cur /\ files'[x] # None /\ files'[x].text = Text
    BY DEF CopyThere, UserOnly, process, Text
  <2>1. /\ touched \subseteq touched' /\ files[p].text \in touched'
        /\ files[q] # None => files[q].text \in touched'
    BY DEF Touches, Old
  <2>2. PICK x \in Paths : x # cur /\ files[x] # None /\ files[x].text = Text
    BY <2>1 DEF Kept, CopyThere
  <2> QED BY <1>1, <2>1, <2>2
<1>6. NothingLost'
  <2> SUFFICES ASSUME NEW o \in owned'
      PROVE  \/ \E x \in Paths : files'[x] # None /\ Object(files'[x]) = o
             \/ \E m \in trash : m.object = o
             \/ o.inode \in late'
    BY DEF NothingLost, UserOnly, Object
  <2>1. o \in owned /\ (files[q] # None => Object(files[q]) # o) BY DEF Old
  <2>2. late \subseteq late' BY DEF PutsAt
  <2> QED BY <1>1, <2>1, <2>2 DEF Kept, NothingLost
<1> QED BY <1>2, <1>3, <1>4, <1>5, <1>6 DEF Kept

LEMMA AgeKeeps ==
  ASSUME Kept, NEW p \in Paths, Age(p)
  PROVE  Kept'
<1> USE DEF Age
<1>1. files[p] \in File BY DEF Kept, TypeOK
<1> DEFINE aged == [files[p] EXCEPT !.old = TRUE]
<1>2. aged \in File /\ aged # None /\ Object(aged) = Object(files[p])
  BY <1>1, NoneIsNothing DEF File, Object
<1>3. files' = [files EXCEPT ![p] = aged] OBVIOUS
<1> HIDE DEF aged
<1>4. /\ files' \in [Paths -> File \cup {None}] /\ files'[p] = aged
      /\ \A q \in Paths \ {p} : files'[q] = files[q]
  BY <1>2, <1>3 DEF Kept, TypeOK
<1>5. TypeOK' BY <1>4, UserTyped DEF Kept, TypeOK
<1>6. Records' BY UserLeavesRecords
<1>7. Taken' /\ CopyThere' BY DEF Taken, CopyThere, UserOnly, process
<1>8. NothingLost' BY <1>2, <1>4 DEF NothingLost, UserOnly, Kept
<1> QED BY <1>5, <1>6, <1>7, <1>8 DEF Kept

LEMMA ConfigureKeeps ==
  ASSUME Kept, NEW policy \in Policies, Configure(policy)
  PROVE  Kept'
<1> USE DEF Configure
<1>1. TypeOK' BY UserTyped DEF Kept, TypeOK
<1>2. Records' BY UserLeavesRecords
<1>3. Taken' /\ CopyThere' BY DEF Taken, CopyThere, UserOnly, process
<1>4. NothingLost' BY DEF NothingLost, UserOnly, Kept, Object
<1> QED BY <1>1, <1>2, <1>3, <1>4 DEF Kept

\* What Memory does leaves files, trash and the run alone.
LEMMA MemoryLeaves ==
  ASSUME Kept, MemoryOnly,
         source' \in [Texts -> [status : {"none", "pending", "complete", "dropped"},
                                version : Versions, secrets : BOOLEAN]],
         faults' \in Nat, edits + faults' <= MaxEvents,
         \A t \in Texts : source'[t].version <= faults' /\ source[t].version <= source'[t].version,
         pc # "down" => held \subseteq held',
         pc \notin {"down", "opening"} => Clean' \subseteq held'
  PROVE  Kept'
<1> USE DEF MemoryOnly, user, output, process
<1>1. TypeOK' BY DEF Kept, TypeOK
<1>2. InRun' BY DEF Kept, Records, InRun
<1>3. Backed(mem)' /\ Backed(disk)' BY DEF Kept, Records, Backed
<1>4. NotNewer'
  <2> SUFFICES ASSUME NEW t \in Texts
      PROVE  /\ source'[t].version <= faults'
             /\ manifest[t] # None => /\ manifest[t] <= source'[t].version
                                      /\ entries[t] # None /\ entries[t] >= manifest[t]
    BY DEF NotNewer
  <2>1. source[t].version \in Nat /\ source'[t].version \in Nat
    BY BoundsAssumption DEF Kept, TypeOK, Versions
  <2>2. manifest[t] # None => manifest[t] \in Nat
    BY BoundsAssumption DEF Kept, TypeOK, Versions
  <2>3. manifest[t] # None => manifest[t] <= source[t].version /\ entries[t] # None /\ entries[t] >= manifest[t]
    BY DEF Kept, Records, NotNewer
  <2>4. source[t].version <= source'[t].version /\ source'[t].version <= faults' OBVIOUS
  <2> QED BY <2>1, <2>2, <2>3, <2>4
<1>5. Exported' BY DEF Kept, Records, Exported, Text
<1>6. Permitted' BY DEF Kept, Records, Permitted, Text, Working
<1>7. Taken' /\ CopyThere' BY DEF Kept, Taken, CopyThere, Text
<1>8. NothingLost' BY DEF Kept, NothingLost, Object
<1> QED BY <1>1, <1>2, <1>3, <1>4, <1>5, <1>6, <1>7, <1>8 DEF Kept, Records

\* The source of a text changes, and its version does not.
LEMMA SourceChanges ==
  ASSUME TypeOK, NEW t \in Texts, NEW new, NEW r, new = [source EXCEPT ![t] = r],
         r \in [status : {"none", "pending", "complete", "dropped"}, version : Versions,
                secrets : BOOLEAN],
         r.version = source[t].version
  PROVE  /\ new \in [Texts -> [status : {"none", "pending", "complete", "dropped"},
                               version : Versions, secrets : BOOLEAN]]
         /\ \A x \in Texts : new[x].version = source[x].version
         /\ new[t] = r /\ \A x \in Texts \ {t} : new[x] = source[x]
  BY DEF TypeOK

LEMMA CompleteKeeps ==
  ASSUME Kept, NEW t \in Texts, Complete(t)
  PROVE  Kept'
<1> USE DEF Complete
<1>1. TypeOK BY DEF Kept
<1>2. PICK s \in BOOLEAN : source' = [source EXCEPT ![t].status = "complete", ![t].secrets = s]
  OBVIOUS
<1>3. /\ source' \in [Texts -> [status : {"none", "pending", "complete", "dropped"},
                                version : Versions, secrets : BOOLEAN]]
      /\ \A x \in Texts : source'[x].version = source[x].version
  <2> DEFINE r == [source[t] EXCEPT !.status = "complete", !.secrets = s]
  <2>1. /\ r \in [status : {"none", "pending", "complete", "dropped"}, version : Versions,
                  secrets : BOOLEAN]
        /\ r.version = source[t].version
    BY <1>1 DEF TypeOK
  <2>2. source' = [source EXCEPT ![t] = r] BY <1>2
  <2> HIDE DEF r
  <2> QED BY <1>1, <2>1, <2>2, SourceChanges
<1>4. \A x \in Texts : source[x].version \in Nat BY <1>1, BoundsAssumption DEF TypeOK, Versions
<1>5. pc # "down" => held \subseteq held' /\ Clean' \subseteq held' OBVIOUS
<1> QED
  BY <1>1, <1>3, <1>4, <1>5, MemoryLeaves DEF Kept, Records, NotNewer, TypeOK

LEMMA ReviseKeeps ==
  ASSUME Kept, NEW t \in Texts, Revise(t)
  PROVE  Kept'
<1> USE DEF Revise, Fault
<1>1. TypeOK BY DEF Kept
<1>2. faults' \in Nat /\ faults' = faults + 1 /\ edits + faults' <= MaxEvents
  BY <1>1, BoundsAssumption DEF TypeOK
<1>3. \A x \in Texts : source[x].version \in Nat /\ source[x].version <= faults
  BY <1>1, BoundsAssumption DEF Kept, Records, NotNewer, TypeOK, Versions
<1> DEFINE next == source[t].version + 1
<1>4. next \in Versions /\ next <= faults' /\ source[t].version <= next
  BY <1>1, <1>2, <1>3, BoundsAssumption DEF TypeOK, Versions
<1>5. source' = [source EXCEPT ![t].version = next] OBVIOUS
<1> HIDE DEF next
<1>6. /\ source' \in [Texts -> [status : {"none", "pending", "complete", "dropped"},
                                version : Versions, secrets : BOOLEAN]]
      /\ source'[t].version = next
      /\ \A x \in Texts \ {t} : source'[x] = source[x]
      /\ source'[t].status = source[t].status /\ source'[t].secrets = source[t].secrets
  BY <1>1, <1>4, <1>5 DEF TypeOK
<1>7. \A x \in Texts : source'[x].version <= faults' /\ source[x].version <= source'[x].version
  BY <1>1, <1>2, <1>3, <1>4, <1>6 DEF TypeOK
<1>8. Clean' = Clean BY <1>6 DEF Clean
<1> QED BY <1>2, <1>6, <1>7, <1>8, MemoryLeaves DEF Kept, Records, Permitted

LEMMA DropKeeps ==
  ASSUME Kept, NEW t \in Texts, Drop(t)
  PROVE  Kept'
<1> USE DEF Drop, Fault
<1>1. TypeOK BY DEF Kept
<1>2. /\ source' \in [Texts -> [status : {"none", "pending", "complete", "dropped"},
                                version : Versions, secrets : BOOLEAN]]
      /\ \A x \in Texts : source'[x].version = source[x].version
      /\ \A x \in Texts : source'[x].secrets = source[x].secrets
      /\ \A x \in Texts : source'[x].status = "complete" => source[x].status = "complete"
  <2> DEFINE r == [source[t] EXCEPT !.status = "dropped"]
  <2>1. /\ r \in [status : {"none", "pending", "complete", "dropped"}, version : Versions,
                  secrets : BOOLEAN]
        /\ r.version = source[t].version
    BY <1>1 DEF TypeOK
  <2>0. r.secrets = source[t].secrets /\ r.status # "complete" BY <1>1 DEF TypeOK
  <2>2. source' = [source EXCEPT ![t] = r] OBVIOUS
  <2> HIDE DEF r, Drop, Fault
  <2>3. /\ source' \in [Texts -> [status : {"none", "pending", "complete", "dropped"},
                                  version : Versions, secrets : BOOLEAN]]
        /\ \A x \in Texts : source'[x].version = source[x].version
        /\ source'[t] = r /\ \A x \in Texts \ {t} : source'[x] = source[x]
    BY <1>1, <2>1, <2>2 DEF TypeOK
  <2>4. ASSUME NEW x \in Texts
        PROVE  /\ source'[x].secrets = source[x].secrets
               /\ source'[x].status = "complete" => source[x].status = "complete"
    <3>1. CASE x = t BY <2>0, <2>3, <3>1
    <3>2. CASE x # t BY <2>3, <3>2
    <3> QED BY <3>1, <3>2
  <2> QED BY <2>3, <2>4
<1>3. \A x \in Texts : source[x].version \in Nat BY <1>1, BoundsAssumption DEF TypeOK, Versions
<1>4. Clean' \subseteq Clean BY <1>2 DEF Clean
<1>5. faults' \in Nat /\ faults' > faults /\ edits + faults' <= MaxEvents
  BY <1>1, BoundsAssumption DEF TypeOK
<1>6. \A x \in Texts : source[x].version <= faults BY DEF Kept, Records, NotNewer
<1>7. \A x \in Texts : source'[x].version <= faults' /\ source[x].version <= source'[x].version
  BY <1>1, <1>2, <1>3, <1>5, <1>6 DEF TypeOK
<1>8. pc \notin {"down", "opening"} => Clean' \subseteq held' BY <1>4 DEF Kept, Records, Permitted
<1> QED BY <1>2, <1>5, <1>7, <1>8, MemoryLeaves

-----------------------------------------------------------------------------
(* A run: its start, its records and its export                             *)

\* Nothing is lost where neither a file nor the trash changes.
LEMMA LosesNothing ==
  ASSUME Kept, UNCHANGED <<files, trash, owned, late>>
  PROVE  NothingLost'
  BY DEF Kept, NothingLost, Object

\* A step of a run takes time in which a fault may have been counted.
LEMMA FaultCounted ==
  ASSUME Kept, Fault \/ UNCHANGED faults, UNCHANGED edits
  PROVE  faults' \in Nat /\ edits' + faults' <= MaxEvents /\ faults <= faults'
  BY BoundsAssumption DEF Fault, Kept, TypeOK

\* The source, the export and the files stay as they are, and so does what relates them.
LEMMA SameSources ==
  ASSUME Kept, UNCHANGED <<source, entries, manifest>>, faults' \in Nat, faults <= faults'
  PROVE  NotNewer'
<1>1. \A t \in Texts : source[t].version \in Nat BY BoundsAssumption DEF Kept, TypeOK, Versions
<1> QED BY <1>1 DEF Kept, Records, NotNewer, TypeOK

LEMMA StartKeeps ==
  ASSUME Kept, Start
  PROVE  Kept'
<1> USE DEF Start, user, memory, output
<1>1. TypeOK' BY DEF Kept, TypeOK, Stage
<1>2. InRun' /\ Exported' /\ Permitted'
  BY DEF Kept, Records, InRun, Exported, Permitted, Working
<1>3. NotNewer' BY SameSources DEF Kept, TypeOK
<1>4. Backed(mem)' /\ Backed(disk)' BY DEF Kept, Records, Backed
<1>5. Taken' /\ CopyThere' BY DEF Taken, CopyThere
<1>6. NothingLost' BY LosesNothing
<1> QED BY <1>1, <1>2, <1>3, <1>4, <1>5, <1>6 DEF Kept, Records

LEMMA CollectKeeps ==
  ASSUME Kept, Collect
  PROVE  Kept'
<1> USE DEF Collect, output
<1>1. TypeOK'
  <2>1. DOMAIN notes' \subseteq Paths /\ notes' \in [DOMAIN notes' -> File]
    BY DEF Kept, TypeOK
  <2> QED BY <2>1 DEF Kept, TypeOK, Stage
<1>2. InRun' /\ Exported' BY DEF Kept, Records, InRun, Exported, Working
<1>3. Permitted' BY DEF Permitted, Clean, Working
<1>4. NotNewer' BY SameSources DEF Kept, TypeOK
<1>5. Backed(mem)' /\ Backed(disk)' BY DEF Kept, Records, Backed
<1>6. Taken' /\ CopyThere' BY DEF Taken, CopyThere
<1>7. NothingLost' BY LosesNothing
<1> QED BY <1>1, <1>2, <1>3, <1>4, <1>5, <1>6, <1>7 DEF Kept, Records

LEMMA SkipKeeps ==
  ASSUME Kept, NEW p \in Paths, Skip(p)
  PROVE  Kept'
<1> USE DEF Skip, Keep, user, memory, output
<1>1. TypeOK' BY DEF Kept, TypeOK
<1>2. InRun' /\ Exported' /\ Permitted'
  BY DEF Kept, Records, InRun, Exported, Permitted, Working, Text, Clean
<1>3. NotNewer' BY SameSources DEF Kept, TypeOK
<1>4. Backed(mem)' /\ Backed(disk)' BY DEF Kept, Records, Backed
<1>5. Taken' /\ CopyThere' BY DEF Taken, CopyThere
<1>6. NothingLost' BY LosesNothing
<1> QED BY <1>1, <1>2, <1>3, <1>4, <1>5, <1>6 DEF Kept, Records

LEMMA BeginKeeps ==
  ASSUME Kept, NEW p \in Paths, Begin(p)
  PROVE  Kept'
<1>1. /\ pc = "next" /\ p \in DOMAIN notes /\ count < Batch
      /\ todo' = todo \ {p} /\ cur' = p /\ mem' = Attempted(p)
      /\ pc' \in {"failed", "export", "capture"}
      /\ UNCHANGED <<user, trash, faults, memory, output, disk, lock, notes, count, proof>>
  BY BoundsAssumption DEF Begin, First, Full, Keep, Kept, TypeOK
<1>2. TypeOK BY DEF Kept
<1> USE DEF user, memory, output
<1>3. /\ mem' \in [Paths -> Record \cup {None}]
      /\ mem'[p] # None /\ mem'[p].text = notes[p].text
      /\ mem'[p].verified => mem[p] # None /\ mem[p].verified /\ mem[p].text = notes[p].text
      /\ \A q \in Paths \ {p} :
           /\ mem'[q] = None <=> mem[q] = None
           /\ mem[q] # None => /\ mem'[q].text = mem[q].text
                               /\ mem'[q].verified = mem[q].verified
  BY <1>1, <1>2, AttemptedIs
<1>4. TypeOK' BY <1>1, <1>3 DEF Kept, TypeOK, Stage
<1>5. InRun' BY <1>1, <1>3 DEF Kept, Records, InRun, Working
<1>6. Exported' BY <1>1 DEF Exported
<1>7. Permitted' BY <1>1 DEF Kept, Records, Permitted, InRun, Clean
<1>8. NotNewer' BY <1>1, SameSources DEF Kept, TypeOK
<1>9. Backed(disk)' BY <1>1 DEF Kept, Records, Backed
<1>10. Backed(mem)'
  <2> SUFFICES ASSUME NEW q \in Paths, mem'[q] # None, mem'[q].verified
               PROVE  manifest[mem'[q].text] # None
    BY <1>1 DEF Backed
  <2>1. CASE q = p BY <1>3, <2>1 DEF Kept, Records, Backed
  <2>2. CASE q # p BY <1>3, <2>2 DEF Kept, Records, Backed
  <2> QED BY <2>1, <2>2
<1>11. Taken' /\ CopyThere' BY <1>1 DEF Taken, CopyThere
<1>12. NothingLost' BY <1>1, LosesNothing
<1> QED BY <1>4, <1>5, <1>6, <1>7, <1>8, <1>9, <1>10, <1>11, <1>12 DEF Kept, Records

\* The record of the note that is worked on changes, and keeps its text.
LEMMA RecordChanges ==
  ASSUME Kept, pc \in Working, NEW r \in Record, r.text = Text,
         r.verified => manifest[Text] # None,
         NEW records, records = [mem EXCEPT ![cur] = r]
  PROVE  /\ records \in [Paths -> Record \cup {None}]
         /\ records[cur] # None /\ records[cur].text = notes[cur].text
         /\ \A p \in Paths : records[p] # None /\ records[p].verified
                               => manifest[records[p].text] # None
<1>1. cur \in Paths /\ mem \in [Paths -> Record \cup {None}] /\ r # None
  BY NoneIsNothing DEF Kept, Records, InRun, TypeOK
<1>2. /\ records \in [Paths -> Record \cup {None}] /\ records[cur] = r
      /\ \A p \in Paths \ {cur} : records[p] = mem[p]
  BY <1>1
<1>3. ASSUME NEW p \in Paths, records[p] # None, records[p].verified
      PROVE  manifest[records[p].text] # None
  <2>1. CASE p = cur BY <1>2, <1>3, <2>1
  <2>2. CASE p # cur BY <1>2, <1>3, <2>2 DEF Kept, Records, Backed
  <2> QED BY <2>1, <2>2
<1> QED BY <1>1, <1>2, <1>3 DEF Text

LEMMA CaptureKeeps ==
  ASSUME Kept, Capture
  PROVE  Kept'
<1> DEFINE marked == [mem EXCEPT ![cur].captured = TRUE]
           r == [mem[cur] EXCEPT !.captured = TRUE]
<1>1. /\ pc = "capture" /\ source' = Intake(Text) /\ mem' \in {mem, marked}
      /\ disk' \in {disk, mem'} /\ pc' \in {"export", "failed"} /\ (Fault \/ UNCHANGED faults)
      /\ UNCHANGED <<user, held, trash, output, lock, notes, todo, count, cur, proof>>
  BY Zenon DEF Capture, marked
<1>2. pc \in Working /\ Text \in Texts BY <1>1 DEF Working, Kept, Records, InRun, TypeOK, Text, File
<1>3. mem[cur] \in Record /\ mem[cur].text = Text /\ cur \in Paths
  BY <1>2 DEF Kept, Records, InRun, TypeOK, Text
<1>4. r \in Record /\ r.text = Text /\ (r.verified => manifest[Text] # None)
  BY <1>3, NoneIsNothing DEF Record, Numbered, Kept, Records, Backed
<1>5. marked = [mem EXCEPT ![cur] = r] BY <1>3 DEF Kept, TypeOK
<1> HIDE DEF marked, r
<1>6. /\ mem' \in [Paths -> Record \cup {None}] /\ mem'[cur] # None
      /\ mem'[cur].text = notes[cur].text
      /\ \A p \in Paths : mem'[p] # None /\ mem'[p].verified => manifest[mem'[p].text] # None
  <2>1. CASE mem' = mem BY <1>2, <2>1 DEF Kept, TypeOK, Records, InRun, Backed
  <2>2. CASE mem' = marked BY <1>2, <1>4, <1>5, <2>2, RecordChanges
  <2> QED BY <1>1, <2>1, <2>2
<1> USE DEF user, output
<1>7. /\ source' \in [Texts -> [status : {"none", "pending", "complete", "dropped"},
                                version : Versions, secrets : BOOLEAN]]
      /\ \A t \in Texts : source'[t].version = source[t].version
      /\ Clean' = Clean
  <2>1. CASE source' = source BY <2>1 DEF Kept, TypeOK, Clean
  <2>2. CASE source[Text].status = "none" /\ source' = [source EXCEPT ![Text].status = "pending"]
    <3>1. \A t \in Texts : /\ source'[t].version = source[t].version
                           /\ source'[t].secrets = source[t].secrets
                           /\ source'[t].status = "complete" <=> source[t].status = "complete"
      BY <1>2, <2>2 DEF Kept, TypeOK
    <3>2. Clean' = Clean BY <3>1 DEF Clean
    <3> QED BY <1>2, <2>2, <3>1, <3>2 DEF Kept, TypeOK
  <2> QED BY <1>1, <2>1, <2>2 DEF Intake
<1>8. faults' \in Nat /\ edits' + faults' <= MaxEvents /\ faults <= faults' BY <1>1, FaultCounted
<1>9. TypeOK' BY <1>1, <1>6, <1>7, <1>8 DEF Kept, TypeOK, Stage
<1>10. InRun' BY <1>1, <1>2, <1>6 DEF Kept, Records, InRun, Working
<1>11. Exported' /\ Taken' /\ CopyThere' BY <1>1 DEF Exported, Taken, CopyThere
<1>12. Permitted' BY <1>1, <1>7 DEF Kept, Records, InRun, Permitted
<1>13. NotNewer'
  <2>1. \A t \in Texts : source[t].version \in Nat BY BoundsAssumption DEF Kept, TypeOK, Versions
  <2> QED BY <1>1, <1>7, <1>8, <2>1 DEF Kept, Records, NotNewer, TypeOK
<1>14. Backed(mem)' /\ Backed(disk)' BY <1>1, <1>6 DEF Kept, Records, Backed
<1>15. NothingLost' BY <1>1, LosesNothing
<1> QED BY <1>9, <1>10, <1>11, <1>12, <1>13, <1>14, <1>15 DEF Kept, Records

LEMMA ExportKeeps ==
  ASSUME Kept, Export
  PROVE  Kept'
<1> DEFINE read == [version |-> source[Text].version, secrets |-> source[Text].secrets]
<1>1. /\ pc = "export"
      /\ \/ /\ source[Text].status = "complete" /\ pc' = "entries" /\ proof' = read
         \/ source[Text].status # "complete" /\ pc' \in {"save", "failed"} /\ proof' = None
      /\ UNCHANGED <<user, trash, faults, memory, output, disk, lock, mem, notes, todo, count, cur>>
  <2>1. /\ pc' = CASE source[Text].status = "complete" -> "entries"
                   [] source[Text].status = "pending" -> "save"
                   [] OTHER -> "failed"
        /\ proof' = IF source[Text].status = "complete" THEN read ELSE None
        /\ pc = "export" /\ UNCHANGED <<user, trash, faults, memory, output, disk, lock>>
        /\ UNCHANGED <<mem, notes, todo, count, cur>>
    BY DEF Export, Keep
  <2> HIDE DEF read
  <2>2. CASE source[Text].status = "complete" BY <2>1, <2>2
  <2>3. CASE source[Text].status # "complete" BY <2>1, <2>3
  <2> QED BY <2>1, <2>2, <2>3
<1>2. Text \in Texts /\ cur \in DOMAIN notes
  BY <1>1 DEF Working, Kept, Records, InRun, TypeOK, Text, File
<1>3. read \in Proof /\ read # None /\ read.version = source[Text].version
      /\ read.secrets = source[Text].secrets
  BY <1>2, NoneIsNothing DEF Proof, Kept, TypeOK
<1> HIDE DEF read
<1> USE DEF user, memory, output
<1>4. TypeOK' BY <1>1, <1>3 DEF Kept, TypeOK, Stage
<1>5. InRun' BY <1>1, <1>3 DEF Kept, Records, InRun, Working
<1>6. Exported' BY <1>1, <1>2, <1>3 DEF Kept, Records, NotNewer, Exported, Text
<1>7. Permitted'
  <2>1. Clean \subseteq held BY <1>1 DEF Kept, Records, Permitted
  <2>2. proof' # None => proof'.secrets \/ Text \in held
    <3>1. CASE proof' = read /\ source[Text].status = "complete"
      <4>1. read.secrets \/ Text \in Clean BY <1>2, <1>3, <3>1 DEF Clean, Kept, TypeOK
      <4> QED BY <2>1, <3>1, <4>1
    <3> QED BY <1>1, <3>1
  <2> QED BY <1>1, <2>1, <2>2 DEF Permitted, Text, Clean
<1>8. NotNewer' BY <1>1, SameSources DEF Kept, TypeOK
<1>9. Backed(mem)' /\ Backed(disk)' BY <1>1 DEF Kept, Records, Backed
<1>10. Taken' /\ CopyThere' BY <1>1 DEF Taken, CopyThere
<1>11. NothingLost' BY <1>1, LosesNothing
<1> QED BY <1>4, <1>5, <1>6, <1>7, <1>8, <1>9, <1>10, <1>11 DEF Kept, Records

LEMMA WriteEntriesKeeps ==
  ASSUME Kept, WriteEntries
  PROVE  Kept'
<1> USE DEF WriteEntries, user, memory
<1>1. /\ Text \in Texts /\ cur \in DOMAIN notes /\ proof \in Proof /\ proof.version \in Versions
      /\ proof.version # None /\ proof.version \in Nat
  BY NoneIsNothing, BoundsAssumption
     DEF Working, Kept, Records, InRun, TypeOK, Text, File, Proof, Versions
<1>2. /\ entries' \in [Texts -> Versions \cup {None}] /\ entries'[Text] = proof.version
      /\ \A t \in Texts \ {Text} : entries'[t] = entries[t]
  BY <1>1 DEF Kept, TypeOK
<1>3. TypeOK' BY <1>2 DEF Kept, TypeOK, Stage
<1>4. InRun' BY DEF Kept, Records, InRun, Working
<1>5. Exported' BY <1>2 DEF Exported, Text
<1>6. Permitted' BY DEF Kept, Records, Permitted, Working, Text, Clean
<1>7. NotNewer'
  <2> SUFFICES ASSUME NEW t \in Texts
      PROVE  /\ source[t].version <= faults
             /\ manifest[t] # None => /\ manifest[t] <= source[t].version
                                      /\ entries'[t] # None /\ entries'[t] >= manifest[t]
    BY DEF NotNewer
  <2>1. CASE t # Text BY <1>2, <2>1 DEF Kept, Records, NotNewer
  <2>2. CASE t = Text
    <3>1. manifest[Text] # None => manifest[Text] \in Nat
      BY <1>1, BoundsAssumption DEF Kept, TypeOK, Versions
    <3>2. manifest[Text] # None => manifest[Text] <= proof.version
      BY DEF Kept, Records, Exported
    <3> QED BY <1>1, <1>2, <2>2, <3>1, <3>2 DEF Kept, Records, NotNewer
  <2> QED BY <2>1, <2>2
<1>8. Backed(mem)' /\ Backed(disk)' BY DEF Kept, Records, Backed
<1>9. Taken' /\ CopyThere' BY DEF Taken, CopyThere
<1>10. NothingLost' BY LosesNothing
<1> QED BY <1>3, <1>4, <1>5, <1>6, <1>7, <1>8, <1>9, <1>10 DEF Kept, Records

LEMMA RecheckKeeps ==
  ASSUME Kept, Recheck
  PROVE  Kept'
<1> USE DEF Recheck, user, memory
<1>1. /\ Text \in Texts /\ cur \in DOMAIN notes /\ proof \in Proof /\ proof.version \in Versions
      /\ proof.version # None /\ proof.version \in Nat /\ entries[Text] = proof.version
  BY NoneIsNothing, BoundsAssumption
     DEF Working, Kept, Records, InRun, Exported, TypeOK, Text, File, Proof, Versions
<1>2. /\ manifest' \in [Texts -> Versions \cup {None}]
      /\ \A t \in Texts \ {Text} : manifest'[t] = manifest[t]
      /\ \/ manifest' = manifest /\ pc' = "failed"
         \/ manifest'[Text] = proof.version /\ source[Text].version = proof.version /\ pc' = "kept"
  <2>1. CASE Unchanged(Text)
    <3>1. manifest' = [manifest EXCEPT ![Text] = proof.version] /\ pc' = "kept" BY <2>1
    <3> QED BY <1>1, <2>1, <3>1 DEF Kept, TypeOK, Unchanged
  <2>2. CASE ~Unchanged(Text) BY <2>2 DEF Kept, TypeOK
  <2> QED BY <2>1, <2>2
<1>3. \A t \in Texts : manifest[t] # None => manifest'[t] # None BY <1>1, <1>2
<1>4. TypeOK' BY <1>2 DEF Kept, TypeOK, Stage
<1>5. InRun' BY <1>2 DEF Kept, Records, InRun, Working
<1>6. Exported' BY <1>1, <1>2 DEF Exported, Text
<1>7. Permitted' BY <1>2 DEF Kept, Records, Permitted, Working, Text, Clean
<1>8. NotNewer'
  <2> SUFFICES ASSUME NEW t \in Texts
      PROVE  /\ source[t].version <= faults
             /\ manifest'[t] # None => /\ manifest'[t] <= source[t].version
                                       /\ entries[t] # None /\ entries[t] >= manifest'[t]
    BY DEF NotNewer
  <2>1. CASE manifest'[t] = manifest[t] BY <2>1 DEF Kept, Records, NotNewer
  <2>2. CASE t = Text /\ manifest'[Text] = proof.version /\ source[Text].version = proof.version
    BY <1>1, <2>2 DEF Kept, Records, NotNewer
  <2> QED BY <1>2, <2>1, <2>2
<1>9. Backed(mem)' /\ Backed(disk)'
  <2>1. \A p \in Paths : /\ mem[p] # None => mem[p].text \in Texts
                         /\ disk[p] # None => disk[p].text \in Texts
    BY DEF Kept, TypeOK, Record, Numbered
  <2> QED BY <1>3, <2>1 DEF Kept, Records, Backed
<1>10. Taken' /\ CopyThere' BY <1>2 DEF Taken, CopyThere
<1>11. NothingLost' BY LosesNothing
<1> QED BY <1>4, <1>5, <1>6, <1>7, <1>8, <1>9, <1>10, <1>11 DEF Kept, Records

-----------------------------------------------------------------------------
(* A run: the checks and moves of the cleanup                               *)

\* A step of the cleanup that moves nothing keeps the records.
LEMMA ChecksKeepRecords ==
  ASSUME Kept, pc \in {"kept", "current", "rename", "moved", "giveback"},
         pc' \in {"current", "rename", "moved", "giveback", "save", "failed"},
         pc' \in {"current", "rename", "moved"} => ~proof.secrets /\ cleanup # "none",
         UNCHANGED <<faults, cleanup, memory, output, disk, lock, notes, todo, count, cur, proof>>,
         mem' \in [Paths -> Record \cup {None}], mem'[cur] # None, mem'[cur].text = Text,
         \A p \in Paths : mem'[p] # None /\ mem'[p].verified => manifest[mem'[p].text] # None
  PROVE  Records'
<1> USE DEF memory, output
<1>1. InRun' BY DEF Kept, Records, InRun, Working, Text
<1>2. Exported' BY DEF Kept, Records, InRun, Exported, Text
<1>3. Permitted' BY DEF Kept, Records, Permitted, Working, Text, Clean
<1>4. NotNewer' BY DEF Kept, Records, NotNewer
<1>5. Backed(mem)' /\ Backed(disk)' BY DEF Kept, Records, Backed
<1> QED BY <1>1, <1>2, <1>3, <1>4, <1>5 DEF Records

\* The records as they are.
LEMMA RecordsNow ==
  ASSUME Kept, pc \in Working
  PROVE  /\ mem \in [Paths -> Record \cup {None}] /\ mem[cur] # None /\ mem[cur].text = Text
         /\ \A p \in Paths : mem[p] # None /\ mem[p].verified => manifest[mem[p].text] # None
         /\ cur \in DOMAIN notes /\ cur \in Paths /\ mem[cur] \in Record /\ Text \in Texts
         /\ notes[cur] \in File
  BY DEF Kept, Records, InRun, Backed, TypeOK, Text, File

LEMMA CheckKeptKeeps ==
  ASSUME Kept, CheckKept
  PROVE  Kept'
<1>1. /\ pc = "kept" /\ touched' = {}
      /\ \/ pc' \in {"save", "failed"}
         \/ /\ pc' = "current" /\ ~proof.secrets /\ cleanup # "none"
            /\ cleanup = "duplicates" =>
                 /\ Canonical # cur /\ files[Canonical] # None /\ files[Canonical].text = Text
      /\ UNCHANGED <<files, edits, cleanup, owned, late, trash, faults, memory, output, disk, lock,
                     mem, notes, todo, count, cur, proof>>
  <2> USE DEF CheckKept, HasSecrets, FirstStands
  <2>1. CASE cleanup = "none" \/ HasSecrets BY <2>1
  <2>2. CASE ~(cleanup = "none" \/ HasSecrets) /\ cleanup = "archived" BY <2>2
  <2>3. CASE ~(cleanup = "none" \/ HasSecrets) /\ cleanup # "archived" BY <2>3
  <2> QED BY <2>1, <2>2, <2>3
<1>2. pc \in Working BY <1>1 DEF Working
<1>3. Canonical \in Paths BY <1>2, RecordsNow, CanonicalHolds DEF Kept, TypeOK
<1> USE DEF memory, output
<1>4. TypeOK' BY <1>1 DEF Kept, TypeOK, Stage
<1>5. Records' BY <1>1, <1>2, RecordsNow, ChecksKeepRecords
<1>6. Taken' BY <1>1 DEF Taken
<1>7. CopyThere' BY <1>1, <1>3 DEF CopyThere, Text
<1>8. NothingLost' BY <1>1, LosesNothing
<1> QED BY <1>4, <1>5, <1>6, <1>7, <1>8 DEF Kept

LEMMA CheckCurrentKeeps ==
  ASSUME Kept, CheckCurrent
  PROVE  Kept'
<1> USE DEF CheckCurrent, Reread, Keep, user, memory, output
<1>1. pc \in Working /\ pc' \in {"save", "failed", "rename"} BY DEF Working
<1>2. TypeOK' BY <1>1 DEF Kept, TypeOK, Stage
<1>3. ~proof.secrets /\ cleanup # "none" BY DEF Kept, Records, Permitted
<1>4. Records' BY <1>1, <1>3, RecordsNow, ChecksKeepRecords
<1>5. Taken' BY <1>1 DEF Taken
<1>6. CopyThere' BY <1>1 DEF Kept, CopyThere, Text
<1>7. NothingLost' BY LosesNothing
<1> QED BY <1>2, <1>4, <1>5, <1>6, <1>7 DEF Kept

LEMMA MoveKeeps ==
  ASSUME Kept, Move
  PROVE  Kept'
<1> USE DEF Move, memory, output
<1>1. pc \in Working BY DEF Working
<1>2. ~proof.secrets /\ cleanup # "none" BY DEF Kept, Records, Permitted
<1>3. cur \in Paths BY <1>1, RecordsNow
<1>4. CASE files[cur] = None
  <2>1. TypeOK' BY <1>4 DEF Kept, TypeOK, Stage
  <2>2. Records' BY <1>1, <1>4, RecordsNow, ChecksKeepRecords
  <2>3. Taken' /\ CopyThere' BY <1>4 DEF Taken, CopyThere
  <2>4. NothingLost' BY <1>4, LosesNothing
  <2> QED BY <2>1, <2>2, <2>3, <2>4 DEF Kept
<1>5. CASE files[cur] # None
  <2> DEFINE gone == [path |-> cur, object |-> Object(files[cur])]
  <2>1. /\ pc' = "moved" /\ trash' = trash \cup {gone} /\ files' = [files EXCEPT ![cur] = None]
    BY <1>5
  <2>2. files[cur] \in File BY <1>3, <1>5 DEF Kept, TypeOK
  <2>3. gone \in Trashed /\ gone.path = cur /\ gone.object = Object(files[cur])
    BY <1>3, <2>2 DEF Trashed, Object, File
  <2> HIDE DEF gone
  <2>4. /\ files' \in [Paths -> File \cup {None}] /\ files'[cur] = None
        /\ \A q \in Paths \ {cur} : files'[q] = files[q]
    BY <1>3, <2>1 DEF Kept, TypeOK
  <2>5. TypeOK' BY <2>1, <2>3, <2>4 DEF Kept, TypeOK, Stage
  <2>6. Records' BY <1>1, <1>2, <2>1, RecordsNow, ChecksKeepRecords
  <2>7. Taken' BY <2>1, <2>3 DEF Taken
  <2>8. CopyThere' BY <2>1, <2>4 DEF Kept, CopyThere, Text
  <2>9. NothingLost'
    <3> SUFFICES ASSUME NEW o \in owned
        PROVE  \/ \E q \in Paths : files'[q] # None /\ Object(files'[q]) = o
               \/ \E m \in trash' : m.object = o
               \/ o.inode \in late
      BY DEF NothingLost, Object
    <3>1. CASE o = Object(files[cur]) BY <2>1, <2>3, <3>1
    <3>2. CASE o # Object(files[cur]) BY <2>1, <2>4, <3>2 DEF Kept, NothingLost
    <3> QED BY <3>1, <3>2
  <2> QED BY <2>5, <2>6, <2>7, <2>8, <2>9 DEF Kept
<1> QED BY <1>4, <1>5

LEMMA CheckMovedKeeps ==
  ASSUME Kept, CheckMoved
  PROVE  Kept'
<1> USE DEF CheckMoved, Vacant, Keep, user, memory, output
<1>1. pc \in Working BY DEF Working
<1> DEFINE r == [mem[cur] EXCEPT !.trash = TRUE]
<1>2. r \in Record /\ r.text = Text /\ (r.verified => manifest[Text] # None)
  BY <1>1, RecordsNow DEF Record, Numbered
<1>3. [mem EXCEPT ![cur].trash = TRUE] = [mem EXCEPT ![cur] = r] BY <1>1, RecordsNow
<1> HIDE DEF r
<1>4. /\ mem' \in [Paths -> Record \cup {None}] /\ mem'[cur] # None /\ mem'[cur].text = Text
      /\ \A p \in Paths : mem'[p] # None /\ mem'[p].verified => manifest[mem'[p].text] # None
  <2>1. CASE mem' = mem BY <1>1, <2>1, RecordsNow
  <2>2. CASE mem' = [mem EXCEPT ![cur] = r]
    BY <1>1, <1>2, <2>2, RecordChanges DEF Text
  <2> QED BY <1>3, <2>1, <2>2
<1>5. pc' \in {"save", "failed", "giveback"} /\ (pc' = "giveback" => files[cur] = None) OBVIOUS
<1>6. TypeOK' BY <1>4, <1>5 DEF Kept, TypeOK, Stage
<1>7. Records' BY <1>4, <1>5, ChecksKeepRecords
<1>8. Taken' BY <1>5 DEF Kept, Taken
<1>9. CopyThere' BY <1>5 DEF CopyThere
<1>10. NothingLost' BY LosesNothing
<1> QED BY <1>6, <1>7, <1>8, <1>9, <1>10 DEF Kept

LEMMA GiveBackKeeps ==
  ASSUME Kept, GiveBack
  PROVE  Kept'
<1> USE DEF GiveBack, memory, output
<1>1. pc \in Working /\ cur \in Paths BY RecordsNow DEF Working
<1>2. Target \in trash /\ Target.path = cur BY TargetMoved DEF Kept, TypeOK, Taken
<1> DEFINE back == [text |-> Target.object.text, inode |-> Target.object.inode, old |-> FALSE]
<1>3. back \in File /\ Object(back) = Target.object
  BY <1>2 DEF Kept, TypeOK, Trashed, File, Object
<1> HIDE DEF back
<1>4. back # None BY <1>3, NoneIsNothing
<1>5. /\ files' = [files EXCEPT ![cur] = back] /\ trash' = trash \ {Target} /\ pc' = "failed"
  BY DEF back
<1>6. /\ files' \in [Paths -> File \cup {None}] /\ files'[cur] = back
      /\ \A q \in Paths \ {cur} : files'[q] = files[q]
  BY <1>1, <1>3, <1>5 DEF Kept, TypeOK
<1>7. TypeOK' BY <1>5, <1>6 DEF Kept, TypeOK, Stage
<1>8. Records' BY <1>1, <1>5, RecordsNow, ChecksKeepRecords
<1>9. Taken' /\ CopyThere' BY <1>5 DEF Taken, CopyThere
<1>10. NothingLost'
  <2> SUFFICES ASSUME NEW o \in owned
      PROVE  \/ \E q \in Paths : files'[q] # None /\ Object(files'[q]) = o
             \/ \E m \in trash' : m.object = o
             \/ o.inode \in late
    BY DEF NothingLost, Object
  <2>1. CASE o = Target.object BY <1>1, <1>3, <1>4, <1>6, <2>1
  <2>2. CASE o # Target.object /\ \E m \in trash : m.object = o BY <1>5, <2>2
  <2>3. ASSUME NEW q \in Paths, files[q] # None, Object(files[q]) = o PROVE o.inode \in late \/ q # cur
    BY <2>3 DEF Kept, Taken, Object
  <2> QED BY <1>6, <2>1, <2>2, <2>3 DEF Kept, NothingLost
<1> QED BY <1>7, <1>8, <1>9, <1>10 DEF Kept

-----------------------------------------------------------------------------
(* A run: its outcomes and its end                                          *)

\* A record is written, verified only if there is a manifest.
LEMMA WrittenKeeps ==
  ASSUME Kept, pc \in Working, NEW r \in Record, r.text = Text,
         r.verified => manifest[Text] # None, Written(r)
  PROVE  Kept'
<1> USE DEF Written, user, memory, output
<1>1. /\ mem' \in [Paths -> Record \cup {None}]
      /\ \A p \in Paths : mem'[p] # None /\ mem'[p].verified => manifest[mem'[p].text] # None
  BY RecordChanges
<1>2. count < Batch /\ count' \in 0..Batch
  BY BoundsAssumption DEF Kept, TypeOK, Records, InRun
<1>3. TypeOK' BY <1>1, <1>2 DEF Kept, TypeOK, Stage
<1>4. InRun' /\ Exported' BY DEF InRun, Exported, Working
<1>5. Permitted' BY DEF Kept, Records, Permitted, Clean, Working
<1>6. NotNewer' BY DEF Kept, Records, NotNewer
<1>7. Backed(mem)' /\ Backed(disk)' BY <1>1 DEF Backed
<1>8. Taken' /\ CopyThere' BY DEF Taken, CopyThere
<1>9. NothingLost' BY LosesNothing
<1> QED BY <1>3, <1>4, <1>5, <1>6, <1>7, <1>8, <1>9 DEF Kept, Records

LEMMA SaveRecordKeeps ==
  ASSUME Kept, SaveRecord
  PROVE  Kept'
<1> DEFINE r == [mem[cur] EXCEPT !.verified = TRUE, !.cleanup = cleanup]
<1>1. pc = "save" /\ pc \in Working BY DEF SaveRecord, Working
<1>2. /\ mem[cur] \in Record /\ mem[cur].text = Text
      /\ mem[cur].verified => manifest[Text] # None
  BY <1>1, RecordsNow
<1>3. r \in Record /\ r.text = Text
  BY <1>2 DEF Record, Numbered, Kept, TypeOK
<1>4. CASE ~Proven /\ Written(mem[cur]) BY <1>1, <1>2, <1>4, WrittenKeeps
<1>5. CASE Proven /\ Written(r)
  <2>1. manifest[Text] # None BY <1>1, <1>5 DEF Proven, Kept, Records, Exported
  <2> HIDE DEF r
  <2> QED BY <1>1, <1>3, <1>5, <2>1, WrittenKeeps
<1>6. SaveRecord => Written(IF ~Proven THEN mem[cur] ELSE r) BY Zenon DEF SaveRecord
<1> HIDE DEF r
<1>7. CASE Proven
  <2>1. (IF ~Proven THEN mem[cur] ELSE r) = r BY <1>7
  <2> QED BY <1>5, <1>6, <1>7, <2>1
<1>8. CASE ~Proven
  <2>1. (IF ~Proven THEN mem[cur] ELSE r) = mem[cur] BY <1>8
  <2> QED BY <1>4, <1>6, <1>8, <2>1
<1> QED BY <1>7, <1>8

LEMMA SaveFailureKeeps ==
  ASSUME Kept, SaveFailure
  PROVE  Kept'
<1> DEFINE r == [mem[cur] EXCEPT !.verified = FALSE, !.cleanup = None]
<1>1. pc \in Working BY DEF SaveFailure, Working
<1>2. r \in Record /\ r.text = Text /\ ~r.verified
  BY <1>1, RecordsNow DEF Record, Numbered
<1>3. Written(r) BY Zenon DEF SaveFailure
<1> HIDE DEF r
<1> QED BY <1>1, <1>2, <1>3, WrittenKeeps

\* A run ends, and what is on disk stays.
LEMMA EndedKeeps ==
  ASSUME Kept, Ended, lock' \in {"absent", "empty", "stale"}, Fault \/ UNCHANGED faults
  PROVE  Kept'
<1> USE DEF Ended, output
<1>1. faults' \in Nat /\ edits' + faults' <= MaxEvents /\ faults <= faults' BY FaultCounted
<1>2. NoRecords \in [Paths -> Record \cup {None}] /\ \A p \in Paths : NoRecords[p] = None
  BY DEF NoRecords
<1>3. DOMAIN notes' = {} /\ notes' \in [DOMAIN notes' -> File] OBVIOUS
<1>4. TypeOK' BY <1>1, <1>2, <1>3, BoundsAssumption DEF Kept, TypeOK, Stage
<1>5. InRun' /\ Exported' /\ Permitted' BY DEF InRun, Exported, Permitted, Working
<1>6. NotNewer' BY <1>1, SameSources
<1>7. Backed(mem)' /\ Backed(disk)' BY <1>2 DEF Kept, Records, Backed
<1>8. Taken' /\ CopyThere' BY DEF Taken, CopyThere
<1>9. NothingLost' BY LosesNothing
<1> QED BY <1>4, <1>5, <1>6, <1>7, <1>8, <1>9 DEF Kept, Records

LEMMA FinishKeeps ==
  ASSUME Kept, Finish
  PROVE  Kept'
  BY EndedKeeps DEF Finish

LEMMA AbortKeeps ==
  ASSUME Kept, Abort
  PROVE  Kept'
  BY EndedKeeps DEF Abort

LEMMA CrashKeeps ==
  ASSUME Kept, Crash
  PROVE  Kept'
<1>1. lock' \in {"absent", "empty", "stale"} BY DEF Crash
<1> QED BY <1>1, EndedKeeps DEF Crash

LEMMA FailsKeeps ==
  ASSUME Kept, Fails
  PROVE  Kept'
<1> USE DEF Fails, user, memory, output
<1>1. faults' \in Nat /\ edits' + faults' <= MaxEvents /\ faults <= faults' BY FaultCounted
<1>2. TypeOK' BY <1>1 DEF Kept, TypeOK, Stage
<1>3. InRun' BY DEF Kept, Records, InRun, Working
<1>4. Exported' BY DEF Exported
<1>5. Permitted' BY DEF Kept, Records, Permitted, Clean, Working, Text
<1>6. NotNewer' BY <1>1, SameSources
<1>7. Backed(mem)' /\ Backed(disk)' BY DEF Kept, Records, Backed
<1>8. Taken' /\ CopyThere' BY DEF Taken, CopyThere
<1>9. NothingLost' BY LosesNothing
<1> QED BY <1>2, <1>3, <1>4, <1>5, <1>6, <1>7, <1>8, <1>9 DEF Kept, Records

LEMMA NextKeeps ==
  ASSUME Kept, [Next]_vars
  PROVE  Kept'
<1>1. CASE UNCHANGED vars
  <2> USE <1>1 DEF vars, user, memory, output, process
  <2>1. TypeOK' BY DEF Kept, TypeOK
  <2>2. InRun' /\ Exported' /\ Permitted'
    BY DEF Kept, Records, InRun, Exported, Permitted, Text, Clean
  <2>3. NotNewer' BY DEF Kept, Records, NotNewer
  <2>4. Backed(mem)' /\ Backed(disk)' BY DEF Kept, Records, Backed
  <2>5. Taken' /\ CopyThere' BY DEF Kept, Taken, CopyThere, Text
  <2>6. NothingLost' BY LosesNothing
  <2> QED BY <2>1, <2>2, <2>3, <2>4, <2>5, <2>6 DEF Kept, Records
<1>2. CASE Next
  BY <1>2, WriteKeeps, RemoveKeeps, AgeKeeps, RenameKeeps, ConfigureKeeps, CompleteKeeps,
     ReviseKeeps, DropKeeps, StartKeeps, CollectKeeps, SkipKeeps, BeginKeeps, CaptureKeeps,
     ExportKeeps, WriteEntriesKeeps, RecheckKeeps, CheckKeptKeeps, CheckCurrentKeeps, MoveKeeps,
     CheckMovedKeeps, GiveBackKeeps, SaveRecordKeeps, SaveFailureKeeps, FinishKeeps, FailsKeeps,
     AbortKeeps, CrashKeeps DEF Next
<1> QED BY <1>1, <1>2

-----------------------------------------------------------------------------
(* What is proved                                                           *)

\* Only the check of what was moved goes on to the outcome from there, and it moved the note.
LEMMA CleanedByCheck ==
  ASSUME Kept, [Next]_vars, pc = "moved", pc' = "save"
  PROVE  /\ Target.object.text = Text /\ UNCHANGED <<files, touched, cleanup>>
         /\ ~proof.secrets /\ Text \in held /\ cleanup # "none"
         /\ cleanup = "duplicates" =>
              \/ Text \in touched
              \/ \E p \in Paths : files[p] # None /\ files[p].text = Text
<1>1. CheckMoved
  BY DEF Next, vars, process, Write, Remove, Age, Rename, Configure, UserOnly, Complete, Revise,
     Drop, MemoryOnly, Start, Collect, Skip, Begin, Capture, Export, WriteEntries, Recheck,
     CheckKept, CheckCurrent, Move, GiveBack, SaveRecord, SaveFailure, Finish, Fails, Abort, Crash,
     Ended
<1>2. AsVerified /\ UNCHANGED <<files, touched, cleanup>> BY <1>1 DEF CheckMoved, Keep, user
<1>3. Target.object.text = Text
  BY <1>2 DEF AsVerified, Object, Text
<1>4. ~proof.secrets /\ Text \in held /\ cleanup # "none"
  BY DEF Kept, Records, InRun, Permitted, Working
<1> QED BY <1>2, <1>3, <1>4 DEF Kept, CopyThere

\* Every variable of the run, of Memory and of the disk keeps its type.
THEOREM PipelineTypes == Spec => []TypeOK
<1>1. Kept => TypeOK BY DEF Kept
<1> QED BY InitKeeps, NextKeeps, <1>1, PTL DEF Spec

\* No file the user wrote disappears, wherever its edits fall between the steps of a run.
THEOREM LossTheorem == Spec => []NothingLost
<1>1. Kept => NothingLost BY DEF Kept
<1> QED BY InitKeeps, NextKeeps, <1>1, PTL DEF Spec

\* A note that is recorded as verified has wiki files that are as new as their manifest.
THEOREM ExportTheorem == Spec => []ExportBacked
<1>1. Kept => ExportBacked
  BY DEF Kept, Records, Backed, NotNewer, ExportBacked
<1> QED BY InitKeeps, NextKeeps, <1>1, PTL DEF Spec

\* What a run cleans up was held by Memory, without secrets, during that run.
THEOREM CleanedTheorem == Spec => CleanedIsHeld
<1>1. ASSUME Kept, [Next]_vars
      PROVE  [pc = "moved" /\ pc' = "save" => Target.object.text \in held /\ cleanup # "none"]_vars
  BY <1>1, CleanedByCheck
<1> QED BY InitKeeps, NextKeeps, <1>1, PTL DEF Spec, CleanedIsHeld

\* Cleaning up duplicates leaves another copy, unless the user touched one.
THEOREM CopyTheorem == Spec => CopyStays
<1>1. ASSUME Kept, [Next]_vars
      PROVE  [pc = "moved" /\ pc' = "save" /\ cleanup = "duplicates" =>
                \/ Target.object.text \in touched
                \/ \E p \in Paths : files[p] # None /\ files[p].text = Target.object.text]_vars
  BY <1>1, CleanedByCheck
<1> QED BY InitKeeps, NextKeeps, <1>1, PTL DEF Spec, CopyStays
=============================================================================
